-------------------------------- MODULE Ulid --------------------------------
(***************************************************************************)
(* ids/ulid.go: callers of New read the wall clock, fill a 16-byte buffer  *)
(* with the time and with entropy, and encode it as 26 characters.  Bytes  *)
(* and characters are numbers; the 48-bit time is its six bytes, since     *)
(* New does nothing with it but shift it into place.                       *)
(***************************************************************************)
EXTENDS Integers, Sequences

CONSTANTS
    Callers,
    Instants,    \* what the wall clock may read, six bytes each
    Entropies    \* what rand.Read may deliver, ten bytes each

Byte == 0 .. 255

ASSUME UlidAssumption ==
    Instants \subseteq [1 .. 6 -> Byte] /\ Entropies \subseteq [1 .. 10 -> Byte]

VARIABLES
    step,   \* Callers -> the step of New
    b,      \* Callers -> the buffer
    id,     \* Callers -> the identifier New returned
    at      \* Callers -> the instant New read (history)

vars == <<step, b, id, at>>

(* The alphabet, as ASCII codes. *)
MutBase32 == [n \in 1 .. 32 |-> IF n <= 26 THEN 64 + n ELSE 23 + n]
crockford == <<48, 49, 50, 51, 52, 53, 54, 55, 56, 57,
               65, 66, 67, 68, 69, 70, 71, 72, 74, 75, 77, 78,
               80, 81, 82, 83, 84, 86, 87, 88, 89, 90>>

(* The five bytes after the n-th are eight digits: the masks and shifts of *)
(* encode.                                                                 *)
MutGroupMask(buf, n) ==
    <<buf[n+1] \div 8, (buf[n+1] % 8) * 4 + buf[n+2] \div 64, (buf[n+2] \div 2) % 32,
      (buf[n+2] % 2) * 16 + buf[n+3] \div 16, (buf[n+3] % 8) * 2 + buf[n+4] \div 128,
      (buf[n+4] \div 4) % 32, (buf[n+4] % 4) * 8 + buf[n+5] \div 32, buf[n+5] % 32>>
Group(buf, n) ==
    <<buf[n+1] \div 8, (buf[n+1] % 8) * 4 + buf[n+2] \div 64, (buf[n+2] \div 2) % 32,
      (buf[n+2] % 2) * 16 + buf[n+3] \div 16, (buf[n+3] % 16) * 2 + buf[n+4] \div 128,
      (buf[n+4] \div 4) % 32, (buf[n+4] % 4) * 8 + buf[n+5] \div 32, buf[n+5] % 32>>

digits(buf) ==
    <<buf[1] \div 32, buf[1] % 32>> \o Group(buf, 1) \o Group(buf, 6) \o Group(buf, 11)
encode(buf) == [j \in 1 .. 26 |-> crockford[digits(buf)[j] + 1]]

(* PutUint64 of ms << 16: six bytes of time, the rest zero. *)
MutStampUnshifted(ms) == [i \in 1 .. 16 |-> IF i \in 3 .. 8 THEN ms[i - 2] ELSE 0]
Stamp(ms) == [i \in 1 .. 16 |-> IF i <= 6 THEN ms[i] ELSE 0]

Init ==
    /\ step = [c \in Callers |-> "idle"]
    /\ b = [c \in Callers |-> [i \in 1 .. 16 |-> 0]]
    /\ id = [c \in Callers |-> <<>>]
    /\ at = [c \in Callers |-> [i \in 1 .. 6 |-> 0]]
-----------------------------------------------------------------------------
(* The wall clock may have been set back since the last call. *)
ReadClock(c, ms) ==
    /\ step[c] = "idle"
    /\ step' = [step EXCEPT ![c] = "stamped"]
    /\ b' = [b EXCEPT ![c] = Stamp(ms)]
    /\ id' = [id EXCEPT ![c] = <<>>]
    /\ at' = [at EXCEPT ![c] = ms]

(* rand.Read(b[6:]), under mu; it ends the program rather than fail. *)
Fill(c, entropy) ==
    /\ step[c] = "stamped"
    /\ step' = [step EXCEPT ![c] = "filled"]
    /\ b' = [b EXCEPT ![c] = [i \in 1 .. 16 |-> IF i <= 6 THEN b[c][i] ELSE entropy[i - 6]]]
    /\ UNCHANGED <<id, at>>

Encode(c) ==
    /\ step[c] = "filled"
    /\ step' = [step EXCEPT ![c] = "idle"]
    /\ id' = [id EXCEPT ![c] = encode(b[c])]
    /\ UNCHANGED <<b, at>>

Next ==
    \E c \in Callers :
        \/ \E ms \in Instants : ReadClock(c, ms)
        \/ \E e \in Entropies : Fill(c, e)
        \/ Encode(c)

Spec == Init /\ [][Next]_vars
-----------------------------------------------------------------------------
(* Strings and big-endian numbers compare alike, at the first difference. *)
Less(s, t) ==
    \E i \in DOMAIN s : s[i] < t[i] /\ \A j \in 1 .. i - 1 : s[j] = t[j]

Issued == {c \in Callers : id[c] # <<>>}

(* Bit n of the buffer, from 1; the 128 bits are padded with two zeros in  *)
(* front to 26 digits of five.                                             *)
Weight == <<128, 64, 32, 16, 8, 4, 2, 1>>
Bit(buf, n) ==
    IF n < 1 THEN 0 ELSE (buf[(n - 1) \div 8 + 1] \div Weight[((n - 1) % 8) + 1]) % 2
Digit(buf, j) == LET n == 5 * j - 6
                 IN  16 * Bit(buf, n) + 8 * Bit(buf, n + 1) + 4 * Bit(buf, n + 2)
                     + 2 * Bit(buf, n + 3) + Bit(buf, n + 4)

(* "renders the 128-bit value as 26 Crockford base32 characters": every    *)
(* character is the five bits it stands for, none twice and none left out. *)
EncodesTheBits ==
    \A c \in Issued :
        id[c] = [j \in 1 .. 26 |-> crockford[Digit(b[c], j) + 1]]

(* "lexicographically-sortable": of two identifiers the one whose New read *)
(* the earlier millisecond sorts first, whatever the entropy and in        *)
(* whichever order the calls return.                                       *)
Sortable ==
    \A c, d \in Issued : Less(at[c], at[d]) => Less(id[c], id[d])

(* Two identifiers are equal only when both the instant and the entropy    *)
(* were: the layout loses none of the 128 bits.                            *)
NothingLost ==
    \A c, d \in Issued : id[c] = id[d] => at[c] = at[d] /\ b[c] = b[d]

(* The inductive invariant of the proofs: the buffer begins with the       *)
(* instant, and an identifier is the encoding of the buffer it came from.  *)
Inv ==
    /\ step \in [Callers -> {"idle", "stamped", "filled"}]
    /\ b \in [Callers -> [1 .. 16 -> Byte]]
    /\ at \in [Callers -> [1 .. 6 -> Byte]]
    /\ DOMAIN id = Callers
    /\ \A c \in Callers :
          /\ \A i \in 1 .. 6 : b[c][i] = at[c][i]
          /\ step[c] # "idle" => id[c] = <<>>
          /\ id[c] # <<>> => id[c] = encode(b[c])
=============================================================================
