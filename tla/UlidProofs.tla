----------------------------- MODULE UlidProofs -----------------------------
(***************************************************************************)
(* Proofs about ids.New for any callers, instants and entropies: all       *)
(* 2^128 buffers, where the runs take a few.                               *)
(***************************************************************************)
EXTENDS Ulid, SequenceTheorems, TLAPS

(* The alphabet is in ASCII order, so digits and characters compare alike. *)
LEMMA Alphabet ==
    \A n \in 1 .. 32 : crockford[n] =
        IF n <= 10 THEN 47 + n ELSE IF n <= 18 THEN 54 + n ELSE IF n <= 20 THEN 55 + n
        ELSE IF n <= 22 THEN 56 + n ELSE IF n <= 27 THEN 57 + n ELSE 58 + n
BY DEF crockford

LEMMA AlphabetOrdered == \A m, n \in 1 .. 32 : m < n => crockford[m] < crockford[n]
BY Alphabet

LEMMA AlphabetInjective == \A m, n \in 1 .. 32 : crockford[m] = crockford[n] => m = n
BY Alphabet

LEMMA Joined ==
    ASSUME NEW s \in Seq(0 .. 31), NEW t \in Seq(0 .. 31)
    PROVE  /\ s \o t \in Seq(0 .. 31) /\ Len(s \o t) = Len(s) + Len(t)
           /\ \A i \in 1 .. Len(s) : (s \o t)[i] = s[i]
           /\ \A i \in 1 .. Len(t) : (s \o t)[Len(s) + i] = t[i]
<1>1. Len(s) \in Nat /\ Len(t) \in Nat
  BY LenProperties
<1> DEFINE st == s \o t
           m == Len(s)
           n == Len(t)
<1>2. /\ st \in Seq(0 .. 31) /\ Len(st) = m + n
      /\ \A i \in 1 .. m + n : st[i] = IF i <= m THEN s[i] ELSE t[i - m]
  BY ConcatProperties, Zenon
<1> HIDE DEF st, m, n
<1>3. \A i \in 1 .. m : st[i] = s[i]
  BY <1>1, <1>2 DEF m, n
<1>4. \A i \in 1 .. n : st[m + i] = t[i]
  <2> TAKE i \in 1 .. n
  <2>1. m \in Nat /\ n \in Nat /\ m + i \in 1 .. m + n /\ ~(m + i <= m) /\ (m + i) - m = i
    BY <1>1 DEF m, n
  <2> QED
    BY <1>2, <2>1, Zenon
<1> QED
  BY <1>2, <1>3, <1>4, Zenon DEF st, m, n

(* The eight digits of the five bytes after the n-th. *)
LEMMA GroupDigits ==
    ASSUME NEW buf \in [1 .. 16 -> Byte], NEW n \in {1, 6, 11}
    PROVE  /\ Group(buf, n) \in Seq(0 .. 31) /\ Len(Group(buf, n)) = 8
           /\ Group(buf, n)[1] = buf[n+1] \div 8
           /\ Group(buf, n)[2] = (buf[n+1] % 8) * 4 + buf[n+2] \div 64
           /\ Group(buf, n)[3] = (buf[n+2] \div 2) % 32
           /\ Group(buf, n)[4] = (buf[n+2] % 2) * 16 + buf[n+3] \div 16
           /\ Group(buf, n)[5] = (buf[n+3] % 16) * 2 + buf[n+4] \div 128
           /\ Group(buf, n)[6] = (buf[n+4] \div 4) % 32
           /\ Group(buf, n)[7] = (buf[n+4] % 4) * 8 + buf[n+5] \div 32
           /\ Group(buf, n)[8] = buf[n+5] % 32
<1> DEFINE x1 == buf[n+1]
           x2 == buf[n+2]
           x3 == buf[n+3]
           x4 == buf[n+4]
           x5 == buf[n+5]
           y1 == x1 \div 8
           y2 == (x1 % 8) * 4 + x2 \div 64
           y3 == (x2 \div 2) % 32
           y4 == (x2 % 2) * 16 + x3 \div 16
           y5 == (x3 % 16) * 2 + x4 \div 128
           y6 == (x4 \div 4) % 32
           y7 == (x4 % 4) * 8 + x5 \div 32
           y8 == x5 % 32
<1>1. x1 \in 0 .. 255 /\ x2 \in 0 .. 255 /\ x3 \in 0 .. 255 /\ x4 \in 0 .. 255 /\ x5 \in 0 .. 255
  BY DEF Byte
<1>2. Group(buf, n) = <<y1, y2, y3, y4, y5, y6, y7, y8>>
  BY DEF Group
<1> HIDE DEF x1, x2, x3, x4, x5
<1>3. y1 \in 0 .. 31 /\ y2 \in 0 .. 31 /\ y3 \in 0 .. 31 /\ y4 \in 0 .. 31
  BY <1>1
<1>4. y5 \in 0 .. 31 /\ y6 \in 0 .. 31 /\ y7 \in 0 .. 31 /\ y8 \in 0 .. 31
  BY <1>1
<1> HIDE DEF y1, y2, y3, y4, y5, y6, y7, y8
<1>5. /\ Group(buf, n) \in Seq(0 .. 31) /\ Len(Group(buf, n)) = 8
      /\ Group(buf, n)[1] = y1 /\ Group(buf, n)[2] = y2 /\ Group(buf, n)[3] = y3
      /\ Group(buf, n)[4] = y4 /\ Group(buf, n)[5] = y5 /\ Group(buf, n)[6] = y6
      /\ Group(buf, n)[7] = y7 /\ Group(buf, n)[8] = y8
  BY <1>2, <1>3, <1>4
<1> QED
  BY <1>5, Zenon DEF x1, x2, x3, x4, x5, y1, y2, y3, y4, y5, y6, y7, y8

(* Where the 26 digits come from. *)
LEMMA DigitsLayout ==
    ASSUME NEW buf \in [1 .. 16 -> Byte]
    PROVE  /\ digits(buf) \in Seq(0 .. 31) /\ Len(digits(buf)) = 26
           /\ digits(buf)[1] = buf[1] \div 32 /\ digits(buf)[2] = buf[1] % 32
           /\ \A i \in 1 .. 8 : digits(buf)[2 + i] = Group(buf, 1)[i]
           /\ \A i \in 1 .. 8 : digits(buf)[10 + i] = Group(buf, 6)[i]
           /\ \A i \in 1 .. 8 : digits(buf)[18 + i] = Group(buf, 11)[i]
<1> DEFINE h == <<buf[1] \div 32, buf[1] % 32>>
           g1 == Group(buf, 1)
           g2 == Group(buf, 6)
           g3 == Group(buf, 11)
<1>1. h \in Seq(0 .. 31) /\ Len(h) = 2 /\ h[1] = buf[1] \div 32 /\ h[2] = buf[1] % 32
  <2>1. buf[1] \in 0 .. 255
    BY DEF Byte
  <2>2. buf[1] \div 32 \in 0 .. 31 /\ buf[1] % 32 \in 0 .. 31
    BY <2>1
  <2> QED
    BY <2>2
<1>2. /\ g1 \in Seq(0 .. 31) /\ Len(g1) = 8 /\ g2 \in Seq(0 .. 31) /\ Len(g2) = 8
      /\ g3 \in Seq(0 .. 31) /\ Len(g3) = 8
  BY GroupDigits
<1>3. digits(buf) = ((h \o g1) \o g2) \o g3
  BY DEF digits
<1> DEFINE p == h \o g1
           q == p \o g2
           r == q \o g3
<1>4. digits(buf) = r
  BY <1>3, Zenon DEF p, q, r
<1> HIDE DEF h, g1, g2, g3, p, q, r
<1>5. /\ p \in Seq(0 .. 31) /\ Len(p) = 10
      /\ \A i \in 1 .. 2 : p[i] = h[i]
      /\ \A i \in 1 .. 8 : p[2 + i] = g1[i]
  <2>1. /\ p \in Seq(0 .. 31) /\ Len(p) = Len(h) + Len(g1)
        /\ \A i \in 1 .. Len(h) : p[i] = h[i]
        /\ \A i \in 1 .. Len(g1) : p[Len(h) + i] = g1[i]
    BY <1>1, <1>2, Joined, Zenon DEF p
  <2> QED
    BY <1>1, <1>2, <2>1
<1>6. /\ q \in Seq(0 .. 31) /\ Len(q) = 18
      /\ \A i \in 1 .. 10 : q[i] = p[i]
      /\ \A i \in 1 .. 8 : q[10 + i] = g2[i]
  <2>1. /\ q \in Seq(0 .. 31) /\ Len(q) = Len(p) + Len(g2)
        /\ \A i \in 1 .. Len(p) : q[i] = p[i]
        /\ \A i \in 1 .. Len(g2) : q[Len(p) + i] = g2[i]
    BY <1>2, <1>5, Joined, Zenon DEF q
  <2> QED
    BY <1>2, <1>5, <2>1
<1>7. /\ r \in Seq(0 .. 31) /\ Len(r) = 26
      /\ \A i \in 1 .. 18 : r[i] = q[i]
      /\ \A i \in 1 .. 8 : r[18 + i] = g3[i]
  <2>1. /\ r \in Seq(0 .. 31) /\ Len(r) = Len(q) + Len(g3)
        /\ \A i \in 1 .. Len(q) : r[i] = q[i]
        /\ \A i \in 1 .. Len(g3) : r[Len(q) + i] = g3[i]
    BY <1>2, <1>6, Joined, Zenon DEF r
  <2> QED
    BY <1>2, <1>6, <2>1
<1>8. \A i \in 1 .. 10 : r[i] = p[i]
  <2> TAKE i \in 1 .. 10
  <2>1. i \in 1 .. 18
    OBVIOUS
  <2> QED
    BY <1>6, <1>7, <2>1, Zenon
<1>9. r[1] = buf[1] \div 32 /\ r[2] = buf[1] % 32
  <2>1. r[1] = h[1] /\ r[2] = h[2]
    BY <1>5, <1>8
  <2> QED
    BY <1>1, <2>1, Zenon
<1>10. \A i \in 1 .. 8 : r[2 + i] = g1[i]
  BY <1>5, <1>8
<1>11. \A i \in 1 .. 8 : r[10 + i] = g2[i]
  <2> TAKE i \in 1 .. 8
  <2>1. 10 + i \in 1 .. 18
    OBVIOUS
  <2> QED
    BY <1>6, <1>7, <2>1, Zenon
<1> QED
  BY <1>4, <1>7, <1>9, <1>10, <1>11, Zenon DEF g1, g2, g3
-----------------------------------------------------------------------------
(* Bit r of byte k, of the 128. *)
LEMMA BitAt ==
    ASSUME NEW buf, NEW k \in 1 .. 16, NEW r \in 1 .. 8, NEW n, n = 8 * k + r - 8
    PROVE  Bit(buf, n) = (buf[k] \div Weight[r]) % 2
<1>1. n \in Int /\ ~(n < 1) /\ (n - 1) \div 8 + 1 = k /\ ((n - 1) % 8) + 1 = r
  OBVIOUS
<1> QED
  BY <1>1, Zenon DEF Bit

LEMMA Weights ==
    /\ Weight[1] = 128 /\ Weight[2] = 64 /\ Weight[3] = 32 /\ Weight[4] = 16
    /\ Weight[5] = 8 /\ Weight[6] = 4 /\ Weight[7] = 2 /\ Weight[8] = 1
BY DEF Weight

(* The i-th digit of the five bytes after the n-th holds the five bits     *)
(* from the (5i - 4)-th on.                                                *)
LEMMA GroupIsBits ==
    ASSUME NEW buf \in [1 .. 16 -> Byte], NEW n \in {1, 6, 11}, NEW i \in 1 .. 8,
           NEW j \in 1 .. 26, 5 * j - 6 = 8 * n + 5 * i - 4
    PROVE  Digit(buf, j) = Group(buf, n)[i]
<1> DEFINE m == 5 * j - 6
           B(k, r) == (buf[k] \div Weight[r]) % 2
<1>1. Digit(buf, j) = 16 * Bit(buf, m) + 8 * Bit(buf, m + 1) + 4 * Bit(buf, m + 2)
                      + 2 * Bit(buf, m + 3) + Bit(buf, m + 4)
  BY Zenon DEF Digit
<1>2. \A k \in 1 .. 5 : n + k \in 1 .. 16 /\ buf[n + k] \in 0 .. 255
  BY DEF Byte
<1>3. \A k \in 1 .. 5, r \in 1 .. 8, p \in Int :
        p = 8 * (n + k) + r - 8 => Bit(buf, p) = B(n + k, r)
  BY <1>2, BitAt
<1>4. m \in Int /\ n \in Int
  OBVIOUS
<1> HIDE DEF m, B
<1>5. CASE i = 1
  <2>1. /\ Bit(buf, m) = B(n + 1, 1)
        /\ Bit(buf, m + 1) = B(n + 1, 2)
        /\ Bit(buf, m + 2) = B(n + 1, 3)
        /\ Bit(buf, m + 3) = B(n + 1, 4)
        /\ Bit(buf, m + 4) = B(n + 1, 5)
    <3>1. m = 8 * n + 1
      BY <1>5 DEF m
    <3> QED
      BY <1>3, <1>4, <3>1
  <2>2. /\ B(n + 1, 1) = (buf[n + 1] \div 128) % 2
        /\ B(n + 1, 2) = (buf[n + 1] \div 64) % 2
        /\ B(n + 1, 3) = (buf[n + 1] \div 32) % 2
        /\ B(n + 1, 4) = (buf[n + 1] \div 16) % 2
        /\ B(n + 1, 5) = (buf[n + 1] \div 8) % 2
    BY Weights DEF B
  <2>3. \A x \in 0 .. 255 : x \div 8
            = 16 * ((x \div 128) % 2) + 8 * ((x \div 64) % 2) + 4 * ((x \div 32) % 2)
              + 2 * ((x \div 16) % 2) + ((x \div 8) % 2)
    OBVIOUS
  <2>4. Group(buf, n)[i] = buf[n+1] \div 8
    BY <1>5, GroupDigits
  <2> QED
    BY <1>1, <1>2, <2>1, <2>2, <2>3, <2>4
<1>6. CASE i = 2
  <2>1. /\ Bit(buf, m) = B(n + 1, 6)
        /\ Bit(buf, m + 1) = B(n + 1, 7)
        /\ Bit(buf, m + 2) = B(n + 1, 8)
        /\ Bit(buf, m + 3) = B(n + 2, 1)
        /\ Bit(buf, m + 4) = B(n + 2, 2)
    <3>1. m = 8 * n + 6
      BY <1>6 DEF m
    <3> QED
      BY <1>3, <1>4, <3>1
  <2>2. /\ B(n + 1, 6) = (buf[n + 1] \div 4) % 2
        /\ B(n + 1, 7) = (buf[n + 1] \div 2) % 2
        /\ B(n + 1, 8) = (buf[n + 1] \div 1) % 2
        /\ B(n + 2, 1) = (buf[n + 2] \div 128) % 2
        /\ B(n + 2, 2) = (buf[n + 2] \div 64) % 2
    BY Weights DEF B
  <2>3. \A x, y \in 0 .. 255 : (x % 8) * 4 + y \div 64
            = 16 * ((x \div 4) % 2) + 8 * ((x \div 2) % 2) + 4 * ((x \div 1) % 2)
              + 2 * ((y \div 128) % 2) + ((y \div 64) % 2)
    OBVIOUS
  <2>4. Group(buf, n)[i] = (buf[n+1] % 8) * 4 + buf[n+2] \div 64
    BY <1>6, GroupDigits
  <2> QED
    BY <1>1, <1>2, <2>1, <2>2, <2>3, <2>4
<1>7. CASE i = 3
  <2>1. /\ Bit(buf, m) = B(n + 2, 3)
        /\ Bit(buf, m + 1) = B(n + 2, 4)
        /\ Bit(buf, m + 2) = B(n + 2, 5)
        /\ Bit(buf, m + 3) = B(n + 2, 6)
        /\ Bit(buf, m + 4) = B(n + 2, 7)
    <3>1. m = 8 * n + 11
      BY <1>7 DEF m
    <3> QED
      BY <1>3, <1>4, <3>1
  <2>2. /\ B(n + 2, 3) = (buf[n + 2] \div 32) % 2
        /\ B(n + 2, 4) = (buf[n + 2] \div 16) % 2
        /\ B(n + 2, 5) = (buf[n + 2] \div 8) % 2
        /\ B(n + 2, 6) = (buf[n + 2] \div 4) % 2
        /\ B(n + 2, 7) = (buf[n + 2] \div 2) % 2
    BY Weights DEF B
  <2>3. \A x \in 0 .. 255 : (x \div 2) % 32
            = 16 * ((x \div 32) % 2) + 8 * ((x \div 16) % 2) + 4 * ((x \div 8) % 2)
              + 2 * ((x \div 4) % 2) + ((x \div 2) % 2)
    OBVIOUS
  <2>4. Group(buf, n)[i] = (buf[n+2] \div 2) % 32
    BY <1>7, GroupDigits
  <2> QED
    BY <1>1, <1>2, <2>1, <2>2, <2>3, <2>4
<1>8. CASE i = 4
  <2>1. /\ Bit(buf, m) = B(n + 2, 8)
        /\ Bit(buf, m + 1) = B(n + 3, 1)
        /\ Bit(buf, m + 2) = B(n + 3, 2)
        /\ Bit(buf, m + 3) = B(n + 3, 3)
        /\ Bit(buf, m + 4) = B(n + 3, 4)
    <3>1. m = 8 * n + 16
      BY <1>8 DEF m
    <3> QED
      BY <1>3, <1>4, <3>1
  <2>2. /\ B(n + 2, 8) = (buf[n + 2] \div 1) % 2
        /\ B(n + 3, 1) = (buf[n + 3] \div 128) % 2
        /\ B(n + 3, 2) = (buf[n + 3] \div 64) % 2
        /\ B(n + 3, 3) = (buf[n + 3] \div 32) % 2
        /\ B(n + 3, 4) = (buf[n + 3] \div 16) % 2
    BY Weights DEF B
  <2>3. \A x, y \in 0 .. 255 : (x % 2) * 16 + y \div 16
            = 16 * ((x \div 1) % 2) + 8 * ((y \div 128) % 2) + 4 * ((y \div 64) % 2)
              + 2 * ((y \div 32) % 2) + ((y \div 16) % 2)
    OBVIOUS
  <2>4. Group(buf, n)[i] = (buf[n+2] % 2) * 16 + buf[n+3] \div 16
    BY <1>8, GroupDigits
  <2> QED
    BY <1>1, <1>2, <2>1, <2>2, <2>3, <2>4
<1>9. CASE i = 5
  <2>1. /\ Bit(buf, m) = B(n + 3, 5)
        /\ Bit(buf, m + 1) = B(n + 3, 6)
        /\ Bit(buf, m + 2) = B(n + 3, 7)
        /\ Bit(buf, m + 3) = B(n + 3, 8)
        /\ Bit(buf, m + 4) = B(n + 4, 1)
    <3>1. m = 8 * n + 21
      BY <1>9 DEF m
    <3> QED
      BY <1>3, <1>4, <3>1
  <2>2. /\ B(n + 3, 5) = (buf[n + 3] \div 8) % 2
        /\ B(n + 3, 6) = (buf[n + 3] \div 4) % 2
        /\ B(n + 3, 7) = (buf[n + 3] \div 2) % 2
        /\ B(n + 3, 8) = (buf[n + 3] \div 1) % 2
        /\ B(n + 4, 1) = (buf[n + 4] \div 128) % 2
    BY Weights DEF B
  <2>3. \A x, y \in 0 .. 255 : (x % 16) * 2 + y \div 128
            = 16 * ((x \div 8) % 2) + 8 * ((x \div 4) % 2) + 4 * ((x \div 2) % 2)
              + 2 * ((x \div 1) % 2) + ((y \div 128) % 2)
    OBVIOUS
  <2>4. Group(buf, n)[i] = (buf[n+3] % 16) * 2 + buf[n+4] \div 128
    BY <1>9, GroupDigits
  <2> QED
    BY <1>1, <1>2, <2>1, <2>2, <2>3, <2>4
<1>10. CASE i = 6
  <2>1. /\ Bit(buf, m) = B(n + 4, 2)
        /\ Bit(buf, m + 1) = B(n + 4, 3)
        /\ Bit(buf, m + 2) = B(n + 4, 4)
        /\ Bit(buf, m + 3) = B(n + 4, 5)
        /\ Bit(buf, m + 4) = B(n + 4, 6)
    <3>1. m = 8 * n + 26
      BY <1>10 DEF m
    <3> QED
      BY <1>3, <1>4, <3>1
  <2>2. /\ B(n + 4, 2) = (buf[n + 4] \div 64) % 2
        /\ B(n + 4, 3) = (buf[n + 4] \div 32) % 2
        /\ B(n + 4, 4) = (buf[n + 4] \div 16) % 2
        /\ B(n + 4, 5) = (buf[n + 4] \div 8) % 2
        /\ B(n + 4, 6) = (buf[n + 4] \div 4) % 2
    BY Weights DEF B
  <2>3. \A x \in 0 .. 255 : (x \div 4) % 32
            = 16 * ((x \div 64) % 2) + 8 * ((x \div 32) % 2) + 4 * ((x \div 16) % 2)
              + 2 * ((x \div 8) % 2) + ((x \div 4) % 2)
    OBVIOUS
  <2>4. Group(buf, n)[i] = (buf[n+4] \div 4) % 32
    BY <1>10, GroupDigits
  <2> QED
    BY <1>1, <1>2, <2>1, <2>2, <2>3, <2>4
<1>11. CASE i = 7
  <2>1. /\ Bit(buf, m) = B(n + 4, 7)
        /\ Bit(buf, m + 1) = B(n + 4, 8)
        /\ Bit(buf, m + 2) = B(n + 5, 1)
        /\ Bit(buf, m + 3) = B(n + 5, 2)
        /\ Bit(buf, m + 4) = B(n + 5, 3)
    <3>1. m = 8 * n + 31
      BY <1>11 DEF m
    <3> QED
      BY <1>3, <1>4, <3>1
  <2>2. /\ B(n + 4, 7) = (buf[n + 4] \div 2) % 2
        /\ B(n + 4, 8) = (buf[n + 4] \div 1) % 2
        /\ B(n + 5, 1) = (buf[n + 5] \div 128) % 2
        /\ B(n + 5, 2) = (buf[n + 5] \div 64) % 2
        /\ B(n + 5, 3) = (buf[n + 5] \div 32) % 2
    BY Weights DEF B
  <2>3. \A x, y \in 0 .. 255 : (x % 4) * 8 + y \div 32
            = 16 * ((x \div 2) % 2) + 8 * ((x \div 1) % 2) + 4 * ((y \div 128) % 2)
              + 2 * ((y \div 64) % 2) + ((y \div 32) % 2)
    OBVIOUS
  <2>4. Group(buf, n)[i] = (buf[n+4] % 4) * 8 + buf[n+5] \div 32
    BY <1>11, GroupDigits
  <2> QED
    BY <1>1, <1>2, <2>1, <2>2, <2>3, <2>4
<1>12. CASE i = 8
  <2>1. /\ Bit(buf, m) = B(n + 5, 4)
        /\ Bit(buf, m + 1) = B(n + 5, 5)
        /\ Bit(buf, m + 2) = B(n + 5, 6)
        /\ Bit(buf, m + 3) = B(n + 5, 7)
        /\ Bit(buf, m + 4) = B(n + 5, 8)
    <3>1. m = 8 * n + 36
      BY <1>12 DEF m
    <3> QED
      BY <1>3, <1>4, <3>1
  <2>2. /\ B(n + 5, 4) = (buf[n + 5] \div 16) % 2
        /\ B(n + 5, 5) = (buf[n + 5] \div 8) % 2
        /\ B(n + 5, 6) = (buf[n + 5] \div 4) % 2
        /\ B(n + 5, 7) = (buf[n + 5] \div 2) % 2
        /\ B(n + 5, 8) = (buf[n + 5] \div 1) % 2
    BY Weights DEF B
  <2>3. \A x \in 0 .. 255 : x % 32
            = 16 * ((x \div 16) % 2) + 8 * ((x \div 8) % 2) + 4 * ((x \div 4) % 2)
              + 2 * ((x \div 2) % 2) + ((x \div 1) % 2)
    OBVIOUS
  <2>4. Group(buf, n)[i] = buf[n+5] % 32
    BY <1>12, GroupDigits
  <2> QED
    BY <1>1, <1>2, <2>1, <2>2, <2>3, <2>4
<1> QED
  BY <1>5, <1>6, <1>7, <1>8, <1>9, <1>10, <1>11, <1>12

(* The first byte is two digits, the first with two zeros in front. *)
LEMMA HeadIsBits ==
    ASSUME NEW buf \in [1 .. 16 -> Byte]
    PROVE  Digit(buf, 1) = buf[1] \div 32 /\ Digit(buf, 2) = buf[1] % 32
<1>1. buf[1] \in 0 .. 255
  BY DEF Byte
<1>2. \A r \in 1 .. 8 : Bit(buf, r) = (buf[1] \div Weight[r]) % 2
  BY BitAt
<1>3. Bit(buf, -1) = 0 /\ Bit(buf, 0) = 0
  BY DEF Bit
<1>4. Digit(buf, 1) = 16 * Bit(buf, -1) + 8 * Bit(buf, 0) + 4 * Bit(buf, 1)
                      + 2 * Bit(buf, 2) + Bit(buf, 3)
  BY DEF Digit
<1>5. Digit(buf, 2) = 16 * Bit(buf, 4) + 8 * Bit(buf, 5) + 4 * Bit(buf, 6)
                      + 2 * Bit(buf, 7) + Bit(buf, 8)
  BY DEF Digit
<1>6. /\ Bit(buf, 1) = (buf[1] \div 128) % 2 /\ Bit(buf, 2) = (buf[1] \div 64) % 2
      /\ Bit(buf, 3) = (buf[1] \div 32) % 2 /\ Bit(buf, 4) = (buf[1] \div 16) % 2
      /\ Bit(buf, 5) = (buf[1] \div 8) % 2 /\ Bit(buf, 6) = (buf[1] \div 4) % 2
      /\ Bit(buf, 7) = (buf[1] \div 2) % 2 /\ Bit(buf, 8) = (buf[1] \div 1) % 2
  BY <1>2, Weights
<1>7. \A x \in 0 .. 255 :
        x \div 32 = 4 * ((x \div 128) % 2) + 2 * ((x \div 64) % 2) + ((x \div 32) % 2)
  OBVIOUS
<1>8. \A x \in 0 .. 255 :
        x % 32 = 16 * ((x \div 16) % 2) + 8 * ((x \div 8) % 2) + 4 * ((x \div 4) % 2)
                 + 2 * ((x \div 2) % 2) + ((x \div 1) % 2)
  OBVIOUS
<1> QED
  BY <1>1, <1>3, <1>4, <1>5, <1>6, <1>7, <1>8

(* Every digit is the five bits it stands for. *)
LEMMA DigitsAreBits ==
    ASSUME NEW buf \in [1 .. 16 -> Byte], NEW j \in 1 .. 26
    PROVE  digits(buf)[j] = Digit(buf, j)
<1>1. CASE j \in 1 .. 2
  <2>1. j = 1 \/ j = 2
    BY <1>1
  <2>2. digits(buf)[1] = buf[1] \div 32 /\ digits(buf)[2] = buf[1] % 32
    BY DigitsLayout
  <2>3. Digit(buf, 1) = buf[1] \div 32 /\ Digit(buf, 2) = buf[1] % 32
    BY HeadIsBits
  <2> QED
    BY <2>1, <2>2, <2>3, Zenon
<1>2. CASE j \in 3 .. 10
  <2>1. PICK i \in 1 .. 8 : j = 2 + i
    <3>1. j - 2 \in 1 .. 8 /\ j = 2 + (j - 2)
      BY <1>2
    <3> QED
      BY <3>1
  <2>2. Digit(buf, j) = Group(buf, 1)[i]
    BY <2>1, GroupIsBits
  <2> QED
    BY <2>1, <2>2, DigitsLayout, Zenon
<1>3. CASE j \in 11 .. 18
  <2>1. PICK i \in 1 .. 8 : j = 10 + i
    <3>1. j - 10 \in 1 .. 8 /\ j = 10 + (j - 10)
      BY <1>3
    <3> QED
      BY <3>1
  <2>2. Digit(buf, j) = Group(buf, 6)[i]
    BY <2>1, GroupIsBits
  <2> QED
    BY <2>1, <2>2, DigitsLayout, Zenon
<1>4. CASE j \in 19 .. 26
  <2>1. PICK i \in 1 .. 8 : j = 18 + i
    <3>1. j - 18 \in 1 .. 8 /\ j = 18 + (j - 18)
      BY <1>4
    <3> QED
      BY <3>1
  <2>2. Digit(buf, j) = Group(buf, 11)[i]
    BY <2>1, GroupIsBits
  <2> QED
    BY <2>1, <2>2, DigitsLayout, Zenon
<1> QED
  BY <1>1, <1>2, <1>3, <1>4

LEMMA EncodeIsBits ==
    ASSUME NEW buf \in [1 .. 16 -> Byte]
    PROVE  encode(buf) = [j \in 1 .. 26 |-> crockford[Digit(buf, j) + 1]]
BY DigitsAreBits, Zenon DEF encode
-----------------------------------------------------------------------------
(* Equal digits are equal bytes. *)
LEMMA GroupInjective ==
    ASSUME NEW p \in [1 .. 16 -> Byte], NEW q \in [1 .. 16 -> Byte], NEW n \in {1, 6, 11},
           \A i \in 1 .. 8 : Group(p, n)[i] = Group(q, n)[i]
    PROVE  /\ p[n+1] = q[n+1] /\ p[n+2] = q[n+2] /\ p[n+3] = q[n+3]
           /\ p[n+4] = q[n+4] /\ p[n+5] = q[n+5]
<1> DEFINE x1 == p[n+1]
           x2 == p[n+2]
           x3 == p[n+3]
           x4 == p[n+4]
           x5 == p[n+5]
           u1 == q[n+1]
           u2 == q[n+2]
           u3 == q[n+3]
           u4 == q[n+4]
           u5 == q[n+5]
<1>1. /\ x1 \in 0 .. 255 /\ x2 \in 0 .. 255 /\ x3 \in 0 .. 255
      /\ x4 \in 0 .. 255 /\ x5 \in 0 .. 255
      /\ u1 \in 0 .. 255 /\ u2 \in 0 .. 255 /\ u3 \in 0 .. 255
      /\ u4 \in 0 .. 255 /\ u5 \in 0 .. 255
  BY DEF Byte
<1>2. /\ Group(p, n)[1] = Group(q, n)[1]
      /\ Group(p, n)[2] = Group(q, n)[2]
      /\ Group(p, n)[3] = Group(q, n)[3]
      /\ Group(p, n)[4] = Group(q, n)[4]
      /\ Group(p, n)[5] = Group(q, n)[5]
      /\ Group(p, n)[6] = Group(q, n)[6]
      /\ Group(p, n)[7] = Group(q, n)[7]
      /\ Group(p, n)[8] = Group(q, n)[8]
  <2>1. /\ 1 \in 1 .. 8 /\ 2 \in 1 .. 8 /\ 3 \in 1 .. 8 /\ 4 \in 1 .. 8
        /\ 5 \in 1 .. 8 /\ 6 \in 1 .. 8 /\ 7 \in 1 .. 8 /\ 8 \in 1 .. 8
    OBVIOUS
  <2> QED
    BY <2>1, Zenon
<1>3. x1 \div 8 = u1 \div 8
  <2>1. Group(p, n)[1] = x1 \div 8
    BY GroupDigits
  <2>2. Group(q, n)[1] = u1 \div 8
    BY GroupDigits
  <2> QED
    BY <1>2, <2>1, <2>2
<1>4. (x1 % 8) * 4 + x2 \div 64 = (u1 % 8) * 4 + u2 \div 64
  <2>1. Group(p, n)[2] = (x1 % 8) * 4 + x2 \div 64
    BY GroupDigits
  <2>2. Group(q, n)[2] = (u1 % 8) * 4 + u2 \div 64
    BY GroupDigits
  <2> QED
    BY <1>2, <2>1, <2>2
<1>5. (x2 \div 2) % 32 = (u2 \div 2) % 32
  <2>1. Group(p, n)[3] = (x2 \div 2) % 32
    BY GroupDigits
  <2>2. Group(q, n)[3] = (u2 \div 2) % 32
    BY GroupDigits
  <2> QED
    BY <1>2, <2>1, <2>2
<1>6. (x2 % 2) * 16 + x3 \div 16 = (u2 % 2) * 16 + u3 \div 16
  <2>1. Group(p, n)[4] = (x2 % 2) * 16 + x3 \div 16
    BY GroupDigits
  <2>2. Group(q, n)[4] = (u2 % 2) * 16 + u3 \div 16
    BY GroupDigits
  <2> QED
    BY <1>2, <2>1, <2>2
<1>7. (x3 % 16) * 2 + x4 \div 128 = (u3 % 16) * 2 + u4 \div 128
  <2>1. Group(p, n)[5] = (x3 % 16) * 2 + x4 \div 128
    BY GroupDigits
  <2>2. Group(q, n)[5] = (u3 % 16) * 2 + u4 \div 128
    BY GroupDigits
  <2> QED
    BY <1>2, <2>1, <2>2
<1>8. (x4 \div 4) % 32 = (u4 \div 4) % 32
  <2>1. Group(p, n)[6] = (x4 \div 4) % 32
    BY GroupDigits
  <2>2. Group(q, n)[6] = (u4 \div 4) % 32
    BY GroupDigits
  <2> QED
    BY <1>2, <2>1, <2>2
<1>9. (x4 % 4) * 8 + x5 \div 32 = (u4 % 4) * 8 + u5 \div 32
  <2>1. Group(p, n)[7] = (x4 % 4) * 8 + x5 \div 32
    BY GroupDigits
  <2>2. Group(q, n)[7] = (u4 % 4) * 8 + u5 \div 32
    BY GroupDigits
  <2> QED
    BY <1>2, <2>1, <2>2
<1>10. x5 % 32 = u5 % 32
  <2>1. Group(p, n)[8] = x5 % 32
    BY GroupDigits
  <2>2. Group(q, n)[8] = u5 % 32
    BY GroupDigits
  <2> QED
    BY <1>2, <2>1, <2>2
<1> HIDE DEF x1, x2, x3, x4, x5, u1, u2, u3, u4, u5
<1>11. x1 = u1 /\ x2 \div 64 = u2 \div 64
  <2>1. x1 % 8 = u1 % 8 /\ x2 \div 64 = u2 \div 64
    BY <1>1, <1>4
  <2> QED
    BY <1>1, <1>3, <2>1
<1>12. x2 = u2 /\ x3 \div 16 = u3 \div 16
  BY <1>1, <1>5, <1>6, <1>11
<1>13. x3 = u3 /\ x4 \div 128 = u4 \div 128
  BY <1>1, <1>7, <1>12
<1>14. x4 = u4 /\ x5 \div 32 = u5 \div 32
  <2>1. x4 % 4 = u4 % 4 /\ x5 \div 32 = u5 \div 32
    BY <1>1, <1>9
  <2>2. \A x \in 0 .. 255 : x \div 4 = 32 * (x \div 128) + ((x \div 4) % 32)
    OBVIOUS
  <2>3. x4 \div 4 = u4 \div 4
    BY <1>1, <1>8, <1>13, <2>2
  <2> QED
    BY <1>1, <2>1, <2>3
<1>15. x5 = u5
  BY <1>1, <1>10, <1>14
<1> QED
  BY <1>11, <1>12, <1>13, <1>14, <1>15 DEF x1, x2, x3, x4, x5, u1, u2, u3, u4, u5

(* Characters stand for digits one to one, and in order. *)
LEMMA EncodeChars ==
    ASSUME NEW p \in [1 .. 16 -> Byte], NEW q \in [1 .. 16 -> Byte], NEW j \in 1 .. 26
    PROVE  /\ encode(p)[j] = encode(q)[j] <=> digits(p)[j] = digits(q)[j]
           /\ digits(p)[j] < digits(q)[j] => encode(p)[j] < encode(q)[j]
<1>1. digits(p)[j] \in 0 .. 31 /\ digits(q)[j] \in 0 .. 31
  <2>1. /\ digits(p) \in Seq(0 .. 31) /\ Len(digits(p)) = 26
        /\ digits(q) \in Seq(0 .. 31) /\ Len(digits(q)) = 26
    BY DigitsLayout
  <2>2. j \in 1 .. Len(digits(p)) /\ j \in 1 .. Len(digits(q))
    BY <2>1
  <2> QED
    BY <2>1, <2>2, ElementOfSeq, Zenon
<1>2. /\ encode(p)[j] = crockford[digits(p)[j] + 1]
      /\ encode(q)[j] = crockford[digits(q)[j] + 1]
  BY Zenon DEF encode
<1>3. \A m, n \in 0 .. 31 :
        /\ crockford[m + 1] = crockford[n + 1] <=> m = n
        /\ m < n => crockford[m + 1] < crockford[n + 1]
  <2> TAKE m, n \in 0 .. 31
  <2>1. /\ m + 1 \in 1 .. 32 /\ n + 1 \in 1 .. 32
        /\ m + 1 = n + 1 <=> m = n
        /\ m < n <=> m + 1 < n + 1
    OBVIOUS
  <2> QED
    BY <2>1, AlphabetOrdered, AlphabetInjective, Zenon
<1> QED
  BY <1>1, <1>2, <1>3, Zenon

LEMMA EncodeInjective ==
    ASSUME NEW p \in [1 .. 16 -> Byte], NEW q \in [1 .. 16 -> Byte], encode(p) = encode(q)
    PROVE  p = q
<1>1. \A j \in 1 .. 26 : digits(p)[j] = digits(q)[j]
  BY EncodeChars
<1>2. p[1] = q[1]
  <2>1. digits(p)[1] = p[1] \div 32 /\ digits(p)[2] = p[1] % 32
    BY DigitsLayout
  <2>2. digits(q)[1] = q[1] \div 32 /\ digits(q)[2] = q[1] % 32
    BY DigitsLayout
  <2>3. p[1] \in 0 .. 255 /\ q[1] \in 0 .. 255
    BY DEF Byte
  <2>4. p[1] \div 32 = q[1] \div 32 /\ p[1] % 32 = q[1] % 32
    BY <1>1, <2>1, <2>2
  <2> QED
    BY <2>3, <2>4
<1>3. \A i \in 1 .. 8 : Group(p, 1)[i] = Group(q, 1)[i]
  <2> TAKE i \in 1 .. 8
  <2>1. 2 + i \in 1 .. 26
    OBVIOUS
  <2>2. digits(p)[2 + i] = Group(p, 1)[i] /\ digits(q)[2 + i] = Group(q, 1)[i]
    BY DigitsLayout
  <2> QED
    BY <1>1, <2>1, <2>2, Zenon
<1>4. \A i \in 1 .. 8 : Group(p, 6)[i] = Group(q, 6)[i]
  <2> TAKE i \in 1 .. 8
  <2>1. 10 + i \in 1 .. 26
    OBVIOUS
  <2>2. digits(p)[10 + i] = Group(p, 6)[i] /\ digits(q)[10 + i] = Group(q, 6)[i]
    BY DigitsLayout
  <2> QED
    BY <1>1, <2>1, <2>2, Zenon
<1>5. \A i \in 1 .. 8 : Group(p, 11)[i] = Group(q, 11)[i]
  <2> TAKE i \in 1 .. 8
  <2>1. 18 + i \in 1 .. 26
    OBVIOUS
  <2>2. digits(p)[18 + i] = Group(p, 11)[i] /\ digits(q)[18 + i] = Group(q, 11)[i]
    BY DigitsLayout
  <2> QED
    BY <1>1, <2>1, <2>2, Zenon
<1>6. p[2] = q[2] /\ p[3] = q[3] /\ p[4] = q[4] /\ p[5] = q[5] /\ p[6] = q[6]
  BY <1>3, GroupInjective
<1>7. p[7] = q[7] /\ p[8] = q[8] /\ p[9] = q[9] /\ p[10] = q[10] /\ p[11] = q[11]
  BY <1>4, GroupInjective
<1>8. p[12] = q[12] /\ p[13] = q[13] /\ p[14] = q[14] /\ p[15] = q[15] /\ p[16] = q[16]
  BY <1>5, GroupInjective
<1>9. \A i \in 1 .. 16 : p[i] = q[i]
  BY <1>2, <1>6, <1>7, <1>8
<1> QED
  BY <1>9
-----------------------------------------------------------------------------
(* The ten digits of the time. *)
LEMMA TimeDigits ==
    ASSUME NEW p \in [1 .. 16 -> Byte]
    PROVE  /\ digits(p)[1] = p[1] \div 32
           /\ digits(p)[2] = p[1] % 32
           /\ digits(p)[3] = p[2] \div 8
           /\ digits(p)[4] = (p[2] % 8) * 4 + p[3] \div 64
           /\ digits(p)[5] = (p[3] \div 2) % 32
           /\ digits(p)[6] = (p[3] % 2) * 16 + p[4] \div 16
           /\ digits(p)[7] = (p[4] % 16) * 2 + p[5] \div 128
           /\ digits(p)[8] = (p[5] \div 4) % 32
           /\ digits(p)[9] = (p[5] % 4) * 8 + p[6] \div 32
           /\ digits(p)[10] = p[6] % 32
<1>1. /\ digits(p)[1] = p[1] \div 32 /\ digits(p)[2] = p[1] % 32
      /\ \A i \in 1 .. 8 : digits(p)[2 + i] = Group(p, 1)[i]
  BY DigitsLayout
<1>2. /\ digits(p)[3] = Group(p, 1)[1] /\ digits(p)[4] = Group(p, 1)[2]
      /\ digits(p)[5] = Group(p, 1)[3] /\ digits(p)[6] = Group(p, 1)[4]
      /\ digits(p)[7] = Group(p, 1)[5] /\ digits(p)[8] = Group(p, 1)[6]
      /\ digits(p)[9] = Group(p, 1)[7] /\ digits(p)[10] = Group(p, 1)[8]
  BY <1>1
<1>3. digits(p)[3] = p[2] \div 8
  BY <1>2, GroupDigits
<1>4. digits(p)[4] = (p[2] % 8) * 4 + p[3] \div 64
  BY <1>2, GroupDigits
<1>5. digits(p)[5] = (p[3] \div 2) % 32
  BY <1>2, GroupDigits
<1>6. digits(p)[6] = (p[3] % 2) * 16 + p[4] \div 16
  BY <1>2, GroupDigits
<1>7. digits(p)[7] = (p[4] % 16) * 2 + p[5] \div 128
  BY <1>2, GroupDigits
<1>8. digits(p)[8] = (p[5] \div 4) % 32
  BY <1>2, GroupDigits
<1>9. digits(p)[9] = (p[5] % 4) * 8 + p[6] \div 32
  BY <1>2, GroupDigits
<1>10. digits(p)[10] = p[6] % 32
  BY <1>2, GroupDigits
<1> QED
  BY <1>1, <1>3, <1>4, <1>5, <1>6, <1>7, <1>8, <1>9, <1>10

(* Numbers compare by quotient, then by remainder. *)
LEMMA Compare ==
    ASSUME NEW x \in Nat, NEW y \in Nat, x < y, NEW m \in {2, 4, 32}
    PROVE  x \div m < y \div m \/ (x \div m = y \div m /\ x % m < y % m)
<1> DEFINE a == x \div m
           c == y \div m
           r == x % m
           z == y % m
<1>1. CASE m = 2
  <2>1. /\ a \in Int /\ c \in Int /\ r \in 0 .. 1 /\ z \in 0 .. 1
        /\ x = 2 * a + r /\ y = 2 * c + z
    BY <1>1
  <2> HIDE DEF a, c, r, z
  <2>2. a < c \/ (a = c /\ r < z)
    BY <2>1
  <2> QED
    BY <2>2, Zenon DEF a, c, r, z
<1>2. CASE m = 4
  <2>1. /\ a \in Int /\ c \in Int /\ r \in 0 .. 3 /\ z \in 0 .. 3
        /\ x = 4 * a + r /\ y = 4 * c + z
    BY <1>2
  <2> HIDE DEF a, c, r, z
  <2>2. a < c \/ (a = c /\ r < z)
    BY <2>1
  <2> QED
    BY <2>2, Zenon DEF a, c, r, z
<1>3. CASE m = 32
  <2>1. /\ a \in Int /\ c \in Int /\ r \in 0 .. 31 /\ z \in 0 .. 31
        /\ x = 32 * a + r /\ y = 32 * c + z
    BY <1>3
  <2> HIDE DEF a, c, r, z
  <2>2. a < c \/ (a = c /\ r < z)
    BY <2>1
  <2> QED
    BY <2>2, Zenon DEF a, c, r, z
<1> QED
  BY <1>1, <1>2, <1>3

(* A smaller time has smaller digits: at the first byte that differs, the  *)
(* first digit that differs is smaller.                                    *)
LEMMA TimeOrdered ==
    ASSUME NEW p \in [1 .. 16 -> Byte], NEW q \in [1 .. 16 -> Byte], NEW i \in 1 .. 6,
           p[i] < q[i], \A j \in 1 .. i - 1 : p[j] = q[j]
    PROVE  Less(digits(p), digits(q))
<1> DEFINE P(j) == digits(p)[j]
           Q(j) == digits(q)[j]
           x1 == p[1]
           x2 == p[2]
           x3 == p[3]
           x4 == p[4]
           x5 == p[5]
           x6 == p[6]
           y1 == q[1]
           y2 == q[2]
           y3 == q[3]
           y4 == q[4]
           y5 == q[5]
           y6 == q[6]
<1>1. /\ x1 \in 0 .. 255 /\ x2 \in 0 .. 255 /\ x3 \in 0 .. 255
      /\ x4 \in 0 .. 255 /\ x5 \in 0 .. 255 /\ x6 \in 0 .. 255
      /\ y1 \in 0 .. 255 /\ y2 \in 0 .. 255 /\ y3 \in 0 .. 255
      /\ y4 \in 0 .. 255 /\ y5 \in 0 .. 255 /\ y6 \in 0 .. 255
  BY DEF Byte
<1>2. /\ P(1) = x1 \div 32
      /\ P(2) = x1 % 32
      /\ P(3) = x2 \div 8
      /\ P(4) = (x2 % 8) * 4 + x3 \div 64
      /\ P(5) = (x3 \div 2) % 32
      /\ P(6) = (x3 % 2) * 16 + x4 \div 16
      /\ P(7) = (x4 % 16) * 2 + x5 \div 128
      /\ P(8) = (x5 \div 4) % 32
      /\ P(9) = (x5 % 4) * 8 + x6 \div 32
      /\ P(10) = x6 % 32
  BY TimeDigits
<1>3. /\ Q(1) = y1 \div 32
      /\ Q(2) = y1 % 32
      /\ Q(3) = y2 \div 8
      /\ Q(4) = (y2 % 8) * 4 + y3 \div 64
      /\ Q(5) = (y3 \div 2) % 32
      /\ Q(6) = (y3 % 2) * 16 + y4 \div 16
      /\ Q(7) = (y4 % 16) * 2 + y5 \div 128
      /\ Q(8) = (y5 \div 4) % 32
      /\ Q(9) = (y5 % 4) * 8 + y6 \div 32
      /\ Q(10) = y6 % 32
  BY TimeDigits
<1>4. ASSUME NEW k \in 1 .. 10, P(k) < Q(k), \A j \in 1 .. k - 1 : P(j) = Q(j)
      PROVE  Less(digits(p), digits(q))
  <2>1. digits(p) \in Seq(0 .. 31) /\ Len(digits(p)) = 26
    BY DigitsLayout
  <2>2. k \in DOMAIN digits(p)
    BY <2>1
  <2> QED
    BY <1>4, <2>2, Zenon DEF Less
<1> HIDE DEF P, Q, x1, x2, x3, x4, x5, x6, y1, y2, y3, y4, y5, y6
<1>5. CASE i = 1
  <2>1. x1 < y1
    BY <1>5 DEF x1, y1
  <2>2. \/ P(1) < Q(1)
        \/ P(1) = Q(1) /\ P(2) < Q(2)
    <3>1. x1 \div 32 < y1 \div 32 \/ (x1 \div 32 = y1 \div 32 /\ x1 % 32 < y1 % 32)
      BY <1>1, <2>1, Compare
    <3>2. P(1) = x1 \div 32 /\ Q(1) = y1 \div 32 /\ P(2) = x1 % 32 /\ Q(2) = y1 % 32
      BY <1>2, <1>3
    <3> QED
      BY <3>1, <3>2
  <2> QED
    BY <1>4, <2>2
<1>6. CASE i = 2
  <2>1. x1 = y1 /\ x2 < y2
    BY <1>6 DEF x1, x2, y1, y2
  <2>2. P(1) = Q(1) /\ P(2) = Q(2)
    BY <1>2, <1>3, <2>1, Zenon
  <2>3. \/ P(3) < Q(3)
        \/ P(3) = Q(3) /\ P(4) < Q(4)
    <3>1. /\ P(3) = x2 \div 8
          /\ Q(3) = y2 \div 8
          /\ P(4) = (x2 % 8) * 4 + x3 \div 64
          /\ Q(4) = (y2 % 8) * 4 + y3 \div 64
      BY <1>2, <1>3
    <3>2. \/ x2 \div 8 < y2 \div 8
          \/ x2 \div 8 = y2 \div 8 /\ x2 % 8 < y2 % 8
      BY <1>1, <2>1
    <3> QED
      BY <1>1, <2>1, <3>1, <3>2
  <2> QED
    BY <1>4, <2>2, <2>3
<1>7. CASE i = 3
  <2>1. x1 = y1 /\ x2 = y2 /\ x3 < y3
    BY <1>7 DEF x1, x2, x3, y1, y2, y3
  <2>2. P(1) = Q(1) /\ P(2) = Q(2) /\ P(3) = Q(3)
    BY <1>2, <1>3, <2>1, Zenon
  <2>3. \/ P(4) < Q(4)
        \/ P(4) = Q(4) /\ P(5) < Q(5)
        \/ P(4) = Q(4) /\ P(5) = Q(5) /\ P(6) < Q(6)
    <3>1. /\ P(4) = (x2 % 8) * 4 + x3 \div 64
          /\ Q(4) = (y2 % 8) * 4 + y3 \div 64
          /\ P(5) = (x3 \div 2) % 32
          /\ Q(5) = (y3 \div 2) % 32
          /\ P(6) = (x3 % 2) * 16 + x4 \div 16
          /\ Q(6) = (y3 % 2) * 16 + y4 \div 16
      BY <1>2, <1>3
    <3>2. \/ x3 \div 64 < y3 \div 64
          \/ x3 \div 64 = y3 \div 64 /\ (x3 \div 2) % 32 < (y3 \div 2) % 32
          \/ x3 \div 64 = y3 \div 64 /\ (x3 \div 2) % 32 = (y3 \div 2) % 32 /\ x3 % 2 < y3 % 2
      <4>1. \A x \in 0 .. 255 : x \div 2 \in Nat /\ (x \div 2) \div 32 = x \div 64
        OBVIOUS
      <4>2. x3 \div 2 < y3 \div 2 \/ (x3 \div 2 = y3 \div 2 /\ x3 % 2 < y3 % 2)
        BY <1>1, <2>1, Compare
      <4>3. CASE x3 \div 2 < y3 \div 2
        <5>1. \/ (x3 \div 2) \div 32 < (y3 \div 2) \div 32
              \/ /\ (x3 \div 2) \div 32 = (y3 \div 2) \div 32
                 /\ (x3 \div 2) % 32 < (y3 \div 2) % 32
          BY <1>1, <4>1, <4>3, Compare
        <5> QED
          BY <1>1, <4>1, <5>1
      <4>4. CASE x3 \div 2 = y3 \div 2 /\ x3 % 2 < y3 % 2
        <5>1. x3 \div 64 = y3 \div 64
          BY <1>1, <4>1, <4>4
        <5> QED
          BY <4>4, <5>1
      <4> QED
        BY <4>2, <4>3, <4>4
    <3> QED
      BY <1>1, <2>1, <3>1, <3>2
  <2> QED
    BY <1>4, <2>2, <2>3
<1>8. CASE i = 4
  <2>1. x1 = y1 /\ x2 = y2 /\ x3 = y3 /\ x4 < y4
    BY <1>8 DEF x1, x2, x3, x4, y1, y2, y3, y4
  <2>2. P(1) = Q(1) /\ P(2) = Q(2) /\ P(3) = Q(3) /\ P(4) = Q(4) /\ P(5) = Q(5)
    BY <1>2, <1>3, <2>1, Zenon
  <2>3. \/ P(6) < Q(6)
        \/ P(6) = Q(6) /\ P(7) < Q(7)
    <3>1. /\ P(6) = (x3 % 2) * 16 + x4 \div 16
          /\ Q(6) = (y3 % 2) * 16 + y4 \div 16
          /\ P(7) = (x4 % 16) * 2 + x5 \div 128
          /\ Q(7) = (y4 % 16) * 2 + y5 \div 128
      BY <1>2, <1>3
    <3>2. \/ x4 \div 16 < y4 \div 16
          \/ x4 \div 16 = y4 \div 16 /\ x4 % 16 < y4 % 16
      BY <1>1, <2>1
    <3> QED
      BY <1>1, <2>1, <3>1, <3>2
  <2> QED
    BY <1>4, <2>2, <2>3
<1>9. CASE i = 5
  <2>1. x1 = y1 /\ x2 = y2 /\ x3 = y3 /\ x4 = y4 /\ x5 < y5
    BY <1>9 DEF x1, x2, x3, x4, x5, y1, y2, y3, y4, y5
  <2>2. P(1) = Q(1) /\ P(2) = Q(2) /\ P(3) = Q(3) /\ P(4) = Q(4) /\ P(5) = Q(5) /\ P(6) = Q(6)
    BY <1>2, <1>3, <2>1, Zenon
  <2>3. \/ P(7) < Q(7)
        \/ P(7) = Q(7) /\ P(8) < Q(8)
        \/ P(7) = Q(7) /\ P(8) = Q(8) /\ P(9) < Q(9)
    <3>1. /\ P(7) = (x4 % 16) * 2 + x5 \div 128
          /\ Q(7) = (y4 % 16) * 2 + y5 \div 128
          /\ P(8) = (x5 \div 4) % 32
          /\ Q(8) = (y5 \div 4) % 32
          /\ P(9) = (x5 % 4) * 8 + x6 \div 32
          /\ Q(9) = (y5 % 4) * 8 + y6 \div 32
      BY <1>2, <1>3
    <3>2. \/ x5 \div 128 < y5 \div 128
          \/ x5 \div 128 = y5 \div 128 /\ (x5 \div 4) % 32 < (y5 \div 4) % 32
          \/ x5 \div 128 = y5 \div 128 /\ (x5 \div 4) % 32 = (y5 \div 4) % 32 /\ x5 % 4 < y5 % 4
      <4>1. \A x \in 0 .. 255 : x \div 4 \in Nat /\ (x \div 4) \div 32 = x \div 128
        OBVIOUS
      <4>2. x5 \div 4 < y5 \div 4 \/ (x5 \div 4 = y5 \div 4 /\ x5 % 4 < y5 % 4)
        BY <1>1, <2>1, Compare
      <4>3. CASE x5 \div 4 < y5 \div 4
        <5>1. \/ (x5 \div 4) \div 32 < (y5 \div 4) \div 32
              \/ /\ (x5 \div 4) \div 32 = (y5 \div 4) \div 32
                 /\ (x5 \div 4) % 32 < (y5 \div 4) % 32
          BY <1>1, <4>1, <4>3, Compare
        <5> QED
          BY <1>1, <4>1, <5>1
      <4>4. CASE x5 \div 4 = y5 \div 4 /\ x5 % 4 < y5 % 4
        <5>1. x5 \div 128 = y5 \div 128
          BY <1>1, <4>1, <4>4
        <5> QED
          BY <4>4, <5>1
      <4> QED
        BY <4>2, <4>3, <4>4
    <3>3. /\ x5 \div 128 < y5 \div 128 => P(7) < Q(7)
          /\ x5 \div 128 = y5 \div 128 => P(7) = Q(7)
      BY <1>1, <2>1, <3>1
    <3>4. x5 % 4 < y5 % 4 => P(9) < Q(9)
      <4>1. \A u, v, w, z \in 0 .. 255 :
              u % 4 < v % 4 => (u % 4) * 8 + w \div 32 < (v % 4) * 8 + z \div 32
        OBVIOUS
      <4>2. x5 % 4 < y5 % 4 => (x5 % 4) * 8 + x6 \div 32 < (y5 % 4) * 8 + y6 \div 32
        BY <1>1, <4>1
      <4> QED
        BY <3>1, <4>2
    <3> QED
      BY <3>1, <3>2, <3>3, <3>4
  <2> QED
    BY <1>4, <2>2, <2>3
<1>10. CASE i = 6
  <2>1. x1 = y1 /\ x2 = y2 /\ x3 = y3 /\ x4 = y4 /\ x5 = y5 /\ x6 < y6
    BY <1>10 DEF x1, x2, x3, x4, x5, x6, y1, y2, y3, y4, y5, y6
  <2>2. /\ P(1) = Q(1) /\ P(2) = Q(2) /\ P(3) = Q(3) /\ P(4) = Q(4)
        /\ P(5) = Q(5) /\ P(6) = Q(6) /\ P(7) = Q(7) /\ P(8) = Q(8)
    BY <1>2, <1>3, <2>1, Zenon
  <2>3. \/ P(9) < Q(9)
        \/ P(9) = Q(9) /\ P(10) < Q(10)
    <3>1. /\ P(9) = (x5 % 4) * 8 + x6 \div 32
          /\ Q(9) = (y5 % 4) * 8 + y6 \div 32
          /\ P(10) = x6 % 32
          /\ Q(10) = y6 % 32
      BY <1>2, <1>3
    <3>2. \/ x6 \div 32 < y6 \div 32
          \/ x6 \div 32 = y6 \div 32 /\ x6 % 32 < y6 % 32
      BY <1>1, <2>1
    <3> QED
      BY <1>1, <2>1, <3>1, <3>2
  <2> QED
    BY <1>4, <2>2, <2>3
<1> QED
  BY <1>5, <1>6, <1>7, <1>8, <1>9, <1>10

LEMMA EncodeOrdered ==
    ASSUME NEW p \in [1 .. 16 -> Byte], NEW q \in [1 .. 16 -> Byte], NEW i \in 1 .. 6,
           p[i] < q[i], \A j \in 1 .. i - 1 : p[j] = q[j]
    PROVE  Less(encode(p), encode(q))
<1>1. PICK k \in DOMAIN digits(p) :
        digits(p)[k] < digits(q)[k] /\ \A j \in 1 .. k - 1 : digits(p)[j] = digits(q)[j]
  BY TimeOrdered, Zenon DEF Less
<1>2. k \in 1 .. 26
  <2>1. digits(p) \in Seq(0 .. 31) /\ Len(digits(p)) = 26
    BY DigitsLayout
  <2> QED
    BY <1>1, <2>1
<1>3. k \in DOMAIN encode(p)
  BY <1>2, Zenon DEF encode
<1>4. encode(p)[k] < encode(q)[k]
  BY <1>1, <1>2, EncodeChars
<1>5. \A j \in 1 .. k - 1 : encode(p)[j] = encode(q)[j]
  <2> TAKE j \in 1 .. k - 1
  <2>1. j \in 1 .. 26
    BY <1>2
  <2>2. digits(p)[j] = digits(q)[j]
    BY <1>1, Zenon
  <2> QED
    BY <2>1, <2>2, EncodeChars
<1> QED
  BY <1>3, <1>4, <1>5, Zenon DEF Less
-----------------------------------------------------------------------------
LEMMA InitInv == Init => Inv
<1> SUFFICES ASSUME Init PROVE Inv
  OBVIOUS
<1>1. 0 \in Byte
  BY DEF Byte
<1>2. b \in [Callers -> [1 .. 16 -> Byte]] /\ at \in [Callers -> [1 .. 6 -> Byte]]
  BY <1>1 DEF Init
<1>3. \A c \in Callers, i \in 1 .. 6 : b[c][i] = at[c][i]
  BY DEF Init
<1> QED
  BY <1>2, <1>3 DEF Init, Inv

LEMMA InvStep == Inv /\ [Next]_vars => Inv'
<1> SUFFICES ASSUME Inv, [Next]_vars PROVE Inv'
  OBVIOUS
<1>1. ASSUME NEW c \in Callers, NEW ms \in Instants, ReadClock(c, ms) PROVE Inv'
  <2>1. ms \in [1 .. 6 -> Byte] /\ Stamp(ms) \in [1 .. 16 -> Byte]
    BY UlidAssumption DEF Stamp, Byte
  <2>2. \A i \in 1 .. 6 : Stamp(ms)[i] = ms[i]
    BY DEF Stamp
  <2>3. /\ step' \in [Callers -> {"idle", "stamped", "filled"}]
        /\ b' \in [Callers -> [1 .. 16 -> Byte]] /\ at' \in [Callers -> [1 .. 6 -> Byte]]
        /\ DOMAIN id' = Callers
    BY <1>1, <2>1 DEF ReadClock, Inv
  <2>4. ASSUME NEW d \in Callers
        PROVE  /\ \A i \in 1 .. 6 : b'[d][i] = at'[d][i]
               /\ step'[d] # "idle" => id'[d] = <<>>
               /\ id'[d] # <<>> => id'[d] = encode(b'[d])
    <3>1. CASE d = c
      <4>1. b'[c] = Stamp(ms) /\ at'[c] = ms /\ id'[c] = <<>>
        BY <1>1 DEF ReadClock, Inv
      <4> QED
        BY <2>2, <3>1, <4>1
    <3>2. CASE d # c
      <4>1. b'[d] = b[d] /\ at'[d] = at[d] /\ id'[d] = id[d] /\ step'[d] = step[d]
        BY <1>1, <3>2 DEF ReadClock, Inv
      <4> QED
        BY <4>1, Zenon DEF Inv
    <3> QED
      BY <3>1, <3>2
  <2> QED
    BY <2>3, <2>4, Zenon DEF Inv
<1>2. ASSUME NEW c \in Callers, NEW e \in Entropies, Fill(c, e) PROVE Inv'
  <2> DEFINE f == [i \in 1 .. 16 |-> IF i <= 6 THEN b[c][i] ELSE e[i - 6]]
  <2>1. f \in [1 .. 16 -> Byte]
    <3>1. e \in [1 .. 10 -> Byte] /\ b[c] \in [1 .. 16 -> Byte]
      BY UlidAssumption DEF Inv
    <3> QED
      BY <3>1
  <2>2. \A i \in 1 .. 6 : f[i] = b[c][i]
    OBVIOUS
  <2>3. b' = [b EXCEPT ![c] = f]
    BY <1>2 DEF Fill
  <2> HIDE DEF f
  <2>4. /\ step' \in [Callers -> {"idle", "stamped", "filled"}]
        /\ b' \in [Callers -> [1 .. 16 -> Byte]] /\ at' \in [Callers -> [1 .. 6 -> Byte]]
        /\ DOMAIN id' = Callers
    BY <1>2, <2>1, <2>3 DEF Fill, Inv
  <2>5. ASSUME NEW d \in Callers
        PROVE  /\ \A i \in 1 .. 6 : b'[d][i] = at'[d][i]
               /\ step'[d] # "idle" => id'[d] = <<>>
               /\ id'[d] # <<>> => id'[d] = encode(b'[d])
    <3>1. CASE d = c
      <4>1. b'[c] = f /\ at'[c] = at[c] /\ id'[c] = <<>>
        BY <1>2, <2>3 DEF Fill, Inv
      <4> QED
        BY <2>2, <3>1, <4>1 DEF Inv
    <3>2. CASE d # c
      <4>1. b'[d] = b[d] /\ at'[d] = at[d] /\ id'[d] = id[d] /\ step'[d] = step[d]
        BY <1>2, <2>3, <3>2 DEF Fill, Inv
      <4> QED
        BY <4>1, Zenon DEF Inv
    <3> QED
      BY <3>1, <3>2
  <2> QED
    BY <2>4, <2>5, Zenon DEF Inv
<1>3. ASSUME NEW c \in Callers, Encode(c) PROVE Inv'
  <2>1. /\ step' \in [Callers -> {"idle", "stamped", "filled"}]
        /\ b' = b /\ at' = at /\ DOMAIN id' = Callers
    BY <1>3 DEF Encode, Inv
  <2>2. ASSUME NEW d \in Callers
        PROVE  /\ step'[d] # "idle" => id'[d] = <<>>
               /\ id'[d] # <<>> => id'[d] = encode(b[d])
    <3>1. CASE d = c
      <4>1. step'[c] = "idle" /\ id'[c] = encode(b[c])
        BY <1>3, Zenon DEF Encode, Inv
      <4> QED
        BY <3>1, <4>1, Zenon
    <3>2. CASE d # c
      <4>1. id'[d] = id[d] /\ step'[d] = step[d]
        BY <1>3, <3>2 DEF Encode, Inv
      <4> QED
        BY <4>1, Zenon DEF Inv
    <3> QED
      BY <3>1, <3>2
  <2> QED
    BY <2>1, <2>2, Zenon DEF Inv
<1>4. CASE UNCHANGED vars
  BY <1>4, Zenon DEF vars, Inv
<1> QED
  BY <1>1, <1>2, <1>3, <1>4 DEF Next

LEMMA InvHolds == Spec => []Inv
BY InitInv, InvStep, PTL DEF Spec
-----------------------------------------------------------------------------
(* Every character of every identifier stands for its five bits of the     *)
(* 128: the masks and shifts of encode drop none and repeat none.          *)
THEOREM EncodingIsExact == Spec => []EncodesTheBits
<1>1. Inv => EncodesTheBits
  BY EncodeIsBits DEF Inv, EncodesTheBits, Issued
<1> QED
  BY <1>1, InvHolds, PTL

(* Identifiers sort by the millisecond New read, for every pair of         *)
(* instants and every entropy.                                             *)
THEOREM IdsSort == Spec => []Sortable
<1>1. Inv => Sortable
  <2> SUFFICES ASSUME Inv, NEW c \in Issued, NEW d \in Issued, Less(at[c], at[d])
               PROVE  Less(id[c], id[d])
    BY DEF Sortable
  <2>1. /\ b[c] \in [1 .. 16 -> Byte] /\ b[d] \in [1 .. 16 -> Byte]
        /\ at[c] \in [1 .. 6 -> Byte]
        /\ id[c] = encode(b[c]) /\ id[d] = encode(b[d])
        /\ \A i \in 1 .. 6 : b[c][i] = at[c][i] /\ b[d][i] = at[d][i]
    BY DEF Inv, Issued
  <2>2. PICK i \in 1 .. 6 : at[c][i] < at[d][i] /\ \A j \in 1 .. i - 1 : at[c][j] = at[d][j]
    BY <2>1 DEF Less
  <2>3. b[c][i] < b[d][i] /\ \A j \in 1 .. i - 1 : b[c][j] = b[d][j]
    BY <2>1, <2>2
  <2> QED
    BY <2>1, <2>3, EncodeOrdered
<1> QED
  BY <1>1, InvHolds, PTL

(* Equal identifiers have equal instants and equal buffers: New loses no   *)
(* bit of the time or of the entropy.                                      *)
THEOREM NothingIsLost == Spec => []NothingLost
<1>1. Inv => NothingLost
  <2> SUFFICES ASSUME Inv, NEW c \in Issued, NEW d \in Issued, id[c] = id[d]
               PROVE  at[c] = at[d] /\ b[c] = b[d]
    BY DEF NothingLost
  <2>1. /\ b[c] \in [1 .. 16 -> Byte] /\ b[d] \in [1 .. 16 -> Byte]
        /\ at[c] \in [1 .. 6 -> Byte] /\ at[d] \in [1 .. 6 -> Byte]
        /\ id[c] = encode(b[c]) /\ id[d] = encode(b[d])
        /\ \A i \in 1 .. 6 : b[c][i] = at[c][i] /\ b[d][i] = at[d][i]
    BY DEF Inv, Issued
  <2>2. b[c] = b[d]
    BY <2>1, EncodeInjective
  <2>3. \A i \in 1 .. 6 : at[c][i] = at[d][i]
    BY <2>1, <2>2
  <2> QED
    BY <2>1, <2>2, <2>3
<1> QED
  BY <1>1, InvHolds, PTL
=============================================================================
