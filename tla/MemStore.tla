------------------------------ MODULE MemStore ------------------------------
(***************************************************************************)
(* The in-memory idempotency store of idempotency/memstore.go: concurrent  *)
(* clients call Get, Set, Delete and Close while the sweeper goroutine     *)
(* started by NewMemStore purges expired entries.                          *)
(*                                                                         *)
(* Each critical section of the RWMutex is one step.  Get is up to three   *)
(* steps: read the entry under RLock, compare the clock with no lock held, *)
(* delete the key under Lock.  The sweeper reads the clock before it takes *)
(* the lock.  Close is two steps: the select, then close(stop).            *)
(***************************************************************************)
EXTENDS Integers

CONSTANTS
    Clients, Keys,
    Responses,      \* cached responses, opaque to the store
    TTLArgs,        \* the ttl arguments of Set
    DefaultTTL,     \* stands for 24 * time.Hour
    MaxTime,        \* bound on the clock
    None            \* the absent entry, and the nil response of a miss

ASSUME TimeAssumption ==
    /\ TTLArgs \subseteq Int
    /\ DefaultTTL \in Nat \ {0}
    /\ MaxTime \in Nat
ASSUME NoneAssumption ==
    /\ None \notin [resp : Responses, expiresAt : Nat]
    /\ None \notin Responses

VARIABLES
    now,       \* s.now()
    entries,   \* Keys -> memEntry or None
    stop,      \* the stop channel is closed
    pc,        \* Clients -> where the client is in its call
    key,       \* Clients -> the key of the client's Get
    copy,      \* Clients -> the entry the client's Get read
    got,       \* Clients -> the response Get returned, None for a miss
    sweeper,   \* where sweep() is
    swNow,     \* the clock purgeExpired read
    ticker,    \* a tick is buffered in t.C
    (* History, read by the properties only. *)
    seen       \* Clients -> what key held since the client's Get was called

vars == <<now, entries, stop, pc, key, copy, got, sweeper, swNow, ticker, seen>>
client == <<pc, key, copy, got>>
sweeping == <<sweeper, swNow, ticker>>

memEntry == [resp : Responses, expiresAt : Nat \ {0}]

(* time.After is strict: an entry is still good at expiresAt itself. *)
Expired(e, t) == t > e.expiresAt
Live(k) == entries[k] # None /\ ~Expired(entries[k], now)

(* What a request with each key is to be answered with. *)
cache == [k \in Keys |-> IF Live(k) THEN entries[k].resp ELSE None]

Getting(c) == pc[c] \in {"check", "evict"}

Init ==
    /\ now = 0
    /\ entries = [k \in Keys |-> None]
    /\ stop = FALSE
    /\ pc = [c \in Clients |-> "idle"]
    /\ key \in [Clients -> Keys]
    /\ copy = [c \in Clients |-> None]
    /\ got = [c \in Clients |-> None]
    /\ sweeper = "select" /\ swNow = 0 /\ ticker = FALSE
    /\ seen = [c \in Clients |-> {}]

(* A Get in progress sees what each step leaves under its key. *)
Watch ==
    seen' = [c \in Clients |-> IF Getting(c)' THEN seen[c] \union {cache'[key'[c]]} ELSE {}]
-----------------------------------------------------------------------------
(* Get, under RLock: a missing key is a miss at once. *)
GetRead(c, k) ==
    /\ pc[c] = "idle"
    /\ key' = [key EXCEPT ![c] = k]
    /\ copy' = [copy EXCEPT ![c] = entries[k]]
    /\ pc' = [pc EXCEPT ![c] = IF entries[k] = None THEN "returned" ELSE "check"]
    /\ UNCHANGED <<now, entries, stop, got, sweeping>>
    /\ Watch

(* Get, no lock held: a hit, or on to lazy eviction. *)
MutFresh(c) == TRUE
Fresh(c) == ~Expired(copy[c], now)
GetCheck(c) ==
    /\ pc[c] = "check"
    /\ \/ /\ Fresh(c)
          /\ pc' = [pc EXCEPT ![c] = "returned"]
          /\ got' = [got EXCEPT ![c] = copy[c].resp]
          /\ copy' = [copy EXCEPT ![c] = None]
       \/ /\ ~Fresh(c)
          /\ pc' = [pc EXCEPT ![c] = "evict"]
          /\ UNCHANGED <<got, copy>>
    /\ UNCHANGED <<now, entries, stop, key, sweeping>>
    /\ Watch

(* Get, under Lock: the key is deleted whatever is stored there by now. *)
GetEvict(c) ==
    /\ pc[c] = "evict"
    /\ entries' = [entries EXCEPT ![key[c]] = None]
    /\ pc' = [pc EXCEPT ![c] = "returned"]
    /\ copy' = [copy EXCEPT ![c] = None]
    /\ UNCHANGED <<now, stop, key, got, sweeping>>
    /\ Watch

(* The caller takes what Get returned. *)
Return(c) ==
    /\ pc[c] = "returned"
    /\ pc' = [pc EXCEPT ![c] = "idle"]
    /\ got' = [got EXCEPT ![c] = None]
    /\ UNCHANGED <<now, entries, stop, key, copy, sweeping>>
    /\ Watch

(* Set, under Lock; a ttl that is not positive means the default. *)
MutTTL(ttl) == ttl
TTL(ttl) == IF ttl <= 0 THEN DefaultTTL ELSE ttl
MutSetKeepsFirst(c, k, r, ttl) ==
    /\ pc[c] = "idle"
    /\ entries' = IF entries[k] # None THEN entries
                  ELSE [entries EXCEPT ![k] = [resp |-> r, expiresAt |-> now + TTL(ttl)]]
    /\ UNCHANGED <<now, stop, client, sweeping>>
    /\ Watch
Set(c, k, r, ttl) ==
    /\ pc[c] = "idle"
    /\ entries' = [entries EXCEPT ![k] = [resp |-> r, expiresAt |-> now + TTL(ttl)]]
    /\ UNCHANGED <<now, stop, client, sweeping>>
    /\ Watch

Delete(c, k) ==
    /\ pc[c] = "idle"
    /\ entries' = [entries EXCEPT ![k] = None]
    /\ UNCHANGED <<now, stop, client, sweeping>>
    /\ Watch

(* Close: the select with its default case. *)
CloseSelect(c) ==
    /\ pc[c] = "idle" /\ ~stop      \* otherwise it returns
    /\ pc' = [pc EXCEPT ![c] = "closing"]
    /\ UNCHANGED <<now, entries, stop, key, copy, got, sweeping>>
    /\ Watch

(* close(s.stop): closing a closed channel panics. *)
CloseChannel(c) ==
    /\ pc[c] = "closing"
    /\ pc' = [pc EXCEPT ![c] = IF stop THEN "panicked" ELSE "idle"]
    /\ stop' = TRUE
    /\ UNCHANGED <<now, entries, key, copy, got, sweeping>>
    /\ Watch
-----------------------------------------------------------------------------
(* time.Ticker: a tick is buffered, or dropped if one is already there. *)
TickerFires ==
    /\ sweeper # "stopped" /\ ~ticker
    /\ ticker' = TRUE
    /\ UNCHANGED <<now, entries, stop, client, sweeper, swNow, seen>>

(* sweep's select, <-s.stop. *)
MutSweepStopBreaksSelect == sweeper = "select" /\ stop /\ UNCHANGED vars
SweepStop ==
    /\ sweeper = "select" /\ stop
    /\ sweeper' = "stopped"
    /\ UNCHANGED <<now, entries, stop, client, swNow, ticker, seen>>

(* sweep's select, <-t.C, and the clock that purgeExpired reads. *)
SweepTick ==
    /\ sweeper = "select" /\ ticker
    /\ ticker' = FALSE
    /\ swNow' = now
    /\ sweeper' = "purge"
    /\ UNCHANGED <<now, entries, stop, client, seen>>

(* purgeExpired, under Lock, by the clock it read before. *)
MutSweptInclusive(e) == swNow >= e.expiresAt
MutSweptBackwards(e) == swNow < e.expiresAt
Swept(e) == Expired(e, swNow)
purgeExpired ==
    /\ sweeper = "purge"
    /\ entries' = [k \in Keys |-> IF entries[k] # None /\ Swept(entries[k])
                                  THEN None ELSE entries[k]]
    /\ sweeper' = "select"
    /\ swNow' = 0                   \* the local variable is dead
    /\ UNCHANGED <<now, stop, client, ticker>>
    /\ Watch

Tick ==
    /\ now < MaxTime
    /\ now' = now + 1
    /\ UNCHANGED <<entries, stop, client, sweeping>>
    /\ Watch

Next ==
    \/ \E c \in Clients :
          \/ \E k \in Keys :
                \/ GetRead(c, k) \/ Delete(c, k)
                \/ \E r \in Responses, ttl \in TTLArgs : Set(c, k, r, ttl)
          \/ GetCheck(c) \/ GetEvict(c) \/ Return(c)
          \/ CloseSelect(c) \/ CloseChannel(c)
    \/ TickerFires \/ SweepStop \/ SweepTick \/ purgeExpired
    \/ Tick

(***************************************************************************)
(* The runtime schedules the sweeper and its ticker.  SF for SweepStop:    *)
(* when both cases are ready select picks one at random, so the stop case  *)
(* cannot lose forever.                                                    *)
(***************************************************************************)
Fairness ==
    /\ WF_vars(TickerFires)
    /\ WF_vars(SweepTick)
    /\ WF_vars(purgeExpired)
    /\ SF_vars(SweepStop)

Spec == Init /\ [][Next]_vars /\ Fairness
-----------------------------------------------------------------------------
(* The clock the sweeper works with is never ahead of the real one, and    *)
(* every entry expires after the start (the default replaces a ttl <= 0).  *)
TypeOK ==
    /\ now \in 0 .. MaxTime
    /\ entries \in [Keys -> memEntry \union {None}]
    /\ stop \in BOOLEAN
    /\ pc \in [Clients -> {"idle", "check", "evict", "returned", "closing", "panicked"}]
    /\ key \in [Clients -> Keys]
    /\ copy \in [Clients -> memEntry \union {None}]
    /\ got \in [Clients -> Responses \union {None}]
    /\ sweeper \in {"select", "purge", "stopped"}
    /\ swNow \in 0 .. now /\ ticker \in BOOLEAN
    /\ seen \in [Clients -> SUBSET (Responses \union {None})]

(***************************************************************************)
(* "Implementations MUST be safe for concurrent use": the store implements *)
(* the abstract cache of module Store, whose contents are the unexpired    *)
(* entries.  A hit and a miss both report what the key held at some moment *)
(* of the Get, whatever Set, Delete and purge ran between its looks.       *)
(***************************************************************************)
phase == [c \in Clients |-> IF Getting(c) THEN "getting"
                           ELSE IF pc[c] = "returned" THEN "returned" ELSE "idle"]
St == INSTANCE Store WITH offered <- seen
ImplementsStore == St!Spec

(* A live entry disappears only by Delete or by the lazy eviction of a Get *)
(* that read an entry since replaced; the sweeper never takes one, though  *)
(* it judges by a clock it read before it had the lock.                    *)
LiveLossOnlyByRace ==
    [][\A k \in Keys : Live(k) /\ entries'[k] = None =>
          \/ \E c \in Clients : Delete(c, k)
          \/ \E c \in Clients : /\ GetEvict(c) /\ key[c] = k
                                /\ entries[k] # copy[c]]_vars

(* The inductive invariant of the proofs: what a Get knows of its copy at  *)
(* each of its steps.                                                      *)
Inv ==
    /\ TypeOK
    /\ \A c \in Clients :
          /\ Getting(c) => copy[c] \in memEntry
          /\ pc[c] # "returned" => got[c] = None
          /\ pc[c] = "evict" => Expired(copy[c], now)
          /\ pc[c] = "check" /\ ~Expired(copy[c], now) => copy[c].resp \in seen[c]

(* "A background sweeper running every minute purges the rest": an expired *)
(* entry does not stay, unless the store is closed.                        *)
ExpiredCollected ==
    \A k \in Keys :
        (entries[k] # None /\ ~Live(k)) ~> (entries[k] = None \/ Live(k) \/ stop)

(* "Close stops the background sweeper", even when a tick is pending.      *)
SweeperStops == stop ~> sweeper = "stopped"

(* Close is "Safe to call multiple times": it never panics.                *)
CloseNeverPanics == \A c \in Clients : pc[c] # "panicked"
=============================================================================
