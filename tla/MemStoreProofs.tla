--------------------------- MODULE MemStoreProofs ---------------------------
(***************************************************************************)
(* Proofs about MemStore for any clients, keys, responses and TTLs, and    *)
(* any bound on the clock.                                                 *)
(***************************************************************************)
EXTENDS MemStore, TLAPS

(* What the history records of one Get in a step. *)
LEMMA WatchFacts ==
    ASSUME Watch, NEW c \in Clients
    PROVE  seen'[c] = IF Getting(c)' THEN seen[c] \union {cache'[key'[c]]} ELSE {}
BY DEF Watch

LEMMA WatchOffers == Watch => St!Offer
BY DEF Watch, St!Offer, phase

LEMMA WatchType ==
    ASSUME Watch, seen \in [Clients -> SUBSET (Responses \union {None})],
           key' \in [Clients -> Keys], entries' \in [Keys -> memEntry \union {None}]
    PROVE  seen' \in [Clients -> SUBSET (Responses \union {None})]
<1>0. cache' \in [Keys -> Responses \union {None}]
  <2>1. \A k \in Keys : entries'[k] # None => entries'[k].resp \in Responses
    BY DEF memEntry
  <2> QED
    BY <2>1 DEF cache, Live
<1>1. seen' = [c \in Clients |-> seen'[c]]
  BY DEF Watch
<1>2. ASSUME NEW c \in Clients PROVE seen'[c] \in SUBSET (Responses \union {None})
  <2>1. cache'[key'[c]] \in Responses \union {None}
    BY <1>0
  <2>2. seen'[c] = IF Getting(c)' THEN seen[c] \union {cache'[key'[c]]} ELSE {}
    BY WatchFacts
  <2> QED
    BY <2>1, <2>2
<1> QED
  BY <1>1, <1>2

(* A ttl that Set uses is positive, so an entry is live when stored. *)
LEMMA TTLPositive == ASSUME NEW ttl \in TTLArgs PROVE TTL(ttl) \in Nat \ {0}
BY TimeAssumption DEF TTL

LEMMA InitInv == Init => Inv
<1> SUFFICES ASSUME Init PROVE Inv
  OBVIOUS
<1>1. stop \in BOOLEAN /\ ticker \in BOOLEAN
  BY DEF Init
<1>2. now \in 0 .. MaxTime /\ swNow \in 0 .. now
  BY TimeAssumption DEF Init
<1>3. /\ entries \in [Keys -> memEntry \union {None}]
      /\ copy \in [Clients -> memEntry \union {None}]
      /\ got \in [Clients -> Responses \union {None}]
      /\ pc \in [Clients -> {"idle", "check", "evict", "returned", "closing", "panicked"}]
      /\ key \in [Clients -> Keys]
      /\ seen \in [Clients -> SUBSET (Responses \union {None})]
      /\ sweeper \in {"select", "purge", "stopped"}
  BY DEF Init
<1>4. \A c \in Clients : pc[c] = "idle" /\ got[c] = None
  BY DEF Init
<1> QED
  BY <1>1, <1>2, <1>3, <1>4 DEF Inv, TypeOK, Getting

(* Every action keeps the types of the variables that are not history. *)
Fields ==
    /\ now \in 0 .. MaxTime
    /\ entries \in [Keys -> memEntry \union {None}]
    /\ stop \in BOOLEAN
    /\ pc \in [Clients -> {"idle", "check", "evict", "returned", "closing", "panicked"}]
    /\ key \in [Clients -> Keys]
    /\ copy \in [Clients -> memEntry \union {None}]
    /\ got \in [Clients -> Responses \union {None}]
    /\ sweeper \in {"select", "purge", "stopped"}
    /\ swNow \in 0 .. now /\ ticker \in BOOLEAN

LEMMA FieldsStep == Inv /\ [Next]_vars => Fields'
<1> SUFFICES ASSUME Inv, Fields, [Next]_vars PROVE Fields'
  BY DEF Inv, TypeOK, Fields
<1> USE TimeAssumption DEF Fields, client, sweeping
<1>1. ASSUME NEW c \in Clients, NEW k \in Keys, GetRead(c, k) PROVE Fields'
  BY <1>1 DEF GetRead
<1>2. ASSUME NEW c \in Clients, NEW k \in Keys, Delete(c, k) PROVE Fields'
  BY <1>2 DEF Delete
<1>3. ASSUME NEW c \in Clients, NEW k \in Keys, NEW r \in Responses, NEW ttl \in TTLArgs,
             Set(c, k, r, ttl) PROVE Fields'
  <2> DEFINE e == [resp |-> r, expiresAt |-> now + TTL(ttl)]
  <2>1. e \in memEntry
    BY TTLPositive DEF memEntry
  <2>2. entries' = [entries EXCEPT ![k] = e]
    BY <1>3 DEF Set
  <2> HIDE DEF e
  <2> QED
    BY <1>3, <2>1, <2>2 DEF Set
<1>4. ASSUME NEW c \in Clients, GetCheck(c) PROVE Fields'
  <2>1. copy[c].resp \in Responses
    BY <1>4 DEF GetCheck, memEntry, Inv, Getting
  <2> QED
    BY <1>4, <2>1 DEF GetCheck
<1>5. ASSUME NEW c \in Clients, GetEvict(c) PROVE Fields'
  BY <1>5 DEF GetEvict
<1>6. ASSUME NEW c \in Clients, CloseSelect(c) PROVE Fields'
  BY <1>6 DEF CloseSelect
<1>7. ASSUME NEW c \in Clients, CloseChannel(c) PROVE Fields'
  BY <1>7 DEF CloseChannel
<1>8. CASE TickerFires
  BY <1>8 DEF TickerFires
<1>9. CASE SweepStop
  BY <1>9 DEF SweepStop
<1>10. CASE SweepTick
  <2>1. ticker' \in BOOLEAN
    BY <1>10 DEF SweepTick
  <2>2. swNow' \in 0 .. now' /\ sweeper' \in {"select", "purge", "stopped"}
    BY <1>10 DEF SweepTick
  <2> QED
    BY <1>10, <2>1, <2>2 DEF SweepTick
<1>11. CASE purgeExpired
  BY <1>11 DEF purgeExpired
<1>12. CASE Tick
  BY <1>12 DEF Tick
<1>13. CASE UNCHANGED vars
  BY <1>13 DEF vars
<1>14. ASSUME NEW c \in Clients, Return(c) PROVE Fields'
  BY <1>14 DEF Return
<1> QED
  BY <1>1, <1>2, <1>3, <1>4, <1>5, <1>6, <1>7, <1>8, <1>9, <1>10, <1>11, <1>12, <1>13, <1>14
  DEF Next

(* Steps that leave a Get's copy alone keep what it knows of it: time only *)
(* moves forward, and the history only grows while the Get runs.           *)
LEMMA InvStep == Inv /\ [Next]_vars => Inv'
<1> SUFFICES ASSUME Inv, [Next]_vars PROVE Inv'
  OBVIOUS
<1>1. Fields'
  BY FieldsStep
<1>2. now' \in Int /\ now \in Int /\ now <= now'
  BY TimeAssumption, <1>1
  DEF Fields, Inv, TypeOK, Next, GetRead, Delete, Set, GetCheck, GetEvict, Return, CloseSelect,
      CloseChannel, TickerFires, SweepStop, SweepTick, purgeExpired, Tick, vars
<1>3. Watch \/ UNCHANGED <<seen, pc>>
  BY DEF Next, GetRead, Delete, Set, GetCheck, GetEvict, Return, CloseSelect,
      CloseChannel, TickerFires, SweepStop, SweepTick, purgeExpired, Tick, vars, client
<1>4. seen' \in [Clients -> SUBSET (Responses \union {None})]
  BY <1>1, <1>3, WatchType DEF Inv, TypeOK, Fields
<1>5. ASSUME NEW c \in Clients
      PROVE  /\ Getting(c)' => copy'[c] \in memEntry
             /\ pc'[c] # "returned" => got'[c] = None
             /\ pc'[c] = "evict" => Expired(copy'[c], now')
             /\ pc'[c] = "check" /\ ~Expired(copy'[c], now') => copy'[c].resp \in seen'[c]
  <2>0. Getting(c)' => seen[c] \subseteq seen'[c]
    BY <1>3, WatchFacts DEF Getting
  <2>1. CASE UNCHANGED <<pc[c], copy[c], got[c]>>
    BY <1>2, <2>0, <2>1 DEF Inv, TypeOK, Expired, memEntry, Getting
  <2>2. CASE \E k \in Keys : GetRead(c, k)
    <3>1. PICK k \in Keys : GetRead(c, k)
      BY <2>2
    <3>2. /\ copy'[c] = entries[k] /\ key'[c] = k /\ entries' = entries /\ now' = now
          /\ got'[c] = None
          /\ pc'[c] = IF entries[k] = None THEN "returned" ELSE "check"
      BY <3>1 DEF GetRead, Inv, TypeOK
    <3>3. pc'[c] = "check" /\ ~Expired(entries[k], now) => entries[k].resp \in seen'[c]
      <4> SUFFICES ASSUME pc'[c] = "check", ~Expired(entries[k], now)
                   PROVE  entries[k].resp \in seen'[c]
        OBVIOUS
      <4>1. cache'[k] = entries[k].resp
        BY <3>2 DEF cache, Live
      <4> QED
        BY <3>1, <3>2, <4>1, WatchFacts DEF GetRead, Getting
    <3> QED
      BY <3>2, <3>3 DEF Getting, Inv, TypeOK
  <2>3. CASE GetCheck(c)
    BY <1>2, <2>3 DEF GetCheck, Fresh, Getting, Inv, TypeOK
  <2>4. CASE ~Getting(c)' /\ (pc'[c] = "returned" \/ got'[c] = None)
    BY <2>4 DEF Getting
  <2> QED
    BY <2>1, <2>2, <2>3, <2>4
    DEF Inv, TypeOK, Next, GetRead, Delete, Set, GetCheck, GetEvict, Return, CloseSelect, Getting,
        CloseChannel, TickerFires, SweepStop, SweepTick, purgeExpired, Tick, vars, client
<1> QED
  BY <1>1, <1>4, <1>5 DEF Inv, TypeOK, Fields

LEMMA InvHolds == Spec => []Inv
BY InitInv, InvStep, PTL DEF Spec

(***************************************************************************)
(* The store's fields keep their types; the sweeper's clock is never ahead *)
(* and no entry is stored already expired.                                 *)
(***************************************************************************)
THEOREM TypeCorrect == Spec => []TypeOK
<1>1. Inv => TypeOK
  BY DEF Inv
<1> QED
  BY <1>1, InvHolds, PTL

(* A step with no effect that a user of the store can see. *)
LEMMA Invisible ==
    ASSUME Watch, cache' = cache, phase' = phase, UNCHANGED <<key, got>>
    PROVE  St!Next
<1>1. cache' = [k \in Keys |-> IF k \in {} THEN None ELSE cache[k]]
  BY DEF cache
<1>2. St!Remove({})
  BY <1>1, WatchOffers DEF St!Remove
<1> QED
  BY <1>2 DEF St!Next

(* One lemma for each operation that shows: which step of the abstract     *)
(* cache it is.                                                            *)
LEMMA GetReadRefines ==
    ASSUME Inv, NEW c \in Clients, NEW k \in Keys, GetRead(c, k) PROVE St!Next
<1>0. pc[c] = "idle" /\ phase[c] = "idle" /\ got[c] = None /\ got' = got
  BY DEF GetRead, phase, Getting, Inv
<1>1. cache' = cache /\ key' = [key EXCEPT ![c] = k]
  BY DEF GetRead, cache, Live
<1>2. CASE entries[k] # None
  <2>1. phase' = [phase EXCEPT ![c] = "getting"]
    BY <1>2 DEF GetRead, phase, Getting, Inv, TypeOK
  <2>2. St!GetCall(c, k)
    BY <1>0, <1>1, <2>1, WatchOffers DEF GetRead, St!GetCall
  <2> QED
    BY <2>2 DEF St!Next
<1>3. CASE entries[k] = None
  <2>1. phase' = [phase EXCEPT ![c] = "returned"]
    BY <1>3 DEF GetRead, phase, Getting, Inv, TypeOK
  <2>2. got' = [got EXCEPT ![c] = cache[k]]
    BY <1>0, <1>3 DEF cache, Live, Inv, TypeOK
  <2>3. St!GetAtOnce(c, k)
    BY <1>0, <1>1, <2>1, <2>2, WatchOffers DEF GetRead, St!GetAtOnce
  <2> QED
    BY <2>3 DEF St!Next
<1> QED
  BY <1>2, <1>3

LEMMA GetCheckRefines ==
    ASSUME Inv, NEW c \in Clients, GetCheck(c) PROVE St!Next
<1>0. phase[c] = "getting" /\ key' = key /\ cache' = cache /\ Watch
  BY DEF GetCheck, phase, Getting, cache, Live
<1>1. CASE Fresh(c)
  <2>1. got' = [got EXCEPT ![c] = copy[c].resp] /\ copy[c].resp \in seen[c]
    BY <1>1 DEF GetCheck, Fresh, Inv
  <2>2. phase' = [phase EXCEPT ![c] = "returned"]
    BY <1>1 DEF GetCheck, phase, Getting, Inv, TypeOK
  <2>3. St!GetReturn(c)
    BY <1>0, <2>1, <2>2, WatchOffers DEF St!GetReturn
  <2> QED
    BY <2>3 DEF St!Next
<1>2. CASE ~Fresh(c)
  <2>1. phase' = phase /\ got' = got
    BY <1>2 DEF GetCheck, phase, Getting, Inv, TypeOK
  <2> QED
    BY <1>0, <2>1, Invisible
<1> QED
  BY <1>1, <1>2

LEMMA GetEvictRefines ==
    ASSUME Inv, NEW c \in Clients, GetEvict(c) PROVE St!Next
<1>0. phase[c] = "getting" /\ key' = key /\ got' = got /\ got[c] = None /\ key[c] \in Keys
  BY DEF GetEvict, phase, Getting, Inv, TypeOK
<1>1. cache' = [cache EXCEPT ![key[c]] = None]
  BY <1>0 DEF GetEvict, cache, Live, Inv, TypeOK
<1>2. got' = [got EXCEPT ![c] = None] /\ cache'[key[c]] = None
  BY <1>0, <1>1 DEF Inv, TypeOK, cache
<1>3. phase' = [phase EXCEPT ![c] = "returned"]
  BY DEF GetEvict, phase, Getting, Inv, TypeOK
<1>4. St!GetReturn(c)
  BY <1>0, <1>1, <1>2, <1>3, WatchOffers DEF GetEvict, St!GetReturn
<1> QED
  BY <1>4 DEF St!Next

LEMMA ReturnRefines ==
    ASSUME Inv, NEW c \in Clients, Return(c) PROVE St!Next
<1>1. phase[c] = "returned" /\ phase' = [phase EXCEPT ![c] = "idle"]
  BY DEF Return, phase, Getting, Inv, TypeOK
<1>2. cache' = cache
  BY DEF Return, cache, Live
<1>3. St!Return(c)
  BY <1>1, <1>2, WatchOffers DEF Return, St!Return
<1> QED
  BY <1>3 DEF St!Next

LEMMA SetRefines ==
    ASSUME Inv, NEW c \in Clients, NEW k \in Keys, NEW r \in Responses, NEW ttl \in TTLArgs,
           Set(c, k, r, ttl)
    PROVE  St!Next
<1> DEFINE e == [resp |-> r, expiresAt |-> now + TTL(ttl)]
<1>1. e \in [resp : Responses, expiresAt : Nat] /\ ~Expired(e, now) /\ e.resp = r
  BY TimeAssumption, TTLPositive DEF Inv, TypeOK, Expired
<1>2. entries' = [entries EXCEPT ![k] = e] /\ now' = now
  BY DEF Set
<1> HIDE DEF e
<1>3. e # None
  BY <1>1, NoneAssumption
<1>4. cache' = [cache EXCEPT ![k] = r]
  BY <1>1, <1>2, <1>3 DEF cache, Live, Inv, TypeOK
<1>5. phase' = phase /\ UNCHANGED <<key, got>>
  BY DEF Set, client, phase, Getting
<1>6. St!Set(k, r)
  BY <1>4, <1>5, WatchOffers DEF Set, St!Set
<1> QED
  BY <1>6 DEF St!Next

LEMMA DeleteRefines ==
    ASSUME Inv, NEW c \in Clients, NEW k \in Keys, Delete(c, k) PROVE St!Next
<1>1. cache' = [x \in Keys |-> IF x \in {k} THEN None ELSE cache[x]]
  BY DEF Delete, cache, Live, Inv, TypeOK
<1>2. phase' = phase /\ UNCHANGED <<key, got>>
  BY DEF Delete, client, phase, Getting
<1>3. St!Remove({k})
  BY <1>1, <1>2, WatchOffers DEF Delete, St!Remove
<1> QED
  BY <1>3 DEF St!Next

(* The clock removes every entry that it makes expire. *)
LEMMA TickRefines == Inv /\ Tick => St!Next
<1> SUFFICES ASSUME Inv, Tick PROVE St!Next
  OBVIOUS
<1> DEFINE gone == {k \in Keys : ~Live(k)'}
<1>1. ASSUME NEW k \in Keys, Live(k)' PROVE Live(k)
  BY <1>1, TimeAssumption DEF Tick, Live, Expired, Inv, TypeOK, memEntry
<1>2. cache' = [k \in Keys |-> IF k \in gone THEN None ELSE cache[k]]
  BY <1>1 DEF Tick, cache
<1>3. phase' = phase /\ UNCHANGED <<key, got>>
  BY DEF Tick, client, phase, Getting
<1>4. St!Remove(gone)
  BY <1>2, <1>3, WatchOffers DEF Tick, St!Remove
<1> QED
  BY <1>4 DEF St!Next

(* The sweeper takes only what no request can see. *)
LEMMA PurgeRefines == Inv /\ purgeExpired => St!Next
<1> SUFFICES ASSUME Inv, purgeExpired PROVE St!Next
  OBVIOUS
<1>1. ASSUME NEW k \in Keys, entries[k] # None, Swept(entries[k]) PROVE ~Live(k)
  BY <1>1, TimeAssumption DEF Swept, Live, Expired, Inv, TypeOK, memEntry
<1>2. cache' = cache
  BY <1>1 DEF purgeExpired, cache, Live, Inv, TypeOK
<1>3. phase' = phase /\ UNCHANGED <<key, got>>
  BY DEF purgeExpired, client, phase, Getting
<1> QED
  BY <1>2, <1>3, Invisible DEF purgeExpired

(* The refinement's two halves, for whatever uses the store step by step. *)
LEMMA InitRefines == Init => St!Init
<1> SUFFICES ASSUME Init PROVE St!Init
  OBVIOUS
<1>1. cache = [k \in Keys |-> None] /\ phase = [c \in Clients |-> "idle"]
  BY DEF Init, cache, Live, phase, Getting
<1> QED
  BY <1>1 DEF Init, St!Init

LEMMA StepRefines == Inv /\ [Next]_vars => [St!Next]_(St!vars)
<1> SUFFICES ASSUME Inv, [Next]_vars PROVE St!Next \/ UNCHANGED St!vars
  OBVIOUS
<1>1. ASSUME NEW c \in Clients, CloseSelect(c) \/ CloseChannel(c) PROVE St!Next
  <2>1. cache' = cache /\ UNCHANGED <<key, got>> /\ Watch
    BY <1>1 DEF CloseSelect, CloseChannel, cache, Live
  <2>2. phase' = phase
    BY <1>1 DEF CloseSelect, CloseChannel, phase, Getting, Inv, TypeOK
  <2> QED
    BY <2>1, <2>2, Invisible
<1>2. CASE TickerFires \/ SweepStop \/ SweepTick \/ UNCHANGED vars
  <2>1. UNCHANGED <<now, entries, pc, key, got, seen>>
    BY <1>2 DEF TickerFires, SweepStop, SweepTick, vars, client
  <2> QED
    BY <2>1 DEF St!vars, cache, Live, phase, Getting
<1> QED
  BY <1>1, <1>2, GetReadRefines, GetCheckRefines, GetEvictRefines, ReturnRefines, SetRefines,
     DeleteRefines, TickRefines, PurgeRefines DEF Next

(***************************************************************************)
(* MemStore implements Store: a Get returns what its key held at some      *)
(* moment between its call and its return, hit or miss.                    *)
(***************************************************************************)
THEOREM Refinement == Spec => ImplementsStore
BY InitRefines, StepRefines, InvHolds, PTL DEF Spec, ImplementsStore, St!Spec

(***************************************************************************)
(* A live entry is lost only to Delete or to the lazy eviction of a Get    *)
(* that read another entry; the sweeper never takes one.                   *)
(***************************************************************************)
THEOREM LossesAreRaces == Spec => LiveLossOnlyByRace
<1> DEFINE Step == \A k \in Keys : Live(k) /\ entries'[k] = None =>
             \/ \E c \in Clients : Delete(c, k)
             \/ \E c \in Clients : /\ GetEvict(c) /\ key[c] = k
                                   /\ entries[k] # copy[c]
<1>1. Inv /\ [Next]_vars => [Step]_vars
  <2> SUFFICES ASSUME Inv, Next, NEW k \in Keys, Live(k), entries'[k] = None
               PROVE  \/ \E c \in Clients : Delete(c, k)
                      \/ \E c \in Clients : GetEvict(c) /\ key[c] = k /\ entries[k] # copy[c]
    OBVIOUS
  <2>0. entries[k] \in memEntry /\ entries[k] # None /\ ~Expired(entries[k], now)
    BY DEF Live, Inv, TypeOK
  <2>1. ASSUME NEW c \in Clients, NEW x \in Keys, Delete(c, x) PROVE Delete(c, k)
    BY <2>0, <2>1 DEF Delete, Inv, TypeOK
  <2>2. ASSUME NEW c \in Clients, GetEvict(c)
        PROVE  GetEvict(c) /\ key[c] = k /\ entries[k] # copy[c]
    <3>1. key[c] = k
      BY <2>0, <2>2 DEF GetEvict, Inv, TypeOK
    <3>2. Expired(copy[c], now)
      BY <2>2 DEF GetEvict, Inv
    <3> QED
      BY <2>0, <2>2, <3>1, <3>2
  <2>3. ~purgeExpired
    BY <2>0, TimeAssumption DEF purgeExpired, Swept, Expired, Inv, TypeOK, memEntry
  <2>4. ASSUME NEW c \in Clients, NEW x \in Keys, NEW r \in Responses, NEW ttl \in TTLArgs
        PROVE  ~Set(c, x, r, ttl)
    <3> SUFFICES ASSUME Set(c, x, r, ttl) PROVE FALSE
      OBVIOUS
    <3> DEFINE e == [resp |-> r, expiresAt |-> now + TTL(ttl)]
    <3>1. e \in [resp : Responses, expiresAt : Nat]
      BY TimeAssumption, TTLPositive DEF Inv, TypeOK
    <3>2. entries' = [entries EXCEPT ![x] = e]
      BY DEF Set
    <3> HIDE DEF e
    <3> QED
      BY <2>0, <3>1, <3>2, NoneAssumption DEF Inv, TypeOK
  <2>5. entries' # entries
    BY <2>0
  <2> QED
    BY <2>1, <2>2, <2>3, <2>4, <2>5
    DEF Next, GetRead, GetCheck, Return, CloseSelect, CloseChannel, TickerFires, SweepStop,
        SweepTick, Tick
<1> QED
  BY <1>1, InvHolds, PTL DEF Spec, LiveLossOnlyByRace
=============================================================================
