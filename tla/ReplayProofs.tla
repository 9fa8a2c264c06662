---------------------------- MODULE ReplayProofs ----------------------------
(***************************************************************************)
(* Proofs about Replay for any clients, keys, responses and TTLs.  The     *)
(* middleware only calls the store, so MemStore's invariant holds in every *)
(* behaviour of Replay; what is added is the story of a key, from the Set  *)
(* that promises a response to the request that is owed it.                *)
(***************************************************************************)
EXTENDS Replay, MemStoreProofs

(* Every step of the protocol is a step of the store or does not touch it. *)
LEMMA StoreStep == ReplayTypeOK /\ [ReplayNext]_replayVars => [Next]_vars
<1> SUFFICES ASSUME ReplayTypeOK, [ReplayNext]_replayVars PROVE Next \/ UNCHANGED vars
  OBVIOUS
<1>1. ASSUME NEW c \in Clients, NEW ttl \in TTLArgs, Record(c, ttl) PROVE Next
  <2>1. result[c] \in Responses /\ key[c] \in Keys
    BY <1>1 DEF Record, ReplayTypeOK, TypeOK
  <2> QED
    BY <1>1, <2>1 DEF Record, Next
<1>2. ASSUME NEW c \in Clients,
             \/ \E k \in Keys : Lookup(c, k)
             \/ LookupCheck(c) \/ LookupEvict(c) \/ Replayed(c) \/ Invoke(c)
      PROVE  Next
  BY <1>2 DEF Lookup, LookupCheck, LookupEvict, Replayed, Invoke, Next
<1>3. CASE StoreWorks
  BY <1>3 DEF StoreWorks, Next
<1>4. ASSUME NEW c \in Clients, HandlerFails(c) \/ \E r \in Responses : HandlerReturns(c, r)
      PROVE  UNCHANGED vars
  BY <1>4 DEF HandlerFails, HandlerReturns
<1> QED
  BY <1>1, <1>2, <1>3, <1>4 DEF ReplayNext, replayVars

LEMMA ReplayInitInv == ReplayInit => ReplayInv
<1> SUFFICES ASSUME ReplayInit PROVE ReplayInv
  OBVIOUS
<1>1. Inv
  BY InitInv DEF ReplayInit
<1>2. ReplayTypeOK
  BY <1>1 DEF Inv, ReplayInit, ReplayTypeOK, Init
<1>3. StoreKeeps /\ LookupKeeps
  BY DEF ReplayInit, Init, StoreKeeps, LookupKeeps
<1> QED
  BY <1>1, <1>2, <1>3 DEF ReplayInv

(* What Set stores is an entry, live at once, and becomes the promise. *)
LEMMA RecordFacts ==
    ASSUME ReplayTypeOK, NEW c \in Clients, NEW ttl \in TTLArgs, Record(c, ttl)
    PROVE  \E e \in memEntry : /\ e # None /\ e.resp = result[c]
                               /\ entries' = [entries EXCEPT ![key[c]] = e]
                               /\ promise' = [promise EXCEPT ![key[c]] = e]
<1> DEFINE e == [resp |-> result[c], expiresAt |-> now + TTL(ttl)]
<1>1. result[c] \in Responses
  BY DEF Record, ReplayTypeOK
<1>2. e \in memEntry /\ e \in [resp : Responses, expiresAt : Nat] /\ e.resp = result[c]
  BY <1>1, TTLPositive, TimeAssumption DEF memEntry, ReplayTypeOK, TypeOK
<1>3. /\ entries' = [entries EXCEPT ![key[c]] = e]
      /\ promise' = [promise EXCEPT ![key[c]] = e]
  BY DEF Record, Set
<1> HIDE DEF e
<1>4. e # None
  BY <1>2, NoneAssumption
<1> QED
  BY <1>2, <1>3, <1>4

LEMMA ReplayTypeStep == ReplayInv /\ [ReplayNext]_replayVars => ReplayTypeOK'
<1> SUFFICES ASSUME ReplayInv, [ReplayNext]_replayVars PROVE ReplayTypeOK'
  OBVIOUS
<1> USE DEF Goto, history
<1>0. TypeOK' /\ ReplayTypeOK
  BY StoreStep, InvStep DEF ReplayInv, Inv
<1> DEFINE Rest ==
      /\ req \in [Clients -> {"idle", "lookup", "handler", "record"}]
      /\ result \in [Clients -> Responses \union {None}]
      /\ promise \in [Keys -> memEntry \union {None}]
      /\ lost \subseteq Keys /\ excused \subseteq Clients
      /\ owed \in [Clients -> memEntry \union {None}]
      /\ pc \in [Clients -> {"idle", "check", "evict", "returned", "closing", "panicked"}]
      /\ key \in [Clients -> Keys]
      /\ \A c \in Clients : /\ req[c] = "lookup" <=> pc[c] # "idle"
                            /\ req[c] = "record" <=> result[c] # None
<1>00. Rest
  BY <1>0 DEF ReplayTypeOK, TypeOK
<1> SUFFICES Rest'
  BY <1>0 DEF ReplayTypeOK
<1>1. ASSUME NEW c \in Clients, NEW k \in Keys, Lookup(c, k) PROVE Rest'
  BY <1>00, <1>1, <1>0 DEF Lookup, GetRead, TypeOK
<1>2. ASSUME NEW c \in Clients, LookupCheck(c) PROVE Rest'
  BY <1>00, <1>2, <1>0 DEF LookupCheck, GetCheck, TypeOK
<1>3. ASSUME NEW c \in Clients, LookupEvict(c) PROVE Rest'
  BY <1>00, <1>3, <1>0 DEF LookupEvict, GetEvict, TypeOK
<1>4. ASSUME NEW c \in Clients, Replayed(c) \/ Invoke(c) PROVE Rest'
  BY <1>00, <1>4, <1>0 DEF Replayed, Invoke, Forget, Return, TypeOK
<1>5. ASSUME NEW c \in Clients, NEW r \in Responses, HandlerReturns(c, r) PROVE Rest'
  BY <1>00, <1>5, NoneAssumption DEF HandlerReturns, vars
<1>6. ASSUME NEW c \in Clients, HandlerFails(c) PROVE Rest'
  BY <1>00, <1>6 DEF HandlerFails, vars
<1>7. ASSUME NEW c \in Clients, NEW ttl \in TTLArgs, Record(c, ttl) PROVE Rest'
  <2>1. PICK e \in memEntry : promise' = [promise EXCEPT ![key[c]] = e]
    BY <1>0, <1>7, RecordFacts
  <2> QED
    BY <1>00, <1>7, <2>1 DEF Record, Set, client
<1>8. CASE StoreWorks
  BY <1>00, <1>8
  DEF StoreWorks, TickerFires, SweepTick, purgeExpired, Tick, client
<1>9. CASE UNCHANGED replayVars
  BY <1>00, <1>9 DEF replayVars, vars
<1> QED
  BY <1>1, <1>2, <1>3, <1>4, <1>5, <1>6, <1>7, <1>8, <1>9 DEF ReplayNext

(* The store holds the last Set or nothing, and loses it live only to an   *)
(* eviction that the history marks.                                        *)
LEMMA StoreKeepsStep == ReplayInv /\ [ReplayNext]_replayVars => StoreKeeps'
<1> SUFFICES ASSUME ReplayInv, [ReplayNext]_replayVars, NEW k \in Keys
             PROVE  /\ entries'[k] \in {None, promise'[k]}
                    /\ promise'[k] # None /\ ~Expired(promise'[k], now') /\ k \notin lost' =>
                          entries'[k] # None
  BY DEF StoreKeeps
<1> USE DEF history
<1>0. /\ ReplayTypeOK /\ TypeOK
      /\ entries[k] \in {None, promise[k]}
      /\ promise[k] # None /\ ~Expired(promise[k], now) /\ k \notin lost => entries[k] # None
  BY DEF ReplayInv, ReplayTypeOK, StoreKeeps
<1>1. ASSUME NEW c \in Clients, LookupEvict(c) PROVE
        /\ entries'[k] \in {None, promise'[k]}
        /\ promise'[k] # None /\ ~Expired(promise'[k], now') /\ k \notin lost' =>
              entries'[k] # None
  <2>1. key[c] \in Keys /\ now' = now /\ promise' = promise
    BY <1>0, <1>1 DEF LookupEvict, GetEvict, TypeOK
  <2>2. CASE k = key[c]
    <3>1. entries'[k] = None /\ lost \subseteq lost' /\ (Live(k) => k \in lost')
      BY <1>0, <1>1, <2>1, <2>2 DEF LookupEvict, GetEvict, TypeOK
    <3> QED
      BY <1>0, <2>1, <3>1 DEF Live
  <2>3. CASE k # key[c]
    BY <1>0, <1>1, <2>1, <2>3 DEF LookupEvict, GetEvict, TypeOK
  <2> QED
    BY <2>2, <2>3
<1>2. ASSUME NEW c \in Clients, NEW ttl \in TTLArgs, Record(c, ttl) PROVE
        /\ entries'[k] \in {None, promise'[k]}
        /\ promise'[k] # None /\ ~Expired(promise'[k], now') /\ k \notin lost' =>
              entries'[k] # None
  <2>1. PICK e \in memEntry : /\ e # None
                              /\ entries' = [entries EXCEPT ![key[c]] = e]
                              /\ promise' = [promise EXCEPT ![key[c]] = e]
    BY <1>0, <1>2, RecordFacts
  <2>2. now' = now /\ lost' = lost \ {key[c]}
    BY <1>2 DEF Record, Set
  <2> QED
    BY <1>0, <2>1, <2>2 DEF TypeOK, ReplayTypeOK
<1>3. CASE UNCHANGED <<entries, promise, lost, now>>
  BY <1>0, <1>3
<1>4. CASE UNCHANGED <<entries, promise, lost>> /\ Tick
  BY <1>0, <1>4, TimeAssumption DEF Tick, Expired, TypeOK, ReplayTypeOK, memEntry
<1>5. CASE UNCHANGED <<promise, lost, now>> /\ purgeExpired
  <2>1. entries'[k] = IF entries[k] # None /\ Swept(entries[k]) THEN None ELSE entries[k]
    BY <1>5 DEF purgeExpired
  <2>2. entries[k] # None /\ Swept(entries[k]) => Expired(promise[k], now)
    BY <1>0, TimeAssumption DEF Swept, Expired, TypeOK, ReplayTypeOK, memEntry
  <2> QED
    BY <1>0, <1>5, <2>1, <2>2
<1> QED
  BY <1>1, <1>2, <1>3, <1>4, <1>5
  DEF ReplayNext, replayVars, vars, Lookup, LookupCheck, Replayed, Invoke, Forget, HandlerReturns,
      HandlerFails, StoreWorks, GetRead, GetCheck, Return, TickerFires, SweepTick, purgeExpired, Tick

(* A Get works with the entry that stood when it was called. *)
LEMMA LookupKeepsStep == ReplayInv /\ [ReplayNext]_replayVars => LookupKeeps'
<1> SUFFICES ASSUME ReplayInv, [ReplayNext]_replayVars, NEW c \in Clients, req'[c] = "lookup"
             PROVE  /\ copy'[c] \in {None, owed'[c]}
                    /\ got'[c] # None => owed'[c] # None /\ got'[c] = owed'[c].resp
                    /\ Promised(c)' /\ c \notin excused' =>
                          pc'[c] = "check" \/ (pc'[c] = "returned" /\ got'[c] # None)
  BY DEF LookupKeeps
<1> DEFINE Kept == /\ copy'[c] \in {None, owed'[c]}
                   /\ got'[c] # None => owed'[c] # None /\ got'[c] = owed'[c].resp
                   /\ Promised(c)' /\ c \notin excused' =>
                         pc'[c] = "check" \/ (pc'[c] = "returned" /\ got'[c] # None)
<1> USE DEF history, Goto
<1>0. /\ ReplayTypeOK /\ TypeOK /\ Inv
      /\ req[c] = "lookup" =>
            /\ copy[c] \in {None, owed[c]}
            /\ got[c] # None => owed[c] # None /\ got[c] = owed[c].resp
            /\ Promised(c) /\ c \notin excused =>
                  pc[c] = "check" \/ (pc[c] = "returned" /\ got[c] # None)
  BY DEF ReplayInv, ReplayTypeOK, LookupKeeps
<1>t. now \in Int /\ now' \in Int /\ now <= now'
  <2>1. TypeOK'
    BY <1>0, StoreStep, InvStep DEF Inv
  <2>2. now' = now \/ now' = now + 1
    BY StoreStep, <1>0 DEF Next, GetRead, Delete, Set, GetCheck, GetEvict, Return, CloseSelect,
      CloseChannel, TickerFires, SweepStop, SweepTick, purgeExpired, Tick, vars
  <2> QED
    BY <1>0, <2>1, <2>2, TimeAssumption DEF TypeOK
<1>1. CASE \E k \in Keys : Lookup(c, k)
  <2>1. PICK k \in Keys : Lookup(c, k)
    BY <1>1
  <2>2. /\ copy'[c] = entries[k] /\ owed'[c] = promise[k] /\ now' = now
        /\ got'[c] = None
        /\ (k \in lost => c \in excused')
        /\ entries[k] # None => pc'[c] = "check"
    BY <1>0, <2>1 DEF Lookup, GetRead, TypeOK, ReplayTypeOK, Inv
  <2>3. /\ entries[k] \in {None, promise[k]}
        /\ promise[k] # None /\ ~Expired(promise[k], now) /\ k \notin lost => entries[k] # None
    BY DEF ReplayInv, StoreKeeps
  <2> QED
    BY <2>2, <2>3 DEF Promised
<1>2. CASE LookupCheck(c)
  <2>1. pc[c] = "check" /\ req[c] = "lookup" /\ owed' = owed /\ excused' = excused /\ now' = now
    BY <1>0, <1>2 DEF LookupCheck, GetCheck, ReplayTypeOK
  <2>2. copy[c] \in memEntry /\ copy[c] = owed[c] /\ owed[c] # None /\ got[c] = None
    <3>1. copy[c] \in memEntry /\ got[c] = None
      BY <1>0, <2>1 DEF Inv, Getting
    <3>2. copy[c] # None
      BY <3>1, NoneAssumption DEF memEntry
    <3> QED
      BY <1>0, <2>1, <3>1, <3>2
  <2>3. CASE Fresh(c)
    <3>1. pc'[c] = "returned" /\ got'[c] = copy[c].resp /\ copy'[c] = None
      BY <1>0, <1>2, <2>3 DEF LookupCheck, GetCheck, TypeOK
    <3>2. got'[c] # None
      BY <2>2, <3>1, NoneAssumption DEF memEntry
    <3> QED
      BY <2>1, <2>2, <3>1, <3>2
  <2>4. CASE ~Fresh(c)
    <3>1. got' = got /\ copy' = copy
      BY <1>2, <2>4 DEF LookupCheck, GetCheck
    <3>2. ~Promised(c)'
      BY <2>1, <2>2, <2>4 DEF Fresh, Promised
    <3> QED
      BY <2>1, <2>2, <3>1, <3>2
  <2> QED
    BY <2>3, <2>4
<1>3. CASE LookupEvict(c)
  <2>1. /\ pc[c] = "evict" /\ req[c] = "lookup" /\ owed' = owed /\ excused' = excused
        /\ now' = now /\ got' = got /\ copy'[c] = None
    BY <1>0, <1>3 DEF LookupEvict, GetEvict, ReplayTypeOK, TypeOK
  <2> QED
    BY <1>0, <2>1 DEF Promised
<1>4. CASE /\ UNCHANGED <<pc[c], copy[c], got[c], owed[c], req[c]>>
           /\ c \in excused => c \in excused'
  <2>1. Promised(c)' => Promised(c)
    BY <1>0, <1>4, <1>t DEF Promised, Expired, ReplayTypeOK, memEntry
  <2> QED
    BY <1>0, <1>4, <2>1
<1> DEFINE Still == /\ UNCHANGED <<pc[c], copy[c], got[c], owed[c], req[c]>>
                    /\ c \in excused => c \in excused'
<1>5. ASSUME NEW d \in Clients, d # c,
             \/ \E k \in Keys : Lookup(d, k)
             \/ LookupCheck(d) \/ LookupEvict(d) \/ Replayed(d) \/ Invoke(d)
      PROVE  Still
  BY <1>0, <1>5
  DEF Lookup, LookupCheck, LookupEvict, Replayed, Invoke, Forget, GetRead, GetCheck, GetEvict, Return,
      ReplayTypeOK, TypeOK
<1>6. ~Replayed(c) /\ ~Invoke(c)
  BY <1>0 DEF Replayed, Invoke, ReplayTypeOK
<1>7. ASSUME NEW d \in Clients,
             \/ \E r \in Responses : HandlerReturns(d, r)
             \/ HandlerFails(d)
             \/ \E ttl \in TTLArgs : Record(d, ttl)
      PROVE  Still
  BY <1>0, <1>7 DEF HandlerReturns, HandlerFails, Record, Set, client, vars, ReplayTypeOK
<1>8. StoreWorks => Still
  BY DEF StoreWorks, TickerFires, SweepTick, purgeExpired, Tick, client
<1>9. UNCHANGED replayVars => Still
  BY DEF replayVars, vars
<1>10. Still => Kept
  BY <1>4
<1> HIDE DEF Still
<1> QED
  BY <1>1, <1>2, <1>3, <1>5, <1>6, <1>7, <1>8, <1>9, <1>10 DEF ReplayNext

LEMMA ReplayInvStep == ReplayInv /\ [ReplayNext]_replayVars => ReplayInv'
<1>1. ReplayInv /\ [ReplayNext]_replayVars => Inv'
  BY StoreStep, InvStep DEF ReplayInv
<1> QED
  BY <1>1, ReplayTypeStep, StoreKeepsStep, LookupKeepsStep DEF ReplayInv

LEMMA ReplayInvHolds == ReplaySpec => []ReplayInv
BY ReplayInitInv, ReplayInvStep, PTL DEF ReplaySpec

(***************************************************************************)
(* MemStore.Get and Set as the middleware uses them: within the TTL of a   *)
(* Set the handler runs again only for a request whose key a lazy eviction *)
(* had emptied before the request came.                                    *)
(***************************************************************************)
THEOREM RerunsAreRaces == ReplaySpec => RerunOnlyByRace
<1>1. ReplayInv /\ [ReplayNext]_replayVars =>
          [\A c \in Clients : Invoke(c) /\ Promised(c) => c \in excused]_replayVars
  BY DEF ReplayInv, LookupKeeps, Invoke, Return
<1> QED
  BY <1>1, ReplayInvHolds, PTL DEF ReplaySpec, RerunOnlyByRace

(***************************************************************************)
(* A replayed response is the one recorded by the last Set before the      *)
(* request came: neither a Set nor an eviction during Get can mix it up.   *)
(***************************************************************************)
THEOREM ReplaysAreVerbatim == ReplaySpec => ReplayVerbatim
<1>1. ReplayInv /\ [ReplayNext]_replayVars =>
          [\A c \in Clients :
              Replayed(c) => owed[c] # None /\ got[c] = owed[c].resp]_replayVars
  BY DEF ReplayInv, LookupKeeps, Replayed
<1> QED
  BY <1>1, ReplayInvHolds, PTL DEF ReplaySpec, ReplayVerbatim

(***************************************************************************)
(* Under the middleware the store still implements the abstract cache: the *)
(* protocol calls it as MemStore allows, so what a request is answered is  *)
(* what the cache held for its key at some moment of its Get.              *)
(***************************************************************************)
THEOREM ReplayRefinement == ReplaySpec => ImplementsStore
<1>1. ReplayInit => St!Init
  BY InitRefines DEF ReplayInit
<1>2. ReplayInv /\ [ReplayNext]_replayVars => [St!Next]_(St!vars)
  BY StoreStep, StepRefines DEF ReplayInv
<1> QED
  BY <1>1, <1>2, ReplayInvHolds, PTL DEF ReplaySpec, ImplementsStore, St!Spec
=============================================================================
