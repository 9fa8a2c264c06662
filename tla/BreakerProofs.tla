--------------------------- MODULE BreakerProofs ---------------------------
(***************************************************************************)
(* Proofs about Breaker for every set of callers and every argument of     *)
(* NewBreaker.  The argument rests on Inv: in each state the counters      *)
(* agree with the history of recorded outcomes, and while the breaker is   *)
(* open the calls that can still report back only ever get fewer.          *)
(***************************************************************************)
EXTENDS Breaker, FiniteSetTheorems, TLAPS

(* NewBreaker's defaulting makes every threshold positive. *)
LEMMA Thresholds ==
    /\ failureThreshold \in Nat \ {0}
    /\ successThreshold \in Nat \ {0}
    /\ resetTimeout \in Nat \ {0}
BY ArgsAssumption DEF failureThreshold, successThreshold, resetTimeout

(* The number of calls in flight is a number, at most the callers'. *)
LEMMA InFlightFinite ==
    /\ IsFiniteSet(InFlight)
    /\ Cardinality(Callers) \in Nat
    /\ Cardinality(InFlight) \in Nat
    /\ \A c \in Callers : c \notin InFlight => Cardinality(InFlight) < Cardinality(Callers)
<1>1. InFlight \in SUBSET Callers
  BY DEF InFlight
<1>2. /\ IsFiniteSet(InFlight)
      /\ Cardinality(InFlight) <= Cardinality(Callers)
      /\ Cardinality(Callers) = Cardinality(InFlight) => Callers = InFlight
  BY <1>1, CallersAssumption, FS_Subset
<1>3. Cardinality(Callers) \in Nat /\ Cardinality(InFlight) \in Nat
  BY <1>2, CallersAssumption, FS_CardinalityType
<1> QED
  BY <1>2, <1>3

(* A call that ends leaves one call fewer in flight. *)
LEMMA CallEnds ==
    ASSUME NEW c \in Callers, call \in [Callers -> CallPhase],
           call[c] \in {"running", "ok", "err"},
           call' = [call EXCEPT ![c] = "idle"]
    PROVE  /\ c \notin InFlight'
           /\ Cardinality(InFlight') = Cardinality(InFlight) - 1
<1>1. c \in InFlight /\ InFlight' = InFlight \ {c}
  BY DEF InFlight
<1> QED
  BY <1>1, InFlightFinite, FS_RemoveElement

(* A call that is admitted nowhere and ends nowhere changes no count. *)
LEMMA CallStays ==
    ASSUME NEW c \in Callers, call \in [Callers -> CallPhase], NEW p,
           call' = [call EXCEPT ![c] = p],
           call[c] \in {"running", "ok", "err"} <=> p \in {"running", "ok", "err"}
    PROVE  InFlight' = InFlight
BY DEF InFlight

(* The arithmetic of one more restart of the open window. *)
LEMMA RestartArithmetic ==
    ASSUME NEW r \in Nat, NEW t \in Nat \ {0}
    PROVE  r * t \in Nat /\ r <= r * t /\ (r + 1) * t = r * t + t
<1>1. r * t \in Nat /\ (r + 1) * t = r * t + t
  OBVIOUS
<1>2. r <= r * t
  OBVIOUS
<1> QED
  BY <1>1, <1>2

(* The part of Inv that counts no calls. *)
Counters ==
    /\ TypeOK
    /\ state # HalfOpen => successes = 0
    /\ state = Closed => failures = failRun
    /\ state = HalfOpen => okRun = successes
    /\ state # Open => restarts = 0

LEMMA InitInv == Init => Inv
<1> SUFFICES ASSUME Init PROVE Inv
  OBVIOUS
<1>1. TypeOK
  <2>1. healthy \in BOOLEAN
    BY DEF Init
  <2>2. /\ state \in State
        /\ call \in [Callers -> CallPhase]
        /\ trials \subseteq {c \in Callers : call[c] = "running"}
    BY DEF Init, State, CallPhase
  <2>3. /\ failures \in 0 .. failureThreshold - 1 /\ failRun \in 0 .. failureThreshold
        /\ successes \in 0 .. successThreshold - 1 /\ okRun \in 0 .. successThreshold
        /\ openFor \in 0 .. resetTimeout /\ restarts \in 0 .. Cardinality(Callers)
    BY Thresholds, InFlightFinite DEF Init
  <2> QED
    BY <2>1, <2>2, <2>3 DEF TypeOK
<1>2. state = Closed /\ state # Open /\ state # HalfOpen
  BY DEF Init, Closed, Open, HalfOpen
<1> QED
  BY <1>1, <1>2 DEF Init, Inv, OpenExtensionBounded

(* One step keeps the counters in range and in step with the history. *)
LEMMA CountersStep == Counters /\ [Next]_vars => Counters'
<1> SUFFICES ASSUME Counters, [Next]_vars PROVE Counters'
  OBVIOUS
<1> USE Thresholds, InFlightFinite
    DEF Counters, State, Closed, Open, HalfOpen, CallPhase, fields, hist
<1>1. ASSUME NEW c \in Callers, Allow(c) PROVE Counters'
  BY <1>1 DEF Allow, Allowed, maybeHalfOpenLocked, Due, HalfOpenHistory, Elapsed, TypeOK
<1>2. ASSUME NEW c \in Callers, ReturnErrOpen(c) PROVE Counters'
  BY <1>2 DEF ReturnErrOpen, TypeOK
<1>3. ASSUME NEW c \in Callers, FnReturns(c) PROVE Counters'
  BY <1>3 DEF FnReturns, TypeOK
<1>4. ASSUME NEW c \in Callers, FnPanics(c) PROVE Counters'
  BY <1>4 DEF FnPanics, TypeOK
<1>5. ASSUME NEW c \in Callers, RecordSuccess(c) PROVE Counters'
  BY <1>5 DEF RecordSuccess, recordTrue, Forgive, OnTrial, EnoughSuccesses, AtMost, TypeOK
<1>6. ASSUME NEW c \in Callers, RecordFailure(c) PROVE Counters'
  BY <1>6 DEF RecordFailure, recordFalse, trip, EnoughFailures, AtMost, TypeOK
<1>7. ASSUME StateMethod PROVE Counters'
  BY <1>7 DEF StateMethod, maybeHalfOpenLocked, Due, HalfOpenHistory, Elapsed, TypeOK
<1>8. ASSUME Tick PROVE Counters'
  BY <1>8 DEF Tick, Elapsed, TypeOK
<1>9. ASSUME Heal PROVE Counters'
  BY <1>9 DEF Heal, TypeOK
<1>10. ASSUME UNCHANGED vars PROVE Counters'
  BY <1>10 DEF vars, TypeOK
<1> QED
  BY <1>1, <1>2, <1>3, <1>4, <1>5, <1>6, <1>7, <1>8, <1>9, <1>10 DEF Next

(***************************************************************************)
(* One step keeps the bound on restarts.  While the breaker stays open no  *)
(* call is admitted, and a failure that starts the window over is the last *)
(* of failureThreshold calls that have all left.                           *)
(***************************************************************************)
LEMMA ExtensionStep == Inv /\ [Next]_vars => OpenExtensionBounded'
<1> DEFINE N == Cardinality(Callers)
           k == Cardinality(InFlight)
           Goal == restarts' * failureThreshold + failures' + Cardinality(InFlight') < N
<1> SUFFICES ASSUME Inv, [Next]_vars, state' = Open PROVE Goal
  BY DEF OpenExtensionBounded
<1>0. /\ N \in Nat /\ k \in Nat /\ restarts \in Nat /\ failures \in Nat
      /\ failureThreshold \in Nat \ {0} /\ failures < failureThreshold
      /\ restarts * failureThreshold \in Nat
      /\ call \in [Callers -> CallPhase] /\ state \in State
  BY Thresholds, InFlightFinite, RestartArithmetic DEF Inv, TypeOK
<1>a. ASSUME state = Open, UNCHANGED <<restarts, failures>>, InFlight' = InFlight
      PROVE  Goal
  BY <1>a DEF Inv, OpenExtensionBounded
<1>b. ASSUME NEW c \in Callers, call' = [call EXCEPT ![c] = "idle"],
             call[c] \in {"running", "ok", "err"}
      PROVE  /\ k > 0 /\ Cardinality(InFlight') = k - 1 /\ k - 1 < N
             /\ state = Open => restarts * failureThreshold + failures + k < N
  <2>1. Cardinality(InFlight') = k - 1
    BY <1>0, <1>b, CallEnds
  <2>2. c \in InFlight /\ k # 0
    BY <1>b, InFlightFinite, FS_EmptySet DEF InFlight
  <2>3. k <= N
    BY CallersAssumption, FS_Subset DEF InFlight
  <2> QED
    BY <1>0, <2>1, <2>2, <2>3 DEF Inv, OpenExtensionBounded
<1>1. ASSUME NEW c \in Callers, Allow(c) PROVE Goal
  <2>1. state = Open /\ UNCHANGED <<restarts, failures>>
    BY <1>1 DEF Allow, maybeHalfOpenLocked, Due, HalfOpenHistory, Open, HalfOpen
  <2>2. InFlight' = InFlight
    BY <1>0, <1>1, CallStays DEF Allow, Allowed
  <2> QED
    BY <1>a, <2>1, <2>2
<1>2. ASSUME NEW c \in Callers, ReturnErrOpen(c) PROVE Goal
  <2>1. InFlight' = InFlight
    BY <1>0, <1>2, CallStays DEF ReturnErrOpen
  <2> QED
    BY <1>a, <1>2, <2>1 DEF ReturnErrOpen, fields, hist
<1>3. ASSUME NEW c \in Callers, FnReturns(c) PROVE Goal
  <2>1. InFlight' = InFlight
    BY <1>0, <1>3, CallStays DEF FnReturns
  <2> QED
    BY <1>a, <1>3, <2>1 DEF FnReturns, fields
<1>4. ASSUME NEW c \in Callers, FnPanics(c) PROVE Goal
  <2>1. state = Open /\ failures' = failures /\ restarts' = restarts
    BY <1>4 DEF FnPanics, fields
  <2>2. /\ Cardinality(InFlight') = k - 1
        /\ restarts * failureThreshold + failures + k < N
    BY <1>b, <1>4, <2>1 DEF FnPanics
  <2> QED
    BY <1>0, <2>1, <2>2
<1>5. ASSUME NEW c \in Callers, RecordSuccess(c) PROVE Goal
  <2>1. state = Open /\ failures' = 0 /\ restarts' = restarts
    BY <1>5 DEF RecordSuccess, recordTrue, Forgive, OnTrial, Open, HalfOpen, Closed
  <2>2. /\ Cardinality(InFlight') = k - 1
        /\ restarts * failureThreshold + failures + k < N
    BY <1>b, <1>5, <2>1 DEF RecordSuccess
  <2> QED
    BY <1>0, <2>1, <2>2
<1>6. ASSUME NEW c \in Callers, RecordFailure(c) PROVE Goal
  <2>1. /\ Cardinality(InFlight') = k - 1 /\ k > 0 /\ k - 1 < N
        /\ state = Open => restarts * failureThreshold + failures + k < N
    BY <1>b, <1>6 DEF RecordFailure
  <2>2. CASE state # Open
    \* The window starts: nothing was counted, and c is not in flight.
    <3>1. failures' = 0 /\ restarts' = 0
      BY <1>0, <1>6, <2>2 DEF RecordFailure, recordFalse, trip, Inv, State
    <3> QED
      BY <1>0, <2>1, <3>1
  <2>3. CASE state = Open /\ EnoughFailures
    \* The window starts over: failures + 1 = failureThreshold calls left.
    <3>1. failures' = 0 /\ restarts' = AtMost(restarts + 1, N)
      BY <1>6, <2>3 DEF RecordFailure, recordFalse, trip
    <3>2. failures + 1 = failureThreshold
      BY <1>0, <2>3 DEF EnoughFailures
    <3>3. restarts <= restarts * failureThreshold
          /\ (restarts + 1) * failureThreshold = restarts * failureThreshold + failureThreshold
      BY <1>0, RestartArithmetic
    <3>4. restarts' = restarts + 1
      BY <1>0, <2>1, <2>3, <3>1, <3>3 DEF AtMost
    <3> QED
      BY <1>0, <2>1, <2>3, <3>1, <3>2, <3>3, <3>4
  <2>4. CASE state = Open /\ ~EnoughFailures
    <3>1. failures' = failures + 1 /\ restarts' = restarts
      BY <1>6, <2>4 DEF RecordFailure, recordFalse, Open, HalfOpen
    <3> QED
      BY <1>0, <2>1, <2>4, <3>1
  <2> QED
    BY <2>2, <2>3, <2>4
<1>7. ASSUME StateMethod PROVE Goal
  BY <1>7 DEF StateMethod, maybeHalfOpenLocked, Due, Open, HalfOpen
<1>8. ASSUME Tick \/ Heal \/ UNCHANGED vars PROVE Goal
  <2>1. InFlight' = InFlight /\ UNCHANGED <<state, failures, restarts>>
    BY <1>8 DEF Tick, Heal, vars, fields, hist, InFlight
  <2> QED
    BY <1>a, <2>1
<1> QED
  BY <1>1, <1>2, <1>3, <1>4, <1>5, <1>6, <1>7, <1>8 DEF Next

LEMMA InvStep == Inv /\ [Next]_vars => Inv'
<1>1. Inv <=> Counters /\ OpenExtensionBounded
  BY DEF Inv, Counters
<1>2. Counters' /\ OpenExtensionBounded' => Inv'
  BY DEF Inv, Counters
<1> QED
  BY <1>1, <1>2, CountersStep, ExtensionStep

LEMMA InvHolds == Spec => []Inv
BY InitInv, InvStep, PTL DEF Spec

(***************************************************************************)
(* Every field of the Breaker stays in its range, and no counter reaches   *)
(* its threshold, for any interleaving of Allow, fn and Record.            *)
(***************************************************************************)
THEOREM TypeCorrect == Spec => []TypeOK
<1>1. Inv => TypeOK
  BY DEF Inv
<1> QED
  BY <1>1, InvHolds, PTL

(***************************************************************************)
(* The breaker is never closed after failureThreshold consecutive recorded *)
(* failures.                                                               *)
(***************************************************************************)
THEOREM OpensInTime == Spec => []ClosedMeansFewFailures
<1>1. Inv => ClosedMeansFewFailures
  BY Thresholds DEF Inv, TypeOK, ClosedMeansFewFailures
<1> QED
  BY <1>1, InvHolds, PTL

(***************************************************************************)
(* Stragglers start the open window over fewer than                        *)
(* Cardinality(Callers) / failureThreshold times.                          *)
(***************************************************************************)
THEOREM ExtensionsBounded == Spec => []OpenExtensionBounded
<1>1. Inv => OpenExtensionBounded
  BY DEF Inv
<1> QED
  BY <1>1, InvHolds, PTL

(***************************************************************************)
(* The breaker opens only after failureThreshold consecutive failures or a *)
(* failure in half-open.                                                   *)
(***************************************************************************)
THEOREM TripsAreJustified == Spec => TripJustified
<1> DEFINE Step == state # Open /\ state' = Open =>
             failRun' = failureThreshold \/ (state = HalfOpen /\ failRun' > 0)
<1>1. Inv /\ [Next]_vars => [Step]_vars
  <2> SUFFICES ASSUME Inv, Next, state # Open, state' = Open
               PROVE  failRun' = failureThreshold \/ (state = HalfOpen /\ failRun' > 0)
    OBVIOUS
  <2> USE DEF Open, Closed, HalfOpen
  <2>1. PICK c \in Callers : RecordFailure(c)
    BY DEF Next, Allow, ReturnErrOpen, FnReturns, FnPanics, RecordSuccess, recordTrue, Forgive,
           OnTrial, StateMethod, Tick, Heal, maybeHalfOpenLocked, Due, fields
  <2>2. failRun' = AtMost(failRun + 1, failureThreshold) /\ failRun \in Nat
    BY <2>1, Thresholds DEF RecordFailure, Inv, TypeOK
  <2>3. CASE state = HalfOpen
    BY <2>2, <2>3, Thresholds DEF AtMost
  <2>4. CASE state = Closed
    <3>1. EnoughFailures /\ failures = failRun
      BY <2>1, <2>4 DEF RecordFailure, recordFalse, Inv
    <3> QED
      BY <2>2, <3>1, Thresholds DEF EnoughFailures, AtMost
  <2> QED
    BY <2>3, <2>4 DEF Inv, TypeOK, State
<1> QED
  BY <1>1, InvHolds, PTL DEF Spec, TripJustified

(***************************************************************************)
(* The breaker closes only from half-open, after successThreshold          *)
(* consecutive successes recorded there.                                   *)
(***************************************************************************)
THEOREM ClosesAreJustified == Spec => CloseJustified
<1> DEFINE Step == state # Closed /\ state' = Closed =>
             state = HalfOpen /\ okRun' = successThreshold
<1>1. Inv /\ [Next]_vars => [Step]_vars
  <2> SUFFICES ASSUME Inv, Next, state # Closed, state' = Closed
               PROVE  state = HalfOpen /\ okRun' = successThreshold
    OBVIOUS
  <2> USE DEF Open, Closed, HalfOpen
  <2>1. PICK c \in Callers : RecordSuccess(c)
    BY DEF Next, Allow, ReturnErrOpen, FnReturns, FnPanics, RecordFailure, recordFalse, trip,
           StateMethod, Tick, Heal, maybeHalfOpenLocked, Due, fields
  <2>2. state = HalfOpen /\ EnoughSuccesses /\ okRun = successes
    BY <2>1 DEF RecordSuccess, recordTrue, Forgive, OnTrial, Inv
  <2>3. okRun' = AtMost(okRun + 1, successThreshold) /\ successes \in Nat
    BY <2>1, <2>2, Thresholds DEF RecordSuccess, Inv, TypeOK
  <2> QED
    BY <2>2, <2>3, Thresholds DEF EnoughSuccesses, AtMost
<1> QED
  BY <1>1, InvHolds, PTL DEF Spec, CloseJustified
=============================================================================
