---------------------------- MODULE GuardProofs ----------------------------
(***************************************************************************)
(* Proofs about Guard.Do for every set of callers, every capacity, every   *)
(* retry policy and every choice of layers.                                *)
(***************************************************************************)
EXTENDS Guard, FiniteSetTheorems, TLAPS

LEMMA Positive == Bh!max \in Nat \ {0} /\ attempts \in Nat \ {0}
BY GuardAssumption DEF Bh!max, attempts

LEMMA HoldersFinite == IsFiniteSet(Bh!Holders) /\ Cardinality(Bh!Holders) \in Nat
<1>1. Bh!Holders \in SUBSET Callers
  BY DEF Bh!Holders
<1> QED
  BY <1>1, GuardAssumption, FS_Subset, FS_CardinalityType

-----------------------------------------------------------------------------
(* The Guard takes no step with a component that the component does not    *)
(* take by itself.                                                         *)
LEMMA BulkheadStep == [Next]_vars => [Bh!Next]_(Bh!vars)
<1> SUFFICES ASSUME [Next]_vars PROVE Bh!Next \/ UNCHANGED Bh!vars
  OBVIOUS
<1> USE DEF bulkheadVars, Bh!vars
<1>1. ASSUME NEW c \in Callers, Start(c) PROVE Bh!Next \/ UNCHANGED Bh!vars
  BY <1>1 DEF Start, Bh!Next
<1>2. ASSUME NEW c \in Callers, Refused(c) PROVE Bh!Next \/ UNCHANGED Bh!vars
  BY <1>2 DEF Refused, Bh!Next
<1>3. ASSUME NEW c \in Callers, Attempting(c) \/ Wake(c) \/ Interrupted(c)
      PROVE  Bh!Next \/ UNCHANGED Bh!vars
  BY <1>3 DEF Attempting, Try, Rejected, FnReturns, RecordedFailure, RecordedSuccess,
              FnReturnsUnbroken, Wake, Interrupted
<1>4. ASSUME NEW c \in Callers, Leave(c) PROVE Bh!Next \/ UNCHANGED Bh!vars
  BY <1>4 DEF Leave, Bh!Next
<1>5. ASSUME NEW c \in Callers, Panics(c) PROVE Bh!Next \/ UNCHANGED Bh!vars
  BY <1>5 DEF Panics, Unwind, Bh!Next
<1>6. ASSUME NEW c \in Callers, Cancel(c) \/ NewContext(c) PROVE Bh!Next
  BY <1>6 DEF Cancel, NewContext, Bh!Next
<1>7. CASE Clock \/ Other \/ UNCHANGED vars
  BY <1>7 DEF Clock, Other, vars
<1> QED
  BY <1>1, <1>2, <1>3, <1>4, <1>5, <1>6, <1>7 DEF Next, Proceed

LEMMA BreakerStep == [Next]_vars => [Br!Next]_(Br!vars)
<1> SUFFICES ASSUME [Next]_vars PROVE Br!Next \/ UNCHANGED Br!vars
  OBVIOUS
<1> USE DEF breakerVars, Br!vars
<1>1. ASSUME NEW c \in Callers,
             Start(c) \/ Refused(c) \/ FnReturnsUnbroken(c) \/ Wake(c) \/ Interrupted(c)
                \/ Leave(c) \/ Cancel(c) \/ NewContext(c)
      PROVE  UNCHANGED Br!vars
  BY <1>1 DEF Start, Refused, FnReturnsUnbroken, Wake, Interrupted, Leave, Cancel, NewContext
<1>2. ASSUME NEW c \in Callers, Try(c) PROVE Br!Next \/ UNCHANGED Br!vars
  BY <1>2 DEF Try, Br!Next
<1>3. ASSUME NEW c \in Callers, Rejected(c) \/ FnReturns(c) PROVE Br!Next
  BY <1>3 DEF Rejected, FnReturns, Br!Next
<1>4. ASSUME NEW c \in Callers, RecordedFailure(c) \/ RecordedSuccess(c) PROVE Br!Next
  BY <1>4 DEF RecordedFailure, RecordedSuccess, Br!Next
<1>5. ASSUME NEW c \in Callers, Panics(c) PROVE Br!Next \/ UNCHANGED Br!vars
  BY <1>5 DEF Panics, Br!Next
<1>6. CASE Clock \/ Other
  BY <1>6 DEF Clock, Other, Br!Next
<1>7. CASE UNCHANGED vars
  BY <1>7 DEF vars
<1> QED
  BY <1>1, <1>2, <1>3, <1>4, <1>5, <1>6, <1>7 DEF Next, Proceed, Attempting

-----------------------------------------------------------------------------
(* A bulkhead step keeps the channel's count equal to the slots held. *)
LEMMA SlotsStep == SlotsCounted /\ [Bh!Next]_(Bh!vars) => SlotsCounted'
<1> SUFFICES ASSUME SlotsCounted, [Bh!Next]_(Bh!vars) PROVE SlotsCounted'
  OBVIOUS
<1> USE DEF Bh!SlotPhase
<1> DEFINE H == Bh!Holders
<1>0. /\ slot \in [Callers -> Bh!SlotPhase] /\ sem \in Nat /\ sem <= Bh!max /\ Bh!max \in Nat
      /\ sem = Cardinality(H) /\ IsFiniteSet(H)
      /\ \A c \in Callers : c \in H <=> slot[c] = "in"
  BY HoldersFinite, Positive DEF SlotsCounted, Bh!Holders
<1>1. CASE sem' = sem /\ slot' \in [Callers -> Bh!SlotPhase]
           /\ \A c \in Callers : slot'[c] = "in" <=> slot[c] = "in"
  <2>1. Bh!Holders' = Bh!Holders
    BY <1>1 DEF Bh!Holders
  <2> QED
    BY <1>0, <1>1, <2>1 DEF SlotsCounted
<1>2. ASSUME NEW c \in Callers, Bh!Acquire(c) PROVE SlotsCounted'
  <2>1. H' = H \union {c} /\ c \notin H /\ slot' \in [Callers -> Bh!SlotPhase]
    BY <1>0, <1>2 DEF Bh!Acquire, Bh!Holders
  <2>2. Cardinality(H') = sem + 1
    BY <1>0, <2>1, FS_AddElement
  <2> QED
    BY <1>0, <1>2, <2>1, <2>2 DEF Bh!Acquire, SlotsCounted
<1>3. ASSUME NEW c \in Callers, slot[c] = "in", Bh!release(c) PROVE SlotsCounted'
  <2>1. /\ c \in H /\ sem # 0
        /\ IsFiniteSet(H \ {c}) /\ Cardinality(H \ {c}) = sem - 1
    <3>1. c \in H
      BY <1>0, <1>3
    <3>2. sem # 0
      BY <1>0, <3>1, FS_EmptySet
    <3> QED
      BY <1>0, <3>1, <3>2, FS_RemoveElement
  <2>2. CASE sem' = sem - 1 /\ slot' = [slot EXCEPT ![c] = "out"]
    <3>1. H' = H \ {c} /\ slot' \in [Callers -> Bh!SlotPhase]
      BY <1>0, <2>2 DEF Bh!Holders
    <3> QED
      BY <1>0, <2>1, <2>2, <3>1 DEF SlotsCounted
  <2>3. ASSUME NEW w \in Bh!Waiting, slot' = [slot EXCEPT ![c] = "out", ![w] = "in"], sem' = sem
        PROVE  SlotsCounted'
    <3>1. w \in Callers /\ w # c /\ slot[w] = "waiting"
      BY <1>3, <2>3 DEF Bh!Waiting
    <3>2. /\ slot'[c] = "out" /\ slot'[w] = "in"
          /\ \A d \in Callers : d # c /\ d # w => slot'[d] = slot[d]
          /\ slot' \in [Callers -> Bh!SlotPhase]
      BY <1>0, <2>3, <3>1
    <3>3. H' = (H \ {c}) \union {w} /\ w \notin H \ {c}
      BY <1>0, <3>1, <3>2 DEF Bh!Holders
    <3>4. Cardinality((H \ {c}) \union {w}) = sem - 1 + 1
      BY <2>1, <3>3, FS_AddElement
    <3> QED
      BY <1>0, <2>1, <2>3, <3>2, <3>3, <3>4 DEF SlotsCounted
  <2> QED
    BY <1>3, <2>2, <2>3 DEF Bh!release
<1>4. ASSUME NEW c \in Callers,
             Bh!Refuse(c) \/ Bh!Wait(c) \/ Bh!Cancel(c) \/ Bh!NewContext(c) \/ Bh!ReturnCtxErr(c)
      PROVE  SlotsCounted'
  BY <1>0, <1>1, <1>4
  DEF Bh!Refuse, Bh!Wait, Bh!Cancel, Bh!NewContext, Bh!ReturnCtxErr
<1>5. ASSUME UNCHANGED Bh!vars PROVE SlotsCounted'
  BY <1>0, <1>1, <1>5 DEF Bh!vars
<1> QED
  BY <1>2, <1>3, <1>4, <1>5 DEF Bh!Next, Bh!FnReturns, Bh!FnPanics

(* Nobody loses a slot but the caller that gives it back. *)
LEMMA SlotKept ==
    ASSUME SlotsCounted, NEW c \in Callers, NEW d \in Callers,
           Bh!FnReturns(c) \/ Bh!FnPanics(c), d # c
    PROVE  (slot[d] = "in" => slot'[d] = "in") /\ (slot[d] = "out" <=> slot'[d] = "out")
BY DEF SlotsCounted, Bh!FnReturns, Bh!FnPanics, Bh!release, Bh!Waiting

(* Where a caller's own step leaves it in the bulkhead and in the breaker. *)
LEMMA SlotEffect ==
    ASSUME slot \in [Callers -> Bh!SlotPhase], NEW c \in Callers
    PROVE  /\ Bh!Acquire(c) \/ Bh!Refuse(c) \/ Bh!Wait(c) => slot'[c] # "out"
           /\ Bh!ReturnCtxErr(c) \/ Bh!FnReturns(c) \/ Bh!FnPanics(c) => slot'[c] = "out"
           /\ Bh!Cancel(c) \/ Bh!NewContext(c) =>
                 (slot[c] = "in" => slot'[c] = "in") /\ (slot[c] = "out" <=> slot'[c] = "out")
<1>1. Bh!Acquire(c) \/ Bh!Refuse(c) \/ Bh!Wait(c) => slot'[c] # "out"
  BY DEF Bh!Acquire, Bh!Refuse, Bh!Wait
<1>2. Bh!ReturnCtxErr(c) => slot'[c] = "out"
  BY DEF Bh!ReturnCtxErr
<1>3. Bh!FnReturns(c) \/ Bh!FnPanics(c) => slot'[c] = "out"
  BY DEF Bh!FnReturns, Bh!FnPanics, Bh!release, Bh!Waiting
<1>4. Bh!Cancel(c) \/ Bh!NewContext(c) =>
         (slot[c] = "in" => slot'[c] = "in") /\ (slot[c] = "out" <=> slot'[c] = "out")
  BY DEF Bh!Cancel, Bh!NewContext
<1> QED
  BY <1>1, <1>2, <1>3, <1>4

LEMMA CallEffect ==
    ASSUME call \in [Callers -> Br!CallPhase], NEW c \in Callers
    PROVE  /\ Br!Allow(c) \/ Br!FnReturns(c) => call'[c] # "idle"
           /\ Br!FnReturns(c) => call[c] # "idle"
           /\ Br!ReturnErrOpen(c) \/ Br!RecordFailure(c) \/ Br!RecordSuccess(c) \/ Br!FnPanics(c) =>
                 call[c] # "idle" /\ call'[c] = "idle"
<1>1. Br!Allow(c) \/ Br!FnReturns(c) => call'[c] # "idle"
  BY DEF Br!Allow, Br!FnReturns
<1>2. Br!FnReturns(c) => call[c] # "idle"
  BY DEF Br!FnReturns
<1>3. Br!ReturnErrOpen(c) \/ Br!RecordFailure(c) \/ Br!RecordSuccess(c) \/ Br!FnPanics(c) =>
         call[c] # "idle" /\ call'[c] = "idle"
  BY DEF Br!ReturnErrOpen, Br!RecordFailure, Br!RecordSuccess, Br!FnPanics
<1> QED
  BY <1>1, <1>2, <1>3

-----------------------------------------------------------------------------
(* What the invariant says of one caller. *)
Sound(c) ==
    /\ phase[c] = "sleep" \/ (phase[c] = "enter" /\ attempt[c] > 0) =>
          res[c] \in RetryableErrs /\ attempt[c] < attempts
    /\ phase[c] = "leave" =>
          /\ res[c] \in RetryableErrs => attempt[c] = attempts
          /\ res[c] = "ErrOpen" => "breaker" \in conf
          /\ res[c] = "ctxErr" => c \in done /\ attempt[c] < attempts
Held(c) == Balanced(c) /\ ("bulkhead" \notin conf => slot[c] = "out")
Left(c) ==
    /\ phase[c] = "idle" => attempt[c] = 0
    /\ phase[c] = "enter" => attempt[c] < attempts
CallerInv(c) == Sound(c) /\ Held(c) /\ Left(c)

(* The types of what the Guard reads. *)
Types ==
    /\ TypeOK
    /\ slot \in [Callers -> Bh!SlotPhase]
    /\ call \in [Callers -> Br!CallPhase]

LEMMA InvParts == Inv <=> Types /\ SlotsCounted /\ \A c \in Callers : CallerInv(c)
BY DEF Inv, Types, SlotsCounted, LayersHeld, AttemptsLeft, ResultSound, CallerInv, Sound, Held, Left

LEMMA ErrsApart == "nil" \notin RetryableErrs /\ "ctxErr" \notin RetryableErrs
BY GuardAssumption DEF Errs, FnErrs

(* The configuration is fixed, so the attempts allowed are. *)
LEMMA ConfFixed == [Next]_vars => UNCHANGED <<conf, attempts>>
BY DEF Next, Start, Proceed, Refused, Attempting, Try, Rejected, FnReturns, RecordedFailure,
       RecordedSuccess, FnReturnsUnbroken, Handle, Wake, Interrupted, Leave, Panics, Exit, Cancel,
       NewContext, Clock, Other, vars, attempts

(* Breaker and bulkhead steps of c keep the types of call and slot. *)
LEMMA CallTyped ==
    ASSUME call \in [Callers -> Br!CallPhase], [Br!Next]_(Br!vars)
    PROVE  call' \in [Callers -> Br!CallPhase]
BY DEF Br!CallPhase, Br!Next, Br!Allow, Br!ReturnErrOpen, Br!FnReturns, Br!FnPanics,
       Br!RecordSuccess, Br!RecordFailure, Br!StateMethod, Br!Tick, Br!Heal, Br!vars

(* Handle, for an outcome e of an attempt under way. *)
LEMMA HandleStep ==
    ASSUME Types, NEW c \in Callers, NEW e \in Errs \union {"nil"}, Handle(c, e),
           phase[c] = "trying", CallerInv(c), e = "ErrOpen" => "breaker" \in conf,
           UNCHANGED <<slot[c], done>>
    PROVE  /\ Sound(c)' /\ Left(c)' /\ (Inside(c)' => Inside(c))
           /\ phase'[c] \notin {"idle", "trying"}
           /\ phase' \in [Callers -> Phase] /\ res' \in [Callers -> Errs \union {"nil", "ctxErr"}]
           /\ UNCHANGED <<conf, attempt>>
<1>0. /\ conf' = conf /\ attempt' = attempt /\ attempts' = attempts /\ res'[c] = e
      /\ attempt[c] \in 0 .. attempts /\ attempts \in Nat
  BY Positive DEF Handle, attempts, Types, TypeOK
<1>1. /\ phase'[c] = IF e = "nil" \/ GivesUp(c, e) THEN "leave"
                     ELSE IF "backoff" \in conf THEN "sleep" ELSE "enter"
      /\ phase' \in [Callers -> Phase]
      /\ res' \in [Callers -> Errs \union {"nil", "ctxErr"}]
  BY DEF Handle, Goto, Types, TypeOK, Phase
<1>2. Sound(c)'
  BY <1>0, <1>1, ErrsApart DEF Sound, GivesUp, Errs, FnErrs
<1>3. Left(c)'
  BY <1>0, <1>1 DEF Left, GivesUp
<1> QED
  BY <1>0, <1>1, <1>2, <1>3 DEF Inside

(* A step that leaves a caller alone keeps what is known of it. *)
LEMMA Alone ==
    ASSUME Inv, NEW d \in Callers, UNCHANGED <<conf, phase[d], attempt[d], res[d], call[d]>>,
           slot[d] = "in" => slot'[d] = "in", slot[d] = "out" <=> slot'[d] = "out",
           "bulkhead" \notin conf => slot'[d] = slot[d],
           phase[d] = "leave" /\ d \in done => d \in done'
    PROVE  CallerInv(d)'
BY InvParts DEF CallerInv, Sound, Held, Balanced, Left, Inside, attempts

CallerStep(c) == Start(c) \/ Proceed(c) \/ Panics(c) \/ Cancel(c) \/ NewContext(c)

(* A step of one caller leaves the others alone, but for the slot that a   *)
(* release hands to the first of those who wait.                           *)
LEMMA Others ==
    ASSUME Inv, NEW c \in Callers, CallerStep(c), NEW d \in Callers, d # c
    PROVE  CallerInv(d)'
<1>0. Types /\ SlotsCounted /\ [Next]_vars /\ conf' = conf
  BY InvParts, ConfFixed DEF CallerStep, Next
<1>1. UNCHANGED <<phase[d], attempt[d], res[d]>>
  BY <1>0 DEF Types, TypeOK, CallerStep, Start, Proceed, Refused, Attempting, Try, Rejected, FnReturns,
     RecordedFailure, RecordedSuccess, FnReturnsUnbroken, Handle, Wake, Interrupted, Leave, Panics,
     Exit, Cancel, NewContext, Goto, guardVars
<1>2. call'[d] = call[d]
  BY <1>0 DEF Types, CallerStep, Start, Proceed, Refused, Attempting, Try, Rejected, FnReturns,
     RecordedFailure, RecordedSuccess, FnReturnsUnbroken, Wake, Interrupted, Leave, Panics,
     Cancel, NewContext, breakerVars, Br!Allow, Br!ReturnErrOpen, Br!FnReturns, Br!FnPanics,
     Br!RecordFailure, Br!RecordSuccess
<1>3. /\ slot[d] = "in" => slot'[d] = "in"
      /\ slot[d] = "out" <=> slot'[d] = "out"
      /\ "bulkhead" \notin conf => slot'[d] = slot[d]
      /\ d \in done => d \in done'
  <2>1. CASE UNCHANGED bulkheadVars
    BY <2>1 DEF bulkheadVars
  <2>2. CASE "bulkhead" \in conf /\ (Bh!FnReturns(c) \/ Bh!FnPanics(c))
    BY <1>0, <2>2, SlotKept DEF Bh!FnReturns, Bh!FnPanics
  <2>3. CASE Bh!Acquire(c) \/ Bh!Refuse(c) \/ Bh!Wait(c) \/ Bh!ReturnCtxErr(c) \/ Bh!Cancel(c)
             \/ Bh!NewContext(c)
    BY <1>0, <2>3 DEF Types, Bh!Acquire, Bh!Refuse, Bh!Wait, Bh!ReturnCtxErr, Bh!Cancel, Bh!NewContext
  <2> QED
    BY <2>1, <2>2, <2>3
    DEF CallerStep, Start, Proceed, Refused, Attempting, Try, Rejected, FnReturns,
        RecordedFailure, RecordedSuccess, FnReturnsUnbroken, Wake, Interrupted, Leave, Panics,
        Unwind, Cancel, NewContext
<1> QED
  BY <1>0, <1>1, <1>2, <1>3, Alone

(* The caller's own steps. *)
GuardTypes ==
    /\ phase' \in [Callers -> Phase]
    /\ attempt' \in [Callers -> 0 .. attempts]
    /\ res' \in [Callers -> Errs \union {"nil", "ctxErr"}]

LEMMA Own ==
    ASSUME Inv, NEW c \in Callers, CallerStep(c)
    PROVE  GuardTypes /\ CallerInv(c)'
<1>0. /\ Types /\ SlotsCounted /\ CallerInv(c) /\ conf' = conf /\ attempts' = attempts
      /\ attempts \in Nat \ {0} /\ attempt[c] \in 0 .. attempts
      /\ phase \in [Callers -> Phase] /\ attempt \in [Callers -> 0 .. attempts]
      /\ res \in [Callers -> Errs \union {"nil", "ctxErr"}]
      /\ slot \in [Callers -> Bh!SlotPhase] /\ call \in [Callers -> Br!CallPhase]
  BY InvParts, ConfFixed, Positive DEF CallerStep, Next, Types, TypeOK
<1> USE DEF GuardTypes, Goto, Phase
<1>1. CASE Start(c)
  <2>1. /\ phase'[c] = "enter" /\ attempt' = attempt /\ res' = res /\ call' = call
        /\ attempt[c] = 0 /\ phase' \in [Callers -> Phase] /\ phase[c] = "idle"
        /\ ("bulkhead" \notin conf => slot' = slot)
    BY <1>0, <1>1 DEF Start, CallerInv, Left, breakerVars, bulkheadVars
  <2>2. "bulkhead" \in conf => slot'[c] # "out"
    BY <1>0, <1>1, SlotEffect DEF Start
  <2>3. Held(c)'
    BY <1>0, <2>1, <2>2 DEF CallerInv, Held, Balanced, Inside
  <2> QED
    BY <1>0, <2>1, <2>3 DEF CallerInv, Sound, Left
<1>2. CASE Refused(c)
  <2>1. /\ phase'[c] = "idle" /\ attempt' = attempt /\ res' = res /\ call' = call
        /\ phase' \in [Callers -> Phase] /\ slot[c] = "refused" /\ phase[c] = "enter"
        /\ slot'[c] = "out"
    BY <1>0, <1>2, SlotEffect DEF Refused, breakerVars
  <2>2. "bulkhead" \in conf /\ ~Inside(c)
    BY <1>0, <2>1 DEF CallerInv, Held, Balanced
  <2>3. attempt[c] = 0
    BY <1>0, <2>1, <2>2 DEF Inside
  <2>4. Held(c)'
    BY <1>0, <2>1, <2>2, <2>3 DEF CallerInv, Held, Balanced, Inside
  <2> QED
    BY <1>0, <2>1, <2>3, <2>4 DEF CallerInv, Sound, Left
<1>3. CASE Try(c)
  <2>1. /\ phase'[c] = "trying" /\ res' = res /\ slot' = slot /\ phase' \in [Callers -> Phase]
        /\ phase[c] = "enter" /\ ("bulkhead" \in conf => slot[c] = "in")
        /\ "breaker" \notin conf => call' = call
    BY <1>0, <1>3 DEF Try, Admitted, bulkheadVars, breakerVars
  <2>2. attempt[c] < attempts
    BY <1>0, <2>1 DEF CallerInv, Left
  <2>3. attempt' \in [Callers -> 0 .. attempts]
    BY <1>0, <1>3, <2>2 DEF Try
  <2>4. "breaker" \in conf => call'[c] # "idle"
    BY <1>0, <1>3, CallEffect DEF Try
  <2>5. Held(c)'
    BY <1>0, <2>1, <2>4 DEF CallerInv, Held, Balanced, Inside
  <2> QED
    BY <1>0, <2>1, <2>3, <2>5 DEF CallerInv, Sound, Left
<1>4. CASE FnReturns(c)
  <2>1. UNCHANGED <<slot, done, phase, attempt, res>> /\ call[c] # "idle" /\ call'[c] # "idle"
    BY <1>0, <1>4, CallEffect DEF FnReturns, bulkheadVars, guardVars
  <2>2. Held(c)'
    BY <1>0, <2>1 DEF CallerInv, Held, Balanced, Inside
  <2> QED
    BY <1>0, <2>1, <2>2 DEF CallerInv, Sound, Left
<1>5. CASE Rejected(c)
  <2>0. call[c] # "idle" /\ call'[c] = "idle"
    BY <1>0, <1>5, CallEffect DEF Rejected
  <2>1. "breaker" \in conf
    BY <1>0, <2>0 DEF CallerInv, Held, Balanced
  <2>2. UNCHANGED <<slot, done>> /\ phase[c] = "trying" /\ Handle(c, "ErrOpen")
    BY <1>5 DEF Rejected, bulkheadVars
  <2>3. /\ Sound(c)' /\ Left(c)' /\ (Inside(c)' => Inside(c)) /\ GuardTypes
        /\ phase'[c] \notin {"idle", "trying"}
    BY <1>0, <2>1, <2>2, HandleStep DEF Errs
  <2>4. Held(c)'
    BY <1>0, <2>0, <2>2, <2>3 DEF CallerInv, Held, Balanced
  <2> QED
    BY <2>3, <2>4 DEF CallerInv
<1>6. CASE RecordedFailure(c) \/ RecordedSuccess(c)
  <2>0. call[c] # "idle" /\ call'[c] = "idle"
    BY <1>0, <1>6, CallEffect DEF RecordedFailure, RecordedSuccess
  <2>1. "breaker" \in conf
    BY <1>0, <2>0 DEF CallerInv, Held, Balanced
  <2>2. PICK e \in FnErrs \union {"nil"} : Handle(c, e)
    BY <1>6 DEF RecordedFailure, RecordedSuccess
  <2>3. UNCHANGED <<slot, done>> /\ phase[c] = "trying"
    BY <1>6 DEF RecordedFailure, RecordedSuccess, bulkheadVars
  <2>4. /\ Sound(c)' /\ Left(c)' /\ (Inside(c)' => Inside(c)) /\ GuardTypes
        /\ phase'[c] \notin {"idle", "trying"}
    BY <1>0, <2>1, <2>2, <2>3, HandleStep DEF Errs
  <2>5. Held(c)'
    BY <1>0, <2>0, <2>3, <2>4 DEF CallerInv, Held, Balanced
  <2> QED
    BY <2>4, <2>5 DEF CallerInv
<1>7. CASE FnReturnsUnbroken(c)
  <2>1. "breaker" \notin conf
    BY <1>7 DEF FnReturnsUnbroken
  <2>2. PICK e \in FnErrs \union {"nil"} : Handle(c, e)
    BY <1>7 DEF FnReturnsUnbroken
  <2>3. UNCHANGED <<slot, done, call>> /\ phase[c] = "trying"
    BY <1>7 DEF FnReturnsUnbroken, bulkheadVars, breakerVars
  <2>4. /\ Sound(c)' /\ Left(c)' /\ (Inside(c)' => Inside(c)) /\ GuardTypes
        /\ phase'[c] \notin {"idle", "trying"}
    BY <1>0, <2>2, <2>3, HandleStep DEF Errs, FnErrs
  <2>5. Held(c)'
    BY <1>0, <2>1, <2>3, <2>4 DEF CallerInv, Held, Balanced
  <2> QED
    BY <2>4, <2>5 DEF CallerInv
<1>8. CASE Wake(c) \/ Interrupted(c)
  <2>1. /\ UNCHANGED <<slot, call, done, attempt>> /\ phase' \in [Callers -> Phase]
        /\ phase[c] = "sleep"
        /\ \/ phase'[c] = "enter" /\ res' = res
           \/ phase'[c] = "leave" /\ res' = [res EXCEPT ![c] = "ctxErr"] /\ c \in done
    BY <1>0, <1>8 DEF Wake, Interrupted, bulkheadVars, breakerVars
  <2>2. res' \in [Callers -> Errs \union {"nil", "ctxErr"}]
    BY <1>0, <2>1
  <2>3. attempt[c] < attempts /\ res[c] \in RetryableErrs
    BY <1>0, <2>1 DEF CallerInv, Sound
  <2> QED
    BY <1>0, <2>1, <2>2, <2>3, ErrsApart DEF CallerInv, Sound, Held, Balanced, Left, Inside
<1>9. CASE Leave(c) \/ Panics(c)
  <2>1. /\ phase'[c] = "idle" /\ attempt'[c] = 0 /\ phase' \in [Callers -> Phase]
        /\ attempt' \in [Callers -> 0 .. attempts]
        /\ res' \in [Callers -> Errs \union {"nil", "ctxErr"}]
    BY <1>0, <1>9 DEF Leave, Panics, Exit
  <2>2. /\ "bulkhead" \notin conf => slot' = slot
        /\ "bulkhead" \in conf => slot'[c] = "out"
    BY <1>0, <1>9, SlotEffect DEF Leave, Panics, Unwind, bulkheadVars
  <2>3. call'[c] = "idle"
    <3>1. CASE Leave(c)
      BY <1>0, <3>1 DEF Leave, breakerVars, CallerInv, Held, Balanced
    <3>2. CASE Panics(c) /\ "breaker" \in conf
      BY <1>0, <3>2, CallEffect DEF Panics
    <3>3. CASE Panics(c) /\ "breaker" \notin conf
      BY <1>0, <3>3 DEF Panics, breakerVars, CallerInv, Held, Balanced
    <3> QED
      BY <1>9, <3>1, <3>2, <3>3
  <2>4. Held(c)'
    BY <1>0, <2>1, <2>2, <2>3 DEF CallerInv, Held, Balanced, Inside
  <2> QED
    BY <1>0, <2>1, <2>4 DEF CallerInv, Sound, Left
<1>10. CASE Cancel(c) \/ NewContext(c)
  <2>1. UNCHANGED <<phase, attempt, res, call>>
    BY <1>10 DEF Cancel, NewContext, guardVars, breakerVars
  <2>2. /\ slot[c] = "in" => slot'[c] = "in"
        /\ slot[c] = "out" <=> slot'[c] = "out"
    BY <1>0, <1>10, SlotEffect DEF Cancel, NewContext
  <2>4. /\ "bulkhead" \notin conf => slot'[c] = slot[c]
        /\ phase[c] = "leave" /\ c \in done => c \in done'
    BY <1>0, <1>10 DEF Cancel, NewContext, Bh!Cancel, Bh!NewContext, CallerInv, Held
  <2>3. CallerInv(c)'
    BY <1>0, <2>1, <2>2, <2>4, Alone
  <2> QED
    BY <1>0, <2>1, <2>3
<1> QED
  BY <1>1, <1>2, <1>3, <1>4, <1>5, <1>6, <1>7, <1>8, <1>9, <1>10
  DEF CallerStep, Proceed, Attempting

-----------------------------------------------------------------------------
LEMMA InitInv == Init => Inv
<1> SUFFICES ASSUME Init PROVE Inv
  OBVIOUS
<1>1. /\ slot = [c \in Callers |-> "out"] /\ sem = 0
      /\ call = [c \in Callers |-> "idle"]
      /\ phase = [c \in Callers |-> "idle"] /\ attempt = [c \in Callers |-> 0]
      /\ res = [c \in Callers |-> "nil"]
      /\ conf \subseteq {"bulkhead", "retry", "breaker", "backoff"}
  BY DEF Init, Bh!Init, Br!Init
<1>2. Bh!Holders = {}
  BY <1>1 DEF Bh!Holders
<1>3. SlotsCounted
  BY <1>1, <1>2, FS_EmptySet, Positive DEF SlotsCounted, Bh!SlotPhase
<1>4. Types
  BY <1>1, Positive DEF Types, TypeOK, Phase, Bh!SlotPhase, Br!CallPhase
<1>5. \A c \in Callers : CallerInv(c)
  BY <1>1 DEF CallerInv, Sound, Held, Balanced, Left, Inside
<1> QED
  BY <1>3, <1>4, <1>5, InvParts

LEMMA InvStep == Inv /\ [Next]_vars => Inv'
<1> SUFFICES ASSUME Inv, [Next]_vars PROVE Inv'
  OBVIOUS
<1>0. Types /\ SlotsCounted /\ (\A c \in Callers : CallerInv(c)) /\ conf' = conf
      /\ attempts' = attempts
  BY InvParts, ConfFixed
<1>1. SlotsCounted' /\ call' \in [Callers -> Br!CallPhase]
  BY <1>0, BulkheadStep, BreakerStep, SlotsStep, CallTyped DEF Types
<1>2. ASSUME NEW c \in Callers, CallerStep(c)
      PROVE  Types' /\ \A d \in Callers : CallerInv(d)'
  <2>1. GuardTypes /\ CallerInv(c)'
    BY <1>2, Own
  <2>2. \A d \in Callers : d # c => CallerInv(d)'
    BY <1>2, Others
  <2> QED
    BY <1>0, <1>1, <2>1, <2>2 DEF GuardTypes, Types, TypeOK, SlotsCounted
<1>3. ASSUME Clock \/ Other \/ UNCHANGED vars
      PROVE  Types' /\ \A d \in Callers : CallerInv(d)'
  <2>1. UNCHANGED <<slot, done, phase, attempt, res, call>>
    BY <1>3 DEF Clock, Other, vars, bulkheadVars, breakerVars, guardVars, Br!Tick, Br!Heal,
                Br!StateMethod
  <2>2. \A d \in Callers : CallerInv(d)'
    BY <1>0, <2>1, Alone
  <2> QED
    BY <1>0, <2>1, <2>2 DEF Types, TypeOK
<1>4. Types' /\ (\A d \in Callers : CallerInv(d)')
  BY <1>2, <1>3 DEF Next, CallerStep
<1> QED
  BY <1>1, <1>4 DEF Inv, Types, SlotsCounted, LayersHeld, AttemptsLeft, ResultSound, CallerInv,
                    Sound, Held, Left

LEMMA InvHolds == Spec => []Inv
BY InitInv, InvStep, PTL DEF Spec

(***************************************************************************)
(* RetryPolicy.Do inside Guard.Do makes at most MaxAttempts attempts, for  *)
(* every policy, and one without a policy.                                 *)
(***************************************************************************)
THEOREM TypeCorrect == Spec => []TypeOK
<1>1. Inv => TypeOK
  BY DEF Inv
<1> QED
  BY <1>1, InvHolds, PTL

(***************************************************************************)
(* With a bulkhead, Guard.Do lets at most max callers make attempts: the   *)
(* slot is held over the whole retry loop, its backoff sleeps included.    *)
(***************************************************************************)
THEOREM InsideIsBounded == Spec => []InsideBounded
<1>1. Inv => InsideBounded
  <2> SUFFICES ASSUME Inv, "bulkhead" \in conf
               PROVE  Cardinality({c \in Callers : Inside(c)}) <= Bh!max
    BY DEF InsideBounded
  <2> DEFINE I == {c \in Callers : Inside(c)}
  <2>1. I \subseteq Bh!Holders
    BY DEF Inv, LayersHeld, Balanced, Bh!Holders
  <2>2. Cardinality(I) \in Nat /\ Cardinality(I) <= Cardinality(Bh!Holders)
    BY <2>1, HoldersFinite, FS_Subset, FS_CardinalityType
  <2> HIDE DEF I
  <2>3. Cardinality(I) <= Bh!max
    BY <2>2, HoldersFinite, Positive DEF Inv, SlotsCounted
  <2> QED
    BY <2>3 DEF I
<1> QED
  BY <1>1, InvHolds, PTL

(***************************************************************************)
(* What Guard.Do returns: it goes on only after a retryable error with     *)
(* attempts left, returns a retryable error only when they are used up,    *)
(* ErrOpen only from a breaker, and ctx.Err() only of an ended context.    *)
(***************************************************************************)
THEOREM ResultIsSound == Spec => []ResultSound
<1>1. Inv => ResultSound
  BY DEF Inv
<1> QED
  BY <1>1, InvHolds, PTL

(***************************************************************************)
(* Guard.Do leaves its layers as often as it enters them, for any number   *)
(* of callers that retry, are rejected, panic and hand slots over: nobody  *)
(* is in Breaker.Do between two attempts, nobody keeps a slot after        *)
(* Guard.Do, and all slots are free when no call is under way.             *)
(***************************************************************************)
THEOREM LayersAreBalanced == Spec => []LayersBalanced
<1>1. Inv => LayersBalanced
  <2> SUFFICES ASSUME Inv PROVE LayersBalanced
    OBVIOUS
  <2>1. \A c \in Callers : Balanced(c) /\ ("bulkhead" \notin conf => slot[c] = "out")
    BY DEF Inv, LayersHeld
  <2>2. ASSUME \A c \in Callers : phase[c] = "idle" PROVE sem = 0
    <3>1. \A c \in Callers : slot[c] = "out"
      BY <2>1, <2>2 DEF Balanced
    <3>2. Bh!Holders = {}
      BY <3>1 DEF Bh!Holders
    <3> QED
      BY <3>2, FS_EmptySet DEF Inv, SlotsCounted
  <2> QED
    BY <2>1, <2>2 DEF LayersBalanced
<1> QED
  BY <1>1, InvHolds, PTL
=============================================================================
