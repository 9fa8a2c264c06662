--------------------------- MODULE BulkheadProofs ---------------------------
(***************************************************************************)
(* Proofs about Bulkhead for every set of callers and every capacity.      *)
(***************************************************************************)
EXTENDS Bulkhead, FiniteSetTheorems, TLAPS

LEMMA MaxPositive == max \in Nat \ {0}
BY MaxAssumption DEF max

LEMMA HoldersFinite == IsFiniteSet(Holders) /\ Cardinality(Holders) \in Nat
<1>1. Holders \in SUBSET Callers
  BY DEF Holders
<1> QED
  BY <1>1, BulkheadCallers, FS_Subset, FS_CardinalityType

(* Changing one goroutine's phase changes the holders by at most it. *)
LEMMA Moves ==
    ASSUME slot \in [Callers -> SlotPhase], NEW c \in Callers, NEW p \in SlotPhase,
           slot' = [slot EXCEPT ![c] = p]
    PROVE  /\ p = "in" => Holders' = Holders \union {c}
           /\ p # "in" => Holders' = Holders \ {c}
           /\ p = "waiting" => Waiting' = Waiting \union {c}
           /\ p # "waiting" => Waiting' = Waiting \ {c}
BY DEF Holders, Waiting

LEMMA InitInv == Init => Inv
<1> SUFFICES ASSUME Init PROVE Inv
  OBVIOUS
<1>1. Holders = {} /\ Waiting = {}
  BY DEF Init, Holders, Waiting
<1>2. Cardinality(Holders) = 0
  BY <1>1, FS_EmptySet
<1> QED
  BY <1>1, <1>2, MaxPositive DEF Init, Inv, TypeOK, SlotPhase, CancelledNeverWaits

(* Giving a slot back: the place is handed on, or the count goes down. *)
LEMMA ReleaseStep ==
    ASSUME Inv, NEW c \in Callers, slot[c] = "in", release(c), done' = done
    PROVE  Inv'
<1> USE DEF SlotPhase
<1>0. /\ slot \in [Callers -> SlotPhase] /\ sem \in Nat /\ sem <= max
      /\ c \in Holders /\ c \notin Waiting /\ sem # 0
      /\ Cardinality(Holders \ {c}) = sem - 1 /\ IsFiniteSet(Holders \ {c})
  <2>1. slot \in [Callers -> SlotPhase] /\ sem \in Nat /\ sem <= max
    BY MaxPositive DEF Inv, TypeOK
  <2>2. c \in Holders /\ c \notin Waiting
    BY DEF Holders, Waiting
  <2>3. sem = Cardinality(Holders)
    BY DEF Inv
  <2>4. Cardinality(Holders) # 0
    BY <2>2, HoldersFinite, FS_EmptySet
  <2>5. Cardinality(Holders \ {c}) = sem - 1 /\ IsFiniteSet(Holders \ {c})
    BY <2>2, <2>3, HoldersFinite, FS_RemoveElement
  <2> QED
    BY <2>1, <2>2, <2>3, <2>4, <2>5
<1>1. CASE Waiting = {} /\ sem' = sem - 1 /\ slot' = [slot EXCEPT ![c] = "out"]
           /\ UNCHANGED ahead
  <2>1. Holders' = Holders \ {c} /\ Waiting' = {}
    BY <1>0, <1>1, Moves
  <2> QED
    BY <1>0, <1>1, <2>1, MaxPositive DEF Inv, TypeOK, CancelledNeverWaits
<1>2. ASSUME NEW w \in Waiting, slot' = [slot EXCEPT ![c] = "out", ![w] = "in"],
             ahead' = Without(w), UNCHANGED sem
      PROVE  Inv'
  <2>1. /\ w \in Callers /\ w # c /\ w \notin Holders
        /\ Holders' = (Holders \ {c}) \union {w}
        /\ Waiting' = Waiting \ {w}
    <3>1. w \in Callers /\ slot[w] = "waiting" /\ w # c
      BY <1>2 DEF Waiting
    <3>2. /\ slot'[c] = "out" /\ slot'[w] = "in"
          /\ \A d \in Callers : d # c /\ d # w => slot'[d] = slot[d]
      BY <1>0, <1>2, <3>1
    <3> QED
      BY <3>1, <3>2 DEF Holders, Waiting
  <2>2. Cardinality(Holders') = sem
    <3> DEFINE H == Holders \ {c}
    <3>1. IsFiniteSet(H) /\ Cardinality(H) = sem - 1 /\ w \notin H
      BY <1>0, <2>1
    <3>2. Cardinality(H \union {w}) = Cardinality(H) + 1
      BY <3>1, FS_AddElement
    <3>3. Holders' = H \union {w}
      BY <2>1
    <3> HIDE DEF H
    <3> QED
      BY <1>0, <3>1, <3>2, <3>3
  <2>3. ahead' \in [Callers -> SUBSET Callers]
    BY <1>2 DEF Inv, TypeOK, Without
  <2>4. /\ slot' \in [Callers -> SlotPhase]
        /\ done' \subseteq Callers /\ sem' \in 0 .. max
    <3>1. slot' \in [Callers -> SlotPhase]
      BY <1>0, <1>2, <2>1
    <3>2. done' \subseteq Callers /\ sem' \in 0 .. max
      BY <1>2 DEF Inv, TypeOK
    <3> QED
      BY <3>1, <3>2
  <2>5. Waiting' # {} => sem' = max
    BY <1>2 DEF Inv
  <2>6. Waiting' \intersect done' = {}
    BY <2>1 DEF Inv, CancelledNeverWaits
  <2> QED
    BY <1>2, <2>2, <2>3, <2>4, <2>5, <2>6 DEF Inv, TypeOK, CancelledNeverWaits
<1> QED
  BY <1>1, <1>2 DEF release

LEMMA InvStep == Inv /\ [Next]_vars => Inv'
<1> SUFFICES ASSUME Inv, [Next]_vars PROVE Inv'
  OBVIOUS
<1> USE DEF SlotPhase
<1>0. /\ slot \in [Callers -> SlotPhase] /\ sem \in Nat /\ sem <= max /\ max \in Nat
      /\ IsFiniteSet(Holders) /\ sem = Cardinality(Holders)
  BY MaxPositive, HoldersFinite DEF Inv, TypeOK
<1>1. ASSUME NEW c \in Callers, Acquire(c) PROVE Inv'
  <2>1. Holders' = Holders \union {c} /\ Waiting' = Waiting /\ c \notin Holders
    BY <1>0, <1>1, Moves DEF Acquire, Holders, Waiting
  <2>2. Cardinality(Holders') = sem + 1
    BY <1>0, <2>1, FS_AddElement
  <2>3. Waiting = {}
    BY <1>0, <1>1 DEF Inv, Acquire
  <2> QED
    BY <1>0, <1>1, <2>1, <2>2, <2>3 DEF Acquire, Inv, TypeOK, CancelledNeverWaits
<1>2. ASSUME NEW c \in Callers, Refuse(c) PROVE Inv'
  <2>1. Holders' = Holders /\ Waiting' = Waiting
    BY <1>0, <1>2, Moves DEF Refuse, Holders, Waiting
  <2> QED
    BY <1>0, <1>2, <2>1 DEF Refuse, Inv, TypeOK, CancelledNeverWaits
<1>3. ASSUME NEW c \in Callers, Wait(c) PROVE Inv'
  <2>1. Holders' = Holders /\ Waiting' = Waiting \union {c}
    BY <1>0, <1>3, Moves DEF Wait, Holders, Waiting
  <2>2. Waiting \in SUBSET Callers
    BY DEF Waiting
  <2> QED
    BY <1>0, <1>3, <2>1, <2>2 DEF Wait, Inv, TypeOK, CancelledNeverWaits
<1>4. ASSUME NEW c \in Callers, Cancel(c) PROVE Inv'
  <2>1. Holders' = Holders /\ Waiting' = Waiting \ {c}
    BY <1>0, <1>4, Moves DEF Cancel, Holders, Waiting
  <2>2. ahead' \in [Callers -> SUBSET Callers]
    BY <1>4 DEF Cancel, Inv, TypeOK, Without
  <2> QED
    BY <1>0, <1>4, <2>1, <2>2 DEF Cancel, Inv, TypeOK, CancelledNeverWaits
<1>5. ASSUME NEW c \in Callers, ReturnCtxErr(c) PROVE Inv'
  <2>1. Holders' = Holders /\ Waiting' = Waiting
    BY <1>0, <1>5, Moves DEF ReturnCtxErr, Holders, Waiting
  <2> QED
    BY <1>0, <1>5, <2>1 DEF ReturnCtxErr, Inv, TypeOK, CancelledNeverWaits
<1>8. ASSUME NEW c \in Callers, NewContext(c) PROVE Inv'
  <2>1. Holders' = Holders /\ Waiting' = Waiting
    BY <1>8 DEF NewContext, Holders, Waiting
  <2> QED
    BY <1>0, <1>8, <2>1 DEF NewContext, Inv, TypeOK, CancelledNeverWaits
<1>6. ASSUME NEW c \in Callers, FnReturns(c) \/ FnPanics(c) PROVE Inv'
  BY <1>6, ReleaseStep DEF FnReturns, FnPanics
<1>7. ASSUME UNCHANGED vars PROVE Inv'
  BY <1>7 DEF vars, Inv, TypeOK, Holders, Waiting, CancelledNeverWaits
<1> QED
  BY <1>1, <1>2, <1>3, <1>4, <1>5, <1>6, <1>7, <1>8 DEF Next

LEMMA InvHolds == Spec => []Inv
BY InitInv, InvStep, PTL DEF Spec

(* fn never runs in more than max goroutines, for any capacity. *)
THEOREM AtMostMaxRun == Spec => []ConcurrencyBounded
<1>1. Inv => ConcurrencyBounded
  BY MaxPositive DEF Inv, TypeOK, ConcurrencyBounded
<1> QED
  BY <1>1, InvHolds, PTL

(* No slot is ever lost: while a caller waits, max calls are running. *)
THEOREM NoSlotIsLost == Spec => []NoIdleSlot
<1>1. Inv => NoIdleSlot
  BY DEF Inv, NoIdleSlot
<1> QED
  BY <1>1, InvHolds, PTL

(* The channel's count stays within its capacity, for any max argument:    *)
(* the deferred receives match the sends.                                  *)
THEOREM TypeCorrect == Spec => []TypeOK
<1>1. Inv => TypeOK
  BY DEF Inv
<1> QED
  BY <1>1, InvHolds, PTL

(* A caller whose context is done is never left blocked in Do's select. *)
THEOREM CancelledCallersLeave == Spec => []CancelledNeverWaits
<1>1. Inv => CancelledNeverWaits
  BY DEF Inv
<1> QED
  BY <1>1, InvHolds, PTL
=============================================================================
