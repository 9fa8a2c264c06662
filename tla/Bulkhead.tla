------------------------------ MODULE Bulkhead ------------------------------
(***************************************************************************)
(* The bulkhead of resilience/resilience.go: a buffered channel sem of     *)
(* capacity max used as a counting semaphore.  Bulkhead.Do selects between *)
(* sending to sem and the caller's ctx.Done(), runs fn, and receives from  *)
(* sem in a deferred function.                                             *)
(*                                                                         *)
(* The channel is the Go runtime's: a sender that finds the buffer full    *)
(* waits in a first-come-first-served queue, and a receive from a full     *)
(* channel hands the freed place to the first sender waiting.  The queue   *)
(* is kept as a function: ahead[c] is the set of waiters before c.         *)
(***************************************************************************)
EXTENDS Integers, FiniteSets

CONSTANTS
    Callers,    \* the goroutines that share the bulkhead
    MaxArg      \* NewBulkhead's argument

ASSUME BulkheadCallers == IsFiniteSet(Callers)
ASSUME MaxAssumption == MaxArg \in Int

(* NewBulkhead: max <= 0 means 1. *)
max == IF MaxArg <= 0 THEN 1 ELSE MaxArg

(***************************************************************************)
(* Where a goroutine is in Bulkhead.Do: outside it, blocked in the select, *)
(* running fn with a slot, or about to return ctx.Err().                   *)
(***************************************************************************)
SlotPhase == {"out", "waiting", "in", "refused"}

VARIABLES
    sem,      \* values buffered in the channel
    slot,     \* Callers -> SlotPhase
    ahead,    \* Callers -> SUBSET Callers: the channel's queue of senders
    done      \* callers whose context is done

vars == <<sem, slot, ahead, done>>

Holders == {c \in Callers : slot[c] = "in"}
Waiting == {c \in Callers : slot[c] = "waiting"}

Init ==
    /\ sem = 0
    /\ slot = [c \in Callers |-> "out"]
    /\ ahead = [c \in Callers |-> {}]
    /\ done = {}

(* c leaves the queue: nobody waits behind it any more. *)
Without(c) == [d \in Callers |-> IF d = c THEN {} ELSE ahead[d] \ {c}]
-----------------------------------------------------------------------------
(* The send case of the select is ready. *)
MutAcquireReleasesAtOnce(c) ==
    /\ slot[c] = "out" /\ sem < max
    /\ slot' = [slot EXCEPT ![c] = "in"]
    /\ UNCHANGED <<sem, ahead, done>>
Acquire(c) ==
    /\ slot[c] = "out" /\ sem < max
    /\ sem' = sem + 1
    /\ slot' = [slot EXCEPT ![c] = "in"]
    /\ UNCHANGED <<ahead, done>>

(* The ctx.Done() case is ready; with a free slot as well, select may take *)
(* either case.                                                            *)
Refuse(c) ==
    /\ slot[c] = "out" /\ c \in done
    /\ slot' = [slot EXCEPT ![c] = "refused"]
    /\ UNCHANGED <<sem, ahead, done>>

(* Neither case is ready: the goroutine blocks, last in the queue. *)
Wait(c) ==
    /\ slot[c] = "out" /\ sem = max /\ c \notin done
    /\ slot' = [slot EXCEPT ![c] = "waiting"]
    /\ ahead' = [ahead EXCEPT ![c] = Waiting]
    /\ UNCHANGED <<sem, done>>

(* The context ends; closing Done() wakes a goroutine blocked on it, which *)
(* takes it out of the channel's queue.                                    *)
MutCancelKeepsWaiting(c) ==
    /\ c \notin done
    /\ done' = done \union {c}
    /\ UNCHANGED <<sem, slot, ahead>>
Cancel(c) ==
    /\ c \notin done
    /\ done' = done \union {c}
    /\ \/ /\ slot[c] = "waiting"
          /\ slot' = [slot EXCEPT ![c] = "refused"]
          /\ ahead' = Without(c)
       \/ /\ slot[c] # "waiting"
          /\ UNCHANGED <<slot, ahead>>
    /\ UNCHANGED sem

(* Do returns ctx.Err(). *)
ReturnCtxErr(c) ==
    /\ slot[c] = "refused"
    /\ slot' = [slot EXCEPT ![c] = "out"]
    /\ UNCHANGED <<sem, ahead, done>>

(* Between calls a goroutine may turn to a new context. *)
NewContext(c) ==
    /\ slot[c] = "out" /\ c \in done
    /\ done' = done \ {c}
    /\ UNCHANGED <<sem, slot, ahead>>

(* The deferred receive: the freed place goes to the first waiter, if any. *)
release(c) ==
    \/ /\ Waiting = {}
       /\ sem' = sem - 1
       /\ slot' = [slot EXCEPT ![c] = "out"]
       /\ UNCHANGED ahead
    \/ \E w \in Waiting :
       /\ ahead[w] = {}
       /\ slot' = [slot EXCEPT ![c] = "out", ![w] = "in"]
       /\ ahead' = Without(w)
       /\ UNCHANGED sem

MutFnReturnsReceivesTwice(c) ==
    /\ slot[c] = "in"
    /\ sem' = sem - 2
    /\ slot' = [slot EXCEPT ![c] = "out"]
    /\ UNCHANGED <<ahead, done>>
FnReturns(c) ==
    /\ slot[c] = "in"
    /\ release(c)
    /\ UNCHANGED done

(* fn panics: the deferred receive runs all the same. *)
MutPanicLeaksSlot(c) ==
    /\ slot[c] = "in"
    /\ slot' = [slot EXCEPT ![c] = "out"]
    /\ UNCHANGED <<sem, ahead, done>>
FnPanics(c) ==
    /\ slot[c] = "in"
    /\ release(c)
    /\ UNCHANGED done

Next ==
    \E c \in Callers :
        \/ Acquire(c) \/ Refuse(c) \/ Wait(c) \/ Cancel(c) \/ NewContext(c)
        \/ ReturnCtxErr(c) \/ FnReturns(c) \/ FnPanics(c)

(* fn is assumed to end; nobody has to call, and no context has to end. *)
Fairness ==
    \A c \in Callers : WF_vars(FnReturns(c) \/ FnPanics(c)) /\ WF_vars(ReturnCtxErr(c))

Spec == Init /\ [][Next]_vars /\ Fairness
-----------------------------------------------------------------------------
(* The channel never holds more than its capacity nor fewer than nothing: *)
(* every receive in Do's deferred function is matched by one send.        *)
TypeOK ==
    /\ sem \in 0 .. max
    /\ slot \in [Callers -> SlotPhase]
    /\ ahead \in [Callers -> SUBSET Callers]
    /\ done \subseteq Callers

(* "NewBulkhead builds a bulkhead allowing max concurrent calls": fn never *)
(* runs in more than max goroutines.                                       *)
ConcurrencyBounded == Cardinality(Holders) <= max

(* A caller waits only while max calls are really running fn: no slot is   *)
(* lost to a panic in fn, to a caller that gave up while it waited, or to  *)
(* a release that woke nobody.                                             *)
NoIdleSlot == Waiting # {} => Cardinality(Holders) = max

(* "(or returns ctx.Err() if it cannot before cancellation)": a caller     *)
(* whose context is done is never left blocked in the select.              *)
CancelledNeverWaits == Waiting \intersect done = {}

(* A caller blocked in the select gets a slot (or is cancelled) as long as *)
(* the calls that hold slots return or panic.                              *)
NoStarvation == \A c \in Callers : slot[c] = "waiting" ~> slot[c] # "waiting"

(* The inductive invariant of the proofs. *)
Inv ==
    /\ TypeOK
    /\ sem = Cardinality(Holders)
    /\ Waiting # {} => sem = max
    /\ CancelledNeverWaits
=============================================================================
