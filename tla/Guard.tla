------------------------------- MODULE Guard -------------------------------
(***************************************************************************)
(* Guard.Do of resilience/resilience.go: callers share a Bulkhead and a    *)
(* Breaker, and each runs its own retry loop,                              *)
(*     Bulkhead.Do(ctx, Retry.Do(ctx, Breaker.Do(fn))),                    *)
(* where any of the three may be nil and is then skipped.  Every step of   *)
(* a component is an action of its own module; this module adds the retry  *)
(* loop between them and the order of the layers.  The retry's delays are  *)
(* the subject of Retry; here a policy sleeps after each failed attempt    *)
(* that it retries or after none (a delay that a Multiplier below 1 makes  *)
(* 0 in the middle of a call is left to Retry).                            *)
(***************************************************************************)
EXTENDS Integers, FiniteSets

CONSTANTS
    Callers,
    FailureThresholdArg, SuccessThresholdArg, ResetTimeoutArg,  \* NewBreaker
    MaxArg,                                                     \* NewBulkhead
    MaxAttempts, RetryableErrs                                  \* RetryPolicy

FnErrs == {"transient", "fatal"}
Errs == FnErrs \union {"ErrOpen"}

ASSUME GuardAssumption ==
    /\ IsFiniteSet(Callers)
    /\ MaxArg \in Int /\ MaxAttempts \in Int
    /\ RetryableErrs \subseteq Errs

VARIABLES
    (* The components' variables, declared as their modules do. *)
    state, failures, successes, openFor, call, healthy,
    failRun, okRun, trials, restarts,
    sem, slot, ahead, done,
    (* The Guard and its callers. *)
    conf,      \* the non-nil components, and "backoff" if Base > 0
    phase,     \* Callers -> where the caller is in Guard.Do
    attempt,   \* Callers -> attempts begun by the retry loop (saturated)
    res        \* Callers -> error of the last attempt, then Do's result

Br == INSTANCE Breaker
Bh == INSTANCE Bulkhead

breakerVars == <<state, failures, successes, openFor, call, healthy,
                 failRun, okRun, trials, restarts>>
bulkheadVars == <<sem, slot, ahead, done>>
guardVars == <<phase, attempt, res>>
vars == <<breakerVars, bulkheadVars, conf, guardVars>>

Phase == {"idle", "enter", "trying", "sleep", "leave"}

attempts == IF "retry" \notin conf \/ MaxAttempts <= 0 THEN 1 ELSE MaxAttempts

Init ==
    /\ Br!Init /\ Bh!Init
    /\ conf \in SUBSET {"bulkhead", "retry", "breaker", "backoff"}
    /\ "backoff" \in conf => "retry" \in conf
    /\ phase = [c \in Callers |-> "idle"]
    /\ attempt = [c \in Callers |-> 0]
    /\ res = [c \in Callers |-> "nil"]

Goto(c, p) == phase' = [phase EXCEPT ![c] = p]
-----------------------------------------------------------------------------
(* Guard.Do begins with the bulkhead's select, or goes straight on. *)
Start(c) ==
    /\ phase[c] = "idle"
    /\ Goto(c, "enter")
    /\ IF "bulkhead" \in conf
       THEN Bh!Acquire(c) \/ Bh!Refuse(c) \/ Bh!Wait(c)
       ELSE UNCHANGED bulkheadVars
    /\ UNCHANGED <<breakerVars, conf, attempt, res>>

(* Bulkhead.Do returns ctx.Err(): neither retry nor breaker is reached. *)
Refused(c) ==
    /\ phase[c] = "enter" /\ slot[c] = "refused"
    /\ Bh!ReturnCtxErr(c)
    /\ Goto(c, "idle")
    /\ UNCHANGED <<breakerVars, conf, attempt, res>>

(* The next attempt may begin: the caller is past the bulkhead. *)
MutAdmittedWithoutSlot(c) == phase[c] = "enter" /\ slot[c] # "refused"
Admitted(c) == phase[c] = "enter" /\ ("bulkhead" \in conf => slot[c] = "in")

(* An attempt: Breaker.Do's Allow, or fn itself without a breaker. *)
Try(c) ==
    /\ Admitted(c)
    /\ Goto(c, "trying")
    /\ attempt' = [attempt EXCEPT ![c] = IF @ > attempts THEN @ ELSE @ + 1]
    /\ IF "breaker" \in conf THEN Br!Allow(c) ELSE UNCHANGED breakerVars
    /\ UNCHANGED <<bulkheadVars, conf, res>>

(***************************************************************************)
(* What RetryPolicy.Do does with an attempt's outcome.  Without a retry    *)
(* policy there is one attempt.  ErrOpen is an error like any other: it is *)
(* retried if Retryable says so.                                           *)
(***************************************************************************)
MutGivesUpRetriesAll(c, e) == attempt[c] >= attempts
MutGivesUpOneMore(c, e) == e \notin RetryableErrs \/ attempt[c] > attempts
MutGivesUpNever(c, e) == e \notin RetryableErrs
GivesUp(c, e) == e \notin RetryableErrs \/ attempt[c] >= attempts

Handle(c, e) ==
    /\ res' = [res EXCEPT ![c] = e]
    /\ Goto(c, IF e = "nil" \/ GivesUp(c, e) THEN "leave"
               ELSE IF "backoff" \in conf THEN "sleep" ELSE "enter")
    /\ UNCHANGED <<conf, attempt>>

(* Breaker.Do: rejected, fn returns, outcome recorded. *)
Rejected(c) ==
    /\ phase[c] = "trying"
    /\ Br!ReturnErrOpen(c)
    /\ Handle(c, "ErrOpen")
    /\ UNCHANGED bulkheadVars

FnReturns(c) ==
    /\ phase[c] = "trying"
    /\ Br!FnReturns(c)
    /\ UNCHANGED <<bulkheadVars, conf, guardVars>>

MutRecordedOnlyAtTheEnd(c) ==
    /\ phase[c] = "trying" /\ call[c] = "err"
    /\ \E e \in FnErrs : Handle(c, e)
    /\ \/ phase'[c] = "leave" /\ Br!RecordFailure(c)
       \/ /\ phase'[c] # "leave"
          /\ call' = [call EXCEPT ![c] = "idle"]
          /\ UNCHANGED <<state, failures, successes, openFor, healthy,
                         failRun, okRun, trials, restarts>>
    /\ UNCHANGED bulkheadVars
RecordedFailure(c) ==
    /\ phase[c] = "trying"
    /\ Br!RecordFailure(c)
    /\ \E e \in FnErrs : Handle(c, e)
    /\ UNCHANGED bulkheadVars

RecordedSuccess(c) ==
    /\ phase[c] = "trying"
    /\ Br!RecordSuccess(c)
    /\ Handle(c, "nil")
    /\ UNCHANGED bulkheadVars

(* Without a breaker fn's outcome goes straight to the retry loop. *)
FnReturnsUnbroken(c) ==
    /\ phase[c] = "trying" /\ "breaker" \notin conf
    /\ \E e \in FnErrs \union {"nil"} :
          /\ e # "nil" => ~healthy
          /\ Handle(c, e)
    /\ UNCHANGED <<breakerVars, bulkheadVars>>

(* Do is over for this caller. *)
Exit(c) ==
    /\ Goto(c, "idle")
    /\ attempt' = [attempt EXCEPT ![c] = 0]
    /\ res' = [res EXCEPT ![c] = "nil"]
    /\ UNCHANGED conf

(* fn panics through every layer: the breaker records nothing, the         *)
(* bulkhead's deferred receive gives the slot back.                        *)
MutUnwind(c) == UNCHANGED bulkheadVars
Unwind(c) == IF "bulkhead" \in conf THEN Bh!FnPanics(c) ELSE UNCHANGED bulkheadVars
Panics(c) ==
    /\ phase[c] = "trying"
    /\ IF "breaker" \in conf THEN Br!FnPanics(c) ELSE ~healthy /\ UNCHANGED breakerVars
    /\ Unwind(c)
    /\ Exit(c)

(* The backoff, with the slot still held: the timer fires, or the context  *)
(* ends it.                                                                *)
Wake(c) ==
    /\ phase[c] = "sleep"
    /\ Goto(c, "enter")
    /\ UNCHANGED <<breakerVars, bulkheadVars, conf, attempt, res>>

Interrupted(c) ==
    /\ phase[c] = "sleep" /\ c \in done
    /\ Goto(c, "leave")
    /\ res' = [res EXCEPT ![c] = "ctxErr"]
    /\ UNCHANGED <<breakerVars, bulkheadVars, conf, attempt>>

(* Do returns: the bulkhead's slot is given back. *)
Leave(c) ==
    /\ phase[c] = "leave"
    /\ IF "bulkhead" \in conf THEN Bh!FnReturns(c) ELSE UNCHANGED bulkheadVars
    /\ Exit(c)
    /\ UNCHANGED breakerVars

(* The environment: contexts end, and are replaced between calls; time     *)
(* passes, the dependency recovers, someone asks the breaker's state.      *)
Cancel(c) == Bh!Cancel(c) /\ UNCHANGED <<breakerVars, conf, guardVars>>
NewContext(c) ==
    /\ phase[c] = "idle"
    /\ Bh!NewContext(c)
    /\ UNCHANGED <<breakerVars, conf, guardVars>>
Clock == Br!Tick /\ UNCHANGED <<bulkheadVars, conf, guardVars>>
Other == (Br!Heal \/ Br!StateMethod) /\ UNCHANGED <<bulkheadVars, conf, guardVars>>

(* The steps a caller takes by itself once Do is under way. *)
Attempting(c) ==
    \/ Try(c) \/ Rejected(c) \/ FnReturns(c) \/ RecordedFailure(c) \/ RecordedSuccess(c)
    \/ FnReturnsUnbroken(c)
Proceed(c) ==
    Refused(c) \/ Attempting(c) \/ Wake(c) \/ Interrupted(c) \/ Leave(c)

Next ==
    \/ \E c \in Callers : Start(c) \/ Proceed(c) \/ Panics(c)
                         \/ Cancel(c) \/ NewContext(c)
    \/ Clock \/ Other

(***************************************************************************)
(* A goroutine inside Do is scheduled, its timers fire and fn returns;     *)
(* time passes.  Nobody has to call Do and no context has to end.          *)
(***************************************************************************)
Fairness == WF_vars(Clock) /\ \A c \in Callers : WF_vars(Proceed(c))

Spec == Init /\ [][Next]_vars /\ Fairness
-----------------------------------------------------------------------------
(* The retry loop never makes more attempts than MaxAttempts.              *)
TypeOK ==
    /\ conf \subseteq {"bulkhead", "retry", "breaker", "backoff"}
    /\ phase \in [Callers -> Phase]
    /\ attempt \in [Callers -> 0 .. attempts]
    /\ res \in [Callers -> Errs \union {"nil", "ctxErr"}]

(* The caller has begun an attempt and has not left Do. *)
Inside(c) == phase[c] \in {"trying", "sleep", "leave"} \/ (phase[c] = "enter" /\ attempt[c] > 0)

(* The bulkhead bounds whole Guard calls, not attempts: with it no more    *)
(* than max callers are in fn, in a backoff sleep, between two attempts or *)
(* on their way out.                                                       *)
InsideBounded ==
    "bulkhead" \in conf => Cardinality({c \in Callers : Inside(c)}) <= Bh!max

(* A call goes on only after a retryable error with attempts left, and     *)
(* what it returns is a retryable error only when the attempts are used    *)
(* up, ErrOpen only from a breaker, ctx.Err() only when its context ended. *)
ResultSound ==
    \A c \in Callers :
        /\ phase[c] = "sleep" \/ (phase[c] = "enter" /\ attempt[c] > 0) =>
              res[c] \in RetryableErrs /\ attempt[c] < attempts
        /\ phase[c] = "leave" =>
              /\ res[c] \in RetryableErrs => attempt[c] = attempts
              /\ res[c] = "ErrOpen" => "breaker" \in conf
              /\ res[c] = "ctxErr" => c \in done /\ attempt[c] < attempts

(* Where c is in each layer follows from where it is in Guard.Do. *)
Balanced(c) ==
    /\ call[c] # "idle" <=> "breaker" \in conf /\ phase[c] = "trying"
    /\ "bulkhead" \in conf =>
          /\ slot[c] = "out" <=> phase[c] = "idle"
          /\ Inside(c) => slot[c] = "in"

(* The layers are left as often as they are entered, whatever retries,     *)
(* rejections, panics and hand-overs come in between: a caller is in       *)
(* Breaker.Do exactly while an attempt is under way; with a bulkhead it is *)
(* outside Bulkhead.Do exactly between two calls of Guard.Do and holds a   *)
(* slot from its first attempt to the end; when no call is under way every *)
(* slot is free.                                                           *)
LayersBalanced ==
    /\ \A c \in Callers : Balanced(c)
    /\ (\A c \in Callers : phase[c] = "idle") => sem = 0

(***************************************************************************)
(* The inductive invariant of the proofs.  The channel counts the slots    *)
(* held; a caller is in the layers as its place in Do says, and a layer    *)
(* that is nil is never touched; a caller about to try has an attempt      *)
(* left, and one that is outside has made none.                            *)
(***************************************************************************)
SlotsCounted ==
    /\ slot \in [Callers -> Bh!SlotPhase]
    /\ sem = Cardinality(Bh!Holders) /\ sem <= Bh!max
LayersHeld ==
    /\ call \in [Callers -> Br!CallPhase]
    /\ \A c \in Callers : Balanced(c) /\ ("bulkhead" \notin conf => slot[c] = "out")
AttemptsLeft ==
    \A c \in Callers : /\ phase[c] = "idle" => attempt[c] = 0
                       /\ phase[c] = "enter" => attempt[c] < attempts
Inv == TypeOK /\ ResultSound /\ SlotsCounted /\ LayersHeld /\ AttemptsLeft

(* A call of Guard.Do returns, whatever layers are configured, if fn does: *)
(* no wait for a slot, no rejection and no backoff goes on for ever.       *)
CallReturns == \A c \in Callers : phase[c] # "idle" ~> phase[c] = "idle"

(* The Guard uses the breaker as Breaker.Do is specified: every admitted   *)
(* attempt is recorded, once, and nothing else touches the breaker.        *)
ImplementsBreaker == Br!Spec

(* The Guard uses the bulkhead as specified, and discharges its fairness:  *)
(* the retry loop that runs in a slot always ends and gives it back.       *)
ImplementsBulkhead == Bh!Spec
=============================================================================
