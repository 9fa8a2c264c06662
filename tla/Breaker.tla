------------------------------ MODULE Breaker ------------------------------
(***************************************************************************)
(* The circuit breaker of resilience/resilience.go, called by concurrent   *)
(* goroutines through Breaker.Do.  Do is three critical sections that      *)
(* other goroutines interleave with: Allow (under mu), the protected fn    *)
(* (no lock held), Record (under mu).  Between Allow and Record the        *)
(* breaker may have tripped, half-opened or closed again, so an outcome    *)
(* may be recorded in a state its call was not admitted in.                *)
(*                                                                         *)
(* Time is relative: openFor is now() - openedAt, saturated at             *)
(* resetTimeout because the code only asks whether it has been reached.    *)
(***************************************************************************)
EXTENDS Integers, FiniteSets

CONSTANTS
    Callers,               \* the goroutines that share the breaker
    FailureThresholdArg,   \* NewBreaker's arguments
    SuccessThresholdArg,
    ResetTimeoutArg

ASSUME CallersAssumption == IsFiniteSet(Callers)
ASSUME ArgsAssumption ==
    /\ FailureThresholdArg \in Int
    /\ SuccessThresholdArg \in Int
    /\ ResetTimeoutArg \in Int

(* NewBreaker's defaults: a non-positive argument is replaced. *)
failureThreshold == IF FailureThresholdArg <= 0 THEN 5 ELSE FailureThresholdArg
successThreshold == IF SuccessThresholdArg <= 0 THEN 1 ELSE SuccessThresholdArg
resetTimeout     == IF ResetTimeoutArg <= 0 THEN 30 ELSE ResetTimeoutArg

Closed   == "closed"
Open     == "open"
HalfOpen == "half-open"
State    == {Closed, Open, HalfOpen}

(***************************************************************************)
(* Where a goroutine is in Breaker.Do: outside it, told no by Allow,       *)
(* inside fn, or back from fn with an outcome that is not yet recorded.    *)
(***************************************************************************)
CallPhase == {"idle", "rejected", "running", "ok", "err"}

VARIABLES
    state, failures, successes,   \* the Breaker's fields
    openFor,                      \* now() - openedAt, saturated
    call,                         \* Callers -> CallPhase
    healthy,                      \* the dependency has stopped failing
    (* History, read by the properties only. *)
    failRun,    \* consecutive failures recorded so far (saturated)
    okRun,      \* consecutive successes recorded in this half-open period
    trials,     \* calls admitted in this half-open period and still in fn
    restarts    \* times the current open window was started over (saturated)

fields == <<state, failures, successes, openFor>>
hist   == <<failRun, okRun, trials, restarts>>
vars   == <<state, failures, successes, openFor, call, healthy,
            failRun, okRun, trials, restarts>>

InFlight == {c \in Callers : call[c] \in {"running", "ok", "err"}}

AtMost(n, bound) == IF n > bound THEN bound ELSE n

Init ==
    /\ state = Closed /\ failures = 0 /\ successes = 0 /\ openFor = 0
    /\ call = [c \in Callers |-> "idle"]
    /\ healthy = FALSE
    /\ failRun = 0 /\ okRun = 0 /\ trials = {} /\ restarts = 0

-----------------------------------------------------------------------------
(* maybeHalfOpenLocked: Open gives way to HalfOpen once the window is over. *)

Elapsed == openFor >= resetTimeout

MutDue == Elapsed
Due == state = Open /\ Elapsed
maybeHalfOpenLocked ==
    \/ Due /\ state' = HalfOpen /\ successes' = 0
    \/ ~Due /\ UNCHANGED <<state, successes>>

(* What a step into half-open does to the history. *)
HalfOpenHistory ==
    IF state = Open /\ state' = HalfOpen
    THEN okRun' = 0 /\ restarts' = 0
    ELSE UNCHANGED <<okRun, restarts>>

(* Allow: the caller goes on to fn unless the breaker is (still) open. *)
MutAllowed == TRUE
Allowed == state' # Open
Allow(c) ==
    /\ call[c] = "idle"
    /\ maybeHalfOpenLocked
    /\ call' = [call EXCEPT ![c] = IF Allowed THEN "running" ELSE "rejected"]
    /\ HalfOpenHistory
    /\ trials' = IF state' = HalfOpen THEN trials \union {c} ELSE trials
    /\ UNCHANGED <<failures, openFor, healthy, failRun>>

(* Do returns ErrOpen without calling fn or Record. *)
ReturnErrOpen(c) ==
    /\ call[c] = "rejected"
    /\ call' = [call EXCEPT ![c] = "idle"]
    /\ UNCHANGED <<fields, healthy, hist>>

(* The State method, which half-opens the breaker as a side effect. *)
StateMethod ==
    /\ Due                         \* otherwise it only reads
    /\ maybeHalfOpenLocked
    /\ HalfOpenHistory
    /\ UNCHANGED <<failures, openFor, call, healthy, failRun, trials>>

(* fn returns; it fails only while the dependency is unhealthy. *)
FnReturns(c) ==
    /\ call[c] = "running"
    /\ \E outcome \in {"ok", "err"} :
          /\ outcome = "err" => ~healthy
          /\ call' = [call EXCEPT ![c] = outcome]
    /\ trials' = trials \ {c}
    /\ UNCHANGED <<fields, healthy, failRun, okRun, restarts>>

(* fn panics: Do has no defer, so the outcome is never recorded. *)
FnPanics(c) ==
    /\ call[c] = "running" /\ ~healthy
    /\ call' = [call EXCEPT ![c] = "idle"]
    /\ trials' = trials \ {c}
    /\ UNCHANGED <<fields, healthy, failRun, okRun, restarts>>

(***************************************************************************)
(* Record(true) on the Breaker's fields: only in half-open does a success  *)
(* count towards closing.                                                  *)
(***************************************************************************)
MutSuccessThresholdLate == successes + 1 > successThreshold
EnoughSuccesses == successes + 1 >= successThreshold

MutForgive == UNCHANGED failures
Forgive == failures' = 0
MutOnTrial == TRUE
OnTrial == state = HalfOpen
recordTrue ==
    /\ Forgive /\ UNCHANGED openFor
    /\ \/ /\ OnTrial /\ EnoughSuccesses
          /\ state' = Closed /\ successes' = 0
       \/ /\ OnTrial /\ ~EnoughSuccesses
          /\ successes' = successes + 1 /\ UNCHANGED state
       \/ /\ ~OnTrial
          /\ UNCHANGED <<state, successes>>

MutTripKeepsFailures == state' = Open /\ openFor' = 0 /\ UNCHANGED failures
trip == state' = Open /\ openFor' = 0 /\ failures' = 0

(***************************************************************************)
(* Record(false) on the Breaker's fields.  The last two disjuncts also     *)
(* apply while the breaker is already open: calls admitted earlier may     *)
(* fail, and trip it again.                                                *)
(***************************************************************************)
MutFailureThresholdLate == failures + 1 > failureThreshold
EnoughFailures == failures + 1 >= failureThreshold

recordFalse ==
    /\ successes' = 0
    /\ \/ state = HalfOpen /\ trip
       \/ state # HalfOpen /\ EnoughFailures /\ trip
       \/ /\ state # HalfOpen /\ ~EnoughFailures
          /\ failures' = failures + 1
          /\ UNCHANGED <<state, openFor>>

(* Do's call of Record after fn, for either outcome. *)
RecordSuccess(c) ==
    /\ call[c] = "ok"
    /\ recordTrue
    /\ call' = [call EXCEPT ![c] = "idle"]
    /\ failRun' = 0
    /\ okRun' = IF state = HalfOpen THEN AtMost(okRun + 1, successThreshold) ELSE okRun
    /\ trials' = IF state' = HalfOpen THEN trials ELSE {}
    /\ UNCHANGED <<healthy, restarts>>

RecordFailure(c) ==
    /\ call[c] = "err"
    /\ recordFalse
    /\ call' = [call EXCEPT ![c] = "idle"]
    /\ failRun' = AtMost(failRun + 1, failureThreshold)
    /\ okRun' = 0
    /\ trials' = IF state' = HalfOpen THEN trials ELSE {}
    /\ restarts' = IF state = Open /\ EnoughFailures
                   THEN AtMost(restarts + 1, Cardinality(Callers)) ELSE restarts
    /\ UNCHANGED healthy

(* The clock, while an open window makes it matter. *)
Tick ==
    /\ state = Open /\ ~Elapsed
    /\ openFor' = openFor + 1
    /\ UNCHANGED <<state, failures, successes, call, healthy, hist>>

(* The dependency recovers for good. *)
Heal ==
    /\ ~healthy /\ healthy' = TRUE
    /\ UNCHANGED <<fields, call, hist>>

Next ==
    \/ \E c \in Callers :
          \/ Allow(c) \/ ReturnErrOpen(c)
          \/ FnReturns(c) \/ FnPanics(c)
          \/ RecordSuccess(c) \/ RecordFailure(c)
    \/ StateMethod \/ Tick \/ Heal

(***************************************************************************)
(* Time passes, and a goroutine inside Do is scheduled until it leaves it  *)
(* (fn is assumed to return).  Nothing obliges anyone to call Do.          *)
(***************************************************************************)
Fairness ==
    /\ WF_vars(Tick)
    /\ \A c \in Callers :
          /\ WF_vars(ReturnErrOpen(c))
          /\ WF_vars(FnReturns(c))
          /\ WF_vars(RecordSuccess(c))
          /\ WF_vars(RecordFailure(c))

Spec == Init /\ [][Next]_vars /\ Fairness
-----------------------------------------------------------------------------
(* Every field stays in its range: a counter never reaches its threshold,  *)
(* because reaching it resets it, whatever outcomes arrive in what state.  *)
TypeOK ==
    /\ state \in State
    /\ failures \in 0 .. failureThreshold - 1
    /\ successes \in 0 .. successThreshold - 1
    /\ openFor \in 0 .. resetTimeout
    /\ call \in [Callers -> CallPhase]
    /\ healthy \in BOOLEAN
    /\ failRun \in 0 .. failureThreshold
    /\ okRun \in 0 .. successThreshold
    /\ trials \subseteq {c \in Callers : call[c] = "running"}
    /\ restarts \in 0 .. Cardinality(Callers)

(* "It opens after failureThreshold consecutive failures": whatever calls  *)
(* overlap, the breaker is never closed when the last failureThreshold     *)
(* outcomes recorded were all failures.                                    *)
ClosedMeansFewFailures == state = Closed => failRun < failureThreshold

(* The breaker opens only for cause: failureThreshold consecutive          *)
(* failures, or one failure in half-open.                                  *)
TripJustified ==
    [][state # Open /\ state' = Open =>
          failRun' = failureThreshold \/ (state = HalfOpen /\ failRun' > 0)]_vars

(* "successThreshold consecutive successes in half-open close it again",   *)
(* and nothing else does: it never closes straight from open.              *)
CloseJustified ==
    [][state # Closed /\ state' = Closed =>
          state = HalfOpen /\ okRun' = successThreshold]_vars

(* Outcomes of calls admitted before the trip may start the open window    *)
(* over, but each restart uses up failureThreshold calls that were in      *)
(* flight, and no call is admitted meanwhile: the window is started over   *)
(* fewer than Cardinality(Callers) / failureThreshold times.               *)
OpenExtensionBounded ==
    state = Open =>
        restarts * failureThreshold + failures + Cardinality(InFlight)
            < Cardinality(Callers)

(* The inductive invariant of the proofs: what ties the Breaker's counters *)
(* to the history of recorded outcomes in each state.                      *)
Inv ==
    /\ TypeOK
    /\ state # HalfOpen => successes = 0
    /\ state = Closed => failures = failRun
    /\ state = HalfOpen => okRun = successes
    /\ state # Open => restarts = 0
    /\ OpenExtensionBounded

(* An open window always ends, with no assumption on the dependency: the   *)
(* stragglers that start it over run out.                                  *)
OpenWindowEnds == state = Open ~> state # Open \/ Elapsed

(* If the dependency recovers and callers keep calling Do, the breaker     *)
(* closes and stays closed.  Recovery is driven by the calls themselves.   *)
Demand == []<><<\E c \in Callers : Allow(c)>>_vars
Recovery == Demand /\ <>healthy => <>[](state = Closed)

(* "a limited number of trial calls allowed" in half-open: some caller has *)
(* to be held back.  Allow admits every one of them.                       *)
TrialCallsLimited == state = HalfOpen => trials # Callers
=============================================================================
