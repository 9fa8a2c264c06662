------------------------------- MODULE Retry -------------------------------
(***************************************************************************)
(* One call of RetryPolicy.Do in resilience/resilience.go: the loop over   *)
(* attempts, the backoff with its growth, cap and jitter in machine        *)
(* integers, and the sleep that the context can interrupt.                 *)
(*                                                                         *)
(* A policy is a record with the fields of RetryPolicy.  The float fields  *)
(* are kept exact as small fractions: Multiplier counts halves (3 is 1.5), *)
(* Jitter counts quarters (4 is 1.0).  Retryable is the set of errors the  *)
(* function accepts; a nil function accepts all.  Durations are integers   *)
(* of a word whose largest value is MaxInt (int64 in the code).            *)
(***************************************************************************)
EXTENDS Integers

CONSTANTS Policies, MaxInt

Errs == {"transient", "fatal"}

ASSUME MaxIntAssumption == MaxInt \in Nat
ASSUME PoliciesAssumption ==
    Policies \subseteq [MaxAttempts : Int, Base : 0 .. MaxInt, Max : 0 .. MaxInt,
                        Multiplier : Nat, Jitter : Nat, Retryable : SUBSET Errs]

MinInt == -MaxInt - 1

VARIABLES
    policy,    \* the receiver p, fixed
    pc,        \* "call" fn, "sleep", or "done"
    i,         \* the loop's index
    delay,     \* the deterministic delay
    wait,      \* the duration passed to the last sleep
    ctxDone,   \* the context has been cancelled
    result,    \* what Do returned, "none" before it does
    (* History, read by the properties only. *)
    last,      \* outcome of the last call of fn
    calls,     \* calls of fn (saturated)
    sleeps     \* completed sleeps (saturated)

vars == <<policy, pc, i, delay, wait, ctxDone, result, last, calls, sleeps>>

(* MaxAttempts <= 0 means one attempt. *)
attempts == IF policy.MaxAttempts <= 0 THEN 1 ELSE policy.MaxAttempts

(* A history counter goes no further than one past the attempts. *)
Counted(n) == IF n <= attempts THEN n + 1 ELSE n

Init ==
    /\ policy \in Policies
    /\ pc = "call" /\ i = 0 /\ delay = policy.Base /\ wait = 0
    /\ ctxDone \in BOOLEAN
    /\ result = "none"
    /\ last = "none" /\ calls = 0 /\ sleeps = 0
-----------------------------------------------------------------------------
(* delay *= 2 in a machine word. *)
Doubled(d) == IF 2 * d > MaxInt THEN 2 * d - 2 * (MaxInt + 1)
              ELSE IF 2 * d < MinInt THEN 2 * d + 2 * (MaxInt + 1)
              ELSE 2 * d

(* Duration(float64(delay) * Multiplier): truncated towards zero; a value  *)
(* that does not fit becomes the smallest word on amd64 and saturates on   *)
(* arm64, so either may come out.                                          *)
Scaled(d, m) ==
    LET t == IF d >= 0 THEN (d * m) \div 2 ELSE -((-d * m) \div 2)
    IN  IF t > MaxInt THEN {MinInt, MaxInt}
        ELSE IF t < MinInt THEN {MinInt}
        ELSE {t}

(* The end of the loop's body: grow the delay, then cap it by Max. *)
MutGrown == Scaled(delay, policy.Multiplier)
Grown == IF policy.Multiplier > 0 THEN Scaled(delay, policy.Multiplier) ELSE {Doubled(delay)}
MutCapped(d) == d
Capped(d) == IF policy.Max > 0 /\ d > policy.Max THEN policy.Max ELSE d
NextDelays == {Capped(d) : d \in Grown}

(* applyJitter: anywhere in [d*(1-frac), d], truncated; Jitter = 0 skips it. *)
applyJitter(d) ==
    LET frac == IF policy.Jitter > 4 THEN 4 ELSE policy.Jitter
    IN  (d * (4 - frac)) \div 4 .. d

Return(r) == pc' = "done" /\ result' = r /\ UNCHANGED <<i, delay, wait>>

(* fn succeeds. *)
FnSucceeds ==
    /\ pc = "call"
    /\ calls' = Counted(calls) /\ last' = "nil"
    /\ Return("nil")
    /\ UNCHANGED <<policy, ctxDone, sleeps>>

(***************************************************************************)
(* fn fails: give up on an error that is not retryable and after the last  *)
(* attempt; otherwise sleep if the delay is positive, or go straight to    *)
(* the next attempt (without looking at the context).                      *)
(***************************************************************************)
MutLastAttempt == i >= attempts
LastAttempt == i >= attempts - 1
MutGivesUp(e) == LastAttempt
GivesUp(e) == e \notin policy.Retryable \/ LastAttempt

MutNextAttempt == delay' \in NextDelays /\ UNCHANGED i
NextAttempt == delay' \in NextDelays /\ i' = i + 1

FnFails(e) ==
    /\ pc = "call"
    /\ calls' = Counted(calls) /\ last' = e
    /\ \/ /\ GivesUp(e)
          /\ Return(e)
       \/ /\ ~GivesUp(e) /\ delay > 0
          /\ pc' = "sleep"
          /\ wait' \in IF policy.Jitter > 0 THEN applyJitter(delay) ELSE {delay}
          /\ UNCHANGED <<i, delay, result>>
       \/ /\ ~GivesUp(e) /\ delay <= 0
          /\ NextAttempt
          /\ UNCHANGED <<pc, wait, result>>
    /\ UNCHANGED <<policy, ctxDone, sleeps>>

(* sleepCtx: the timer fires; a context done by then may lose the select. *)
TimerFires ==
    /\ pc = "sleep"
    /\ sleeps' = Counted(sleeps)
    /\ NextAttempt
    /\ pc' = "call"
    /\ UNCHANGED <<policy, wait, ctxDone, result, last, calls>>

(* sleepCtx: ctx.Done() is ready; Do returns ctx.Err(). *)
SleepInterrupted ==
    /\ pc = "sleep" /\ ctxDone
    /\ Return("ctxErr")
    /\ UNCHANGED <<policy, ctxDone, last, calls, sleeps>>

Cancel ==
    /\ ~ctxDone /\ ctxDone' = TRUE /\ pc # "done"
    /\ UNCHANGED <<policy, pc, i, delay, wait, result, last, calls, sleeps>>

(* Do has returned. *)
Finished == pc = "done" /\ UNCHANGED vars

Next ==
    \/ FnSucceeds \/ (\E e \in Errs : FnFails(e))
    \/ TimerFires \/ SleepInterrupted \/ Cancel \/ Finished

(* fn returns and timers fire. *)
Fairness ==
    /\ WF_vars(FnSucceeds \/ \E e \in Errs : FnFails(e))
    /\ WF_vars(TimerFires \/ SleepInterrupted)

Spec == Init /\ [][Next]_vars /\ Fairness
-----------------------------------------------------------------------------
(* No delay leaves the machine word, and no attempt is made beyond the     *)
(* policy's (the loop index never runs past attempts).                     *)
TypeOK ==
    /\ policy \in Policies
    /\ pc \in {"call", "sleep", "done"}
    /\ i \in 0 .. attempts - 1
    /\ delay \in MinInt .. MaxInt /\ wait \in 0 .. MaxInt
    /\ ctxDone \in BOOLEAN
    /\ result \in {"none", "nil", "ctxErr"} \union Errs
    /\ last \in {"none", "nil"} \union Errs
    /\ calls \in 0 .. attempts /\ sleeps \in 0 .. attempts - 1

(* Do returns what fn last returned, and gives up on a retryable error     *)
(* only after MaxAttempts calls; a context error is returned only for a    *)
(* cancelled context, in place of a retryable error with attempts left.    *)
ResultSound ==
    pc = "done" =>
        \/ result = "nil" /\ last = "nil"
        \/ result \in Errs /\ result = last
           /\ (result \in policy.Retryable => calls = attempts)
        \/ result = "ctxErr" /\ ctxDone /\ last \in policy.Retryable /\ calls < attempts

(* A growth that cannot leave the machine word: there is room for one more *)
(* step from the largest delay.                                            *)
Largest(p) == IF p.Base > p.Max THEN p.Base ELSE p.Max
GrowthFits(p) ==
    /\ p.Max > 0
    /\ 2 * Largest(p) <= MaxInt
    /\ p.Multiplier * Largest(p) <= 2 * MaxInt

(* "executes fn up to MaxAttempts times, backing off between tries": with  *)
(* a positive Base, growth of at least one and room in the word, every     *)
(* retry is preceded by a sleep.  No sleep exceeds Max but the first one,  *)
(* which is Base whether or not Base exceeds Max.                          *)
BackoffHeld ==
    (GrowthFits(policy) /\ policy.Base > 0 /\ policy.Multiplier # 1) =>
        /\ delay \in 1 .. (IF i = 0 THEN policy.Base ELSE policy.Max)
        /\ pc = "call" => sleeps = calls
        /\ pc = "sleep" => sleeps = calls - 1 /\ wait <= delay

(* The inductive invariant of the proofs: where the loop is in each phase. *)
Inv ==
    /\ TypeOK
    /\ sleeps <= i
    /\ pc = "call" => calls = i
    /\ pc = "sleep" => calls = i + 1 /\ ~LastAttempt /\ delay > 0
    /\ pc = "sleep" => last \in policy.Retryable
    /\ ResultSound
    /\ BackoffHeld

(* "capped exponential backoff": from the second delay on the loop's delay *)
(* is the closed form min(Max, Base * multiplier^i), for whole multipliers *)
(* (2 by default).                                                         *)
Factor(p) == IF p.Multiplier = 0 THEN 2 ELSE p.Multiplier \div 2
Power(m, n) == LET P[k \in 0 .. n] == IF k = 0 THEN 1 ELSE m * P[k - 1] IN P[n]
ClosedForm(p, n) ==
    LET raw == p.Base * Power(Factor(p), n)
    IN  IF n > 0 /\ raw > p.Max THEN p.Max ELSE raw
DelayClosedForm ==
    (GrowthFits(policy) /\ policy.Multiplier % 2 = 0) => delay = ClosedForm(policy, i)

(* Do returns, whatever the policy, if fn does. *)
Terminates == <>(pc = "done")
=============================================================================
