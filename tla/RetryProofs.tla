---------------------------- MODULE RetryProofs ----------------------------
(***************************************************************************)
(* Proofs about Retry for every set of policies and every word size.       *)
(***************************************************************************)
EXTENDS Retry, WellFoundedInduction, TLAPS

(* What a policy's fields are. *)
LEMMA PolicyFields ==
    ASSUME policy \in Policies
    PROVE  /\ policy.Base \in 0 .. MaxInt /\ policy.Max \in 0 .. MaxInt
           /\ policy.Multiplier \in Nat /\ policy.Jitter \in Nat
           /\ policy.MaxAttempts \in Int /\ attempts \in Nat \ {0}
BY PoliciesAssumption DEF attempts

(* Growing and capping a delay never leaves the word. *)
LEMMA NextDelaysInWord ==
    ASSUME policy \in Policies, delay \in MinInt .. MaxInt, NEW d \in NextDelays
    PROVE  d \in MinInt .. MaxInt
<1> USE MaxIntAssumption, PolicyFields DEF MinInt
<1>1. Doubled(delay) \in MinInt .. MaxInt
  BY DEF Doubled
<1>2. ASSUME NEW t \in Scaled(delay, policy.Multiplier) PROVE t \in MinInt .. MaxInt
  <2> DEFINE m == policy.Multiplier
             u == IF delay >= 0 THEN (delay * m) \div 2 ELSE -((-delay * m) \div 2)
  <2>1. delay * m \in Int /\ -delay * m \in Int
    BY DEF MinInt
  <2>2. u \in Int
    BY <2>1
  <2>3. t \in (IF u > MaxInt THEN {MinInt, MaxInt} ELSE IF u < MinInt THEN {MinInt} ELSE {u})
    BY <1>2 DEF Scaled
  <2> HIDE DEF u
  <2> QED
    BY <2>2, <2>3
<1>3. PICK g \in MinInt .. MaxInt :
         d = IF policy.Max > 0 /\ g > policy.Max THEN policy.Max ELSE g
  BY <1>1, <1>2 DEF NextDelays, Grown, Capped
<1> QED
  BY <1>3

(* A jittered wait is between zero and the delay. *)
LEMMA JitterBand ==
    ASSUME policy \in Policies, NEW d \in 0 .. MaxInt, NEW w \in applyJitter(d)
    PROVE  w \in 0 .. d
<1> DEFINE frac == IF policy.Jitter > 4 THEN 4 ELSE policy.Jitter
<1>1. frac \in 0 .. 4
  BY PolicyFields
<1>2. d * (4 - frac) \in Nat
  BY <1>1, MaxIntAssumption
<1>3. w \in (d * (4 - frac)) \div 4 .. d
  BY DEF applyJitter
<1> QED
  BY <1>2, <1>3

(***************************************************************************)
(* Under the conditions of BackoffHeld a positive delay is followed by one *)
(* between 1 and Max: neither way of growing it can leave the word.        *)
(***************************************************************************)
LEMMA GrowthStaysPositive ==
    ASSUME policy \in Policies, GrowthFits(policy), policy.Multiplier # 1,
           delay \in 1 .. Largest(policy), NEW d \in NextDelays
    PROVE  d \in 1 .. policy.Max
<1> USE MaxIntAssumption, PolicyFields DEF MinInt
<1> DEFINE m == policy.Multiplier
           top == Largest(policy)
<1>0. /\ top \in Nat /\ 2 * top <= MaxInt /\ m * top <= 2 * MaxInt
      /\ m \in Nat /\ delay \in Nat /\ delay <= top /\ policy.Max > 0
  BY DEF GrowthFits, Largest
<1> HIDE DEF top
<1>1. Doubled(delay) >= 1 /\ Doubled(delay) \in Int
  BY <1>0 DEF Doubled
<1>2. ASSUME m > 0, NEW t \in Scaled(delay, m) PROVE t >= 1 /\ t \in Int
  <2>1. delay * m \in Nat /\ delay * m >= 2 * delay
    BY <1>0, <1>2
  <2>2. delay * m <= top * m
    BY <1>0
  <2>3. top * m = m * top
    BY <1>0
  <2>4. t = (delay * m) \div 2
    BY <1>0, <2>1, <2>2, <2>3, <1>2 DEF Scaled
  <2> QED
    BY <1>0, <2>1, <2>4
<1>3. PICK g \in Int : g >= 1 /\ d = IF policy.Max > 0 /\ g > policy.Max THEN policy.Max ELSE g
  BY <1>0, <1>1, <1>2 DEF NextDelays, Grown, Capped
<1> QED
  BY <1>3, <1>0

LEMMA InitInv == Init => Inv
BY MaxIntAssumption, PolicyFields
DEF Init, Inv, TypeOK, MinInt, attempts, ResultSound, BackoffHeld, GrowthFits, Largest

(* The next attempt, reached after a sleep or without one. *)
LEMMA FailStep == ASSUME Inv, NEW e \in Errs, FnFails(e) PROVE Inv'
<1> USE MaxIntAssumption, PolicyFields DEF Errs, Inv
<1>0. /\ policy' = policy /\ attempts' = attempts /\ attempts \in Nat \ {0}
      /\ i \in 0 .. attempts - 1 /\ calls = i /\ pc = "call" /\ calls' = i + 1
      /\ last' = e /\ ctxDone' = ctxDone /\ sleeps' = sleeps
  BY DEF FnFails, TypeOK, attempts, Counted
<1>1. CASE GivesUp(e) /\ Return(e)
  <2>1. TypeOK'
    BY <1>0, <1>1 DEF TypeOK, Return, MinInt
  <2>2. ResultSound'
    BY <1>0, <1>1 DEF ResultSound, Return, GivesUp, LastAttempt
  <2>3. BackoffHeld'
    BY <1>0, <1>1 DEF BackoffHeld, Return, GrowthFits, Largest
  <2> QED
    BY <1>0, <1>1, <2>1, <2>2, <2>3 DEF Return
<1>2. CASE /\ ~GivesUp(e) /\ delay > 0 /\ pc' = "sleep"
           /\ wait' \in IF policy.Jitter > 0 THEN applyJitter(delay) ELSE {delay}
           /\ UNCHANGED <<i, delay, result>>
  <2>0. delay \in 0 .. MaxInt /\ policy \in Policies
    BY <1>2 DEF TypeOK, MinInt
  <2>1. wait' \in 0 .. delay
    BY <2>0, <1>2, JitterBand
  <2>2. TypeOK'
    BY <1>0, <1>2, <2>0, <2>1 DEF TypeOK, MinInt
  <2>3. ResultSound'
    BY <1>2 DEF ResultSound
  <2>4. BackoffHeld'
    BY <1>0, <1>2, <2>0, <2>1 DEF BackoffHeld, GrowthFits, Largest
  <2>5. ~LastAttempt' /\ e \in policy.Retryable
    BY <1>0, <1>2 DEF GivesUp, LastAttempt
  <2> QED
    BY <1>0, <1>2, <2>2, <2>3, <2>4, <2>5
<1>3. CASE /\ ~GivesUp(e) /\ delay <= 0
           /\ NextAttempt /\ UNCHANGED <<pc, wait, result>>
  <2>0. policy \in Policies /\ delay \in MinInt .. MaxInt
    BY DEF TypeOK
  <2>1. delay' \in MinInt .. MaxInt
    BY <1>3, <2>0, NextDelaysInWord DEF NextAttempt
  <2>2. i + 1 <= attempts - 1 /\ i' = i + 1
    BY <1>0, <1>3 DEF GivesUp, LastAttempt, NextAttempt
  <2>3. TypeOK'
    BY <1>0, <1>3, <2>1, <2>2 DEF TypeOK, MinInt
  <2>4. ResultSound'
    BY <1>0, <1>3 DEF ResultSound
  <2>5. BackoffHeld'
    \* A policy that must back off has a positive delay, and this is not it.
    BY <1>0, <1>3, <2>0 DEF BackoffHeld, GrowthFits, Largest
  <2> QED
    BY <1>0, <1>3, <2>2, <2>3, <2>4, <2>5 DEF TypeOK
<1> QED
  BY <1>1, <1>2, <1>3 DEF FnFails

LEMMA TimerStep == ASSUME Inv, TimerFires PROVE Inv'
<1> USE MaxIntAssumption, PolicyFields DEF Inv
<1>0. /\ policy' = policy /\ attempts' = attempts /\ attempts \in Nat \ {0}
      /\ i \in 0 .. attempts - 1 /\ calls = i + 1 /\ ~LastAttempt /\ sleeps \in Nat
      /\ sleeps <= i /\ sleeps' = sleeps + 1 /\ pc = "sleep" /\ pc' = "call" /\ i' = i + 1
      /\ policy \in Policies /\ delay \in MinInt .. MaxInt
  BY DEF TimerFires, NextAttempt, TypeOK, attempts, Counted
<1>1. delay' \in MinInt .. MaxInt
  BY <1>0, NextDelaysInWord DEF TimerFires, NextAttempt
<1>2. i + 1 <= attempts - 1
  BY <1>0 DEF LastAttempt
<1>3. TypeOK'
  BY <1>0, <1>1, <1>2 DEF TypeOK, MinInt, TimerFires
<1>4. ResultSound'
  BY <1>0 DEF ResultSound
<1>5. BackoffHeld'
  <2> SUFFICES ASSUME GrowthFits(policy), policy.Base > 0, policy.Multiplier # 1
               PROVE  delay' \in 1 .. policy.Max /\ sleeps' = calls'
    BY <1>0 DEF BackoffHeld, GrowthFits, Largest
  <2>1. delay \in 1 .. Largest(policy) /\ sleeps = calls - 1
    BY <1>0 DEF BackoffHeld, Largest
  <2>2. delay' \in 1 .. policy.Max
    BY <1>0, <2>1, GrowthStaysPositive DEF TimerFires, NextAttempt
  <2> QED
    BY <1>0, <2>1, <2>2 DEF TimerFires
<1> QED
  BY <1>0, <1>3, <1>4, <1>5 DEF TimerFires

LEMMA InvStep == Inv /\ [Next]_vars => Inv'
<1> SUFFICES ASSUME Inv, [Next]_vars PROVE Inv'
  OBVIOUS
<1>1. CASE FnSucceeds
  BY <1>1, PolicyFields DEF FnSucceeds, Return, Counted, Inv, TypeOK, ResultSound, BackoffHeld,
     attempts, LastAttempt, GrowthFits, Largest, MinInt
<1>2. ASSUME NEW e \in Errs, FnFails(e) PROVE Inv'
  BY <1>2, FailStep
<1>3. CASE TimerFires
  BY <1>3, TimerStep
<1>4. CASE SleepInterrupted
  BY <1>4, PolicyFields DEF SleepInterrupted, Return, Inv, TypeOK, ResultSound, BackoffHeld,
     attempts, LastAttempt, GrowthFits, Largest, MinInt
<1>5. CASE Cancel
  BY <1>5 DEF Cancel, Inv, TypeOK, ResultSound, BackoffHeld, attempts, LastAttempt, GrowthFits, Largest,
     MinInt
<1>6. CASE UNCHANGED vars
  BY <1>6 DEF vars, Inv, TypeOK, ResultSound, BackoffHeld, attempts, LastAttempt, GrowthFits, Largest,
     MinInt
<1> QED
  BY <1>1, <1>2, <1>3, <1>4, <1>5, <1>6 DEF Next, Finished

LEMMA InvHolds == Spec => []Inv
BY InitInv, InvStep, PTL DEF Spec

(***************************************************************************)
(* No delay leaves the machine word and fn is called at most MaxAttempts   *)
(* times (once for MaxAttempts <= 0), whatever the policy.                 *)
(***************************************************************************)
THEOREM TypeCorrect == Spec => []TypeOK
<1>1. Inv => TypeOK
  BY DEF Inv
<1> QED
  BY <1>1, InvHolds, PTL

(* Do returns fn's last outcome, and gives up only when it may. *)
THEOREM ResultIsSound == Spec => []ResultSound
<1>1. Inv => ResultSound
  BY DEF Inv
<1> QED
  BY <1>1, InvHolds, PTL

(***************************************************************************)
(* With a positive Base, growth of at least one and room in the word for   *)
(* one more step, every retry is preceded by a sleep: Base for the first,  *)
(* at most Max for the others.                                             *)
(***************************************************************************)
THEOREM BackoffIsHeld == Spec => []BackoffHeld
<1>1. Inv => BackoffHeld
  BY DEF Inv
<1> QED
  BY <1>1, InvHolds, PTL
-----------------------------------------------------------------------------
(* A set of natural numbers that is not empty has a least one: the         *)
(* induction behind the two lemmas on Power.                               *)
LEMMA Minimal ==
    ASSUME NEW R, NEW S, S \subseteq Nat, S # {}, IsWellFoundedOn(R, Nat)
    PROVE  \E x \in S : \A y \in S : ~(<<y, x>> \in R)
BY WFMin

LEMMA LeastIn ==
    ASSUME NEW R, NEW S, S \subseteq Nat, S # {}, IsWellFoundedOn(R, Nat),
           \A x, y \in Nat : x < y => <<x, y>> \in R
    PROVE  \E x \in S : \A y \in S : x <= y
<1>1. PICK x \in S : \A y \in S : ~(<<y, x>> \in R)
  BY Minimal
<1>2. ASSUME NEW y \in S PROVE x <= y
  <2>1. x \in Nat /\ y \in Nat
    OBVIOUS
  <2>2. ~(y < x)
    BY <1>1, <2>1, Zenon
  <2> QED
    BY <2>1, <2>2
<1> QED
  BY <1>2

LEMMA Least == ASSUME NEW S, S \subseteq Nat, S # {} PROVE \E x \in S : \A y \in S : x <= y
<1>1. \A x, y \in Nat : x < y => <<x, y>> \in OpToRel(<, Nat)
  BY Zenon DEF OpToRel
<1> QED
  BY <1>1, LeastIn, NatLessThanWellFounded, Zenon

(* The function Power is defined with. *)
Steps(g, m, n) == g = [k \in 0 .. n |-> IF k = 0 THEN 1 ELSE m * g[k - 1]]

LEMMA StepsValues ==
    ASSUME NEW m, NEW n \in Nat, NEW g, Steps(g, m, n)
    PROVE  DOMAIN g = 0 .. n /\ g[0] = 1 /\ \A k \in 1 .. n : g[k] = m * g[k - 1]
<1> DEFINE h == [k \in 0 .. n |-> IF k = 0 THEN 1 ELSE m * g[k - 1]]
<1>1. /\ DOMAIN h = 0 .. n /\ h[0] = 1
      /\ \A k \in 1 .. n : h[k] = m * g[k - 1]
  OBVIOUS
<1>2. g = h
  BY Zenon DEF Steps
<1> HIDE DEF h
<1> QED
  BY <1>1, <1>2, Zenon

LEMMA StepsExist == \A m \in Nat, n \in Nat : \E g : Steps(g, m, n)
<1> SUFFICES ASSUME NEW m \in Nat PROVE \A n \in Nat : \E g : Steps(g, m, n)
  OBVIOUS
<1> DEFINE S == {n \in Nat : ~ \E g : Steps(g, m, n)}
<1> SUFFICES ASSUME S # {} PROVE FALSE
  OBVIOUS
<1>1. PICK n \in S : \A y \in S : n <= y
  BY Least
<1>2. n \in Nat /\ ~ \E g : Steps(g, m, n)
  BY <1>1
<1>3. CASE n = 0
  <2> DEFINE g == [k \in 0 .. 0 |-> 1]
  <2>1. g = [k \in 0 .. 0 |-> IF k = 0 THEN 1 ELSE m * g[k - 1]]
    OBVIOUS
  <2> QED
    BY <1>2, <1>3, <2>1, Zenon DEF Steps
<1>4. CASE n # 0
  <2>1. n - 1 \in Nat /\ ~(n <= n - 1)
    BY <1>2, <1>4
  <2>2. PICK g : Steps(g, m, n - 1)
    BY <1>1, <2>1, Zenon
  <2>3. DOMAIN g = 0 .. n - 1 /\ g[0] = 1 /\ \A k \in 1 .. n - 1 : g[k] = m * g[k - 1]
    BY <2>1, <2>2, StepsValues
  <2> DEFINE h == [k \in 0 .. n |-> IF k = n THEN m * g[n - 1] ELSE g[k]]
             f == [k \in 0 .. n |-> IF k = 0 THEN 1 ELSE m * h[k - 1]]
  <2>4. DOMAIN h = 0 .. n /\ h[n] = m * g[n - 1] /\ \A k \in 0 .. n - 1 : h[k] = g[k]
    BY <1>2
  <2>5. ASSUME NEW k \in 0 .. n PROVE h[k] = f[k]
    <3>0. f[k] = IF k = 0 THEN 1 ELSE m * h[k - 1]
      OBVIOUS
    <3> HIDE DEF h, f
    <3>1. CASE k = 0
      BY <1>2, <1>4, <2>3, <2>4, <3>0, <3>1
    <3>2. CASE k \in 1 .. n - 1
      BY <1>2, <2>3, <2>4, <3>0, <3>2
    <3>3. CASE k = n
      BY <1>2, <1>4, <2>4, <3>0, <3>3
    <3> QED
      BY <1>2, <3>1, <3>2, <3>3
  <2>6. h = f
    BY <2>5
  <2> QED
    BY <1>2, <2>6, Zenon DEF Steps
<1> QED
  BY <1>3, <1>4

LEMMA StepsAgree ==
    ASSUME NEW m \in Nat, NEW n \in Nat, NEW g, NEW h, Steps(g, m, n), Steps(h, m, n + 1)
    PROVE  \A k \in 0 .. n : g[k] = h[k] /\ g[k] \in Nat
<1>1. /\ g[0] = 1 /\ \A k \in 1 .. n : g[k] = m * g[k - 1]
      /\ h[0] = 1 /\ \A k \in 1 .. n + 1 : h[k] = m * h[k - 1]
  <2>1. n + 1 \in Nat
    OBVIOUS
  <2> QED
    BY <2>1, StepsValues, Zenon
<1> DEFINE S == {k \in 0 .. n : ~(g[k] = h[k] /\ g[k] \in Nat)}
<1> SUFFICES ASSUME S # {} PROVE FALSE
  OBVIOUS
<1>2. PICK k \in S : \A y \in S : k <= y
  <2>1. S \subseteq Nat
    OBVIOUS
  <2> QED
    BY <2>1, Least
<1>3. k \in 0 .. n /\ ~(g[k] = h[k] /\ g[k] \in Nat)
  BY <1>2
<1>4. k # 0
  BY <1>1, <1>3
<1>5. k - 1 \in 0 .. n /\ ~(k <= k - 1) /\ k \in 1 .. n /\ k \in 1 .. n + 1
  BY <1>3, <1>4
<1>6. g[k - 1] = h[k - 1] /\ g[k - 1] \in Nat
  BY <1>2, <1>5, Zenon
<1>7. g[k] = m * g[k - 1] /\ h[k] = m * h[k - 1]
  BY <1>1, <1>5, Zenon
<1>8. m * g[k - 1] \in Nat
  BY <1>6
<1> QED
  BY <1>3, <1>6, <1>7, <1>8, Zenon

LEMMA PowerIsStep ==
    ASSUME NEW m \in Nat, NEW n \in Nat
    PROVE  \E g : Steps(g, m, n) /\ Power(m, n) = g[n]
<1> DEFINE P == CHOOSE P : P = [k \in 0 .. n |-> IF k = 0 THEN 1 ELSE m * P[k - 1]]
<1>1. P = [k \in 0 .. n |-> IF k = 0 THEN 1 ELSE m * P[k - 1]]
  BY StepsExist, Zenon DEF Steps
<1>2. Power(m, n) = P[n]
  BY Zenon DEF Power
<1> QED
  BY <1>1, <1>2, Zenon DEF Steps

(* What Power computes. *)
LEMMA PowerValues ==
    ASSUME NEW m \in Nat, NEW n \in Nat
    PROVE  Power(m, 0) = 1 /\ Power(m, n) \in Nat /\ Power(m, n + 1) = m * Power(m, n)
<1>1. n + 1 \in Nat /\ 0 \in Nat /\ n + 1 \in 1 .. n + 1 /\ n \in 0 .. n /\ (n + 1) - 1 = n
  OBVIOUS
<1>2. PICK z : Steps(z, m, 0) /\ Power(m, 0) = z[0]
  BY <1>1, PowerIsStep
<1>3. PICK g : Steps(g, m, n) /\ Power(m, n) = g[n]
  BY PowerIsStep
<1>4. PICK h : Steps(h, m, n + 1) /\ Power(m, n + 1) = h[n + 1]
  BY <1>1, PowerIsStep
<1>5. z[0] = 1
  BY <1>1, <1>2, StepsValues
<1>6. h[n + 1] = m * h[n]
  <2>1. Steps(h, m, n + 1) /\ n + 1 \in Nat
    BY <1>1, <1>4
  <2>2. \A k \in 1 .. n + 1 : h[k] = m * h[k - 1]
    BY <2>1, StepsValues
  <2> QED
    BY <1>1, <2>2
<1>7. g[n] = h[n] /\ g[n] \in Nat
  BY <1>1, <1>3, <1>4, StepsAgree
<1> QED
  BY <1>2, <1>3, <1>4, <1>5, <1>6, <1>7, Zenon
-----------------------------------------------------------------------------
(* The loop multiplies the delay by the factor and caps it, and so does    *)
(* the closed form.                                                        *)
LEMMA DelayGrows ==
    ASSUME policy \in Policies, GrowthFits(policy), policy.Multiplier % 2 = 0,
           delay \in 0 .. Largest(policy), NEW d \in NextDelays
    PROVE  d = IF Factor(policy) * delay > policy.Max THEN policy.Max ELSE Factor(policy) * delay
<1> USE MaxIntAssumption, PolicyFields DEF MinInt
<1> DEFINE m == policy.Multiplier
           top == Largest(policy)
           f == Factor(policy)
<1>0. /\ top \in Nat /\ 2 * top <= MaxInt /\ m * top <= 2 * MaxInt
      /\ m \in Nat /\ m % 2 = 0 /\ delay \in Nat /\ delay <= top /\ policy.Max > 0
  BY DEF GrowthFits, Largest
<1>1. f \in Nat /\ (m = 0 => f = 2) /\ (m > 0 => m = 2 * f)
  BY <1>0 DEF Factor
<1> HIDE DEF top, f
<1>2. CASE m = 0
  <2>1. Doubled(delay) = f * delay
    BY <1>0, <1>1, <1>2 DEF Doubled
  <2>2. d = Capped(Doubled(delay))
    BY <1>2 DEF NextDelays, Grown
  <2> QED
    BY <1>0, <2>1, <2>2 DEF Capped, f
<1>3. CASE m > 0
  <2>1. delay * m <= top * m /\ top * m = m * top /\ delay * m = 2 * (f * delay) /\ f * delay \in Nat
    BY <1>0, <1>1, <1>3
  <2>2. (delay * m) \div 2 = f * delay /\ f * delay <= MaxInt
    <3> DEFINE x == f * delay
               y == delay * m
    <3>1. x \in Nat /\ y = 2 * x /\ y <= 2 * MaxInt
      BY <1>0, <2>1
    <3> HIDE DEF x, y
    <3>2. y \div 2 = x /\ x <= MaxInt
      BY <3>1
    <3> QED
      BY <3>2 DEF x, y
  <2>3. Scaled(delay, m) = {f * delay}
    BY <1>0, <2>1, <2>2 DEF Scaled
  <2>4. d = Capped(f * delay)
    BY <1>3, <2>3 DEF NextDelays, Grown
  <2> QED
    BY <1>0, <2>4 DEF Capped, f
<1> QED
  BY <1>0, <1>2, <1>3

LEMMA FormGrows ==
    ASSUME policy \in Policies, GrowthFits(policy), policy.Multiplier % 2 = 0, NEW n \in Nat
    PROVE  /\ ClosedForm(policy, 0) = policy.Base
           /\ ClosedForm(policy, n) \in 0 .. Largest(policy)
           /\ ClosedForm(policy, n + 1) =
                IF Factor(policy) * ClosedForm(policy, n) > policy.Max
                THEN policy.Max ELSE Factor(policy) * ClosedForm(policy, n)
<1> USE PolicyFields
<1> DEFINE f == Factor(policy)
           base == policy.Base
           cap == policy.Max
           r == base * Power(f, n)
           c == ClosedForm(policy, n)
<1>1. base \in Nat /\ cap \in Nat /\ f \in Nat /\ f >= 1
  BY DEF Factor
<1>2. Power(f, 0) = 1 /\ Power(f, n) \in Nat /\ Power(f, n + 1) = f * Power(f, n)
  BY <1>1, PowerValues
<1>3. c = IF n > 0 /\ r > cap THEN cap ELSE r
  BY DEF ClosedForm
<1>4. ClosedForm(policy, n + 1) =
        IF n + 1 > 0 /\ base * Power(f, n + 1) > cap THEN cap ELSE base * Power(f, n + 1)
  BY DEF ClosedForm
<1>5. ClosedForm(policy, 0) = base * Power(f, 0)
  BY DEF ClosedForm
<1>6. Largest(policy) = IF base > cap THEN base ELSE cap
  BY DEF Largest
<1>7. n = 0 => r = base
  BY <1>1, <1>2
<1> HIDE DEF f, base, cap, c
<1>8. r \in Nat /\ base * Power(f, n + 1) = f * r
  BY <1>1, <1>2
<1> HIDE DEF r
<1>9. ClosedForm(policy, n + 1) = IF f * r > cap THEN cap ELSE f * r
  BY <1>4, <1>8
<1>10. c \in 0 .. Largest(policy)
  BY <1>1, <1>3, <1>6, <1>7, <1>8
<1>11. ClosedForm(policy, n + 1) = IF f * c > cap THEN cap ELSE f * c
  <2>1. CASE c = r
    BY <1>9, <2>1
  <2>2. CASE c = cap /\ r > cap
    <3>1. f * r >= r /\ f * cap >= cap /\ f * r \in Nat /\ f * cap \in Nat
      BY <1>1, <1>8
    <3> QED
      BY <1>1, <1>8, <1>9, <2>2, <3>1
  <2> QED
    BY <1>3, <2>1, <2>2
<1>12. ClosedForm(policy, 0) = base
  BY <1>1, <1>2, <1>5
<1> QED
  BY <1>10, <1>11, <1>12 DEF f, base, cap, c

LEMMA ClosedFormStep == Inv /\ DelayClosedForm /\ [Next]_vars => DelayClosedForm'
<1> SUFFICES ASSUME Inv, DelayClosedForm, [Next]_vars,
                    GrowthFits(policy'), policy'.Multiplier % 2 = 0
             PROVE  delay' = ClosedForm(policy', i')
  BY DEF DelayClosedForm, GrowthFits, Largest, ClosedForm, Factor, Power
<1>1. policy' = policy /\ policy \in Policies /\ i \in Nat
  <2>1. policy' = policy
    BY DEF Next, FnSucceeds, FnFails, TimerFires, SleepInterrupted, Cancel, Finished, vars
  <2> QED
    BY <2>1, PolicyFields DEF Inv, TypeOK
<1>2. GrowthFits(policy) /\ policy.Multiplier % 2 = 0 /\ delay = ClosedForm(policy, i)
  BY <1>1 DEF DelayClosedForm
<1>3. UNCHANGED <<delay, i>> \/ NextAttempt
  BY DEF Next, FnSucceeds, FnFails, Return, TimerFires, SleepInterrupted, Cancel, Finished, vars
<1>4. CASE NextAttempt
  <2>1. delay' \in NextDelays /\ i' = i + 1
    BY <1>4 DEF NextAttempt
  <2>2. delay \in 0 .. Largest(policy)
    BY <1>1, <1>2, FormGrows
  <2>3. delay' = IF Factor(policy) * delay > policy.Max THEN policy.Max
                 ELSE Factor(policy) * delay
    BY <1>1, <1>2, <2>1, <2>2, DelayGrows
  <2> QED
    BY <1>1, <1>2, <2>1, <2>3, FormGrows
<1> QED
  BY <1>1, <1>2, <1>3, <1>4, Zenon

(***************************************************************************)
(* "capped exponential backoff": for whole multipliers, and with room in   *)
(* the word, the delay that the loop computes step by step is              *)
(* min(Max, Base * multiplier^i), however many attempts there are.         *)
(***************************************************************************)
THEOREM BackoffIsExponential == Spec => []DelayClosedForm
<1>1. Init => DelayClosedForm
  <2> SUFFICES ASSUME Init, GrowthFits(policy), policy.Multiplier % 2 = 0
               PROVE  delay = ClosedForm(policy, i)
    BY DEF DelayClosedForm
  <2> QED
    BY FormGrows DEF Init
<1> QED
  BY <1>1, ClosedFormStep, InvHolds, PTL DEF Spec
=============================================================================
