------------------------------ MODULE MCRetry ------------------------------
(***************************************************************************)
(* Policies for TLC: no and one attempt, no backoff, doubling, growth by   *)
(* 1/2, 1, 3/2 and 3, caps below and above Base and none, partial and      *)
(* clamped jitter.  In a 7-bit word some of them overflow within the       *)
(* attempts allowed.                                                       *)
(***************************************************************************)
EXTENDS Retry

MCPolicies ==
    [MaxAttempts : {0, 1, 5}, Base : {0, 3, 8}, Max : {0, 6, 20},
     Multiplier : {0, 1, 2, 3, 6}, Jitter : {0, 2, 5},
     Retryable : {{"transient"}, Errs}]
=============================================================================
