---------------------------- MODULE MCRateLimiter ----------------------------
(***************************************************************************)
(* Small instances of RateLimiter for TLC.  One token takes two units.     *)
(* The configurations differ in strategy, burst and number of retries, and *)
(* include the one that never retries; in the second the first delay       *)
(* refills exactly one token, as 1000 ms at 60 a minute does.              *)
(***************************************************************************)
EXTENDS RateLimiter, TLC

MCConfigs ==
  { [requestsPerMinute |-> 1, burstSize |-> 2, retryStrategy |-> "exponential",
     maxRetries |-> 3, initialRetryDelay |-> 1],
    [requestsPerMinute |-> 2, burstSize |-> 1, retryStrategy |-> "linear",
     maxRetries |-> 2, initialRetryDelay |-> 1],
    [requestsPerMinute |-> 3, burstSize |-> 1, retryStrategy |-> "linear",
     maxRetries |-> 0, initialRetryDelay |-> 1] }

MCSymmetry == Permutations(Callers)
=============================================================================
