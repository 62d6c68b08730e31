------------------------------ MODULE RateLimiter ------------------------------
(***************************************************************************)
(* The client-side rate limiter every API call of the server goes through: *)
(* class RateLimiter of src/src/utils/rate-limiter.ts, a token bucket with *)
(* retries.                                                                *)
(*                                                                         *)
(* Node runs the code between two awaits without interruption, so an       *)
(* action is one such stretch: the start of execute(), the callback of the *)
(* timer waitForToken() sleeps on, the settling of the wrapped request.    *)
(* Calls of execute() made by different tool invocations interleave.       *)
(*                                                                         *)
(* A token is UnitsPerToken units, so that the fractional refill of the    *)
(* code is exact here: a tick of the clock adds requestsPerMinute units,   *)
(* which for ticks of 1 ms is the code's rate when UnitsPerToken = 60000.  *)
(***************************************************************************)
EXTENDS Integers, Sequences, FiniteSets

CONSTANTS
  Callers,        \* the calls of execute() that can be in progress at once
  Configs,        \* the configurations the limiter may be built with
  UnitsPerToken,  \* units of refill that make one token
  Horizon,        \* bound: execute() is called up to this time only
  MaxLate         \* bound: how late the event loop may run a timer callback

VARIABLES
  now,            \* Date.now()
  config,         \* the readonly configuration of this limiter
  tokens,         \* units in the bucket
  lastRefillTime, \* when they were last topped up
  queuedRequests, \* the counter getState() reports
  call,           \* per caller: where its execute() stands
  admissions,     \* history: times at which a token was granted since reset()
  orphans         \* history: calls that were in progress at the last reset()

vars == <<now, config, tokens, lastRefillTime, queuedRequests, call,
          admissions, orphans>>

Idle == [pc |-> "idle", attempt |-> 0, wake |-> 0, since |-> 0]

InProgress == {c \in Callers : call[c].pc # "idle"}
Waiting    == {c \in Callers : call[c].pc = "waiting"}

Strategies == {"exponential", "linear"}

ConfigType == [requestsPerMinute : Nat \ {0}, burstSize : Nat \ {0},
               retryStrategy : Strategies, maxRetries : Nat,
               initialRetryDelay : Nat \ {0}]

\* (Definitions named Bug... are not part of the model: each is the definition
\* that follows it with a mistake a change to the code could introduce, used to
\* show that a property would notice.)

\* The delay of a retry is computed from the attempt before it.
BugRetryDelay(k, attempt) ==
  IF k.retryStrategy = "exponential"
    THEN k.initialRetryDelay * 2 ^ (IF attempt = 0 THEN 0 ELSE attempt - 1)
    ELSE k.initialRetryDelay * (attempt + 1)

\* calculateRetryDelay(attempt)
RetryDelay(k, attempt) ==
  IF k.retryStrategy = "exponential"
    THEN k.initialRetryDelay * 2 ^ attempt
    ELSE k.initialRetryDelay * (attempt + 1)

ASSUME ConstantsAssumption ==
  /\ IsFiniteSet(Callers)
  /\ UnitsPerToken \in Nat \ {0}
  /\ Horizon \in Nat
  /\ MaxLate \in Nat \ {0}

\* The environment variables are only taken when they parse to a positive
\* number (maxRetries: to a number that is not negative).
ASSUME ConfigsAssumption == Configs \subseteq ConfigType

Capacity == config.burstSize * UnitsPerToken

-----------------------------------------------------------------------------
(* The bucket *)

LesserOf(a, b) == IF a <= b THEN a ELSE b

\* The refill is not capped at the burst size.
BugRefilled == tokens + (now - lastRefillTime) * config.requestsPerMinute

\* refillTokens(): what the bucket holds once the elapsed time is credited.
Refilled ==
  LesserOf(Capacity,
           tokens + (now - lastRefillTime) * config.requestsPerMinute)

\* tryAcquireToken() returning true
Acquire ==
  /\ Refilled >= UnitsPerToken
  /\ tokens' = Refilled - UnitsPerToken
  /\ lastRefillTime' = now

\* A refusal moves lastRefillTime but loses the refill.
BugRefuse ==
  /\ Refilled < UnitsPerToken
  /\ lastRefillTime' = now
  /\ UNCHANGED tokens

\* tryAcquireToken() returning false: the refill is kept all the same.
Refuse ==
  /\ Refilled < UnitsPerToken
  /\ tokens' = Refilled
  /\ lastRefillTime' = now

-----------------------------------------------------------------------------
(* execute() *)

Become(c, r) == call' = [call EXCEPT ![c] = r]

\* The token is there: the wrapped request starts at once.
ExecuteAdmitted(c) ==
  /\ call[c].pc = "idle"
  /\ now <= Horizon
  /\ Acquire
  /\ Become(c, [pc |-> "running", attempt |-> 0, wake |-> 0, since |-> now])
  /\ queuedRequests' = queuedRequests + 1
  /\ admissions' = Append(admissions, now)
  /\ UNCHANGED <<now, config, orphans>>

\* waitForToken(0) sets its timer.
ExecuteWaits(c) ==
  /\ call[c].pc = "idle"
  /\ now <= Horizon
  /\ config.maxRetries > 0
  /\ Refuse
  /\ Become(c, [pc |-> "waiting", attempt |-> 0,
                wake |-> now + RetryDelay(config, 0), since |-> now])
  /\ queuedRequests' = queuedRequests + 1
  /\ UNCHANGED <<now, config, admissions, orphans>>

\* waitForToken(0) throws at once; the finally block undoes the increment.
ExecuteRejected(c) ==
  /\ call[c].pc = "idle"
  /\ now <= Horizon
  /\ config.maxRetries = 0
  /\ Refuse
  /\ UNCHANGED <<now, config, queuedRequests, call, admissions, orphans>>

Due(c) == call[c].pc = "waiting" /\ call[c].wake <= now

WakeAdmitted(c) ==
  /\ Due(c)
  /\ Acquire
  /\ Become(c, [call[c] EXCEPT !.pc = "running"])
  /\ admissions' = Append(admissions, now)
  /\ UNCHANGED <<now, config, queuedRequests, orphans>>

\* The retry forgets to count its attempt.
BugWakeWaitsAgain(c) ==
  /\ Due(c)
  /\ Refuse
  /\ call[c].attempt + 1 < config.maxRetries
  /\ Become(c, [call[c] EXCEPT
                  !.wake = now + RetryDelay(config, call[c].attempt + 1)])
  /\ UNCHANGED <<now, config, queuedRequests, admissions, orphans>>

WakeWaitsAgain(c) ==
  /\ Due(c)
  /\ Refuse
  /\ call[c].attempt + 1 < config.maxRetries
  /\ LET attempt == call[c].attempt + 1 IN
     Become(c, [pc |-> "waiting", attempt |-> attempt,
                wake |-> now + RetryDelay(config, attempt),
                since |-> call[c].since])
  /\ UNCHANGED <<now, config, queuedRequests, admissions, orphans>>

\* The rejection leaves execute() outside the finally block.
BugWakeRejected(c) ==
  /\ Due(c)
  /\ Refuse
  /\ call[c].attempt + 1 >= config.maxRetries
  /\ Become(c, Idle)
  /\ UNCHANGED <<now, config, queuedRequests, admissions, orphans>>

\* "Rate limit exceeded: max retries reached"
WakeRejected(c) ==
  /\ Due(c)
  /\ Refuse
  /\ call[c].attempt + 1 >= config.maxRetries
  /\ Become(c, Idle)
  /\ queuedRequests' = queuedRequests - 1
  /\ UNCHANGED <<now, config, admissions, orphans>>

\* The wrapped request settles, with a result or with an error.
Settle(c) ==
  /\ call[c].pc = "running"
  /\ Become(c, Idle)
  /\ queuedRequests' = queuedRequests - 1
  /\ UNCHANGED <<now, config, tokens, lastRefillTime, admissions, orphans>>

-----------------------------------------------------------------------------
(* The other methods, and time *)

\* getState() and canAccept() refill before they look.
Observe ==
  /\ tokens' = Refilled
  /\ lastRefillTime' = now
  /\ UNCHANGED <<now, config, queuedRequests, call, admissions, orphans>>

Reset ==
  /\ tokens' = Capacity
  /\ lastRefillTime' = now
  /\ queuedRequests' = 0
  /\ admissions' = << >>
  /\ orphans' = InProgress
  /\ UNCHANGED <<now, config, call>>

\* After the horizon time only passes for the calls that still wait.
Tick ==
  /\ now < Horizon \/ Waiting # {}
  /\ \A c \in Waiting : now < call[c].wake + MaxLate
  /\ now' = now + 1
  /\ UNCHANGED <<config, tokens, lastRefillTime, queuedRequests, call,
                 admissions, orphans>>

Init ==
  /\ now = 0
  /\ config \in Configs
  /\ tokens = Capacity
  /\ lastRefillTime = 0
  /\ queuedRequests = 0
  /\ call = [c \in Callers |-> Idle]
  /\ admissions = << >>
  /\ orphans = {}

Next ==
  \/ \E c \in Callers :
       \/ ExecuteAdmitted(c)
       \/ ExecuteWaits(c)
       \/ ExecuteRejected(c)
       \/ WakeAdmitted(c)
       \/ WakeWaitsAgain(c)
       \/ WakeRejected(c)
       \/ Settle(c)
  \/ Observe
  \/ Reset
  \/ Tick

Spec == Init /\ [][Next]_vars

-----------------------------------------------------------------------------
(* Properties *)

CallType == [pc : {"idle", "waiting", "running"}, attempt : Nat, wake : Nat,
             since : Nat]

TypeOK ==
  /\ now \in Nat
  /\ config \in Configs
  /\ tokens \in 0 .. Capacity
  /\ lastRefillTime \in 0 .. now
  /\ queuedRequests \in Int
  /\ call \in [Callers -> CallType]
  /\ \A c \in Waiting : call[c].attempt < config.maxRetries
  /\ admissions \in Seq(Nat)
  /\ orphans \subseteq Callers

\* However calls, retries and refills interleave, the requests let through in
\* any window of time are at most a full bucket and what the window refilled:
\* a refill is never credited twice and a token never spent twice.
AdmissionsBounded ==
  \A i \in 1 .. Len(admissions), j \in 1 .. Len(admissions) :
    i <= j =>
      (j - i + 1) * UnitsPerToken
        <= Capacity
             + (admissions[j] - admissions[i]) * config.requestsPerMinute

\* queuedRequests counts the calls in progress, on every way out of execute().
\* A reset() forgets those in progress, which still decrement it later.
QueueAccounting ==
  queuedRequests = Cardinality(InProgress) - Cardinality(orphans)

\* The sum of the first n delays, in closed form.
TotalBackoff(k, n) ==
  IF k.retryStrategy = "exponential"
    THEN k.initialRetryDelay * (2 ^ n - 1)
    ELSE (k.initialRetryDelay * n * (n + 1)) \div 2

Refused(c) == call[c].pc = "waiting" /\ call'[c].pc # "running"
                                    /\ call'[c] # call[c]

\* A call is given up only after it has slept through every retry of its
\* strategy: never before maxRetries delays have passed since execute().
BackoffServed ==
  [][\A c \in Callers :
       call[c].pc = "waiting" /\ call'[c].pc = "idle"
         => now - call[c].since >= TotalBackoff(config, config.maxRetries)]_vars

\* A retry that waited long enough for one token to be refilled only fails
\* because another call was let through in the meantime: with the default
\* settings (60 a minute, first delay 1000 ms) a lone call is never rejected.
RefusalHasACause ==
  [][\A c \in Callers :
       LET delay == RetryDelay(config, call[c].attempt) IN
       Refused(c) /\ delay * config.requestsPerMinute >= UnitsPerToken
         => \E i \in 1 .. Len(admissions) :
              admissions[i] >= call[c].wake - delay]_vars

\* No call waits longer than the delays its strategy sets and the lateness of
\* the timers: retrying comes to an end whatever the other calls do.
WaitBounded ==
  \A c \in Waiting :
    LET tries == call[c].attempt + 1 IN
    now - call[c].since <= TotalBackoff(config, tries) + tries * MaxLate

=============================================================================
