-------------------------- MODULE RateLimiterProofs --------------------------
(***************************************************************************)
(* What holds of the rate limiter for every configuration, every number of *)
(* callers and every bound on time.                                        *)
(***************************************************************************)
EXTENDS RateLimiter, FiniteSetTheorems, TLAPS

-----------------------------------------------------------------------------
(* Arithmetic of the bucket *)

\* A product of naturals is a natural: the solver is told once.
LEMMA ProductNat == \A a, b \in Nat : a * b \in Nat
  OBVIOUS

\* What a window refills is the sum of what its two parts refill.
LEMMA RefillSplits ==
  ASSUME NEW s \in Int, NEW t \in Int, NEW u \in Int, NEW r \in Int
  PROVE  (u - t) * r + (t - s) * r = (u - s) * r
  OBVIOUS

\* Tokens spent stay covered when the bucket gains no more than was earned.
LEMMA StillCovered ==
  ASSUME NEW spent \in Int, NEW held \in Int, NEW topped \in Int,
         NEW full \in Int, NEW before \in Int, NEW since \in Int,
         spent + held <= full + before, topped <= held + since
  PROVE  spent + topped <= full + (since + before)
  OBVIOUS

\* One more admission costs one more token.
LEMMA OneMoreToken ==
  ASSUME NEW n \in Int, NEW u \in Int
  PROVE  (n + 1) * u = n * u + u
  OBVIOUS

-----------------------------------------------------------------------------
(* Delays *)

\* The powers of two, by counting the subsets of an interval.
LEMMA PowerDoubles ==
  ASSUME NEW n \in Nat
  PROVE  2 ^ n \in Nat \ {0} /\ 2 ^ (n + 1) = 2 ^ n + 2 ^ n
<1> DEFINE low == SUBSET (1 .. n)
           high == {A \cup {n + 1} : A \in low}
           f == [A \in low |-> A \cup {n + 1}]
<1>1. IsFiniteSet(1 .. n) /\ Cardinality(1 .. n) = n
  BY FS_Interval
<1>2. IsFiniteSet(1 .. n + 1) /\ Cardinality(1 .. n + 1) = n + 1
  BY FS_Interval
<1>3. IsFiniteSet(low) /\ Cardinality(low) = 2 ^ n
  BY <1>1, FS_SUBSET
<1>4. IsFiniteSet(SUBSET (1 .. n + 1)) /\ Cardinality(SUBSET (1 .. n + 1)) = 2 ^ (n + 1)
  BY <1>2, FS_SUBSET
<1>5. /\ Cardinality(low) \in Nat \ {0}
  <2>1. low # {}
    OBVIOUS
  <2> HIDE DEF low
  <2> QED BY <1>3, <2>1, FS_CardinalityType, FS_EmptySet
<1>6. IsFiniteSet(high) /\ Cardinality(high) = Cardinality(low)
  <2>1. f \in Bijection(low, high)
    <3>1. \A A \in low : n + 1 \notin A
      OBVIOUS
    <3>2. f \in [low -> high]
      OBVIOUS
    <3>3. ASSUME NEW A \in low, NEW B \in low, f[A] = f[B] PROVE A = B
      BY <3>1, <3>3
    <3>4. \A y \in high : \E A \in low : f[A] = y
      OBVIOUS
    <3> HIDE DEF f, low, high
    <3> QED BY <3>2, <3>3, <3>4 DEF Bijection, Injection, Surjection, IsInjective
  <2> HIDE DEF f, low, high
  <2> QED BY <1>3, <2>1, FS_Bijection DEF ExistsBijection
<1>7. SUBSET (1 .. n + 1) = low \cup high /\ low \cap high = {}
  <2>1. ASSUME NEW A \in SUBSET (1 .. n + 1) PROVE A \in low \cup high
    <3>1. A \ {n + 1} \in low
      OBVIOUS
    <3>2. CASE n + 1 \in A
      <4>1. A = (A \ {n + 1}) \cup {n + 1}
        BY <3>2
      <4> QED BY <3>1, <4>1
    <3>3. CASE n + 1 \notin A
      <4>1. A = A \ {n + 1}
        BY <3>3
      <4> QED BY <3>1, <4>1
    <3> QED BY <3>2, <3>3
  <2>2. \A A \in low : A \in SUBSET (1 .. n + 1) /\ A \cup {n + 1} \in SUBSET (1 .. n + 1)
    OBVIOUS
  <2>3. \A A \in high : A \in SUBSET (1 .. n + 1) /\ n + 1 \in A
    BY <2>2
  <2>4. \A A \in low : n + 1 \notin A
    OBVIOUS
  <2> HIDE DEF low, high
  <2> QED BY <2>1, <2>2, <2>3, <2>4
<1> HIDE DEF low, high
<1>8. Cardinality(low \cup high) = Cardinality(low) + Cardinality(high)
  <2>1. Cardinality(low \cap high) = 0
    BY <1>7, FS_EmptySet
  <2>2. Cardinality(low \cup high) = Cardinality(low) + Cardinality(high) - Cardinality(low \cap high)
    BY <1>3, <1>6, FS_Union
  <2> QED BY <1>5, <1>6, <2>1, <2>2
<1> QED BY <1>3, <1>4, <1>5, <1>6, <1>7, <1>8

\* Half of a number and of another one more than twice as much.
LEMMA HalfSplits ==
  ASSUME NEW a \in Nat, NEW b \in Nat
  PROVE  (a + 2 * b) \div 2 = a \div 2 + b
  OBVIOUS

\* The closed form of TotalBackoff is the sum of the delays.
LEMMA DelayFacts ==
  ASSUME NEW k \in ConfigType, NEW n \in Nat
  PROVE  /\ RetryDelay(k, n) \in Nat \ {0}
         /\ TotalBackoff(k, n) \in Nat
         /\ TotalBackoff(k, n + 1) = TotalBackoff(k, n) + RetryDelay(k, n)
<1> DEFINE d == k.initialRetryDelay
<1>1. d \in Nat \ {0} /\ k.retryStrategy \in Strategies
  BY DEF ConfigType
<1> HIDE DEF d
<1>2. CASE k.retryStrategy = "exponential"
  <2> DEFINE p == 2 ^ n
             q == 2 ^ (n + 1)
  <2>1. p \in Nat \ {0} /\ q = p + p
    BY PowerDoubles
  <2>2. /\ RetryDelay(k, n) = d * p
        /\ TotalBackoff(k, n) = d * (p - 1) /\ TotalBackoff(k, n + 1) = d * (q - 1)
    BY <1>2 DEF RetryDelay, TotalBackoff, d
  <2> HIDE DEF p, q
  <2>3. d * p \in Nat \ {0} /\ d * (p - 1) \in Nat
    BY <1>1, <2>1
  <2>4. d * (q - 1) = d * (p - 1) + d * p
    BY <1>1, <2>1
  <2> QED BY <2>2, <2>3, <2>4
<1>3. CASE k.retryStrategy = "linear"
  <2> DEFINE a == d * n * (n + 1)
             b == d * (n + 1)
  <2>1. /\ RetryDelay(k, n) = b /\ TotalBackoff(k, n) = a \div 2
        /\ TotalBackoff(k, n + 1) = (d * (n + 1) * (n + 1 + 1)) \div 2
    BY <1>3 DEF RetryDelay, TotalBackoff, d
  <2>2. b \in Nat \ {0} /\ a \in Nat
    BY <1>1, ProductNat
  <2>3. d * (n + 1) * (n + 1 + 1) = a + 2 * b
    BY <1>1
  <2> HIDE DEF a, b
  <2>4. (a + 2 * b) \div 2 = a \div 2 + b /\ a \div 2 \in Nat
    BY <2>2, HalfSplits
  <2> QED BY <2>1, <2>2, <2>3, <2>4
<1> QED BY <1>1, <1>2, <1>3 DEF Strategies

LEMMA NoDelays ==
  ASSUME NEW k \in ConfigType
  PROVE  TotalBackoff(k, 0) = 0
<1>1. k.initialRetryDelay \in Nat /\ 2 ^ 0 = 1
  BY DEF ConfigType
<1>2. k.initialRetryDelay * (2 ^ 0 - 1) = 0
  BY <1>1
<1>3. (k.initialRetryDelay * 0 * (0 + 1)) \div 2 = 0
  BY <1>1
<1> QED BY <1>2, <1>3 DEF TotalBackoff

LEMMA ConfigFacts ==
  ASSUME config \in Configs
  PROVE  /\ config \in ConfigType
         /\ config.requestsPerMinute \in Nat
         /\ config.maxRetries \in Nat
         /\ Capacity \in Nat
         /\ \A n \in 0 .. config.maxRetries : RetryDelay(config, n) \in Nat
  <1>1. config \in ConfigType
    BY ConfigsAssumption
  <1>2. /\ config.requestsPerMinute \in Nat
        /\ config.maxRetries \in Nat
        /\ config.burstSize \in Nat
    BY <1>1 DEF ConfigType
  <1>3. Capacity \in Nat
    BY <1>2, ConstantsAssumption, ProductNat DEF Capacity
  <1>4. \A n \in 0 .. config.maxRetries : RetryDelay(config, n) \in Nat
    BY <1>1, <1>2, DelayFacts
  <1> QED BY <1>1, <1>2, <1>3, <1>4

\* A refill keeps the bucket between empty and full, and never credits more
\* than the elapsed time earned.
LEMMA RefilledFacts ==
  ASSUME TypeOK
  PROVE  /\ Refilled \in 0 .. Capacity
         /\ Refilled <= tokens
                        + (now - lastRefillTime) * config.requestsPerMinute
  <1>1. /\ Capacity \in Nat
        /\ config.requestsPerMinute \in Nat
    BY ConfigFacts DEF TypeOK
  <1>2. /\ now - lastRefillTime \in Nat
        /\ tokens \in Nat
    BY DEF TypeOK
  <1>3. (now - lastRefillTime) * config.requestsPerMinute \in Nat
    BY <1>1, <1>2, ProductNat
  <1> QED BY <1>1, <1>2, <1>3 DEF Refilled, LesserOf

-----------------------------------------------------------------------------
(* Types *)

\* What the three ways of touching the bucket leave behind.
LEMMA BucketTyped ==
  ASSUME TypeOK, config' = config, now' = now,
         \/ Acquire
         \/ Refuse
         \/ tokens' = Refilled /\ lastRefillTime' = now
         \/ tokens' = Capacity /\ lastRefillTime' = now
  PROVE  /\ tokens' \in 0 .. Capacity'
         /\ lastRefillTime' \in 0 .. now'
  <1>1. Capacity' = Capacity /\ Capacity \in Nat
    BY ConfigFacts DEF Capacity, TypeOK
  <1>2. Refilled \in 0 .. Capacity
    BY RefilledFacts
  <1>3. UnitsPerToken \in Nat \ {0} /\ now \in Nat
    BY ConstantsAssumption DEF TypeOK
  <1> QED BY <1>1, <1>2, <1>3 DEF Acquire, Refuse

LEMMA AdmissionTyped ==
  ASSUME TypeOK, now' = now,
         \/ admissions' = admissions
         \/ admissions' = Append(admissions, now)
         \/ admissions' = << >>
  PROVE  admissions' \in Seq(Nat)
  <1>1. admissions \in Seq(Nat) /\ now \in Nat
    BY DEF TypeOK
  <1>2. Append(admissions, now) \in Seq(Nat) /\ << >> \in Seq(Nat)
    BY <1>1
  <1> QED BY <1>1, <1>2

LEMMA CallTyped ==
  ASSUME TypeOK, config' = config, NEW c \in Callers, NEW r \in CallType,
         r.pc = "waiting" => r.attempt < config.maxRetries, Become(c, r)
  PROVE  /\ call' \in [Callers -> CallType]
         /\ \A d \in Waiting' : call'[d].attempt < config'.maxRetries
  BY DEF TypeOK, Become, Waiting

LEMMA TypeInit == Init => TypeOK
<1> SUFFICES ASSUME Init PROVE TypeOK
  OBVIOUS
<1>1. Capacity \in Nat
  BY ConfigFacts DEF Init
<1>2. call \in [Callers -> CallType] /\ Waiting = {}
  BY DEF Init, Idle, CallType, Waiting
<1> QED BY <1>1, <1>2 DEF Init, TypeOK

LEMMA TypeStep == TypeOK /\ [Next]_vars => TypeOK'
<1> SUFFICES ASSUME TypeOK, [Next]_vars PROVE TypeOK'
  OBVIOUS
<1>0. /\ config.maxRetries \in Nat
      /\ config.requestsPerMinute \in Nat
      /\ \A n \in 0 .. config.maxRetries : RetryDelay(config, n) \in Nat
  BY ConfigFacts DEF TypeOK
<1>1. ASSUME NEW c \in Callers, ExecuteAdmitted(c) PROVE TypeOK'
  <2> DEFINE r == [pc |-> "running", attempt |-> 0, wake |-> 0, since |-> now]
  <2>1. r \in CallType
    BY DEF TypeOK, CallType
  <2>2. /\ call' \in [Callers -> CallType]
        /\ \A d \in Waiting' : call'[d].attempt < config'.maxRetries
    BY <1>1, <2>1, CallTyped DEF ExecuteAdmitted
  <2> QED BY <1>1, <2>2, BucketTyped, AdmissionTyped
          DEF ExecuteAdmitted, TypeOK
<1>2. ASSUME NEW c \in Callers, ExecuteWaits(c) PROVE TypeOK'
  <2> DEFINE r == [pc |-> "waiting", attempt |-> 0,
                   wake |-> now + RetryDelay(config, 0), since |-> now]
  <2>1. r \in CallType /\ r.attempt < config.maxRetries
    BY <1>0, <1>2 DEF TypeOK, CallType, ExecuteWaits
  <2>2. /\ call' \in [Callers -> CallType]
        /\ \A d \in Waiting' : call'[d].attempt < config'.maxRetries
    BY <1>2, <2>1, CallTyped DEF ExecuteWaits
  <2> QED BY <1>2, <2>2, BucketTyped, AdmissionTyped DEF ExecuteWaits, TypeOK
<1>3. ASSUME NEW c \in Callers, ExecuteRejected(c) PROVE TypeOK'
  BY <1>3, BucketTyped DEF ExecuteRejected, TypeOK, Waiting
<1>4. ASSUME NEW c \in Callers, WakeAdmitted(c) PROVE TypeOK'
  <2> DEFINE r == [call[c] EXCEPT !.pc = "running"]
  <2>1. r \in CallType /\ r.pc = "running"
    BY DEF TypeOK, CallType
  <2>2. /\ call' \in [Callers -> CallType]
        /\ \A d \in Waiting' : call'[d].attempt < config'.maxRetries
    BY <1>4, <2>1, CallTyped DEF WakeAdmitted
  <2> QED BY <1>4, <2>2, BucketTyped, AdmissionTyped DEF WakeAdmitted, TypeOK
<1>5. ASSUME NEW c \in Callers, WakeWaitsAgain(c) PROVE TypeOK'
  <2> DEFINE a == call[c].attempt + 1
             r == [pc |-> "waiting", attempt |-> a,
                   wake |-> now + RetryDelay(config, a),
                   since |-> call[c].since]
  <2>1. call[c] \in CallType /\ call[c].attempt + 1 < config.maxRetries
    BY <1>5 DEF TypeOK, WakeWaitsAgain
  <2>2. now + RetryDelay(config, call[c].attempt + 1) \in Nat
    <3>1. call[c].attempt + 1 \in 0 .. config.maxRetries
      BY <1>0, <2>1 DEF CallType
    <3>2. RetryDelay(config, call[c].attempt + 1) \in Nat
      BY <1>0, <3>1
    <3> QED BY <3>2 DEF TypeOK
  <2>3. r \in CallType /\ r.attempt < config.maxRetries
    BY <2>1, <2>2 DEF CallType
  <2>4. /\ call' \in [Callers -> CallType]
        /\ \A d \in Waiting' : call'[d].attempt < config'.maxRetries
    BY <1>5, <2>3, CallTyped DEF WakeWaitsAgain
  <2> QED BY <1>5, <2>4, BucketTyped, AdmissionTyped
          DEF WakeWaitsAgain, TypeOK
<1>6. ASSUME NEW c \in Callers, WakeRejected(c) PROVE TypeOK'
  <2>1. Idle \in CallType /\ Idle.pc = "idle"
    BY DEF Idle, CallType
  <2>2. /\ call' \in [Callers -> CallType]
        /\ \A d \in Waiting' : call'[d].attempt < config'.maxRetries
    BY <1>6, <2>1, CallTyped DEF WakeRejected
  <2> QED BY <1>6, <2>2, BucketTyped DEF WakeRejected, TypeOK
<1>7. ASSUME NEW c \in Callers, Settle(c) PROVE TypeOK'
  <2>1. Idle \in CallType /\ Idle.pc = "idle"
    BY DEF Idle, CallType
  <2>2. /\ call' \in [Callers -> CallType]
        /\ \A d \in Waiting' : call'[d].attempt < config'.maxRetries
    BY <1>7, <2>1, CallTyped DEF Settle
  <2> QED BY <1>7, <2>2 DEF Settle, TypeOK, Capacity
<1>8. ASSUME Observe PROVE TypeOK'
  BY <1>8, BucketTyped DEF Observe, TypeOK, Waiting
<1>9. ASSUME Reset PROVE TypeOK'
  BY <1>9, BucketTyped, AdmissionTyped DEF Reset, TypeOK, Waiting, InProgress
<1>10. ASSUME Tick PROVE TypeOK'
  <2>1. now' = now + 1 /\ now \in Nat
    BY <1>10 DEF Tick, TypeOK
  <2> QED BY <1>10, <2>1 DEF Tick, TypeOK, Waiting, Capacity
<1>11. CASE UNCHANGED vars
  BY <1>11 DEF vars, TypeOK, Waiting, Capacity
<1> QED BY <1>1, <1>2, <1>3, <1>4, <1>5, <1>6, <1>7, <1>8, <1>9, <1>10, <1>11
        DEF Next

\* Every state is well typed; in particular the bucket is never negative and
\* never above its burst size, and no waiting call is past its last retry.
THEOREM TypeCorrect == Spec => []TypeOK
BY TypeInit, TypeStep, PTL DEF Spec

-----------------------------------------------------------------------------
(* The number of admissions in a window *)

\* The strengthening that makes AdmissionsBounded inductive.  It relates the
\* bucket to the log: from the i-th admission on, the tokens spent and those
\* still in the bucket together are covered by one full bucket and the refill
\* credited since.  AdmissionsBounded alone says nothing of the bucket, so it
\* could not rule out a bucket with too much in it.
Budget ==
  \A i \in 1 .. Len(admissions) :
    /\ admissions[i] \in 0 .. lastRefillTime
    /\ (Len(admissions) - i + 1) * UnitsPerToken + tokens
         <= Capacity + (lastRefillTime - admissions[i]) * config.requestsPerMinute

WindowInv == TypeOK /\ Budget /\ AdmissionsBounded

\* Topping up the bucket keeps within the budget, at the price of the time
\* that has passed.
LEMMA RefillKeepsBudget ==
  ASSUME TypeOK, Budget, NEW i \in 1 .. Len(admissions)
  PROVE  (Len(admissions) - i + 1) * UnitsPerToken + Refilled
           <= Capacity + (now - admissions[i]) * config.requestsPerMinute
  <1> DEFINE r == config.requestsPerMinute
             spent == (Len(admissions) - i + 1) * UnitsPerToken
  <1>1. r \in Nat /\ Capacity \in Nat /\ UnitsPerToken \in Nat
    BY ConfigFacts, ConstantsAssumption DEF TypeOK
  <1>2. /\ now \in Nat /\ lastRefillTime \in Nat /\ tokens \in Nat
        /\ admissions[i] \in Nat
        /\ Len(admissions) \in Nat
    BY DEF TypeOK, Budget
  <1>3. spent \in Nat
    <2>1. Len(admissions) - i + 1 \in Nat
      BY <1>2
    <2> QED BY <1>1, <2>1, ProductNat
  <1>4. (now - lastRefillTime) * r + (lastRefillTime - admissions[i]) * r
          = (now - admissions[i]) * r
    BY <1>1, <1>2, RefillSplits
  <1>5. spent + tokens <= Capacity + (lastRefillTime - admissions[i]) * r
    BY DEF Budget
  <1>6. Refilled <= tokens + (now - lastRefillTime) * r /\ Refilled \in Int
    BY RefilledFacts
  <1>7. /\ (now - lastRefillTime) * r \in Int
        /\ (lastRefillTime - admissions[i]) * r \in Int
        /\ (now - admissions[i]) * r \in Int
    BY <1>1, <1>2
  <1>8. tokens \in Int /\ spent \in Int /\ Capacity \in Int
    BY <1>1, <1>2, <1>3
  <1> HIDE DEF spent, r
  <1>9. spent + Refilled
          <= Capacity + ((now - lastRefillTime) * r
                           + (lastRefillTime - admissions[i]) * r)
    BY <1>5, <1>6, <1>7, <1>8, StillCovered
  <1>10. spent + Refilled <= Capacity + (now - admissions[i]) * r
    BY <1>4, <1>9
  <1> QED BY <1>10 DEF spent, r

\* A step that admits nobody and leaves in the bucket at most what the refill
\* put there.
LEMMA NoAdmissionKeepsBudget ==
  ASSUME TypeOK, Budget, AdmissionsBounded, config' = config,
         admissions' = admissions,
         \/ tokens' = tokens /\ lastRefillTime' = lastRefillTime
         \/ tokens' = Refilled /\ lastRefillTime' = now
  PROVE  Budget' /\ AdmissionsBounded'
  <1>1. Capacity' = Capacity
    BY DEF Capacity
  <1>2. CASE tokens' = tokens /\ lastRefillTime' = lastRefillTime
    BY <1>1, <1>2 DEF Budget, AdmissionsBounded
  <1>3. CASE tokens' = Refilled /\ lastRefillTime' = now
    <2>1. \A i \in 1 .. Len(admissions) : admissions[i] \in 0 .. now
      BY DEF TypeOK, Budget
    <2> QED BY <1>1, <1>3, <2>1, RefillKeepsBudget DEF Budget, AdmissionsBounded
  <1> QED BY <1>2, <1>3

\* Letting one more request through.
LEMMA AdmissionKeepsBudget ==
  ASSUME TypeOK, Budget, AdmissionsBounded, Acquire, config' = config,
         now' = now, admissions' = Append(admissions, now)
  PROVE  Budget' /\ AdmissionsBounded'
  <1> DEFINE n == Len(admissions)
             r == config.requestsPerMinute
             u == UnitsPerToken
  <1>1. /\ r \in Nat /\ Capacity \in Nat /\ u \in Nat \ {0}
        /\ now \in Nat /\ n \in Nat
    BY ConfigFacts, ConstantsAssumption DEF TypeOK
  <1>2. /\ Capacity' = Capacity
        /\ tokens' = Refilled - u /\ Refilled >= u
        /\ lastRefillTime' = now
        /\ Refilled \in 0 .. Capacity
    BY RefilledFacts DEF Capacity, Acquire
  <1>3. /\ Len(admissions') = n + 1
        /\ \A i \in 1 .. n : admissions'[i] = admissions[i]
        /\ admissions'[n + 1] = now
    BY DEF TypeOK
  <1>4. ASSUME NEW i \in 1 .. n
        PROVE  /\ (n + 1 - i + 1) * u = (n - i + 1) * u + u
               /\ (n - i + 1) * u + Refilled <= Capacity + (now - admissions[i]) * r
               /\ admissions[i] \in 0 .. now
               /\ (n - i + 1) * u \in Int
               /\ (now - admissions[i]) * r \in Int
    <2>1. n - i + 1 \in Int /\ n + 1 - i + 1 = (n - i + 1) + 1
      BY <1>1
    <2>2. (n + 1 - i + 1) * u = (n - i + 1) * u + u
      BY <1>1, <2>1, OneMoreToken
    <2>3. (n - i + 1) * u + Refilled <= Capacity + (now - admissions[i]) * r
      BY RefillKeepsBudget
    <2>4. admissions[i] \in 0 .. now
      BY DEF TypeOK, Budget
    <2> QED BY <1>1, <2>1, <2>2, <2>3, <2>4
  <1>5. ((n + 1) - (n + 1) + 1) * u = u /\ (now - now) * r = 0
    BY <1>1
  <1> HIDE DEF n, r, u
  <1>6. ASSUME NEW i \in 1 .. n + 1
        PROVE  /\ admissions'[i] \in 0 .. now
               /\ (n + 1 - i + 1) * u + (Refilled - u)
                    <= Capacity + (now - admissions'[i]) * r
               /\ (n + 1 - i + 1) * u <= Capacity + (now - admissions'[i]) * r
    <2>1. CASE i \in 1 .. n
      BY <1>1, <1>2, <1>3, <1>4, <2>1
    <2>2. CASE i = n + 1
      BY <1>1, <1>2, <1>3, <1>5, <2>2
    <2>3. i \in 1 .. n \/ i = n + 1
      BY <1>1
    <2> QED BY <2>1, <2>2, <2>3
  <1>7. Budget'
    BY <1>2, <1>3, <1>6 DEF Budget, n, r, u
  <1>8. AdmissionsBounded'
    <2> SUFFICES ASSUME NEW i \in 1 .. n + 1, NEW j \in 1 .. n + 1, i <= j
                 PROVE  (j - i + 1) * u
                          <= Capacity + (admissions'[j] - admissions'[i]) * r
      BY <1>2, <1>3 DEF AdmissionsBounded, n, r, u
    <2>1. CASE j = n + 1
      <3>1. admissions'[j] = now /\ j - i + 1 = n + 1 - i + 1
        BY <1>1, <1>3, <2>1
      <3>2. (n + 1 - i + 1) * u <= Capacity + (now - admissions'[i]) * r
        BY <1>6
      <3> QED BY <3>1, <3>2
    <2>2. CASE j \in 1 .. n
      <3>1. i \in 1 .. n
        BY <1>1, <2>2
      <3> QED BY <1>3, <2>2, <3>1 DEF AdmissionsBounded, n, r, u
    <2>3. j \in 1 .. n \/ j = n + 1
      BY <1>1
    <2> QED BY <2>1, <2>2, <2>3
  <1> QED BY <1>7, <1>8

\* The rate the limiter promises: in every window of time, whatever callers,
\* retries and observers do, no more requests pass than the burst size plus
\* what the window refilled.
THEOREM RateIsLimited == Spec => []AdmissionsBounded
<1>1. Init => WindowInv
  <2> SUFFICES ASSUME Init PROVE Budget /\ AdmissionsBounded
    BY TypeInit DEF WindowInv
  <2>1. 1 .. Len(admissions) = {}
    BY DEF Init
  <2> QED BY <2>1 DEF Budget, AdmissionsBounded
<1>2. WindowInv /\ [Next]_vars => WindowInv'
  <2> SUFFICES ASSUME TypeOK, Budget, AdmissionsBounded, [Next]_vars
               PROVE  Budget' /\ AdmissionsBounded'
    BY TypeStep DEF WindowInv
  <2>1. ASSUME NEW c \in Callers, ExecuteAdmitted(c)
        PROVE  Budget' /\ AdmissionsBounded'
    BY <2>1, AdmissionKeepsBudget DEF ExecuteAdmitted
  <2>2. ASSUME NEW c \in Callers, WakeAdmitted(c)
        PROVE  Budget' /\ AdmissionsBounded'
    BY <2>2, AdmissionKeepsBudget DEF WakeAdmitted
  <2>3. ASSUME NEW c \in Callers,
               \/ ExecuteWaits(c)
               \/ ExecuteRejected(c)
               \/ WakeWaitsAgain(c)
               \/ WakeRejected(c)
               \/ Settle(c)
        PROVE  Budget' /\ AdmissionsBounded'
    BY <2>3, NoAdmissionKeepsBudget
    DEF ExecuteWaits, ExecuteRejected, WakeWaitsAgain, WakeRejected, Settle,
        Refuse
  <2>4. CASE Observe
    BY <2>4, NoAdmissionKeepsBudget DEF Observe
  <2>5. CASE Reset
    <3>1. 1 .. Len(admissions') = {}
      BY <2>5 DEF Reset
    <3> QED BY <3>1 DEF Budget, AdmissionsBounded
  <2>6. CASE Tick
    BY <2>6, NoAdmissionKeepsBudget DEF Tick
  <2>7. CASE UNCHANGED vars
    BY <2>7, NoAdmissionKeepsBudget DEF vars
  <2> QED BY <2>1, <2>2, <2>3, <2>4, <2>5, <2>6, <2>7 DEF Next
<1>3. WindowInv => AdmissionsBounded
  BY DEF WindowInv
<1> QED BY <1>1, <1>2, <1>3, PTL DEF Spec

-----------------------------------------------------------------------------
(* The counter of calls in progress *)

QueueInv == TypeOK /\ QueueAccounting

LEMMA InProgressFinite == IsFiniteSet(InProgress)
  BY ConstantsAssumption, FS_Subset DEF InProgress

LEMMA Entering ==
  ASSUME TypeOK, NEW c \in Callers, NEW r \in CallType, r.pc # "idle",
         call[c].pc = "idle", Become(c, r)
  PROVE  Cardinality(InProgress') = Cardinality(InProgress) + 1
  <1>1. InProgress' = InProgress \cup {c} /\ c \notin InProgress
    BY DEF InProgress, Become, TypeOK
  <1> QED BY <1>1, InProgressFinite, FS_AddElement

LEMMA Leaving ==
  ASSUME TypeOK, NEW c \in Callers, call[c].pc # "idle", Become(c, Idle)
  PROVE  Cardinality(InProgress') = Cardinality(InProgress) - 1
  <1>1. InProgress' = InProgress \ {c} /\ c \in InProgress
    BY DEF InProgress, Become, TypeOK, Idle
  <1> QED BY <1>1, InProgressFinite, FS_RemoveElement

\* Every way out of execute() undoes the increment exactly once, so the counter
\* is the number of calls in progress less those a reset() has forgotten.
THEOREM QueueIsAccounted == Spec => []QueueAccounting
<1>1. Init => QueueInv
  <2> SUFFICES ASSUME Init PROVE QueueAccounting
    BY TypeInit DEF QueueInv
  <2>1. InProgress = {} /\ orphans = {} /\ queuedRequests = 0
    BY DEF Init, InProgress, Idle
  <2> QED BY <2>1, FS_EmptySet DEF QueueAccounting
<1>2. QueueInv /\ [Next]_vars => QueueInv'
  <2> SUFFICES ASSUME TypeOK, QueueAccounting, [Next]_vars
               PROVE  QueueAccounting'
    BY TypeStep DEF QueueInv
  <2>0. Cardinality(InProgress) \in Nat /\ Cardinality(orphans) \in Nat
    BY InProgressFinite, ConstantsAssumption, FS_Subset, FS_CardinalityType
    DEF TypeOK
  <2>1. ASSUME NEW c \in Callers, ExecuteAdmitted(c) PROVE QueueAccounting'
    <3> DEFINE r == [pc |-> "running", attempt |-> 0, wake |-> 0, since |-> now]
    <3>1. r \in CallType
      BY DEF TypeOK, CallType
    <3>2. Cardinality(InProgress') = Cardinality(InProgress) + 1
      BY <2>1, <3>1, Entering DEF ExecuteAdmitted
    <3> QED BY <2>0, <2>1, <3>2 DEF ExecuteAdmitted, QueueAccounting
  <2>2. ASSUME NEW c \in Callers, ExecuteWaits(c) PROVE QueueAccounting'
    <3> DEFINE r == [pc |-> "waiting", attempt |-> 0,
                     wake |-> now + RetryDelay(config, 0), since |-> now]
    <3>1. RetryDelay(config, 0) \in Nat
      BY <2>2, ConfigFacts DEF ExecuteWaits, TypeOK
    <3>2. r \in CallType
      BY <3>1 DEF TypeOK, CallType
    <3>3. Cardinality(InProgress') = Cardinality(InProgress) + 1
      BY <2>2, <3>2, Entering DEF ExecuteWaits
    <3> QED BY <2>0, <2>2, <3>3 DEF ExecuteWaits, QueueAccounting
  <2>3. ASSUME NEW c \in Callers, ExecuteRejected(c) PROVE QueueAccounting'
    BY <2>3 DEF ExecuteRejected, QueueAccounting, InProgress
  <2>4. ASSUME NEW c \in Callers, WakeAdmitted(c) \/ WakeWaitsAgain(c)
        PROVE  QueueAccounting'
    <3>1. call'[c].pc # "idle" /\ call[c].pc # "idle"
      <4>1. call[c].pc = "waiting" /\ call[c] \in CallType
        BY <2>4 DEF WakeAdmitted, WakeWaitsAgain, Due, TypeOK
      <4>2. CASE WakeAdmitted(c)
        <5>1. call'[c] = [call[c] EXCEPT !.pc = "running"]
          BY <4>2 DEF WakeAdmitted, Become, TypeOK
        <5> QED BY <4>1, <5>1 DEF CallType
      <4>3. CASE WakeWaitsAgain(c)
        BY <4>1, <4>3 DEF WakeWaitsAgain, Become, TypeOK
      <4> QED BY <2>4, <4>2, <4>3
    <3>2. \A d \in Callers : d # c => call'[d] = call[d]
      BY <2>4 DEF WakeAdmitted, WakeWaitsAgain, Become, TypeOK
    <3>3. InProgress' = InProgress
      BY <3>1, <3>2 DEF InProgress
    <3> QED BY <2>4, <3>3 DEF WakeAdmitted, WakeWaitsAgain, QueueAccounting
  <2>5. ASSUME NEW c \in Callers, WakeRejected(c) \/ Settle(c)
        PROVE  QueueAccounting'
    <3>1. Cardinality(InProgress') = Cardinality(InProgress) - 1
      BY <2>5, Leaving DEF WakeRejected, Settle, Due
    <3> QED BY <2>0, <2>5, <3>1
            DEF WakeRejected, Settle, QueueAccounting, TypeOK
  <2>6. CASE Observe
    BY <2>6 DEF Observe, QueueAccounting, InProgress
  <2>7. CASE Reset
    <3>1. InProgress' = InProgress
      BY <2>7 DEF Reset, InProgress
    <3> QED BY <2>0, <2>7, <3>1 DEF Reset, QueueAccounting
  <2>8. CASE Tick
    BY <2>8 DEF Tick, QueueAccounting, InProgress
  <2>9. CASE UNCHANGED vars
    BY <2>9 DEF vars, QueueAccounting, InProgress
  <2> QED BY <2>1, <2>2, <2>3, <2>4, <2>5, <2>6, <2>7, <2>8, <2>9 DEF Next
<1>3. QueueInv => QueueAccounting
  BY DEF QueueInv
<1> QED BY <1>1, <1>2, <1>3, PTL DEF Spec

-----------------------------------------------------------------------------
(* Waiting *)

\* When the call x began to sleep.
Started(x) == x.wake - RetryDelay(config, x.attempt)

\* It has slept through the delays before this one, and each timer was late by no more
\* than MaxLate.
OnSchedule(x) ==
  LET sum == TotalBackoff(config, x.attempt + 1) IN
  /\ x.since + sum <= x.wake
  /\ x.wake <= x.since + sum + x.attempt * MaxLate
  /\ now <= x.wake + MaxLate

\* Since the time s a request was let through, or the bucket has what was refilled.
EarnedSince(s) ==
  \/ \E i \in 1 .. Len(admissions) : admissions[i] >= s
  \/ tokens >= LesserOf(Capacity, (lastRefillTime - s) * config.requestsPerMinute)

BackoffInv ==
  /\ TypeOK
  /\ \A c \in Waiting :
       /\ OnSchedule(call[c])
       /\ Started(call[c]) \in 0 .. lastRefillTime /\ EarnedSince(Started(call[c]))

LEMMA LesserShifted ==
  ASSUME NEW full \in Nat, NEW t \in Nat, NEW a \in Nat, NEW b \in Nat,
         t >= LesserOf(full, b)
  PROVE  LesserOf(full, t + a) >= LesserOf(full, a + b)
  BY DEF LesserOf

LEMMA RefillKeepsEarned ==
  ASSUME TypeOK, NEW s \in 0 .. lastRefillTime,
         tokens >= LesserOf(Capacity, (lastRefillTime - s) * config.requestsPerMinute)
  PROVE  Refilled >= LesserOf(Capacity, (now - s) * config.requestsPerMinute)
<1> DEFINE r == config.requestsPerMinute
           a == (now - lastRefillTime) * r
           b == (lastRefillTime - s) * r
           d == (now - s) * r
<1>1. /\ r \in Nat /\ Capacity \in Nat /\ tokens \in Nat
      /\ now \in Nat /\ lastRefillTime \in Nat /\ lastRefillTime <= now /\ s \in Nat
  BY ConfigFacts DEF TypeOK
<1> HIDE DEF r
<1>2. a \in Nat /\ b \in Nat
  <2>1. now - lastRefillTime \in Nat /\ lastRefillTime - s \in Nat
    BY <1>1
  <2> QED BY <1>1, <2>1, ProductNat
<1>3. a + b = d
  BY <1>1, RefillSplits
<1>4. tokens >= LesserOf(Capacity, b) /\ Refilled = LesserOf(Capacity, tokens + a)
  BY DEF Refilled, r
<1> HIDE DEF a, b, d
<1>5. LesserOf(Capacity, tokens + a) >= LesserOf(Capacity, a + b)
  BY <1>1, <1>2, <1>4, LesserShifted
<1> QED BY <1>3, <1>4, <1>5 DEF d, r

\* Whatever becomes of the bucket.
LEMMA EarnedStays ==
  ASSUME TypeOK, NEW s \in 0 .. lastRefillTime, EarnedSince(s), config' = config,
         now' = now \/ (tokens' = tokens /\ lastRefillTime' = lastRefillTime),
         \/ /\ admissions' = admissions
            /\ \/ tokens' = tokens /\ lastRefillTime' = lastRefillTime
               \/ tokens' = Refilled /\ lastRefillTime' = now
         \/ admissions' = Append(admissions, now) /\ lastRefillTime' = now
         \/ admissions' = << >> /\ tokens' = Capacity /\ lastRefillTime' = now
  PROVE  s \in 0 .. lastRefillTime' /\ EarnedSince(s)'
<1>1. /\ Capacity' = Capacity /\ Capacity \in Nat
      /\ lastRefillTime \in Nat /\ now \in Nat /\ lastRefillTime <= now
      /\ admissions \in Seq(Nat) /\ tokens \in Nat
  BY ConfigFacts DEF TypeOK, Capacity
<1>2. s \in 0 .. lastRefillTime'
  BY <1>1
<1> SUFFICES EarnedSince(s)'
  BY <1>2
<1>3. CASE admissions' = admissions /\ tokens' = tokens /\ lastRefillTime' = lastRefillTime
  BY <1>1, <1>3 DEF EarnedSince
<1>4. CASE admissions' = admissions /\ tokens' = Refilled /\ lastRefillTime' = now
  BY <1>1, <1>4, RefillKeepsEarned DEF EarnedSince
<1>5. CASE admissions' = Append(admissions, now)
  <2>1. /\ Len(admissions') = Len(admissions) + 1 /\ Len(admissions) \in Nat
        /\ admissions'[Len(admissions) + 1] = now
    BY <1>1, <1>5
  <2>2. now >= s /\ Len(admissions) + 1 \in 1 .. Len(admissions')
    BY <1>1, <2>1
  <2> QED BY <2>1, <2>2 DEF EarnedSince
<1>6. CASE admissions' = << >> /\ tokens' = Capacity /\ lastRefillTime' = now
  <2>1. Capacity >= LesserOf(Capacity, (now - s) * config.requestsPerMinute)
    <3> DEFINE d == (now - s) * config.requestsPerMinute
    <3>1. d \in Int
      BY <1>1, ConfigFacts DEF TypeOK
    <3> HIDE DEF d
    <3>2. Capacity >= LesserOf(Capacity, d)
      BY <1>1, <3>1 DEF LesserOf
    <3> QED BY <3>2 DEF d
  <2> QED BY <1>1, <1>6, <2>1 DEF EarnedSince
<1> QED BY <1>3, <1>4, <1>5, <1>6

\* What the invariant says of a waiting call.
WaitsWell(x) ==
  OnSchedule(x) /\ Started(x) \in 0 .. lastRefillTime /\ EarnedSince(Started(x))

LEMMA WaitingTypes ==
  ASSUME TypeOK, NEW x \in CallType
  PROVE  /\ x.attempt \in Nat /\ x.wake \in Nat /\ x.since \in Nat
         /\ now \in Nat /\ MaxLate \in Nat \ {0} /\ x.attempt * MaxLate \in Nat
         /\ RetryDelay(config, x.attempt) \in Nat \ {0}
         /\ TotalBackoff(config, x.attempt) \in Nat
         /\ TotalBackoff(config, x.attempt + 1)
              = TotalBackoff(config, x.attempt) + RetryDelay(config, x.attempt)
<1>1. x.attempt \in Nat /\ x.wake \in Nat /\ x.since \in Nat
  BY DEF CallType
<1>2. now \in Nat /\ MaxLate \in Nat \ {0} /\ config \in ConfigType
  BY ConstantsAssumption, ConfigFacts DEF TypeOK
<1> QED BY <1>1, <1>2, ProductNat, DelayFacts

\* A call that goes on waiting.
LEMMA WaitingStays ==
  ASSUME BackoffInv, NEW x \in CallType, WaitsWell(x), config' = config,
         \/ now' = now
         \/ now' <= x.wake + MaxLate /\ tokens' = tokens /\ lastRefillTime' = lastRefillTime,
         \/ /\ admissions' = admissions
            /\ \/ tokens' = tokens /\ lastRefillTime' = lastRefillTime
               \/ tokens' = Refilled /\ lastRefillTime' = now
         \/ admissions' = Append(admissions, now) /\ lastRefillTime' = now
         \/ admissions' = << >> /\ tokens' = Capacity /\ lastRefillTime' = now
  PROVE  WaitsWell(x)'
<1> DEFINE s == Started(x)
<1>1. s \in 0 .. lastRefillTime /\ EarnedSince(s) /\ OnSchedule(x)
  BY DEF WaitsWell
<1>2. OnSchedule(x)'
  BY <1>1 DEF OnSchedule
<1>3. Started(x)' = s
  BY DEF Started
<1> HIDE DEF s
<1>4. s \in 0 .. lastRefillTime' /\ \A t : t = s => EarnedSince(t)'
  <2>1. TypeOK
    BY DEF BackoffInv
  <2> QED BY <1>1, <2>1, EarnedStays
<1> QED BY <1>2, <1>3, <1>4 DEF WaitsWell

\* A call that begins to sleep, for the first time or again.
LEMMA WaitingBegins ==
  ASSUME TypeOK, NEW x \in CallType, Refuse, UNCHANGED <<config, now, admissions>>,
         x.wake = now + RetryDelay(config, x.attempt),
         x.since + TotalBackoff(config, x.attempt) <= now,
         now <= x.since + TotalBackoff(config, x.attempt) + x.attempt * MaxLate
  PROVE  WaitsWell(x)'
<1>1. /\ x.attempt \in Nat /\ x.wake \in Nat /\ x.since \in Nat
      /\ now \in Nat /\ MaxLate \in Nat \ {0} /\ x.attempt * MaxLate \in Nat
      /\ RetryDelay(config, x.attempt) \in Nat \ {0}
      /\ TotalBackoff(config, x.attempt) \in Nat
      /\ TotalBackoff(config, x.attempt + 1)
           = TotalBackoff(config, x.attempt) + RetryDelay(config, x.attempt)
  BY WaitingTypes
<1>2. OnSchedule(x)
  BY <1>1 DEF OnSchedule
<1>3. OnSchedule(x)'
  BY <1>2 DEF OnSchedule
<1>4. Started(x)' = now
  BY <1>1 DEF Started
<1>5. lastRefillTime' = now /\ now \in 0 .. lastRefillTime'
  BY <1>1 DEF Refuse
<1>6. tokens' \in Nat /\ Capacity \in Nat /\ Capacity' = Capacity
  BY RefilledFacts, ConfigFacts DEF Refuse, TypeOK, Capacity
<1>7. \A t : t = now => EarnedSince(t)'
  <2> SUFFICES ASSUME NEW t, t = now PROVE EarnedSince(t)'
    OBVIOUS
  <2>1. (lastRefillTime' - t) * config'.requestsPerMinute = 0
    BY <1>1, <1>5, ConfigFacts DEF TypeOK
  <2>2. tokens' >= LesserOf(Capacity', 0)
    BY <1>6 DEF LesserOf
  <2> QED BY <2>1, <2>2 DEF EarnedSince
<1> QED BY <1>3, <1>4, <1>5, <1>7 DEF WaitsWell

LEMMA BackoffInit == Init => BackoffInv
<1> SUFFICES ASSUME Init PROVE \A c \in Waiting : FALSE
  BY TypeInit DEF BackoffInv
<1> QED BY DEF Init, Idle, Waiting

LEMMA BackoffStep == BackoffInv /\ [Next]_vars => BackoffInv'
<1> SUFFICES ASSUME BackoffInv, [Next]_vars PROVE BackoffInv'
  OBVIOUS
<1>1. TypeOK /\ TypeOK'
  BY TypeStep DEF BackoffInv
<1>2. \A c \in Waiting : WaitsWell(call[c])
  BY DEF BackoffInv, WaitsWell
<1>3. \A c \in Callers : call[c] \in CallType /\ call'[c] \in CallType
  BY <1>1 DEF TypeOK
<1> SUFFICES ASSUME NEW c \in Callers, call'[c].pc = "waiting",
                    NEW x, x = call'[c]
             PROVE  WaitsWell(x)'
  BY <1>1 DEF BackoffInv, WaitsWell, Waiting
<1>4. ASSUME NEW d \in Callers, NEW r, Become(d, r)
      PROVE  IF c = d THEN x = r ELSE x = call[c]
  BY <1>1, <1>4 DEF Become, TypeOK
<1>5. ASSUME x = call[c] PROVE x \in CallType /\ WaitsWell(x) /\ c \in Waiting
  BY <1>2, <1>3, <1>5 DEF Waiting
<1>6. x \in CallType /\ x.pc = "waiting" /\ Idle.pc = "idle"
  BY <1>3 DEF Idle
<1>7. ASSUME NEW d \in Callers,
             \/ ExecuteAdmitted(d)
             \/ WakeAdmitted(d)
      PROVE  WaitsWell(x)'
  <2>1. x = call[c]
    <3>1. CASE ExecuteAdmitted(d)
      BY <1>4, <1>6, <3>1 DEF ExecuteAdmitted
    <3>2. CASE WakeAdmitted(d)
      <4>1. [call[d] EXCEPT !.pc = "running"].pc = "running"
        BY <1>3 DEF CallType
      <4> QED BY <1>4, <1>6, <3>2, <4>1 DEF WakeAdmitted
    <3> QED BY <1>7, <3>1, <3>2
  <2>2. /\ config' = config /\ now' = now
        /\ admissions' = Append(admissions, now) /\ lastRefillTime' = now
    BY <1>7 DEF ExecuteAdmitted, WakeAdmitted, Acquire
  <2> QED BY <1>5, <2>1, <2>2, WaitingStays
<1>8. ASSUME NEW d \in Callers, ExecuteWaits(d) PROVE WaitsWell(x)'
  <2>1. Refuse /\ UNCHANGED <<config, now, admissions>>
    BY <1>8 DEF ExecuteWaits
  <2>2. CASE c # d
    <3>1. x = call[c]
      BY <1>4, <1>8, <2>2 DEF ExecuteWaits
    <3> QED BY <1>5, <2>1, <3>1, WaitingStays DEF Refuse
  <2>3. CASE c = d
    <3>1. x = [pc |-> "waiting", attempt |-> 0, wake |-> now + RetryDelay(config, 0),
               since |-> now]
      BY <1>4, <1>8, <2>3 DEF ExecuteWaits
    <3>2. x.attempt = 0 /\ x.wake = now + RetryDelay(config, x.attempt) /\ x.since = now
      BY <3>1
    <3>3. TotalBackoff(config, 0) = 0 /\ now \in Nat
      BY <1>1, ConfigFacts, NoDelays DEF TypeOK
    <3>4. x.attempt * MaxLate = 0
      BY <3>2, ConstantsAssumption
    <3> QED BY <1>1, <1>6, <2>1, <3>2, <3>3, <3>4, WaitingBegins
  <2> QED BY <2>2, <2>3
<1>9. ASSUME NEW d \in Callers, ExecuteRejected(d) PROVE WaitsWell(x)'
  BY <1>5, <1>9, WaitingStays DEF ExecuteRejected, Refuse
<1>10. ASSUME NEW d \in Callers, WakeWaitsAgain(d) PROVE WaitsWell(x)'
  <2> DEFINE y == call[d]
             a == y.attempt + 1
  <2>1. /\ Refuse /\ UNCHANGED <<config, now, admissions>>
        /\ y.pc = "waiting" /\ y.wake <= now
        /\ Become(d, [pc |-> "waiting", attempt |-> a, wake |-> now + RetryDelay(config, a),
                      since |-> y.since])
    BY <1>10 DEF WakeWaitsAgain, Due
  <2>2. CASE c # d
    <3>1. x = call[c]
      BY <1>4, <2>1, <2>2
    <3> QED BY <1>5, <2>1, <3>1, WaitingStays DEF Refuse
  <2>3. CASE c = d
    <3>1. x = [pc |-> "waiting", attempt |-> a, wake |-> now + RetryDelay(config, a),
               since |-> y.since]
      BY <1>4, <2>1, <2>3
    <3>2. x.attempt = a /\ x.wake = now + RetryDelay(config, a) /\ x.since = y.since
      BY <3>1
    <3>3. y \in CallType /\ OnSchedule(y)
      BY <1>2, <1>3, <2>1 DEF Waiting, WaitsWell
    <3>4. /\ y.attempt \in Nat /\ y.wake \in Nat /\ y.since \in Nat
          /\ now \in Nat /\ MaxLate \in Nat /\ y.attempt * MaxLate \in Nat
          /\ TotalBackoff(config, a) \in Nat
      BY <1>1, <3>3, WaitingTypes
    <3> HIDE DEF y
    <3>5. /\ y.since + TotalBackoff(config, a) <= y.wake
          /\ y.wake <= y.since + TotalBackoff(config, a) + y.attempt * MaxLate
          /\ now <= y.wake + MaxLate
      BY <3>3 DEF OnSchedule
    <3>6. a * MaxLate = y.attempt * MaxLate + MaxLate
      BY <3>4, OneMoreToken
    <3> HIDE DEF a
    <3>7. y.since + TotalBackoff(config, a) <= now
      BY <2>1, <3>4, <3>5 DEF y
    <3>8. now <= y.since + TotalBackoff(config, a) + a * MaxLate
      BY <3>4, <3>5, <3>6
    <3> QED BY <1>1, <1>6, <2>1, <3>2, <3>7, <3>8, WaitingBegins
  <2> QED BY <2>2, <2>3
<1>11. ASSUME NEW d \in Callers, WakeRejected(d) PROVE WaitsWell(x)'
  <2>1. Become(d, Idle) /\ Refuse /\ UNCHANGED <<config, now, admissions>>
    BY <1>11 DEF WakeRejected
  <2>2. x = call[c]
    BY <1>4, <1>6, <2>1
  <2> QED BY <1>5, <2>1, <2>2, WaitingStays DEF Refuse
<1>12. ASSUME NEW d \in Callers, Settle(d) PROVE WaitsWell(x)'
  <2>1. Become(d, Idle) /\ UNCHANGED <<config, now, admissions, tokens, lastRefillTime>>
    BY <1>12 DEF Settle
  <2>2. x = call[c]
    BY <1>4, <1>6, <2>1
  <2> QED BY <1>5, <2>1, <2>2, WaitingStays
<1>13. CASE Observe
  BY <1>5, <1>13, WaitingStays DEF Observe
<1>14. CASE Reset
  BY <1>5, <1>14, WaitingStays DEF Reset
<1>15. CASE Tick
  <2>1. /\ x = call[c] /\ now' = now + 1 /\ now < x.wake + MaxLate
        /\ UNCHANGED <<config, tokens, lastRefillTime, admissions>>
    BY <1>5, <1>15 DEF Tick
  <2>2. now' <= x.wake + MaxLate
    BY <1>1, <1>6, <2>1, WaitingTypes
  <2> QED BY <1>5, <2>1, <2>2, WaitingStays
<1>16. CASE UNCHANGED vars
  BY <1>5, <1>16, WaitingStays DEF vars
<1> QED BY <1>7, <1>8, <1>9, <1>10, <1>11, <1>12, <1>13, <1>14, <1>15, <1>16 DEF Next

LEMMA BackoffAlways == Spec => []BackoffInv
  BY BackoffInit, BackoffStep, PTL DEF Spec

\* However often and however late it is woken, a call waits no longer than its delays
\* and one lateness of a timer for each.
THEOREM WaitsAreBounded == Spec => []WaitBounded
<1>1. ASSUME BackoffInv PROVE WaitBounded
  <2> SUFFICES ASSUME NEW c \in Waiting, NEW x, x = call[c]
               PROVE  now - x.since <= TotalBackoff(config, x.attempt + 1)
                                         + (x.attempt + 1) * MaxLate
    BY DEF WaitBounded
  <2>1. TypeOK /\ x \in CallType /\ OnSchedule(x)
    BY <1>1 DEF BackoffInv, TypeOK, Waiting
  <2>2. /\ x.attempt \in Nat /\ x.wake \in Nat /\ x.since \in Nat /\ now \in Nat
        /\ MaxLate \in Nat /\ x.attempt * MaxLate \in Nat
        /\ TotalBackoff(config, x.attempt + 1) \in Nat
    <3>1. x.attempt + 1 \in Nat /\ config \in ConfigType
      <4>1. x.attempt \in Nat
        BY <2>1 DEF CallType
      <4>2. config \in ConfigType
        BY <2>1, ConfigFacts DEF TypeOK
      <4> QED BY <4>1, <4>2
    <3>2. TotalBackoff(config, x.attempt + 1) \in Nat
      BY <3>1, DelayFacts
    <3> QED BY <2>1, <3>2, WaitingTypes
  <2>3. (x.attempt + 1) * MaxLate = x.attempt * MaxLate + MaxLate
    BY <2>2, OneMoreToken
  <2> QED BY <2>1, <2>2, <2>3 DEF OnSchedule
<1> QED BY <1>1, BackoffAlways, PTL

\* A call is given up only by the last of its retries, when it has slept through all its
\* delays.
THEOREM BackoffIsServed == Spec => BackoffServed
<1>1. ASSUME BackoffInv, [Next]_vars, NEW c \in Callers,
             call[c].pc = "waiting", call'[c].pc = "idle"
      PROVE  now - call[c].since >= TotalBackoff(config, config.maxRetries)
  <2> DEFINE x == call[c]
  <2>1. TypeOK /\ x \in CallType /\ OnSchedule(x) /\ x.attempt < config.maxRetries
    BY <1>1 DEF BackoffInv, TypeOK, Waiting
  <2>2. WakeRejected(c)
    <3>1. ASSUME NEW d \in Callers, d # c, NEW r, Become(d, r) PROVE FALSE
      BY <1>1, <2>1, <3>1 DEF Become, TypeOK
    <3>2. ~WakeAdmitted(c)
      BY <1>1, <2>1 DEF WakeAdmitted, Become, TypeOK, CallType
    <3>3. ~WakeWaitsAgain(c)
      BY <1>1, <2>1 DEF WakeWaitsAgain, Become, TypeOK
    <3>4. ~ExecuteAdmitted(c) /\ ~ExecuteWaits(c) /\ ~Settle(c)
      BY <1>1 DEF ExecuteAdmitted, ExecuteWaits, Settle
    <3>5. ~UNCHANGED call
      BY <1>1
    <3> QED BY <1>1, <3>1, <3>2, <3>3, <3>4, <3>5
            DEF Next, vars, ExecuteAdmitted, ExecuteWaits, ExecuteRejected, WakeAdmitted,
                WakeWaitsAgain, WakeRejected, Settle, Observe, Reset, Tick
  <2>3. /\ x.wake <= now /\ x.attempt + 1 >= config.maxRetries
    BY <2>2 DEF WakeRejected, Due
  <2>4. /\ x.attempt \in Nat /\ x.wake \in Nat /\ x.since \in Nat /\ now \in Nat
        /\ config.maxRetries \in Nat
    BY <2>1, WaitingTypes, ConfigFacts DEF TypeOK
  <2>5. x.attempt + 1 = config.maxRetries
    BY <2>1, <2>3, <2>4
  <2>6. TotalBackoff(config, config.maxRetries) \in Nat
    BY <2>1, <2>4, ConfigFacts, DelayFacts DEF TypeOK
  <2>7. x.since + TotalBackoff(config, config.maxRetries) <= x.wake
    BY <2>1, <2>5 DEF OnSchedule
  <2> HIDE DEF x
  <2>8. now - x.since >= TotalBackoff(config, config.maxRetries)
    BY <2>3, <2>4, <2>6, <2>7
  <2> QED BY <2>8 DEF x
<1>2. BackoffInv /\ [Next]_vars
        => [\A c \in Callers :
              call[c].pc = "waiting" /\ call'[c].pc = "idle"
                => now - call[c].since >= TotalBackoff(config, config.maxRetries)]_vars
  BY <1>1
<1> QED BY <1>2, BackoffAlways, PTL DEF Spec, BackoffServed

\* A retry whose delay refills a token fails only because another request was let
\* through while it slept.
THEOREM RefusalsHaveACause == Spec => RefusalHasACause
<1>1. ASSUME BackoffInv, [Next]_vars, NEW c \in Callers, Refused(c),
             RetryDelay(config, call[c].attempt) * config.requestsPerMinute >= UnitsPerToken
      PROVE  \E i \in 1 .. Len(admissions) :
               admissions[i] >= call[c].wake - RetryDelay(config, call[c].attempt)
  <2> DEFINE x == call[c]
             delay == RetryDelay(config, x.attempt)
             s == Started(x)
             r == config.requestsPerMinute
  <2>1. /\ TypeOK /\ x \in CallType /\ x.pc = "waiting"
        /\ s \in 0 .. lastRefillTime /\ EarnedSince(s)
    BY <1>1 DEF BackoffInv, TypeOK, Waiting, Refused
  <2>2. WakeWaitsAgain(c) \/ WakeRejected(c)
    <3>1. ASSUME NEW d \in Callers, d # c, NEW y, Become(d, y) PROVE FALSE
      BY <1>1, <2>1, <3>1 DEF Become, TypeOK, Refused
    <3>2. ~WakeAdmitted(c)
      BY <1>1, <2>1 DEF WakeAdmitted, Become, TypeOK, CallType, Refused
    <3>3. ~ExecuteAdmitted(c) /\ ~ExecuteWaits(c) /\ ~Settle(c)
      BY <2>1 DEF ExecuteAdmitted, ExecuteWaits, Settle
    <3>4. ~UNCHANGED call
      BY <1>1 DEF Refused
    <3> QED BY <1>1, <3>1, <3>2, <3>3, <3>4
            DEF Next, vars, ExecuteAdmitted, ExecuteWaits, ExecuteRejected, WakeAdmitted,
                WakeWaitsAgain, WakeRejected, Settle, Observe, Reset, Tick
  <2>3. x.wake <= now /\ Refilled < UnitsPerToken
    BY <2>2 DEF WakeWaitsAgain, WakeRejected, Due, Refuse
  <2>4. /\ x.wake \in Nat /\ now \in Nat /\ delay \in Nat /\ s = x.wake - delay
        /\ r \in Nat /\ Capacity \in Nat /\ UnitsPerToken \in Nat \ {0}
        /\ delay * r >= UnitsPerToken
    BY <1>1, <2>1, WaitingTypes, ConfigFacts, ConstantsAssumption DEF TypeOK, Started
  <2>5. config.burstSize \in Nat \ {0}
    BY <2>1, ConfigFacts DEF TypeOK, ConfigType
  <2>6. Capacity >= UnitsPerToken
    <3> DEFINE b == config.burstSize - 1
    <3>1. b \in Nat /\ config.burstSize = b + 1
      BY <2>5
    <3>2. (b + 1) * UnitsPerToken = b * UnitsPerToken + UnitsPerToken
      BY <2>4, <3>1, OneMoreToken
    <3>3. b * UnitsPerToken \in Nat
      BY <2>4, <3>1, ProductNat
    <3> HIDE DEF b
    <3> QED BY <2>4, <3>1, <3>2, <3>3 DEF Capacity
  <2>7. (now - s) * r >= UnitsPerToken /\ (now - s) * r \in Int
    <3> DEFINE late == now - x.wake
    <3>1. late \in Nat /\ now - s = late + delay
      BY <2>3, <2>4
    <3>2. late * r \in Nat /\ delay * r \in Nat
      BY <2>4, <3>1, ProductNat
    <3> HIDE DEF late, delay, s, r
    <3>3. (late + delay) * r = late * r + delay * r
      BY <2>4, <3>1
    <3> QED BY <2>4, <3>1, <3>2, <3>3
  <2>8. ASSUME tokens >= LesserOf(Capacity, (lastRefillTime - s) * r) PROVE FALSE
    <3> HIDE DEF s
    <3>1. Refilled >= LesserOf(Capacity, (now - s) * r)
      BY <2>1, <2>8, RefillKeepsEarned
    <3>2. Refilled \in Int
      BY <2>1, RefilledFacts
    <3> DEFINE e == (now - s) * r
    <3> HIDE DEF e
    <3>3. e >= UnitsPerToken /\ e \in Int /\ Refilled >= LesserOf(Capacity, e)
      BY <2>7, <3>1 DEF e
    <3> QED BY <2>3, <2>4, <2>6, <3>2, <3>3 DEF LesserOf
  <2>9. \E i \in 1 .. Len(admissions) : admissions[i] >= s
    BY <2>1, <2>8 DEF EarnedSince
  <2> QED BY <2>4, <2>9
<1>2. BackoffInv /\ [Next]_vars
        => [\A c \in Callers :
              LET delay == RetryDelay(config, call[c].attempt) IN
              Refused(c) /\ delay * config.requestsPerMinute >= UnitsPerToken
                => \E i \in 1 .. Len(admissions) :
                     admissions[i] >= call[c].wake - delay]_vars
  BY <1>1
<1> QED BY <1>2, BackoffAlways, PTL DEF Spec, RefusalHasACause
=============================================================================
