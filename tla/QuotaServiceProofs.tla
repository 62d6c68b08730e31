-------------------------- MODULE QuotaServiceProofs --------------------------
(***************************************************************************)
(* Proofs about QuotaService: its type invariant, for any thresholds, and  *)
(* that with the default red threshold of 100 it neither lets creates      *)
(* through on a quota long used up nor blocks them on one long free; and   *)
(* about QuotaTenants, that a tenant's creates are not decided on by the   *)
(* quota of another one for longer than a request and the time to live of  *)
(* the cache after a switch.                                               *)
(***************************************************************************)
EXTENDS QuotaTenants, TLAPS

-----------------------------------------------------------------------------
(* The rounding of Math.round(current / limit * 100) *)

LEMMA DivisionBounds ==
  ASSUME NEW a \in Nat, NEW b \in Nat, b > 0
  PROVE  /\ a \div b \in Nat
         /\ b * (a \div b) <= a
         /\ a < b * (a \div b) + b
  OBVIOUS

\* A limit that is reached shows as 100% or more.
LEMMA FullRoundsTo100 ==
  ASSUME NEW c \in Nat, NEW m \in Nat, m > 0, c >= m
  PROVE  (200 * c + m) \div (2 * m) >= 100
<1> DEFINE q == (200 * c + m) \div (2 * m)
<1>1. (200 * c + m) \in Nat /\ 2 * m \in Nat /\ 2 * m > 0
  OBVIOUS
<1>2. q \in Nat /\ 200 * c + m < (2 * m) * q + 2 * m
  BY <1>1, DivisionBounds
<1>3. SUFFICES ASSUME q <= 99 PROVE FALSE
  BY <1>2
<1>4. (2 * m) * q <= (2 * m) * 99
  BY <1>2, <1>3
<1> QED BY <1>2, <1>4

\* Less than 99.5% shows as less than 100%.
LEMMA RoomyRoundsBelow100 ==
  ASSUME NEW c \in Nat, NEW m \in Nat, m > 0, 200 * c < 199 * m
  PROVE  (200 * c + m) \div (2 * m) < 100
<1> DEFINE q == (200 * c + m) \div (2 * m)
<1>1. (200 * c + m) \in Nat /\ 2 * m \in Nat /\ 2 * m > 0
  OBVIOUS
<1>2. q \in Nat /\ (2 * m) * q <= 200 * c + m
  BY <1>1, DivisionBounds
<1>3. SUFFICES ASSUME q >= 100 PROVE FALSE
  BY <1>2
<1>4. (2 * m) * q >= (2 * m) * 100
  BY <1>2, <1>3
<1> QED BY <1>2, <1>4

LEMMA PercentageBounds ==
  ASSUME NEW c \in Nat, NEW m \in Nat \cup {Infinity}
  PROVE  /\ Percentage(c, m) \in Nat
         /\ m # Infinity /\ m > 0 /\ c >= m => Percentage(c, m) >= 100
         /\ m = Infinity \/ m = 0 \/ 200 * c < 199 * m => Percentage(c, m) < 100
<1>1. CASE m = Infinity \/ m = 0
  BY <1>1, QuotaConstants DEF Percentage
<1>2. CASE m # Infinity /\ m # 0
  <2>1. m \in Nat /\ m > 0
    BY <1>2
  <2>2. Percentage(c, m) = (200 * c + m) \div (2 * m)
    BY <1>2 DEF Percentage
  <2>3. (200 * c + m) \in Nat /\ 2 * m \in Nat /\ 2 * m > 0
    BY <2>1
  <2>4. (200 * c + m) \div (2 * m) \in Nat
    BY <2>3, DivisionBounds
  <2>5. c >= m => (200 * c + m) \div (2 * m) >= 100
    BY <2>1, FullRoundsTo100
  <2>6. 200 * c < 199 * m => (200 * c + m) \div (2 * m) < 100
    BY <2>1, RoomyRoundsBelow100
  <2> QED BY <1>2, <2>2, <2>4, <2>5, <2>6
<1> QED BY <1>1, <1>2

-----------------------------------------------------------------------------
(* Type correctness *)

LEMMA ScopeType ==
  ASSUME NEW t \in Tenants, NEW k \in Keys
  PROVE  ScopeOf(t, k) \in Scopes
  BY QuotaConstants DEF Keys, ScopeOf, Scopes

LEMMA StatusHasType ==
  ASSUME NEW s \in Scopes, NEW c \in Nat, NEW m \in Nat \cup {Infinity},
         NEW at \in 0 .. MaxTime
  PROVE  Status(s, c, m, at) \in StatusType
<1>1. Percentage(c, m) \in Nat
  BY PercentageBounds
<1> QED BY <1>1 DEF Status, StatusType, ThresholdLevel

\* What a check that concludes leaves behind is well typed.
LEMMA ConcludeTypes ==
  ASSUME TypeOK, NEW c \in Callers, NEW t \in Tenants, NEW k \in Keys,
         NEW purpose \in {"create", "status"}, NEW st \in StatusType,
         Conclude(c, purpose, t, k, st)
  PROVE  /\ check' \in [Callers -> {Idle} \cup [pc : {"creating"}, scope : Scopes]
                                          \cup FetchType \cup FetchedType]
         /\ decision' \in [allowed : BOOLEAN, status : StatusType, scope : Scopes]
                            \cup {Nothing}
<1>1. ScopeOf(t, k) \in Scopes
  BY ScopeType
<1> QED BY <1>1 DEF Conclude, Become, TypeOK

LEMMA RememberTypes ==
  ASSUME TypeOK, NEW t \in Nat, NEW u \in [Scopes -> Usages], Remember(t, u),
         now <= t, now' = t
  PROVE  /\ used' \in [Scopes -> Usages]
         /\ lastFree' \in [Scopes -> 0 .. now']
         /\ lastTight' \in [Scopes -> 0 .. now']
  BY QuotaConstants DEF TypeOK, Remember

LEMMA TypeStep == TypeOK /\ [Next]_vars => TypeOK'
<1> SUFFICES ASSUME TypeOK, [Next]_vars PROVE TypeOK'
  OBVIOUS
<1> USE QuotaConstants
<1>1. CASE UNCHANGED vars
  BY <1>1 DEF vars, TypeOK
<1>2. ASSUME NEW c \in Callers, NEW purpose \in {"create", "status"},
             NEW k \in Keys, CheckHits(c, purpose, k)
      PROVE  TypeOK'
  <2>1. cache[k].status \in StatusType
    BY <1>2 DEF CheckHits, Cached, TypeOK
  <2>2. active \in Tenants
    BY DEF TypeOK
  <2> QED BY <1>2, <2>1, <2>2, ConcludeTypes DEF CheckHits, TypeOK
<1>3. ASSUME NEW c \in Callers, NEW purpose \in {"create", "status"},
             NEW k \in Keys, CheckMisses(c, purpose, k)
      PROVE  TypeOK'
  <2>1. [pc |-> "fetching", purpose |-> purpose, tenant |-> active, key |-> k,
         sentAt |-> now] \in FetchType
    BY DEF TypeOK, FetchType
  <2> QED BY <1>3, <2>1 DEF CheckMisses, Become, NoDecision, TypeOK
<1>4. ASSUME NEW c \in Callers, ApiReads(c) PROVE TypeOK'
  <2>1. check[c] \in FetchType
    BY <1>4 DEF ApiReads, TypeOK, Idle, FetchedType
  <2> DEFINE s == ScopeOf(check[c].tenant, check[c].key)
  <2>2. s \in Scopes
    BY <2>1, ScopeType DEF FetchType
  <2>3. used[s] \in Nat /\ limit[s] \in Nat \cup {Infinity}
    BY <2>2 DEF TypeOK
  <2>4. now \in 0 .. MaxTime
    BY DEF TypeOK
  <2> HIDE DEF s
  <2>5. Status(s, used[s], limit[s], now) \in StatusType
    BY <2>2, <2>3, <2>4, StatusHasType
  <2>6. check'[c] \in FetchedType
    BY <1>4, <2>1, <2>5 DEF ApiReads, Become, FetchedType, FetchType, TypeOK, s
  <2> QED BY <1>4, <2>6 DEF ApiReads, Become, NoDecision, TypeOK
<1>5. ASSUME NEW c \in Callers, FetchArrives(c) PROVE TypeOK'
  <2>1. check[c] \in FetchedType
    BY <1>5 DEF FetchArrives, TypeOK, Idle, FetchType
  <2>2. /\ check[c].tenant \in Tenants /\ check[c].key \in Keys
        /\ check[c].purpose \in {"create", "status"}
        /\ check[c].status \in StatusType
    BY <2>1 DEF FetchedType
  <2>3. cache' \in [Keys -> [status : StatusType, timestamp : 0 .. MaxTime]
                            \cup {Nothing}]
    BY <1>5, <2>2 DEF FetchArrives, TypeOK
  <2>4. Conclude(c, check[c].purpose, check[c].tenant, check[c].key,
                 check[c].status)
    BY <1>5 DEF FetchArrives
  <2> QED BY <1>5, <2>2, <2>3, <2>4, ConcludeTypes DEF FetchArrives, TypeOK
<1>6. ASSUME NEW c \in Callers, FetchFails(c) PROVE TypeOK'
  <2>1. check[c] \in FetchType \cup FetchedType
    BY <1>6 DEF FetchFails, TypeOK, Idle
  <2>2. ScopeOf(check[c].tenant, check[c].key) \in Scopes
    BY <2>1, ScopeType DEF FetchType, FetchedType
  <2> QED BY <1>6, <2>2 DEF FetchFails, Become, NoDecision, TypeOK
<1>7. ASSUME NEW c \in Callers, CreateEnds(c) PROVE TypeOK'
  <2>1. check[c].scope \in Scopes
    BY <1>7 DEF CreateEnds, TypeOK, Idle, FetchType, FetchedType
  <2>2. now \in Nat
    BY DEF TypeOK
  <2>3. /\ used' \in [Scopes -> Usages]
        /\ lastFree' \in [Scopes -> 0 .. now']
        /\ lastTight' \in [Scopes -> 0 .. now']
    <3>1. CASE UNCHANGED <<used, lastFree, lastTight>>
      BY <1>7, <3>1 DEF CreateEnds, TypeOK
    <3>2. CASE /\ used[check[c].scope] + 1 \in Usages
               /\ Remember(now, [used EXCEPT ![check[c].scope] = @ + 1])
      <4>1. [used EXCEPT ![check[c].scope] = @ + 1] \in [Scopes -> Usages]
        BY <2>1, <3>2 DEF TypeOK
      <4>2. now' = now /\ now <= now
        BY <1>7, <2>2 DEF CreateEnds
      <4> QED BY <2>2, <3>2, <4>1, <4>2, RememberTypes
    <3> QED BY <1>7, <3>1, <3>2 DEF CreateEnds
  <2> QED BY <1>7, <2>3 DEF CreateEnds, Become, NoDecision, TypeOK
<1>8. ASSUME NEW nss \in SUBSET Namespaces, Clear(nss) PROVE TypeOK'
  BY <1>8 DEF Clear, NoDecision, TypeOK
<1>9. ASSUME NEW t \in Tenants, SwitchSession(t) PROVE TypeOK'
  BY <1>9 DEF SwitchSession, NoDecision, TypeOK
<1>10. ASSUME NEW s \in Scopes, NEW n \in Usages, UsageChanges(s, n) PROVE TypeOK'
  <2>1. [used EXCEPT ![s] = n] \in [Scopes -> Usages]
    BY DEF TypeOK
  <2>2. now \in Nat /\ now <= now /\ now' = now
    BY <1>10 DEF UsageChanges, TypeOK
  <2>3. Remember(now, [used EXCEPT ![s] = n])
    BY <1>10 DEF UsageChanges
  <2>4. /\ used' \in [Scopes -> Usages]
        /\ lastFree' \in [Scopes -> 0 .. now']
        /\ lastTight' \in [Scopes -> 0 .. now']
    BY <2>1, <2>2, <2>3, RememberTypes
  <2> QED BY <1>10, <2>4 DEF UsageChanges, NoDecision, TypeOK
<1>11. ASSUME Tick PROVE TypeOK'
  <2>1. now + 1 \in Nat /\ now <= now + 1 /\ now' = now + 1
    BY <1>11 DEF Tick, TypeOK
  <2>2. used \in [Scopes -> Usages]
    BY DEF TypeOK
  <2>3. /\ used' \in [Scopes -> Usages]
        /\ lastFree' \in [Scopes -> 0 .. now']
        /\ lastTight' \in [Scopes -> 0 .. now']
    BY <1>11, <2>1, <2>2, RememberTypes DEF Tick
  <2> QED BY <1>11, <2>1, <2>3 DEF Tick, NoDecision, TypeOK
<1> QED
  BY <1>1, <1>2, <1>3, <1>4, <1>5, <1>6, <1>7, <1>8, <1>9, <1>10, <1>11 DEF Next

LEMMA TypeInit == Init => TypeOK
  BY QuotaConstants DEF Init, TypeOK

\* Every cached status, every check in progress and every decision has the shape
\* the code gives it, for any thresholds, limits and usages: in particular no
\* decision is made on an entry that holds no status.
THEOREM TypeCorrect == Spec => []TypeOK
<1> QED BY TypeInit, TypeStep, PTL DEF Spec

-----------------------------------------------------------------------------
(* The decisions.  A status that is not red was read when the quota was not  *)
(* full, so the quota was last free at that time or later; and no decision   *)
(* rests on a status read longer ago than a request can take and the cache   *)
(* keeps it.                                                                 *)

FaithfulTo(st, free, tight) ==
  /\ st.threshold # "red" => st.readAt <= free[st.scope]
  /\ st.threshold = "red" => st.readAt <= tight[st.scope]

Faithful(st) == FaithfulTo(st, lastFree, lastTight)

HistoriesAreCurrent ==
  \A s \in Scopes :
    /\ ~Full(s, used) => lastFree[s] = now
    /\ ~Roomy(s, used) => lastTight[s] = now

CacheIsRecent ==
  \A k \in Keys : cache[k] # Nothing =>
    /\ Faithful(cache[k].status)
    /\ cache[k].timestamp <= cache[k].status.readAt + HttpTimeout

ChecksAreRecent ==
  \A c \in Callers :
    /\ check[c].pc = "fetching" =>
         /\ now <= check[c].sentAt + HttpTimeout
         /\ check[c].sentAt <= now
    /\ check[c].pc = "fetched" =>
         /\ Faithful(check[c].status)
         /\ now <= check[c].sentAt + HttpTimeout
         /\ check[c].sentAt <= check[c].status.readAt

DecisionIsRecent ==
  decision # Nothing =>
    /\ Faithful(decision.status)
    /\ decision.allowed <=> decision.status.threshold # "red"
    /\ now - decision.status.readAt <= CacheTtl + HttpTimeout

IInv ==
  /\ TypeOK
  /\ HistoriesAreCurrent
  /\ CacheIsRecent
  /\ ChecksAreRecent
  /\ DecisionIsRecent

\* A status is faithful when it is read.
LEMMA FreshStatusIsFaithful ==
  ASSUME Red = 100, TypeOK, HistoriesAreCurrent, NEW s \in Scopes
  PROVE  Faithful(Status(s, used[s], limit[s], now))
<1>1. used[s] \in Nat /\ limit[s] \in Nat \cup {Infinity}
  BY QuotaConstants DEF TypeOK
<1> DEFINE p == Percentage(used[s], limit[s])
<1>2. p \in Nat /\ (Full(s, used) => p >= 100) /\ (Roomy(s, used) => p < 100)
  BY <1>1, PercentageBounds DEF Full, Roomy
<1> HIDE DEF p
<1>3. ThresholdLevel(p) = "red" <=> p >= 100
  BY <1>2 DEF ThresholdLevel
<1>4. now \in Nat /\ lastFree[s] \in Nat /\ lastTight[s] \in Nat
  BY DEF TypeOK
<1>5. ThresholdLevel(p) # "red" => now <= lastFree[s]
  BY <1>2, <1>3, <1>4 DEF HistoriesAreCurrent
<1>6. ThresholdLevel(p) = "red" => now <= lastTight[s]
  BY <1>2, <1>3, <1>4 DEF HistoriesAreCurrent
<1> QED BY <1>5, <1>6 DEF Status, Faithful, FaithfulTo, p

\* It stays faithful, since the histories only move forward.
LEMMA FaithfulnessLasts ==
  ASSUME TypeOK, TypeOK', NEW st \in StatusType, Faithful(st),
         \A s \in Scopes : lastFree[s] <= lastFree'[s] /\ lastTight[s] <= lastTight'[s]
  PROVE  FaithfulTo(st, lastFree', lastTight')
<1>1. st.scope \in Scopes /\ st.readAt \in Nat
  BY DEF StatusType
<1>2. /\ lastFree[st.scope] \in Nat /\ lastFree'[st.scope] \in Nat
      /\ lastTight[st.scope] \in Nat /\ lastTight'[st.scope] \in Nat
  BY <1>1 DEF TypeOK
<1> QED BY <1>1, <1>2 DEF Faithful, FaithfulTo

LEMMA RememberKeeps ==
  ASSUME IInv, NEW t \in Nat, NEW u \in [Scopes -> Usages], Remember(t, u),
         now <= t, now' = t, limit' = limit
  PROVE  /\ HistoriesAreCurrent'
         /\ \A s \in Scopes : lastFree[s] <= lastFree'[s] /\ lastTight[s] <= lastTight'[s]
<1>1. HistoriesAreCurrent'
  BY DEF Remember, HistoriesAreCurrent, Full, Roomy
<1>2. \A s \in Scopes : lastFree[s] <= lastFree'[s] /\ lastTight[s] <= lastTight'[s]
  <2>1. TAKE s \in Scopes
  <2>2. lastFree[s] \in 0 .. now /\ lastTight[s] \in 0 .. now /\ now \in Nat
    BY DEF IInv, TypeOK
  <2> QED BY <2>2 DEF Remember
<1> QED BY <1>1, <1>2

HistoriesGrow ==
  \A s \in Scopes : lastFree[s] <= lastFree'[s] /\ lastTight[s] <= lastTight'[s]

\* What a step leaves of the cache and of the checks keeps its part of IInv.
LEMMA CacheStays ==
  ASSUME IInv, TypeOK', HistoriesGrow, NEW k \in Keys, cache'[k] = cache[k],
         cache'[k] # Nothing
  PROVE  /\ Faithful(cache[k].status)'
         /\ cache'[k].timestamp <= cache'[k].status.readAt + HttpTimeout
<1>1. cache[k].status \in StatusType
  BY DEF IInv, TypeOK
<1>2. FaithfulTo(cache[k].status, lastFree', lastTight')
  BY <1>1, FaithfulnessLasts DEF IInv, CacheIsRecent, HistoriesGrow
<1> QED BY <1>2 DEF IInv, CacheIsRecent, Faithful

LEMMA CheckStays ==
  ASSUME IInv, TypeOK', HistoriesGrow, NEW c \in Callers, check'[c] = check[c],
         check[c].pc \in {"fetching", "fetched"} => now' <= check[c].sentAt + HttpTimeout,
         now <= now'
  PROVE  /\ check'[c].pc = "fetching" =>
              /\ now' <= check'[c].sentAt + HttpTimeout
              /\ check'[c].sentAt <= now'
         /\ check'[c].pc = "fetched" =>
              /\ Faithful(check[c].status)'
              /\ now' <= check'[c].sentAt + HttpTimeout
              /\ check'[c].sentAt <= check'[c].status.readAt
<1>1. CASE check[c].pc = "fetched"
  <2>1. check[c] \in FetchedType
    BY <1>1 DEF IInv, TypeOK, Idle, FetchType
  <2>2. check[c].status \in StatusType
    BY <2>1 DEF FetchedType
  <2>3. FaithfulTo(check[c].status, lastFree', lastTight')
    BY <1>1, <2>2, FaithfulnessLasts DEF IInv, ChecksAreRecent, HistoriesGrow
  <2> QED BY <1>1, <2>3 DEF IInv, ChecksAreRecent, Faithful
<1>2. CASE check[c].pc = "fetching"
  <2>1. check[c] \in FetchType
    BY <1>2 DEF IInv, TypeOK, Idle, FetchedType
  <2>2. check[c].sentAt \in Nat /\ now \in Nat /\ now' \in Nat
    BY <2>1 DEF FetchType, IInv, TypeOK
  <2> QED BY <1>2, <2>2 DEF IInv, ChecksAreRecent
<1>3. CASE check[c].pc \notin {"fetching", "fetched"}
  BY <1>3
<1> QED BY <1>1, <1>2, <1>3

\* A step that moves neither the clock nor the usages.
Still == UNCHANGED <<now, used, limit, lastFree, lastTight>>

LEMMA StillKeeps ==
  ASSUME IInv, Still
  PROVE  HistoriesAreCurrent' /\ HistoriesGrow /\ now <= now'
<1>1. HistoriesAreCurrent'
  BY DEF IInv, Still, HistoriesAreCurrent, Full, Roomy
<1>2. HistoriesGrow
  BY DEF IInv, TypeOK, Still, HistoriesGrow
<1>3. now <= now'
  BY DEF IInv, TypeOK, Still
<1> QED BY <1>1, <1>2, <1>3

\* In time, and with its check not over, a check that stays is as it was.
LEMMA InTime ==
  ASSUME IInv, NEW c \in Callers, check[c].pc \in {"fetching", "fetched"}
  PROVE  now <= check[c].sentAt + HttpTimeout
  BY DEF IInv, ChecksAreRecent

LEMMA ConcludeIsRecent ==
  ASSUME IInv, Still, NEW c \in Callers, NEW t \in Tenants, NEW k \in Keys,
         NEW purpose \in {"create", "status"}, NEW st \in StatusType,
         Conclude(c, purpose, t, k, st), Faithful(st),
         now - st.readAt <= CacheTtl + HttpTimeout
  PROVE  DecisionIsRecent'
<1>1. decision'.allowed = (st.threshold # "red") /\ decision'.status = st
  BY DEF Conclude
<1> QED BY <1>1 DEF DecisionIsRecent, Faithful, Still

LEMMA Step ==
  ASSUME Red = 100, IInv, [Next]_vars
  PROVE  IInv'
<1> USE QuotaConstants
<1>1. TypeOK'
  BY TypeStep DEF IInv
<1>2. CASE UNCHANGED vars
  BY <1>2 DEF vars, IInv, TypeOK, HistoriesAreCurrent, CacheIsRecent,
              ChecksAreRecent, DecisionIsRecent, Faithful, FaithfulTo, Full, Roomy
<1>3. ASSUME NEW c \in Callers, NEW purpose \in {"create", "status"},
             NEW k \in Keys, CheckHits(c, purpose, k)
      PROVE  IInv'
  <2>1. Still
    BY <1>3 DEF CheckHits, Still
  <2>2. HistoriesAreCurrent' /\ HistoriesGrow /\ now <= now'
    BY <2>1, StillKeeps
  <2>3. CacheIsRecent'
    BY <1>1, <1>3, <2>2, CacheStays DEF CheckHits, CacheIsRecent
  <2>4. \A d \in Callers : d = c \/ check'[d] = check[d]
    BY <1>3 DEF CheckHits, Conclude, Become, IInv, TypeOK
  <2>5. check'[c].pc \notin {"fetching", "fetched"}
    BY <1>3 DEF CheckHits, Conclude, Become, IInv, TypeOK, Idle
  <2>6. ChecksAreRecent'
    BY <1>1, <2>1, <2>2, <2>4, <2>5, CheckStays, InTime DEF ChecksAreRecent, Still
  <2>7. /\ cache[k].status \in StatusType
        /\ cache[k].timestamp \in Nat /\ cache[k].status.readAt \in Nat /\ now \in Nat
    BY <1>3 DEF CheckHits, Cached, IInv, TypeOK, StatusType
  <2>8. /\ Faithful(cache[k].status)
        /\ now - cache[k].status.readAt <= CacheTtl + HttpTimeout
    BY <1>3, <2>7 DEF CheckHits, Cached, IInv, CacheIsRecent
  <2>9. DecisionIsRecent'
    <3>1. active \in Tenants /\ Conclude(c, purpose, active, k, cache[k].status)
      BY <1>3 DEF CheckHits, IInv, TypeOK
    <3> QED BY <2>1, <2>7, <2>8, <3>1, ConcludeIsRecent
  <2> QED BY <1>1, <2>2, <2>3, <2>6, <2>9 DEF IInv
<1>4. ASSUME NEW c \in Callers, NEW purpose \in {"create", "status"},
             NEW k \in Keys, CheckMisses(c, purpose, k)
      PROVE  IInv'
  <2>1. Still
    BY <1>4 DEF CheckMisses, Still
  <2>2. HistoriesAreCurrent' /\ HistoriesGrow /\ now <= now'
    BY <2>1, StillKeeps
  <2>3. \A j \in Keys : cache'[j] = Nothing \/ cache'[j] = cache[j]
    BY <1>4 DEF CheckMisses, IInv, TypeOK
  <2>4. CacheIsRecent'
    BY <1>1, <2>2, <2>3, CacheStays DEF CacheIsRecent
  <2>5. \A d \in Callers : d = c \/ check'[d] = check[d]
    BY <1>4 DEF CheckMisses, Become, IInv, TypeOK
  <2>6. check'[c].pc = "fetching" /\ check'[c].sentAt = now
    BY <1>4 DEF CheckMisses, Become, IInv, TypeOK
  <2>7. now' <= check'[c].sentAt + HttpTimeout /\ check'[c].sentAt <= now'
    BY <2>1, <2>6 DEF Still, IInv, TypeOK
  <2>8. ChecksAreRecent'
    BY <1>1, <2>1, <2>2, <2>5, <2>6, <2>7, CheckStays, InTime
       DEF ChecksAreRecent, Still
  <2>9. DecisionIsRecent'
    BY <1>4 DEF CheckMisses, NoDecision, DecisionIsRecent
  <2> QED BY <1>1, <2>2, <2>4, <2>8, <2>9 DEF IInv
<1>5. ASSUME NEW c \in Callers, ApiReads(c) PROVE IInv'
  <2>1. Still
    BY <1>5 DEF ApiReads, Still
  <2>2. HistoriesAreCurrent' /\ HistoriesGrow /\ now <= now'
    BY <2>1, StillKeeps
  <2>3. CacheIsRecent'
    BY <1>1, <1>5, <2>2, CacheStays DEF ApiReads, CacheIsRecent
  <2>4. \A d \in Callers : d = c \/ check'[d] = check[d]
    BY <1>5 DEF ApiReads, Become, IInv, TypeOK
  <2>5. check[c] \in FetchType
    BY <1>5 DEF ApiReads, IInv, TypeOK, Idle, FetchedType
  <2> DEFINE s == ScopeOf(check[c].tenant, check[c].key)
             st == Status(s, used[s], limit[s], now)
  <2>6. s \in Scopes
    BY <2>5, ScopeType DEF FetchType
  <2>7. Faithful(st)
    BY <2>6, FreshStatusIsFaithful DEF IInv
  <2>8. st.readAt = now
    BY DEF Status
  <2>9. /\ check'[c].pc = "fetched" /\ check'[c].status = st
        /\ check'[c].sentAt = check[c].sentAt
    BY <1>5 DEF ApiReads, Become, IInv, TypeOK
  <2> HIDE DEF st, s
  <2>10. now <= check[c].sentAt + HttpTimeout
    BY <1>5, InTime DEF ApiReads
  <2>11. check[c].sentAt <= now
    BY <1>5 DEF ApiReads, IInv, ChecksAreRecent
  <2>12. ChecksAreRecent'
    BY <1>1, <2>1, <2>2, <2>4, <2>7, <2>8, <2>9, <2>10, <2>11, CheckStays, InTime
       DEF ChecksAreRecent, Still, Faithful
  <2>13. DecisionIsRecent'
    BY <1>5 DEF ApiReads, NoDecision, DecisionIsRecent
  <2> QED BY <1>1, <2>2, <2>3, <2>12, <2>13 DEF IInv
<1>6. ASSUME NEW c \in Callers, FetchArrives(c) PROVE IInv'
  <2>1. Still
    BY <1>6 DEF FetchArrives, Still
  <2>2. HistoriesAreCurrent' /\ HistoriesGrow /\ now <= now'
    BY <2>1, StillKeeps
  <2>3. check[c] \in FetchedType
    BY <1>6 DEF FetchArrives, IInv, TypeOK, Idle, FetchType
  <2> DEFINE st == check[c].status
             key == check[c].key
  <2>4. /\ check[c].tenant \in Tenants /\ key \in Keys
        /\ check[c].purpose \in {"create", "status"}
        /\ check[c].sentAt \in Nat /\ st \in StatusType
    BY <2>3 DEF FetchedType
  <2>5. /\ Faithful(st)
        /\ now <= check[c].sentAt + HttpTimeout
        /\ check[c].sentAt <= st.readAt
    BY <1>6 DEF FetchArrives, IInv, ChecksAreRecent
  <2>6. st.readAt \in Nat /\ now \in Nat
    BY <2>4 DEF StatusType, IInv, TypeOK
  <2>7. \A j \in Keys : cache'[j] =
          IF j = key THEN [status |-> st, timestamp |-> now] ELSE cache[j]
    BY <1>6 DEF FetchArrives, IInv, TypeOK
  <2>8. Conclude(c, check[c].purpose, check[c].tenant, key, st)
    BY <1>6 DEF FetchArrives
  <2>9. \A d \in Callers : d = c \/ check'[d] = check[d]
    BY <2>8 DEF Conclude, Become, IInv, TypeOK
  <2>10. check'[c].pc \notin {"fetching", "fetched"}
    BY <2>8 DEF Conclude, Become, IInv, TypeOK, Idle
  <2>11. now - st.readAt <= CacheTtl + HttpTimeout
    BY <2>4, <2>5, <2>6
  <2>12. DecisionIsRecent'
    BY <2>1, <2>4, <2>5, <2>8, <2>11, ConcludeIsRecent
  <2>13. now <= st.readAt + HttpTimeout
    BY <2>4, <2>5, <2>6
  <2> HIDE DEF st, key
  <2>14. CacheIsRecent'
    <3>1. SUFFICES ASSUME NEW j \in Keys, cache'[j] # Nothing
                   PROVE  /\ Faithful(cache[j].status)'
                          /\ cache'[j].timestamp <= cache'[j].status.readAt + HttpTimeout
      BY DEF CacheIsRecent
    <3>2. CASE j = key
      BY <2>1, <2>5, <2>7, <2>13, <3>2 DEF Faithful, Still
    <3>3. CASE j # key
      BY <1>1, <2>2, <2>7, <3>1, <3>3, CacheStays
    <3> QED BY <3>2, <3>3
  <2>15. ChecksAreRecent'
    BY <1>1, <2>1, <2>2, <2>9, <2>10, CheckStays, InTime DEF ChecksAreRecent, Still
  <2> QED BY <1>1, <2>2, <2>12, <2>14, <2>15 DEF IInv
<1>7. ASSUME NEW c \in Callers, FetchFails(c) PROVE IInv'
  <2>1. Still
    BY <1>7 DEF FetchFails, Still
  <2>2. HistoriesAreCurrent' /\ HistoriesGrow /\ now <= now'
    BY <2>1, StillKeeps
  <2>3. CacheIsRecent'
    BY <1>1, <1>7, <2>2, CacheStays DEF FetchFails, CacheIsRecent
  <2>4. \A d \in Callers : d = c \/ check'[d] = check[d]
    BY <1>7 DEF FetchFails, Become, IInv, TypeOK
  <2>5. check'[c].pc \notin {"fetching", "fetched"}
    BY <1>7 DEF FetchFails, Become, IInv, TypeOK, Idle
  <2>6. ChecksAreRecent'
    BY <1>1, <2>1, <2>2, <2>4, <2>5, CheckStays, InTime DEF ChecksAreRecent, Still
  <2>7. DecisionIsRecent'
    BY <1>7 DEF FetchFails, NoDecision, DecisionIsRecent
  <2> QED BY <1>1, <2>2, <2>3, <2>6, <2>7 DEF IInv
<1>8. ASSUME NEW c \in Callers, CreateEnds(c) PROVE IInv'
  <2>1. HistoriesAreCurrent' /\ HistoriesGrow /\ now <= now'
    <3>1. CASE UNCHANGED <<used, lastFree, lastTight>>
      <4>1. Still
        BY <1>8, <3>1 DEF CreateEnds, Still
      <4> QED BY <4>1, StillKeeps
    <3>2. CASE /\ used[check[c].scope] + 1 \in Usages
               /\ Remember(now, [used EXCEPT ![check[c].scope] = @ + 1])
      <4>1. check[c].scope \in Scopes
        BY <1>8 DEF CreateEnds, IInv, TypeOK, Idle, FetchType, FetchedType
      <4>2. [used EXCEPT ![check[c].scope] = @ + 1] \in [Scopes -> Usages]
        BY <3>2, <4>1 DEF IInv, TypeOK
      <4>3. now \in Nat /\ now <= now /\ now' = now /\ limit' = limit
        BY <1>8 DEF CreateEnds, IInv, TypeOK
      <4> QED BY <3>2, <4>2, <4>3, RememberKeeps DEF HistoriesGrow
    <3> QED BY <1>8, <3>1, <3>2 DEF CreateEnds
  <2>2. now' = now
    BY <1>8 DEF CreateEnds
  <2>3. CacheIsRecent'
    BY <1>1, <1>8, <2>1, CacheStays DEF CreateEnds, CacheIsRecent
  <2>4. \A d \in Callers : d = c \/ check'[d] = check[d]
    BY <1>8 DEF CreateEnds, Become, IInv, TypeOK
  <2>5. check'[c].pc \notin {"fetching", "fetched"}
    BY <1>8 DEF CreateEnds, Become, IInv, TypeOK, Idle
  <2>6. ChecksAreRecent'
    BY <1>1, <2>1, <2>2, <2>4, <2>5, CheckStays, InTime DEF ChecksAreRecent
  <2>7. DecisionIsRecent'
    BY <1>8 DEF CreateEnds, NoDecision, DecisionIsRecent
  <2> QED BY <1>1, <2>1, <2>3, <2>6, <2>7 DEF IInv
<1>9. ASSUME NEW nss \in SUBSET Namespaces, Clear(nss) PROVE IInv'
  <2>1. Still /\ check' = check
    BY <1>9 DEF Clear, Still
  <2>2. HistoriesAreCurrent' /\ HistoriesGrow /\ now <= now'
    BY <2>1, StillKeeps
  <2>3. \A j \in Keys : cache'[j] = Nothing \/ cache'[j] = cache[j]
    BY <1>9 DEF Clear
  <2>4. CacheIsRecent'
    BY <1>1, <2>2, <2>3, CacheStays DEF CacheIsRecent
  <2>5. ChecksAreRecent'
    BY <1>1, <2>1, <2>2, CheckStays, InTime DEF ChecksAreRecent, Still
  <2>6. DecisionIsRecent'
    BY <1>9 DEF Clear, NoDecision, DecisionIsRecent
  <2> QED BY <1>1, <2>2, <2>4, <2>5, <2>6 DEF IInv
<1>10. ASSUME NEW t \in Tenants, SwitchSession(t) PROVE IInv'
  <2>1. Still /\ check' = check /\ cache' = cache
    BY <1>10 DEF SwitchSession, Still
  <2>2. HistoriesAreCurrent' /\ HistoriesGrow /\ now <= now'
    BY <2>1, StillKeeps
  <2>3. CacheIsRecent'
    BY <1>1, <2>1, <2>2, CacheStays DEF CacheIsRecent
  <2>4. ChecksAreRecent'
    BY <1>1, <2>1, <2>2, CheckStays, InTime DEF ChecksAreRecent, Still
  <2>5. DecisionIsRecent'
    BY <1>10 DEF SwitchSession, NoDecision, DecisionIsRecent
  <2> QED BY <1>1, <2>2, <2>3, <2>4, <2>5 DEF IInv
<1>11. ASSUME NEW s \in Scopes, NEW n \in Usages, UsageChanges(s, n) PROVE IInv'
  <2>1. now' = now /\ check' = check /\ cache' = cache /\ limit' = limit
    BY <1>11 DEF UsageChanges
  <2>2. HistoriesAreCurrent' /\ HistoriesGrow /\ now <= now'
    <3>1. [used EXCEPT ![s] = n] \in [Scopes -> Usages]
      BY DEF IInv, TypeOK
    <3>2. now \in Nat /\ now <= now
      BY DEF IInv, TypeOK
    <3>3. Remember(now, [used EXCEPT ![s] = n])
      BY <1>11 DEF UsageChanges
    <3> QED BY <2>1, <3>1, <3>2, <3>3, RememberKeeps DEF HistoriesGrow
  <2>3. CacheIsRecent'
    BY <1>1, <2>1, <2>2, CacheStays DEF CacheIsRecent
  <2>4. ChecksAreRecent'
    BY <1>1, <2>1, <2>2, CheckStays, InTime DEF ChecksAreRecent
  <2>5. DecisionIsRecent'
    BY <1>11 DEF UsageChanges, NoDecision, DecisionIsRecent
  <2> QED BY <1>1, <2>2, <2>3, <2>4, <2>5 DEF IInv
<1>12. ASSUME Tick PROVE IInv'
  <2>1. now' = now + 1 /\ check' = check /\ cache' = cache /\ limit' = limit
    BY <1>12 DEF Tick
  <2>2. now \in Nat /\ now' \in Nat /\ now <= now'
    BY <2>1 DEF IInv, TypeOK
  <2>3. HistoriesAreCurrent' /\ HistoriesGrow
    <3>1. used \in [Scopes -> Usages] /\ Remember(now', used)
      BY <1>12, <2>1 DEF Tick, IInv, TypeOK
    <3> QED BY <2>1, <2>2, <3>1, RememberKeeps DEF HistoriesGrow
  <2>4. CacheIsRecent'
    BY <1>1, <2>1, <2>3, CacheStays DEF CacheIsRecent
  <2>5. ASSUME NEW c \in Callers, check[c].pc \in {"fetching", "fetched"}
        PROVE  now' <= check[c].sentAt + HttpTimeout
    <3>1. check[c].sentAt \in Nat
      BY <2>5 DEF IInv, TypeOK, Idle, FetchType, FetchedType
    <3> QED BY <1>12, <2>1, <2>2, <2>5, <3>1 DEF Tick
  <2>6. ChecksAreRecent'
    BY <1>1, <2>1, <2>2, <2>3, <2>5, CheckStays DEF ChecksAreRecent
  <2>7. DecisionIsRecent'
    BY <1>12 DEF Tick, NoDecision, DecisionIsRecent
  <2> QED BY <1>1, <2>3, <2>4, <2>6, <2>7 DEF IInv
<1> QED
  BY <1>2, <1>3, <1>4, <1>5, <1>6, <1>7, <1>8, <1>9, <1>10, <1>11, <1>12 DEF Next

LEMMA Start == Init => IInv
<1> SUFFICES ASSUME Init PROVE IInv
  OBVIOUS
<1>1. TypeOK
  BY TypeInit
<1>2. HistoriesAreCurrent
  BY DEF Init, HistoriesAreCurrent
<1>3. CacheIsRecent /\ DecisionIsRecent
  BY DEF Init, CacheIsRecent, DecisionIsRecent
<1>4. ChecksAreRecent
  BY DEF Init, ChecksAreRecent, Idle
<1> QED BY <1>1, <1>2, <1>3, <1>4 DEF IInv

\* Neither wrong answer outlives the freshness of the status it rests on.
LEMMA Decisions == IInv => FullQuotaBlocks /\ RoomyQuotaAllows
<1> SUFFICES ASSUME IInv, NEW s \in Scopes, Decides(s)
             PROVE  /\ decision.allowed => now - lastFree[s] <= CacheTtl + HttpTimeout
                    /\ ~decision.allowed => now - lastTight[s] <= CacheTtl + HttpTimeout
  BY DEF FullQuotaBlocks, RoomyQuotaAllows
<1> DEFINE st == decision.status
<1>1. st \in StatusType /\ st.scope = s
  BY DEF Decides, IInv, TypeOK
<1>2. /\ st.readAt \in Nat /\ now \in Nat
      /\ lastFree[s] \in Nat /\ lastTight[s] \in Nat
  BY <1>1 DEF StatusType, IInv, TypeOK
<1>3. now - st.readAt <= CacheTtl + HttpTimeout
  BY DEF Decides, IInv, DecisionIsRecent
<1>4. /\ decision.allowed => st.readAt <= lastFree[s]
      /\ ~decision.allowed => st.readAt <= lastTight[s]
  BY <1>1 DEF Decides, IInv, DecisionIsRecent, Faithful, FaithfulTo
<1>5. CacheTtl + HttpTimeout \in Nat
  BY QuotaConstants
<1> HIDE DEF st
<1> QED BY <1>2, <1>3, <1>4, <1>5

\* With the default red threshold, and for any number of checks, tenants, creates
\* and clears in any order: a decision that lets a create go ahead is never about a
\* quota that has been used up for longer than the cache keeps a status and a
\* request can take.
THEOREM FullQuotaIsBlocked ==
  ASSUME Red = 100
  PROVE  Spec => []FullQuotaBlocks
<1>1. Init => IInv
  BY Start
<1>2. IInv /\ [Next]_vars => IInv'
  BY Step
<1>3. IInv => FullQuotaBlocks
  BY Decisions
<1> QED BY <1>1, <1>2, <1>3, PTL DEF Spec

\* And a decision that blocks a create, or shows the quota as red, is never about
\* one that has been clearly below its limit for that long.
THEOREM RoomyQuotaIsAllowed ==
  ASSUME Red = 100
  PROVE  Spec => []RoomyQuotaAllows
<1>1. Init => IInv
  BY Start
<1>2. IInv /\ [Next]_vars => IInv'
  BY Step
<1>3. IInv => RoomyQuotaAllows
  BY Decisions
<1> QED BY <1>1, <1>2, <1>3, PTL DEF Spec

-----------------------------------------------------------------------------
(* Changes of tenant *)

SwitchIsPast == lastSwitch \in 0 .. now

\* A request under way is one of the tenant whose credentials are loaded, or was sent
\* before the last switch; and it is not older than the HTTP client lets it be.
FetchesAreOwn ==
  \A c \in Callers : check[c].pc \in {"fetching", "fetched"} =>
    /\ check[c].sentAt <= now
    /\ now <= check[c].sentAt + HttpTimeout
    /\ check[c].tenant = active \/ check[c].sentAt <= lastSwitch
    /\ check[c].pc = "fetched" =>
         check[c].status.scope = ScopeOf(check[c].tenant, check[c].key)

\* A status in the cache is one of that tenant, or came soon after the last switch.
EntriesAreOwn ==
  \A k \in Keys : cache[k] # Nothing =>
    /\ cache[k].timestamp <= now
    /\ \/ cache[k].status.scope = ScopeOf(active, k)
       \/ cache[k].timestamp <= lastSwitch + HttpTimeout

TenantInv ==
  /\ TypeOK
  /\ SwitchIsPast
  /\ FetchesAreOwn
  /\ EntriesAreOwn
  /\ OwnTenantDecides

LEMMA FetchingOrFetched ==
  ASSUME TypeOK, NEW c \in Callers
  PROVE  /\ check[c].pc = "fetching" => check[c] \in FetchType
         /\ check[c].pc = "fetched" => check[c] \in FetchedType
         /\ check[c].pc \in {"fetching", "fetched"} =>
              /\ check[c].sentAt \in Nat /\ check[c].tenant \in Tenants
              /\ check[c].key \in Keys
  BY DEF TypeOK, Idle, FetchType, FetchedType

LEMMA TenantInitOK == TenantInit => TenantInv
<1> SUFFICES ASSUME TenantInit PROVE TenantInv
  OBVIOUS
<1>1. TypeOK
  BY TypeInit DEF TenantInit
<1> QED BY <1>1 DEF TenantInit, Init, TenantInv, SwitchIsPast, FetchesAreOwn,
                    EntriesAreOwn, OwnTenantDecides, Idle

\* A step that decides nothing and switches no tenant and leaves the clock, the cache
\* and the requests under way.
LEMMA QuietStep ==
  ASSUME TenantInv, TypeOK', Note, NoDecision, active' = active, now' = now,
         \A k \in Keys : cache'[k] # Nothing => cache'[k] = cache[k],
         \A c \in Callers : check'[c].pc \in {"fetching", "fetched"} =>
                              check'[c] = check[c]
  PROVE  TenantInv'
<1>1. lastSwitch' = lastSwitch
  BY DEF Note
<1>2. SwitchIsPast'
  BY <1>1 DEF TenantInv, SwitchIsPast
<1>3. FetchesAreOwn'
  BY <1>1 DEF TenantInv, FetchesAreOwn
<1>4. EntriesAreOwn'
  BY <1>1 DEF TenantInv, EntriesAreOwn
<1>5. OwnTenantDecides'
  BY DEF NoDecision, OwnTenantDecides
<1> QED BY <1>2, <1>3, <1>4, <1>5 DEF TenantInv

LEMMA TenantStep == TenantInv /\ [TenantNext]_tenantVars => TenantInv'
<1> SUFFICES ASSUME TenantInv, [TenantNext]_tenantVars PROVE TenantInv'
  OBVIOUS
<1> USE QuotaConstants
<1>1. [Next]_vars
  BY DEF TenantNext, tenantVars
<1>2. TypeOK'
  BY <1>1, TypeStep DEF TenantInv
<1>3. CASE UNCHANGED tenantVars
  BY <1>2, <1>3 DEF tenantVars, vars, TenantInv, SwitchIsPast, FetchesAreOwn,
                    EntriesAreOwn, OwnTenantDecides
<1>4. ASSUME Note, NEW c \in Callers, NEW purpose \in {"create", "status"},
             NEW k \in Keys, CheckHits(c, purpose, k)
      PROVE  TenantInv'
  <2>1. lastSwitch' = lastSwitch /\ now' = now /\ active' = active /\ cache' = cache
    BY <1>4 DEF Note, CheckHits
  <2>2. \A d \in Callers : d = c \/ check'[d] = check[d]
    BY <1>4 DEF CheckHits, Conclude, Become, TenantInv, TypeOK
  <2>3. check'[c].pc \notin {"fetching", "fetched"}
    BY <1>4 DEF CheckHits, Conclude, Become, TenantInv, TypeOK, Idle
  <2>4. FetchesAreOwn'
    BY <2>1, <2>2, <2>3 DEF TenantInv, FetchesAreOwn
  <2>5. OwnTenantDecides'
    <3>1. /\ decision'.scope = ScopeOf(active, k)
          /\ decision'.status = cache[k].status
      BY <1>4 DEF CheckHits, Conclude
    <3>2. /\ cache[k] # Nothing /\ now - cache[k].timestamp <= CacheTtl
          /\ cache[k].timestamp \in Nat /\ now \in Nat /\ lastSwitch \in Nat
      BY <1>4 DEF CheckHits, Cached, TenantInv, TypeOK, SwitchIsPast
    <3>3. \/ cache[k].status.scope = ScopeOf(active, k)
          \/ cache[k].timestamp <= lastSwitch + HttpTimeout
      BY <3>2 DEF TenantInv, EntriesAreOwn
    <3> QED BY <2>1, <3>1, <3>2, <3>3 DEF OwnTenantDecides
  <2> QED BY <1>2, <2>1, <2>4, <2>5 DEF TenantInv, SwitchIsPast, EntriesAreOwn
<1>5. ASSUME Note, NEW c \in Callers, NEW purpose \in {"create", "status"},
             NEW k \in Keys, CheckMisses(c, purpose, k)
      PROVE  TenantInv'
  <2>1. lastSwitch' = lastSwitch /\ now' = now /\ active' = active /\ now \in Nat
    BY <1>5 DEF Note, CheckMisses, TenantInv, TypeOK
  <2>2. \A d \in Callers : d = c \/ check'[d] = check[d]
    BY <1>5 DEF CheckMisses, Become, TenantInv, TypeOK
  <2>3. /\ check'[c].pc = "fetching" /\ check'[c].tenant = active
        /\ check'[c].sentAt = now
    BY <1>5 DEF CheckMisses, Become, TenantInv, TypeOK
  <2>4. FetchesAreOwn'
    BY <2>1, <2>2, <2>3 DEF TenantInv, FetchesAreOwn
  <2>5. EntriesAreOwn'
    <3>1. \A j \in Keys : cache'[j] # Nothing => cache'[j] = cache[j]
      BY <1>5 DEF CheckMisses, TenantInv, TypeOK
    <3> QED BY <2>1, <3>1 DEF TenantInv, EntriesAreOwn
  <2>6. OwnTenantDecides'
    BY <1>5 DEF CheckMisses, NoDecision, OwnTenantDecides
  <2> QED BY <1>2, <2>1, <2>4, <2>5, <2>6 DEF TenantInv, SwitchIsPast
<1>6. ASSUME Note, NEW c \in Callers, ApiReads(c) PROVE TenantInv'
  <2>1. lastSwitch' = lastSwitch /\ now' = now /\ active' = active /\ cache' = cache
    BY <1>6 DEF Note, ApiReads
  <2>2. \A d \in Callers : d = c \/ check'[d] = check[d]
    BY <1>6 DEF ApiReads, Become, TenantInv, TypeOK
  <2>3. /\ check[c].pc = "fetching" /\ check'[c].pc = "fetched"
        /\ check'[c].tenant = check[c].tenant /\ check'[c].sentAt = check[c].sentAt
        /\ check'[c].key = check[c].key
        /\ check'[c].status.scope = ScopeOf(check[c].tenant, check[c].key)
    BY <1>6 DEF ApiReads, Become, Status, TenantInv, TypeOK
  <2>4. FetchesAreOwn'
    BY <2>1, <2>2, <2>3 DEF TenantInv, FetchesAreOwn
  <2>5. OwnTenantDecides'
    BY <1>6 DEF ApiReads, NoDecision, OwnTenantDecides
  <2> QED BY <1>2, <2>1, <2>4, <2>5 DEF TenantInv, SwitchIsPast, EntriesAreOwn
<1>7. ASSUME Note, NEW c \in Callers, FetchArrives(c) PROVE TenantInv'
  <2> DEFINE k == check[c].key
  <2>1. lastSwitch' = lastSwitch /\ now' = now /\ active' = active
    BY <1>7 DEF Note, FetchArrives
  <2>2. \A d \in Callers : d = c \/ check'[d] = check[d]
    BY <1>7 DEF FetchArrives, Conclude, Become, TenantInv, TypeOK
  <2>3. check'[c].pc \notin {"fetching", "fetched"}
    BY <1>7 DEF FetchArrives, Conclude, Become, TenantInv, TypeOK, Idle
  <2>4. FetchesAreOwn'
    BY <2>1, <2>2, <2>3 DEF TenantInv, FetchesAreOwn
  <2>5. /\ check[c].status.scope = ScopeOf(check[c].tenant, k)
        /\ now <= check[c].sentAt + HttpTimeout
        /\ check[c].tenant = active \/ check[c].sentAt <= lastSwitch
        /\ check[c].sentAt \in Nat /\ k \in Keys
        /\ now \in Nat /\ lastSwitch \in Nat
    BY <1>7, FetchingOrFetched DEF FetchArrives, TenantInv, TypeOK, FetchesAreOwn,
       SwitchIsPast
  <2>6. /\ \A j \in Keys : j = k \/ cache'[j] = cache[j]
        /\ cache'[k].timestamp = now /\ cache'[k].status = check[c].status
    BY <1>7, <2>5 DEF FetchArrives, TenantInv, TypeOK
  <2>7. EntriesAreOwn'
    BY <2>1, <2>5, <2>6 DEF TenantInv, EntriesAreOwn, ScopeOf
  <2>8. OwnTenantDecides'
    <3>1. decision'.scope = decision'.status.scope
      BY <1>7, <2>5 DEF FetchArrives, Conclude
    <3> QED BY <3>1 DEF OwnTenantDecides
  <2> QED BY <1>2, <2>1, <2>4, <2>7, <2>8 DEF TenantInv, SwitchIsPast
<1>8. ASSUME Note, NEW c \in Callers, FetchFails(c) PROVE TenantInv'
  <2>1. \A d \in Callers : check'[d].pc \in {"fetching", "fetched"} =>
                             check'[d] = check[d]
    BY <1>8 DEF FetchFails, Become, Idle, TenantInv, TypeOK
  <2> QED BY <1>2, <1>8, <2>1, QuietStep DEF FetchFails
<1>9. ASSUME Note, NEW c \in Callers, CreateEnds(c) PROVE TenantInv'
  <2>1. \A d \in Callers : check'[d].pc \in {"fetching", "fetched"} =>
                             check'[d] = check[d]
    BY <1>9 DEF CreateEnds, Become, Idle, TenantInv, TypeOK
  <2> QED BY <1>2, <1>9, <2>1, QuietStep DEF CreateEnds
<1>10. ASSUME Note, NEW nss \in SUBSET Namespaces, Clear(nss) PROVE TenantInv'
  <2>1. \A k \in Keys : cache'[k] # Nothing => cache'[k] = cache[k]
    BY <1>10 DEF Clear
  <2> QED BY <1>2, <1>10, <2>1, QuietStep DEF Clear
<1>11. ASSUME Note, NEW t \in Tenants, SwitchSession(t) PROVE TenantInv'
  <2>1. CASE t = active
    BY <1>2, <1>11, <2>1, QuietStep DEF SwitchSession
  <2>2. CASE t # active
    <3>1. /\ lastSwitch' = now /\ now' = now /\ cache' = cache /\ check' = check
          /\ now \in Nat
      BY <1>11, <2>2 DEF Note, SwitchSession, TenantInv, TypeOK
    <3>2. FetchesAreOwn'
      BY <3>1 DEF TenantInv, FetchesAreOwn
    <3>3. \A k \in Keys : cache[k] # Nothing => cache[k].timestamp \in Nat
      BY DEF TenantInv, TypeOK
    <3>4. EntriesAreOwn'
      BY <3>1, <3>3 DEF TenantInv, EntriesAreOwn
    <3>5. OwnTenantDecides'
      BY <1>11 DEF SwitchSession, NoDecision, OwnTenantDecides
    <3> QED BY <1>2, <3>1, <3>2, <3>4, <3>5 DEF TenantInv, SwitchIsPast
  <2> QED BY <2>1, <2>2
<1>12. ASSUME Note, NEW s \in Scopes, NEW n \in Usages, UsageChanges(s, n)
       PROVE  TenantInv'
  BY <1>2, <1>12, QuietStep DEF UsageChanges
<1>13. ASSUME Note, Tick PROVE TenantInv'
  <2>1. /\ lastSwitch' = lastSwitch /\ active' = active /\ cache' = cache
        /\ check' = check /\ now' = now + 1 /\ now \in Nat
    BY <1>13 DEF Note, Tick, TenantInv, TypeOK
  <2>2. SwitchIsPast'
    BY <2>1 DEF TenantInv, SwitchIsPast
  <2>3. FetchesAreOwn'
    <3> SUFFICES ASSUME NEW c \in Callers, check[c].pc \in {"fetching", "fetched"}
                 PROVE  /\ check[c].sentAt <= now + 1
                        /\ now + 1 <= check[c].sentAt + HttpTimeout
      BY <2>1 DEF TenantInv, FetchesAreOwn
    <3>1. check[c].sentAt \in Nat
      BY FetchingOrFetched DEF TenantInv
    <3>2. now < check[c].sentAt + HttpTimeout
      BY <1>13 DEF Tick
    <3> QED BY <2>1, <3>1, <3>2 DEF TenantInv, FetchesAreOwn
  <2>4. \A k \in Keys : cache[k] # Nothing => cache[k].timestamp \in Nat
    BY DEF TenantInv, TypeOK
  <2>5. EntriesAreOwn'
    BY <2>1, <2>4 DEF TenantInv, EntriesAreOwn
  <2>6. OwnTenantDecides'
    BY <1>13 DEF Tick, NoDecision, OwnTenantDecides
  <2> QED BY <1>2, <2>2, <2>3, <2>5, <2>6 DEF TenantInv
<1> QED
  BY <1>3, <1>4, <1>5, <1>6, <1>7, <1>8, <1>9, <1>10, <1>11, <1>12, <1>13
     DEF TenantNext, Next

\* However checks, answers and switches of tenant interleave, the quota of a tenant
\* decides about the creates of another at most for a request and a time to live
\* after a switch, for any number of callers, tenants, namespaces and types.
THEOREM OwnTenantIsDecisive == TenantSpec => []OwnTenantDecides
<1>1. TenantInv => OwnTenantDecides
  BY DEF TenantInv
<1> QED BY <1>1, TenantInitOK, TenantStep, PTL DEF TenantSpec
=============================================================================
