----------------------------- MODULE QuotaService -----------------------------
(***************************************************************************)
(* The quota check before a create: class QuotaService of                  *)
(* src/src/services/quota-service.ts with quota-api-client.ts,             *)
(* quota-thresholds.ts and quota-resource-mapping.ts, and its use by       *)
(* executeTool() and by the quota tools of the server.                     *)
(*                                                                         *)
(* A check reads the cache and, on a miss, awaits the usage the API        *)
(* reports for the namespace; other checks, creates and clears of the      *)
(* cache run in between.  The usage itself is external: it moves with the  *)
(* creates this server lets through and with everything else done to the   *)
(* tenant.                                                                 *)
(*                                                                         *)
(* (A definition named Bug... is the one that follows it with a mistake in *)
(* it; no behaviour of the model uses it.)                                 *)
(***************************************************************************)
EXTENDS Integers

CONSTANTS
  Callers,      \* checks that can be in progress at once
  Tenants,      \* tenants whose credentials can be loaded
  Namespaces,
  Types,        \* the resource types tools are named for
  QuotaTypes,   \* the resource types the API counts
  QuotaTypeOf,  \* QUOTA_RESOURCE_MAP: several types may share a quota
  Usages,       \* the usages the API can report
  Limits,       \* the limits it can report
  Infinity,     \* no limit, or a type the API does not report
  Nothing,
  Yellow, Red,  \* F5XC_QUOTA_YELLOW_THRESHOLD, F5XC_QUOTA_RED_THRESHOLD
  CacheTtl,     \* F5XC_QUOTA_CACHE_TTL
  HttpTimeout,  \* how long the HTTP client waits for an answer
  MaxTime       \* bound on the clock

VARIABLES
  now,       \* Date.now()
  active,    \* the tenant whose credentials are loaded
  cache,     \* per namespace and type: the cached status
  check,     \* per caller: where its check, and the create after it, stand
  decision,  \* what the check that ended in the last step decided
  used,      \* external: per tenant, namespace and quota type
  limit,     \* external: likewise
  lastFree,  \* history: when the usage was last below the limit
  lastTight  \* history: when it was last not clearly below

vars == <<now, active, cache, check, decision, used, limit, lastFree, lastTight>>

Scopes == Tenants \X Namespaces \X QuotaTypes
Keys   == Namespaces \X Types

ScopeOf(t, k) == <<t, k[1], QuotaTypeOf[k[2]]>>

ASSUME QuotaConstants ==
  /\ QuotaTypeOf \in [Types -> QuotaTypes]
  /\ Usages \subseteq Nat /\ Limits \subseteq Nat \cup {Infinity}
  /\ Infinity \notin Nat
  /\ Yellow \in Nat /\ Red \in Nat
  /\ CacheTtl \in Nat /\ HttpTimeout \in Nat \ {0} /\ MaxTime \in Nat

-----------------------------------------------------------------------------
(* calculateQuotaInfo() *)

\* A limit of 0 counts as used up.
BugPercentage(current, max) ==
  IF max = Infinity THEN 0
  ELSE IF max = 0 THEN 100 ELSE (200 * current + max) \div (2 * max)

\* Math.round(current / limit * 100); a limit of 0 counts as no use at all.
Percentage(current, max) ==
  IF max = Infinity \/ max = 0 THEN 0
  ELSE (200 * current + max) \div (2 * max)

\* getThresholdLevel()
ThresholdLevel(percentage) ==
  IF percentage >= Red THEN "red"
  ELSE IF percentage >= Yellow THEN "yellow" ELSE "green"

\* What the service knows of a quota.  scope and readAt are history: whose usage
\* it is, and when the API read it.
Status(s, current, max, at) ==
  [threshold |-> ThresholdLevel(Percentage(current, max)),
   percentage |-> Percentage(current, max),
   scope |-> s, readAt |-> at]

-----------------------------------------------------------------------------
(* checkQuotaAvailability() and getQuotaStatus() *)

Idle == [pc |-> "idle"]

NoDecision == decision' = Nothing

Become(c, r) == check' = [check EXCEPT ![c] = r]

\* A cached entry is used while its age is at most the time to live.
Cached(k) == cache[k] # Nothing /\ now - cache[k].timestamp <= CacheTtl

\* The check for a create goes on to the create unless the status is red; the
\* status tool only shows it.
Conclude(c, purpose, t, k, status) ==
  LET allowed == status.threshold # "red" IN
  /\ decision' = [allowed |-> allowed, status |-> status, scope |-> ScopeOf(t, k)]
  /\ Become(c, IF purpose = "create" /\ allowed
                 THEN [pc |-> "creating", scope |-> ScopeOf(t, k)]
                 ELSE Idle)

\* A hit renews the entry.
BugCheckHits(c, purpose, k) ==
  /\ check[c].pc = "idle"
  /\ Cached(k)
  /\ Conclude(c, purpose, active, k, cache[k].status)
  /\ cache' = [cache EXCEPT ![k].timestamp = now]
  /\ UNCHANGED <<now, active, used, limit, lastFree, lastTight>>

CheckHits(c, purpose, k) ==
  /\ check[c].pc = "idle"
  /\ Cached(k)
  /\ Conclude(c, purpose, active, k, cache[k].status)
  /\ UNCHANGED <<now, active, cache, used, limit, lastFree, lastTight>>

\* An entry that is too old is deleted before the API is asked.
CheckMisses(c, purpose, k) ==
  /\ check[c].pc = "idle"
  /\ ~Cached(k)
  /\ Become(c, [pc |-> "fetching", purpose |-> purpose, tenant |-> active,
                key |-> k, sentAt |-> now])
  /\ cache' = [cache EXCEPT ![k] = Nothing]
  /\ NoDecision
  /\ UNCHANGED <<now, active, used, limit, lastFree, lastTight>>

\* External: the API reads the usage of the namespace.
ApiReads(c) ==
  /\ check[c].pc = "fetching"
  /\ LET s == ScopeOf(check[c].tenant, check[c].key) IN
     Become(c, [pc |-> "fetched", purpose |-> check[c].purpose,
                tenant |-> check[c].tenant, key |-> check[c].key,
                sentAt |-> check[c].sentAt,
                status |-> Status(s, used[s], limit[s], now)])
  /\ NoDecision
  /\ UNCHANGED <<now, active, cache, used, limit, lastFree, lastTight>>

\* The status is cached from the moment it arrives.
FetchArrives(c) ==
  /\ check[c].pc = "fetched"
  /\ cache' = [cache EXCEPT ![check[c].key] =
                 [status |-> check[c].status, timestamp |-> now]]
  /\ Conclude(c, check[c].purpose, check[c].tenant, check[c].key,
              check[c].status)
  /\ UNCHANGED <<now, active, used, limit, lastFree, lastTight>>

\* The failure is cached in place of a status.
BugFetchFails(c) ==
  /\ check[c].pc \in {"fetching", "fetched"}
  /\ cache' = [cache EXCEPT ![check[c].key] = [status |-> Nothing, timestamp |-> now]]
  /\ Become(c, Idle)
  /\ NoDecision
  /\ UNCHANGED <<now, active, used, limit, lastFree, lastTight>>

\* A failure never blocks a create: "proceeding without quota validation".  The
\* status tool reports it.
FetchFails(c) ==
  /\ check[c].pc \in {"fetching", "fetched"}
  /\ Become(c, IF check[c].purpose = "create"
                 THEN [pc |-> "creating",
                       scope |-> ScopeOf(check[c].tenant, check[c].key)]
                 ELSE Idle)
  /\ NoDecision
  /\ UNCHANGED <<now, active, cache, used, limit, lastFree, lastTight>>

\* f5xc-api-clear-quota-cache, for one namespace or for all.
Clear(nss) ==
  /\ cache' = [k \in Keys |-> IF k[1] \in nss THEN Nothing ELSE cache[k]]
  /\ NoDecision
  /\ UNCHANGED <<now, active, check, used, limit, lastFree, lastTight>>

SwitchSession(t) ==
  /\ active' = t
  /\ NoDecision
  /\ UNCHANGED <<now, cache, check, used, limit, lastFree, lastTight>>

-----------------------------------------------------------------------------
(* External: the usage, and time *)

Full(s, u)  == limit[s] # Infinity /\ limit[s] > 0 /\ u[s] >= limit[s]

\* Clearly below the limit: so far that rounding does not make it 100%.
Roomy(s, u) == limit[s] = Infinity \/ limit[s] = 0 \/ 200 * u[s] < 199 * limit[s]

\* Keeps the histories when the usages become u at time t.
Remember(t, u) ==
  /\ lastFree' = [s \in Scopes |->
       IF Full(s, used) /\ Full(s, u) THEN lastFree[s] ELSE t]
  /\ lastTight' = [s \in Scopes |->
       IF Roomy(s, used) /\ Roomy(s, u) THEN lastTight[s] ELSE t]
  /\ used' = u

\* The create that follows an allowed check, accepted or not by the API.
CreateEnds(c) ==
  /\ check[c].pc = "creating"
  /\ LET s == check[c].scope IN
     \/ /\ used[s] + 1 \in Usages
        /\ Remember(now, [used EXCEPT ![s] = @ + 1])
     \/ UNCHANGED <<used, lastFree, lastTight>>
  /\ Become(c, Idle)
  /\ NoDecision
  /\ UNCHANGED <<now, active, cache, limit>>

\* Others create and delete.
UsageChanges(s, n) ==
  /\ used[s] # n
  /\ Remember(now, [used EXCEPT ![s] = n])
  /\ NoDecision
  /\ UNCHANGED <<now, active, cache, check, limit>>

Tick ==
  /\ now < MaxTime
  /\ \A c \in Callers :
       check[c].pc \in {"fetching", "fetched"} => now < check[c].sentAt + HttpTimeout
  /\ now' = now + 1
  /\ Remember(now + 1, used)
  /\ NoDecision
  /\ UNCHANGED <<active, cache, check, limit>>

Init ==
  /\ now = 0
  /\ active \in Tenants
  /\ cache = [k \in Keys |-> Nothing]
  /\ check = [c \in Callers |-> Idle]
  /\ decision = Nothing
  /\ used \in [Scopes -> Usages]
  /\ limit \in [Scopes -> Limits]
  /\ lastFree = [s \in Scopes |-> 0]
  /\ lastTight = [s \in Scopes |-> 0]

Next ==
  \/ \E c \in Callers :
       \/ \E purpose \in {"create", "status"}, k \in Keys :
            CheckHits(c, purpose, k) \/ CheckMisses(c, purpose, k)
       \/ ApiReads(c)
       \/ FetchArrives(c)
       \/ FetchFails(c)
       \/ CreateEnds(c)
  \/ \E ns \in Namespaces : Clear({ns})
  \/ Clear(Namespaces)
  \/ \E t \in Tenants : SwitchSession(t)
  \/ \E s \in Scopes, n \in Usages : UsageChanges(s, n)
  \/ Tick

Spec == Init /\ [][Next]_vars

-----------------------------------------------------------------------------
(* Properties *)

StatusType ==
  [threshold : {"green", "yellow", "red"}, percentage : Nat, scope : Scopes,
   readAt : 0 .. MaxTime]

FetchType ==
  [pc : {"fetching"}, purpose : {"create", "status"}, tenant : Tenants, key : Keys,
   sentAt : 0 .. MaxTime]

FetchedType ==
  [pc : {"fetched"}, purpose : {"create", "status"}, tenant : Tenants, key : Keys,
   sentAt : 0 .. MaxTime, status : StatusType]

TypeOK ==
  /\ now \in 0 .. MaxTime
  /\ active \in Tenants
  /\ cache \in [Keys -> [status : StatusType, timestamp : 0 .. MaxTime]
                            \cup {Nothing}]
  /\ check \in [Callers -> {Idle} \cup [pc : {"creating"}, scope : Scopes]
                               \cup FetchType \cup FetchedType]
  /\ decision \in [allowed : BOOLEAN, status : StatusType, scope : Scopes]
                     \cup {Nothing}
  /\ used \in [Scopes -> Usages]
  /\ limit \in [Scopes -> Limits]
  /\ lastFree \in [Scopes -> 0 .. now]
  /\ lastTight \in [Scopes -> 0 .. now]

Decides(s) == decision # Nothing /\ decision.status.scope = s

\* However checks, creates and clears interleave, a quota that has been used up for
\* longer than the cache keeps a status and a request can take is never reported
\* as available.  (A failed fetch decides nothing: the create goes ahead.)
FullQuotaBlocks ==
  \A s \in Scopes :
    Decides(s) /\ decision.allowed => now - lastFree[s] <= CacheTtl + HttpTimeout

\* Nor is a quota reported as used up that has had room for as long, where room
\* means less than 99.5% of the limit: from there on the percentage rounds to 100.
RoomyQuotaAllows ==
  \A s \in Scopes :
    Decides(s) /\ ~decision.allowed => now - lastTight[s] <= CacheTtl + HttpTimeout
=============================================================================
