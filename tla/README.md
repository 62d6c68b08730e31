# A TLA+ model of the F5 Distributed Cloud API MCP server

The repository is an MCP server in TypeScript: an assistant finds API tools, has their
dependencies planned and their parameters checked, and has them executed against a tenant
of the F5 Distributed Cloud. This directory holds TLA+ modules of the parts of the server
that keep state or that run concurrently, the TLC configurations that check small instances
of them, and proofs that the TLA+ proof system (TLAPS) checks. Source paths below are
relative to `src/src/`.

Node runs the code between two `await`s without interruption, and that is the grain of the
models: an action is what the code does from one await (or from the invocation) to the next,
with all the calls it makes on the way. Different tool invocations interleave at their awaits.

## Running it

    tlc -workers 2 -config MCSession.cfg MCSession      # one run; see the table of runs
    tlapm SessionProofs.tla                             # the proofs of one module

`PROJECT.json` lists the runs, the lines of the source each definition models, for each
checked property a mutation of the model that it detects, the hazards of the code, the
findings and the theorems. A definition named `Bug...` is the mutated form of the one that
follows it and is part of no behaviour of the model.

## Inventory

| Component | State it keeps | Operations | What is hard | What makes it correct |
|---|---|---|---|---|
| Rate limiter, `utils/rate-limiter.ts` | token bucket, time of the last refill, count of queued calls | `execute` (acquire, back off, retry, run), `getState`, `canAccept`, `reset` | calls retry on timers that run late; three exits decrement one counter; `reset` during calls | requests per window bounded; the counter accounts for the calls; a refusal has a cause, waiting ends |
| Response cache, `utils/http-cache.ts` | insertion-ordered map of entries, statistics | `get`, `set` (with `Cache-Control`), `invalidate`, `clear`, LRU eviction | lazy expiry, four ways for an entry to leave, ties of the clock | bounded, LRU, statistics add up, serves only what was stored, live and not invalidated |
| Tool execution, `tools/discovery/execute.ts` | the two singletons above; nothing per call | `executeTool` | three awaits per call; a response that arrives after a mutation; a timeout after which the request may have been carried out; a change of session | effects agree with the answer, staleness bounded, every call answered |
| Quota service, `services/quota-*.ts` | map of cached statuses | `checkQuotaAvailability`, `getQuotaStatus`, the clears, the quota tools | two checks at once; statuses that arrive after a clear; rounding; failing open | a full quota is not reported available, a roomy one not full, beyond the age of a status |
| Creation planner, `tools/discovery/resolver.ts`, `dependencies.ts` | none beyond the call: visited set, list, in-degrees | walk, topological sort, steps | shared prerequisites, cycles, self-references, depth limit | complete, ordered, each resource once, what exists skipped, terminates |
| Authentication tool, `tools/configure-auth.ts`, `.../metadata.ts` | profiles and active profile on disk, credentials in memory (package `f5xc-auth`) | `configure`, `set-active`, `list-profiles`, `status`, `server-info` | steps on disk and in memory that fail separately; overlapping calls; environment against profiles | an answer is true; memory and disk agree; the environment wins; all tools report one mode |
| Server lifecycle, `server.ts`, `index.ts`, `server/handlers/*`, `resources/handlers.ts` | HTTP client of the resource handler, mode captured at registration | start, stop, reading resources | state kept from the start although the session changes | what is reported is current |
| Dependency graph generator, `generator/dependency-*.ts` | graph, built in passes over the same edges | extraction, merging of references, reverse edges, creation orders, search for cycles | cycles, self-references, a depth limit that meets a visited set, references of different strength | no reference lost, orders sound, passes agree, no cycle missed |
| Schema loader, `tools/discovery/schema-loader.ts`, `schema.ts` | cache of specification files, filled as tools are looked at | load, `$ref` expansion, minimal payloads, clear | cyclic references, a visited set shared by siblings and copied for children, look-ups in whatever domains are loaded | nothing inside itself, nothing lost, answers that only improve |
| Request validation, `utils/validation.ts`, `tools/discovery/validate.ts` | none | depth and size limits, parameter checks | boundaries | agrees with a reference definition |
| Consolidation and search, `tools/discovery/consolidate.ts`, `search*.ts`, `index-loader.ts`, `tools/registry.ts` | indexes over fixed tables, built once | group operations by resource, inverted index, scoring | ties of the capped score | every tool in one group, index agrees with a scan |
| Advice tools, `best-practices.ts`, `suggest-params.ts`, `describe.ts`, `cost-estimator.ts` | static tables | look-ups, arithmetic | none to speak of | - |
| Tool generator, `generator/*` | none (batch) | OpenAPI documents to source text | none concurrent | - |
| Utilities, prompts, templates | none | strings, errors, logging | none | - |

How they interact: a tool invocation enters `executeTool`, which (1) answers a GET from the
response cache, or (2) for a create asks the quota service, which asks the API, then (3) passes
the rate limiter, (4) sends the request with an HTTP client made from the credentials loaded
at that moment, and (5) stores or invalidates in the response cache. `configure-auth`
replaces those credentials at any time. The generator writes the dependency graph at build
time, the planner and the dependency tools read it once and plan on it. The schema loader reads
specification files on demand, one domain at a time. The search works on generated tables. Cache, limiter and quota service are singletons of the process, so
all invocations share them; nothing but the profiles outlives the process.

## Modules

| Module | Models | State and actions against the code |
|---|---|---|
| `RateLimiter` | class `RateLimiter` | `tokens`, `lastRefillTime`, `queuedRequests` are the fields, tokens in units so that fractional refills are exact. `ExecuteAdmitted/Waits/Rejected` are the start of `execute()`, `Wake...` the timer callback of `waitForToken()`, `Settle` the `finally`. `MaxLate` is how late a timer may run. |
| `HttpCache` | class `HttpCache` | `cache` and `order` are the insertion-ordered `Map`. One action per outcome of `get` and `set`. |
| `ResponseCache` | abstract | what the cache promises: a look-up gives nothing, or what was last stored, live, and not invalidated. `HttpCache` implements it; `ExecuteTool` is written on it. |
| `ExecuteTool` | `executeTool()` with API and session | `call[c].pc` is the await a call is at (`quota`, `limiter`, `sent`, `responded`). `RequestFails` decides whether the request was carried out. The limiter and the quota service are their possible answers. The API (external) holds a version per tenant and path. |
| `QuotaService` | class `QuotaService`, thresholds, mapping | `cache` is the map; `CheckHits`, `CheckMisses`, `FetchArrives`, `FetchFails` are `getQuotaStatus()` around its await; `ApiReads` is when the API reads the usage, which others move (`UsageChanges`). |
| `QuotaTenants` | `QuotaService` with a history | `lastSwitch` is when the session last changed tenant; every step is one of `QuotaService`. |
| `DependencyGraph` | `buildDependencyGraph()`, `validateGraph()` | `requires`, `requiredBy`, `creationOrder` are the fields of the graph. `calls` is the recursion of `visit()` or `dfs()`, with the references each call has left; `seen` is `visited`, and the open calls are `inProgress`, `recStack` and `path`. `Order...` and `Validate...` are the turns of the two walks, in the order of the code, so a behaviour is determined by the specifications. |
| `Planning` | the way from the specifications to a plan | composes `DependencyGraph` and `Resolver` (INSTANCE): `Load` is `loadDependencyGraph()` on the file the generator wrote, `Request` a call of the planner. `Unknown` are the resources that references name without a domain: the generator's keys for them, `unknown/x`, are positive numbers like all its keys, the planner's, `/x`, the same numbers negated (`PlannerKey`), so that neither finds what the other has named. `Written` is the file as the planner looks it up. That no specification is filed under a domain called `unknown` is an assumption (`UnknownHaveNoOperations`); it holds of the shipped graph. |
| `SchemaLoader` | `getResolvedRequestBodySchema()` over `schemaCache` | `loaded` is the `Map` in the order of insertion; `frames` the recursion of `resolveNestedRefs()` through expanded references, each with the set `visited` its references share; `outcomes` the expanded schema, as what became of each reference at its place. `Load` and `Clear` are what other tools do between calls. |
| `Resolver` | `resolveDependencies()` | `stack` is the recursion of `resolveTransitiveDependencies()`, a frame per call with the prerequisites its loop has left; then Kahn's sort, one resource per step (`SortTakes`, `SortEnds`); then the loop that makes the steps of the plan (`PlanTakes`, `PlanEnds`). A target without an entry is refused. |
| `Session` | `configure-auth`, start and stop, `server-info`, resources | `profiles`, `active` are the files, `session` what the credential manager holds, `startedAs` what was read in the constructor and at registration. `call[c].pc` is the await a call is at; each await may fail. |

`MC<module>` holds the constants of the instances TLC checks; `<module>Proofs` holds theorems.
`ExecuteTool` composes with `ResponseCache` by INSTANCE, and `HttpCache` refines that same
module, so what `ExecuteTool` assumes of the cache is what `HttpCache` is shown to keep.
`Resolver` is checked on graphs that `DependencyGraph` has built, in `Planning`, and by itself
(`MCResolver`) for finding 3.

## Runs

| Run | Shows |
|---|---|
| `rate_limiter` | `AdmissionsBounded`: no window of time lets through more than a burst and its refill. `QueueAccounting`: `queuedRequests` is the number of calls in progress less those a `reset()` forgot (the code can make it negative). `BackoffServed`, `RefusalHasACause`, `WaitBounded`: a call is given up after its whole back-off, not without competition, and not later than its delays and late timers explain. |
| `http_cache` | the bound, the statistics, least-recently-used eviction, and the refinement of `ResponseCache` (`ImplementsResponseCache`). |
| `execute_tool` | `FreshUnlessOvertaken` (a cached GET is behind an acknowledged write of its own path only after a race), `BoundedStaleness` (time to live plus a request timeout, also for writes through other paths and lost responses). |
| `execute_answers` | `EveryCallIsAnswered`: every invocation ends in an answer. `EffectsMatchAnswer`: a mutation answered with a 2xx status was carried out exactly once, one that failed at most once, and whatever is answered otherwise (denied, invalid, rejected by the limiter, another status, data, documentation) had no effect. |
| `execute_race`, `execute_tenants` | findings 1 and 2. |
| `quota` | `FullQuotaBlocks`, `RoomyQuotaAllows`: a decision is wrong for at most the time to live of a status and a request. `OwnTenantDecides`: the status of another tenant decides for at most as long after a switch. |
| `planning` | Of the generator: `RequiredByAnyOperation` (merging keeps every reference, and the strongest mention of it), `CreationOrderSound` (nothing twice, nothing before a prerequisite but on cycles or where the depth limit struck), `CreationOrderMatchesDependents` (the walk along the edges and the reversed edges tell the same), `CyclesAreFound` (what is reported is a cycle, and without the reported last edges there is none). Of the planner: `OrderRespectsPrerequisites` (a step comes after the step of every other resource its own refers to, by references of any kind; only the target's, always the last, may come after a step that refers to it, where the walk skipped that reference or was cut off), `EachOnce`, `WalkIsComplete` (unless `maxDepth` cut it off), `OmissionsExplained` (if the sort loses a resource, this one was collected more than once or waits for another one that is lost; not every such resource is lost). Of both: `PlanAgreesWithCreationOrder` (what the planner collects is in the creation order the other tool shows, and all of it when nothing is skipped, once `unknown/x` is read as `/x`; of unknown domain the two have no key in common), `PlanningEnds`. |
| `resolver_plans` | finding 3. |
| `schemas` | `MarkedCircular`: exactly which references are marked `_circular` (see the observations). `NoSchemaInsideItself`: expansion is finite on every cycle. `EverySchemaExpanded`: what the marks leave out is expanded elsewhere in the answer. `AnswersOnlyImprove`: between two clears, domains loaded in the meantime only resolve what was unresolved. |
| `session` | `AloneTakesEffect`, `DurableSession`, `EnvironmentWins`, with overlapping calls, failures at every await, stops and restarts. |
| `session_mode` | finding 4. |

### Bounds

* Rate limiter: three callers (two that compete and one that has gone before), two units to a
  token, three configurations that cover both strategies, a burst larger and smaller than the
  callers, a first delay that refills a token exactly or less, and no retries at all. `Horizon`
  stops new calls, not the clock of those in progress, so each back-off is served to its end.
* Cache: two GET keys and a non-GET key for two places, so there is eviction with a choice and
  ties; time up to 3 with times to live 1 and 2, so entries expire before and after each other.
  `MaxCount` bounds the statistics.
* Execution: two calls, a collection and an item that affect each other, three instants, one
  mutation per path. Races are between two calls; a third adds no new pair. PUT stands for
  DELETE, and PATCH for methods without a case. `execute_answers` has one path and one tenant,
  and room for two mutations of it, so that a mutation carried out twice could be seen.
* Quota: two checks, two tenants, one namespace and type, limits 0 and 200 with usages around
  the rounding boundary (198, 199, 200: 99%, 100% by rounding, 100%).
* Planning: every acyclic graph of three resources with operations and one of unknown domain,
  with optional and required edges (the smallest graphs with shared prerequisites that have
  prerequisites), every graph on three with cycles and self-references, chains of three with
  references of every kind from each member back to the target, and graphs with resources that
  have no operations, the target among them. Two operations mention each reference and disagree on its strength. The generator's depth limit is
  2, which cuts the chains of four and nothing else, so cut and complete walks both occur; the
  planner's is 1 or the default, 10, which no walk here reaches. `existingResources` is empty, or
  names a resource and the one of unknown domain as the planner keys it, or the target and the one
  of unknown domain as the dependency tool lists it.
* Schemas: every set of up to three schemas with up to two references each in one domain; two
  more domains that have some of the names. `MAX_RESOLUTION_DEPTH` is 6 instead of 10: three
  schemas in a row are expanded, one more, or one reference deeper inside its schema, is cut.
* Session: two calls, two profiles, two tenants, the environment empty or set.

### Deadlock and fairness

Deadlock is checked in every run but `planning` and `resolver_plans`, where the one request really
comes to its end. Safety runs need no fairness. `ExecuteTool` assumes weak
fairness of: the answer of the quota service and of the limiter (each settles: `WaitBounded`
for the limiter, the HTTP timeout for the quota), the answer or timeout of the HTTP client,
and the continuation after an await (the event loop). It assumes none of new invocations, of
the session or of the clock. `Resolver` and `Planning` assume weak fairness of the generator
and of a planner once called, synchronous programs of one thread; a request need not come.
`SchemaLoader` states no liveness and assumes no fairness.

## Findings

Each is a run that violates one property stating what the repository says.

1. `execute_race`: a GET answered by the API before a PUT of the same path, and completed after
   it, caches the old representation after the invalidation (`execute.ts:383`, `:388`).
2. `execute_tenants`: the response cache is keyed by path only; after a change of profile a GET
   is answered with the former tenant's data (`execute.ts:345`).
3. `resolver_plans`: a shared prerequisite is listed more than once, its in-edges are counted
   as often but removed once, so it and all that needs it is left out of the plan without a
   warning (`resolver.ts:258`).
4. `session_mode`: `server-info` and the resources keep the mode of the start; after
   `configure-auth` has enabled execution they stay in documentation mode (`metadata.ts:26`, `server.ts:53`).

### Observations

What the code does and no run refutes a sentence about, met while modelling:

* The quota zones are documented as yellow from 80% (`docs/guides/quota-management.mdx:53`, with
  95/100 as the example of a warning, `:31`); the code compares with `yellowThreshold`, 99 by
  default, and never reads `greenThreshold` (`quota-thresholds.ts:61`). At 95% the text, the icon
  and the recommendation that `formatQuotaStatus()` and `formatQuotaTable()` print are those of a
  quota with capacity, and the request validation does not warn.
* The same table allows creation below 100%; the code blocks from 99.5% on, since the percentage
  is rounded before it is compared (`quota-service.ts:176`). With a limit of 0 the percentage is 0,
  and creates are allowed. `RoomyQuotaAllows` and `FullQuotaBlocks` are stated around both: room is
  less than 99.5%, and a limit of 0 is never full.
* `_circular` does not mean a cycle: the second of two sibling properties that refer to one schema
  is marked, and so is anything below a later sibling (`schema-loader.ts:243`). `MarkedCircular` is
  the exact condition; `EverySchemaExpanded` says that the schema is in the answer once. That is
  said of schemas only: keywords beside a `$ref`, a default for one, are merged into what is
  expanded and dropped where the reference is marked (`:244`). The model has no such keywords. A
  reference that cannot be resolved is added to the set as well, so its second mention is marked
  circular although the first was left unresolved.
* A schema found in another domain has its own references looked up in the first domain
  (`schema-loader.ts:260`); a file that exists only under the hyphenated name passes the test of
  existence and is then not read (`:136`, `:142`).
* References of unknown domain are keyed `unknown/x` in the creation order
  (`dependency-graph.ts:265`), which is what `f5xc-api-dependencies` shows, and `/x` by the planner
  (`resolver.ts:208`). Of the 893 references of the shipped graph 848 are of this kind, and 227 of
  its 793 creation orders name an `unknown/` key. `PlanAgreesWithCreationOrder` says that such keys
  match nothing in a plan; in particular, passed back as an existing resource under the key it was
  listed by, a resource is planned all the same, although existing resources "will be skipped"
  (`tools/discovery/index.ts:453`).
* `dependsOn` of a step names all references of its resource, also the optional ones that the walk
  skipped (`resolver.ts:341`), while its comment says "Resources that must be created before this
  step" (`:36`). If the target requires 2 and 2 refers to the target optionally, the steps are 2,
  then the target, and each names the other. This is the exception `OrderRespectsPrerequisites`
  makes for the target.
* Every reference of the shipped graph is optional, so that a plan has prerequisites only with
  `includeOptional`. Of the 45 with a domain, 34 lead from a resource to itself: the step of such a
  resource names itself in `dependsOn`, whatever `includeOptional` is (`resolver.ts:374`). The other
  11 are on no cycle.
* Scores of the search are capped at 1 (`search.ts:142`), so ties decide which create tool a plan
  names (`resolver.ts:133`); the model leaves it open which resources have one.

## Proofs

Every invariant and every action property that a passing run checks is also a theorem, for every
value of the constants that satisfies the named assumptions. A module of proofs is laid out the
same way throughout: facts about numbers, sequences or sets; one lemma for each kind of step; the
inductive invariant of the specification; the theorems, each from that invariant.

* `RateLimiterProofs` (finitely many callers; configurations with positive rates, bursts and
  delays, as `createRateLimiterFromEnv` makes them). `RateIsLimited`: bounded windows are not
  inductive, since they say nothing of the bucket; `WindowInv` adds `Budget`, that the bucket plus
  what was let through since any admission is within a burst and the refill since then.
  `QueueIsAccounted`: by the cardinality of the calls in progress, `TypeOK` and the property are
  inductive together. `WaitsAreBounded`, `BackoffIsServed` and `RefusalsHaveACause`: `BackoffInv`
  says when each waiting call began to sleep, that it has slept its earlier delays and was woken
  late by no more than `MaxLate` each time (`OnSchedule`), and that since then either a request was
  let through or the bucket has what was refilled (`EarnedSince`). That `TotalBackoff` is the sum
  of the delays is proved (`DelayFacts`), powers of two by counting the subsets of an interval.
* `HttpCacheProofs` (finitely many keys, a capacity of at least one). `TypeCorrect`,
  `CapacityHolds`, `StatsAddUp`, `LeastRecentIsEvicted`, and `CacheRefinement`: every step of
  `HttpCache` is a step or a stutter of `ResponseCache`. `CacheInv` adds that the order lists
  each entry of the map exactly once (`Listed`, so `evictLRU()` always finds a victim) and that an
  entry is what the last `set()` of its key promised (`EntriesKeepPromises`).
* `ExecuteToolProofs` (a path is affected by its own mutations). `TypeCorrect`,
  `EffectsAreReported`, `FreshnessHolds`, `StalenessIsBounded`. The properties speak of the answer
  just given; `ToolInv` says the same of what is still under way: no execution is older than its
  request may be or has had an effect before the API answered, a response with a 2xx status to a
  mutation means one effect and any other response none, a response shows what the API has
  had since it was asked and is marked when a mutation of its path was acknowledged meanwhile
  (`Sound`); what the cache holds expires in time and is as good as the response it was
  (`StoredSound`).
* `QuotaServiceProofs` (thresholds and times natural numbers; the two theorems on decisions also
  take the default red threshold, 100). `TypeCorrect`. `FullQuotaIsBlocked` and
  `RoomyQuotaIsAllowed`: `IInv` says that each status, in the cache, in a request or in a
  decision, was faithful to the usage when it was read, and how long ago that can have been
  (a cached one: the age of its entry and a request; one under way: a request). The rounding of
  the percentage is proved by integer division bounds. `OwnTenantIsDecisive`, about `QuotaTenants`:
  the property speaks only of the decision just made; `TenantInv` adds that a request under way is
  one of the tenant whose credentials are loaded or was sent before the last switch
  (`FetchesAreOwn`), and that a status in the cache is that tenant's or came within a request of
  the last switch (`EntriesAreOwn`).
* `DependencyGraphProofs` (the resources are numbered, the depth limits natural numbers) proves
  `GraphInv` of the generator, which holds the claims of `CreationOrderSound`,
  `CreationOrderMatchesDependents` and `CyclesAreFound` while the walks are still open: the edges
  are those of the references merged so far (`MergedSoFar`); the open calls are a path and what
  they have left leads along edges (`CallsInv`); an order in the making names nothing twice or too
  early, and what a member needs is listed or still to come (`OrderInv`); without the last edges of
  the cycles found so far no cycle goes through a finished resource (`ValidateInv`). `Closure`, a
  recursive function that goes through the resources one by one, is shown to be the least
  transitive relation with the edges in it, and all arguments about paths rest on that.
* `PlanningProofs` (the same, of the graph as it was written to the file; no resource of unknown
  domain has operations) has the theorems about
  the generator and proves `PlannerInv` and `CompleteInv` of the planner. `SortInv`: what is left
  of an in-degree is the number of edges counted less those from resources already sorted, which
  puts what is sorted in order on graphs with any cycles (`SortedInOrder`), and the steps are in the
  order of what is sorted (`StepsAsSorted`). The target's step is the exception that
  `OrderRespectsPrerequisites` describes: had the walk followed a reference back to it from a
  resource that was sorted, it would have collected the target, and the sort, which takes nothing
  before its collected prerequisites, would have had to sort the target first. `EachOnce` depends on the target:
  its step is added to what was sorted, so if the target was collected as well, on a cycle through
  it, it must not be sorted; it is not, because that cycle is collected and each of its members
  waits for another (`IsTrap`, in `WalkInv`). `CompleteInv`: what a visited resource wants is
  collected, on the stack or still to do; when the walk ends, what was collected is closed, and
  `ReachedIn` is the least closed set. `AnswersAgree` puts the two together: walk and creation
  order are one closure, up to the planner's keys, which are different for different resources and
  never the generator's key of a resource of unknown domain (`KeysOfThePlanner`).
* `SchemaLoaderProofs` (no domain is called `Nowhere`; the files hold sequences of references).
  `TypeCorrect`, `MarksAreExact`, `NothingInsideItself`, `NothingIsLost`: `SchemaInv` says that the
  open calls are a path (`PathOf`) and nothing was met below a reference they have not taken
  (`SeenOf`), that the set of an open call is what it and the calls above it have met, but for what
  was too deep (`VisitedOf`, which is how the code's set and the places of `MetBefore` come
  together), that the schemas above a call are in its set (`AboveOf`), and that each reference of
  an expanded schema is expanded somewhere, to be found nowhere, or still to be taken
  (`NoneForgotten`).
  `AnswersImprove` compares two runs with different caches. An invariant on one run cannot, so
  `RepeatInv` says what decides a fate without saying when: there is a labelling of the expanded
  schemas with the depth and the set their calls began with, such that each outcome is the `Fate` of
  its place below its parent (`Labelled`), and a run that is under way has all of them up to where
  its calls are (`RunOf`). A look-up that succeeded gives the same domain after another is loaded
  (`SourceStays`); so, by the length of the place, what one answer resolved the next one does too.
* `SessionProofs` (`Nothing` is neither a tenant nor a name). `TypeCorrect`, `EnvironmentOverrides`,
  `MemoryAgreesWithDisk`, `AnswersAreTrue`. `SessionInv` adds: a call that has run alone is the
  only one (`Solitude`) and nobody has disturbed what it read and wrote (`LonersUndisturbed`);
  memory and disk agree until a call writes (`AgreeUntilWritten`); whatever is read while the
  environment is set is the environment (`ReadsEnvironment`). One lemma per kind of step.

The library's induction theorems cannot be instantiated by the installed provers. Where a proof
needs induction it takes the least element of a set of natural numbers instead (`LeastNumber`,
`UpTo`), with the predicate given as a set; this is how the recursive functions `Closure` and
`ReachedIn` are proved about.

The inductive invariants were checked with TLC before they were proved. Only model-checked are
the two liveness properties, `EveryCallIsAnswered` and `PlanningEnds`, since TLAPS does not treat
ENABLED, and the findings, which are counterexamples.

## Not modelled

* Overlapping calls of `configure-auth` are modelled, but the properties promise nothing about
  them: no document does, and two of them can leave the session with another profile than the
  one the last answer names. Other processes that share `~/.config/f5xc` are not modelled.
* Environment parsing (a setting that does not parse is `NaN` in the quota service), URL
  normalisation, tokens and TLS, the MCP transport, logging and formatting.
* Failure of the rate limiter's clock: `Date.now()` is taken to be monotonic.
* Most of the repository's lines: the modules under `tools/generated/` are tables, about 150,000
  lines written by the generator, with no control to model; they enter as the sets of tools,
  resources and schemas of the instances. What is left is hand-written code of which the part that
  keeps state, interleaves or recurses is modelled.
* The extraction of references from OpenAPI documents (`dependency-extractor.ts`), the tool
  generator, consolidation and search, request validation and the advice tools: pure functions
  over text and fixed tables, without state or interaction; the reasons are in `PROJECT.json`.
* What is read out of an expanded schema (required fields, defaults, exclusive groups), the oneOf
  groups and subscriptions carried along with the dependency graph, and the formatting of plans.

## Plan

1. Done: all modules above, their runs, and a theorem for every invariant and action property of
   a passing run.
2. Next: where a theorem has a hypothesis that the code's defaults satisfy but its settings need not (the
   red threshold of `QuotaServiceProofs`), state what holds for other settings.
3. A bound on the steps of the planner and of the generator's walks, as an invariant: the part of
   `PlanningEnds` that does not need fairness.
