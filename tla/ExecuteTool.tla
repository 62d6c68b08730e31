------------------------------ MODULE ExecuteTool ------------------------------
(***************************************************************************)
(* executeTool() of src/src/tools/discovery/execute.ts: the one way from a *)
(* tool invocation to the F5 Distributed Cloud API.  Invocations are async *)
(* and interleave at their awaits: the quota check, the rate limiter, the  *)
(* HTTP request.  They share the module's response cache and the session's *)
(* credentials.                                                            *)
(*                                                                         *)
(* The cache is the abstract one (ResponseCache, which HttpCache           *)
(* implements); the rate limiter lets a call pass or rejects it, the quota *)
(* service allows or denies it (RateLimiter and QuotaService say when).    *)
(* The API is external: per tenant and path it holds a version, which a    *)
(* mutating request moves on.                                              *)
(*                                                                         *)
(* (A definition named Bug... is the one that follows it with a mistake in *)
(* it; no behaviour of the model uses it.)                                 *)
(***************************************************************************)
EXTENDS Integers

CONSTANTS
  Callers,     \* tool invocations that can be in progress at once
  Tenants,     \* the tenants whose profiles can be active
  Methods,     \* the methods of the executions the quota check lets be
  Paths,       \* full request paths, query string included
  Affects,     \* per path: the paths whose representation a mutation of it changes
  Nothing,
  CacheTtl,    \* config.defaultTtl of the cache
  HttpTimeout, \* how long the HTTP client waits for an answer
  MaxTime,     \* bound on the clock
  MaxVersion   \* bound on the mutations of one path

VARIABLES
  now,         \* Date.now()
  active,      \* the tenant of the loaded credentials; Nothing: mode NONE
  server,      \* external: version of each path of each tenant
  stored,      \* httpCache: what it may answer for GET of a path
  call,        \* per caller: where its executeTool() stands
  answer,      \* what the executeTool() that finished in the last step returned
  acked        \* history: per tenant and path, the last version whose mutation
               \* through that path was reported as a success

vars == <<now, active, server, stored, call, answer, acked>>

ASSUME ConstantsAssumption ==
  /\ Nothing \notin Tenants
  /\ "GET" \in Methods
  /\ Affects \in [Paths -> SUBSET Paths]
  /\ \A p \in Paths : p \in Affects[p]
  /\ CacheTtl \in Nat \ {0} /\ HttpTimeout \in Nat \ {0}
  /\ MaxTime \in Nat /\ MaxVersion \in Nat

Supported == {"GET", "POST", "PUT", "DELETE"}
Version   == 0 .. MaxVersion

\* What a response carries: whose path it shows, in which version, when the API
\* read it, whether its status was 2xx, and (history) whether a mutation through
\* the same path was reported as a success while the response was under way.
Response == [tenant : Tenants, version : Version, readAt : 0 .. MaxTime,
             ok : BOOLEAN, overtaken : BOOLEAN]

Cache == INSTANCE ResponseCache WITH
  Keys <- Paths, Data <- Response, Ttls <- {CacheTtl}, reply <- Nothing

\* One execution: its request, the tenant its HTTP client was made for, when the
\* request was sent, the response once the API has answered, and how many times
\* the API has carried it out.
Execution(pc, m, p) ==
  [pc |-> pc, method |-> m, path |-> p, tenant |-> active, sentAt |-> 0,
   response |-> Nothing, effects |-> 0]

Idle == [pc |-> "idle"]

InFlight == {c \in Callers : call[c].pc \in {"sent", "responded"}}

Become(c, r) == call' = [call EXCEPT ![c] = r]

Effects(c) == IF call[c].pc = "idle" THEN 0 ELSE call[c].effects

NoAnswer == answer' = Nothing

\* What the execution held is still there when the next one starts.
BugReturn(c, kind, effects, age) ==
  /\ Become(c, [call[c] EXCEPT !.pc = "idle"])
  /\ answer' = [kind |-> kind, effects |-> effects, age |-> age]

\* executeTool() comes to its end.  age: how long ago the API read the data that is
\* returned, for an answer that shows any.
Return(c, kind, effects, age) ==
  /\ Become(c, Idle)
  /\ answer' = [kind |-> kind, effects |-> effects, age |-> age]

ReturnNothing(c, kind) == Return(c, kind, Effects(c), 0)

-----------------------------------------------------------------------------
(* From the invocation to the request *)

\* Documentation mode: nothing is sent.  A missing path parameter throws here,
\* outside the try block, and executeTool() rejects.
ReturnsDocumentation(c) ==
  /\ call[c].pc = "idle"
  /\ active = Nothing
  /\ \/ ReturnNothing(c, "documentation")
     \/ ReturnNothing(c, "throws")
  /\ UNCHANGED <<now, active, server, stored, acked>>

\* A create whose namespace is known awaits the quota service.
StartsCreate(c, p) ==
  /\ call[c].pc = "idle"
  /\ active # Nothing
  /\ Become(c, Execution("quota", "POST", p))
  /\ NoAnswer
  /\ UNCHANGED <<now, active, server, stored, acked>>

\* Any other execution goes to the limiter; a GET, when the cache has nothing for
\* it, which may always be so (it may have evicted the response).
StartsRequest(c, m, p) ==
  /\ call[c].pc = "idle"
  /\ active # Nothing
  /\ Become(c, Execution("limiter", m, p))
  /\ NoAnswer
  /\ UNCHANGED <<now, active, server, stored, acked>>

\* A hit renews the entry.
BugReturnsCached(c, p) ==
  /\ call[c].pc = "idle"
  /\ active # Nothing
  /\ Cache!Live(p)
  /\ Cache!Store(p, stored[p].data, CacheTtl)
  /\ Return(c, "data", 0, now - stored[p].data.readAt)
  /\ UNCHANGED <<now, active, server, acked>>

ReturnsCached(c, p) ==
  /\ call[c].pc = "idle"
  /\ active # Nothing
  /\ Cache!Live(p)
  /\ Return(c, "data", 0, now - stored[p].data.readAt)
  /\ UNCHANGED <<now, active, server, stored, acked>>

\* The body is too deep or too large, or a path parameter is missing: found
\* after the quota check, before the limiter.
ReturnsInvalid(c) ==
  /\ \/ call[c].pc = "idle" /\ active # Nothing
     \/ call[c].pc = "quota"
  /\ ReturnNothing(c, "invalid")
  /\ UNCHANGED <<now, active, server, stored, acked>>

QuotaAllows(c) ==
  /\ call[c].pc = "quota"
  /\ Become(c, [call[c] EXCEPT !.pc = "limiter"])
  /\ NoAnswer
  /\ UNCHANGED <<now, active, server, stored, acked>>

QuotaDenies(c) ==
  /\ call[c].pc = "quota"
  /\ ReturnNothing(c, "denied")
  /\ UNCHANGED <<now, active, server, stored, acked>>

-----------------------------------------------------------------------------
(* rateLimiter.execute(): a token, then the HTTP request *)

LimiterAdmits(c) ==
  /\ call[c].pc = "limiter"
  /\ call[c].method \in Supported
  /\ Become(c, [call[c] EXCEPT !.pc = "sent", !.sentAt = now])
  /\ NoAnswer
  /\ UNCHANGED <<now, active, server, stored, acked>>

\* The switch on the method throws, after a token was spent on it.
LimiterAdmitsUnsupported(c) ==
  /\ call[c].pc = "limiter"
  /\ call[c].method \notin Supported
  /\ ReturnNothing(c, "invalid")
  /\ UNCHANGED <<now, active, server, stored, acked>>

LimiterRejects(c) ==
  /\ call[c].pc = "limiter"
  /\ ReturnNothing(c, "rejected")
  /\ UNCHANGED <<now, active, server, stored, acked>>

\* The API carries the request out: a mutation moves on every path it affects.
Applied(c) ==
  IF call[c].method = "GET" THEN server
  ELSE [server EXCEPT ![call[c].tenant] =
         [q \in Paths |-> IF q \in Affects[call[c].path] THEN @[q] + 1 ELSE @[q]]]

HasRoom(c) ==
  call[c].method # "GET" =>
    \A q \in Affects[call[c].path] : server[call[c].tenant][q] < MaxVersion

EffectsAfter(c, applied) ==
  call[c].effects + (IF applied /\ call[c].method # "GET" THEN 1 ELSE 0)

\* The API answers, with success or (ok = FALSE) with another status.
ApiResponds(c, ok) ==
  /\ call[c].pc = "sent"
  /\ ok => HasRoom(c)
  /\ server' = IF ok THEN Applied(c) ELSE server
  /\ Become(c, [call[c] EXCEPT
       !.pc = "responded",
       !.effects = EffectsAfter(c, ok),
       !.response = [tenant |-> call[c].tenant,
                     version |-> server'[call[c].tenant][call[c].path],
                     readAt |-> now, ok |-> ok, overtaken |-> FALSE]])
  /\ NoAnswer
  /\ UNCHANGED <<now, active, stored, acked>>

\* A request that failed is put through the limiter once more.
BugRequestFails(c, applied) ==
  /\ call[c].pc = "sent"
  /\ applied => HasRoom(c)
  /\ server' = IF applied THEN Applied(c) ELSE server
  /\ Become(c, [call[c] EXCEPT
       !.pc = "limiter",
       !.effects = EffectsAfter(c, applied)])
  /\ NoAnswer
  /\ UNCHANGED <<now, active, stored, acked>>

\* The request throws: refused, timed out, or the response was lost after the
\* API had carried the request out.  The cache keeps what it has.
RequestFails(c, applied) ==
  /\ call[c].pc = "sent"
  /\ applied => HasRoom(c)
  /\ server' = IF applied THEN Applied(c) ELSE server
  /\ Return(c, "error", EffectsAfter(c, applied), 0)
  /\ UNCHANGED <<now, active, stored, acked>>

-----------------------------------------------------------------------------
(* After the request *)

\* A GET that is not 2xx is taken for a failed promise and never settles.
BugGetCompletes(c) ==
  /\ call[c].pc = "responded"
  /\ call[c].method = "GET"
  /\ call[c].response.ok
  /\ Cache!Store(call[c].path, call[c].response, CacheTtl)
  /\ Return(c, "data", 0, now - call[c].response.readAt)
  /\ UNCHANGED <<now, active, server, acked>>

GetCompletes(c) ==
  /\ call[c].pc = "responded"
  /\ call[c].method = "GET"
  /\ IF call[c].response.ok
       THEN Cache!Store(call[c].path, call[c].response, CacheTtl)
       ELSE UNCHANGED stored
  /\ Return(c, "data", 0, now - call[c].response.readAt)
  /\ UNCHANGED <<now, active, server, acked>>

Acknowledge(c) ==
  LET x == call[c] IN
  IF x.response.ok
    THEN acked' = [acked EXCEPT ![x.tenant][x.path] =
                     IF @ < x.response.version THEN x.response.version ELSE @]
    ELSE UNCHANGED acked

\* The responses under way that the acknowledgement of c overtakes.
Overtaken(c) ==
  { d \in Callers \ {c} :
      /\ call[d].pc = "responded"
      /\ call[d].tenant = call[c].tenant
      /\ call[d].path = call[c].path }

\* The answer of a mutation says success: true and has the status code of the
\* response: a 2xx one, or another.
StatusKind(c) == IF call[c].response.ok THEN "done" ELSE "refused"

\* The cached GET of the path survives the mutation.
BugMutationCompletes(c) ==
  /\ call[c].pc = "responded"
  /\ call[c].method # "GET"
  /\ Acknowledge(c)
  /\ call' = [d \in Callers |->
       IF d = c THEN Idle
       ELSE IF d \in Overtaken(c)
         THEN [call[d] EXCEPT !.response.overtaken = TRUE]
         ELSE call[d]]
  /\ answer' = [kind |-> StatusKind(c), effects |-> call[c].effects, age |-> 0]
  /\ UNCHANGED <<now, active, server, stored>>

\* POST, PUT and DELETE drop what the cache has for GET of exactly their path,
\* and report a success whatever the status.
MutationCompletes(c) ==
  /\ call[c].pc = "responded"
  /\ call[c].method # "GET"
  /\ Cache!Forget(call[c].path)
  /\ Acknowledge(c)
  /\ call' = [d \in Callers |->
       IF d = c THEN Idle
       ELSE IF d \in Overtaken(c)
         THEN [call[d] EXCEPT !.response.overtaken = TRUE]
         ELSE call[d]]
  /\ answer' = [kind |-> StatusKind(c), effects |-> call[c].effects, age |-> 0]
  /\ UNCHANGED <<now, active, server>>

-----------------------------------------------------------------------------
(* The session and the clock *)

\* f5xc-api-configure-auth loads other credentials, or none.
SwitchSession(t) ==
  /\ active' = t
  /\ NoAnswer
  /\ UNCHANGED <<now, server, stored, call, acked>>

\* What expires will never be served again.
Tick ==
  /\ now < MaxTime
  /\ \A c \in InFlight : now < call[c].sentAt + HttpTimeout
  /\ now' = now + 1
  /\ stored' = [p \in Paths |->
       IF Cache!Live(p) /\ now < stored[p].until THEN stored[p] ELSE Nothing]
  /\ NoAnswer
  /\ UNCHANGED <<active, server, call, acked>>

Init ==
  /\ now = 0
  /\ active \in Tenants \cup {Nothing}
  /\ server = [t \in Tenants |-> [p \in Paths |-> 0]]
  /\ stored = [p \in Paths |-> Nothing]
  /\ call = [c \in Callers |-> Idle]
  /\ answer = Nothing
  /\ acked = [t \in Tenants |-> [p \in Paths |-> 0]]

Next ==
  \/ \E c \in Callers :
       \/ ReturnsDocumentation(c)
       \/ ReturnsInvalid(c)
       \/ QuotaAllows(c)
       \/ QuotaDenies(c)
       \/ LimiterAdmits(c)
       \/ LimiterAdmitsUnsupported(c)
       \/ LimiterRejects(c)
       \/ \E p \in Paths : StartsCreate(c, p) \/ ReturnsCached(c, p)
       \/ \E m \in Methods, p \in Paths : StartsRequest(c, m, p)
       \/ \E ok \in BOOLEAN : ApiResponds(c, ok)
       \/ \E applied \in BOOLEAN : RequestFails(c, applied)
       \/ GetCompletes(c)
       \/ MutationCompletes(c)
  \/ \E t \in Tenants \cup {Nothing} : SwitchSession(t)
  \/ Tick

\* The quota service and the limiter settle every call that awaits them, the HTTP
\* client settles every request within its timeout, and the event loop runs what
\* follows an await once that is settled.
Fairness ==
  \A c \in Callers :
    /\ WF_vars(QuotaAllows(c) \/ QuotaDenies(c))
    /\ WF_vars(LimiterAdmits(c) \/ LimiterAdmitsUnsupported(c)
                                \/ LimiterRejects(c))
    /\ WF_vars(\E b \in BOOLEAN : ApiResponds(c, b) \/ RequestFails(c, b))
    /\ WF_vars(GetCompletes(c) \/ MutationCompletes(c))

Spec == Init /\ [][Next]_vars /\ Fairness

-----------------------------------------------------------------------------
(* Properties *)

ExecutionType ==
  [pc : {"quota", "limiter", "sent", "responded"}, method : Methods \cup {"POST"},
   path : Paths, tenant : Tenants, sentAt : 0 .. MaxTime,
   response : Response \cup {Nothing}, effects : Nat]

AnswerType ==
  [kind : {"documentation", "throws", "denied", "rejected", "invalid", "data",
           "done", "refused", "error"},
   effects : Nat, age : 0 .. MaxTime]

TypeOK ==
  /\ now \in 0 .. MaxTime
  /\ active \in Tenants \cup {Nothing}
  /\ server \in [Tenants -> [Paths -> Version]]
  /\ stored \in [Paths -> [data : Response, until : Nat] \cup {Nothing}]
  /\ call \in [Callers -> ExecutionType \cup {Idle}]
  /\ answer \in AnswerType \cup {Nothing}
  /\ acked \in [Tenants -> [Paths -> Version]]

\* What an execution reports is what the API has done for it.  A mutation answered
\* with a 2xx status was carried out once, neither lost nor repeated; one that is
\* answered with another status, a denial, a rejection, invalid input, data or
\* documentation was not carried out; a failed request ("error") leaves in doubt
\* whether it was, and was carried out once at most.
EffectsMatchAnswer ==
  answer # Nothing =>
    /\ answer.kind = "done" => answer.effects = 1
    /\ answer.kind = "error" => answer.effects <= 1
    /\ answer.kind \notin {"done", "error"} => answer.effects = 0

\* The cache is behind a mutation that was reported as a success through the same
\* path only if the cached response was read before and arrived after that
\* report: with no such race a GET sees every acknowledged write of its path.
FreshUnlessOvertaken ==
  \A p \in Paths :
    Cache!Live(p) /\ ~stored[p].data.overtaken
      => stored[p].data.version >= acked[stored[p].data.tenant][p]

\* However reads, writes through other paths, lost responses and races fall, no
\* answer shows the API as it was longer ago than the time to live of the cache
\* and the timeout of a request together.
BoundedStaleness == answer # Nothing => answer.age <= CacheTtl + HttpTimeout

\* Every invocation is answered.
EveryCallIsAnswered ==
  \A c \in Callers : call[c].pc # "idle" ~> call[c].pc = "idle"

\* "Invalidate cache for mutating operations on the same resource path": once a
\* mutation has been reported as a success, the cache no longer answers with
\* what the path showed before it.
MutationInvalidates ==
  \A p \in Paths :
    Cache!Live(p) => stored[p].data.version >= acked[stored[p].data.tenant][p]

\* "Switched to profile ... Credentials reloaded": an invocation is answered with
\* the data of the tenant whose credentials are loaded when it is made.
AnsweredFromOwnTenant ==
  [][\A c \in Callers, p \in Paths :
       ReturnsCached(c, p) => stored[p].data.tenant = active]_vars
=============================================================================
