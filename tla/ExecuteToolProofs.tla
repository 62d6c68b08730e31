-------------------------- MODULE ExecuteToolProofs --------------------------
(***************************************************************************)
(* What holds of tool execution for any number of invocations, tenants and *)
(* paths, whatever paths a mutation affects, and for all bounds.           *)
(***************************************************************************)
EXTENDS ExecuteTool, TLAPS

\* An execution under way: it is not older than the HTTP client lets it be, it has had
\* no effect before the API answered and exactly the one that the status of the response
\* says once it has, and the response it holds was read since it was
\* sent, shows what the API has had, and is not behind an acknowledged mutation of its
\* path unless it is marked as overtaken by it.
Sound(x) ==
  /\ x.pc \in {"quota", "limiter", "sent"} => x.effects = 0
  /\ x.pc \in {"sent", "responded"} =>
       x.sentAt <= now /\ now <= x.sentAt + HttpTimeout
  /\ x.pc = "responded" =>
       /\ x.response \in Response
       /\ x.response.tenant = x.tenant
       /\ x.sentAt <= x.response.readAt /\ x.response.readAt <= now
       /\ x.response.version <= server[x.tenant][x.path]
       /\ x.response.overtaken \/ x.response.version >= acked[x.tenant][x.path]
       /\ x.effects = IF x.response.ok /\ x.method # "GET" THEN 1 ELSE 0

ExecutionsSound == \A c \in Callers : Sound(call[c])

\* What the cache holds expires in time, and is not behind an acknowledged mutation of
\* its path unless it was overtaken by it when it was still a response under way.
StoredSound ==
  \A p \in Paths : stored[p] # Nothing =>
    /\ stored[p].data.readAt <= now
    /\ stored[p].until <= stored[p].data.readAt + HttpTimeout + CacheTtl
    /\ stored[p].data.overtaken
         \/ stored[p].data.version >= acked[stored[p].data.tenant][p]

\* Only what the API has carried out is acknowledged.
AckedIsServed ==
  \A t \in Tenants, p \in Paths : acked[t][p] <= server[t][p]

ToolInv ==
  /\ TypeOK
  /\ ExecutionsSound
  /\ StoredSound
  /\ AckedIsServed
  /\ EffectsMatchAnswer
  /\ BoundedStaleness

-----------------------------------------------------------------------------
(* The parts of the invariant *)

\* An answer that no step may give wrongly.
GoodAnswer(a) ==
  /\ a \in AnswerType
  /\ a.kind = "done" => a.effects = 1
  /\ a.kind = "error" => a.effects <= 1
  /\ a.kind \notin {"done", "error"} => a.effects = 0
  /\ a.age <= CacheTtl + HttpTimeout

LEMMA AnswerStep ==
  ASSUME answer' # Nothing => GoodAnswer(answer')
  PROVE  /\ answer' \in AnswerType \cup {Nothing}
         /\ BoundedStaleness' /\ EffectsMatchAnswer'
  BY DEF GoodAnswer, AnswerType, BoundedStaleness, EffectsMatchAnswer

LEMMA IdleSound == Sound(Idle) /\ Idle.pc = "idle"
  BY DEF Sound, Idle

LEMMA ExecutionTypes ==
  ASSUME TypeOK, NEW c \in Callers, call[c].pc # "idle"
  PROVE  /\ call[c] \in ExecutionType
         /\ call[c].tenant \in Tenants /\ call[c].path \in Paths
         /\ call[c].sentAt \in Nat /\ call[c].effects \in Nat
         /\ server[call[c].tenant][call[c].path] \in Version
         /\ acked[call[c].tenant][call[c].path] \in Version
<1>1. call[c] \in ExecutionType
  BY DEF TypeOK, Idle
<1> QED BY <1>1, ConstantsAssumption DEF TypeOK, ExecutionType

\* A step of one execution that leaves the clock, the API and the cache.
LEMMA CallStep ==
  ASSUME ToolInv, NEW c \in Callers, NEW x \in ExecutionType \cup {Idle},
         Become(c, x), Sound(x), UNCHANGED <<now, server, stored, acked>>,
         active' = active, answer' # Nothing => GoodAnswer(answer')
  PROVE  ToolInv'
<1>1. /\ call' \in [Callers -> ExecutionType \cup {Idle}]
      /\ call'[c] = x /\ \A d \in Callers : d = c \/ call'[d] = call[d]
  BY DEF Become, ToolInv, TypeOK
<1>2. TypeOK'
  BY <1>1, AnswerStep DEF ToolInv, TypeOK
<1>3. ExecutionsSound'
  BY <1>1 DEF ToolInv, ExecutionsSound, Sound
<1> QED BY <1>2, <1>3, AnswerStep DEF ToolInv, StoredSound, AckedIsServed

\* An execution ends and leaves the clock, the API and the cache.
LEMMA EndStep ==
  ASSUME ToolInv, NEW c \in Callers, NEW kind, NEW effects, NEW age,
         Return(c, kind, effects, age),
         GoodAnswer([kind |-> kind, effects |-> effects, age |-> age]),
         UNCHANGED <<now, active, server, stored, acked>>
  PROVE  ToolInv'
  BY CallStep, IdleSound DEF Return

LEMMA ToolInit == Init => ToolInv
<1> SUFFICES ASSUME Init PROVE ToolInv
  OBVIOUS
<1>1. TypeOK
  BY ConstantsAssumption DEF Init, TypeOK, Version
<1>2. ExecutionsSound
  BY IdleSound DEF Init, ExecutionsSound
<1>3. AckedIsServed
  BY DEF Init, AckedIsServed
<1> QED BY <1>1, <1>2, <1>3, IdleSound
       DEF Init, ToolInv, StoredSound, EffectsMatchAnswer, BoundedStaleness

-----------------------------------------------------------------------------
(* Steps that come before a request, or end without one *)

LEMMA DocumentationStep ==
  ASSUME ToolInv, NEW c \in Callers, ReturnsDocumentation(c)
  PROVE  ToolInv'
<1>1. Effects(c) = 0
  BY DEF ReturnsDocumentation, Effects
<1>2. \A kind \in {"documentation", "throws"} :
        GoodAnswer([kind |-> kind, effects |-> 0, age |-> 0])
  BY ConstantsAssumption DEF GoodAnswer, AnswerType
<1> QED BY <1>1, <1>2, EndStep DEF ReturnsDocumentation, ReturnNothing

LEMMA NothingDone ==
  ASSUME ToolInv, NEW c \in Callers, call[c].pc \in {"idle", "quota", "limiter"}
  PROVE  /\ Effects(c) = 0
         /\ \A kind \in {"invalid", "denied", "rejected"} :
              GoodAnswer([kind |-> kind, effects |-> Effects(c), age |-> 0])
<1>1. Effects(c) = 0
  BY DEF Effects, ToolInv, ExecutionsSound, Sound
<1> QED BY <1>1, ConstantsAssumption DEF GoodAnswer, AnswerType

LEMMA InvalidStep ==
  ASSUME ToolInv, NEW c \in Callers, ReturnsInvalid(c)
  PROVE  ToolInv'
  BY NothingDone, EndStep DEF ReturnsInvalid, ReturnNothing

LEMMA DeniedStep ==
  ASSUME ToolInv, NEW c \in Callers, QuotaDenies(c)
  PROVE  ToolInv'
  BY NothingDone, EndStep DEF QuotaDenies, ReturnNothing

LEMMA RejectedStep ==
  ASSUME ToolInv, NEW c \in Callers,
         LimiterAdmitsUnsupported(c) \/ LimiterRejects(c)
  PROVE  ToolInv'
  BY NothingDone, EndStep DEF LimiterAdmitsUnsupported, LimiterRejects, ReturnNothing

LEMMA StartStep ==
  ASSUME ToolInv, NEW c \in Callers, NEW p \in Paths, NEW m \in Methods,
         StartsCreate(c, p) \/ StartsRequest(c, m, p)
  PROVE  ToolInv'
<1>1. ASSUME NEW pc \in {"quota", "limiter"}, NEW n \in Methods \cup {"POST"},
             active # Nothing
      PROVE  Execution(pc, n, p) \in ExecutionType /\ Sound(Execution(pc, n, p))
  BY <1>1, ConstantsAssumption
     DEF Execution, ExecutionType, Sound, ToolInv, TypeOK
<1>2. CASE StartsCreate(c, p)
  BY <1>1, <1>2, CallStep DEF StartsCreate, NoAnswer
<1>3. CASE StartsRequest(c, m, p)
  BY <1>1, <1>3, CallStep DEF StartsRequest, NoAnswer
<1> QED BY <1>2, <1>3

LEMMA CachedStep ==
  ASSUME ToolInv, NEW c \in Callers, NEW p \in Paths, ReturnsCached(c, p)
  PROVE  ToolInv'
<1> DEFINE age == now - stored[p].data.readAt
<1>1. /\ stored[p] # Nothing /\ now <= stored[p].until
      /\ stored[p].until \in Nat /\ stored[p].data.readAt \in 0 .. MaxTime
  BY DEF ReturnsCached, Cache!Live, ToolInv, TypeOK, Response
<1>2. /\ stored[p].data.readAt <= now
      /\ stored[p].until <= stored[p].data.readAt + HttpTimeout + CacheTtl
  BY <1>1 DEF ToolInv, StoredSound
<1>3. age \in 0 .. MaxTime /\ age <= CacheTtl + HttpTimeout
  BY <1>1, <1>2, ConstantsAssumption DEF ToolInv, TypeOK
<1>4. GoodAnswer([kind |-> "data", effects |-> 0, age |-> age])
  BY <1>3 DEF GoodAnswer, AnswerType
<1> QED BY <1>4, EndStep DEF ReturnsCached

LEMMA AdmittedStep ==
  ASSUME ToolInv, NEW c \in Callers, QuotaAllows(c) \/ LimiterAdmits(c)
  PROVE  ToolInv'
<1>1. /\ call[c] \in ExecutionType /\ call[c].effects = 0
      /\ now \in 0 .. MaxTime /\ MaxTime \in Nat
  BY ExecutionTypes, ConstantsAssumption
     DEF QuotaAllows, LimiterAdmits, ToolInv, ExecutionsSound, Sound, TypeOK
<1>2. CASE QuotaAllows(c)
  <2> DEFINE x == [call[c] EXCEPT !.pc = "limiter"]
  <2>1. x \in ExecutionType /\ Sound(x)
    BY <1>1 DEF ExecutionType, Sound
  <2> QED BY <1>2, <2>1, CallStep DEF QuotaAllows, NoAnswer
<1>3. CASE LimiterAdmits(c)
  <2> DEFINE x == [call[c] EXCEPT !.pc = "sent", !.sentAt = now]
  <2>1. x \in ExecutionType
    BY <1>1 DEF ExecutionType
  <2>2. x.pc = "sent" /\ x.sentAt = now /\ x.effects = 0
    BY <1>1 DEF ExecutionType
  <2>3. Sound(x)
    BY <1>1, <2>2, ConstantsAssumption DEF Sound
  <2> QED BY <1>3, <2>1, <2>3, CallStep DEF LimiterAdmits, NoAnswer
<1> QED BY <1>2, <1>3

-----------------------------------------------------------------------------
(* Requests, responses, and what follows them *)

\* Carrying a request out moves versions on, and not past the bound.
LEMMA AppliedGrows ==
  ASSUME ToolInv, NEW c \in Callers, call[c].pc = "sent", HasRoom(c)
  PROVE  /\ Applied(c) \in [Tenants -> [Paths -> Version]]
         /\ \A t \in Tenants, p \in Paths : server[t][p] <= Applied(c)[t][p]
<1> DEFINE t0 == call[c].tenant
           affected == Affects[call[c].path]
<1>1. /\ t0 \in Tenants /\ affected \subseteq Paths
      /\ server \in [Tenants -> [Paths -> 0 .. MaxVersion]] /\ MaxVersion \in Nat
  BY ExecutionTypes, ConstantsAssumption DEF ToolInv, TypeOK, Version
<1>2. CASE call[c].method = "GET"
  BY <1>1, <1>2 DEF Applied, Version
<1>3. CASE call[c].method # "GET"
  <2> DEFINE moved == [q \in Paths |-> IF q \in affected THEN server[t0][q] + 1
                                                         ELSE server[t0][q]]
  <2>1. \A q \in affected : server[t0][q] < MaxVersion
    BY <1>3 DEF HasRoom
  <2>2. moved \in [Paths -> 0 .. MaxVersion]
    BY <1>1, <2>1
  <2>3. Applied(c) = [server EXCEPT ![t0] = moved]
    BY <1>3 DEF Applied
  <2>4. \A q \in Paths : server[t0][q] <= moved[q]
    BY <1>1
  <2> HIDE DEF moved, t0
  <2> QED BY <1>1, <2>2, <2>3, <2>4 DEF Version
<1> QED BY <1>2, <1>3

\* The versions of the API go up; every execution but one is as it was.
LEMMA ServerGrows ==
  ASSUME ToolInv, UNCHANGED <<now, stored, acked>>,
         server' \in [Tenants -> [Paths -> Version]],
         \A t \in Tenants, p \in Paths : server[t][p] <= server'[t][p]
  PROVE  /\ AckedIsServed' /\ StoredSound'
         /\ \A d \in Callers : Sound(call[d])'
                \/ call'[d] # call[d]
<1>1. AckedIsServed'
  BY ConstantsAssumption DEF ToolInv, AckedIsServed, TypeOK, Version
<1>2. StoredSound'
  BY DEF ToolInv, StoredSound
<1>3. ASSUME NEW d \in Callers, call'[d] = call[d]
      PROVE  Sound(call[d])'
  <2>1. CASE call[d].pc # "responded"
    BY <1>3, <2>1 DEF ToolInv, ExecutionsSound, Sound
  <2>2. CASE call[d].pc = "responded"
    <3>1. /\ call[d].response.version \in Nat
          /\ server[call[d].tenant][call[d].path] \in Nat
          /\ server'[call[d].tenant][call[d].path] \in Nat
          /\ server[call[d].tenant][call[d].path] <= server'[call[d].tenant][call[d].path]
      BY <2>2, ExecutionTypes, ConstantsAssumption
         DEF ToolInv, ExecutionsSound, Sound, Response, Version
    <3> QED BY <1>3, <2>2, <3>1 DEF ToolInv, ExecutionsSound, Sound
  <2> QED BY <2>1, <2>2
<1> QED BY <1>1, <1>2, <1>3

LEMMA RespondedStep ==
  ASSUME ToolInv, NEW c \in Callers, NEW ok \in BOOLEAN, ApiResponds(c, ok)
  PROVE  ToolInv'
<1> DEFINE x == call[c]
           v == server'[x.tenant][x.path]
           r == [tenant |-> x.tenant, version |-> v, readAt |-> now, ok |-> ok,
                 overtaken |-> FALSE]
           y == [x EXCEPT !.pc = "responded", !.effects = EffectsAfter(c, ok),
                          !.response = r]
<1>1. /\ x.pc = "sent" /\ x \in ExecutionType /\ x.effects = 0
      /\ x.tenant \in Tenants /\ x.path \in Paths
      /\ x.sentAt \in Nat /\ x.sentAt <= now /\ now <= x.sentAt + HttpTimeout
      /\ now \in 0 .. MaxTime /\ HttpTimeout \in Nat
  BY ExecutionTypes, ConstantsAssumption
     DEF ApiResponds, ToolInv, ExecutionsSound, Sound, TypeOK
<1>2. /\ server' \in [Tenants -> [Paths -> Version]]
      /\ \A t \in Tenants, p \in Paths : server[t][p] <= server'[t][p]
  <2>1. CASE ok
    BY <1>1, <2>1, AppliedGrows DEF ApiResponds
  <2>2. CASE ~ok
    BY <2>2, ConstantsAssumption DEF ApiResponds, ToolInv, TypeOK, Version
  <2> QED BY <2>1, <2>2
<1>3. v \in Version /\ acked[x.tenant][x.path] <= v /\ v <= v
  <2>1. acked[x.tenant][x.path] <= server[x.tenant][x.path]
    BY <1>1 DEF ToolInv, AckedIsServed
  <2>2. server[x.tenant][x.path] <= v /\ v \in Version
    BY <1>1, <1>2
  <2>3. acked[x.tenant][x.path] \in Version /\ server[x.tenant][x.path] \in Version
    BY <1>1 DEF ToolInv, TypeOK
  <2> HIDE DEF v, x
  <2> QED BY <2>1, <2>2, <2>3, ConstantsAssumption DEF Version
<1>4. r \in Response
  BY <1>1, <1>3 DEF Response
<1>5. /\ EffectsAfter(c, ok) \in Nat
      /\ EffectsAfter(c, ok) = IF ok /\ x.method # "GET" THEN 1 ELSE 0
  BY <1>1 DEF EffectsAfter
<1>6. /\ y \in ExecutionType /\ y.pc = "responded" /\ y.response = r
      /\ y.effects = EffectsAfter(c, ok) /\ y.sentAt = x.sentAt
      /\ y.tenant = x.tenant /\ y.path = x.path /\ y.method = x.method
  BY <1>1, <1>4, <1>5 DEF ExecutionType
<1>7. /\ call' \in [Callers -> ExecutionType \cup {Idle}]
      /\ call'[c] = y /\ \A d \in Callers : d = c \/ call'[d] = call[d]
  BY <1>6 DEF ApiResponds, Become, ToolInv, TypeOK
<1>8. /\ r.tenant = x.tenant /\ r.readAt = now /\ r.version = v
      /\ r.overtaken = FALSE /\ r.ok = ok
  OBVIOUS
<1> HIDE DEF y, r
<1>9. Sound(call[c])'
  BY <1>1, <1>3, <1>4, <1>5, <1>6, <1>7, <1>8 DEF ApiResponds, Sound
<1>10. /\ UNCHANGED <<now, active, stored, acked>> /\ answer' = Nothing
  BY DEF ApiResponds, NoAnswer
<1>11. TypeOK'
  BY <1>2, <1>7, <1>10 DEF ToolInv, TypeOK
<1>12. ExecutionsSound'
  BY <1>2, <1>7, <1>9, <1>10, ServerGrows DEF ExecutionsSound
<1> QED BY <1>2, <1>10, <1>11, <1>12, ServerGrows
       DEF ToolInv, BoundedStaleness, EffectsMatchAnswer

LEMMA FailedStep ==
  ASSUME ToolInv, NEW c \in Callers, NEW applied \in BOOLEAN, RequestFails(c, applied)
  PROVE  ToolInv'
<1> DEFINE a == [kind |-> "error", effects |-> EffectsAfter(c, applied), age |-> 0]
<1>1. /\ call[c].pc = "sent" /\ call[c].effects = 0
      /\ UNCHANGED <<now, active, stored, acked>> /\ answer' = a
  BY DEF RequestFails, Return, ToolInv, ExecutionsSound, Sound
<1>2. /\ server' \in [Tenants -> [Paths -> Version]]
      /\ \A t \in Tenants, p \in Paths : server[t][p] <= server'[t][p]
  <2>1. CASE applied
    BY <1>1, <2>1, AppliedGrows DEF RequestFails
  <2>2. CASE ~applied
    BY <2>2, ConstantsAssumption DEF RequestFails, ToolInv, TypeOK, Version
  <2> QED BY <2>1, <2>2
<1>3. /\ call' \in [Callers -> ExecutionType \cup {Idle}]
      /\ call'[c] = Idle /\ \A d \in Callers : d = c \/ call'[d] = call[d]
  BY DEF RequestFails, Return, Become, ToolInv, TypeOK
<1>4. GoodAnswer(a)
  BY <1>1, ConstantsAssumption DEF GoodAnswer, AnswerType, EffectsAfter
<1>5. TypeOK'
  BY <1>1, <1>2, <1>3, <1>4 DEF ToolInv, TypeOK, GoodAnswer
<1>6. ExecutionsSound'
  <2>1. Sound(Idle)'
    BY DEF Sound, Idle
  <2> QED BY <1>1, <1>2, <1>3, <2>1, ServerGrows DEF ExecutionsSound
<1> QED BY <1>1, <1>2, <1>4, <1>5, <1>6, AnswerStep, ServerGrows DEF ToolInv

LEMMA ReadStep ==
  ASSUME ToolInv, NEW c \in Callers, GetCompletes(c)
  PROVE  ToolInv'
<1> DEFINE x == call[c]
           age == now - x.response.readAt
           entry == [data |-> x.response, until |-> now + CacheTtl]
<1>1. /\ x.pc = "responded" /\ x \in ExecutionType /\ x.response \in Response
      /\ x.response.tenant = x.tenant /\ x.tenant \in Tenants /\ x.path \in Paths
      /\ x.sentAt \in Nat /\ x.sentAt <= x.response.readAt
      /\ x.response.readAt \in Nat /\ x.response.readAt <= now
      /\ now \in 0 .. MaxTime /\ now <= x.sentAt + HttpTimeout
      /\ x.response.overtaken
           \/ x.response.version >= acked[x.response.tenant][x.path]
  BY ExecutionTypes
     DEF GetCompletes, ToolInv, ExecutionsSound, Sound, TypeOK, Response
<1>2. UNCHANGED <<now, active, server, acked>>
  BY DEF GetCompletes
<1>3. age \in 0 .. MaxTime /\ age <= HttpTimeout /\ age <= CacheTtl + HttpTimeout
  BY <1>1, ConstantsAssumption
<1>4. GoodAnswer([kind |-> "data", effects |-> 0, age |-> age])
  BY <1>3 DEF GoodAnswer, AnswerType
<1>5. /\ call' \in [Callers -> ExecutionType \cup {Idle}]
      /\ call'[c] = Idle /\ \A d \in Callers : d = c \/ call'[d] = call[d]
      /\ answer' = [kind |-> "data", effects |-> 0, age |-> age]
  BY DEF GetCompletes, Return, Become, ToolInv, TypeOK
<1>6. /\ stored' \in [Paths -> [data : Response, until : Nat] \cup {Nothing}]
      /\ \A p \in Paths :
           stored'[p] = stored[p] \/ (p = x.path /\ stored'[p] = entry)
  BY <1>1, ConstantsAssumption DEF GetCompletes, Cache!Store, ToolInv, TypeOK
<1>7. StoredSound'
  <2>1. entry.data = x.response /\ entry.until = now + CacheTtl
    OBVIOUS
  <2>2. entry.until <= entry.data.readAt + HttpTimeout + CacheTtl
    BY <1>1, <2>1, ConstantsAssumption
  <2> HIDE DEF entry, x
  <2> QED BY <1>1, <1>2, <1>6, <2>1, <2>2 DEF ToolInv, StoredSound
<1>8. ExecutionsSound'
  BY <1>2, <1>5, IdleSound DEF ToolInv, ExecutionsSound, Sound
<1>9. EffectsMatchAnswer' /\ BoundedStaleness'
  BY <1>4, <1>5, AnswerStep
<1>10. TypeOK'
  BY <1>2, <1>4, <1>5, <1>6 DEF ToolInv, TypeOK, GoodAnswer
<1> QED BY <1>2, <1>7, <1>8, <1>9, <1>10 DEF ToolInv, AckedIsServed

LEMMA MutatedStep ==
  ASSUME ToolInv, NEW c \in Callers, MutationCompletes(c)
  PROVE  ToolInv'
<1> DEFINE x == call[c]
           a == [kind |-> StatusKind(c), effects |-> x.effects, age |-> 0]
           late(d) == [call[d] EXCEPT !.response.overtaken = TRUE]
<1>1. /\ x.pc = "responded" /\ x \in ExecutionType
      /\ x.response \in Response
      /\ x.tenant \in Tenants /\ x.path \in Paths /\ x.response.tenant = x.tenant
      /\ x.response.version \in Nat
      /\ x.effects = IF x.response.ok THEN 1 ELSE 0
      /\ x.response.version <= server[x.tenant][x.path]
  BY ExecutionTypes, ConstantsAssumption
     DEF MutationCompletes, ToolInv, ExecutionsSound, Sound, Response, Version
<1>2. /\ UNCHANGED <<now, active, server>> /\ answer' = a
  BY DEF MutationCompletes
<1>3. GoodAnswer(a)
  BY <1>1, ConstantsAssumption DEF GoodAnswer, AnswerType, StatusKind
<1>4. /\ acked' \in [Tenants -> [Paths -> Version]]
      /\ \A t \in Tenants, p \in Paths :
           \/ acked'[t][p] = acked[t][p]
           \/ /\ t = x.tenant /\ p = x.path
              /\ acked'[t][p] = x.response.version
  <2>1. x.response.version \in Version
    BY <1>1 DEF Response
  <2>2. acked \in [Tenants -> [Paths -> Version]]
    BY DEF ToolInv, TypeOK
  <2>3. acked' = acked \/ acked' = [acked EXCEPT ![x.tenant][x.path] = x.response.version]
    <3>1. CASE ~x.response.ok \/ ~(acked[x.tenant][x.path] < x.response.version)
      BY <1>1, <2>2, <3>1 DEF MutationCompletes, Acknowledge
    <3>2. CASE x.response.ok /\ acked[x.tenant][x.path] < x.response.version
      BY <1>1, <2>2, <3>2 DEF MutationCompletes, Acknowledge
    <3> QED BY <3>1, <3>2
  <2> HIDE DEF x
  <2> QED BY <1>1, <2>1, <2>2, <2>3
<1>5. AckedIsServed'
  BY <1>1, <1>2, <1>4 DEF ToolInv, AckedIsServed
<1>6. /\ stored' \in [Paths -> [data : Response, until : Nat] \cup {Nothing}]
      /\ stored'[x.path] = Nothing
      /\ \A p \in Paths : p = x.path \/ stored'[p] = stored[p]
  BY <1>1 DEF MutationCompletes, Cache!Forget, ToolInv, TypeOK
<1>7. StoredSound'
  <2> SUFFICES ASSUME NEW p \in Paths, stored'[p] # Nothing
               PROVE  /\ stored'[p].data.readAt <= now'
                      /\ stored'[p].until
                           <= stored'[p].data.readAt + HttpTimeout + CacheTtl
                      /\ stored'[p].data.overtaken
                           \/ stored'[p].data.version >= acked'[stored'[p].data.tenant][p]
    BY DEF StoredSound
  <2>1. p # x.path /\ stored'[p] = stored[p] /\ stored[p] # Nothing
    BY <1>6
  <2>2. stored[p].data.tenant \in Tenants
    BY <2>1 DEF ToolInv, TypeOK, Response
  <2>3. acked'[stored[p].data.tenant][p] = acked[stored[p].data.tenant][p]
    BY <1>4, <2>1, <2>2
  <2> QED BY <1>2, <2>1, <2>3 DEF ToolInv, StoredSound
<1>8. ASSUME NEW d \in Overtaken(c)
      PROVE  /\ late(d) \in ExecutionType /\ late(d).pc = "responded"
             /\ late(d).response \in Response
             /\ late(d).response.overtaken = TRUE
             /\ late(d).response.ok = call[d].response.ok
             /\ late(d).effects = call[d].effects
             /\ late(d).sentAt = call[d].sentAt /\ late(d).method = call[d].method
             /\ late(d).tenant = call[d].tenant /\ late(d).path = call[d].path
             /\ late(d).response.tenant = call[d].response.tenant
             /\ late(d).response.readAt = call[d].response.readAt
             /\ late(d).response.version = call[d].response.version
  <2>1. d \in Callers /\ call[d].pc = "responded"
    BY DEF Overtaken
  <2>2. call[d] \in ExecutionType /\ call[d].response \in Response
    BY <2>1, ExecutionTypes DEF ToolInv, ExecutionsSound, Sound
  <2> QED BY <2>1, <2>2 DEF ExecutionType, Response
<1>9. /\ DOMAIN call' = Callers /\ call' = [d \in Callers |-> call'[d]]
      /\ call'[c] = Idle
      /\ \A d \in Overtaken(c) : call'[d] = late(d)
      /\ \A d \in Callers : d = c \/ d \in Overtaken(c) \/ call'[d] = call[d]
      /\ Overtaken(c) \subseteq Callers
      /\ \A d \in Overtaken(c) : call[d].pc = "responded"
  BY DEF MutationCompletes, Overtaken
<1> HIDE DEF late
<1>10. call' \in [Callers -> ExecutionType \cup {Idle}]
  <2> SUFFICES ASSUME NEW d \in Callers PROVE call'[d] \in ExecutionType \cup {Idle}
    BY <1>9
  <2>1. CASE d \in Overtaken(c)
    BY <1>8, <1>9, <2>1
  <2>2. CASE d \notin Overtaken(c)
    BY <1>9, <2>2 DEF ToolInv, TypeOK
  <2> QED BY <2>1, <2>2
<1>11. ExecutionsSound'
  <2> SUFFICES ASSUME NEW d \in Callers PROVE Sound(call[d])'
    BY DEF ExecutionsSound
  <2>1. CASE d = c
    BY <1>9, <2>1 DEF Sound, Idle
  <2>2. CASE d \in Overtaken(c)
    <3>1. /\ call[d].pc = "responded" /\ call'[d] = late(d)
          /\ Sound(call[d])
      BY <1>9, <2>2 DEF ToolInv, ExecutionsSound
    <3>2. /\ call'[d].effects = call[d].effects
          /\ call'[d].response.ok = call[d].response.ok
          /\ call'[d].method = call[d].method
      BY <1>8, <2>2, <3>1
    <3>3. call[d].effects
            = IF call[d].response.ok /\ call[d].method # "GET" THEN 1 ELSE 0
      BY <3>1 DEF Sound
    <3>4. call'[d].effects
            = IF call'[d].response.ok /\ call'[d].method # "GET" THEN 1 ELSE 0
      BY <3>2, <3>3, Zenon
    <3> QED BY <1>2, <1>8, <2>2, <3>1, <3>4 DEF Sound
  <2>3. CASE d # c /\ d \notin Overtaken(c)
    <3>1. call'[d] = call[d]
      BY <1>9, <2>3
    <3>2. CASE call[d].pc # "responded"
      BY <1>2, <3>1, <3>2 DEF Sound, ToolInv, ExecutionsSound
    <3>3. CASE call[d].pc = "responded"
      <4>1. call[d].tenant \in Tenants /\ call[d].path \in Paths
        BY <3>3, ExecutionTypes DEF ToolInv
      <4>2. call[d].tenant # x.tenant \/ call[d].path # x.path
        BY <2>3, <3>3 DEF Overtaken
      <4>3. acked'[call[d].tenant][call[d].path] = acked[call[d].tenant][call[d].path]
        BY <1>4, <4>1, <4>2
      <4> QED BY <1>2, <3>1, <3>3, <4>3 DEF Sound, ToolInv, ExecutionsSound
    <3> QED BY <3>2, <3>3
  <2> QED BY <2>1, <2>2, <2>3
<1>12. TypeOK'
  BY <1>2, <1>3, <1>4, <1>6, <1>10 DEF ToolInv, TypeOK, GoodAnswer
<1> QED BY <1>2, <1>3, <1>5, <1>7, <1>11, <1>12, AnswerStep DEF ToolInv

-----------------------------------------------------------------------------
(* The session and the clock *)

LEMMA SwitchStep ==
  ASSUME ToolInv, NEW t \in Tenants \cup {Nothing}, SwitchSession(t)
  PROVE  ToolInv'
<1>1. /\ UNCHANGED <<now, server, stored, call, acked>>
      /\ active' = t /\ answer' = Nothing
  BY DEF SwitchSession, NoAnswer
<1> QED BY <1>1 DEF ToolInv, TypeOK, ExecutionsSound, Sound, StoredSound,
     AckedIsServed, EffectsMatchAnswer, BoundedStaleness

LEMMA TickStep ==
  ASSUME ToolInv, Tick
  PROVE  ToolInv'
<1>1. /\ UNCHANGED <<active, server, call, acked>> /\ answer' = Nothing
      /\ now' = now + 1 /\ now < MaxTime /\ now \in Nat /\ MaxTime \in Nat
      /\ \A p \in Paths : stored'[p] = stored[p] \/ stored'[p] = Nothing
      /\ stored' \in [Paths -> [data : Response, until : Nat] \cup {Nothing}]
  BY ConstantsAssumption DEF Tick, NoAnswer, ToolInv, TypeOK
<1>2. TypeOK'
  BY <1>1 DEF ToolInv, TypeOK
<1>3. ExecutionsSound'
  <2> SUFFICES ASSUME NEW d \in Callers PROVE Sound(call[d])'
    BY DEF ExecutionsSound
  <2>1. Sound(call[d])
    BY DEF ToolInv, ExecutionsSound
  <2>2. CASE call[d].pc \in {"sent", "responded"}
    <3>1. call[d].sentAt \in Nat /\ now < call[d].sentAt + HttpTimeout
      BY <2>2, ExecutionTypes DEF Tick, InFlight, ToolInv
    <3>2. now + 1 <= call[d].sentAt + HttpTimeout /\ call[d].sentAt <= now + 1
      BY <1>1, <2>1, <2>2, <3>1, ConstantsAssumption DEF Sound
    <3>3. call[d].pc = "responded" => call[d].response.readAt <= now + 1
      BY <1>1, <2>1 DEF Sound, Response
    <3> QED BY <1>1, <2>1, <2>2, <3>2, <3>3 DEF Sound
  <2>3. CASE call[d].pc \notin {"sent", "responded"}
    BY <1>1, <2>1, <2>3 DEF Sound
  <2> QED BY <2>2, <2>3
<1>4. StoredSound'
  BY <1>1, <1>2 DEF ToolInv, StoredSound, TypeOK, Response
<1> QED BY <1>1, <1>2, <1>3, <1>4
       DEF ToolInv, AckedIsServed, EffectsMatchAnswer, BoundedStaleness

LEMMA ToolStep == ToolInv /\ [Next]_vars => ToolInv'
<1> SUFFICES ASSUME ToolInv, [Next]_vars PROVE ToolInv'
  OBVIOUS
<1>1. CASE UNCHANGED vars
  BY <1>1 DEF vars, ToolInv, TypeOK, ExecutionsSound, Sound, StoredSound,
     AckedIsServed, EffectsMatchAnswer, BoundedStaleness
<1> QED
  BY <1>1, DocumentationStep, InvalidStep, AdmittedStep, DeniedStep, RejectedStep,
     StartStep, CachedStep, RespondedStep, FailedStep, ReadStep, MutatedStep,
     SwitchStep, TickStep, ConstantsAssumption
     DEF Next

-----------------------------------------------------------------------------

LEMMA ToolInvariant == Spec => []ToolInv
  BY ToolInit, ToolStep, PTL DEF Spec

\* Versions, responses, executions and answers keep their shape, and no age is negative
\* or past the bound of the clock, however many executions interleave.
THEOREM TypeCorrect == Spec => []TypeOK
<1>1. ToolInv => TypeOK
  BY DEF ToolInv
<1> QED BY <1>1, ToolInvariant, PTL

\* A mutation that executeTool() answers with a 2xx status was carried out by the API
\* exactly once, one that ends in an error at most once, and with any other answer the API
\* has carried out nothing for the execution, however executions interleave.
THEOREM EffectsAreReported == Spec => []EffectsMatchAnswer
<1>1. ToolInv => EffectsMatchAnswer
  BY DEF ToolInv
<1> QED BY <1>1, ToolInvariant, PTL

\* The response cache shows every mutation that was reported as a success through the
\* same path, unless the response it holds was under way when that was reported.
THEOREM FreshnessHolds == Spec => []FreshUnlessOvertaken
<1>1. ToolInv => FreshUnlessOvertaken
  BY DEF ToolInv, StoredSound, FreshUnlessOvertaken, Cache!Live
<1> QED BY <1>1, ToolInvariant, PTL

\* No answer of executeTool() shows the API as it was longer ago than the time to live
\* of the cache and the timeout of a request together.
THEOREM StalenessIsBounded == Spec => []BoundedStaleness
<1>1. ToolInv => BoundedStaleness
  BY DEF ToolInv
<1> QED BY <1>1, ToolInvariant, PTL
=============================================================================
