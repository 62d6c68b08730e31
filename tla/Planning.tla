------------------------------- MODULE Planning -------------------------------
(***************************************************************************)
(* From the specifications to a plan: the generator builds the dependency  *)
(* graph (DependencyGraph), the file it writes is read by the server, and  *)
(* resolveDependencies() plans on it (Resolver).  Two walks over the same  *)
(* edges, one before the release and one in the server, answer what has to *)
(* be created before a resource: f5xc-api-dependencies shows the creation  *)
(* order of the first, f5xc-api-resolve-dependencies the plan of the       *)
(* second.                                                                 *)
(***************************************************************************)
EXTENDS DependencyGraph

CONSTANTS
  Unknown,    \* resources that references name without a domain
  Target, Existings, MaxDepths

VARIABLES need, existing, optional, maxDepth, pc, stack, visited, collected, inDegree,
          ready, sorted, turns, steps, truncated

planVars == <<need, existing, optional, maxDepth, pc, stack, visited, collected,
              inDegree, ready, sorted, turns, steps, truncated>>

vars == <<graphVars, planVars>>

\* The specifications are filed by domain: no operations have an unknown one.
ASSUME UnknownHaveNoOperations ==
  /\ Unknown \subseteq Resources
  /\ \A x \in Extractions : Unknown \cap DOMAIN x = {}

\* createResourceKey() of a reference, as the planner calls it.  The domain of a
\* reference is empty when it is not known: the generator puts "unknown" in its place
\* before it makes the key, "unknown/x", and the planner makes the key "/x", which is
\* written -x here.
PlannerKey(p) == IF p \in Unknown THEN -p ELSE p

\* What the planner can be asked for, find, or be told: existingResources holds
\* whatever keys its caller has seen.
PlannerKeys == Resources \cup {PlannerKey(p) : p \in Resources}

\* The planner; its own Init, over given graphs, is not used.
Plan == INSTANCE Resolver WITH Resources <- PlannerKeys, Graphs <- {}

ASSUME PlannerConstants == Plan!ResolverConstants

Strength(refs, p) ==
  LET at == Place(refs, p) IN
  IF at = 0 THEN "none" ELSE IF refs[at].required THEN "required" ELSE "optional"

\* What the generator writes to the file, as the planner looks at it.  References keep
\* their domain, the empty one too, so that no reference has a key "unknown/x".
Written ==
  [r \in Nodes |-> [k \in PlannerKeys |->
     IF k \in Unknown THEN "none"
     ELSE Strength(requires[r], IF -k \in Unknown THEN -k ELSE k)]]

Init ==
  /\ GraphInit
  /\ Plan!Idle
  /\ need = [r \in {} |-> << >>]

Generate == GraphStep /\ UNCHANGED planVars

\* loadDependencyGraph(): the file is read once, when the graph is finished.
Load ==
  /\ phase = "built" /\ need # Written
  /\ need' = Written
  /\ UNCHANGED <<graphVars, existing, optional, maxDepth, pc, stack, visited,
                 collected, inDegree, ready, sorted, turns, steps, truncated>>

Request ==
  /\ phase = "built" /\ need = Written
  /\ Plan!Call
  /\ UNCHANGED graphVars

Resolve == Plan!Step /\ UNCHANGED graphVars

Next == Generate \/ Load \/ Request \/ Resolve

\* Generator and planner run to their ends; a request need not come.
Spec == Init /\ [][Next]_vars /\ WF_vars(Generate) /\ WF_vars(Resolve)

-----------------------------------------------------------------------------
(* Properties *)

TypeOK ==
  /\ GraphTypeOK
  /\ Plan!TypeOK
  /\ pc # "idle" => need = Written

\* See Resolver: steps come after what they refer to, and what of the target may not.
OrderRespectsPrerequisites == Plan!OrderRespectsPrerequisites

\* See Resolver: nothing is created twice.
EachOnce == Plan!EachOnce

\* See Resolver: the walk finds exactly what the target needs.
WalkIsComplete == Plan!WalkIsComplete

\* See Resolver: what the sort leaves out of the plan, and why.
OmissionsExplained == Plan!OmissionsExplained

Walked == pc \in {"sort", "plan", "done"} /\ ~truncated /\ cut[Target] = {}

\* Two walks, one before the release and one in the server, find the same resources,
\* but the tools do not call them the same: what the creation order of the target names
\* "unknown/x" the plan names "/x", and a caller has to translate.  Translated, what the
\* planner collects is among what the creation order lists, and is all of it when nothing
\* exists yet and optional references are followed.  As they stand, the two name nothing
\* of unknown domain in common.
PlanAgreesWithCreationOrder ==
  Walked =>
    LET listed     == ElementsOf(creationOrder[Target])
        translated == {PlannerKey(p) : p \in listed}
        planned    == {Target} \cup Plan!InGraph IN
    /\ planned \subseteq translated
    /\ existing = {} /\ optional => planned = translated
    /\ planned \cap listed \cap Unknown = {}

\* The graph is built and every request is answered, on every graph.
PlanningEnds ==
  /\ <>(phase = "built")
  /\ pc # "idle" ~> pc \in {"done", "failed"}
=============================================================================
