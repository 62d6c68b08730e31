------------------------------- MODULE Resolver -------------------------------
(***************************************************************************)
(* The planner behind f5xc-api-resolve-dependencies:                       *)
(* resolveDependencies() of src/src/tools/discovery/resolver.ts, over the  *)
(* dependency graph that the generator ships.                              *)
(*                                                                         *)
(* A depth-first walk collects what the target needs, Kahn's algorithm     *)
(* orders it, and the plan has a step per resource that has a create tool. *)
(* An action is one turn of one of the loops.  The order in which the      *)
(* graph lists the prerequisites of a resource, and in which the sort      *)
(* takes resources that are ready together, is left open.                  *)
(*                                                                         *)
(* (A definition named Bug... is the one that follows it with a mistake in *)
(* it; no behaviour of the model uses it.)                                 *)
(***************************************************************************)
EXTENDS Integers, Sequences, FiniteSets

CONSTANTS
  Resources,   \* "domain/resource" keys
  Target,      \* the resource to plan for
  Graphs,      \* dependency graphs: for each resource that has an entry, how it
               \* needs each resource
  Existings,   \* values of the parameter existingResources
  MaxDepths    \* values of the parameter maxDepth

VARIABLES
  need,        \* the graph: deps.requires of every resource that has an entry
  existing,    \* the parameter existingResources
  optional,    \* the parameter includeOptional
  maxDepth,    \* the parameter maxDepth
  pc,          \* "idle", "collect", "sort", "plan", "done" or "failed"
  stack,       \* the open calls of resolveTransitiveDependencies()
  visited,     \* their parameter of that name
  collected,   \* what the calls have returned so far, in order
  inDegree,    \* topologicalSort(): edges into a resource still to be removed
  ready,       \* its queue
  sorted,      \* its result so far
  turns,       \* of the loop over sorted that makes the plan, so far
  steps,       \* the resources of the steps of the plan
  truncated    \* history: maxDepth kept the walk from looking at a resource

params == <<existing, optional, maxDepth>>
vars == <<need, existing, optional, maxDepth, pc, stack, visited,
          collected, inDegree, ready, sorted, turns, steps, truncated>>

Needs == {"none", "optional", "required"}

\* What the constants are, assumed where the planner is used.
ResolverConstants ==
  /\ IsFiniteSet(Resources)
  /\ Target \in Resources
  /\ \A g \in Graphs : /\ DOMAIN g \subseteq Resources
                       /\ g \in [DOMAIN g -> [Resources -> Needs]]
  /\ Existings \subseteq SUBSET Resources
  /\ MaxDepths \subseteq Nat

\* getPrerequisiteResources(): none for a resource the graph has no entry for.
Prerequisites(r) ==
  IF r \in DOMAIN need THEN {p \in Resources : need[r][p] # "none"} ELSE {}

\* Those that a walk with the parameters e and o does not skip.
WantedWith(r, e, o) ==
  {p \in Prerequisites(r) \ e : need[r][p] = "required" \/ o}

Wanted(r) == WantedWith(r, existing, optional)

Frame(r, e, o) == [resource |-> r, todo |-> WantedWith(r, e, o)]

Elements(s) == {s[i] : i \in 1 .. Len(s)}

Occurrences(s, r) == Cardinality({i \in 1 .. Len(s) : s[i] = r})

Top == stack[Len(stack)]

Rest == SubSeq(stack, 1, Len(stack) - 1)

-----------------------------------------------------------------------------
(* resolveDependencies() *)

\* A call with no entry in the graph for its target fails at once.
Refuses(e, o, d) ==
  /\ pc = "idle"
  /\ Target \notin DOMAIN need
  /\ pc' = "failed"
  /\ existing' = e /\ optional' = o /\ maxDepth' = d
  /\ UNCHANGED <<need, stack, visited, collected, inDegree, ready, sorted, turns,
                 steps, truncated>>

Begins(e, o, d) ==
  /\ pc = "idle"
  /\ Target \in DOMAIN need
  /\ pc' = "collect"
  /\ existing' = e /\ optional' = o /\ maxDepth' = d
  /\ stack' = <<Frame(Target, e, o)>>
  /\ visited' = {Target}
  /\ UNCHANGED <<need, collected, inDegree, ready, sorted, turns, steps,
                 truncated>>

-----------------------------------------------------------------------------
(* resolveTransitiveDependencies(): the depth of a call is its place on the  *)
(* stack, the target's being 0                                               *)

Took(p) == Append(Rest, [Top EXCEPT !.todo = @ \ {p}])

\* The loop does not move past p.
BugNextIsNotExpanded(p) ==
  /\ pc = "collect" /\ stack # << >>
  /\ p \in Top.todo
  /\ p \in visited \/ Len(stack) > maxDepth
  /\ UNCHANGED vars

\* The call for p returns at once: p was visited before, or is too deep.
NextIsNotExpanded(p) ==
  /\ pc = "collect" /\ stack # << >>
  /\ p \in Top.todo
  /\ p \in visited \/ Len(stack) > maxDepth
  /\ stack' = Took(p)
  /\ collected' = Append(collected, p)
  /\ truncated' = (truncated \/ (p \notin visited))
  /\ UNCHANGED <<need, params, pc, visited, inDegree, ready, sorted,
                 turns, steps>>

\* Whether p was visited before is not looked at, only the depth of the call.
BugNextIsExpanded(p) ==
  /\ pc = "collect" /\ stack # << >>
  /\ p \in Top.todo
  /\ Len(stack) <= maxDepth
  /\ stack' = Append(Took(p), Frame(p, existing, optional))
  /\ visited' = visited \cup {p}
  /\ UNCHANGED <<need, params, pc, collected, inDegree, ready, sorted, turns,
                 steps, truncated>>

NextIsExpanded(p) ==
  /\ pc = "collect" /\ stack # << >>
  /\ p \in Top.todo
  /\ p \notin visited /\ Len(stack) <= maxDepth
  /\ stack' = Append(Took(p), Frame(p, existing, optional))
  /\ visited' = visited \cup {p}
  /\ UNCHANGED <<need, params, pc, collected, inDegree, ready, sorted, turns,
                 steps, truncated>>

\* The resource is left out of what its call returns.
BugCallReturns ==
  /\ pc = "collect" /\ Len(stack) > 1
  /\ Top.todo = {}
  /\ stack' = Rest
  /\ UNCHANGED <<need, params, pc, visited, collected, inDegree, ready, sorted, turns,
                 steps, truncated>>

\* A call that has gone through its prerequisites returns, and its resource
\* follows what it returned; the target's own call is the last.
CallReturns ==
  /\ pc = "collect" /\ Len(stack) > 1
  /\ Top.todo = {}
  /\ stack' = Rest
  /\ collected' = Append(collected, Top.resource)
  /\ UNCHANGED <<need, params, pc, visited, inDegree, ready, sorted, turns, steps,
                 truncated>>

-----------------------------------------------------------------------------
(* topologicalSort() *)

InGraph == Elements(collected)

\* The nodes with an edge into r.  Edges are kept in sets.
Before(r) == Prerequisites(r) \cap InGraph

\* Prerequisites that are not nodes are counted.
BugEdgesInto(r) == Occurrences(collected, r) * Cardinality(Prerequisites(r))

\* The edges into r are counted once per time r was collected.
EdgesInto(r) == Occurrences(collected, r) * Cardinality(Before(r))

SortStarts ==
  /\ pc = "collect" /\ Len(stack) = 1
  /\ Top.todo = {}
  /\ pc' = "sort"
  /\ stack' = << >>
  /\ inDegree' = [r \in InGraph |-> EdgesInto(r)]
  /\ ready' = {r \in InGraph : EdgesInto(r) = 0}
  /\ UNCHANGED <<need, params, visited, collected, sorted, turns, steps,
                 truncated>>

\* A resource is ready as soon as one of its edges is gone.
BugSortTakes(r) ==
  LET after == {q \in InGraph : r \in Before(q)} IN
  /\ pc = "sort" /\ r \in ready
  /\ sorted' = Append(sorted, r)
  /\ inDegree' = [q \in InGraph |->
                    IF q \in after THEN inDegree[q] - 1 ELSE inDegree[q]]
  /\ ready' = (ready \ {r}) \cup after
  /\ UNCHANGED <<need, params, pc, stack, visited, collected, turns, steps,
                 truncated>>

SortTakes(r) ==
  LET after == {q \in InGraph : r \in Before(q)} IN
  /\ pc = "sort" /\ r \in ready
  /\ sorted' = Append(sorted, r)
  /\ inDegree' = [q \in InGraph |->
                    IF q \in after THEN inDegree[q] - 1 ELSE inDegree[q]]
  /\ ready' = (ready \ {r}) \cup {q \in after : inDegree[q] = 1}
  /\ UNCHANGED <<need, params, pc, stack, visited, collected, turns, steps,
                 truncated>>

SortEnds ==
  /\ pc = "sort" /\ ready = {}
  /\ pc' = "plan"
  /\ UNCHANGED <<need, params, stack, visited, collected, inDegree, ready, sorted,
                 turns, steps, truncated>>

-----------------------------------------------------------------------------
(* The steps of the plan: one for every resource for which findCreateTool()  *)
(* finds a tool, and a warning for every other                               *)

WithStep(r, found) == IF found THEN Append(steps, r) ELSE steps

PlanTakes(found) ==
  /\ pc = "plan" /\ turns < Len(sorted)
  /\ turns' = turns + 1
  /\ steps' = WithStep(sorted[turns + 1], found)
  /\ UNCHANGED <<need, params, pc, stack, visited, collected, inDegree, ready, sorted,
                 truncated>>

\* The target comes last.
PlanEnds(found) ==
  /\ pc = "plan" /\ turns = Len(sorted)
  /\ pc' = "done"
  /\ steps' = WithStep(Target, found)
  /\ UNCHANGED <<need, params, stack, visited, collected, inDegree, ready, sorted,
                 turns, truncated>>

Idle ==
  /\ existing = {}
  /\ optional = FALSE
  /\ maxDepth = 0
  /\ pc = "idle"
  /\ stack = << >>
  /\ visited = {}
  /\ collected = << >>
  /\ inDegree = [r \in {} |-> 0]
  /\ ready = {}
  /\ sorted = << >>
  /\ turns = 0
  /\ steps = << >>
  /\ truncated = FALSE

Init == need \in Graphs /\ Idle

Call == \E e \in Existings, o \in BOOLEAN, d \in MaxDepths :
          Begins(e, o, d) \/ Refuses(e, o, d)

Step ==
  \/ \E p \in Resources : NextIsNotExpanded(p) \/ NextIsExpanded(p)
  \/ CallReturns
  \/ SortStarts
  \/ \E r \in Resources : SortTakes(r)
  \/ SortEnds
  \/ \E found \in BOOLEAN : PlanTakes(found) \/ PlanEnds(found)

Next == Call \/ Step

\* Once called, the function runs to its end without interruption.
Spec == Init /\ [][Next]_vars /\ WF_vars(Step)
-----------------------------------------------------------------------------
(* Properties *)

FrameType == [resource : Resources, todo : SUBSET Resources]

\* No call of the walk is nested in another call for the same resource.
TypeOK ==
  /\ DOMAIN need \subseteq Resources
  /\ need \in [DOMAIN need -> [Resources -> Needs]]
  /\ existing \in Existings \cup {{}}
  /\ optional \in BOOLEAN
  /\ maxDepth \in MaxDepths \cup {0}
  /\ pc \in {"idle", "collect", "sort", "plan", "done", "failed"}
  /\ stack \in Seq(FrameType)
  /\ \A i \in 1 .. Len(stack), j \in 1 .. Len(stack) :
       stack[i].resource = stack[j].resource => i = j
  /\ visited \subseteq Resources
  /\ collected \in Seq(Resources)
  /\ pc \in {"sort", "plan", "done"} => inDegree \in [InGraph -> Int]
  /\ ready \subseteq InGraph
  /\ sorted \in Seq(Resources)
  /\ turns \in 0 .. Len(sorted)
  /\ steps \in Seq(Resources)
  /\ truncated \in BOOLEAN

\* A step comes after the step of every other resource that its own one refers to,
\* optional references and ones that were not followed included, on any graph.  Only
\* the target, whose step is the last, may be referred to by an earlier one: by an
\* optional reference back to it when these are skipped, when it is among the
\* existing resources, or where maxDepth stopped the walk.  A walk that was not
\* stopped never puts it after a resource that wants it.
OrderRespectsPrerequisites ==
  \A i \in 1 .. Len(steps), j \in 1 .. Len(steps) :
    i # j /\ steps[j] \in Prerequisites(steps[i]) =>
      \/ j < i
      \/ steps[j] = Target /\ (truncated \/ Target \notin Wanted(steps[i]))

\* No resource is created twice, the target included.
EachOnce ==
  /\ \A i \in 1 .. Len(sorted), j \in 1 .. Len(sorted) :
       sorted[i] = sorted[j] => i = j
  /\ \A i \in 1 .. Len(steps), j \in 1 .. Len(steps) :
       steps[i] = steps[j] => i = j

\* The resources reached from r along n wanted edges at most.
ReachedIn(r) ==
  LET from[n \in 0 .. Cardinality(Resources)] ==
        IF n = 0 THEN Wanted(r)
        ELSE LET nearer == from[n - 1] IN
             nearer \cup UNION {Wanted(p) : p \in nearer}
  IN from[Cardinality(Resources)]

\* A walk that maxDepth did not cut off has found exactly what the target needs,
\* whatever cycles and shared prerequisites it met.
WalkIsComplete ==
  pc \in {"sort", "plan", "done"} /\ ~truncated => InGraph = ReachedIn(Target)

Dropped == InGraph \ Elements(sorted)

\* The sort loses a resource only if it was collected more than once and has a
\* prerequisite in the plan, or if a prerequisite of its is lost (on a cycle,
\* each is).
OmissionsExplained ==
  pc = "done" =>
    \A r \in Dropped :
      \/ Occurrences(collected, r) > 1 /\ Before(r) # {}
      \/ Before(r) \cap Dropped # {}

\* Planning comes to an end on every graph, whatever its cycles.
PlanningEnds == pc = "collect" ~> pc = "done"

OnNoCycle == \A r \in Resources : r \notin ReachedIn(r)

\* "Generates complete creation plans with all transitive dependencies": on a graph
\* without cycles, a walk that was not cut off leaves nothing out of the plan.
PlanIsComplete ==
  pc = "done" /\ OnNoCycle /\ ~truncated => Dropped = {}
=============================================================================
