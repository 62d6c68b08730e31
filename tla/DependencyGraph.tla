---------------------------- MODULE DependencyGraph ----------------------------
(***************************************************************************)
(* The generator's dependency graph: buildDependencyGraph() and            *)
(* validateGraph() of src/src/generator/dependency-graph.ts.               *)
(*                                                                         *)
(* The references that the operations of the parsed specifications make    *)
(* are merged into one edge per pair of resources; the edges are reversed; *)
(* a depth-first walk from every resource gives its creation order, and a  *)
(* last one looks for cycles.  An action is one turn of one of the loops,  *)
(* in the order the code takes them, so that a behaviour is determined by  *)
(* the specifications and the options.                                     *)
(*                                                                         *)
(* A reference whose domain is not known has the domain "unknown" in all   *)
(* keys the generator makes; it is a resource without operations here.     *)
(* The oneOf groups and subscriptions, copied along with the edges, are    *)
(* left out.                                                               *)
(*                                                                         *)
(* (A definition named Bug... is the one that follows it with a mistake in *)
(* it; no behaviour of the model uses it.)                                 *)
(***************************************************************************)
EXTENDS Integers, Sequences, FiniteSets

CONSTANTS
  Resources,   \* "domain/resource" keys, in the order of 1 .. n
  Extractions, \* what the parser can deliver: a sequence of references for each
               \* resource that has operations
  OrderDepths  \* values of the option maxDepth

VARIABLES
  pending,       \* per resource with operations: references not merged yet
  orderDepth,    \* the option maxDepth
  phase,         \* "merge", "order", "validate" or "built"
  requires,      \* dependencies[r].requires, in the order of first mention
  requiredBy,    \* dependencies[r].requiredBy, and reverseDependencies
  creationOrder, \* dependencies[r].creationOrder
  cycles,        \* validateGraph(): the cycles reported
  roots,         \* the resources the loop in progress has still to start from
  calls,         \* the open calls of visit() or dfs(), the innermost last
  seen,          \* their set visited
  cut,           \* history: per resource, where maxDepth stopped its walk
  extracted      \* history: what the parser delivered

graphVars == <<pending, orderDepth, phase, requires, requiredBy, creationOrder,
               cycles, roots, calls, seen, cut, extracted>>

Reference == [to : Resources, required : BOOLEAN]

ASSUME GraphConstants ==
  /\ IsFiniteSet(Resources) /\ Resources = 1 .. Cardinality(Resources)
  /\ \A x \in Extractions : \E R \in SUBSET Resources : x \in [R -> Seq(Reference)]
  /\ OrderDepths \subseteq Nat

\* The resources with an entry in dependencies.
Nodes == DOMAIN requires

ElementsOf(s) == {s[i] : i \in 1 .. Len(s)}

\* The place of the edge to p in a list of references; 0 if there is none.
Place(refs, p) ==
  IF \E i \in 1 .. Len(refs) : refs[i].to = p
  THEN CHOOSE i \in 1 .. Len(refs) : refs[i].to = p
  ELSE 0

First(S) == CHOOSE x \in S : \A y \in S : x <= y

-----------------------------------------------------------------------------
(* buildDependencyGraph(): one entry per resource, references merged *)

\* The first mention decides.
BugMerged(refs, ref) ==
  LET at == Place(refs, ref.to) IN
  IF at = 0 THEN Append(refs, ref) ELSE refs

\* deduplicateReferences(): a later mention can make a reference required.
Merged(refs, ref) ==
  LET at == Place(refs, ref.to) IN
  IF at = 0 THEN Append(refs, ref)
  ELSE [refs EXCEPT ![at].required = @ \/ ref.required]

MergeNext ==
  /\ phase = "merge"
  /\ \E r \in Nodes : pending[r] # << >>
  /\ LET r == First({q \in Nodes : pending[q] # << >>}) IN
     /\ requires' = [requires EXCEPT ![r] = Merged(@, Head(pending[r]))]
     /\ pending' = [pending EXCEPT ![r] = Tail(@)]
  /\ UNCHANGED <<orderDepth, phase, requiredBy, creationOrder, cycles, roots, calls,
                 seen, cut, extracted>>

\* Only for resources with an entry.
BugDependents(p) == {r \in Nodes : p \in Nodes /\ Place(requires[r], p) # 0}

\* Whose references lead to p.
Dependents(p) == {r \in Nodes : Place(requires[r], p) # 0}

\* buildReverseDependencies(), for resources with an entry and without.
Reverse ==
  /\ phase = "merge"
  /\ \A r \in Nodes : pending[r] = << >>
  /\ requiredBy' = [p \in Resources |-> Dependents(p)]
  /\ phase' = "order"
  /\ roots' = Nodes
  /\ UNCHANGED <<pending, orderDepth, requires, creationOrder, cycles, calls, seen,
                 cut, extracted>>

-----------------------------------------------------------------------------
(* The calls of a depth-first walk *)

\* Only required references are followed.
BugOpen(r) ==
  LET demanded(ref) == ref.required IN
  [key |-> r, todo |-> IF r \in Nodes THEN SelectSeq(requires[r], demanded) ELSE << >>]

Open(r) == [key |-> r, todo |-> IF r \in Nodes THEN requires[r] ELSE << >>]

Inner == calls[Len(calls)]

Outer == SubSeq(calls, 1, Len(calls) - 1)

\* The resources whose calls are open: inProgress, recStack and path.
Path == [i \in 1 .. Len(calls) |-> calls[i].key]

InProgress == ElementsOf(Path)

\* The innermost call turns to its next reference, which leads to p.
Turns(p) == calls # << >> /\ Inner.todo # << >> /\ p = Head(Inner.todo).to

Turned == Append(Outer, [Inner EXCEPT !.todo = Tail(@)])

-----------------------------------------------------------------------------
(* computeCreationOrder(): the depth of a call is the number of calls around it *)

OrderStarts ==
  /\ phase = "order" /\ calls = << >> /\ roots # {}
  /\ calls' = <<Open(First(roots))>>
  /\ seen' = {}
  /\ UNCHANGED <<pending, orderDepth, phase, requires, requiredBy, creationOrder,
                 cycles, roots, cut, extracted>>

\* The call for p returns at once: too deep, on the way already, or done.
OrderSkips(p) ==
  /\ phase = "order" /\ Turns(p)
  /\ Len(calls) > orderDepth \/ p \in InProgress \/ p \in seen
  /\ calls' = Turned
  /\ cut' = [cut EXCEPT ![calls[1].key] =
               IF Len(calls) > orderDepth THEN @ \cup {Inner.key} ELSE @]
  /\ UNCHANGED <<pending, orderDepth, phase, requires, requiredBy, creationOrder,
                 cycles, roots, seen, extracted>>

OrderDescends(p) ==
  /\ phase = "order" /\ Turns(p)
  /\ Len(calls) <= orderDepth /\ p \notin InProgress /\ p \notin seen
  /\ calls' = Append(Turned, Open(p))
  /\ UNCHANGED <<pending, orderDepth, phase, requires, requiredBy, creationOrder,
                 cycles, roots, seen, cut, extracted>>

\* The resource is put in front of what its references pushed.
BugOrderReturns ==
  /\ phase = "order" /\ calls # << >> /\ Inner.todo = << >>
  /\ calls' = Outer
  /\ seen' = seen \cup {Inner.key}
  /\ creationOrder' = [creationOrder EXCEPT ![calls[1].key] = <<Inner.key>> \o @]
  /\ roots' = IF Outer = << >> THEN roots \ {Inner.key} ELSE roots
  /\ UNCHANGED <<pending, orderDepth, phase, requires, requiredBy, cycles, cut,
                 extracted>>

\* The resource is pushed after what its references pushed.
OrderReturns ==
  /\ phase = "order" /\ calls # << >> /\ Inner.todo = << >>
  /\ calls' = Outer
  /\ seen' = seen \cup {Inner.key}
  /\ creationOrder' = [creationOrder EXCEPT ![calls[1].key] = Append(@, Inner.key)]
  /\ roots' = IF Outer = << >> THEN roots \ {Inner.key} ELSE roots
  /\ UNCHANGED <<pending, orderDepth, phase, requires, requiredBy, cycles, cut,
                 extracted>>

OrderEnds ==
  /\ phase = "order" /\ calls = << >> /\ roots = {}
  /\ phase' = "validate"
  /\ roots' = Nodes
  /\ seen' = {}
  /\ UNCHANGED <<pending, orderDepth, requires, requiredBy, creationOrder, cycles,
                 calls, cut, extracted>>

-----------------------------------------------------------------------------
(* validateGraph() *)

ValidateStarts ==
  /\ phase = "validate" /\ calls = << >> /\ roots \ seen # {}
  /\ LET r == First(roots \ seen) IN
     /\ calls' = <<Open(r)>>
     /\ seen' = seen \cup {r}
  /\ UNCHANGED <<pending, orderDepth, phase, requires, requiredBy, creationOrder,
                 cycles, roots, cut, extracted>>

\* The test for resources already visited comes first, and nothing is reported.
BugValidateFinds(p) ==
  /\ phase = "validate" /\ Turns(p)
  /\ p \in InProgress
  /\ calls' = Turned
  /\ UNCHANGED <<pending, orderDepth, phase, requires, requiredBy, creationOrder,
                 cycles, roots, seen, cut, extracted>>

\* The reference leads back to an open call: the path from there on is a cycle.
ValidateFinds(p) ==
  /\ phase = "validate" /\ Turns(p)
  /\ p \in InProgress
  /\ calls' = Turned
  /\ LET from == CHOOSE i \in 1 .. Len(Path) : Path[i] = p IN
     cycles' = cycles \cup {Append(SubSeq(Path, from, Len(Path)), p)}
  /\ UNCHANGED <<pending, orderDepth, phase, requires, requiredBy, creationOrder,
                 roots, seen, cut, extracted>>

ValidateSkips(p) ==
  /\ phase = "validate" /\ Turns(p)
  /\ p \notin InProgress /\ p \in seen
  /\ calls' = Turned
  /\ UNCHANGED <<pending, orderDepth, phase, requires, requiredBy, creationOrder,
                 cycles, roots, seen, cut, extracted>>

ValidateDescends(p) ==
  /\ phase = "validate" /\ Turns(p)
  /\ p \notin InProgress /\ p \notin seen
  /\ calls' = Append(Turned, Open(p))
  /\ seen' = seen \cup {p}
  /\ UNCHANGED <<pending, orderDepth, phase, requires, requiredBy, creationOrder,
                 cycles, roots, cut, extracted>>

ValidateReturns ==
  /\ phase = "validate" /\ calls # << >> /\ Inner.todo = << >>
  /\ calls' = Outer
  /\ UNCHANGED <<pending, orderDepth, phase, requires, requiredBy, creationOrder,
                 cycles, roots, seen, cut, extracted>>

ValidateEnds ==
  /\ phase = "validate" /\ calls = << >> /\ roots \subseteq seen
  /\ phase' = "built"
  /\ seen' = {}
  /\ UNCHANGED <<pending, orderDepth, requires, requiredBy, creationOrder, cycles,
                 roots, calls, cut, extracted>>

GraphInit ==
  /\ extracted \in Extractions
  /\ orderDepth \in OrderDepths
  /\ pending = extracted
  /\ phase = "merge"
  /\ requires = [r \in DOMAIN extracted |-> << >>]
  /\ requiredBy = [p \in Resources |-> {}]
  /\ creationOrder = [r \in DOMAIN extracted |-> << >>]
  /\ cycles = {}
  /\ roots = {}
  /\ calls = << >>
  /\ seen = {}
  /\ cut = [r \in DOMAIN extracted |-> {}]

GraphStep ==
  \/ MergeNext \/ Reverse
  \/ OrderStarts \/ OrderReturns \/ OrderEnds
  \/ ValidateStarts \/ ValidateReturns \/ ValidateEnds
  \/ \E p \in Resources :
       \/ OrderSkips(p) \/ OrderDescends(p)
       \/ ValidateFinds(p) \/ ValidateSkips(p) \/ ValidateDescends(p)

\* The generator is a program of one thread that runs to its end.
GraphSpec == GraphInit /\ [][GraphStep]_graphVars /\ WF_graphVars(GraphStep)

-----------------------------------------------------------------------------
(* Properties *)

Edges == {e \in Nodes \X Resources : Place(requires[e[1]], e[2]) # 0}

\* The pairs that a path of edges of E joins.
Closure(E) ==
  LET through[n \in 0 .. Cardinality(Resources)] ==
        IF n = 0 THEN E
        ELSE LET joined == through[n - 1] IN
             joined \cup {e \in Resources \X Resources :
                            <<e[1], n>> \in joined /\ <<n, e[2]>> \in joined}
  IN through[Cardinality(Resources)]

CallType == [key : Resources, todo : Seq(Reference)]

\* No walk has two open calls for one resource, and no resource has two edges to
\* another.
GraphTypeOK ==
  /\ extracted \in [Nodes -> Seq(Reference)]
  /\ orderDepth \in OrderDepths
  /\ phase \in {"merge", "order", "validate", "built"}
  /\ pending \in [Nodes -> Seq(Reference)]
  /\ requires \in [Nodes -> Seq(Reference)]
  /\ \A r \in Nodes : \A i, j \in 1 .. Len(requires[r]) :
       requires[r][i].to = requires[r][j].to => i = j
  /\ requiredBy \in [Resources -> SUBSET Nodes]
  /\ creationOrder \in [Nodes -> Seq(Resources)]
  /\ \A c \in cycles : c \in Seq(Resources)
  /\ roots \subseteq Nodes
  /\ calls \in Seq(CallType)
  /\ \A i, j \in 1 .. Len(calls) : calls[i].key = calls[j].key => i = j
  /\ seen \subseteq Resources
  /\ cut \in [Nodes -> SUBSET Resources]

\* A reference is required in the graph as soon as one operation of the resource
\* requires it, whichever operation is parsed first, and no reference is lost.
RequiredByAnyOperation ==
  phase # "merge" =>
    \A r \in Nodes, p \in Resources :
      LET mentions == {ref \in ElementsOf(extracted[r]) : ref.to = p}
          at == Place(requires[r], p) IN
      /\ at # 0 <=> mentions # {}
      /\ at # 0 => (requires[r][at].required <=> \E ref \in mentions : ref.required)

\* A creation order, also one that is still being made, names nothing twice, and
\* nothing before a prerequisite of it, unless the two need each other or
\* maxDepth kept the walk from the prerequisites of the earlier one.
CreationOrderSound ==
  \A r \in DOMAIN creationOrder :
    LET order == creationOrder[r] IN
    \A i, j \in 1 .. Len(order) : i < j =>
      /\ order[i] # order[j]
      /\ <<order[i], order[j]>> \in Edges =>
           \/ <<order[j], order[i]>> \in Closure(Edges)
           \/ order[i] \in cut[r]

Reversed == {e \in Resources \X Nodes : e[2] \in requiredBy[e[1]]}

\* What two passes of the generator make of the edges agrees: a walk that maxDepth
\* did not stop lists, besides its resource in the last place, the resources of
\* which the reverse edges lead to it.
CreationOrderMatchesDependents ==
  phase \in {"validate", "built"} =>
    LET leads == Closure(Reversed) IN
    \A r \in Nodes : cut[r] = {} =>
      /\ creationOrder[r][Len(creationOrder[r])] = r
      /\ ElementsOf(creationOrder[r]) =
           {r} \cup {p \in Resources : <<p, r>> \in leads}

\* What validateGraph() reports are cycles of the graph, and taking the last edge
\* of each away leaves none: no cycle is missed, whichever resource it started from.
CyclesAreFound ==
  /\ \A c \in cycles : /\ Len(c) > 1 /\ c[1] = c[Len(c)]
                       /\ \A i \in 1 .. Len(c) - 1 : <<c[i], c[i + 1]>> \in Edges
  /\ phase = "built" =>
       LET left == Closure(Edges \ {<<c[Len(c) - 1], c[Len(c)]>> : c \in cycles}) IN
       \A r \in Nodes : <<r, r>> \notin left
=============================================================================
