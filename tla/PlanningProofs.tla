----------------------------- MODULE PlanningProofs -----------------------------
(***************************************************************************)
(* What holds of the planner on whatever graph the generator writes.       *)
(***************************************************************************)
EXTENDS Planning, DependencyGraphProofs

Sorting == pc \in {"sort", "plan", "done"}

OnStack == {stack[i].resource : i \in 1 .. Len(stack)}

Inside == {stack[i].resource : i \in 2 .. Len(stack)}

Sorted == Plan!Elements(sorted)

\* Each resource of C needs another one of C, or itself: the sort cannot begin with any.
IsTrap(C) == \A c \in C : Plan!Prerequisites(c) \cap C # {}

\* The open calls are a path of the graph from the target, and if the walk has met the
\* target again, a cycle through it is collected, or will be when the calls return.
WalkInv ==
  /\ pc = "collect" =>
       /\ stack # << >> /\ stack[1].resource = Target
       /\ OnStack \subseteq visited
       /\ \A i \in 1 .. Len(stack) :
            stack[i].todo \subseteq Plan!Prerequisites(stack[i].resource)
       /\ \A i \in 2 .. Len(stack) :
            stack[i].resource \in Plan!Prerequisites(stack[i - 1].resource)
       /\ Target \in Plan!InGraph =>
            \E C \in SUBSET PlannerKeys :
              Target \in C /\ IsTrap(C) /\ C \subseteq Plan!InGraph \cup Inside
  /\ pc # "collect" => stack = << >>
  /\ ~Sorting => sorted = << >> /\ ready = {}
  /\ pc \in {"idle", "failed"} => collected = << >>

\* The counters of the sort: what is left of the edges into a resource is what was
\* counted less the edges from what is sorted, and a resource is in the queue or behind
\* it exactly if nothing is left.
SortInv ==
  Sorting =>
    /\ inDegree \in [Plan!InGraph -> Int]
    /\ Sorted \subseteq Plan!InGraph /\ Sorted \cap ready = {}
    /\ \A i, j \in 1 .. Len(sorted) : sorted[i] = sorted[j] => i = j
    /\ \A r \in Plan!InGraph :
         /\ inDegree[r] = Plan!EdgesInto(r) - Cardinality(Plan!Before(r) \cap Sorted)
         /\ inDegree[r] = 0 <=> r \in ready \cup Sorted
    /\ Target \in Plan!InGraph =>
         \E C \in SUBSET PlannerKeys :
           /\ Target \in C /\ IsTrap(C) /\ C \subseteq Plan!InGraph
           /\ C \cap (ready \cup Sorted) = {}

\* What is sorted comes after its prerequisites.
SortedInOrder ==
  \A i \in 1 .. Len(sorted), j \in 1 .. Len(sorted) :
    sorted[j] \in Plan!Prerequisites(sorted[i]) => j < i

\* Steps are in the order of what is sorted.
StepsAsSorted ==
  \A i, j \in 1 .. Len(steps), a, b \in 1 .. Len(sorted) :
    i < j /\ steps[i] = sorted[a] /\ steps[j] = sorted[b] => a < b

\* The steps of the plan are what the loop has gone through, or part of it, and in the
\* end the target.
StepsInv ==
  /\ pc \in {"plan", "done"} => ready = {}
  /\ pc \notin {"plan", "done"} => steps = << >> /\ turns = 0
  /\ pc = "plan" => Plan!Elements(steps) \subseteq {sorted[i] : i \in 1 .. turns}
  /\ \A i, j \in 1 .. Len(steps) : steps[i] = steps[j] => i = j
  /\ \A i \in 1 .. Len(steps) :
       steps[i] \in Sorted \/ (steps[i] = Target /\ i = Len(steps))
  /\ StepsAsSorted

PlannerInv ==
  /\ Plan!TypeOK
  /\ WalkInv
  /\ SortInv
  /\ StepsInv
  /\ SortedInOrder

\* The walk keeps to what the target needs and, if maxDepth has not stopped it, has still
\* before it whatever a visited resource wants that is neither collected nor on the stack.
CompleteInv ==
  /\ pc \in {"collect", "sort", "plan", "done"} => Target \in DOMAIN need
  /\ pc = "collect" =>
       /\ \A i \in 1 .. Len(stack) : stack[i].todo \subseteq Plan!Wanted(stack[i].resource)
       /\ Inside \cup Plan!InGraph \subseteq Plan!ReachedIn(Target)
       /\ ~truncated =>
            /\ Plan!InGraph \subseteq visited
            /\ \A v \in visited : \A p \in Plan!Wanted(v) :
                 \/ p \in Inside \cup Plan!InGraph
                 \/ \E i \in 1 .. Len(stack) : stack[i].resource = v /\ p \in stack[i].todo
  /\ WalkIsComplete

PlanInv ==
  /\ PlannerInv
  /\ CompleteInv
  /\ GraphInv
  /\ pc # "idle" => phase = "built" /\ need = Written

-----------------------------------------------------------------------------
(* Sequences *)

LEMMA AppendElements ==
  ASSUME NEW S, NEW s \in Seq(S), NEW x \in S
  PROVE  Plan!Elements(Append(s, x)) = Plan!Elements(s) \cup {x}
<1>1. /\ Len(Append(s, x)) = Len(s) + 1 /\ Len(s) \in Nat
      /\ \A i \in 1 .. Len(s) : Append(s, x)[i] = s[i]
      /\ Append(s, x)[Len(s) + 1] = x
  BY AppendProperties
<1>2. \A i \in 1 .. Len(s) + 1 : i \in 1 .. Len(s) \/ i = Len(s) + 1
  BY <1>1
<1>3. 1 .. Len(s) \subseteq 1 .. Len(s) + 1 /\ Len(s) + 1 \in 1 .. Len(s) + 1
  BY <1>1
<1> QED BY <1>1, <1>2, <1>3 DEF Plan!Elements

\* What is appended to a sequence without repetitions and is not in it makes none.
LEMMA AppendDistinct ==
  ASSUME NEW S, NEW s \in Seq(S), NEW x \in S \ Plan!Elements(s),
         \A i, j \in 1 .. Len(s) : s[i] = s[j] => i = j
  PROVE  \A i, j \in 1 .. Len(Append(s, x)) : Append(s, x)[i] = Append(s, x)[j] => i = j
<1>1. /\ Len(Append(s, x)) = Len(s) + 1 /\ Len(s) \in Nat
      /\ \A i \in 1 .. Len(s) : Append(s, x)[i] = s[i]
      /\ Append(s, x)[Len(s) + 1] = x
  BY AppendProperties
<1>2. \A i \in 1 .. Len(s) : s[i] # x
  BY DEF Plan!Elements
<1> QED BY <1>1, <1>2

-----------------------------------------------------------------------------
(* The stack *)

LEMMA TopOfStack ==
  ASSUME PlannerInv, pc = "collect"
  PROVE  /\ Len(stack) \in Nat \ {0} /\ Plan!Top = stack[Len(stack)]
         /\ Plan!Top \in Plan!FrameType /\ Plan!Top.resource \in PlannerKeys
         /\ Plan!Top.todo \subseteq Plan!Prerequisites(Plan!Top.resource)
         /\ Plan!Rest \in Seq(Plan!FrameType) /\ Len(Plan!Rest) = Len(stack) - 1
         /\ \A i \in 1 .. Len(stack) - 1 : Plan!Rest[i] = stack[i]
<1>1. stack \in Seq(Plan!FrameType) /\ stack # << >>
  BY DEF PlannerInv, Plan!TypeOK, WalkInv
<1>2. Len(stack) \in Nat \ {0}
  BY <1>1, EmptySeq
<1>3. Plan!Top = stack[Len(stack)] /\ Plan!Top \in Plan!FrameType
  BY <1>1, <1>2 DEF Plan!Top
<1>4. Plan!Top.todo \subseteq Plan!Prerequisites(Plan!Top.resource)
  BY <1>2, <1>3 DEF PlannerInv, WalkInv
<1>5. /\ Plan!Rest \in Seq(Plan!FrameType) /\ Len(Plan!Rest) = Len(stack) - 1
      /\ \A i \in 1 .. Len(stack) - 1 : Plan!Rest[i] = stack[i]
  <2> DEFINE m == Len(stack) - 1
  <2>1. m \in Nat /\ \A i \in 1 .. m : stack[i] \in Plan!FrameType
    BY <1>1, <1>2
  <2> HIDE DEF m
  <2>2. /\ SubSeq(stack, 1, m) \in Seq(Plan!FrameType)
        /\ Len(SubSeq(stack, 1, m)) = m
        /\ \A i \in 1 .. m : SubSeq(stack, 1, m)[i] = stack[i]
    BY <2>1, SubSeqProperties
  <2> QED BY <2>2 DEF Plan!Rest, m
<1> QED BY <1>2, <1>3, <1>4, <1>5 DEF Plan!FrameType

\* The loop of the innermost call moves past p; the open calls stay the same.
LEMMA TookStack ==
  ASSUME PlannerInv, pc = "collect", NEW p \in Plan!Top.todo
  PROVE  LET s == Plan!Took(p) IN
         /\ s \in Seq(Plan!FrameType) /\ Len(s) = Len(stack)
         /\ \A i \in 1 .. Len(stack) : /\ s[i].resource = stack[i].resource
                                       /\ s[i].todo \subseteq stack[i].todo
                                       /\ stack[i].todo \subseteq s[i].todo \cup {p}
         /\ p \in PlannerKeys /\ p \in Plan!Prerequisites(Plan!Top.resource)
<1> DEFINE n == Len(stack)
           f == [Plan!Top EXCEPT !.todo = @ \ {p}]
           s == Append(Plan!Rest, f)
<1>1. /\ n \in Nat \ {0} /\ Plan!Top = stack[n]
      /\ Plan!Top \in Plan!FrameType
      /\ Plan!Top.todo \subseteq Plan!Prerequisites(Plan!Top.resource)
      /\ Plan!Rest \in Seq(Plan!FrameType) /\ Len(Plan!Rest) = n - 1
      /\ \A i \in 1 .. n - 1 : Plan!Rest[i] = stack[i]
  BY TopOfStack
<1>2. /\ f \in Plan!FrameType /\ f.resource = Plan!Top.resource
      /\ f.todo \subseteq Plan!Top.todo /\ Plan!Top.todo \subseteq f.todo \cup {p}
  BY <1>1 DEF Plan!FrameType
<1>3. p \in PlannerKeys
  BY <1>1 DEF Plan!FrameType
<1> HIDE DEF f
<1>4. /\ s \in Seq(Plan!FrameType) /\ Len(s) = n /\ s[n] = f
      /\ \A i \in 1 .. n - 1 : s[i] = stack[i]
  BY <1>1, <1>2, AppendProperties
<1>5. Plan!Took(p) = s
  BY DEF Plan!Took, f
<1> HIDE DEF s
<1>6. ASSUME NEW i \in 1 .. n
      PROVE  /\ s[i].resource = stack[i].resource /\ s[i].todo \subseteq stack[i].todo
             /\ stack[i].todo \subseteq s[i].todo \cup {p}
  <2>1. CASE i = n
    BY <1>1, <1>2, <1>4, <2>1
  <2>2. CASE i # n
    BY <1>1, <1>4, <2>2
  <2> QED BY <2>1, <2>2
<1> QED BY <1>1, <1>3, <1>4, <1>5, <1>6

-----------------------------------------------------------------------------
(* Keys *)

\* The keys of unknown resources are negative numbers, and there are finitely many keys.
LEMMA KeysOfThePlanner ==
  /\ \A p \in Resources : p > 0
  /\ \A p \in Resources : PlannerKey(p) \notin Unknown
  /\ \A p, q \in Resources : PlannerKey(p) = PlannerKey(q) => p = q
  /\ Resources \subseteq PlannerKeys
  /\ IsFiniteSet(PlannerKeys) /\ Cardinality(PlannerKeys) \in Nat
<1> DEFINE n == Cardinality(Resources)
<1>1. n \in Nat /\ Resources = 1 .. n
  BY GraphConstants, FS_CardinalityType
<1> HIDE DEF n
<1>2. \A p \in Resources : p \in Int /\ p > 0 /\ p <= n
  BY <1>1
<1>3. Unknown \subseteq Resources
  BY UnknownHaveNoOperations
<1>4. \A p \in Resources : PlannerKey(p) \notin Unknown
  BY <1>2, <1>3 DEF PlannerKey
<1>5. \A p, q \in Resources : PlannerKey(p) = PlannerKey(q) => p = q
  BY <1>2 DEF PlannerKey
<1>6. PlannerKeys \subseteq (0 - n) .. n
  <2>1. \A p \in Resources : p \in (0 - n) .. n /\ PlannerKey(p) \in (0 - n) .. n
    BY <1>1, <1>2 DEF PlannerKey
  <2> QED BY <2>1 DEF PlannerKeys
<1>7. IsFiniteSet((0 - n) .. n)
  <2>1. 0 - n \in Int /\ n \in Int
    BY <1>1
  <2> QED BY <2>1, FS_Interval
<1>8. IsFiniteSet(PlannerKeys) /\ Cardinality(PlannerKeys) \in Nat
  BY <1>6, <1>7, FS_Subset, FS_CardinalityType
<1> QED BY <1>2, <1>4, <1>5, <1>8 DEF PlannerKeys

-----------------------------------------------------------------------------
(* Counting edges *)

\* The planner counts as this module does.
LEMMA SameCardinality == \A S : Plan!Cardinality(S) = Cardinality(S)
  BY Zenon DEF Plan!Cardinality, Cardinality

\* Of the edges into a collected resource at least one is counted from each of its
\* prerequisites that are collected too.
LEMMA EdgeCounts ==
  ASSUME Plan!TypeOK, NEW r \in Plan!InGraph
  PROVE  /\ IsFiniteSet(Plan!Before(r)) /\ Cardinality(Plan!Before(r)) \in Nat
         /\ Plan!EdgesInto(r) \in Nat
         /\ Plan!EdgesInto(r) >= Cardinality(Plan!Before(r))
         /\ Plan!Occurrences(collected, r) \in Nat \ {0}
<1> DEFINE places == {i \in 1 .. Len(collected) : collected[i] = r}
<1>1. Len(collected) \in Nat
  BY DEF Plan!TypeOK
<1>2. IsFiniteSet(places) /\ Cardinality(places) \in Nat
  <2>1. places \in SUBSET (1 .. Len(collected)) /\ IsFiniteSet(1 .. Len(collected))
    BY <1>1, FS_Interval
  <2> HIDE DEF places
  <2> QED BY <2>1, FS_Subset, FS_CardinalityType
<1>3. places # {}
  BY DEF Plan!InGraph, Plan!Elements
<1>4. Plan!Occurrences(collected, r) \in Nat \ {0}
  <2>1. Plan!Occurrences(collected, r) = Cardinality(places)
    BY SameCardinality DEF Plan!Occurrences
  <2> HIDE DEF places
  <2> QED BY <1>2, <1>3, <2>1, FS_EmptySet
<1>5. Plan!Before(r) \subseteq PlannerKeys
  BY DEF Plan!Before, Plan!Prerequisites
<1>6. IsFiniteSet(Plan!Before(r)) /\ Cardinality(Plan!Before(r)) \in Nat
  BY <1>5, KeysOfThePlanner, FS_Subset, FS_CardinalityType
<1>7. \A o \in Nat \ {0}, b \in Nat : o * b \in Nat /\ o * b >= b
  OBVIOUS
<1> HIDE DEF places
<1> QED
  <2> DEFINE o == Plan!Occurrences(collected, r)
             b == Cardinality(Plan!Before(r))
  <2>1. Plan!EdgesInto(r) = o * b
    BY SameCardinality DEF Plan!EdgesInto
  <2>2. o \in Nat \ {0} /\ b \in Nat
    BY <1>4, <1>6
  <2> HIDE DEF o, b
  <2>3. o * b \in Nat /\ o * b >= b
    BY <1>7, <2>2
  <2> QED BY <1>4, <1>6, <2>1, <2>3 DEF b

\* If as many edges into a resource are gone as were counted, all of its prerequisites
\* that are collected are.
LEMMA AllCounted ==
  ASSUME Plan!TypeOK, NEW r \in Plan!InGraph, NEW S,
         Plan!EdgesInto(r) - Cardinality(Plan!Before(r) \cap S) = 0
  PROVE  Plan!Before(r) \subseteq S
<1> DEFINE B == Plan!Before(r)
           D == B \cap S
<1>1. /\ IsFiniteSet(B) /\ Cardinality(B) \in Nat
      /\ Plan!EdgesInto(r) \in Nat /\ Plan!EdgesInto(r) >= Cardinality(B)
  BY EdgeCounts
<1> HIDE DEF B
<1>2. D \subseteq B /\ Cardinality(D) \in Nat /\ Cardinality(D) <= Cardinality(B)
  BY <1>1, FS_Subset, FS_CardinalityType
<1>3. Cardinality(D) = Cardinality(B)
  <2>1. Plan!EdgesInto(r) - Cardinality(D) = 0
    BY DEF B
  <2> QED BY <1>1, <1>2, <2>1
<1>4. D = B
  BY <1>1, <1>2, <1>3, FS_Subset
<1> QED BY <1>4 DEF B

\* What is in the queue, or was, has all its prerequisites behind the queue.
LEMMA NothingLeft ==
  ASSUME Plan!TypeOK, SortInv, Sorting, NEW r \in ready \cup Sorted
  PROVE  r \in Plan!InGraph /\ Plan!Before(r) \subseteq Sorted
<1>1. r \in Plan!InGraph
  BY DEF Plan!TypeOK, SortInv
<1>2. Plan!EdgesInto(r) - Cardinality(Plan!Before(r) \cap Sorted) = 0
  BY <1>1 DEF SortInv
<1> QED BY <1>1, <1>2, AllCounted

-----------------------------------------------------------------------------
(* The walk *)

LEMMA CallStep ==
  ASSUME PlannerInv, Plan!Call
  PROVE  PlannerInv'
<1>1. PICK e \in Existings, o \in BOOLEAN, d \in MaxDepths :
        Plan!Begins(e, o, d) \/ Plan!Refuses(e, o, d)
  BY DEF Plan!Call
<1>2. /\ pc = "idle" /\ pc' \in {"collect", "failed"}
      /\ existing' = e /\ optional' = o /\ maxDepth' = d
      /\ UNCHANGED <<need, collected, inDegree, ready, sorted, turns, steps, truncated>>
  BY <1>1 DEF Plan!Begins, Plan!Refuses
<1>3. /\ sorted = << >> /\ ready = {} /\ stack = << >> /\ steps = << >> /\ turns = 0
      /\ collected = << >>
  BY <1>2 DEF PlannerInv, WalkInv, StepsInv, Sorting
<1>4. SortInv' /\ StepsInv' /\ SortedInOrder'
  BY <1>2, <1>3 DEF SortInv, StepsInv, StepsAsSorted, Sorting, SortedInOrder
<1>5. CASE Plan!Begins(e, o, d)
  <2> DEFINE f == Plan!Frame(Target, e, o)
  <2>1. stack' = <<f>> /\ visited' = {Target} /\ pc' = "collect"
    BY <1>5 DEF Plan!Begins
  <2>2. /\ f \in Plan!FrameType /\ f.resource = Target
        /\ f.todo \subseteq Plan!Prerequisites(Target) /\ Target \in PlannerKeys
    BY PlannerConstants DEF Plan!ResolverConstants, Plan!Frame, Plan!FrameType,
       Plan!WantedWith, Plan!Prerequisites
  <2> HIDE DEF f
  <2>3. Len(stack') = 1 /\ stack'[1] = f /\ stack' \in Seq(Plan!FrameType)
    BY <2>1, <2>2
  <2>4. Plan!TypeOK'
    BY <1>2, <1>3, <2>1, <2>2, <2>3, PlannerConstants
       DEF Plan!ResolverConstants, PlannerInv, Plan!TypeOK, Plan!InGraph, Plan!Elements
  <2>5. Plan!Prerequisites(Target)' = Plan!Prerequisites(Target)
    BY <1>2 DEF Plan!Prerequisites
  <2>6. WalkInv'
    BY <1>2, <1>3, <2>1, <2>2, <2>3, <2>5
       DEF WalkInv, Sorting, OnStack, Inside, Plan!InGraph, Plan!Elements
  <2> QED BY <1>4, <2>4, <2>6 DEF PlannerInv
<1>6. CASE Plan!Refuses(e, o, d)
  <2>1. UNCHANGED <<stack, visited>> /\ pc' = "failed"
    BY <1>6 DEF Plan!Refuses
  <2>2. Plan!TypeOK'
    BY <1>2, <1>3, <2>1, PlannerConstants
       DEF Plan!ResolverConstants, PlannerInv, Plan!TypeOK, Plan!InGraph, Plan!Elements
  <2>3. WalkInv'
    BY <1>2, <1>3, <2>1 DEF WalkInv, Sorting
  <2> QED BY <1>4, <2>2, <2>3 DEF PlannerInv
<1> QED BY <1>1, <1>5, <1>6

\* While the walk collects, nothing of the sort and of the plan is there yet.
LEMMA OnlyWalks ==
  ASSUME PlannerInv, pc = "collect", pc' = "collect",
         UNCHANGED <<need, inDegree, ready, sorted, turns, steps>>
  PROVE  /\ SortInv' /\ StepsInv' /\ SortedInOrder'
         /\ sorted = << >> /\ ready = {} /\ ~Sorting'
         /\ \A r : Plan!Prerequisites(r)' = Plan!Prerequisites(r)
<1>1. sorted = << >> /\ ready = {} /\ steps = << >> /\ turns = 0
  BY DEF PlannerInv, WalkInv, StepsInv, Sorting
<1>2. \A r : Plan!Prerequisites(r)' = Plan!Prerequisites(r)
  BY DEF Plan!Prerequisites
<1> QED BY <1>1, <1>2 DEF SortInv, StepsInv, StepsAsSorted, Sorting, SortedInOrder

LEMMA NotExpandedStep ==
  ASSUME PlannerInv, NEW p \in PlannerKeys, Plan!NextIsNotExpanded(p)
  PROVE  PlannerInv'
<1> DEFINE n == Len(stack)
<1>1. /\ pc = "collect" /\ pc' = "collect" /\ p \in Plan!Top.todo
      /\ stack' = Plan!Took(p) /\ collected' = Append(collected, p)
      /\ truncated' \in BOOLEAN
      /\ UNCHANGED <<need, existing, optional, maxDepth, visited, inDegree, ready, sorted,
                     turns, steps>>
  BY DEF Plan!NextIsNotExpanded, Plan!params
<1>2. /\ stack' \in Seq(Plan!FrameType) /\ Len(stack') = n
      /\ \A i \in 1 .. n : /\ stack'[i].resource = stack[i].resource
                           /\ stack'[i].todo \subseteq stack[i].todo
      /\ p \in Plan!Prerequisites(Plan!Top.resource)
  BY <1>1, TookStack
<1>3. n \in Nat \ {0} /\ Plan!Top = stack[n]
  BY <1>1, TopOfStack
<1>4. /\ SortInv' /\ StepsInv' /\ SortedInOrder' /\ ~Sorting'
      /\ sorted = << >> /\ ready = {}
      /\ \A r : Plan!Prerequisites(r)' = Plan!Prerequisites(r)
  BY <1>1, OnlyWalks
<1>5. /\ collected' \in Seq(PlannerKeys)
      /\ Plan!InGraph' = Plan!InGraph \cup {p}
  BY <1>1, AppendElements DEF PlannerInv, Plan!TypeOK, Plan!InGraph
<1>6. Plan!TypeOK'
  BY <1>1, <1>2, <1>3, <1>4, <1>5 DEF PlannerInv, Plan!TypeOK, Sorting
<1>7. /\ OnStack' = OnStack /\ Inside' = Inside
  BY <1>2, <1>3 DEF OnStack, Inside
<1>8. /\ stack[1].resource = Target /\ OnStack \subseteq visited
      /\ \A i \in 1 .. n : stack[i].todo \subseteq Plan!Prerequisites(stack[i].resource)
      /\ \A i \in 2 .. n :
           stack[i].resource \in Plan!Prerequisites(stack[i - 1].resource)
  BY <1>1 DEF PlannerInv, WalkInv
<1>9. Target \in Plan!InGraph' =>
        \E C \in SUBSET PlannerKeys :
          Target \in C /\ IsTrap(C) /\ C \subseteq Plan!InGraph' \cup Inside
  <2>1. CASE Target \in Plan!InGraph
    BY <1>1, <1>5, <2>1 DEF PlannerInv, WalkInv
  <2>2. CASE p = Target
    <3>1. OnStack \subseteq {Target} \cup Inside /\ Target \in OnStack
      BY <1>3, <1>8 DEF OnStack, Inside
    <3>2. \A c \in OnStack : Plan!Prerequisites(c) \cap OnStack # {}
      <4> SUFFICES ASSUME NEW i \in 1 .. n
                   PROVE  Plan!Prerequisites(stack[i].resource) \cap OnStack # {}
        BY DEF OnStack
      <4>1. CASE i = n
        BY <1>2, <1>3, <2>2, <3>1, <4>1
      <4>2. CASE i < n
        <5>1. i + 1 \in 2 .. n /\ i + 1 \in 1 .. n /\ (i + 1) - 1 = i
          BY <1>3, <4>2
        <5>2. stack[i + 1].resource \in Plan!Prerequisites(stack[i].resource)
          BY <1>8, <5>1
        <5> QED BY <5>1, <5>2 DEF OnStack
      <4> QED BY <1>3, <4>1, <4>2
    <3>3. OnStack \in SUBSET PlannerKeys
      <4>1. \A i \in 1 .. n : stack[i] \in Plan!FrameType
        BY <1>3 DEF PlannerInv, Plan!TypeOK
      <4> QED BY <4>1 DEF OnStack, Plan!FrameType
    <3> QED BY <1>5, <2>2, <3>1, <3>2, <3>3 DEF IsTrap
  <2> QED BY <1>5, <2>1, <2>2
<1>10. WalkInv'
  <2>1. \A i \in 1 .. n : stack'[i].todo \subseteq Plan!Prerequisites(stack'[i].resource)
    BY <1>2, <1>8
  <2>2. \A i \in 2 .. n :
          stack'[i].resource \in Plan!Prerequisites(stack'[i - 1].resource)
    BY <1>2, <1>3, <1>8
  <2>3. stack' # << >> /\ stack'[1].resource = Target
    BY <1>2, <1>3, <1>8
  <2>4. \A C : IsTrap(C)' <=> IsTrap(C)
    BY <1>4 DEF IsTrap
  <2> QED BY <1>1, <1>2, <1>4, <1>7, <1>8, <1>9, <2>1, <2>2, <2>3, <2>4 DEF WalkInv
<1> QED BY <1>4, <1>6, <1>10 DEF PlannerInv

LEMMA ExpandedStep ==
  ASSUME PlannerInv, NEW p \in PlannerKeys, Plan!NextIsExpanded(p)
  PROVE  PlannerInv'
<1> DEFINE n == Len(stack)
           f == Plan!Frame(p, existing, optional)
           t == Plan!Took(p)
<1>1. /\ pc = "collect" /\ pc' = "collect" /\ p \in Plan!Top.todo /\ p \notin visited
      /\ stack' = Append(t, f) /\ visited' = visited \cup {p}
      /\ UNCHANGED <<need, existing, optional, maxDepth, collected, inDegree, ready,
                     sorted, turns, steps, truncated>>
  BY DEF Plan!NextIsExpanded, Plan!params
<1>2. /\ t \in Seq(Plan!FrameType) /\ Len(t) = n
      /\ \A i \in 1 .. n : /\ t[i].resource = stack[i].resource
                           /\ t[i].todo \subseteq stack[i].todo
      /\ p \in Plan!Prerequisites(Plan!Top.resource)
  BY <1>1, TookStack
<1>3. n \in Nat \ {0} /\ Plan!Top = stack[n]
  BY <1>1, TopOfStack
<1>4. /\ f \in Plan!FrameType /\ f.resource = p
      /\ f.todo \subseteq Plan!Prerequisites(p)
  BY DEF Plan!Frame, Plan!FrameType, Plan!WantedWith, Plan!Prerequisites
<1>5. /\ SortInv' /\ StepsInv' /\ SortedInOrder' /\ ~Sorting'
      /\ sorted = << >> /\ ready = {}
      /\ \A r : Plan!Prerequisites(r)' = Plan!Prerequisites(r)
  BY <1>1, OnlyWalks
<1> HIDE DEF f, t
<1>6. /\ stack' \in Seq(Plan!FrameType) /\ Len(stack') = n + 1 /\ stack'[n + 1] = f
      /\ \A i \in 1 .. n : stack'[i] = t[i]
  BY <1>1, <1>2, <1>4, AppendProperties
<1>7. /\ stack[1].resource = Target /\ OnStack \subseteq visited
      /\ \A i \in 1 .. n : stack[i].todo \subseteq Plan!Prerequisites(stack[i].resource)
      /\ \A i \in 2 .. n :
           stack[i].resource \in Plan!Prerequisites(stack[i - 1].resource)
  BY <1>1 DEF PlannerInv, WalkInv
<1>8. \A i \in 1 .. n : stack'[i].resource = stack[i].resource /\ stack[i].resource # p
  BY <1>1, <1>2, <1>6, <1>7 DEF OnStack
<1>9. \A i, j \in 1 .. n + 1 : stack'[i].resource = stack'[j].resource => i = j
  <2>1. \A i, j \in 1 .. n : stack[i].resource = stack[j].resource => i = j
    BY DEF PlannerInv, Plan!TypeOK
  <2>2. \A i \in 1 .. n + 1 : i = n + 1 \/ i \in 1 .. n
    BY <1>3
  <2>3. stack'[n + 1].resource = p
    BY <1>4, <1>6
  <2> QED BY <1>8, <2>1, <2>2, <2>3
<1>10. Plan!InGraph' = Plan!InGraph
  BY <1>1 DEF Plan!InGraph
<1>11. Plan!TypeOK'
  BY <1>1, <1>5, <1>6, <1>9, <1>10 DEF PlannerInv, Plan!TypeOK, Sorting
<1>12. WalkInv'
  <2>1. stack' # << >> /\ stack'[1].resource = Target
    BY <1>3, <1>6, <1>7, <1>8
  <2>2. OnStack' \subseteq visited'
    <3> SUFFICES ASSUME NEW i \in 1 .. n + 1 PROVE stack'[i].resource \in visited'
      BY <1>6 DEF OnStack
    <3>1. CASE i = n + 1
      BY <1>1, <1>4, <1>6, <3>1
    <3>2. CASE i # n + 1
      <4>1. i \in 1 .. n
        BY <1>3, <3>2
      <4> QED BY <1>1, <1>7, <1>8, <4>1 DEF OnStack
    <3> QED BY <3>1, <3>2
  <2>3. \A i \in 1 .. n + 1 :
          stack'[i].todo \subseteq Plan!Prerequisites(stack'[i].resource)
    BY <1>2, <1>3, <1>4, <1>6, <1>7, <1>8
  <2>4. ASSUME NEW i \in 2 .. n + 1
        PROVE  stack'[i].resource \in Plan!Prerequisites(stack'[i - 1].resource)
    <3>1. CASE i = n + 1
      <4>1. i - 1 = n /\ n \in 1 .. n
        BY <1>3, <3>1
      <4> QED BY <1>2, <1>3, <1>4, <1>6, <1>8, <3>1, <4>1
    <3>2. CASE i # n + 1
      <4>1. i \in 2 .. n /\ i \in 1 .. n /\ i - 1 \in 1 .. n
        BY <1>3, <3>2
      <4> QED BY <1>7, <1>8, <4>1
    <3> QED BY <3>1, <3>2
  <2>5. Inside \subseteq Inside'
    BY <1>3, <1>6, <1>8 DEF Inside
  <2>6. \A C : IsTrap(C)' <=> IsTrap(C)
    BY <1>5 DEF IsTrap
  <2>7. Target \in Plan!InGraph' =>
          \E C \in SUBSET PlannerKeys :
            Target \in C /\ IsTrap(C)' /\ C \subseteq Plan!InGraph' \cup Inside'
    BY <1>1, <1>10, <2>5, <2>6 DEF PlannerInv, WalkInv
  <2> QED BY <1>1, <1>5, <1>6, <2>1, <2>2, <2>3, <2>4, <2>7 DEF WalkInv
<1> QED BY <1>5, <1>11, <1>12 DEF PlannerInv

LEMMA ReturnStep ==
  ASSUME PlannerInv, Plan!CallReturns
  PROVE  PlannerInv'
<1> DEFINE n == Len(stack)
           r == Plan!Top.resource
<1>1. /\ pc = "collect" /\ pc' = "collect" /\ n > 1
      /\ stack' = Plan!Rest /\ collected' = Append(collected, r)
      /\ UNCHANGED <<need, existing, optional, maxDepth, visited, inDegree, ready, sorted,
                     turns, steps, truncated>>
  BY DEF Plan!CallReturns, Plan!params
<1>2. /\ n \in Nat /\ r = stack[n].resource /\ r \in PlannerKeys
      /\ stack' \in Seq(Plan!FrameType) /\ Len(stack') = n - 1
      /\ \A i \in 1 .. n - 1 : stack'[i] = stack[i]
  BY <1>1, TopOfStack
<1> HIDE DEF r
<1>3. /\ SortInv' /\ StepsInv' /\ SortedInOrder' /\ ~Sorting'
      /\ sorted = << >> /\ ready = {}
      /\ \A q : Plan!Prerequisites(q)' = Plan!Prerequisites(q)
  BY <1>1, OnlyWalks
<1>4. collected' \in Seq(PlannerKeys) /\ Plan!InGraph' = Plan!InGraph \cup {r}
  BY <1>1, <1>2, AppendElements DEF PlannerInv, Plan!TypeOK, Plan!InGraph
<1>5. Plan!TypeOK'
  BY <1>1, <1>2, <1>3, <1>4 DEF PlannerInv, Plan!TypeOK, Sorting
<1>6. /\ stack[1].resource = Target /\ OnStack \subseteq visited
      /\ \A i \in 1 .. n : stack[i].todo \subseteq Plan!Prerequisites(stack[i].resource)
      /\ \A i \in 2 .. n :
           stack[i].resource \in Plan!Prerequisites(stack[i - 1].resource)
  BY <1>1 DEF PlannerInv, WalkInv
<1>7. r # Target
  <2>1. 1 \in 1 .. n /\ n \in 1 .. n /\ n # 1
    BY <1>1, <1>2
  <2> QED BY <1>2, <1>6, <2>1 DEF PlannerInv, Plan!TypeOK
<1>8. Inside \subseteq Inside' \cup {r}
  <2> SUFFICES ASSUME NEW i \in 2 .. n PROVE stack[i].resource \in Inside' \cup {r}
    BY DEF Inside
  <2>1. CASE i = n
    BY <1>2, <2>1
  <2>2. CASE i # n
    <3>1. i \in 2 .. n - 1 /\ i \in 1 .. n - 1
      BY <1>2, <2>2
    <3> QED BY <1>2, <3>1 DEF Inside
  <2> QED BY <2>1, <2>2
<1>9. WalkInv'
  <2>1. stack' # << >> /\ stack'[1].resource = Target
    BY <1>1, <1>2, <1>6
  <2>2. OnStack' \subseteq visited'
    BY <1>1, <1>2, <1>6 DEF OnStack
  <2>3. /\ \A i \in 1 .. n - 1 :
             stack'[i].todo \subseteq Plan!Prerequisites(stack'[i].resource)
        /\ \A i \in 2 .. n - 1 :
             stack'[i].resource \in Plan!Prerequisites(stack'[i - 1].resource)
    BY <1>2, <1>6
  <2>4. \A C : IsTrap(C)' <=> IsTrap(C)
    BY <1>3 DEF IsTrap
  <2>5. Target \in Plan!InGraph' =>
          \E C \in SUBSET PlannerKeys :
            Target \in C /\ IsTrap(C)' /\ C \subseteq Plan!InGraph' \cup Inside'
    BY <1>1, <1>4, <1>7, <1>8, <2>4 DEF PlannerInv, WalkInv
  <2> QED BY <1>1, <1>2, <1>3, <2>1, <2>2, <2>3, <2>5 DEF WalkInv
<1> QED BY <1>3, <1>5, <1>9 DEF PlannerInv

-----------------------------------------------------------------------------
(* The sort *)

LEMMA SameNeeds ==
  ASSUME UNCHANGED <<need, collected>>
  PROVE  /\ Plan!InGraph' = Plan!InGraph
         /\ \A r : Plan!Prerequisites(r)' = Plan!Prerequisites(r)
         /\ \A r : Plan!Before(r)' = Plan!Before(r)
         /\ \A r : Plan!EdgesInto(r)' = Plan!EdgesInto(r)
<1>1. Plan!InGraph' = Plan!InGraph
  BY DEF Plan!InGraph
<1>2. \A r : Plan!Prerequisites(r)' = Plan!Prerequisites(r)
  BY DEF Plan!Prerequisites
<1>3. \A r : Plan!Before(r)' = Plan!Before(r)
  BY <1>1, <1>2 DEF Plan!Before
<1>4. \A r : Plan!EdgesInto(r)' = Plan!EdgesInto(r)
  BY <1>3, Zenon DEF Plan!EdgesInto
<1> QED BY <1>1, <1>2, <1>3, <1>4

LEMMA SortStartsStep ==
  ASSUME PlannerInv, Plan!SortStarts
  PROVE  PlannerInv'
<1>1. /\ pc = "collect" /\ pc' = "sort" /\ Len(stack) = 1 /\ stack' = << >>
      /\ inDegree' = [r \in Plan!InGraph |-> Plan!EdgesInto(r)]
      /\ ready' = {r \in Plan!InGraph : Plan!EdgesInto(r) = 0}
      /\ UNCHANGED <<need, existing, optional, maxDepth, visited, collected, sorted,
                     turns, steps, truncated>>
  BY DEF Plan!SortStarts, Plan!params
<1>2. sorted = << >> /\ steps = << >> /\ turns = 0
  BY <1>1 DEF PlannerInv, WalkInv, StepsInv, Sorting
<1>3. /\ Plan!InGraph' = Plan!InGraph /\ Sorted' = {}
      /\ \A r : Plan!Prerequisites(r)' = Plan!Prerequisites(r)
      /\ \A r : Plan!Before(r)' = Plan!Before(r)
      /\ \A r : Plan!EdgesInto(r)' = Plan!EdgesInto(r)
  BY <1>1, <1>2, SameNeeds DEF Sorted, Plan!Elements
<1>4. \A r \in Plan!InGraph : /\ Plan!EdgesInto(r) \in Nat
                              /\ Plan!EdgesInto(r) >= Cardinality(Plan!Before(r))
                              /\ IsFiniteSet(Plan!Before(r))
                              /\ Cardinality(Plan!Before(r)) \in Nat
  BY EdgeCounts DEF PlannerInv
<1>5. Plan!TypeOK'
  BY <1>1, <1>2, <1>3, <1>4 DEF PlannerInv, Plan!TypeOK
<1>6. \A r \in Plan!InGraph : Plan!EdgesInto(r) = 0 => Plan!Before(r) = {}
  <2> SUFFICES ASSUME NEW r \in Plan!InGraph, Plan!EdgesInto(r) = 0
               PROVE  Plan!Before(r) = {}
    OBVIOUS
  <2>1. Cardinality(Plan!Before(r)) = 0
    BY <1>4
  <2> QED BY <1>4, <2>1, FS_EmptySet
<1>7. Target \in Plan!InGraph =>
        \E C \in SUBSET PlannerKeys :
          Target \in C /\ IsTrap(C) /\ C \subseteq Plan!InGraph /\ C \cap ready' = {}
  <2> SUFFICES ASSUME Target \in Plan!InGraph
               PROVE  \E C \in SUBSET PlannerKeys :
                        /\ Target \in C /\ IsTrap(C) /\ C \subseteq Plan!InGraph
                        /\ C \cap ready' = {}
    OBVIOUS
  <2>1. PICK C \in SUBSET PlannerKeys :
          Target \in C /\ IsTrap(C) /\ C \subseteq Plan!InGraph \cup Inside
    BY <1>1 DEF PlannerInv, WalkInv
  <2>2. Inside = {}
    BY <1>1 DEF Inside
  <2>3. \A c \in C : Plan!Before(c) # {}
    BY <2>1, <2>2 DEF IsTrap, Plan!Before
  <2> QED BY <1>1, <1>6, <2>1, <2>2, <2>3
<1>8. SortInv'
  <2>1. \A C : IsTrap(C)' <=> IsTrap(C)
    BY <1>3 DEF IsTrap
  <2>2. \A r \in Plan!InGraph :
          /\ inDegree'[r] = Plan!EdgesInto(r) - Cardinality(Plan!Before(r) \cap {})
          /\ inDegree'[r] = 0 <=> r \in ready'
    BY <1>1, <1>4, FS_EmptySet
  <2>3. inDegree' \in [Plan!InGraph -> Int]
    BY <1>1, <1>4
  <2> QED BY <1>1, <1>2, <1>3, <1>7, <2>1, <2>2, <2>3 DEF SortInv
<1>9. WalkInv' /\ StepsInv' /\ SortedInOrder'
  BY <1>1, <1>2 DEF WalkInv, StepsInv, StepsAsSorted, Sorting, SortedInOrder
<1> QED BY <1>5, <1>8, <1>9 DEF PlannerInv

LEMMA SortTakesStep ==
  ASSUME PlannerInv, NEW r \in PlannerKeys, Plan!SortTakes(r)
  PROVE  PlannerInv'
<1> DEFINE after == {q \in Plan!InGraph : r \in Plan!Before(q)}
           n == Len(sorted)
<1>1. /\ pc = "sort" /\ pc' = "sort" /\ r \in ready
      /\ sorted' = Append(sorted, r)
      /\ inDegree' = [q \in Plan!InGraph |->
                        IF q \in after THEN inDegree[q] - 1 ELSE inDegree[q]]
      /\ ready' = (ready \ {r}) \cup {q \in after : inDegree[q] = 1}
      /\ UNCHANGED <<need, existing, optional, maxDepth, stack, visited, collected,
                     turns, steps, truncated>>
  BY DEF Plan!SortTakes, Plan!params
<1>2. /\ Plan!InGraph' = Plan!InGraph
      /\ \A q : Plan!Prerequisites(q)' = Plan!Prerequisites(q)
      /\ \A q : Plan!Before(q)' = Plan!Before(q)
      /\ \A q : Plan!EdgesInto(q)' = Plan!EdgesInto(q)
  BY <1>1, SameNeeds
<1>3. sorted \in Seq(PlannerKeys) /\ n \in Nat /\ Sorting /\ Sorting'
  BY <1>1 DEF PlannerInv, Plan!TypeOK, Sorting
<1>4. /\ inDegree \in [Plan!InGraph -> Int]
      /\ Sorted \subseteq Plan!InGraph /\ Sorted \cap ready = {}
      /\ \A i, j \in 1 .. n : sorted[i] = sorted[j] => i = j
      /\ \A q \in Plan!InGraph :
           /\ inDegree[q] = Plan!EdgesInto(q) - Cardinality(Plan!Before(q) \cap Sorted)
           /\ inDegree[q] = 0 <=> q \in ready \cup Sorted
  BY <1>3 DEF PlannerInv, SortInv
<1>5. /\ r \in Plan!InGraph /\ r \notin Sorted
      /\ \A q \in ready \cup Sorted : Plan!Before(q) \subseteq Sorted
  BY <1>1, <1>3, <1>4, NothingLeft DEF PlannerInv
<1>6. /\ Sorted' = Sorted \cup {r} /\ sorted' \in Seq(PlannerKeys) /\ Len(sorted') = n + 1
      /\ \A i \in 1 .. n : sorted'[i] = sorted[i]
      /\ sorted'[n + 1] = r
  BY <1>1, <1>3, AppendElements, AppendProperties DEF Sorted
<1>7. \A i, j \in 1 .. Len(sorted') : sorted'[i] = sorted'[j] => i = j
  BY <1>1, <1>3, <1>4, <1>5, AppendDistinct DEF Sorted
<1>8. ready' \subseteq Plan!InGraph /\ Sorted' \cap ready' = {}
  <2>1. ASSUME NEW q \in after, inDegree[q] = 1 PROVE q \notin ready \cup Sorted
    <3>1. q \in Plan!InGraph /\ inDegree[q] # 0
      BY <2>1
    <3> QED BY <1>4, <3>1
  <2> QED BY <1>1, <1>4, <1>5, <1>6, <2>1 DEF PlannerInv, Plan!TypeOK
<1>9. ASSUME NEW q \in Plan!InGraph
      PROVE  inDegree'[q] = Plan!EdgesInto(q) - Cardinality(Plan!Before(q) \cap Sorted')
  <2> DEFINE D == Plan!Before(q) \cap Sorted
  <2>1. IsFiniteSet(D) /\ Cardinality(D) \in Nat /\ Plan!EdgesInto(q) \in Nat
    BY EdgeCounts, FS_Subset, FS_CardinalityType DEF PlannerInv
  <2>2. CASE q \in after
    <3>1. Plan!Before(q) \cap Sorted' = D \cup {r} /\ r \notin D
      BY <1>5, <1>6, <2>2
    <3>2. Cardinality(D \cup {r}) = Cardinality(D) + 1
      BY <2>1, <3>1, FS_AddElement
    <3>3. inDegree'[q] = inDegree[q] - 1
      BY <1>1, <2>2
    <3>4. inDegree[q] = Plan!EdgesInto(q) - Cardinality(D)
      BY <1>4
    <3>5. Cardinality(Plan!Before(q) \cap Sorted') = Cardinality(D) + 1
      BY <3>1, <3>2, Zenon
    <3> HIDE DEF D
    <3> QED BY <2>1, <3>3, <3>4, <3>5
  <2>3. CASE q \notin after
    <3>1. Plan!Before(q) \cap Sorted' = D
      BY <1>6, <2>3
    <3> QED BY <1>1, <1>4, <2>3, <3>1
  <2> QED BY <2>2, <2>3
<1>10. \A q \in Plan!InGraph : inDegree'[q] = 0 <=> q \in ready' \cup Sorted'
  <2> SUFFICES ASSUME NEW q \in Plan!InGraph
               PROVE  inDegree'[q] = 0 <=> q \in ready' \cup Sorted'
    OBVIOUS
  <2>1. CASE q \in after
    <3>1. q \notin ready \cup Sorted
      BY <1>5, <2>1
    <3>2. q # r /\ inDegree'[q] = inDegree[q] - 1 /\ inDegree[q] \in Int
      BY <1>1, <1>4, <2>1, <3>1
    <3> QED BY <1>1, <1>6, <2>1, <3>1, <3>2
  <2>2. CASE q \notin after
    BY <1>1, <1>4, <1>6, <2>2
  <2> QED BY <2>1, <2>2
<1>11. Target \in Plan!InGraph =>
         \E C \in SUBSET PlannerKeys :
           /\ Target \in C /\ IsTrap(C) /\ C \subseteq Plan!InGraph
           /\ C \cap (ready' \cup Sorted') = {}
  <2> SUFFICES ASSUME Target \in Plan!InGraph
               PROVE  \E C \in SUBSET PlannerKeys :
                        /\ Target \in C /\ IsTrap(C) /\ C \subseteq Plan!InGraph
                        /\ C \cap (ready' \cup Sorted') = {}
    OBVIOUS
  <2>1. PICK C \in SUBSET PlannerKeys :
          /\ Target \in C /\ IsTrap(C) /\ C \subseteq Plan!InGraph
          /\ C \cap (ready \cup Sorted) = {}
    BY <1>3 DEF PlannerInv, SortInv
  <2>2. ASSUME NEW c \in C, c \in ready' \cup Sorted' PROVE FALSE
    <3>1. c \in Plan!InGraph /\ inDegree'[c] = 0
      BY <1>10, <2>1, <2>2
    <3>2. Plan!Before(c) \subseteq Sorted'
      BY <1>9, <3>1, AllCounted DEF PlannerInv
    <3>3. PICK b \in Plan!Before(c) : b \in C
      BY <2>1 DEF IsTrap, Plan!Before
    <3> QED BY <1>1, <1>6, <2>1, <3>2, <3>3
  <2> QED BY <2>1, <2>2
<1>12. Plan!TypeOK'
  <2>1. inDegree' \in [Plan!InGraph -> Int]
    BY <1>1, <1>4
  <2>2. turns' \in 0 .. Len(sorted')
    BY <1>1, <1>3, <1>6 DEF PlannerInv, Plan!TypeOK
  <2> QED BY <1>1, <1>2, <1>6, <1>8, <2>1, <2>2 DEF PlannerInv, Plan!TypeOK
<1>13. SortInv'
  <2>1. \A C : IsTrap(C)' <=> IsTrap(C)
    BY <1>2 DEF IsTrap
  <2>2. inDegree' \in [Plan!InGraph -> Int]
    BY <1>1, <1>4
  <2>3. Sorted' \subseteq Plan!InGraph
    BY <1>4, <1>5, <1>6
  <2> QED BY <1>2, <1>7, <1>8, <1>9, <1>10, <1>11, <2>1, <2>2, <2>3 DEF SortInv
<1>14. WalkInv' /\ StepsInv'
  <2>1. steps = << >> /\ turns = 0
    BY <1>1 DEF PlannerInv, StepsInv
  <2> QED BY <1>1, <1>3, <2>1 DEF PlannerInv, WalkInv, StepsInv, StepsAsSorted
<1>15. SortedInOrder'
  <2> SUFFICES ASSUME NEW i \in 1 .. n + 1, NEW j \in 1 .. n + 1,
                      sorted'[j] \in Plan!Prerequisites(sorted'[i])
               PROVE  j < i
    BY <1>2, <1>6 DEF SortedInOrder
  <2>1. /\ sorted'[i] \in ready \cup Sorted /\ sorted'[j] \in Plan!InGraph
    BY <1>1, <1>3, <1>4, <1>5, <1>6 DEF Sorted, Plan!Elements
  <2>2. sorted'[j] \in Sorted
    BY <1>5, <2>1 DEF Plan!Before
  <2>3. j # n + 1 /\ j \in 1 .. n
    <3>1. sorted'[j] # r
      BY <1>5, <2>2
    <3>2. j # n + 1
      BY <1>6, <3>1
    <3> HIDE DEF n
    <3> QED BY <1>3, <3>2
  <2>4. CASE i = n + 1
    BY <1>3, <2>3, <2>4
  <2>5. CASE i # n + 1
    <3>1. i \in 1 .. n
      BY <1>3, <2>5
    <3> QED BY <1>6, <2>3, <3>1
            DEF PlannerInv, SortedInOrder
  <2> QED BY <2>4, <2>5
<1> QED BY <1>12, <1>13, <1>14, <1>15 DEF PlannerInv

\* What becomes of the steps changes nothing else.
LEMMA OnlySteps ==
  ASSUME PlannerInv, Sorting, Sorting', pc' # "collect",
         UNCHANGED <<need, existing, optional, maxDepth, stack, visited, collected,
                     inDegree, ready, sorted, truncated>>,
         steps' \in Seq(PlannerKeys), turns' \in 0 .. Len(sorted), StepsInv'
  PROVE  PlannerInv'
<1>1. /\ Plan!InGraph' = Plan!InGraph /\ Sorted' = Sorted
      /\ \A q : Plan!Prerequisites(q)' = Plan!Prerequisites(q)
      /\ \A q : Plan!Before(q)' = Plan!Before(q)
      /\ \A q : Plan!EdgesInto(q)' = Plan!EdgesInto(q)
  BY SameNeeds DEF Sorted
<1>2. \A C : IsTrap(C)' <=> IsTrap(C)
  BY <1>1 DEF IsTrap
<1>3. Plan!TypeOK'
  BY <1>1 DEF PlannerInv, Plan!TypeOK, Sorting
<1>4. WalkInv'
  BY DEF PlannerInv, WalkInv, Sorting
<1>5. SortInv'
  BY <1>1, <1>2 DEF PlannerInv, SortInv
<1>6. SortedInOrder'
  BY <1>1 DEF PlannerInv, SortedInOrder
<1> QED BY <1>3, <1>4, <1>5, <1>6 DEF PlannerInv

LEMMA SortEndsStep ==
  ASSUME PlannerInv, Plan!SortEnds
  PROVE  PlannerInv'
<1>1. /\ pc = "sort" /\ pc' = "plan" /\ ready = {}
      /\ UNCHANGED <<need, existing, optional, maxDepth, stack, visited, collected,
                     inDegree, ready, sorted, turns, steps, truncated>>
  BY DEF Plan!SortEnds, Plan!params
<1>2. steps = << >> /\ turns = 0 /\ steps \in Seq(PlannerKeys) /\ turns \in 0 .. Len(sorted)
  BY <1>1 DEF PlannerInv, StepsInv, Plan!TypeOK
<1>3. StepsInv'
  BY <1>1, <1>2 DEF StepsInv, StepsAsSorted, Plan!Elements
<1> QED BY <1>1, <1>2, <1>3, OnlySteps DEF Sorting

\* The target has no step before its own.
LEMMA TargetNotSorted ==
  ASSUME PlannerInv, Sorting
  PROVE  Target \notin Sorted
  BY DEF PlannerInv, SortInv

LEMMA PlanTakesStep ==
  ASSUME PlannerInv, NEW found \in BOOLEAN, Plan!PlanTakes(found)
  PROVE  PlannerInv'
<1> DEFINE r == sorted[turns + 1]
<1>1. /\ pc = "plan" /\ pc' = "plan" /\ turns < Len(sorted) /\ turns' = turns + 1
      /\ steps' = (IF found THEN Append(steps, r) ELSE steps)
      /\ UNCHANGED <<need, existing, optional, maxDepth, stack, visited, collected,
                     inDegree, ready, sorted, truncated>>
  BY DEF Plan!PlanTakes, Plan!params, Plan!WithStep
<1>2. /\ sorted \in Seq(PlannerKeys) /\ steps \in Seq(PlannerKeys) /\ turns \in Nat
      /\ Len(sorted) \in Nat
  BY DEF PlannerInv, Plan!TypeOK
<1>3. /\ Plan!Elements(steps) \subseteq {sorted[i] : i \in 1 .. turns} /\ ready = {}
      /\ \A i, j \in 1 .. Len(steps) : steps[i] = steps[j] => i = j
      /\ \A i, j \in 1 .. Len(sorted) : sorted[i] = sorted[j] => i = j
  BY <1>1 DEF PlannerInv, StepsInv, SortInv, Sorting
<1>4. /\ turns + 1 \in 1 .. Len(sorted) /\ 1 .. turns \subseteq 1 .. Len(sorted)
      /\ 1 .. turns \subseteq 1 .. turns + 1 /\ turns + 1 \notin 1 .. turns
      /\ turns + 1 \in 1 .. turns + 1 /\ turns' \in 0 .. Len(sorted)
  BY <1>1, <1>2
<1>5. r \in PlannerKeys /\ r \notin Plan!Elements(steps)
  BY <1>2, <1>3, <1>4
<1>6. /\ steps' \in Seq(PlannerKeys)
      /\ Plan!Elements(steps') \subseteq {sorted[i] : i \in 1 .. turns + 1}
      /\ \A i, j \in 1 .. Len(steps') : steps'[i] = steps'[j] => i = j
  <2> HIDE DEF r
  <2>1. CASE found
    <3>1. steps' = Append(steps, r) /\ r \in {sorted[i] : i \in 1 .. turns + 1}
      BY <1>1, <1>4, <2>1 DEF r
    <3>2. /\ steps' \in Seq(PlannerKeys)
          /\ Plan!Elements(steps') = Plan!Elements(steps) \cup {r}
      BY <1>2, <1>5, <3>1, AppendElements
    <3>3. \A i, j \in 1 .. Len(steps') : steps'[i] = steps'[j] => i = j
      BY <1>2, <1>3, <1>5, <3>1, AppendDistinct
    <3>4. {sorted[i] : i \in 1 .. turns} \subseteq {sorted[i] : i \in 1 .. turns + 1}
      BY <1>4
    <3> QED BY <1>3, <3>1, <3>2, <3>3, <3>4
  <2>2. CASE ~found
    BY <1>1, <1>2, <1>3, <1>4, <2>2
  <2> QED BY <2>1, <2>2
<1>7. \A i \in 1 .. Len(steps') : steps'[i] \in Sorted
  <2>1. {sorted[i] : i \in 1 .. turns + 1} \subseteq Sorted
    BY <1>2, <1>4 DEF Sorted, Plan!Elements
  <2> QED BY <1>6, <2>1 DEF Plan!Elements
<1>8. StepsAsSorted'
  <2> HIDE DEF r
  <2>1. CASE found
    <3> SUFFICES ASSUME NEW i \in 1 .. Len(steps'), NEW j \in 1 .. Len(steps'), i < j,
                        NEW a \in 1 .. Len(sorted), NEW b \in 1 .. Len(sorted),
                        steps'[i] = sorted[a], steps'[j] = sorted[b]
                 PROVE  a < b
      BY <1>1 DEF StepsAsSorted
    <3>1. /\ Len(steps') = Len(steps) + 1 /\ Len(steps) \in Nat
          /\ \A k \in 1 .. Len(steps) : steps'[k] = steps[k]
          /\ steps'[Len(steps) + 1] = r
      BY <1>1, <1>2, <1>5, <2>1, AppendProperties
    <3>2. i \in 1 .. Len(steps) /\ steps'[i] = steps[i]
      BY <3>1
    <3>3. CASE j \in 1 .. Len(steps)
      BY <1>1, <3>1, <3>2, <3>3 DEF PlannerInv, StepsInv, StepsAsSorted
    <3>4. CASE j \notin 1 .. Len(steps)
      <4>1. sorted[b] = r
        BY <3>1, <3>4
      <4>2. b = turns + 1
        BY <1>3, <1>4, <4>1 DEF r
      <4>3. PICK k \in 1 .. turns : sorted[k] = steps[i]
        <5>1. steps[i] \in Plan!Elements(steps)
          BY <3>2 DEF Plan!Elements
        <5> QED BY <1>3, <5>1
      <4>4. a = k
        BY <1>3, <1>4, <3>2, <4>3
      <4> QED BY <1>2, <4>2, <4>4
    <3> QED BY <3>3, <3>4
  <2>2. CASE ~found
    BY <1>1, <2>2 DEF PlannerInv, StepsInv, StepsAsSorted
  <2> QED BY <2>1, <2>2
<1>9. StepsInv'
  <2>1. Sorted' = Sorted
    BY <1>1 DEF Sorted
  <2> QED BY <1>1, <1>3, <1>6, <1>7, <1>8, <2>1 DEF StepsInv, Plan!Elements
<1> QED BY <1>1, <1>4, <1>6, <1>9, OnlySteps DEF Sorting

LEMMA PlanEndsStep ==
  ASSUME PlannerInv, NEW found \in BOOLEAN, Plan!PlanEnds(found)
  PROVE  PlannerInv'
<1>1. /\ pc = "plan" /\ pc' = "done" /\ turns = Len(sorted)
      /\ steps' = (IF found THEN Append(steps, Target) ELSE steps)
      /\ UNCHANGED <<need, existing, optional, maxDepth, stack, visited, collected,
                     inDegree, ready, sorted, turns, truncated>>
  BY DEF Plan!PlanEnds, Plan!params, Plan!WithStep
<1>2. /\ steps \in Seq(PlannerKeys) /\ Target \in PlannerKeys /\ turns \in 0 .. Len(sorted)
  BY PlannerConstants DEF PlannerInv, Plan!TypeOK, Plan!ResolverConstants
<1>3. /\ Plan!Elements(steps) \subseteq Sorted /\ ready = {}
      /\ \A i, j \in 1 .. Len(steps) : steps[i] = steps[j] => i = j
  BY <1>1 DEF PlannerInv, StepsInv, Sorted, Plan!Elements
<1>4. Target \notin Plan!Elements(steps)
  BY <1>1, <1>3, TargetNotSorted DEF Sorting
<1>5. /\ steps' \in Seq(PlannerKeys)
      /\ \A i, j \in 1 .. Len(steps') : steps'[i] = steps'[j] => i = j
  <2>1. CASE found
    BY <1>1, <1>2, <1>3, <1>4, <2>1, AppendDistinct
  <2>2. CASE ~found
    BY <1>1, <1>2, <1>3, <2>2
  <2> QED BY <2>1, <2>2
<1>6. /\ \A i \in 1 .. Len(steps') :
           steps'[i] \in Sorted \/ (steps'[i] = Target /\ i = Len(steps'))
      /\ StepsAsSorted'
  <2>1. CASE found
    <3>1. /\ Len(steps') = Len(steps) + 1 /\ Len(steps) \in Nat
          /\ \A k \in 1 .. Len(steps) : steps'[k] = steps[k]
          /\ steps'[Len(steps) + 1] = Target
      BY <1>1, <1>2, <2>1, AppendProperties
    <3>2. \A i \in 1 .. Len(steps') : i \in 1 .. Len(steps) \/ i = Len(steps) + 1
      BY <3>1
    <3>3. \A i \in 1 .. Len(steps') :
            steps'[i] \in Sorted \/ (steps'[i] = Target /\ i = Len(steps'))
      BY <1>3, <3>1, <3>2 DEF Plan!Elements
    <3>4. \A b \in 1 .. Len(sorted) : sorted[b] # Target
      BY <1>1, TargetNotSorted DEF Sorting, Sorted, Plan!Elements
    <3>5. StepsAsSorted'
      <4> SUFFICES ASSUME NEW i \in 1 .. Len(steps'), NEW j \in 1 .. Len(steps'), i < j,
                          NEW a \in 1 .. Len(sorted), NEW b \in 1 .. Len(sorted),
                          steps'[i] = sorted[a], steps'[j] = sorted[b]
                   PROVE  a < b
        BY <1>1 DEF StepsAsSorted
      <4>1. j \in 1 .. Len(steps)
        BY <3>1, <3>2, <3>4
      <4>2. i \in 1 .. Len(steps)
        BY <3>1, <4>1
      <4> QED BY <1>1, <3>1, <4>1, <4>2 DEF PlannerInv, StepsInv, StepsAsSorted
    <3> QED BY <3>3, <3>5
  <2>2. CASE ~found
    <3>1. \A i \in 1 .. Len(steps) : steps[i] \in Sorted
      BY <1>3 DEF Plan!Elements
    <3>2. steps' = steps /\ sorted' = sorted
      BY <1>1, <2>2
    <3> QED BY <3>1, <3>2 DEF PlannerInv, StepsInv, StepsAsSorted
  <2> QED BY <2>1, <2>2
<1>7. StepsInv'
  <2>1. Sorted' = Sorted
    BY <1>1 DEF Sorted
  <2> QED BY <1>1, <1>3, <1>5, <1>6, <2>1 DEF StepsInv
<1> QED BY <1>1, <1>2, <1>5, <1>7, OnlySteps DEF Sorting

LEMMA PlannerStep ==
  ASSUME PlannerInv, Plan!Call \/ Plan!Step
  PROVE  PlannerInv'
  BY CallStep, NotExpandedStep, ExpandedStep, ReturnStep, SortStartsStep, SortTakesStep,
     SortEndsStep, PlanTakesStep, PlanEndsStep DEF Plan!Step

-----------------------------------------------------------------------------
(* The walk finds what the target needs *)

\* f is the recursive function of ReachedIn for the target, on the numbers up to m.
IsFrom(f, m) ==
  f = [n \in 0 .. m |->
        IF n = 0 THEN Plan!Wanted(Target)
        ELSE f[n - 1] \cup UNION {Plan!Wanted(p) : p \in f[n - 1]}]

LEMMA FromExists ==
  ASSUME NEW m \in Nat
  PROVE  \E f : IsFrom(f, m)
<1> DEFINE T == {k \in Nat : \E f : IsFrom(f, k)}
           W == Plan!Wanted(Target)
           Next1(S) == S \cup UNION {Plan!Wanted(p) : p \in S}
<1>1. 0 \in T
  <2> DEFINE f == [n \in 0 .. 0 |-> W]
  <2> HIDE DEF W
  <2>1. IsFrom(f, 0)
    BY DEF IsFrom, W
  <2> QED BY <2>1
<1>2. ASSUME NEW k \in 1 .. m, k - 1 \in T PROVE k \in T
  <2>1. PICK g : IsFrom(g, k - 1)
    BY <1>2
  <2> DEFINE f == [n \in 0 .. k |-> IF n = k THEN Next1(g[k - 1]) ELSE g[n]]
  <2>2. \A i \in 0 .. k - 1 : g[i] = IF i = 0 THEN W ELSE Next1(g[i - 1])
    BY <2>1 DEF IsFrom
  <2> HIDE DEF W, Next1
  <2>3. ASSUME NEW n \in 0 .. k
        PROVE  f[n] = IF n = 0 THEN W ELSE Next1(f[n - 1])
    <3>1. \A i \in 0 .. k - 1 : f[i] = g[i]
      OBVIOUS
    <3>2. CASE n = k
      <4>1. k - 1 \in 0 .. k - 1 /\ f[n] = Next1(g[k - 1]) /\ n # 0
        BY <3>2
      <4> QED BY <3>1, <3>2, <4>1
    <3>3. CASE n # k
      <4>1. n \in 0 .. k - 1 /\ (n # 0 => n - 1 \in 0 .. k - 1)
        BY <3>3
      <4> QED BY <2>2, <3>1, <4>1
    <3> QED BY <3>2, <3>3
  <2>4. f = [n \in 0 .. k |-> IF n = 0 THEN W ELSE Next1(f[n - 1])]
    BY <2>3
  <2>5. IsFrom(f, k)
    BY <2>4 DEF IsFrom, W, Next1
  <2> QED BY <2>5
<1>3. \A n \in 0 .. m : n \in T
  <2>1. T \in SUBSET Nat
    OBVIOUS
  <2> HIDE DEF T
  <2> QED BY <1>1, <1>2, <2>1, UpTo
<1> QED BY <1>3

LEMMA ReachedUnfolds ==
  \E f : /\ f[0] = Plan!Wanted(Target)
         /\ \A n \in 1 .. Cardinality(PlannerKeys) :
              f[n] = f[n - 1] \cup UNION {Plan!Wanted(p) : p \in f[n - 1]}
         /\ Plan!ReachedIn(Target) = f[Cardinality(PlannerKeys)]
<1> DEFINE N == Cardinality(PlannerKeys)
           f == CHOOSE g : IsFrom(g, N)
           W == Plan!Wanted(Target)
           Next1(S) == S \cup UNION {Plan!Wanted(p) : p \in S}
<1>1. N \in Nat /\ Plan!Cardinality(PlannerKeys) = N
  BY KeysOfThePlanner, SameCardinality
<1>2. IsFrom(f, N)
  BY <1>1, FromExists
<1>3. Plan!ReachedIn(Target) = f[N]
  BY <1>1 DEF Plan!ReachedIn, IsFrom
<1>4. f = [n \in 0 .. N |-> IF n = 0 THEN W ELSE Next1(f[n - 1])]
  BY <1>2 DEF IsFrom
<1> HIDE DEF f, N, W, Next1
<1>5. f[0] = W /\ \A n \in 1 .. N : f[n] = Next1(f[n - 1])
  <2>1. \A n \in 0 .. N : f[n] = IF n = 0 THEN W ELSE Next1(f[n - 1])
    BY <1>4
  <2>2. 0 \in 0 .. N /\ \A n \in 1 .. N : n \in 0 .. N /\ n # 0
    BY <1>1
  <2> QED BY <2>1, <2>2
<1> QED BY <1>3, <1>5 DEF N, W, Next1

\* Closed: what a member wants is a member.
IsClosed(S) == \A p \in S : Plan!Wanted(p) \subseteq S

LEMMA ReachedIsLeast ==
  ASSUME NEW S, Plan!Wanted(Target) \subseteq S, IsClosed(S)
  PROVE  Plan!ReachedIn(Target) \subseteq S
<1> DEFINE N == Cardinality(PlannerKeys)
<1>1. PICK f : /\ f[0] = Plan!Wanted(Target)
               /\ \A n \in 1 .. N :
                    f[n] = f[n - 1] \cup UNION {Plan!Wanted(p) : p \in f[n - 1]}
               /\ Plan!ReachedIn(Target) = f[N]
  BY ReachedUnfolds
<1>2. N \in Nat
  BY KeysOfThePlanner
<1> DEFINE T == {n \in 0 .. N : f[n] \subseteq S}
<1>3. 0 \in 0 .. N /\ \A n \in 1 .. N : n \in 0 .. N
  BY <1>2
<1>4. 0 \in T
  BY <1>1, <1>3
<1>5. ASSUME NEW n \in 1 .. N, n - 1 \in T PROVE n \in T
  <2>1. f[n] = f[n - 1] \cup UNION {Plan!Wanted(p) : p \in f[n - 1]} /\ n \in 0 .. N
    BY <1>1, <1>3
  <2>2. f[n - 1] \subseteq S
    BY <1>5
  <2> QED BY <2>1, <2>2 DEF IsClosed
<1>6. \A n \in 0 .. N : n \in T
  <2>1. T \in SUBSET Nat
    OBVIOUS
  <2> HIDE DEF T, N
  <2> QED BY <1>2, <1>4, <1>5, <2>1, UpTo
<1> QED BY <1>1, <1>2, <1>6

\* As long as the set is not closed, each turn adds a resource, and there are no more
\* turns than resources.
LEMMA ReachedIsClosed ==
  /\ Plan!Wanted(Target) \subseteq Plan!ReachedIn(Target)
  /\ IsClosed(Plan!ReachedIn(Target))
<1> DEFINE N == Cardinality(PlannerKeys)
<1>1. PICK f : /\ f[0] = Plan!Wanted(Target)
               /\ \A n \in 1 .. N :
                    f[n] = f[n - 1] \cup UNION {Plan!Wanted(p) : p \in f[n - 1]}
               /\ Plan!ReachedIn(Target) = f[N]
  BY ReachedUnfolds
<1>2. N \in Nat /\ IsFiniteSet(PlannerKeys)
  BY KeysOfThePlanner
<1>3. 0 \in 0 .. N /\ \A n \in 1 .. N : n \in 0 .. N
  BY <1>2
<1>4. \A p : Plan!Wanted(p) \subseteq PlannerKeys
  BY DEF Plan!Wanted, Plan!WantedWith, Plan!Prerequisites
<1> DEFINE Grown(n) == /\ f[n] \subseteq PlannerKeys /\ Plan!Wanted(Target) \subseteq f[n]
                       /\ IsClosed(f[n]) \/ Cardinality(f[n]) >= n + 1
           T == {n \in 0 .. N : Grown(n)}
<1>5. \A S \in SUBSET PlannerKeys : IsFiniteSet(S) /\ Cardinality(S) \in Nat
  BY <1>2, FS_Subset, FS_CardinalityType
<1>6. 0 \in T
  <2>1. f[0] = Plan!Wanted(Target) /\ f[0] \subseteq PlannerKeys /\ 0 \in 0 .. N
    BY <1>1, <1>3, <1>4
  <2>2. CASE f[0] = {}
    BY <2>1, <2>2 DEF IsClosed
  <2>3. CASE f[0] # {}
    <3>1. Cardinality(f[0]) \in Nat /\ Cardinality(f[0]) # 0
      BY <1>5, <2>1, <2>3, FS_EmptySet
    <3>2. Cardinality(f[0]) >= 0 + 1
      BY <3>1
    <3> QED BY <2>1, <3>2
  <2> QED BY <2>2, <2>3
<1>7. ASSUME NEW n \in 1 .. N, n - 1 \in T PROVE n \in T
  <2> DEFINE S == f[n - 1]
             more == UNION {Plan!Wanted(p) : p \in S}
  <2>1. f[n] = S \cup more /\ n \in 0 .. N
    BY <1>1, <1>3
  <2>2. /\ S \subseteq PlannerKeys /\ Plan!Wanted(Target) \subseteq S
        /\ IsClosed(S) \/ Cardinality(S) >= (n - 1) + 1
    BY <1>7
  <2>3. more \subseteq PlannerKeys
    BY <1>4
  <2>4. CASE more \subseteq S
    <3>1. IsClosed(S)
      BY <2>4 DEF IsClosed
    <3>2. f[n] = S
      BY <2>1, <2>4
    <3> QED BY <2>1, <2>2, <3>1, <3>2
  <2>5. CASE ~ (more \subseteq S)
    <3>1. PICK x \in more : x \notin S
      BY <2>5
    <3>2. ~ IsClosed(S)
      BY <2>5 DEF IsClosed
    <3> HIDE DEF S, more
    <3>3. Cardinality(S \cup {x}) = Cardinality(S) + 1
      BY <1>5, <2>2, <3>1, FS_AddElement
    <3>4. Cardinality(S \cup {x}) <= Cardinality(f[n]) /\ f[n] \subseteq PlannerKeys
      <4>1. f[n] \subseteq PlannerKeys /\ S \cup {x} \subseteq f[n]
        BY <2>1, <2>2, <2>3, <3>1
      <4>2. IsFiniteSet(f[n])
        BY <1>5, <4>1
      <4> QED BY <4>1, <4>2, FS_Subset
    <3>5. Cardinality(S) \in Nat /\ Cardinality(f[n]) \in Nat /\ Cardinality(S) >= (n - 1) + 1
      BY <1>5, <2>2, <3>2, <3>4
    <3>6. Cardinality(f[n]) >= n + 1
      BY <3>3, <3>4, <3>5
    <3> QED BY <2>1, <2>2, <3>4, <3>6
  <2> QED BY <2>4, <2>5
<1>8. \A n \in 0 .. N : n \in T
  <2>1. T \in SUBSET Nat
    OBVIOUS
  <2> HIDE DEF T, N
  <2> QED BY <1>2, <1>6, <1>7, <2>1, UpTo
<1>9. Grown(N)
  BY <1>2, <1>8
<1>10. ~ (Cardinality(f[N]) >= N + 1)
  <2>1. Cardinality(f[N]) <= N /\ Cardinality(f[N]) \in Nat
    BY <1>2, <1>5, <1>9, FS_Subset
  <2> HIDE DEF N
  <2> QED BY <1>2, <2>1
<1> QED BY <1>1, <1>9, <1>10

\* What the target needs depends on the graph and the parameters.
LEMMA SameReached ==
  ASSUME UNCHANGED <<need, existing, optional>>
  PROVE  /\ Plan!ReachedIn(Target)' = Plan!ReachedIn(Target)
         /\ \A r : Plan!Wanted(r)' = Plan!Wanted(r)
  BY DEF Plan!ReachedIn, Plan!Wanted, Plan!WantedWith, Plan!Prerequisites

LEMMA BeginsComplete ==
  ASSUME PlannerInv, CompleteInv, Plan!Call
  PROVE  CompleteInv'
<1>1. PICK e \in Existings, o \in BOOLEAN, d \in MaxDepths :
        Plan!Begins(e, o, d) \/ Plan!Refuses(e, o, d)
  BY DEF Plan!Call
<1>2. CASE Plan!Begins(e, o, d)
  <2> DEFINE f == Plan!Frame(Target, e, o)
  <2>1. /\ pc = "idle" /\ pc' = "collect" /\ Target \in DOMAIN need
        /\ stack' = <<f>> /\ visited' = {Target} /\ existing' = e /\ optional' = o
        /\ UNCHANGED <<need, collected, truncated>>
    BY <1>2 DEF Plan!Begins
  <2>2. collected' = << >> /\ Plan!InGraph' = {} /\ Inside' = {}
    BY <2>1 DEF PlannerInv, WalkInv, Plan!InGraph, Plan!Elements, Inside
  <2>3. f.resource = Target /\ f.todo = Plan!Wanted(Target)'
    BY <2>1 DEF Plan!Frame, Plan!Wanted, Plan!WantedWith, Plan!Prerequisites
  <2> HIDE DEF f
  <2>4. Len(stack') = 1 /\ stack'[1] = f
    BY <2>1
  <2>5. ~ (pc' \in {"sort", "plan", "done"})
    BY <2>1
  <2>6. WalkIsComplete'
    BY <2>5 DEF WalkIsComplete, Plan!WalkIsComplete
  <2> QED BY <2>1, <2>2, <2>3, <2>4, <2>6 DEF CompleteInv
<1>3. CASE Plan!Refuses(e, o, d)
  <2>1. pc' = "failed"
    BY <1>3 DEF Plan!Refuses
  <2> QED BY <2>1 DEF CompleteInv, WalkIsComplete, Plan!WalkIsComplete
<1> QED BY <1>1, <1>2, <1>3

\* What the innermost call wants is reached from the target.
LEMMA TopWants ==
  ASSUME PlannerInv, CompleteInv, pc = "collect"
  PROVE  /\ Plan!Top.todo \subseteq Plan!ReachedIn(Target)
         /\ Plan!Top.todo \subseteq Plan!Wanted(Plan!Top.resource)
<1> DEFINE n == Len(stack)
<1>1. n \in Nat \ {0} /\ Plan!Top = stack[n] /\ stack[1].resource = Target
  BY TopOfStack DEF PlannerInv, WalkInv
<1>2. Plan!Top.todo \subseteq Plan!Wanted(Plan!Top.resource)
  BY <1>1 DEF CompleteInv
<1>3. CASE n = 1
  BY <1>1, <1>2, <1>3, ReachedIsClosed
<1>4. CASE n # 1
  <2>1. n \in 2 .. n
    <3> HIDE DEF n
    <3> QED BY <1>1, <1>4
  <2>2. Plan!Top.resource \in Inside
    BY <1>1, <2>1 DEF Inside
  <2> QED BY <1>2, <2>2, ReachedIsClosed DEF CompleteInv, IsClosed
<1> QED BY <1>2, <1>3, <1>4

LEMMA NotExpandedComplete ==
  ASSUME PlannerInv, CompleteInv, NEW p \in PlannerKeys, Plan!NextIsNotExpanded(p)
  PROVE  CompleteInv'
<1> DEFINE n == Len(stack)
<1>1. /\ pc = "collect" /\ pc' = "collect" /\ p \in Plan!Top.todo
      /\ stack' = Plan!Took(p) /\ collected' = Append(collected, p)
      /\ truncated' = (truncated \/ p \notin visited)
      /\ UNCHANGED <<need, existing, optional, visited>>
  BY DEF Plan!NextIsNotExpanded, Plan!params
<1>2. /\ Len(stack') = n
      /\ \A i \in 1 .. n : /\ stack'[i].resource = stack[i].resource
                           /\ stack'[i].todo \subseteq stack[i].todo
                           /\ stack[i].todo \subseteq stack'[i].todo \cup {p}
  BY <1>1, TookStack
<1>3. n \in Nat \ {0}
  BY <1>1, TopOfStack
<1>4. Plan!InGraph' = Plan!InGraph \cup {p}
  BY <1>1, AppendElements DEF PlannerInv, Plan!TypeOK, Plan!InGraph
<1>5. Inside' = Inside
  <2>1. \A i \in 2 .. n : i \in 1 .. n
    BY <1>3
  <2> QED BY <1>2, <2>1 DEF Inside
<1>6. /\ Plan!ReachedIn(Target)' = Plan!ReachedIn(Target)
      /\ \A r : Plan!Wanted(r)' = Plan!Wanted(r)
  BY <1>1, SameReached
<1>7. p \in Plan!ReachedIn(Target)
  BY <1>1, TopWants
<1>8. (\A i \in 1 .. Len(stack) : stack[i].todo \subseteq Plan!Wanted(stack[i].resource))'
  <2>1. ASSUME NEW i \in 1 .. n PROVE stack'[i].todo \subseteq Plan!Wanted(stack[i].resource)
    BY <1>1, <1>2 DEF CompleteInv
  <2>2. ASSUME NEW i \in 1 .. n
        PROVE  Plan!Wanted(stack[i].resource)' = Plan!Wanted(stack[i].resource)
    <3>1. \A r : r = stack[i].resource => Plan!Wanted(r)' = Plan!Wanted(r)
      BY <1>6
    <3>2. stack'[i].resource = stack[i].resource
      BY <1>2
    <3> QED BY <1>1, <3>2 DEF Plan!Wanted, Plan!WantedWith, Plan!Prerequisites
  <2> QED BY <1>2, <2>1, <2>2
<1>9. Inside' \cup Plan!InGraph' \subseteq Plan!ReachedIn(Target)'
  BY <1>1, <1>4, <1>5, <1>6, <1>7 DEF CompleteInv
<1>10. ASSUME ~truncated'
       PROVE  /\ Plan!InGraph' \subseteq visited'
              /\ \A v \in visited' : \A q \in Plan!Wanted(v)' :
                   \/ q \in Inside' \cup Plan!InGraph'
                   \/ \E i \in 1 .. Len(stack') : stack'[i].resource = v /\ q \in stack'[i].todo
  <2>1. ~truncated /\ p \in visited
    BY <1>1, <1>10
  <2>2. Plan!InGraph' \subseteq visited'
    BY <1>1, <1>4, <2>1 DEF CompleteInv
  <2>3. ASSUME NEW v \in visited, NEW q \in Plan!Wanted(v), q \notin Inside \cup Plan!InGraph,
               q # p
        PROVE  \E i \in 1 .. n : stack'[i].resource = v /\ q \in stack'[i].todo
    <3>1. PICK i \in 1 .. n : stack[i].resource = v /\ q \in stack[i].todo
      BY <1>1, <2>1, <2>3 DEF CompleteInv
    <3> QED BY <1>2, <2>3, <3>1
  <2> QED BY <1>1, <1>2, <1>4, <1>5, <1>6, <2>2, <2>3
<1>11. Target \in DOMAIN need' /\ WalkIsComplete'
  BY <1>1 DEF CompleteInv, WalkIsComplete, Plan!WalkIsComplete
<1> QED BY <1>8, <1>9, <1>10, <1>11 DEF CompleteInv

LEMMA ExpandedComplete ==
  ASSUME PlannerInv, CompleteInv, NEW p \in PlannerKeys, Plan!NextIsExpanded(p)
  PROVE  CompleteInv'
<1> DEFINE n == Len(stack)
           f == Plan!Frame(p, existing, optional)
           t == Plan!Took(p)
<1>1. /\ pc = "collect" /\ pc' = "collect" /\ p \in Plan!Top.todo /\ p \notin visited
      /\ stack' = Append(t, f) /\ visited' = visited \cup {p}
      /\ UNCHANGED <<need, existing, optional, collected, truncated>>
  BY DEF Plan!NextIsExpanded, Plan!params
<1>2. /\ t \in Seq(Plan!FrameType) /\ Len(t) = n
      /\ \A i \in 1 .. n : /\ t[i].resource = stack[i].resource
                           /\ t[i].todo \subseteq stack[i].todo
                           /\ stack[i].todo \subseteq t[i].todo \cup {p}
  BY <1>1, TookStack
<1>3. n \in Nat \ {0}
  BY <1>1, TopOfStack
<1>4. f \in Plan!FrameType /\ f.resource = p /\ f.todo = Plan!Wanted(p)
  BY DEF Plan!Frame, Plan!FrameType, Plan!Wanted, Plan!WantedWith, Plan!Prerequisites
<1> HIDE DEF f, t
<1>5. /\ Len(stack') = n + 1 /\ stack'[n + 1] = f
      /\ \A i \in 1 .. n : stack'[i] = t[i]
  BY <1>1, <1>2, <1>4, AppendProperties
<1>6. /\ Plan!ReachedIn(Target)' = Plan!ReachedIn(Target)
      /\ \A r : Plan!Wanted(r)' = Plan!Wanted(r)
      /\ Plan!InGraph' = Plan!InGraph
  BY <1>1, SameReached DEF Plan!InGraph
<1>7. \A i \in 1 .. n + 1 : i = n + 1 \/ i \in 1 .. n
  BY <1>3
<1>8. Inside' = Inside \cup {p}
  <2>1. n + 1 \in 2 .. n + 1
    BY <1>3
  <2>2. \A i \in 2 .. n : i \in 2 .. n + 1 /\ i \in 1 .. n
    BY <1>3
  <2>3. \A i \in 2 .. n + 1 : i = n + 1 \/ (i \in 2 .. n /\ i \in 1 .. n)
    BY <1>3
  <2>4. Inside \cup {p} \subseteq Inside'
    BY <1>2, <1>4, <1>5, <2>1, <2>2 DEF Inside
  <2>5. Inside' \subseteq Inside \cup {p}
    BY <1>2, <1>4, <1>5, <2>3 DEF Inside
  <2> QED BY <2>4, <2>5
<1>9. p \in Plan!ReachedIn(Target)
  BY <1>1, TopWants
<1>10. (\A i \in 1 .. Len(stack) : stack[i].todo \subseteq Plan!Wanted(stack[i].resource))'
  <2> SUFFICES ASSUME NEW i \in 1 .. n + 1
               PROVE  (stack[i].todo \subseteq Plan!Wanted(stack[i].resource))'
    BY <1>5
  <2>1. CASE i = n + 1
    <3>1. stack'[i].resource = p /\ stack'[i].todo = Plan!Wanted(p)
      BY <1>4, <1>5, <2>1
    <3> QED BY <1>1, <3>1 DEF Plan!Wanted, Plan!WantedWith, Plan!Prerequisites
  <2>2. CASE i # n + 1
    <3>1. /\ stack'[i].resource = stack[i].resource
          /\ stack'[i].todo \subseteq Plan!Wanted(stack[i].resource)
      BY <1>1, <1>2, <1>5, <1>7, <2>2 DEF CompleteInv
    <3> QED BY <1>1, <3>1 DEF Plan!Wanted, Plan!WantedWith, Plan!Prerequisites
  <2> QED BY <2>1, <2>2
<1>11. Inside' \cup Plan!InGraph' \subseteq Plan!ReachedIn(Target)'
  BY <1>1, <1>6, <1>8, <1>9 DEF CompleteInv
<1>12. ASSUME ~truncated'
       PROVE  /\ Plan!InGraph' \subseteq visited'
              /\ \A v \in visited' : \A q \in Plan!Wanted(v)' :
                   \/ q \in Inside' \cup Plan!InGraph'
                   \/ \E i \in 1 .. Len(stack') : stack'[i].resource = v /\ q \in stack'[i].todo
  <2>1. ~truncated
    BY <1>1, <1>12
  <2>2. Plan!InGraph' \subseteq visited'
    BY <1>1, <1>6, <2>1 DEF CompleteInv
  <2>3. \A i \in 1 .. n : i \in 1 .. n + 1
    BY <1>3
  <2>4. ASSUME NEW v \in visited, NEW q \in Plan!Wanted(v), q \notin Inside' \cup Plan!InGraph'
        PROVE  \E i \in 1 .. n + 1 : stack'[i].resource = v /\ q \in stack'[i].todo
    <3>1. PICK i \in 1 .. n : stack[i].resource = v /\ q \in stack[i].todo
      BY <1>1, <1>6, <1>8, <2>1, <2>4 DEF CompleteInv
    <3>2. q # p
      BY <1>8, <2>4
    <3>3. stack'[i].resource = v /\ q \in stack'[i].todo
      BY <1>2, <1>5, <3>1, <3>2
    <3> QED BY <2>3, <3>3
  <2>5. ASSUME NEW q \in Plan!Wanted(p)
        PROVE  \E i \in 1 .. n + 1 : stack'[i].resource = p /\ q \in stack'[i].todo
    <3>1. n + 1 \in 1 .. n + 1
      BY <1>3
    <3> QED BY <1>4, <1>5, <3>1
  <2> QED BY <1>1, <1>5, <1>6, <2>2, <2>4, <2>5
<1>13. Target \in DOMAIN need' /\ WalkIsComplete'
  BY <1>1 DEF CompleteInv, WalkIsComplete, Plan!WalkIsComplete
<1> QED BY <1>10, <1>11, <1>12, <1>13 DEF CompleteInv

LEMMA ReturnComplete ==
  ASSUME PlannerInv, CompleteInv, Plan!CallReturns
  PROVE  CompleteInv'
<1> DEFINE n == Len(stack)
           r == Plan!Top.resource
<1>1. /\ pc = "collect" /\ pc' = "collect" /\ n > 1 /\ Plan!Top.todo = {}
      /\ stack' = Plan!Rest /\ collected' = Append(collected, r)
      /\ UNCHANGED <<need, existing, optional, visited, truncated>>
  BY DEF Plan!CallReturns, Plan!params
<1>2. /\ n \in Nat /\ r = stack[n].resource /\ r \in PlannerKeys /\ stack[n].todo = {}
      /\ Len(stack') = n - 1
      /\ \A i \in 1 .. n - 1 : stack'[i] = stack[i]
  BY <1>1, TopOfStack
<1> HIDE DEF r
<1>3. Plan!InGraph' = Plan!InGraph \cup {r}
  BY <1>1, <1>2, AppendElements DEF PlannerInv, Plan!TypeOK, Plan!InGraph
<1>4. /\ Plan!ReachedIn(Target)' = Plan!ReachedIn(Target)
      /\ \A q : Plan!Wanted(q)' = Plan!Wanted(q)
  BY <1>1, SameReached
<1>5. n \in 2 .. n /\ n \in 1 .. n /\ \A i \in 1 .. n - 1 : i \in 1 .. n
  BY <1>1, <1>2
<1>6. r \in Inside /\ r \in visited
  BY <1>1, <1>2, <1>5 DEF Inside, OnStack, PlannerInv, WalkInv
<1>7. Inside' \subseteq Inside
  <2>1. \A i \in 2 .. n - 1 : i \in 2 .. n /\ i \in 1 .. n - 1
    BY <1>2
  <2> QED BY <1>2, <2>1 DEF Inside
<1>8. Inside \subseteq Inside' \cup {r}
  <2>1. \A i \in 2 .. n : i = n \/ (i \in 2 .. n - 1 /\ i \in 1 .. n - 1)
    BY <1>2
  <2> QED BY <1>2, <2>1 DEF Inside
<1>9. (\A i \in 1 .. Len(stack) : stack[i].todo \subseteq Plan!Wanted(stack[i].resource))'
  <2> SUFFICES ASSUME NEW i \in 1 .. n - 1
               PROVE  (stack[i].todo \subseteq Plan!Wanted(stack[i].resource))'
    BY <1>2
  <2>1. stack'[i] = stack[i] /\ stack[i].todo \subseteq Plan!Wanted(stack[i].resource)
    BY <1>1, <1>2, <1>5 DEF CompleteInv
  <2> QED BY <1>1, <2>1 DEF Plan!Wanted, Plan!WantedWith, Plan!Prerequisites
<1>10. Inside' \cup Plan!InGraph' \subseteq Plan!ReachedIn(Target)'
  BY <1>1, <1>3, <1>4, <1>6, <1>7 DEF CompleteInv
<1>11. ASSUME ~truncated'
       PROVE  /\ Plan!InGraph' \subseteq visited'
              /\ \A v \in visited' : \A q \in Plan!Wanted(v)' :
                   \/ q \in Inside' \cup Plan!InGraph'
                   \/ \E i \in 1 .. Len(stack') : stack'[i].resource = v /\ q \in stack'[i].todo
  <2>1. Plan!InGraph' \subseteq visited'
    BY <1>1, <1>3, <1>6, <1>11 DEF CompleteInv
  <2>2. ASSUME NEW v \in visited, NEW q \in Plan!Wanted(v), q \notin Inside' \cup Plan!InGraph'
        PROVE  \E i \in 1 .. n - 1 : stack'[i].resource = v /\ q \in stack'[i].todo
    <3>1. PICK i \in 1 .. n : stack[i].resource = v /\ q \in stack[i].todo
      BY <1>1, <1>3, <1>8, <1>11, <2>2 DEF CompleteInv
    <3>2. i \in 1 .. n - 1
      BY <1>2, <3>1
    <3> QED BY <1>2, <3>1, <3>2
  <2> QED BY <1>1, <1>2, <1>4, <2>1, <2>2
<1>12. Target \in DOMAIN need' /\ WalkIsComplete'
  BY <1>1 DEF CompleteInv, WalkIsComplete, Plan!WalkIsComplete
<1> QED BY <1>9, <1>10, <1>11, <1>12 DEF CompleteInv

\* When the target's own call is through, what was collected is closed and holds what the
\* target wants; and nothing was collected that is not reached.
LEMMA SortStartsComplete ==
  ASSUME PlannerInv, CompleteInv, Plan!SortStarts
  PROVE  CompleteInv'
<1>1. /\ pc = "collect" /\ pc' = "sort" /\ Len(stack) = 1 /\ Plan!Top.todo = {}
      /\ UNCHANGED <<need, existing, optional, collected, truncated>>
  BY DEF Plan!SortStarts, Plan!params
<1>2. stack[1].resource = Target /\ stack[1].todo = {} /\ Target \in visited
  BY <1>1 DEF PlannerInv, WalkInv, OnStack, Plan!Top
<1>3. Inside = {}
  BY <1>1 DEF Inside
<1>4. Plan!InGraph \subseteq Plan!ReachedIn(Target)
  BY <1>1 DEF CompleteInv
<1>5. ASSUME ~truncated PROVE Plan!InGraph = Plan!ReachedIn(Target)
  <2>1. \A v \in visited : Plan!Wanted(v) \subseteq Plan!InGraph
    BY <1>1, <1>2, <1>3, <1>5 DEF CompleteInv
  <2>2. Plan!InGraph \subseteq visited
    BY <1>1, <1>5 DEF CompleteInv
  <2> QED BY <1>2, <1>4, <2>1, <2>2, ReachedIsLeast DEF IsClosed
<1>6. Plan!ReachedIn(Target)' = Plan!ReachedIn(Target) /\ Plan!InGraph' = Plan!InGraph
  BY <1>1, SameReached DEF Plan!InGraph
<1> QED BY <1>1, <1>5, <1>6 DEF CompleteInv, WalkIsComplete, Plan!WalkIsComplete

\* Once the walk is over, nothing it has found changes.
LEMMA AfterWalkComplete ==
  ASSUME CompleteInv, Sorting, Sorting', UNCHANGED <<need, existing, optional, collected, truncated>>
  PROVE  CompleteInv'
<1>1. Plan!ReachedIn(Target)' = Plan!ReachedIn(Target) /\ Plan!InGraph' = Plan!InGraph
  BY SameReached DEF Plan!InGraph
<1> QED BY <1>1 DEF Sorting, CompleteInv, WalkIsComplete, Plan!WalkIsComplete

LEMMA CompleteStep ==
  ASSUME PlannerInv, CompleteInv, Plan!Call \/ Plan!Step
  PROVE  CompleteInv'
<1>1. CASE \E r \in PlannerKeys : Plan!SortTakes(r)
  BY <1>1, AfterWalkComplete DEF Plan!SortTakes, Plan!params, Sorting
<1>2. CASE Plan!SortEnds
  BY <1>2, AfterWalkComplete DEF Plan!SortEnds, Plan!params, Sorting
<1>3. CASE \E found \in BOOLEAN : Plan!PlanTakes(found) \/ Plan!PlanEnds(found)
  BY <1>3, AfterWalkComplete DEF Plan!PlanTakes, Plan!PlanEnds, Plan!params, Sorting
<1> QED BY <1>1, <1>2, <1>3, BeginsComplete, NotExpandedComplete, ExpandedComplete,
        ReturnComplete, SortStartsComplete DEF Plan!Step
-----------------------------------------------------------------------------
(* Generator, file and planner *)

\* Once the graph is finished the generator changes it no more.
LEMMA GraphIsFinal ==
  ASSUME GraphStep
  PROVE  phase # "built"
  BY DEF GraphStep, MergeNext, Reverse, OrderStarts, OrderReturns, OrderEnds,
     ValidateStarts, ValidateReturns, ValidateEnds, OrderSkips, OrderDescends,
     ValidateFinds, ValidateSkips, ValidateDescends

LEMMA WrittenType ==
  ASSUME Nodes \subseteq Resources
  PROVE  /\ DOMAIN Written \subseteq PlannerKeys
         /\ Written \in [DOMAIN Written -> [PlannerKeys -> Plan!Needs]]
  BY DEF Written, Strength, PlannerKeys, Plan!Needs

LEMMA PlannerSame ==
  ASSUME PlannerInv, UNCHANGED planVars
  PROVE  PlannerInv'
<1>1. /\ Plan!InGraph' = Plan!InGraph /\ Sorted' = Sorted
      /\ \A q : Plan!Prerequisites(q)' = Plan!Prerequisites(q)
      /\ \A q : Plan!Before(q)' = Plan!Before(q)
      /\ \A q : Plan!EdgesInto(q)' = Plan!EdgesInto(q)
  BY SameNeeds DEF Sorted, planVars
<1>2. \A C : IsTrap(C)' <=> IsTrap(C)
  BY <1>1 DEF IsTrap
<1>3. Plan!TypeOK'
  BY <1>1 DEF PlannerInv, Plan!TypeOK, planVars
<1>4. WalkInv'
  BY <1>1, <1>2 DEF PlannerInv, WalkInv, Sorting, OnStack, Inside, planVars
<1>5. SortInv'
  BY <1>1, <1>2 DEF PlannerInv, SortInv, Sorting, planVars
<1>6. StepsInv'
  BY <1>1 DEF PlannerInv, StepsInv, StepsAsSorted, planVars
<1>7. SortedInOrder'
  BY <1>1 DEF PlannerInv, SortedInOrder,
     planVars
<1> QED BY <1>3, <1>4, <1>5, <1>6, <1>7 DEF PlannerInv

LEMMA CompleteSame ==
  ASSUME CompleteInv, UNCHANGED planVars
  PROVE  CompleteInv'
<1>1. UNCHANGED <<need, existing, optional, pc, stack, visited, collected, truncated>>
  BY DEF planVars
<1>2. /\ Plan!ReachedIn(Target)' = Plan!ReachedIn(Target)
      /\ \A r : Plan!Wanted(r)' = Plan!Wanted(r)
      /\ Plan!InGraph' = Plan!InGraph /\ Inside' = Inside
  BY <1>1, SameReached DEF Plan!InGraph, Inside
<1>3. WalkIsComplete'
  BY <1>1, <1>2 DEF CompleteInv, WalkIsComplete, Plan!WalkIsComplete
<1>4. ASSUME pc = "collect", NEW i \in 1 .. Len(stack)
      PROVE  (stack[i].todo \subseteq Plan!Wanted(stack[i].resource))'
  <2>1. stack[i].todo \subseteq Plan!Wanted(stack[i].resource)
    BY <1>4 DEF CompleteInv
  <2> QED BY <1>1, <2>1 DEF Plan!Wanted, Plan!WantedWith, Plan!Prerequisites
<1> QED BY <1>1, <1>2, <1>3, <1>4 DEF CompleteInv

LEMMA LoadStep ==
  ASSUME PlannerInv, pc = "idle", Load, Nodes \subseteq Resources
  PROVE  PlannerInv' /\ CompleteInv'
<1>1. /\ need' = Written
      /\ UNCHANGED <<existing, optional, maxDepth, pc, stack, visited, collected, inDegree,
                     ready, sorted, turns, steps, truncated>>
  BY DEF Load
<1>2. sorted = << >> /\ ~Sorting /\ ~Sorting'
  BY <1>1 DEF PlannerInv, WalkInv, Sorting
<1>3. Plan!TypeOK'
  BY <1>1, WrittenType DEF PlannerInv, Plan!TypeOK, Plan!InGraph
<1>4. WalkInv' /\ SortInv' /\ StepsInv' /\ SortedInOrder'
  <2>1. steps = << >>
    BY <1>2 DEF PlannerInv, StepsInv, Sorting
  <2> QED BY <1>1, <1>2, <2>1
          DEF PlannerInv, WalkInv, SortInv, StepsInv, StepsAsSorted, SortedInOrder
<1>5. CompleteInv'
  BY <1>1 DEF CompleteInv, WalkIsComplete, Plan!WalkIsComplete
<1> QED BY <1>3, <1>4, <1>5 DEF PlannerInv

LEMMA PlanInit == Init => PlanInv
<1> SUFFICES ASSUME Init PROVE PlanInv
  OBVIOUS
<1>1. /\ existing = {} /\ optional = FALSE /\ maxDepth = 0 /\ pc = "idle" /\ stack = << >>
      /\ visited = {} /\ collected = << >> /\ inDegree = [r \in {} |-> 0] /\ ready = {}
      /\ sorted = << >> /\ turns = 0 /\ steps = << >> /\ truncated = FALSE
      /\ need = [r \in {} |-> << >>]
  BY DEF Init, Plan!Idle
<1>2. Plan!TypeOK
  <2>1. DOMAIN need = {} /\ need \in [{} -> [PlannerKeys -> Plan!Needs]]
    BY <1>1
  <2>2. Plan!InGraph = {} /\ Len(sorted) = 0
    BY <1>1 DEF Plan!InGraph, Plan!Elements
  <2>3. optional \in BOOLEAN /\ truncated \in BOOLEAN
    BY <1>1, Zenon
  <2>4. /\ stack \in Seq(Plan!FrameType) /\ Len(stack) = 0
        /\ collected \in Seq(PlannerKeys) /\ sorted \in Seq(PlannerKeys)
        /\ steps \in Seq(PlannerKeys) /\ turns \in 0 .. Len(sorted)
    BY <1>1, <2>2
  <2> QED BY <2>3, <2>4, <1>1, <2>1, <2>2 DEF Plan!TypeOK
<1>3. WalkInv /\ SortInv /\ StepsInv /\ SortedInOrder
  BY <1>1 DEF WalkInv, SortInv, StepsInv, StepsAsSorted, Sorting, SortedInOrder
<1>4. CompleteInv
  BY <1>1 DEF CompleteInv, WalkIsComplete, Plan!WalkIsComplete
<1>5. GraphInv
  BY GraphStarts DEF Init
<1> QED BY <1>1, <1>2, <1>3, <1>4, <1>5 DEF PlanInv, PlannerInv

LEMMA PlanStep == PlanInv /\ [Next]_vars => PlanInv'
<1> SUFFICES ASSUME PlanInv, [Next]_vars PROVE PlanInv'
  OBVIOUS
<1>1. /\ PlannerInv /\ CompleteInv /\ GraphInv
      /\ pc # "idle" => phase = "built" /\ need = Written
  BY DEF PlanInv
<1>2. Nodes \subseteq Resources
  BY <1>1, NodesAreResources
<1>3. CASE Generate
  <2>1. GraphStep /\ UNCHANGED planVars /\ phase # "built"
    BY <1>3, GraphIsFinal DEF Generate
  <2>2. pc' = "idle"
    BY <1>1, <2>1 DEF planVars
  <2>3. PlannerInv' /\ CompleteInv' /\ GraphInv'
    BY <1>1, <2>1, PlannerSame, CompleteSame, GraphStepPreserves
  <2> QED BY <2>2, <2>3 DEF PlanInv
<1>4. ASSUME UNCHANGED graphVars
      PROVE  GraphInv' /\ phase' = phase /\ Written' = Written
  BY <1>1, <1>4, GraphStutters DEF graphVars, Nodes, Written
<1>5. CASE Load
  <2>1. UNCHANGED graphVars /\ pc' = pc /\ need' = Written /\ phase = "built" /\ need # Written
    BY <1>5 DEF Load
  <2>2. PlannerInv' /\ CompleteInv'
    BY <1>1, <1>2, <1>5, <2>1, LoadStep
  <2> QED BY <1>1, <1>4, <2>1, <2>2 DEF PlanInv
<1>6. CASE Request
  <2>1. Plan!Call /\ UNCHANGED graphVars /\ phase = "built" /\ need = Written
    BY <1>6 DEF Request
  <2>2. need' = need
    BY <2>1 DEF Plan!Call, Plan!Begins, Plan!Refuses
  <2>3. PlannerInv' /\ CompleteInv'
    BY <1>1, <2>1, PlannerStep, CompleteStep
  <2> QED BY <1>4, <2>1, <2>2, <2>3 DEF PlanInv
<1>7. CASE Resolve
  <2>1. Plan!Step /\ UNCHANGED graphVars
    BY <1>7 DEF Resolve
  <2>2. need' = need /\ pc # "idle"
    BY <2>1 DEF Plan!Step, Plan!NextIsNotExpanded, Plan!NextIsExpanded, Plan!CallReturns,
       Plan!SortStarts, Plan!SortTakes, Plan!SortEnds, Plan!PlanTakes, Plan!PlanEnds
  <2>3. PlannerInv' /\ CompleteInv'
    BY <1>1, <2>1, PlannerStep, CompleteStep
  <2> QED BY <1>1, <1>4, <2>1, <2>2, <2>3 DEF PlanInv
<1>8. CASE UNCHANGED vars
  <2>1. UNCHANGED graphVars /\ UNCHANGED planVars
    BY <1>8 DEF vars
  <2>2. PlannerInv' /\ CompleteInv'
    BY <1>1, <2>1, PlannerSame, CompleteSame
  <2>3. pc' = pc /\ need' = need
    BY <2>1 DEF planVars
  <2> QED BY <1>1, <1>4, <2>1, <2>2, <2>3 DEF PlanInv
<1> QED BY <1>3, <1>5, <1>6, <1>7, <1>8 DEF Next

LEMMA PlanInvariant == Spec => []PlanInv
  BY PlanInit, PlanStep, PTL DEF Spec

\* Neither walk over the graph has two open calls for one resource, no resource has two
\* edges to another, and what the planner works on is the file the generator wrote.
THEOREM TypeCorrect == Spec => []TypeOK
<1>1. PlanInv => TypeOK
  BY DEF PlanInv, PlannerInv, GraphInv, TypeOK
<1> QED BY <1>1, PlanInvariant, PTL

\* A reference is required in the graph exactly if one operation of the resource requires
\* it, in whatever order the operations are parsed, and no reference is lost.
THEOREM AnyOperationRequires == Spec => []RequiredByAnyOperation
<1>1. PlanInv => RequiredByAnyOperation
  BY RequiredAsMentioned DEF PlanInv
<1> QED BY <1>1, PlanInvariant, PTL

\* A creation order names nothing twice, and nothing before a prerequisite of its, unless
\* the two need each other or maxDepth stopped the walk there.
THEOREM CreationOrderHolds == Spec => []CreationOrderSound
<1>1. PlanInv => CreationOrderSound
  BY OrderIsSound DEF PlanInv
<1> QED BY <1>1, PlanInvariant, PTL

\* A creation order that maxDepth did not cut ends with its resource and lists the
\* resources from which the reverse edges lead to it, and only those.
THEOREM CreationOrderComplete == Spec => []CreationOrderMatchesDependents
<1>1. PlanInv => CreationOrderMatchesDependents
  BY OrderMatchesDependents DEF PlanInv
<1> QED BY <1>1, PlanInvariant, PTL

\* What validateGraph() reports are cycles, and without the edge that closes each of them
\* the graph has none.
THEOREM NoCycleMissed == Spec => []CyclesAreFound
<1>1. PlanInv => CyclesAreFound
  BY NoCycleIsMissed DEF PlanInv
<1> QED BY <1>1, PlanInvariant, PTL

\* On whatever graph the generator writes, a step comes after the step of every other
\* resource that its own one refers to; only the target's may come after a step that
\* refers to it, where the walk did not have to follow that reference or was cut off.
THEOREM PrerequisitesFirst == Spec => []OrderRespectsPrerequisites
<1>1. PlanInv => OrderRespectsPrerequisites
  <2> SUFFICES ASSUME PlanInv, NEW i \in 1 .. Len(steps), NEW j \in 1 .. Len(steps), i # j,
                      steps[j] \in Plan!Prerequisites(steps[i]),
                      steps[j] = Target => ~truncated /\ Target \in Plan!Wanted(steps[i])
               PROVE  j < i
    BY DEF OrderRespectsPrerequisites, Plan!OrderRespectsPrerequisites
  <2>1. /\ PlannerInv /\ Sorting /\ Len(steps) \in Nat
        /\ \A k \in 1 .. Len(steps) :
             steps[k] \in Sorted \/ (steps[k] = Target /\ k = Len(steps))
    <3>1. PlannerInv /\ StepsInv /\ steps \in Seq(PlannerKeys)
      BY DEF PlanInv, PlannerInv, Plan!TypeOK
    <3>2. steps # << >>
      OBVIOUS
    <3> QED BY <3>1, <3>2 DEF StepsInv, Sorting
  <2>2. steps[j] # Target
    <3> SUFFICES ASSUME steps[j] = Target PROVE FALSE
      OBVIOUS
    <3>1. steps[i] \in Sorted
      <4>1. steps[i] # Target
        BY DEF PlanInv, PlannerInv, StepsInv
      <4> QED BY <2>1, <4>1
    <3>2. Plan!InGraph = Plan!ReachedIn(Target)
      BY <2>1 DEF PlanInv, CompleteInv, WalkIsComplete, Plan!WalkIsComplete, Sorting
    <3>3. Plan!TypeOK /\ SortInv
      BY DEF PlanInv, PlannerInv
    <3>4. steps[i] \in Plan!InGraph /\ Plan!Before(steps[i]) \subseteq Sorted
      BY <2>1, <3>1, <3>3, NothingLeft
    <3>5. Target \in Plan!InGraph
      BY <3>2, <3>4, ReachedIsClosed DEF IsClosed
    <3>6. Target \in Sorted
      BY <3>4, <3>5 DEF Plan!Before
    <3> QED BY <2>1, <3>6, TargetNotSorted
  <2>3. PICK b \in 1 .. Len(sorted) : steps[j] = sorted[b]
    BY <2>1, <2>2 DEF Sorted, Plan!Elements
  <2>4. CASE i = Len(steps)
    BY <2>1, <2>4
  <2>5. CASE i # Len(steps)
    <3>1. PICK a \in 1 .. Len(sorted) : steps[i] = sorted[a]
      BY <2>1, <2>5 DEF Sorted, Plan!Elements
    <3>2. b < a
      BY <2>3, <3>1 DEF PlanInv, PlannerInv, SortedInOrder
    <3>3. i < j => a < b
      BY <2>3, <3>1 DEF PlanInv, PlannerInv, StepsInv, StepsAsSorted
    <3>4. sorted \in Seq(PlannerKeys)
      BY DEF PlanInv, PlannerInv, Plan!TypeOK
    <3>5. Len(sorted) \in Nat
      BY <3>4
    <3> QED BY <2>1, <3>2, <3>3, <3>5
  <2> QED BY <2>4, <2>5
<1> QED BY <1>1, PlanInvariant, PTL

\* No resource is sorted twice and none has two steps, though the target's step is added
\* to what was sorted and the target may have been collected on a cycle.
THEOREM NothingTwice == Spec => []EachOnce
<1>1. PlanInv => EachOnce
  <2> SUFFICES ASSUME PlanInv PROVE EachOnce
    OBVIOUS
  <2>1. \A i, j \in 1 .. Len(sorted) : sorted[i] = sorted[j] => i = j
    <3>1. CASE Sorting
      BY <3>1 DEF PlanInv, PlannerInv, SortInv
    <3>2. CASE ~Sorting
      BY <3>2 DEF PlanInv, PlannerInv, WalkInv
    <3> QED BY <3>1, <3>2
  <2>2. \A i, j \in 1 .. Len(steps) : steps[i] = steps[j] => i = j
    BY DEF PlanInv, PlannerInv, StepsInv
  <2> QED BY <2>1, <2>2 DEF EachOnce, Plan!EachOnce
<1> QED BY <1>1, PlanInvariant, PTL

\* What the sort leaves out was collected more than once and has a prerequisite in the
\* plan, or has a prerequisite that is left out too.
THEOREM OmissionsHaveReasons == Spec => []OmissionsExplained
<1>1. PlanInv => OmissionsExplained
  <2> SUFFICES ASSUME PlanInv, pc = "done", NEW r \in Plan!Dropped,
                      Plan!Before(r) \cap Plan!Dropped = {}
               PROVE  Plan!Occurrences(collected, r) > 1 /\ Plan!Before(r) # {}
    BY DEF OmissionsExplained, Plan!OmissionsExplained
  <2> DEFINE B == Plan!Before(r)
             o == Plan!Occurrences(collected, r)
             b == Cardinality(B)
  <2>1. /\ r \in Plan!InGraph /\ r \notin Sorted /\ ready = {} /\ Sorting
        /\ Plan!TypeOK
    BY DEF PlanInv, PlannerInv, StepsInv, Sorting, Plan!Dropped, Sorted
  <2>2. B \cap Sorted = B
    BY DEF Plan!Dropped, Plan!Before, Sorted
  <2>3. inDegree[r] = Plan!EdgesInto(r) - Cardinality(B \cap Sorted) /\ inDegree[r] # 0
    BY <2>1 DEF PlanInv, PlannerInv, SortInv
  <2>4. Plan!EdgesInto(r) = o * b /\ o \in Nat \ {0} /\ b \in Nat /\ IsFiniteSet(B)
    BY <2>1, EdgeCounts, SameCardinality DEF Plan!EdgesInto
  <2>5. o * b - b # 0
    BY <2>2, <2>3, <2>4
  <2> HIDE DEF B, o, b
  <2>6. o # 1 /\ b # 0
    BY <2>4, <2>5
  <2>7. B # {}
    BY <2>4, <2>6, FS_EmptySet DEF b
  <2>8. o > 1
    BY <2>4, <2>6
  <2> QED BY <2>7, <2>8 DEF B, o
<1> QED BY <1>1, PlanInvariant, PTL

\* A walk that maxDepth did not cut off collects exactly the resources the target needs,
\* through whatever cycles and shared prerequisites.
THEOREM WalkFindsAll == Spec => []WalkIsComplete
<1>1. PlanInv => WalkIsComplete
  BY DEF PlanInv, CompleteInv
<1> QED BY <1>1, PlanInvariant, PTL

\* The planner looks at the edges of the graph it has read, under keys of its own.
LEMMA NeedsAreEdges ==
  ASSUME need = Written, NEW r \in Nodes
  PROVE  /\ \A p \in Resources : PlannerKey(p) \in Plan!Prerequisites(r) <=> <<r, p>> \in Edges
         /\ \A k \in Plan!Prerequisites(r) : \E p \in Resources : k = PlannerKey(p)
<1>1. DOMAIN need = Nodes
  BY DEF Written
<1>2. ASSUME NEW k \in PlannerKeys
      PROVE  need[r][k] = IF k \in Unknown THEN "none"
                          ELSE Strength(requires[r], IF -k \in Unknown THEN -k ELSE k)
  BY DEF Written
<1>3. \A q : Strength(requires[r], q) # "none" <=> Place(requires[r], q) # 0
  BY DEF Strength
<1>4. ASSUME NEW p \in Resources
      PROVE  PlannerKey(p) \in Plan!Prerequisites(r) <=> <<r, p>> \in Edges
  <2> DEFINE k == PlannerKey(p)
  <2>1. k \in PlannerKeys /\ k \notin Unknown
    BY KeysOfThePlanner DEF PlannerKeys
  <2>2. (IF -k \in Unknown THEN -k ELSE k) = p
    <3>1. p \in Int /\ p > 0
      BY KeysOfThePlanner, ResourcesAreNumbers
    <3>2. -p \notin Unknown
      BY <3>1, KeysOfThePlanner, UnknownHaveNoOperations
    <3>3. CASE p \in Unknown
      BY <3>1, <3>3 DEF PlannerKey
    <3>4. CASE p \notin Unknown
      BY <3>2, <3>4 DEF PlannerKey
    <3> QED BY <3>3, <3>4
  <2> HIDE DEF k
  <2>3. need[r][k] # "none" <=> Place(requires[r], p) # 0
    BY <1>2, <1>3, <2>1, <2>2
  <2> QED BY <1>1, <2>1, <2>3 DEF Plan!Prerequisites, Edges, k
<1>5. ASSUME NEW k \in Plan!Prerequisites(r) PROVE \E p \in Resources : k = PlannerKey(p)
  <2>1. k \in PlannerKeys /\ k \notin Unknown
    BY <1>1, <1>2, <1>5 DEF Plan!Prerequisites
  <2> QED BY <2>1 DEF PlannerKeys, PlannerKey
<1> QED BY <1>4, <1>5

\* Up to the key of a resource of unknown domain, and neither walk cut off, the planner
\* collects only what the creation order of the target lists, and all of it when nothing
\* exists yet and optional references are followed; nothing of unknown domain has one key
\* in both.
THEOREM AnswersAgree == Spec => []PlanAgreesWithCreationOrder
<1>1. PlanInv => PlanAgreesWithCreationOrder
  <2> DEFINE order == creationOrder[Target]
             listed == ElementsOf(order)
             translated == {PlannerKey(p) : p \in listed}
             planned == {Target} \cup Plan!InGraph
  <2> SUFFICES ASSUME PlanInv, Walked
               PROVE  /\ planned \subseteq translated
                      /\ existing = {} /\ optional => planned = translated
                      /\ planned \cap listed \cap Unknown = {}
    BY DEF PlanAgreesWithCreationOrder
  <2>1. /\ GraphInv /\ phase = "built" /\ need = Written /\ cut[Target] = {}
        /\ Plan!InGraph = Plan!ReachedIn(Target) /\ Target \in DOMAIN need
    BY DEF Walked, PlanInv, CompleteInv, WalkIsComplete, Plan!WalkIsComplete
  <2>2. /\ Target \in Nodes /\ Nodes \subseteq Resources /\ order \in Seq(Resources)
        /\ OrderSoFar(Target) /\ OrderFinished(Target) /\ Edges \subseteq Pairs
    <3>1. Target \in Nodes
      BY <2>1 DEF Written
    <3>2. GraphTypeOK /\ OrderInv /\ Nodes \subseteq Resources
      BY <2>1, NodesAreResources
    <3>3. order \in Seq(Resources) /\ OrderSoFar(Target) /\ OrderFinished(Target)
      BY <2>1, <3>1, <3>2 DEF GraphTypeOK, OrderInv
    <3> QED BY <3>1, <3>2, <3>3, EdgesOf
  <2>3. Target \in listed /\ listed \subseteq Resources
    <3>1. order # << >> /\ order[Len(order)] = Target
      BY <2>2 DEF OrderFinished
    <3>2. Len(order) \in 1 .. Len(order)
      BY <2>2, <3>1, EmptySeq
    <3> QED BY <2>2, <3>1, <3>2 DEF ElementsOf
  <2>4. \A r \in Nodes : r \notin Unknown /\ PlannerKey(r) = r
    <3>1. extracted \in Extractions /\ Nodes = DOMAIN extracted
      BY <2>1, NodesAreResources DEF GraphInv
    <3>2. Unknown \cap Nodes = {}
      BY <3>1, UnknownHaveNoOperations
    <3> QED BY <3>2 DEF PlannerKey
  <2>5. \A r : Plan!Prerequisites(r) # {} => r \in Nodes
    BY <2>1 DEF Plan!Prerequisites, Written
  <2>6. \A r, k : k \in Plan!Wanted(r) => r \in Nodes /\ k \in Plan!Prerequisites(r)
    BY <2>5 DEF Plan!Wanted, Plan!WantedWith
  <2> HIDE DEF listed
  <2>7. planned \subseteq translated
    <3>1. \A x \in listed, p \in Resources : <<x, p>> \in Edges => p \in listed
      BY <2>1, <2>2 DEF OrderFinished, listed
    <3>2. ASSUME NEW x \in listed, x \in Nodes, NEW k \in Plan!Wanted(x)
          PROVE  k \in translated
      <4>1. PICK p \in Resources : k = PlannerKey(p)
        BY <2>1, <2>6, <3>2, NeedsAreEdges
      <4>2. <<x, p>> \in Edges
        BY <2>1, <2>6, <3>2, <4>1, NeedsAreEdges
      <4> QED BY <3>1, <4>1, <4>2
    <3>3. ASSUME NEW y \in translated, y \in Nodes PROVE y \in listed
      <4>1. PICK x \in listed : y = PlannerKey(x)
        OBVIOUS
      <4>2. y \in Resources /\ PlannerKey(y) = y
        BY <2>2, <2>4, <3>3
      <4> QED BY <2>3, <4>1, <4>2, KeysOfThePlanner
    <3>4. IsClosed(translated)
      <4> SUFFICES ASSUME NEW y \in translated, NEW k \in Plan!Wanted(y)
                   PROVE  k \in translated
        BY DEF IsClosed
      <4> HIDE DEF translated
      <4> QED BY <2>6, <3>2, <3>3
    <3>5. Target \in translated /\ Plan!Wanted(Target) \subseteq translated
      <4>1. PlannerKey(Target) = Target
        BY <2>2, <2>4
      <4>2. Target \in translated
        BY <2>3, <4>1
      <4> QED BY <3>4, <4>2 DEF IsClosed
    <3> HIDE DEF translated
    <3> QED BY <2>1, <3>4, <3>5, ReachedIsLeast
  <2>8. ASSUME existing = {}, optional PROVE translated \subseteq planned
    <3> DEFINE D == {p \in Resources : PlannerKey(p) \in planned}
    <3>1. \A r \in planned : Plan!Wanted(r) \subseteq planned
      BY <2>1, ReachedIsClosed DEF IsClosed
    <3> HIDE DEF planned
    <3>2. ASSUME NEW a \in Resources, NEW b \in Resources, <<a, b>> \in Edges, a \in D
          PROVE  b \in D
      <4>1. a \in Nodes
        BY <3>2 DEF Edges
      <4>2. a \in planned
        BY <2>4, <3>2, <4>1
      <4>3. PlannerKey(b) \in Plan!Prerequisites(a)
        BY <2>1, <3>2, <4>1, NeedsAreEdges
      <4>4. PlannerKey(b) \in Plan!Wanted(a)
        BY <2>8, <4>3 DEF Plan!Wanted, Plan!WantedWith
      <4> QED BY <3>1, <4>2, <4>4
    <3>3. Target \in D
      BY <2>2, <2>4 DEF planned
    <3> HIDE DEF D
    <3>4. \A a, b \in Resources : <<a, b>> \in Closure(Edges) /\ a \in D => b \in D
      BY <2>2, <3>2, ClosedUnderEdges
    <3>5. \A x \in listed : x = Target \/ <<Target, x>> \in Closure(Edges)
      BY <2>2 DEF OrderSoFar, ElementsOf, listed
    <3>6. listed \subseteq D
      BY <2>3, <3>3, <3>4, <3>5
    <3> QED BY <3>6 DEF D
  <2>9. ASSUME NEW k \in planned, k \in Unknown PROVE FALSE
    <3>1. \E p \in listed : k = PlannerKey(p)
      BY <2>7
    <3> QED BY <2>3, <2>9, <3>1, KeysOfThePlanner
  <2> QED BY <2>7, <2>8, <2>9
<1> QED BY <1>1, PlanInvariant, PTL
=============================================================================
