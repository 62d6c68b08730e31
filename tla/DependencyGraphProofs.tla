------------------------- MODULE DependencyGraphProofs -------------------------
(***************************************************************************)
(* What holds of the dependency graph and of the walks over it, whatever   *)
(* the specifications are.                                                 *)
(***************************************************************************)
EXTENDS DependencyGraph, SequenceTheorems, FiniteSetTheorems, TLAPS

\* How many of the references of r are merged.
Done(r) == Len(extracted[r]) - Len(pending[r])

\* The edges of r are those its references ask for that are merged so far.
MergedOf(r) ==
  /\ Done(r) \in Nat
  /\ \A i \in 1 .. Len(pending[r]) : pending[r][i] = extracted[r][Done(r) + i]
  /\ \A p \in Resources : (\E j \in 1 .. Len(requires[r]) : requires[r][j].to = p)
       <=> \E i \in 1 .. Done(r) : extracted[r][i].to = p
  /\ \A j \in 1 .. Len(requires[r]) : requires[r][j].required
       <=> \E i \in 1 .. Done(r) : /\ extracted[r][i].to = requires[r][j].to
                                   /\ extracted[r][i].required

MergedSoFar == \A r \in Nodes : MergedOf(r)

\* The references an open call has still to look at lead along edges, and so does the
\* way from each open call to the next.
CallsInv ==
  /\ phase \in {"merge", "built"} => calls = << >>
  /\ \A k \in 1 .. Len(calls) : \A i \in 1 .. Len(calls[k].todo) :
       <<calls[k].key, calls[k].todo[i].to>> \in Edges
  /\ \A k \in 2 .. Len(calls) : <<calls[k - 1].key, calls[k].key>> \in Edges

Todo(k) == {calls[k].todo[i].to : i \in 1 .. Len(calls[k].todo)}

Pairs == Resources \X Resources

\* What the creation order of r is made of, finished or not: resources that r leads to,
\* and of what one of them needs nothing comes later than it, unless there is a reason.
OrderSoFar(r) ==
  LET order == creationOrder[r] IN
  /\ \A i, j \in 1 .. Len(order) : order[i] = order[j] => i = j
  /\ \A i \in 1 .. Len(order) : order[i] = r \/ <<r, order[i]>> \in Closure(Edges)
  /\ \A i \in 1 .. Len(order), p \in Resources : <<order[i], p>> \in Edges =>
       \/ \E j \in 1 .. i : order[j] = p
       \/ order[i] \in cut[r]
       \/ <<p, order[i]>> \in Closure(Edges)

\* A creation order that is finished ends with its resource and, if it was not cut, lists
\* what its members need.
OrderFinished(r) ==
  LET order == creationOrder[r] IN
  /\ order # << >> /\ order[Len(order)] = r
  /\ cut[r] = {} =>
       \A x \in ElementsOf(order), p \in Resources :
         <<x, p>> \in Edges => p \in ElementsOf(order)

\* The walk that makes the creation order of r: what is done is listed, and nothing that
\* an open or a finished call has looked at is lost, unless its walk was cut.
OrderWalk(r) ==
  /\ r \in roots
  /\ seen = ElementsOf(creationOrder[r]) /\ seen \cap InProgress = {}
  /\ \A x \in seen, p \in Resources : <<x, p>> \in Edges =>
       p \in seen \cup InProgress \/ x \in cut[r]
  /\ \A k \in 1 .. Len(calls), p \in Resources : <<calls[k].key, p>> \in Edges =>
       p \in Todo(k) \cup seen \cup InProgress \/ calls[k].key \in cut[r]

OrderInv ==
  /\ \A r \in Nodes : OrderSoFar(r)
  /\ phase \in {"merge", "order"} => cycles = {}
  /\ phase = "merge" => \A r \in Nodes : creationOrder[r] = << >> /\ cut[r] = {}
  /\ phase = "order" =>
       /\ calls # << >> => OrderWalk(calls[1].key)
       /\ \A r \in roots : calls = << >> \/ r # calls[1].key =>
            creationOrder[r] = << >> /\ cut[r] = {}
       /\ \A r \in Nodes \ roots : OrderFinished(r)
  /\ phase \in {"validate", "built"} => \A r \in Nodes : OrderFinished(r)

LastEdges == {<<c[Len(c) - 1], c[Len(c)]>> : c \in cycles}

\* The edges that close none of the cycles reported.
Left == Edges \ LastEdges

Finished == seen \ InProgress

CycleOf(c) ==
  /\ Len(c) > 1 /\ c[1] = c[Len(c)]
  /\ \A i \in 1 .. Len(c) - 1 : <<c[i], c[i + 1]>> \in Edges

\* validateGraph(): without the edges that close the cycles found so far no cycle goes
\* through a finished resource, and none will, for they lead to finished ones only.
ValidateInv ==
  /\ \A c \in cycles : CycleOf(c)
  /\ phase = "validate" =>
       /\ roots = Nodes /\ InProgress \subseteq seen
       /\ \A x \in Finished : <<x, x>> \notin Closure(Left)
       /\ \A x \in Finished, p \in Resources : <<x, p>> \in Left => p \in Finished
       /\ \A k \in 1 .. Len(calls), p \in Resources : <<calls[k].key, p>> \in Left =>
            \/ p \in Todo(k) \cup Finished
            \/ k < Len(calls) /\ p = calls[k + 1].key
  /\ phase = "built" => \A r \in Nodes : <<r, r>> \notin Closure(Left)

GraphInv ==
  /\ GraphTypeOK
  /\ extracted \in Extractions
  /\ MergedSoFar
  /\ phase # "merge" => \A r \in Nodes : pending[r] = << >>
  /\ phase # "merge" => requiredBy = [p \in Resources |-> Dependents(p)]
  /\ CallsInv
  /\ OrderInv
  /\ ValidateInv

-----------------------------------------------------------------------------
(* Numbers and references *)

\* A set of numbers that is not empty has a least element: of the intervals from 0 to
\* its members one is contained in all the others.
LEMMA LeastNumber ==
  ASSUME NEW T \in SUBSET Nat, T # {}
  PROVE  \E m \in T : \A n \in T : m <= n
<1> DEFINE intervals == {0 .. n : n \in T}
<1>1. intervals \subseteq FiniteSubsetsOf(Nat) /\ intervals # {}
  <2>1. \A n \in T : 0 .. n \in SUBSET Nat /\ IsFiniteSet(0 .. n)
    BY FS_Interval
  <2>2. \A n \in T : 0 .. n \in FiniteSubsetsOf(Nat)
    BY <2>1 DEF FiniteSubsetsOf
  <2> QED BY <2>2
<1>2. PICK I \in intervals :
        \A J \in intervals : <<J, I>> \notin StrictSubsetOrdering(Nat)
  BY <1>1, FS_StrictSubsetOrderingWellFounded, WFMin
<1>3. PICK m \in T : I = 0 .. m
  OBVIOUS
<1>4. ASSUME NEW n \in T, n < m PROVE FALSE
  <2>1. 0 .. n \subseteq 0 .. m /\ 0 .. n # 0 .. m
    BY <1>4
  <2>2. <<0 .. n, 0 .. m>> \in StrictSubsetOrdering(Nat)
    BY <2>1 DEF StrictSubsetOrdering
  <2> QED BY <1>2, <1>3, <2>2
<1> QED BY <1>4

LEMMA ResourcesAreNumbers == Resources \subseteq Nat
  BY GraphConstants, FS_CardinalityType

\* The loops find the resource they go on with.
LEMMA FirstFound ==
  ASSUME NEW S \in SUBSET Resources, S # {}
  PROVE  First(S) \in S
<1>1. \E m \in S : \A n \in S : m <= n
  BY LeastNumber, ResourcesAreNumbers
<1> QED BY <1>1 DEF First

LEMMA PlaceFound ==
  ASSUME NEW refs \in Seq(Reference), NEW p
  PROVE  /\ Place(refs, p) \in Nat
         /\ Place(refs, p) # 0 <=> \E i \in 1 .. Len(refs) : refs[i].to = p
         /\ Place(refs, p) # 0 =>
              Place(refs, p) \in 1 .. Len(refs) /\ refs[Place(refs, p)].to = p
<1>1. Len(refs) \in Nat
  OBVIOUS
<1>2. CASE \E i \in 1 .. Len(refs) : refs[i].to = p
  <2>1. Place(refs, p) \in 1 .. Len(refs) /\ refs[Place(refs, p)].to = p
    BY <1>2 DEF Place
  <2> QED BY <1>1, <1>2, <2>1
<1>3. CASE ~ \E i \in 1 .. Len(refs) : refs[i].to = p
  BY <1>3 DEF Place
<1> QED BY <1>2, <1>3

\* deduplicateReferences(): one edge per resource, required as soon as one mention is.
LEMMA MergedReference ==
  ASSUME NEW refs \in Seq(Reference), NEW ref \in Reference,
         \A i, j \in 1 .. Len(refs) : refs[i].to = refs[j].to => i = j
  PROVE  LET m == Merged(refs, ref) IN
         /\ m \in Seq(Reference)
         /\ \A i, j \in 1 .. Len(m) : m[i].to = m[j].to => i = j
         /\ \A p : (\E i \in 1 .. Len(m) : m[i].to = p)
                     <=> p = ref.to \/ \E i \in 1 .. Len(refs) : refs[i].to = p
         /\ \A i \in 1 .. Len(m) : m[i].required
              <=> \/ m[i].to = ref.to /\ ref.required
                  \/ \E j \in 1 .. Len(refs) : refs[j].to = m[i].to /\ refs[j].required
<1> DEFINE at == Place(refs, ref.to)
           m  == Merged(refs, ref)
           n  == Len(refs)
<1>1. n \in Nat
  OBVIOUS
<1>2. CASE at = 0
  <2>1. m = Append(refs, ref)
    BY <1>2 DEF Merged
  <2>2. /\ m \in Seq(Reference) /\ Len(m) = n + 1 /\ m[n + 1] = ref
        /\ \A i \in 1 .. n : m[i] = refs[i]
    BY <2>1, AppendProperties
  <2>3. \A i \in 1 .. n : refs[i].to # ref.to
    BY <1>2, PlaceFound
  <2>4. \A i \in 1 .. n + 1 : i \in 1 .. n \/ i = n + 1
    BY <1>1
  <2>5. 1 .. n \subseteq 1 .. n + 1 /\ n + 1 \in 1 .. n + 1
    BY <1>1
  <2> HIDE DEF m, n
  <2>6. \A i, j \in 1 .. n + 1 : m[i].to = m[j].to => i = j
    BY <2>2, <2>3, <2>4 DEF n
  <2>7. \A p : (\E i \in 1 .. n + 1 : m[i].to = p)
                 <=> p = ref.to \/ \E i \in 1 .. n : refs[i].to = p
    BY <2>2, <2>4, <2>5
  <2>8. ASSUME NEW i \in 1 .. n + 1
        PROVE  m[i].required
                 <=> \/ m[i].to = ref.to /\ ref.required
                     \/ \E j \in 1 .. n : refs[j].to = m[i].to /\ refs[j].required
    <3>1. CASE i = n + 1
      BY <2>2, <2>3, <3>1, Zenon
    <3>2. CASE i \in 1 .. n
      <4>1. m[i] = refs[i] /\ m[i].to # ref.to
        BY <2>2, <2>3, <3>2
      <4>2. \A j \in 1 .. n : refs[j].to = m[i].to => j = i
        BY <3>2, <4>1 DEF n
      <4> QED BY <3>2, <4>1, <4>2, Zenon
    <3> QED BY <2>4, <3>1, <3>2
  <2> QED BY <2>2, <2>6, <2>7, <2>8 DEF m, n
<1>3. CASE at # 0
  <2> DEFINE e == [refs[at] EXCEPT !.required = @ \/ ref.required]
  <2>1. at \in 1 .. n /\ refs[at].to = ref.to
    BY <1>3, PlaceFound
  <2>2. m = [refs EXCEPT ![at] = e]
    BY <1>3 DEF Merged
  <2>3. /\ refs[at] \in Reference /\ e \in Reference /\ e.to = ref.to
        /\ e.required <=> refs[at].required \/ ref.required
    <3>1. refs[at] \in Reference
      BY <2>1
    <3> HIDE DEF at
    <3>2. /\ DOMAIN refs[at] = {"to", "required"} /\ refs[at].to \in Resources
          /\ refs[at] = [x \in {"to", "required"} |-> refs[at][x]]
      BY <3>1 DEF Reference
    <3>3. e.to = refs[at].to /\ (e.required <=> refs[at].required \/ ref.required)
      BY <3>2
    <3>4. e = [to |-> refs[at].to, required |-> refs[at].required \/ ref.required]
      BY <3>2
    <3>5. (refs[at].required \/ ref.required) \in BOOLEAN
      BY Zenon
    <3>6. e \in Reference
      BY <3>2, <3>4, <3>5 DEF Reference
    <3> QED BY <2>1, <3>1, <3>3, <3>6
  <2> HIDE DEF e, at
  <2>4. /\ m \in Seq(Reference) /\ Len(m) = n /\ m[at] = e
        /\ \A i \in 1 .. n : i # at => m[i] = refs[i]
    BY <2>1, <2>2, <2>3
  <2>5. \A i \in 1 .. n : m[i].to = refs[i].to
    BY <2>1, <2>3, <2>4
  <2> HIDE DEF m
  <2>6. \A i, j \in 1 .. n : m[i].to = m[j].to => i = j
    BY <2>5
  <2>7. \A p : (\E i \in 1 .. n : m[i].to = p)
                 <=> p = ref.to \/ \E i \in 1 .. n : refs[i].to = p
    BY <2>1, <2>5
  <2>8. ASSUME NEW i \in 1 .. n
        PROVE  m[i].required
                 <=> \/ m[i].to = ref.to /\ ref.required
                     \/ \E j \in 1 .. n : refs[j].to = m[i].to /\ refs[j].required
    <3>1. \A j \in 1 .. n : refs[j].to = m[i].to => j = i
      BY <2>5
    <3>2. CASE i = at
      BY <2>1, <2>3, <2>4, <3>1, <3>2, Zenon
    <3>3. CASE i # at
      <4>1. m[i] = refs[i] /\ m[i].to # ref.to
        BY <2>1, <2>4, <2>5, <3>1, <3>3
      <4> QED BY <3>1, <4>1, Zenon
    <3> QED BY <3>2, <3>3
  <2> QED BY <2>4, <2>6, <2>7, <2>8 DEF m
<1> QED BY <1>2, <1>3

-----------------------------------------------------------------------------
(* Paths: Closure(E) is the least transitive relation with E in it *)

Joined(T, n) == T \cup {e \in Pairs : <<e[1], n>> \in T /\ <<n, e[2]>> \in T}

\* f is the recursive function of Closure, on the numbers up to m.
IsThrough(f, E, m) ==
  f = [n \in 0 .. m |-> IF n = 0 THEN E ELSE Joined(f[n - 1], n)]

LEMMA ThroughExists ==
  ASSUME NEW E, NEW m \in Nat
  PROVE  \E f : IsThrough(f, E, m)
<1> DEFINE T == {k \in Nat : ~ \E f : IsThrough(f, E, k)}
<1> SUFFICES ASSUME T # {} PROVE FALSE
  OBVIOUS
<1>1. PICK k \in T : \A n \in T : k <= n
  <2>1. T \in SUBSET Nat
    OBVIOUS
  <2> HIDE DEF T
  <2> QED BY <2>1, LeastNumber
<1>2. CASE k = 0
  <2> DEFINE f == [n \in 0 .. 0 |-> E]
  <2>1. IsThrough(f, E, 0)
    BY DEF IsThrough
  <2> QED BY <1>2, <2>1
<1>3. CASE k # 0
  <2>1. k - 1 \in Nat /\ k - 1 \notin T
    BY <1>1, <1>3
  <2>2. PICK g : IsThrough(g, E, k - 1)
    BY <2>1
  <2> DEFINE f == [n \in 0 .. k |-> IF n = k THEN Joined(g[k - 1], k) ELSE g[n]]
  <2>3. ASSUME NEW n \in 0 .. k
        PROVE  f[n] = IF n = 0 THEN E ELSE Joined(f[n - 1], n)
    <3>1. \A i \in 0 .. k - 1 : f[i] = g[i] /\ g[i] = IF i = 0 THEN E ELSE Joined(g[i - 1], i)
      BY <2>1, <2>2 DEF IsThrough
    <3>2. CASE n = k
      BY <1>3, <2>1, <3>1, <3>2
    <3>3. CASE n # k
      BY <2>1, <3>1, <3>3
    <3> QED BY <3>2, <3>3
  <2>4. IsThrough(f, E, k)
    BY <2>3 DEF IsThrough
  <2> QED BY <2>4
<1> QED BY <1>2, <1>3

LEMMA ClosureUnfolds ==
  ASSUME NEW E
  PROVE  \E f : IsThrough(f, E, Cardinality(Resources)) /\ Closure(E) = f[Cardinality(Resources)]
<1> DEFINE N == Cardinality(Resources)
           f == CHOOSE g : IsThrough(g, E, N)
<1>1. N \in Nat
  BY GraphConstants, FS_CardinalityType
<1>2. IsThrough(f, E, N)
  BY <1>1, ThroughExists
<1>3. Closure(E) = f[N]
  BY DEF Closure, IsThrough, Joined, Pairs
<1> QED BY <1>2, <1>3

\* Induction over the numbers up to m, for a set of them.
LEMMA UpTo ==
  ASSUME NEW m \in Nat, NEW T \in SUBSET Nat, 0 \in T,
         \A n \in 1 .. m : n - 1 \in T => n \in T
  PROVE  \A n \in 0 .. m : n \in T
<1> DEFINE Rest == (0 .. m) \ T
<1> SUFFICES ASSUME Rest # {} PROVE FALSE
  OBVIOUS
<1>1. PICK k \in Rest : \A n \in Rest : k <= n
  <2>1. Rest \in SUBSET Nat
    OBVIOUS
  <2> HIDE DEF Rest
  <2> QED BY <2>1, LeastNumber
<1>2. k \in 1 .. m /\ k - 1 \in 0 .. m /\ k - 1 \notin Rest
  BY <1>1
<1> QED BY <1>1, <1>2

IsTransitive(R) ==
  \A a, b, c \in Resources : <<a, b>> \in R /\ <<b, c>> \in R => <<a, c>> \in R

LEMMA ClosureContains ==
  ASSUME NEW E
  PROVE  E \subseteq Closure(E)
<1> DEFINE N == Cardinality(Resources)
<1>1. PICK f : IsThrough(f, E, N) /\ Closure(E) = f[N]
  BY ClosureUnfolds
<1> DEFINE T == {n \in 0 .. N : E \subseteq f[n]}
<1>2. N \in Nat
  BY GraphConstants, FS_CardinalityType
<1>3. \A n \in 0 .. N : f[n] = IF n = 0 THEN E ELSE Joined(f[n - 1], n)
  BY <1>1 DEF IsThrough
<1>4. 0 \in T
  BY <1>2, <1>3
<1>5. ASSUME NEW n \in 1 .. N, n - 1 \in T PROVE n \in T
  <2>1. f[n] = Joined(f[n - 1], n)
    BY <1>2, <1>3
  <2>2. E \subseteq f[n - 1] /\ f[n - 1] \subseteq f[n]
    BY <1>5, <2>1 DEF Joined
  <2>3. n \in 0 .. N
    BY <1>2
  <2> QED BY <2>2, <2>3
<1>6. \A n \in 0 .. N : n \in T
  <2>1. T \in SUBSET Nat
    OBVIOUS
  <2> HIDE DEF T, N
  <2> QED BY <1>2, <1>4, <1>5, <2>1, UpTo
<1> QED BY <1>1, <1>2, <1>6

LEMMA ClosureLeast ==
  ASSUME NEW E \in SUBSET Pairs, NEW R, E \subseteq R, IsTransitive(R)
  PROVE  Closure(E) \subseteq R /\ Closure(E) \subseteq Pairs
<1> DEFINE N == Cardinality(Resources)
<1>1. PICK f : IsThrough(f, E, N) /\ Closure(E) = f[N]
  BY ClosureUnfolds
<1> DEFINE T == {n \in 0 .. N : f[n] \subseteq R /\ f[n] \subseteq Pairs}
<1>2. N \in Nat
  BY GraphConstants, FS_CardinalityType
<1>3. \A n \in 0 .. N : f[n] = IF n = 0 THEN E ELSE Joined(f[n - 1], n)
  BY <1>1 DEF IsThrough
<1>4. 0 \in T
  BY <1>2, <1>3
<1>5. ASSUME NEW n \in 1 .. N, n - 1 \in T PROVE n \in T
  <2>1. f[n] = Joined(f[n - 1], n) /\ n \in Resources
    BY <1>2, <1>3, GraphConstants
  <2>2. ASSUME NEW e \in Pairs, <<e[1], n>> \in f[n - 1], <<n, e[2]>> \in f[n - 1]
        PROVE  e \in R
    <3>1. e = <<e[1], e[2]>> /\ e[1] \in Resources /\ e[2] \in Resources
      BY DEF Pairs
    <3>2. <<e[1], e[2]>> \in R
      BY <1>5, <2>1, <2>2, <3>1 DEF IsTransitive
    <3> QED BY <3>1, <3>2
  <2>3. f[n - 1] \subseteq R /\ f[n - 1] \subseteq Pairs
    BY <1>5
  <2>4. f[n] \subseteq R /\ f[n] \subseteq Pairs
    BY <2>1, <2>2, <2>3 DEF Joined
  <2>5. n \in 0 .. N
    BY <1>2
  <2> QED BY <2>4, <2>5
<1>6. \A n \in 0 .. N : n \in T
  <2>1. T \in SUBSET Nat
    OBVIOUS
  <2> HIDE DEF T, N
  <2> QED BY <1>2, <1>4, <1>5, <2>1, UpTo
<1> QED BY <1>1, <1>2, <1>6

\* Going through the resources one by one joins all paths.
LEMMA ClosureTransitive ==
  ASSUME NEW E \in SUBSET Pairs
  PROVE  IsTransitive(Closure(E))
<1> DEFINE N == Cardinality(Resources)
<1>1. PICK f : IsThrough(f, E, N) /\ Closure(E) = f[N]
  BY ClosureUnfolds
<1> DEFINE Joins(n) == \A a, b, c \in Resources :
             b <= n /\ <<a, b>> \in f[n] /\ <<b, c>> \in f[n] => <<a, c>> \in f[n]
           T == {n \in 0 .. N : Joins(n)}
<1>2. N \in Nat /\ Resources = 1 .. N
  BY GraphConstants, FS_CardinalityType
<1>3. \A n \in 0 .. N : f[n] = IF n = 0 THEN E ELSE Joined(f[n - 1], n)
  BY <1>1 DEF IsThrough
<1>4. 0 \in T
  BY <1>2
<1>5. ASSUME NEW n \in 1 .. N, n - 1 \in T PROVE n \in T
  <2> DEFINE P == f[n - 1]
             Q == f[n]
  <2>1. Q = Joined(P, n) /\ n \in Resources
    BY <1>2, <1>3
  <2>2. \A a, c \in Resources :
          <<a, c>> \in Q <=> <<a, c>> \in P \/ (<<a, n>> \in P /\ <<n, c>> \in P)
    <3> SUFFICES ASSUME NEW a \in Resources, NEW c \in Resources
                 PROVE  <<a, c>> \in Q
                          <=> <<a, c>> \in P \/ (<<a, n>> \in P /\ <<n, c>> \in P)
      OBVIOUS
    <3>1. <<a, c>> \in Pairs /\ <<a, c>>[1] = a /\ <<a, c>>[2] = c
      BY DEF Pairs
    <3> HIDE DEF P, Q
    <3> QED BY <2>1, <3>1 DEF Joined
  <2>3. \A a, b, c \in Resources :
          b <= n - 1 /\ <<a, b>> \in P /\ <<b, c>> \in P => <<a, c>> \in P
    BY <1>5
  <2> HIDE DEF P, Q
  <2> SUFFICES ASSUME NEW a \in Resources, NEW b \in Resources, NEW c \in Resources,
                      b <= n, <<a, b>> \in Q, <<b, c>> \in Q
               PROVE  <<a, c>> \in Q
    BY <1>2 DEF Q
  <2>4. CASE b = n
    BY <2>1, <2>2, <2>4
  <2>5. CASE b <= n - 1
    BY <2>1, <2>2, <2>3, <2>5
  <2> QED BY <1>2, <2>4, <2>5
<1>6. \A n \in 0 .. N : n \in T
  <2>1. T \in SUBSET Nat
    OBVIOUS
  <2> HIDE DEF T, N
  <2> QED BY <1>2, <1>4, <1>5, <2>1, UpTo
<1>7. Joins(N)
  BY <1>2, <1>6
<1> QED BY <1>1, <1>2, <1>7 DEF IsTransitive

\* Fewer edges, fewer paths.
LEMMA ClosureMonotone ==
  ASSUME NEW E \in SUBSET Pairs, NEW D \in SUBSET E
  PROVE  Closure(D) \subseteq Closure(E)
  BY ClosureContains, ClosureTransitive, ClosureLeast

-----------------------------------------------------------------------------
(* Edges and open calls *)

LEMMA EdgesOf ==
  ASSUME GraphTypeOK, Nodes \subseteq Resources
  PROVE  /\ Edges \subseteq Pairs
         /\ \A r, p : <<r, p>> \in Edges
              <=> /\ r \in Nodes /\ p \in Resources
                  /\ \E i \in 1 .. Len(requires[r]) : requires[r][i].to = p
<1>1. Edges \subseteq Pairs
  BY DEF Edges, Pairs
<1>2. \A r, p : <<r, p>> \in Edges <=> r \in Nodes /\ p \in Resources /\ Place(requires[r], p) # 0
  BY DEF Edges
<1>3. \A r \in Nodes : requires[r] \in Seq(Reference)
  BY DEF GraphTypeOK
<1> QED BY <1>1, <1>2, <1>3, PlaceFound

LEMMA OpenCall ==
  ASSUME GraphTypeOK, Nodes \subseteq Resources, NEW r \in Resources
  PROVE  /\ Open(r) \in CallType /\ Open(r).key = r
         /\ \A p \in Resources : <<r, p>> \in Edges
              <=> \E i \in 1 .. Len(Open(r).todo) : Open(r).todo[i].to = p
<1>1. CASE r \in Nodes
  <2>1. Open(r) = [key |-> r, todo |-> requires[r]] /\ requires[r] \in Seq(Reference)
    BY <1>1 DEF Open, GraphTypeOK
  <2> QED BY <1>1, <2>1, EdgesOf DEF CallType
<1>2. CASE r \notin Nodes
  <2>1. Open(r) = [key |-> r, todo |-> << >>]
    BY <1>2 DEF Open
  <2>2. Len(Open(r).todo) = 0 /\ << >> \in Seq(Reference)
    BY <2>1
  <2> QED BY <1>2, <2>1, <2>2, EdgesOf DEF CallType
<1> QED BY <1>1, <1>2

LEMMA PathKeys ==
  ASSUME GraphTypeOK
  PROVE  /\ Path \in Seq(Resources) /\ Len(Path) = Len(calls) /\ Len(calls) \in Nat
         /\ \A k \in 1 .. Len(calls) : Path[k] = calls[k].key /\ calls[k].key \in Resources
         /\ InProgress = {calls[k].key : k \in 1 .. Len(calls)}
<1>1. Len(calls) \in Nat /\ \A k \in 1 .. Len(calls) : calls[k].key \in Resources
  <2>1. calls \in Seq(CallType)
    BY DEF GraphTypeOK
  <2>2. Len(calls) \in Nat /\ \A k \in 1 .. Len(calls) : calls[k] \in CallType
    BY <2>1
  <2> QED BY <2>2 DEF CallType
<1>2. Path \in [1 .. Len(calls) -> Resources]
  BY <1>1 DEF Path
<1>3. Path \in Seq(Resources) /\ Len(Path) = Len(calls)
  BY <1>1, <1>2
<1> QED BY <1>1, <1>3 DEF Path, InProgress, ElementsOf

LEMMA InnerCall ==
  ASSUME GraphTypeOK, calls # << >>
  PROVE  /\ Len(calls) \in Nat \ {0} /\ Inner = calls[Len(calls)]
         /\ Inner.key \in Resources /\ Inner.todo \in Seq(Reference)
         /\ Inner = [key |-> Inner.key, todo |-> Inner.todo]
         /\ Outer \in Seq(CallType) /\ Len(Outer) = Len(calls) - 1
         /\ \A k \in 1 .. Len(calls) - 1 : Outer[k] = calls[k]
<1>1. calls \in Seq(CallType)
  BY DEF GraphTypeOK
<1>2. Len(calls) \in Nat \ {0}
  BY <1>1, EmptySeq
<1>3. Inner = calls[Len(calls)] /\ Inner \in CallType
  BY <1>1, <1>2 DEF Inner
<1> DEFINE m == Len(calls) - 1
<1>4. m \in Nat /\ \A k \in 1 .. m : calls[k] \in CallType
  BY <1>1, <1>2
<1> HIDE DEF m
<1>5. /\ SubSeq(calls, 1, m) \in Seq(CallType)
      /\ Len(SubSeq(calls, 1, m)) = m
      /\ \A k \in 1 .. m : SubSeq(calls, 1, m)[k] = calls[k]
  BY <1>4, SubSeqProperties
<1>6. /\ Outer \in Seq(CallType) /\ Len(Outer) = Len(calls) - 1
      /\ \A k \in 1 .. Len(calls) - 1 : Outer[k] = calls[k]
  BY <1>5 DEF Outer, m
<1> QED BY <1>2, <1>3, <1>6 DEF CallType

\* The innermost call has one reference fewer to look at; the others are as they were.
LEMMA TurnedCalls ==
  ASSUME GraphTypeOK, NEW p, Turns(p)
  PROVE  LET n == Len(calls) IN
         /\ Turned \in Seq(CallType) /\ Len(Turned) = n /\ n \in Nat \ {0}
         /\ p \in Resources /\ Inner = calls[n] /\ p = Inner.todo[1].to
         /\ Len(Inner.todo) \in Nat \ {0}
         /\ \A k \in 1 .. n : Turned[k].key = calls[k].key
         /\ \A k \in 1 .. n : k # n => Turned[k] = calls[k]
         /\ Len(Turned[n].todo) = Len(Inner.todo) - 1
         /\ \A i \in 1 .. Len(Inner.todo) - 1 : Turned[n].todo[i] = Inner.todo[i + 1]
<1> DEFINE n == Len(calls)
           f == [Inner EXCEPT !.todo = Tail(@)]
<1>1. /\ calls # << >> /\ Inner.todo # << >> /\ p = Head(Inner.todo).to
  BY DEF Turns
<1>2. /\ n \in Nat \ {0} /\ Inner = calls[n]
      /\ Inner.key \in Resources /\ Inner.todo \in Seq(Reference)
      /\ Inner = [key |-> Inner.key, todo |-> Inner.todo]
      /\ Outer \in Seq(CallType) /\ Len(Outer) = n - 1
      /\ \A k \in 1 .. n - 1 : Outer[k] = calls[k]
  BY <1>1, InnerCall
<1>3. Len(Inner.todo) \in Nat \ {0}
  BY <1>1, <1>2, EmptySeq
<1>4. Head(Inner.todo) = Inner.todo[1] /\ p = Inner.todo[1].to /\ p \in Resources
  <2>1. Head(Inner.todo) = Inner.todo[1] /\ Inner.todo[1] \in Reference
    BY <1>2, <1>3
  <2> QED BY <1>1, <2>1 DEF Reference
<1>5. /\ Tail(Inner.todo) \in Seq(Reference)
      /\ Len(Tail(Inner.todo)) = Len(Inner.todo) - 1
      /\ \A i \in 1 .. Len(Inner.todo) - 1 : Tail(Inner.todo)[i] = Inner.todo[i + 1]
  BY <1>1, <1>2, <1>3
<1>6. f \in CallType /\ f.key = Inner.key /\ f.todo = Tail(Inner.todo)
  BY <1>2, <1>5 DEF CallType
<1> HIDE DEF f
<1>7. /\ Append(Outer, f) \in Seq(CallType) /\ Len(Append(Outer, f)) = n
      /\ Append(Outer, f)[n] = f
      /\ \A k \in 1 .. n - 1 : Append(Outer, f)[k] = calls[k]
  BY <1>2, <1>6, AppendProperties
<1>8. Turned = Append(Outer, f)
  BY DEF Turned, f
<1>9. \A k \in 1 .. n : k # n => Turned[k] = calls[k]
  BY <1>2, <1>7, <1>8
<1>10. Turned[n] = f /\ n \in 1 .. n
  BY <1>2, <1>7, <1>8
<1>11. \A k \in 1 .. n : Turned[k].key = calls[k].key
  BY <1>2, <1>6, <1>9, <1>10
<1>12. /\ Len(Turned[n].todo) = Len(Inner.todo) - 1
       /\ \A i \in 1 .. Len(Inner.todo) - 1 : Turned[n].todo[i] = Inner.todo[i + 1]
  BY <1>5, <1>6, <1>10
<1>13. Turned \in Seq(CallType) /\ Len(Turned) = n
  BY <1>7, <1>8
<1> HIDE DEF n
<1>14. n = Len(calls)
  BY DEF n
<1> QED BY <1>2, <1>3, <1>4, <1>9, <1>11, <1>12, <1>13, <1>14, Zenon

\* From each open call a path leads to the ones inside it.
LEMMA PathReaches ==
  ASSUME GraphTypeOK, CallsInv, Nodes \subseteq Resources
  PROVE  \A i, j \in 1 .. Len(calls) :
           i < j => <<calls[i].key, calls[j].key>> \in Closure(Edges)
<1> DEFINE C == Closure(Edges)
<1>1. /\ Len(calls) \in Nat /\ \A k \in 1 .. Len(calls) : calls[k].key \in Resources
      /\ Edges \subseteq C /\ IsTransitive(C)
  BY PathKeys, EdgesOf, ClosureContains, ClosureTransitive
<1> SUFFICES ASSUME NEW i \in 1 .. Len(calls)
             PROVE  \A j \in 1 .. Len(calls) :
                      i < j => <<calls[i].key, calls[j].key>> \in C
  OBVIOUS
<1> DEFINE T == {n \in Nat : i < n /\ n <= Len(calls)
                               => <<calls[i].key, calls[n].key>> \in C}
<1> HIDE DEF C
<1>2. 0 \in T
  OBVIOUS
<1>3. ASSUME NEW n \in 1 .. Len(calls), n - 1 \in T PROVE n \in T
  <2> SUFFICES ASSUME i < n PROVE <<calls[i].key, calls[n].key>> \in C
    BY <1>1
  <2>1. <<calls[n - 1].key, calls[n].key>> \in C
    <3>1. n \in 2 .. Len(calls)
      BY <1>1
    <3> QED BY <1>1, <3>1 DEF CallsInv
  <2>2. CASE i = n - 1
    BY <2>1, <2>2
  <2>3. CASE i # n - 1
    <3>1. i < n - 1 /\ n - 1 \in 1 .. Len(calls)
      BY <1>1, <2>3
    <3>2. <<calls[i].key, calls[n - 1].key>> \in C
      BY <1>3, <3>1
    <3> QED BY <1>1, <2>1, <3>1, <3>2 DEF IsTransitive
  <2> QED BY <2>2, <2>3
<1>4. \A n \in 0 .. Len(calls) : n \in T
  <2>1. T \in SUBSET Nat
    OBVIOUS
  <2> HIDE DEF T
  <2> QED BY <1>1, <1>2, <1>3, <2>1, UpTo
<1> QED BY <1>1, <1>4

-----------------------------------------------------------------------------
(* What a step does to the open calls *)

\* What of the type invariant the walks change.
WalkTypeOK ==
  /\ phase \in {"merge", "order", "validate", "built"}
  /\ creationOrder \in [Nodes -> Seq(Resources)]
  /\ \A c \in cycles : c \in Seq(Resources)
  /\ roots \subseteq Nodes
  /\ calls \in Seq(CallType)
  /\ \A i, j \in 1 .. Len(calls) : calls[i].key = calls[j].key => i = j
  /\ seen \subseteq Resources
  /\ cut \in [Nodes -> SUBSET Resources]

LEMMA NodesAreResources ==
  ASSUME GraphInv
  PROVE  /\ GraphTypeOK /\ WalkTypeOK /\ CallsInv /\ OrderInv /\ ValidateInv
         /\ Nodes \subseteq Resources /\ Nodes = DOMAIN extracted
<1>1. GraphTypeOK /\ extracted \in Extractions /\ Nodes = DOMAIN extracted
  BY DEF GraphInv, GraphTypeOK
<1>2. WalkTypeOK
  BY <1>1 DEF GraphTypeOK, WalkTypeOK
<1> QED BY <1>1, <1>2, GraphConstants DEF GraphInv

LEMMA SameEdges ==
  ASSUME requires' = requires
  PROVE  Nodes' = Nodes /\ Edges' = Edges
  BY DEF Nodes, Edges

\* A step of a walk leaves the merged references and the reverse edges alone.
LEMMA SameGraph ==
  ASSUME GraphInv, phase # "merge", phase' # "merge",
         UNCHANGED <<pending, orderDepth, requires, requiredBy, extracted>>,
         WalkTypeOK', CallsInv', OrderInv', ValidateInv'
  PROVE  GraphInv'
<1>1. Nodes' = Nodes
  BY SameEdges
<1>2. GraphTypeOK'
  BY <1>1 DEF GraphInv, GraphTypeOK, WalkTypeOK
<1>3. MergedSoFar'
  <2>1. MergedSoFar
    BY DEF GraphInv
  <2>2. \A r : Done(r)' = Done(r)
    BY DEF Done
  <2> QED BY <1>1, <2>1, <2>2 DEF MergedSoFar, MergedOf
<1>4. (\A r \in Nodes : pending[r] = << >>)' /\ extracted' \in Extractions
  BY <1>1 DEF GraphInv
<1>5. (requiredBy = [p \in Resources |-> Dependents(p)])'
  BY <1>1 DEF GraphInv, Dependents
<1> QED BY <1>2, <1>3, <1>4, <1>5 DEF GraphInv

LEMMA KeysOf ==
  ASSUME NEW s \in Seq(CallType)
  PROVE  ElementsOf([i \in 1 .. Len(s) |-> s[i].key]) = {s[k].key : k \in 1 .. Len(s)}
<1> DEFINE path == [i \in 1 .. Len(s) |-> s[i].key]
<1>1. Len(s) \in Nat /\ \A k \in 1 .. Len(s) : s[k] \in CallType
  OBVIOUS
<1>2. path \in [1 .. Len(s) -> Resources]
  BY <1>1 DEF CallType
<1>3. Len(path) = Len(s) /\ \A k \in 1 .. Len(s) : path[k] = s[k].key
  BY <1>1, <1>2
<1> HIDE DEF path
<1>4. ElementsOf(path) = {s[k].key : k \in 1 .. Len(s)}
  BY <1>3 DEF ElementsOf
<1> QED BY <1>4 DEF path

\* No call is open.
LEMMA NoCalls ==
  ASSUME calls = << >>
  PROVE  InProgress = {} /\ Len(calls) = 0
  BY EmptySeq DEF InProgress, Path, ElementsOf

LEMMA AfterStart ==
  ASSUME GraphInv, NEW r \in Resources, calls' = <<Open(r)>>, requires' = requires,
         phase' \in {"order", "validate"}
  PROVE  /\ calls' \in Seq(CallType) /\ Len(calls') = 1 /\ calls' # << >>
         /\ calls'[1].key = r /\ InProgress' = {r}
         /\ \A i, j \in 1 .. Len(calls') : calls'[i].key = calls'[j].key => i = j
         /\ \A p \in Resources : <<r, p>> \in Edges => p \in Todo(1)'
         /\ CallsInv'
<1>1. /\ Open(r) \in CallType /\ Open(r).key = r
      /\ \A p \in Resources : <<r, p>> \in Edges
           <=> \E i \in 1 .. Len(Open(r).todo) : Open(r).todo[i].to = p
  BY NodesAreResources, OpenCall
<1> DEFINE c == Open(r)
<1> HIDE DEF c
<1>2. calls' = <<c>> /\ c \in CallType /\ c.key = r
  BY <1>1 DEF c
<1>3. calls' \in Seq(CallType) /\ Len(calls') = 1 /\ calls'[1] = c /\ calls' # << >>
  BY <1>2
<1>4. InProgress' = {calls'[k].key : k \in 1 .. Len(calls')}
  BY <1>3, KeysOf DEF InProgress, Path
<1>5. InProgress' = {r}
  BY <1>2, <1>3, <1>4
<1>6. \A p \in Resources : <<r, p>> \in Edges => p \in Todo(1)'
  BY <1>1, <1>3 DEF Todo, c
<1>7. \A i \in 1 .. Len(c.todo) : <<r, c.todo[i].to>> \in Edges
  <2>1. c.todo \in Seq(Reference)
    BY <1>2 DEF CallType
  <2>2. \A i \in 1 .. Len(c.todo) : c.todo[i] \in Reference
    BY <2>1
  <2> QED BY <1>1, <2>2 DEF c, Reference
<1>8. CallsInv'
  <2>1. Edges' = Edges
    BY SameEdges
  <2>2. \A k \in 1 .. Len(calls') : k = 1 /\ k \notin 2 .. Len(calls')
    BY <1>3
  <2>3. \A k \in 2 .. Len(calls') : FALSE
    BY <1>3
  <2> QED BY <1>2, <1>3, <1>7, <2>1, <2>2, <2>3 DEF CallsInv
<1> QED BY <1>2, <1>3, <1>5, <1>6, <1>8

LEMMA AfterTurn ==
  ASSUME GraphInv, NEW p, Turns(p), calls' = Turned, requires' = requires, phase' = phase
  PROVE  /\ calls' \in Seq(CallType) /\ Len(calls') = Len(calls)
         /\ Len(calls) \in Nat \ {0} /\ calls' # << >>
         /\ \A k \in 1 .. Len(calls) : calls'[k].key = calls[k].key
         /\ \A i, j \in 1 .. Len(calls') : calls'[i].key = calls'[j].key => i = j
         /\ p \in Resources /\ <<Inner.key, p>> \in Edges
         /\ Inner = calls[Len(calls)] /\ Inner.key \in Resources
         /\ InProgress' = InProgress
         /\ \A k \in 1 .. Len(calls) : \A q : q \in Todo(k) =>
              q \in Todo(k)' \/ (k = Len(calls) /\ q = p)
         /\ CallsInv'
<1> DEFINE n == Len(calls)
           m == Len(Inner.todo)
<1>1. /\ Turned \in Seq(CallType) /\ Len(Turned) = n /\ n \in Nat \ {0}
      /\ p \in Resources /\ Inner = calls[n] /\ p = Inner.todo[1].to
      /\ m \in Nat \ {0}
      /\ \A k \in 1 .. n : Turned[k].key = calls[k].key
      /\ \A k \in 1 .. n : k # n => Turned[k] = calls[k]
      /\ Len(Turned[n].todo) = m - 1
      /\ \A i \in 1 .. m - 1 : Turned[n].todo[i] = Inner.todo[i + 1]
  BY NodesAreResources, TurnedCalls, Zenon
<1>2. WalkTypeOK /\ CallsInv /\ Edges' = Edges
  BY NodesAreResources, SameEdges
<1>3. \A i, j \in 1 .. n : calls'[i].key = calls'[j].key => i = j
  BY <1>1, <1>2 DEF WalkTypeOK
<1>4. InProgress' = InProgress
  <2>1. InProgress' = {calls'[k].key : k \in 1 .. Len(calls')}
    BY <1>1, KeysOf DEF InProgress, Path
  <2>2. InProgress = {calls[k].key : k \in 1 .. Len(calls)}
    BY <1>2, KeysOf DEF InProgress, Path, WalkTypeOK
  <2> QED BY <1>1, <2>1, <2>2
<1>5. \A i \in 1 .. m : <<calls[n].key, Inner.todo[i].to>> \in Edges
  BY <1>1, <1>2 DEF CallsInv
<1>6. <<Inner.key, p>> \in Edges /\ Inner.key \in Resources
  <2>1. <<Inner.key, p>> \in Edges
    BY <1>1, <1>5
  <2> QED BY <2>1, NodesAreResources, EdgesOf DEF Pairs
<1>7. ASSUME NEW k \in 1 .. n, NEW q, q \in Todo(k)
      PROVE  q \in Todo(k)' \/ (k = n /\ q = p)
  <2>1. CASE k # n
    BY <1>1, <1>7, <2>1 DEF Todo
  <2>2. CASE k = n
    <3>1. PICK i \in 1 .. m : q = Inner.todo[i].to
      BY <1>1, <1>7, <2>2 DEF Todo
    <3>2. CASE i = 1
      BY <1>1, <2>2, <3>1, <3>2
    <3>3. CASE i # 1
      <4>1. i - 1 \in 1 .. m - 1 /\ (i - 1) + 1 = i
        BY <1>1, <3>3
      <4>2. q = Turned[n].todo[i - 1].to
        BY <1>1, <3>1, <4>1
      <4> QED BY <1>1, <2>2, <4>1, <4>2 DEF Todo
    <3> QED BY <3>2, <3>3
  <2> QED BY <2>1, <2>2
<1>8. CallsInv'
  <2>1. phase' \notin {"merge", "built"}
    BY <1>1, <1>2 DEF CallsInv
  <2>2. ASSUME NEW k \in 1 .. n, NEW i \in 1 .. Len(calls'[k].todo)
        PROVE  <<calls'[k].key, calls'[k].todo[i].to>> \in Edges'
    <3>1. CASE k # n
      BY <1>1, <1>2, <2>2, <3>1 DEF CallsInv
    <3>2. CASE k = n
      <4>1. i \in 1 .. m - 1 /\ i + 1 \in 1 .. m
        BY <1>1, <2>2, <3>2
      <4>2. calls'[k].key = calls[n].key /\ calls'[k].todo[i] = Inner.todo[i + 1]
        BY <1>1, <3>2, <4>1
      <4>3. <<calls[n].key, Inner.todo[i + 1].to>> \in Edges
        BY <1>5, <4>1
      <4> QED BY <1>2, <4>2, <4>3
    <3> QED BY <3>1, <3>2
  <2>3. ASSUME NEW k \in 2 .. n
        PROVE  <<calls'[k - 1].key, calls'[k].key>> \in Edges'
    <3>1. k \in 1 .. n /\ k - 1 \in 1 .. n
      BY <1>1
    <3>2. <<calls[k - 1].key, calls[k].key>> \in Edges
      BY <1>2 DEF CallsInv
    <3> QED BY <1>1, <1>2, <3>1, <3>2
  <2> QED BY <1>1, <2>1, <2>2, <2>3 DEF CallsInv
<1> HIDE DEF m
<1>9. calls' # << >>
  BY <1>1
<1> QED BY <1>1, <1>3, <1>4, <1>6, <1>7, <1>8, <1>9

LEMMA AfterDescent ==
  ASSUME GraphInv, NEW p, Turns(p), p \notin InProgress,
         calls' = Append(Turned, Open(p)), requires' = requires, phase' = phase
  PROVE  LET n == Len(calls) IN
         /\ calls' \in Seq(CallType) /\ Len(calls') = n + 1
         /\ n \in Nat \ {0} /\ calls' # << >>
         /\ \A k \in 1 .. n : calls'[k].key = calls[k].key
         /\ calls'[n + 1].key = p
         /\ \A i, j \in 1 .. Len(calls') : calls'[i].key = calls'[j].key => i = j
         /\ p \in Resources
         /\ InProgress' = InProgress \cup {p}
         /\ \A k \in 1 .. n : \A q : q \in Todo(k) => q \in Todo(k)' \/ (k = n /\ q = p)
         /\ \A k, q : k = n + 1 /\ <<p, q>> \in Edges => q \in Todo(k)'
         /\ CallsInv'
<1> DEFINE n == Len(calls)
           m == Len(Inner.todo)
<1>1. /\ Turned \in Seq(CallType) /\ Len(Turned) = n /\ n \in Nat \ {0}
      /\ p \in Resources /\ Inner = calls[n] /\ p = Inner.todo[1].to
      /\ m \in Nat \ {0}
      /\ \A k \in 1 .. n : Turned[k].key = calls[k].key
      /\ \A k \in 1 .. n : k # n => Turned[k] = calls[k]
      /\ Len(Turned[n].todo) = m - 1
      /\ \A i \in 1 .. m - 1 : Turned[n].todo[i] = Inner.todo[i + 1]
  BY NodesAreResources, TurnedCalls, Zenon
<1>2. WalkTypeOK /\ CallsInv /\ Edges' = Edges
  BY NodesAreResources, SameEdges
<1>3. /\ Open(p) \in CallType /\ Open(p).key = p
      /\ \A q \in Resources : <<p, q>> \in Edges
           <=> \E i \in 1 .. Len(Open(p).todo) : Open(p).todo[i].to = q
  BY <1>1, NodesAreResources, OpenCall
<1>4. /\ calls' \in Seq(CallType) /\ Len(calls') = n + 1 /\ calls'[n + 1] = Open(p)
      /\ \A k \in 1 .. n : calls'[k] = Turned[k]
  BY <1>1, <1>3, AppendProperties
<1>5. \A k \in 1 .. n + 1 : k = n + 1 \/ k \in 1 .. n
  BY <1>1
<1>6. InProgress = {calls[k].key : k \in 1 .. n}
  BY <1>2, KeysOf DEF InProgress, Path, WalkTypeOK
<1>7. \A i, j \in 1 .. n + 1 : calls'[i].key = calls'[j].key => i = j
  <2>1. \A i, j \in 1 .. n : calls[i].key = calls[j].key => i = j
    BY <1>2 DEF WalkTypeOK
  <2>2. \A i \in 1 .. n : calls'[i].key = calls[i].key /\ calls[i].key # p
    BY <1>1, <1>4, <1>6
  <2>3. calls'[n + 1].key = p
    BY <1>3, <1>4
  <2> QED BY <1>5, <2>1, <2>2, <2>3
<1>8. InProgress' = InProgress \cup {p}
  <2>1. InProgress' = {calls'[k].key : k \in 1 .. Len(calls')}
    BY <1>4, KeysOf DEF InProgress, Path
  <2>2. 1 .. n \subseteq 1 .. n + 1 /\ n + 1 \in 1 .. n + 1
    BY <1>1
  <2> QED BY <1>1, <1>3, <1>4, <1>5, <1>6, <2>1, <2>2
<1>9. \A i \in 1 .. m : <<calls[n].key, Inner.todo[i].to>> \in Edges
  BY <1>1, <1>2 DEF CallsInv
<1>10. ASSUME NEW k \in 1 .. n, NEW q, q \in Todo(k)
       PROVE  q \in Todo(k)' \/ (k = n /\ q = p)
  <2>1. CASE k # n
    BY <1>1, <1>4, <1>10, <2>1 DEF Todo
  <2>2. CASE k = n
    <3>1. PICK i \in 1 .. m : q = Inner.todo[i].to
      BY <1>1, <1>10, <2>2 DEF Todo
    <3>2. CASE i = 1
      BY <1>1, <2>2, <3>1, <3>2
    <3>3. CASE i # 1
      <4>1. i - 1 \in 1 .. m - 1 /\ (i - 1) + 1 = i
        BY <1>1, <3>3
      <4>2. q = calls'[n].todo[i - 1].to /\ Len(calls'[n].todo) = m - 1
        BY <1>1, <1>4, <3>1, <4>1
      <4> QED BY <2>2, <4>1, <4>2 DEF Todo
    <3> QED BY <3>2, <3>3
  <2> QED BY <2>1, <2>2
<1>11. ASSUME NEW k, NEW q, k = n + 1, <<p, q>> \in Edges PROVE q \in Todo(k)'
  <2> DEFINE c == Open(p)
  <2>1. q \in Resources
    BY <1>11, NodesAreResources, EdgesOf
  <2>2. PICK i \in 1 .. Len(Open(p).todo) : Open(p).todo[i].to = q
    BY <1>3, <1>11, <2>1
  <2> HIDE DEF c
  <2>3. calls'[k] = c /\ i \in 1 .. Len(c.todo) /\ c.todo[i].to = q
    BY <1>4, <1>11, <2>2 DEF c
  <2>4. Todo(k)' = {c.todo[j].to : j \in 1 .. Len(c.todo)}
    BY <2>3 DEF Todo
  <2> QED BY <2>3, <2>4
<1>12. CallsInv'
  <2>1. phase' \notin {"merge", "built"}
    BY <1>1, <1>2 DEF CallsInv
  <2>2. ASSUME NEW k \in 1 .. n + 1, NEW i \in 1 .. Len(calls'[k].todo)
        PROVE  <<calls'[k].key, calls'[k].todo[i].to>> \in Edges'
    <3>1. CASE k # n /\ k # n + 1
      <4>1. k \in 1 .. n /\ calls'[k] = calls[k]
        BY <1>1, <1>4, <1>5, <3>1
      <4> QED BY <1>2, <2>2, <4>1 DEF CallsInv
    <3>2. CASE k = n
      <4>1. i \in 1 .. m - 1 /\ i + 1 \in 1 .. m
        BY <1>1, <1>4, <2>2, <3>2
      <4>2. calls'[k].key = calls[n].key /\ calls'[k].todo[i] = Inner.todo[i + 1]
        BY <1>1, <1>4, <3>2, <4>1
      <4>3. <<calls[n].key, Inner.todo[i + 1].to>> \in Edges
        BY <1>9, <4>1
      <4> QED BY <1>2, <4>2, <4>3
    <3>3. CASE k = n + 1
      <4>1. Open(p).todo \in Seq(Reference)
        BY <1>3 DEF CallType
      <4>2. Open(p).todo[i] \in Reference /\ i \in 1 .. Len(Open(p).todo)
        BY <1>4, <2>2, <3>3, <4>1
      <4>3. Open(p).todo[i].to \in Resources
        BY <4>2 DEF Reference
      <4>4. <<p, Open(p).todo[i].to>> \in Edges
        BY <1>3, <4>2, <4>3
      <4> QED BY <1>2, <1>3, <1>4, <3>3, <4>4
    <3> QED BY <3>1, <3>2, <3>3
  <2>3. ASSUME NEW k \in 2 .. n + 1
        PROVE  <<calls'[k - 1].key, calls'[k].key>> \in Edges'
    <3>1. CASE k = n + 1
      <4>1. k - 1 = n /\ n \in 1 .. n
        BY <1>1, <3>1
      <4>2. <<calls[n].key, p>> \in Edges
        BY <1>1, <1>9
      <4>3. calls'[k - 1].key = calls[n].key /\ calls'[k].key = p
        BY <1>1, <1>3, <1>4, <3>1, <4>1
      <4> QED BY <1>2, <4>2, <4>3
    <3>2. CASE k # n + 1
      <4>1. k \in 1 .. n /\ k - 1 \in 1 .. n /\ k \in 2 .. n
        BY <1>1, <3>2
      <4>2. <<calls[k - 1].key, calls[k].key>> \in Edges
        BY <1>2, <4>1 DEF CallsInv
      <4> QED BY <1>1, <1>2, <1>4, <4>1, <4>2
    <3> QED BY <3>1, <3>2
  <2> QED BY <1>4, <2>1, <2>2, <2>3 DEF CallsInv
<1> HIDE DEF m
<1>13. calls' # << >> /\ \A k \in 1 .. n : calls'[k].key = calls[k].key
  BY <1>1, <1>4
<1>14. calls'[n + 1].key = p
  BY <1>3, <1>4
<1> QED BY <1>1, <1>4, <1>7, <1>8, <1>10, <1>11, <1>12, <1>13, <1>14

LEMMA AfterReturn ==
  ASSUME GraphInv, calls # << >>, Inner.todo = << >>, calls' = Outer,
         requires' = requires, phase' = phase
  PROVE  LET n == Len(calls) IN
         /\ calls' \in Seq(CallType) /\ Len(calls') = n - 1 /\ n \in Nat \ {0}
         /\ Outer = << >> <=> n = 1
         /\ \A k \in 1 .. n - 1 : calls'[k] = calls[k]
         /\ \A i, j \in 1 .. Len(calls') : calls'[i].key = calls'[j].key => i = j
         /\ Inner = calls[n] /\ Inner.key \in Resources
         /\ Inner.key \notin InProgress' /\ InProgress = InProgress' \cup {Inner.key}
         /\ Todo(n) = {} /\ \A k \in 1 .. n - 1 : Todo(k)' = Todo(k)
         /\ CallsInv'
<1> DEFINE n == Len(calls)
<1>1. /\ n \in Nat \ {0} /\ Inner = calls[n] /\ Inner.key \in Resources
      /\ Outer \in Seq(CallType) /\ Len(Outer) = n - 1
      /\ \A k \in 1 .. n - 1 : Outer[k] = calls[k]
  BY NodesAreResources, InnerCall
<1>2. WalkTypeOK /\ CallsInv /\ Edges' = Edges
  BY NodesAreResources, SameEdges
<1>3. \A k \in 1 .. n - 1 : k \in 1 .. n /\ k # n
  BY <1>1
<1>4. \A i, j \in 1 .. n : calls[i].key = calls[j].key => i = j
  BY <1>2 DEF WalkTypeOK
<1>5. \A i, j \in 1 .. n - 1 : calls'[i].key = calls'[j].key => i = j
  BY <1>1, <1>3, <1>4
<1>6. Inner.key \notin InProgress' /\ InProgress = InProgress' \cup {Inner.key}
  <2>1. InProgress' = {calls'[k].key : k \in 1 .. Len(calls')}
    BY <1>1, KeysOf DEF InProgress, Path
  <2>2. InProgress = {calls[k].key : k \in 1 .. Len(calls)}
    BY <1>2, KeysOf DEF InProgress, Path, WalkTypeOK
  <2>3. InProgress' = {calls[k].key : k \in 1 .. n - 1}
    BY <1>1, <2>1
  <2>4. n \in 1 .. n /\ \A k \in 1 .. n : k = n \/ k \in 1 .. n - 1
    BY <1>1
  <2>5. Inner.key \notin InProgress'
    BY <1>1, <1>3, <1>4, <2>3, <2>4
  <2>6. InProgress = InProgress' \cup {Inner.key}
    BY <1>1, <1>3, <2>2, <2>3, <2>4
  <2> QED BY <2>5, <2>6
<1>7. Todo(n) = {} /\ \A k \in 1 .. n - 1 : Todo(k)' = Todo(k)
  <2>1. Todo(n) = {}
    BY <1>1, EmptySeq DEF Todo
  <2> QED BY <1>1, <2>1 DEF Todo
<1>8. CallsInv'
  <2>1. phase' \notin {"merge", "built"}
    BY <1>2 DEF CallsInv
  <2>2. ASSUME NEW k \in 1 .. n - 1, NEW i \in 1 .. Len(calls'[k].todo)
        PROVE  <<calls'[k].key, calls'[k].todo[i].to>> \in Edges'
    BY <1>1, <1>2, <1>3, <2>2 DEF CallsInv
  <2>3. ASSUME NEW k \in 2 .. n - 1
        PROVE  <<calls'[k - 1].key, calls'[k].key>> \in Edges'
    <3>1. k \in 1 .. n - 1 /\ k - 1 \in 1 .. n - 1 /\ k \in 2 .. n
      BY <1>1
    <3>2. <<calls[k - 1].key, calls[k].key>> \in Edges
      BY <1>2, <3>1 DEF CallsInv
    <3> QED BY <1>1, <1>2, <3>1, <3>2
  <2> QED BY <1>1, <2>1, <2>2, <2>3 DEF CallsInv
<1>9. Outer = << >> <=> n = 1
  BY <1>1, EmptySeq
<1> QED BY <1>1, <1>5, <1>6, <1>7, <1>8, <1>9

-----------------------------------------------------------------------------
(* The initial state and the merging of references *)

LEMMA GraphStarts ==
  ASSUME GraphInit
  PROVE  GraphInv
<1>1. /\ Nodes = DOMAIN extracted /\ Nodes \subseteq Resources
      /\ extracted \in Extractions /\ extracted \in [Nodes -> Seq(Reference)]
      /\ requires = [r \in Nodes |-> << >>] /\ pending = extracted
      /\ creationOrder = [r \in Nodes |-> << >>] /\ cut = [r \in Nodes |-> {}]
  <2>1. Nodes = DOMAIN extracted /\ extracted \in Extractions
    BY DEF GraphInit, Nodes
  <2>2. extracted \in [Nodes -> Seq(Reference)] /\ Nodes \subseteq Resources
    BY <2>1, GraphConstants
  <2> QED BY <2>1, <2>2 DEF GraphInit
<1>2. /\ phase = "merge" /\ cycles = {} /\ roots = {} /\ calls = << >> /\ seen = {}
      /\ orderDepth \in OrderDepths /\ requiredBy = [p \in Resources |-> {}]
  BY DEF GraphInit
<1>3. calls \in Seq(CallType) /\ Len(calls) = 0 /\ \A k \in 1 .. Len(calls) : FALSE
  BY <1>2, EmptySeq
<1>4. \A r \in Nodes : requires[r] = << >> /\ Len(requires[r]) = 0
  BY <1>1
<1>5. GraphTypeOK
  BY <1>1, <1>2, <1>3, <1>4 DEF GraphTypeOK
<1>6. MergedSoFar
  <2> SUFFICES ASSUME NEW r \in Nodes
               PROVE  /\ Done(r) \in Nat
                      /\ \A i \in 1 .. Len(pending[r]) :
                           pending[r][i] = extracted[r][Done(r) + i]
                      /\ \A i \in 1 .. Done(r) : FALSE
    BY <1>4 DEF MergedSoFar, MergedOf
  <2>1. Len(extracted[r]) \in Nat /\ Done(r) = 0
    BY <1>1 DEF Done
  <2> QED BY <1>1, <2>1
<1>7. CallsInv
  BY <1>2, <1>3 DEF CallsInv
<1>8. OrderInv
  <2>1. \A r \in Nodes : creationOrder[r] = << >> /\ cut[r] = {}
    BY <1>1
  <2>2. \A r \in Nodes : OrderSoFar(r)
    BY <2>1 DEF OrderSoFar
  <2> QED BY <1>2, <2>1, <2>2 DEF OrderInv
<1>9. ValidateInv
  BY <1>2 DEF ValidateInv
<1> QED BY <1>1, <1>2, <1>5, <1>6, <1>7, <1>8, <1>9 DEF GraphInv

LEMMA MergeNextPreserves ==
  ASSUME GraphInv, MergeNext
  PROVE  GraphInv'
<1> DEFINE S == {q \in Nodes : pending[q] # << >>}
<1>1. Nodes \subseteq Resources /\ GraphTypeOK /\ OrderInv /\ CallsInv
  BY NodesAreResources
<1>2. PICK r \in Nodes : r = First(S) /\ pending[r] # << >>
  <2>1. S \in SUBSET Resources /\ S # {}
    BY <1>1 DEF MergeNext
  <2> HIDE DEF S
  <2>2. First(S) \in S
    BY <2>1, FirstFound
  <2> QED BY <2>2 DEF S
<1>3. /\ phase = "merge"
      /\ requires' = [requires EXCEPT ![r] = Merged(@, Head(pending[r]))]
      /\ pending' = [pending EXCEPT ![r] = Tail(@)]
      /\ UNCHANGED <<orderDepth, phase, requiredBy, creationOrder, cycles, roots, calls,
                     seen, cut, extracted>>
  BY <1>2 DEF MergeNext
<1> DEFINE ref == Head(pending[r])
           old == requires[r]
           m == Merged(old, ref)
<1>4. /\ pending[r] \in Seq(Reference) /\ requires[r] \in Seq(Reference)
      /\ extracted[r] \in Seq(Reference)
      /\ requires \in [Nodes -> Seq(Reference)] /\ pending \in [Nodes -> Seq(Reference)]
      /\ \A i, j \in 1 .. Len(old) : old[i].to = old[j].to => i = j
  BY <1>1, <1>2 DEF GraphTypeOK
<1>5. /\ Len(pending[r]) \in Nat \ {0} /\ ref = pending[r][1] /\ ref \in Reference
      /\ Tail(pending[r]) \in Seq(Reference)
      /\ Len(Tail(pending[r])) = Len(pending[r]) - 1
      /\ \A i \in 1 .. Len(pending[r]) - 1 : Tail(pending[r])[i] = pending[r][i + 1]
  <2>1. Len(pending[r]) \in Nat \ {0}
    BY <1>2, <1>4, EmptySeq
  <2>2. ref = pending[r][1] /\ pending[r][1] \in Reference
    BY <1>4, <2>1
  <2> QED BY <1>2, <1>4, <2>1, <2>2
<1> HIDE DEF ref
<1>16. old \in Seq(Reference) /\ \A i, j \in 1 .. Len(old) : old[i].to = old[j].to => i = j
  BY <1>4
<1>17. ref \in Reference
  BY <1>5
<1> HIDE DEF old
<1>6. /\ m \in Seq(Reference)
      /\ \A i, j \in 1 .. Len(m) : m[i].to = m[j].to => i = j
      /\ \A p : (\E i \in 1 .. Len(m) : m[i].to = p)
                  <=> p = ref.to \/ \E i \in 1 .. Len(old) : old[i].to = p
      /\ \A i \in 1 .. Len(m) : m[i].required
           <=> \/ m[i].to = ref.to /\ ref.required
               \/ \E j \in 1 .. Len(old) : old[j].to = m[i].to /\ old[j].required
  BY <1>16, <1>17, MergedReference
<1>7. /\ requires' = [requires EXCEPT ![r] = m] /\ Nodes' = Nodes
      /\ requires' \in [Nodes -> Seq(Reference)] /\ requires'[r] = m
      /\ \A q \in Nodes : q # r => requires'[q] = requires[q]
  <2>1. requires' = [requires EXCEPT ![r] = m]
    BY <1>3 DEF ref, old
  <2> HIDE DEF m
  <2>2. /\ requires' \in [Nodes -> Seq(Reference)] /\ requires'[r] = m
        /\ \A q \in Nodes : q # r => requires'[q] = requires[q]
    BY <1>2, <1>4, <1>6, <2>1
  <2> QED BY <2>1, <2>2 DEF Nodes
<1> HIDE DEF m
<1>8. /\ pending' \in [Nodes -> Seq(Reference)] /\ pending'[r] = Tail(pending[r])
      /\ \A q \in Nodes : q # r => pending'[q] = pending[q]
  BY <1>2, <1>3, <1>4, <1>5
<1>9. GraphTypeOK'
  <2>1. ASSUME NEW q \in Nodes
        PROVE  \A i, j \in 1 .. Len(requires'[q]) :
                 requires'[q][i].to = requires'[q][j].to => i = j
    <3>1. CASE q = r
      BY <1>6, <1>7, <3>1
    <3>2. CASE q # r
      BY <1>1, <1>7, <3>2 DEF GraphTypeOK
    <3> QED BY <3>1, <3>2
  <2> QED BY <1>1, <1>3, <1>7, <1>8, <2>1 DEF GraphTypeOK
<1>10. MergedSoFar'
  <2>1. MergedSoFar
    BY DEF GraphInv
  <2> DEFINE d == Done(r)
             x == extracted[r]
  <2>2. /\ d \in Nat
        /\ \A i \in 1 .. Len(pending[r]) : pending[r][i] = x[d + i]
        /\ \A p \in Resources : (\E j \in 1 .. Len(old) : old[j].to = p)
             <=> \E i \in 1 .. d : x[i].to = p
        /\ \A j \in 1 .. Len(old) : old[j].required
             <=> \E i \in 1 .. d : x[i].to = old[j].to /\ x[i].required
    BY <1>2, <2>1 DEF MergedSoFar, MergedOf, old
  <2>3. Done(r)' = d + 1 /\ x[d + 1] = ref /\ extracted' = extracted
    <3>1. Len(pending'[r]) = Len(pending[r]) - 1 /\ Len(x) \in Nat
      BY <1>4, <1>5, <1>8
    <3>2. 1 \in 1 .. Len(pending[r])
      BY <1>5
    <3>3. pending[r][1] = x[d + 1]
      BY <2>2, <3>2
    <3>4. Done(r)' = Len(x) - Len(pending'[r]) /\ d = Len(x) - Len(pending[r])
      BY <1>3 DEF Done
    <3>5. Done(r)' = d + 1
      BY <1>5, <3>1, <3>4
    <3> QED BY <1>3, <1>5, <3>3, <3>5
  <2> HIDE DEF d, x
  <2>4. \A i \in 1 .. d + 1 : i = d + 1 \/ i \in 1 .. d
    BY <2>2
  <2>5. 1 .. d \subseteq 1 .. d + 1 /\ d + 1 \in 1 .. d + 1 /\ d + 1 \in Nat
    BY <2>2
  <2>6. \A i \in 1 .. Len(pending'[r]) : pending'[r][i] = x[(d + 1) + i]
    <3> SUFFICES ASSUME NEW i \in 1 .. Len(pending'[r])
                 PROVE  pending'[r][i] = x[(d + 1) + i]
      OBVIOUS
    <3>1. i \in 1 .. Len(pending[r]) - 1 /\ i + 1 \in 1 .. Len(pending[r])
      BY <1>5, <1>8
    <3>2. pending'[r][i] = pending[r][i + 1] /\ pending[r][i + 1] = x[d + (i + 1)]
      BY <1>5, <1>8, <2>2, <3>1
    <3>3. d + (i + 1) = (d + 1) + i
      BY <2>2, <3>1
    <3> QED BY <3>2, <3>3
  <2>7. ASSUME NEW p \in Resources
        PROVE  (\E j \in 1 .. Len(m) : m[j].to = p) <=> \E i \in 1 .. d + 1 : x[i].to = p
    <3>1. (\E j \in 1 .. Len(m) : m[j].to = p)
            <=> p = ref.to \/ \E i \in 1 .. d : x[i].to = p
      <4>1. (\E j \in 1 .. Len(m) : m[j].to = p)
              <=> p = ref.to \/ \E i \in 1 .. Len(old) : old[i].to = p
        BY <1>6
      <4>2. (\E i \in 1 .. Len(old) : old[i].to = p) <=> \E i \in 1 .. d : x[i].to = p
        BY <2>2
      <4> QED BY <4>1, <4>2
    <3> QED BY <2>3, <2>4, <2>5, <3>1, Zenon
  <2>8. ASSUME NEW j \in 1 .. Len(m)
        PROVE  m[j].required
                 <=> \E i \in 1 .. d + 1 : x[i].to = m[j].to /\ x[i].required
    <3> DEFINE to == m[j].to
    <3>1. to \in Resources
      <4>1. m[j] \in Reference
        BY <1>6
      <4> QED BY <4>1 DEF Reference
    <3>2. (\E k \in 1 .. Len(old) : old[k].to = to /\ old[k].required)
            <=> \E i \in 1 .. d : x[i].to = to /\ x[i].required
      <4>1. ASSUME NEW k \in 1 .. Len(old), old[k].to = to, old[k].required
            PROVE  \E i \in 1 .. d : x[i].to = to /\ x[i].required
        BY <2>2, <4>1, Zenon
      <4>2. ASSUME NEW i \in 1 .. d, x[i].to = to, x[i].required
            PROVE  \E k \in 1 .. Len(old) : old[k].to = to /\ old[k].required
        <5>1. PICK k \in 1 .. Len(old) : old[k].to = to
          BY <2>2, <3>1, <4>2, Zenon
        <5>2. old[k].required
          BY <2>2, <4>2, <5>1, Zenon
        <5> QED BY <5>1, <5>2
      <4> QED BY <4>1, <4>2, Zenon
    <3>3. m[j].required
            <=> \/ to = ref.to /\ ref.required
                \/ \E k \in 1 .. Len(old) : old[k].to = to /\ old[k].required
      BY <1>6, Zenon
    <3>4. (\E i \in 1 .. d + 1 : x[i].to = to /\ x[i].required)
            <=> \/ to = ref.to /\ ref.required
                \/ \E i \in 1 .. d : x[i].to = to /\ x[i].required
      BY <2>3, <2>4, <2>5, Zenon
    <3> QED BY <3>2, <3>3, <3>4, Zenon
  <2>9. MergedOf(r)'
    BY <1>7, <2>3, <2>5, <2>6, <2>7, <2>8 DEF MergedOf, x
  <2>10. ASSUME NEW q \in Nodes, q # r PROVE MergedOf(q)'
    <3>1. /\ Done(q)' = Done(q) /\ pending'[q] = pending[q]
          /\ requires'[q] = requires[q] /\ extracted'[q] = extracted[q]
      BY <1>7, <1>8, <2>3, <2>10 DEF Done
    <3>2. MergedOf(q)
      BY <2>1 DEF MergedSoFar
    <3> QED BY <3>1, <3>2 DEF MergedOf
  <2>11. \A q \in Nodes' : MergedOf(q)'
    BY <1>7, <2>9, <2>10
  <2> QED BY <2>11 DEF MergedSoFar
<1>11. CallsInv'
  <2>1. calls' = << >>
    BY <1>1, <1>3 DEF CallsInv
  <2>2. \A k \in 1 .. Len(calls') : FALSE
    BY <2>1
  <2>3. \A k \in 2 .. Len(calls') : FALSE
    BY <2>1
  <2> QED BY <2>1, <2>2, <2>3 DEF CallsInv
<1>12. /\ cycles' = {} /\ phase' = "merge"
       /\ \A q \in Nodes' : creationOrder'[q] = << >> /\ cut'[q] = {}
  BY <1>1, <1>3, <1>7 DEF OrderInv
<1>13. OrderInv'
  <2>1. \A q \in Nodes' : OrderSoFar(q)'
    BY <1>12 DEF OrderSoFar
  <2> QED BY <1>12, <2>1 DEF OrderInv
<1>14. ValidateInv'
  BY <1>12 DEF ValidateInv
<1>15. extracted' \in Extractions
  BY <1>3 DEF GraphInv
<1> QED BY <1>9, <1>10, <1>11, <1>12, <1>13, <1>14, <1>15 DEF GraphInv

LEMMA ReversePreserves ==
  ASSUME GraphInv, Reverse
  PROVE  GraphInv'
<1>1. /\ phase = "merge" /\ \A r \in Nodes : pending[r] = << >>
      /\ requiredBy' = [p \in Resources |-> Dependents(p)]
      /\ phase' = "order" /\ roots' = Nodes
      /\ UNCHANGED <<pending, orderDepth, requires, creationOrder, cycles, calls, seen,
                     cut, extracted>>
  BY DEF Reverse
<1>2. /\ GraphTypeOK /\ OrderInv /\ CallsInv /\ MergedSoFar /\ extracted \in Extractions
      /\ Nodes' = Nodes /\ Edges' = Edges
  BY <1>1, SameEdges DEF GraphInv
<1>3. calls' = << >> /\ calls' = calls
  BY <1>1, <1>2 DEF CallsInv
<1>4. GraphTypeOK'
  <2>1. \A p \in Resources : Dependents(p) \subseteq Nodes
    BY DEF Dependents
  <2>2. requiredBy' \in [Resources -> SUBSET Nodes]
    BY <1>1, <2>1
  <2> QED BY <1>1, <1>2, <2>2 DEF GraphTypeOK
<1>5. MergedSoFar'
  <2>1. \A r : Done(r)' = Done(r)
    BY <1>1 DEF Done
  <2> QED BY <1>1, <1>2, <2>1 DEF MergedSoFar, MergedOf
<1>6. (requiredBy = [p \in Resources |-> Dependents(p)])'
  BY <1>1, <1>2 DEF Dependents
<1>7. CallsInv'
  <2>1. \A k \in 1 .. Len(calls') : FALSE
    BY <1>3
  <2>2. \A k \in 2 .. Len(calls') : FALSE
    BY <1>3
  <2> QED BY <1>3, <2>1, <2>2 DEF CallsInv
<1>8. /\ cycles' = {}
      /\ \A r \in Nodes : creationOrder'[r] = << >> /\ cut'[r] = {}
  BY <1>1, <1>2 DEF OrderInv
<1>9. OrderInv'
  <2>1. \A r \in Nodes : OrderSoFar(r)'
    BY <1>8 DEF OrderSoFar
  <2> QED BY <1>1, <1>2, <1>3, <1>8, <2>1 DEF OrderInv
<1>10. ValidateInv'
  BY <1>1, <1>8 DEF ValidateInv
<1> QED BY <1>1, <1>2, <1>4, <1>5, <1>6, <1>7, <1>9, <1>10 DEF GraphInv

-----------------------------------------------------------------------------
(* The walks of computeCreationOrder() *)

\* While the orders are made, no cycle is reported yet.
LEMMA WhileOrdering ==
  ASSUME GraphInv, phase = "order", phase' = "order", cycles' = cycles
  PROVE  /\ cycles = {} /\ ValidateInv'
         /\ \A r \in Nodes : OrderSoFar(r)
         /\ calls # << >> => OrderWalk(calls[1].key)
         /\ \A r \in roots : calls = << >> \/ r # calls[1].key =>
              creationOrder[r] = << >> /\ cut[r] = {}
         /\ \A r \in Nodes \ roots : OrderFinished(r)
<1>1. cycles = {}
  BY DEF GraphInv, OrderInv
<1>2. ValidateInv'
  BY <1>1 DEF ValidateInv
<1> QED BY <1>1, <1>2 DEF GraphInv, OrderInv

LEMMA OrderStartsPreserves ==
  ASSUME GraphInv, OrderStarts
  PROVE  GraphInv'
<1> DEFINE first == First(roots)
<1>1. WalkTypeOK /\ Nodes \subseteq Resources
  BY NodesAreResources
<1>2. PICK r \in roots : r = First(roots)
  <2>1. roots \in SUBSET Resources /\ roots # {}
    BY <1>1 DEF WalkTypeOK, OrderStarts
  <2> QED BY <2>1, FirstFound
<1>3. /\ phase = "order" /\ phase' = "order" /\ calls = << >> /\ seen' = {}
      /\ calls' = <<Open(r)>>
      /\ UNCHANGED <<pending, orderDepth, requires, requiredBy, creationOrder, cycles,
                     roots, cut, extracted>>
  BY <1>2 DEF OrderStarts
<1>4. r \in Resources /\ r \in Nodes /\ Nodes' = Nodes /\ Edges' = Edges
  BY <1>1, <1>2, <1>3, SameEdges DEF WalkTypeOK
<1>5. /\ calls' \in Seq(CallType) /\ Len(calls') = 1 /\ calls' # << >>
      /\ calls'[1].key = r /\ InProgress' = {r}
      /\ \A i, j \in 1 .. Len(calls') : calls'[i].key = calls'[j].key => i = j
      /\ \A p \in Resources : <<r, p>> \in Edges => p \in Todo(1)'
      /\ CallsInv'
  BY <1>3, <1>4, AfterStart
<1>6. WalkTypeOK'
  BY <1>1, <1>3, <1>4, <1>5 DEF WalkTypeOK
<1>7. OrderInv'
  <2>1. /\ \A q \in Nodes : OrderSoFar(q)
        /\ \A q \in roots : creationOrder[q] = << >> /\ cut[q] = {}
        /\ \A q \in Nodes \ roots : OrderFinished(q)
    BY <1>3, WhileOrdering
  <2>2. \A q \in Nodes : OrderSoFar(q)'
    BY <1>3, <1>4, <2>1 DEF OrderSoFar
  <2>3. \A q \in Nodes \ roots : OrderFinished(q)'
    BY <1>3, <1>4, <2>1 DEF OrderFinished
  <2>4. OrderWalk(r)'
    <3>1. creationOrder'[r] = << >> /\ ElementsOf(creationOrder'[r]) = {}
      BY <1>2, <1>3, <2>1 DEF ElementsOf
    <3>2. \A k \in 1 .. Len(calls') : k = 1
      BY <1>5
    <3> QED BY <1>2, <1>3, <1>4, <1>5, <3>1, <3>2 DEF OrderWalk
  <2>5. cycles' = {}
    BY <1>3, WhileOrdering
  <2> QED BY <1>3, <1>4, <1>5, <2>1, <2>2, <2>3, <2>4, <2>5 DEF OrderInv
<1> QED BY <1>3, <1>5, <1>6, <1>7, WhileOrdering, SameGraph

LEMMA OrderSkipsPreserves ==
  ASSUME GraphInv, NEW p, OrderSkips(p)
  PROVE  GraphInv'
<1>1. /\ phase = "order" /\ phase' = "order" /\ Turns(p) /\ calls' = Turned
      /\ Len(calls) > orderDepth \/ p \in InProgress \/ p \in seen
      /\ cut' = [cut EXCEPT ![calls[1].key] =
                   IF Len(calls) > orderDepth THEN @ \cup {Inner.key} ELSE @]
      /\ UNCHANGED <<pending, orderDepth, requires, requiredBy, creationOrder, cycles,
                     roots, seen, extracted>>
  BY DEF OrderSkips
<1>2. WalkTypeOK /\ Nodes \subseteq Resources /\ Nodes' = Nodes /\ Edges' = Edges
  BY <1>1, NodesAreResources, SameEdges
<1>3. /\ calls' \in Seq(CallType) /\ Len(calls') = Len(calls)
      /\ Len(calls) \in Nat \ {0} /\ calls' # << >>
      /\ \A k \in 1 .. Len(calls) : calls'[k].key = calls[k].key
      /\ \A i, j \in 1 .. Len(calls') : calls'[i].key = calls'[j].key => i = j
      /\ Inner = calls[Len(calls)] /\ Inner.key \in Resources
      /\ InProgress' = InProgress
      /\ \A k \in 1 .. Len(calls) : \A q : q \in Todo(k) =>
           q \in Todo(k)' \/ (k = Len(calls) /\ q = p)
      /\ CallsInv'
  BY <1>1, AfterTurn, Zenon
<1>4. PICK root \in Resources : root = calls[1].key
  BY <1>1, <1>3, NodesAreResources, PathKeys
<1>5. /\ calls # << >> /\ OrderWalk(root) /\ root \in Nodes /\ root \in roots
      /\ calls'[1].key = root
  <2>1. calls # << >>
    BY <1>1 DEF Turns
  <2>2. OrderWalk(root)
    BY <1>1, <1>4, <2>1, WhileOrdering
  <2> QED BY <1>2, <1>3, <1>4, <2>1, <2>2 DEF OrderWalk, WalkTypeOK
<1>6. /\ cut' \in [Nodes -> SUBSET Resources]
      /\ \A q \in Nodes : cut[q] \subseteq cut'[q]
      /\ \A q \in Nodes : q # root => cut'[q] = cut[q]
      /\ Len(calls) > orderDepth => Inner.key \in cut'[root]
  <2>1. cut \in [Nodes -> SUBSET Resources]
    BY <1>2 DEF WalkTypeOK
  <2>2. cut' = [cut EXCEPT ![root] =
                   IF Len(calls) > orderDepth THEN @ \cup {Inner.key} ELSE @]
    BY <1>1, <1>4
  <2> QED BY <1>3, <1>5, <2>1, <2>2
<1>7. WalkTypeOK'
  BY <1>1, <1>2, <1>3, <1>6 DEF WalkTypeOK
<1>8. OrderInv'
  <2>1. /\ \A q \in Nodes : OrderSoFar(q)
        /\ \A q \in roots : q # root => creationOrder[q] = << >> /\ cut[q] = {}
        /\ \A q \in Nodes \ roots : OrderFinished(q)
    BY <1>1, <1>4, <1>5, WhileOrdering
  <2>2. ASSUME NEW q \in Nodes PROVE OrderSoFar(q)'
    <3>1. OrderSoFar(q) /\ cut[q] \subseteq cut'[q]
      BY <1>6, <2>1
    <3> QED BY <1>1, <1>2, <3>1 DEF OrderSoFar
  <2>3. ASSUME NEW q \in Nodes \ roots PROVE OrderFinished(q)'
    <3>1. OrderFinished(q) /\ cut'[q] = cut[q]
      BY <1>5, <1>6, <2>1
    <3> QED BY <1>1, <1>2, <3>1 DEF OrderFinished
  <2>4. OrderWalk(root)'
    <3>1. ASSUME NEW k \in 1 .. Len(calls), NEW q \in Resources,
                 <<calls[k].key, q>> \in Edges
          PROVE  q \in Todo(k)' \cup seen \cup InProgress \/ calls[k].key \in cut'[root]
      <4>1. q \in Todo(k) \cup seen \cup InProgress \/ calls[k].key \in cut[root]
        BY <1>5, <3>1 DEF OrderWalk
      <4>2. CASE q \in Todo(k) /\ q \notin Todo(k)'
        <5>1. k = Len(calls) /\ q = p
          BY <1>3, <4>2
        <5>2. \/ calls[k].key \in cut'[root] \/ q \in InProgress \/ q \in seen
          BY <1>1, <1>3, <1>6, <5>1
        <5> QED BY <5>2
      <4>3. cut[root] \subseteq cut'[root]
        BY <1>5, <1>6
      <4> QED BY <4>1, <4>2, <4>3
    <3>2. \A x \in seen, q \in Resources : <<x, q>> \in Edges =>
            q \in seen \cup InProgress \/ x \in cut'[root]
      <4>1. cut[root] \subseteq cut'[root]
        BY <1>5, <1>6
      <4> QED BY <1>5, <4>1 DEF OrderWalk
    <3>3. root \in roots /\ seen = ElementsOf(creationOrder[root]) /\ seen \cap InProgress = {}
      BY <1>5 DEF OrderWalk
    <3> QED BY <1>1, <1>2, <1>3, <3>1, <3>2, <3>3 DEF OrderWalk
  <2>5. cycles' = {}
    BY <1>1, WhileOrdering
  <2>6. \A q \in roots : q # root => creationOrder'[q] = << >> /\ cut'[q] = {}
    BY <1>1, <1>2, <1>6, <2>1 DEF WalkTypeOK
  <2> QED BY <1>1, <1>2, <1>3, <1>5, <2>2, <2>3, <2>4, <2>5, <2>6 DEF OrderInv
<1> QED BY <1>1, <1>3, <1>7, <1>8, WhileOrdering, SameGraph

LEMMA OrderDescendsPreserves ==
  ASSUME GraphInv, NEW p, OrderDescends(p)
  PROVE  GraphInv'
<1> DEFINE n == Len(calls)
<1>1. /\ phase = "order" /\ phase' = "order" /\ Turns(p)
      /\ calls' = Append(Turned, Open(p)) /\ p \notin InProgress /\ p \notin seen
      /\ UNCHANGED <<pending, orderDepth, requires, requiredBy, creationOrder, cycles,
                     roots, seen, cut, extracted>>
  BY DEF OrderDescends
<1>2. WalkTypeOK /\ Nodes \subseteq Resources /\ Nodes' = Nodes /\ Edges' = Edges
  BY <1>1, NodesAreResources, SameEdges
<1>3. /\ calls' \in Seq(CallType) /\ Len(calls') = n + 1
      /\ n \in Nat \ {0} /\ calls' # << >>
      /\ \A k \in 1 .. n : calls'[k].key = calls[k].key
      /\ calls'[n + 1].key = p
      /\ \A i, j \in 1 .. Len(calls') : calls'[i].key = calls'[j].key => i = j
      /\ p \in Resources
      /\ InProgress' = InProgress \cup {p}
      /\ \A k \in 1 .. n : \A q : q \in Todo(k) => q \in Todo(k)' \/ (k = n /\ q = p)
      /\ \A k, q : k = n + 1 /\ <<p, q>> \in Edges => q \in Todo(k)'
      /\ CallsInv'
  BY <1>1, AfterDescent, Zenon
<1>4. PICK root \in Resources : root = calls[1].key
  BY <1>1, <1>3, NodesAreResources, PathKeys
<1>5. /\ calls # << >> /\ OrderWalk(root) /\ calls'[1].key = root
  <2>1. calls # << >>
    BY <1>1 DEF Turns
  <2> QED BY <1>1, <1>3, <1>4, <2>1, WhileOrdering
<1>6. WalkTypeOK'
  BY <1>1, <1>2, <1>3 DEF WalkTypeOK
<1>7. OrderInv'
  <2>1. /\ \A q \in Nodes : OrderSoFar(q)
        /\ \A q \in roots : q # root => creationOrder[q] = << >> /\ cut[q] = {}
        /\ \A q \in Nodes \ roots : OrderFinished(q)
    BY <1>1, <1>4, <1>5, WhileOrdering
  <2>2. \A q \in Nodes : OrderSoFar(q)'
    BY <1>1, <1>2, <2>1 DEF OrderSoFar
  <2>3. \A q \in Nodes \ roots : OrderFinished(q)'
    BY <1>1, <1>2, <2>1 DEF OrderFinished
  <2>4. OrderWalk(root)'
    <3>1. ASSUME NEW k \in 1 .. n + 1, NEW q \in Resources,
                 <<calls'[k].key, q>> \in Edges
          PROVE  q \in Todo(k)' \cup seen \cup InProgress' \/ calls'[k].key \in cut[root]
      <4>1. CASE k = n + 1
        BY <1>3, <3>1, <4>1
      <4>2. CASE k # n + 1
        <5>1. k \in 1 .. n /\ calls'[k].key = calls[k].key
          BY <1>3, <4>2
        <5>2. q \in Todo(k) \cup seen \cup InProgress \/ calls[k].key \in cut[root]
          BY <1>5, <3>1, <5>1 DEF OrderWalk
        <5>3. q \in Todo(k) => q \in Todo(k)' \/ q = p
          BY <1>3, <5>1
        <5> QED BY <1>3, <5>1, <5>2, <5>3
      <4> QED BY <4>1, <4>2
    <3>2. \A x \in seen, q \in Resources : <<x, q>> \in Edges =>
            q \in seen \cup InProgress' \/ x \in cut[root]
      BY <1>3, <1>5 DEF OrderWalk
    <3>3. /\ root \in roots /\ seen = ElementsOf(creationOrder[root])
          /\ seen \cap InProgress' = {}
      BY <1>1, <1>3, <1>5 DEF OrderWalk
    <3> QED BY <1>1, <1>2, <1>3, <3>1, <3>2, <3>3 DEF OrderWalk
  <2>5. cycles' = {}
    BY <1>1, WhileOrdering
  <2> QED BY <1>1, <1>2, <1>3, <1>5, <2>1, <2>2, <2>3, <2>4, <2>5 DEF OrderInv
<1> QED BY <1>1, <1>3, <1>6, <1>7, WhileOrdering, SameGraph

\* A resource whose references are done goes to the end of the order that is being made.
LEMMA OrderReturnsPreserves ==
  ASSUME GraphInv, OrderReturns
  PROVE  GraphInv'
<1> DEFINE C == Closure(Edges)
<1>1. /\ phase = "order" /\ phase' = "order" /\ calls # << >> /\ Inner.todo = << >>
      /\ calls' = Outer /\ seen' = seen \cup {Inner.key}
      /\ creationOrder' = [creationOrder EXCEPT ![calls[1].key] = Append(@, Inner.key)]
      /\ roots' = IF Outer = << >> THEN roots \ {Inner.key} ELSE roots
      /\ UNCHANGED <<pending, orderDepth, requires, requiredBy, cycles, cut, extracted>>
  BY DEF OrderReturns
<1>2. /\ WalkTypeOK /\ Nodes \subseteq Resources /\ Nodes' = Nodes /\ Edges' = Edges
      /\ GraphTypeOK /\ CallsInv
  BY <1>1, NodesAreResources, SameEdges
<1>3. PICK n \in Nat \ {0} :
      /\ n = Len(calls)
      /\ calls' \in Seq(CallType) /\ Len(calls') = n - 1
      /\ Outer = << >> <=> n = 1
      /\ \A k \in 1 .. n - 1 : calls'[k] = calls[k]
      /\ \A i, j \in 1 .. Len(calls') : calls'[i].key = calls'[j].key => i = j
      /\ Inner = calls[n] /\ Inner.key \in Resources
      /\ Inner.key \notin InProgress' /\ InProgress = InProgress' \cup {Inner.key}
      /\ Todo(n) = {} /\ \A k \in 1 .. n - 1 : Todo(k)' = Todo(k)
      /\ CallsInv'
  BY <1>1, AfterReturn, Zenon
<1>4. PICK root \in Resources : root = calls[1].key
  BY <1>3, <1>2, PathKeys
<1>5. PICK key \in Resources : key = Inner.key
  BY <1>3
<1>6. OrderWalk(root) /\ root \in Nodes /\ root \in roots
  <2>1. OrderWalk(root)
    BY <1>1, <1>4, WhileOrdering
  <2> QED BY <1>2, <2>1 DEF OrderWalk, WalkTypeOK
<1>7. PICK order \in Seq(Resources) : order = creationOrder[root]
  BY <1>2, <1>6 DEF WalkTypeOK
<1> DEFINE len == Len(order)
           longer == Append(order, key)
<1>8. /\ len \in Nat /\ longer \in Seq(Resources) /\ Len(longer) = len + 1
      /\ longer[len + 1] = key /\ \A i \in 1 .. len : longer[i] = order[i]
  BY AppendProperties
<1>9. /\ creationOrder' \in [Nodes -> Seq(Resources)] /\ creationOrder'[root] = longer
      /\ \A q \in Nodes : q # root => creationOrder'[q] = creationOrder[q]
  <2>1. creationOrder' = [creationOrder EXCEPT ![root] = longer]
    BY <1>1, <1>4, <1>5, <1>7
  <2>2. creationOrder \in [Nodes -> Seq(Resources)]
    BY <1>2 DEF WalkTypeOK
  <2> HIDE DEF longer
  <2> QED BY <1>6, <1>8, <2>1, <2>2
<1> HIDE DEF len, longer
<1>10. \A i \in 1 .. len + 1 : i = len + 1 \/ i \in 1 .. len
  BY <1>8
<1>11. 1 .. len \subseteq 1 .. len + 1 /\ len + 1 \in 1 .. len + 1
  BY <1>8
<1>12. /\ seen = {order[i] : i \in 1 .. len}
       /\ seen' = {longer[i] : i \in 1 .. len + 1}
       /\ key \notin seen /\ key \in InProgress
  <2>1. seen = {order[i] : i \in 1 .. len} /\ seen \cap InProgress = {}
    BY <1>6, <1>7 DEF OrderWalk, ElementsOf, len
  <2>2. key \in InProgress /\ key \notin seen /\ seen' = seen \cup {key}
    BY <1>1, <1>3, <1>5, <2>1
  <2>3. seen' = {longer[i] : i \in 1 .. len + 1}
    BY <1>8, <1>10, <1>11, <2>1, <2>2
  <2> QED BY <2>1, <2>2, <2>3
<1>13. \A p \in Resources : <<key, p>> \in Edges =>
         p \in seen \cup InProgress \/ key \in cut[root]
  <2>1. n \in 1 .. Len(calls) /\ calls[n].key = key
    BY <1>3, <1>5
  <2> QED BY <1>3, <1>6, <2>1 DEF OrderWalk
<1>14. WalkTypeOK'
  <2>1. roots' \subseteq Nodes /\ seen' \subseteq Resources
    BY <1>1, <1>2, <1>3 DEF WalkTypeOK
  <2> QED BY <1>1, <1>2, <1>3, <1>9, <2>1 DEF WalkTypeOK
<1>15. /\ \A q \in Nodes : OrderSoFar(q)
       /\ \A q \in roots : q # root => creationOrder[q] = << >> /\ cut[q] = {}
       /\ \A q \in Nodes \ roots : OrderFinished(q)
  BY <1>1, <1>4, <1>6, WhileOrdering
<1>16. /\ \A i, j \in 1 .. len : order[i] = order[j] => i = j
       /\ \A i \in 1 .. len : order[i] = root \/ <<root, order[i]>> \in C
       /\ \A i \in 1 .. len, p \in Resources : <<order[i], p>> \in Edges =>
            \/ \E j \in 1 .. i : order[j] = p
            \/ order[i] \in cut[root]
            \/ <<p, order[i]>> \in C
  BY <1>6, <1>7, <1>15 DEF OrderSoFar, len
<1>17. key = root \/ <<root, key>> \in C
  <2>1. CASE n = 1
    BY <1>3, <1>4, <1>5, <2>1
  <2>2. CASE n # 1
    <3>1. 1 \in 1 .. Len(calls) /\ n \in 1 .. Len(calls) /\ 1 < n
      BY <1>3, <2>2
    <3> QED BY <1>2, <1>3, <1>4, <1>5, <3>1, PathReaches
  <2> QED BY <2>1, <2>2
<1> HIDE DEF C
<1>18. OrderSoFar(root)'
  <2>1. \A i, j \in 1 .. len + 1 : longer[i] = longer[j] => i = j
    <3>1. \A i \in 1 .. len : longer[i] # key
      BY <1>8, <1>12
    <3> QED BY <1>8, <1>10, <1>16, <3>1
  <2>2. \A i \in 1 .. len + 1 : longer[i] = root \/ <<root, longer[i]>> \in C
    BY <1>8, <1>10, <1>16, <1>17
  <2>3. ASSUME NEW i \in 1 .. len + 1, NEW p \in Resources, <<longer[i], p>> \in Edges
        PROVE  \/ \E j \in 1 .. i : longer[j] = p
               \/ longer[i] \in cut[root]
               \/ <<p, longer[i]>> \in C
    <3>1. CASE i \in 1 .. len
      <4>1. longer[i] = order[i]
        BY <1>8, <3>1
      <4>2. ASSUME NEW j \in 1 .. i, order[j] = p PROVE longer[j] = p
        <5>1. j \in 1 .. len
          BY <1>8, <3>1
        <5> QED BY <1>8, <4>2, <5>1
      <4> QED BY <1>16, <2>3, <3>1, <4>1, <4>2
    <3>2. CASE i = len + 1
      <4>1. longer[i] = key /\ (p \in seen \cup InProgress \/ key \in cut[root])
        BY <1>8, <1>13, <2>3, <3>2
      <4>2. CASE p \in seen
        <5>1. PICK j \in 1 .. len : order[j] = p
          BY <1>12, <4>2
        <5>2. j \in 1 .. i /\ longer[j] = p
          BY <1>8, <3>2, <5>1
        <5> QED BY <5>2
      <4>3. CASE p = key
        <5>1. i \in 1 .. i /\ longer[i] = p
          BY <1>8, <3>2, <4>1, <4>3
        <5> QED BY <5>1
      <4>4. CASE p \in InProgress /\ p # key
        <5>1. PICK k \in 1 .. Len(calls) : p = calls[k].key
          BY <1>2, <4>4, PathKeys
        <5>2. n \in 1 .. Len(calls) /\ k < n
          BY <1>3, <1>5, <4>4, <5>1
        <5>3. <<p, key>> \in C
          BY <1>2, <1>3, <1>5, <5>1, <5>2, PathReaches DEF C
        <5> QED BY <4>1, <5>3
      <4> QED BY <4>1, <4>2, <4>3, <4>4
    <3> QED BY <1>10, <3>1, <3>2
  <2>4. /\ creationOrder'[root] = longer /\ Len(longer) = len + 1
        /\ cut' = cut /\ Edges' = Edges
    BY <1>1, <1>2, <1>8, <1>9
  <2>5. Closure(Edges)' = C
    BY <2>4 DEF C
  <2> QED BY <2>1, <2>2, <2>3, <2>4, <2>5 DEF OrderSoFar
<1>19. ASSUME NEW q \in Nodes PROVE OrderSoFar(q)'
  <2>1. CASE q = root
    BY <1>18, <2>1
  <2>2. CASE q # root
    <3>1. creationOrder'[q] = creationOrder[q] /\ OrderSoFar(q)
      BY <1>9, <1>15, <2>2
    <3>2. cut' = cut /\ Edges' = Edges
      BY <1>1, <1>2
    <3> QED BY <3>1, <3>2 DEF OrderSoFar
  <2> QED BY <2>1, <2>2
<1>20. ASSUME NEW q \in Nodes \ roots PROVE OrderFinished(q)'
  <2>1. creationOrder'[q] = creationOrder[q] /\ OrderFinished(q)
    BY <1>6, <1>9, <1>15
  <2> QED BY <1>1, <1>2, <2>1 DEF OrderFinished
<1>21. \A x \in seen', p \in Resources : <<x, p>> \in Edges =>
         p \in seen' \cup InProgress' \/ x \in cut[root]
  <2>1. \A x \in seen, p \in Resources : <<x, p>> \in Edges =>
          p \in seen \cup InProgress \/ x \in cut[root]
    BY <1>6 DEF OrderWalk
  <2>2. seen \cup InProgress = seen' \cup InProgress' /\ seen' = seen \cup {key}
    BY <1>1, <1>3, <1>5
  <2> QED BY <1>13, <2>1, <2>2
<1>22. ASSUME n # 1 PROVE OrderWalk(root)' /\ roots' = roots /\ calls'[1].key = root
  <2>1. roots' = roots /\ calls'[1] = calls[1]
    BY <1>1, <1>3, <1>22
  <2>2. seen' = ElementsOf(creationOrder'[root])
    BY <1>8, <1>9, <1>12 DEF ElementsOf
  <2>3. seen' \cap InProgress' = {}
    <3>1. seen \cap InProgress = {}
      BY <1>6 DEF OrderWalk
    <3> QED BY <1>1, <1>3, <3>1
  <2>4. ASSUME NEW k \in 1 .. Len(calls'), NEW p \in Resources, <<calls'[k].key, p>> \in Edges
        PROVE  p \in Todo(k)' \cup seen' \cup InProgress' \/ calls'[k].key \in cut[root]
    <3>1. k \in 1 .. n - 1 /\ k \in 1 .. Len(calls) /\ calls'[k] = calls[k]
      BY <1>3
    <3>2. p \in Todo(k) \cup seen \cup InProgress \/ calls[k].key \in cut[root]
      BY <1>6, <2>4, <3>1 DEF OrderWalk
    <3>3. Todo(k)' = Todo(k) /\ seen \cup InProgress = seen' \cup InProgress'
      BY <1>1, <1>3, <3>1
    <3> QED BY <3>1, <3>2, <3>3
  <2> QED BY <1>1, <1>2, <1>4, <1>6, <1>21, <2>1, <2>2, <2>3, <2>4 DEF OrderWalk
<1>23. ASSUME n = 1 PROVE OrderFinished(root)' /\ roots' = roots \ {root} /\ calls' = << >>
  <2>1. key = root /\ roots' = roots \ {root} /\ calls' = << >>
    BY <1>1, <1>3, <1>4, <1>5, <1>23
  <2>2. InProgress' = {}
    BY <2>1 DEF InProgress, Path, ElementsOf
  <2>3. /\ Len(longer) = len + 1 /\ longer # << >> /\ longer[Len(longer)] = root
        /\ ElementsOf(longer) = seen'
    BY <1>8, <1>12, <2>1 DEF ElementsOf
  <2>4. cut[root] = {} => \A x \in ElementsOf(longer), p \in Resources :
          <<x, p>> \in Edges => p \in ElementsOf(longer)
    BY <1>21, <2>2, <2>3
  <2> QED BY <1>1, <1>2, <1>9, <2>1, <2>3, <2>4 DEF OrderFinished
<1>24. OrderInv'
  <2>1. cycles' = {}
    BY <1>1, WhileOrdering
  <2>2. \A q \in roots' : q # root => creationOrder'[q] = << >> /\ cut'[q] = {}
    <3>1. \A q \in roots' : q \in roots /\ q \in Nodes
      BY <1>1, <1>2 DEF WalkTypeOK
    <3> QED BY <1>1, <1>9, <1>15, <3>1
  <2>3. CASE n = 1
    <3>1. \A q \in Nodes \ roots' : OrderFinished(q)'
      BY <1>20, <1>23, <2>3
    <3>2. root \notin roots' /\ calls' = << >>
      BY <1>23, <2>3
    <3> QED BY <1>1, <1>2, <1>19, <2>1, <2>2, <3>1, <3>2 DEF OrderInv
  <2>4. CASE n # 1
    <3>1. \A q \in Nodes \ roots' : OrderFinished(q)'
      BY <1>20, <1>22, <2>4
    <3>2. OrderWalk(root)' /\ calls'[1].key = root
      BY <1>22, <2>4
    <3>3. phase' = "order" /\ Nodes' = Nodes /\ \A q \in Nodes : OrderSoFar(q)'
      BY <1>1, <1>2, <1>19
    <3>4. calls' # << >>
      BY <1>3, <2>4
    <3> QED BY <2>1, <2>2, <3>1, <3>2, <3>3, <3>4 DEF OrderInv
  <2> QED BY <2>3, <2>4
<1> QED BY <1>1, <1>3, <1>14, <1>24, WhileOrdering, SameGraph

LEMMA OrderEndsPreserves ==
  ASSUME GraphInv, OrderEnds
  PROVE  GraphInv'
<1>1. /\ phase = "order" /\ calls = << >> /\ roots = {}
      /\ phase' = "validate" /\ roots' = Nodes /\ seen' = {}
      /\ UNCHANGED <<pending, orderDepth, requires, requiredBy, creationOrder, cycles,
                     calls, cut, extracted>>
  BY DEF OrderEnds
<1>2. /\ WalkTypeOK /\ Nodes' = Nodes /\ Edges' = Edges /\ OrderInv
      /\ \A k \in 1 .. Len(calls') : FALSE
  BY <1>1, NodesAreResources, SameEdges
<1>3. WalkTypeOK'
  BY <1>1, <1>2 DEF WalkTypeOK
<1>4. CallsInv'
  <2>1. \A k \in 2 .. Len(calls') : FALSE
    BY <1>1
  <2> QED BY <1>1, <1>2, <2>1 DEF CallsInv
<1>5. cycles = {} /\ \A q \in Nodes : OrderSoFar(q) /\ OrderFinished(q)
  BY <1>1, <1>2 DEF OrderInv
<1>6. OrderInv'
  <2>1. \A q \in Nodes : OrderSoFar(q)' /\ OrderFinished(q)'
    BY <1>1, <1>2, <1>5 DEF OrderSoFar, OrderFinished
  <2> QED BY <1>1, <1>2, <2>1 DEF OrderInv
<1>7. ValidateInv'
  <2>1. InProgress' = {} /\ Finished' = {}
    BY <1>1 DEF InProgress, Path, ElementsOf, Finished
  <2> QED BY <1>1, <1>2, <1>5, <2>1 DEF ValidateInv
<1> QED BY <1>1, <1>3, <1>4, <1>6, <1>7, SameGraph

-----------------------------------------------------------------------------
(* The walks of validateGraph() *)

\* What validateGraph() finds and leaves alone.
LEMMA WhileValidating ==
  ASSUME GraphInv, phase = "validate", phase' \in {"validate", "built"},
         UNCHANGED <<requires, creationOrder, cut>>
  PROVE  /\ Nodes' = Nodes /\ Edges' = Edges /\ WalkTypeOK /\ Nodes \subseteq Resources
         /\ OrderInv'
         /\ \A c \in cycles : CycleOf(c)
         /\ roots = Nodes /\ InProgress \subseteq seen
         /\ \A x \in Finished : <<x, x>> \notin Closure(Left)
         /\ \A x \in Finished, p \in Resources : <<x, p>> \in Left => p \in Finished
         /\ \A k \in 1 .. Len(calls), p \in Resources : <<calls[k].key, p>> \in Left =>
              \/ p \in Todo(k) \cup Finished
              \/ k < Len(calls) /\ p = calls[k + 1].key
<1>1. /\ Nodes' = Nodes /\ Edges' = Edges /\ WalkTypeOK /\ Nodes \subseteq Resources
      /\ OrderInv /\ ValidateInv
  BY NodesAreResources, SameEdges
<1>2. \A r \in Nodes : OrderSoFar(r) /\ OrderFinished(r)
  BY <1>1 DEF OrderInv
<1>3. \A r \in Nodes : OrderSoFar(r)' /\ OrderFinished(r)'
  BY <1>1, <1>2 DEF OrderSoFar, OrderFinished
<1>4. OrderInv'
  BY <1>1, <1>3 DEF OrderInv
<1> QED BY <1>1, <1>4 DEF ValidateInv

LEMMA ValidateStartsPreserves ==
  ASSUME GraphInv, ValidateStarts
  PROVE  GraphInv'
<1>1. PICK r \in roots \ seen : r = First(roots \ seen)
  <2>1. roots \ seen \in SUBSET Resources /\ roots \ seen # {}
    BY NodesAreResources DEF WalkTypeOK, ValidateStarts
  <2> QED BY <2>1, FirstFound
<1>2. /\ phase = "validate" /\ phase' = "validate" /\ calls = << >>
      /\ calls' = <<Open(r)>> /\ seen' = seen \cup {r}
      /\ UNCHANGED <<pending, orderDepth, requires, requiredBy, creationOrder, cycles,
                     roots, cut, extracted>>
  BY <1>1 DEF ValidateStarts
<1>3. /\ Nodes' = Nodes /\ Edges' = Edges /\ WalkTypeOK /\ Nodes \subseteq Resources
      /\ OrderInv'
      /\ \A c \in cycles : CycleOf(c)
      /\ roots = Nodes
      /\ \A x \in Finished : <<x, x>> \notin Closure(Left)
      /\ \A x \in Finished, p \in Resources : <<x, p>> \in Left => p \in Finished
  BY <1>2, WhileValidating
<1>4. r \in Resources
  BY <1>1, <1>3
<1>5. /\ calls' \in Seq(CallType) /\ Len(calls') = 1 /\ calls' # << >>
      /\ calls'[1].key = r /\ InProgress' = {r}
      /\ \A i, j \in 1 .. Len(calls') : calls'[i].key = calls'[j].key => i = j
      /\ \A p \in Resources : <<r, p>> \in Edges => p \in Todo(1)'
      /\ CallsInv'
  BY <1>2, <1>4, AfterStart
<1>6. WalkTypeOK'
  BY <1>2, <1>3, <1>4, <1>5 DEF WalkTypeOK
<1>7. ValidateInv'
  <2>1. Left' = Left /\ Left \subseteq Edges
    BY <1>2, <1>3 DEF Left, LastEdges
  <2>2. Finished' = Finished
    <3>1. InProgress = {}
      BY <1>2, NoCalls
    <3> QED BY <1>1, <1>2, <1>5, <3>1 DEF Finished
  <2>3. \A c \in cycles' : CycleOf(c)'
    BY <1>2, <1>3 DEF CycleOf
  <2>4. \A k \in 1 .. Len(calls') : k = 1
    BY <1>5
  <2>5. \A k \in 1 .. Len(calls'), p \in Resources : <<calls'[k].key, p>> \in Left =>
          p \in Todo(k)'
    BY <1>5, <2>1, <2>4
  <2>6. roots' = Nodes' /\ InProgress' \subseteq seen'
    BY <1>2, <1>3, <1>5
  <2>7. Closure(Left)' = Closure(Left)
    BY <2>1
  <2> QED BY <1>2, <1>3, <2>1, <2>2, <2>3, <2>5, <2>6, <2>7 DEF ValidateInv
<1> QED BY <1>2, <1>3, <1>5, <1>6, <1>7, SameGraph

LEMMA ValidateSkipsPreserves ==
  ASSUME GraphInv, NEW p, ValidateSkips(p)
  PROVE  GraphInv'
<1>1. /\ phase = "validate" /\ phase' = "validate" /\ Turns(p) /\ calls' = Turned
      /\ p \notin InProgress /\ p \in seen
      /\ UNCHANGED <<pending, orderDepth, requires, requiredBy, creationOrder, cycles,
                     roots, seen, cut, extracted>>
  BY DEF ValidateSkips
<1>2. /\ Nodes' = Nodes /\ Edges' = Edges /\ WalkTypeOK /\ Nodes \subseteq Resources
      /\ OrderInv'
      /\ \A c \in cycles : CycleOf(c)
      /\ roots = Nodes /\ InProgress \subseteq seen
      /\ \A x \in Finished : <<x, x>> \notin Closure(Left)
      /\ \A x \in Finished, q \in Resources : <<x, q>> \in Left => q \in Finished
      /\ \A k \in 1 .. Len(calls), q \in Resources : <<calls[k].key, q>> \in Left =>
           \/ q \in Todo(k) \cup Finished
           \/ k < Len(calls) /\ q = calls[k + 1].key
  BY <1>1, WhileValidating
<1>3. /\ calls' \in Seq(CallType) /\ Len(calls') = Len(calls)
      /\ Len(calls) \in Nat \ {0}
      /\ \A k \in 1 .. Len(calls) : calls'[k].key = calls[k].key
      /\ \A i, j \in 1 .. Len(calls') : calls'[i].key = calls'[j].key => i = j
      /\ InProgress' = InProgress
      /\ \A k \in 1 .. Len(calls) : \A q : q \in Todo(k) =>
           q \in Todo(k)' \/ (k = Len(calls) /\ q = p)
      /\ CallsInv'
  BY <1>1, AfterTurn, Zenon
<1>4. WalkTypeOK'
  BY <1>1, <1>2, <1>3 DEF WalkTypeOK
<1>5. ValidateInv'
  <2>1. Left' = Left /\ Finished' = Finished /\ p \in Finished
    BY <1>1, <1>2, <1>3 DEF Left, LastEdges, Finished
  <2>2. \A c \in cycles' : CycleOf(c)'
    BY <1>1, <1>2 DEF CycleOf
  <2>3. ASSUME NEW k \in 1 .. Len(calls'), NEW q \in Resources,
               <<calls'[k].key, q>> \in Left
        PROVE  \/ q \in Todo(k)' \cup Finished
               \/ k < Len(calls') /\ q = calls'[k + 1].key
    <3>1. k \in 1 .. Len(calls) /\ calls'[k].key = calls[k].key
      BY <1>3
    <3>2. CASE q \in Todo(k) \cup Finished
      BY <1>3, <2>1, <3>1, <3>2
    <3>3. CASE k < Len(calls) /\ q = calls[k + 1].key
      <4>1. k + 1 \in 1 .. Len(calls)
        BY <1>3, <3>1, <3>3
      <4> QED BY <1>3, <3>3, <4>1
    <3> QED BY <1>2, <2>3, <3>1, <3>2, <3>3
  <2>4. roots' = Nodes' /\ InProgress' \subseteq seen'
    BY <1>1, <1>2, <1>3
  <2>5. Closure(Left)' = Closure(Left)
    BY <2>1
  <2> QED BY <1>1, <1>2, <2>1, <2>2, <2>3, <2>4, <2>5 DEF ValidateInv
<1> QED BY <1>1, <1>2, <1>3, <1>4, <1>5, SameGraph

LEMMA ValidateDescendsPreserves ==
  ASSUME GraphInv, NEW p, ValidateDescends(p)
  PROVE  GraphInv'
<1> DEFINE n == Len(calls)
<1>1. /\ phase = "validate" /\ phase' = "validate" /\ Turns(p)
      /\ calls' = Append(Turned, Open(p)) /\ p \notin InProgress /\ p \notin seen
      /\ seen' = seen \cup {p}
      /\ UNCHANGED <<pending, orderDepth, requires, requiredBy, creationOrder, cycles,
                     roots, cut, extracted>>
  BY DEF ValidateDescends
<1>2. /\ Nodes' = Nodes /\ Edges' = Edges /\ WalkTypeOK /\ Nodes \subseteq Resources
      /\ OrderInv'
      /\ \A c \in cycles : CycleOf(c)
      /\ roots = Nodes /\ InProgress \subseteq seen
      /\ \A x \in Finished : <<x, x>> \notin Closure(Left)
      /\ \A x \in Finished, q \in Resources : <<x, q>> \in Left => q \in Finished
      /\ \A k \in 1 .. Len(calls), q \in Resources : <<calls[k].key, q>> \in Left =>
           \/ q \in Todo(k) \cup Finished
           \/ k < Len(calls) /\ q = calls[k + 1].key
  BY <1>1, WhileValidating
<1>3. /\ calls' \in Seq(CallType) /\ Len(calls') = n + 1
      /\ n \in Nat \ {0}
      /\ \A k \in 1 .. n : calls'[k].key = calls[k].key
      /\ calls'[n + 1].key = p
      /\ \A i, j \in 1 .. Len(calls') : calls'[i].key = calls'[j].key => i = j
      /\ p \in Resources
      /\ InProgress' = InProgress \cup {p}
      /\ \A k \in 1 .. n : \A q : q \in Todo(k) => q \in Todo(k)' \/ (k = n /\ q = p)
      /\ \A k, q : k = n + 1 /\ <<p, q>> \in Edges => q \in Todo(k)'
      /\ CallsInv'
  BY <1>1, AfterDescent, Zenon
<1>4. WalkTypeOK'
  BY <1>1, <1>2, <1>3 DEF WalkTypeOK
<1>5. ValidateInv'
  <2>1. Left' = Left /\ Finished' = Finished /\ Left \subseteq Edges
    BY <1>1, <1>2, <1>3 DEF Left, LastEdges, Finished
  <2>2. \A c \in cycles' : CycleOf(c)'
    BY <1>1, <1>2 DEF CycleOf
  <2>3. ASSUME NEW k \in 1 .. Len(calls'), NEW q \in Resources,
               <<calls'[k].key, q>> \in Left
        PROVE  \/ q \in Todo(k)' \cup Finished
               \/ k < Len(calls') /\ q = calls'[k + 1].key
    <3>1. CASE k = n + 1
      BY <1>3, <2>1, <2>3, <3>1
    <3>2. CASE k # n + 1
      <4>1. k \in 1 .. n /\ calls'[k].key = calls[k].key
        BY <1>3, <3>2
      <4>2. CASE q \in Todo(k) \cup Finished
        <5>1. q \in Todo(k)' \cup Finished \/ (k = n /\ q = p)
          BY <1>3, <4>1, <4>2
        <5>2. n < n + 1
          BY <1>3
        <5> QED BY <1>3, <5>1, <5>2
      <4>3. CASE k < n /\ q = calls[k + 1].key
        <5>1. k + 1 \in 1 .. n /\ k < n + 1
          BY <1>3, <4>1, <4>3
        <5> QED BY <1>3, <4>3, <5>1
      <4> QED BY <1>2, <2>3, <4>1, <4>2, <4>3
    <3> QED BY <3>1, <3>2
  <2>4. roots' = Nodes' /\ InProgress' \subseteq seen'
    BY <1>1, <1>2, <1>3
  <2>5. Closure(Left)' = Closure(Left)
    BY <2>1
  <2> QED BY <1>1, <1>2, <2>1, <2>2, <2>3, <2>4, <2>5 DEF ValidateInv
<1> QED BY <1>1, <1>2, <1>3, <1>4, <1>5, SameGraph

\* The path from the open call for p on, with the reference back to it, is a cycle.
LEMMA PathClosed ==
  ASSUME GraphInv, NEW p \in InProgress, <<Inner.key, p>> \in Edges,
         NEW from \in 1 .. Len(Path), Path[from] = p
  PROVE  LET c == Append(SubSeq(Path, from, Len(Path)), p)
         IN  c \in Seq(Resources) /\ CycleOf(c) /\ c[Len(c) - 1] = Inner.key /\ c[Len(c)] = p
<1> DEFINE n == Len(Path)
           tail == SubSeq(Path, from, n)
           c == Append(tail, p)
           len == n - from + 1
<1>1. /\ Path \in Seq(Resources) /\ n = Len(calls) /\ n \in Nat
      /\ \A k \in 1 .. n : Path[k] = calls[k].key /\ calls[k].key \in Resources
      /\ CallsInv
  BY NodesAreResources, PathKeys
<1>2. p \in Resources
  BY <1>1
<1>3. /\ tail \in Seq(Resources) /\ Len(tail) = len
      /\ \A i \in 1 .. len : tail[i] = Path[from + i - 1]
      /\ len \in Nat \ {0}
  <2>1. from \in Int /\ n \in Int /\ from <= n /\ \A i \in from .. n : Path[i] \in Resources
    BY <1>1
  <2>2. tail \in Seq(Resources) /\ Len(tail) = IF from <= n THEN n - from + 1 ELSE 0
    BY <2>1, SubSeqProperties
  <2>3. \A i \in 1 .. n - from + 1 : tail[i] = Path[from + i - 1]
    BY <2>1, SubSeqProperties
  <2> QED BY <2>1, <2>2, <2>3
<1>11. /\ len = n - from + 1 /\ from \in Nat \ {0} /\ from <= n
       /\ n \in Nat /\ len \in Nat
  BY <1>1, <1>3
<1> HIDE DEF tail, len
<1>4. /\ c \in Seq(Resources) /\ Len(c) = len + 1 /\ c[len + 1] = p
      /\ \A i \in 1 .. len : c[i] = tail[i]
  BY <1>2, <1>3, AppendProperties
<1> HIDE DEF c, n
<1>5. \A i \in 1 .. len : c[i] = Path[from + i - 1] /\ from + i - 1 \in 1 .. n
  BY <1>1, <1>3, <1>4, <1>11
<1>6. c[1] = p /\ c[len] = Inner.key
  <2>1. 1 \in 1 .. len /\ len \in 1 .. len /\ from + 1 - 1 = from /\ from + len - 1 = n
    BY <1>1, <1>3, <1>11
  <2>2. c[1] = Path[from] /\ c[len] = Path[n]
    BY <1>5, <2>1, <1>11
  <2>3. n \in 1 .. n
    BY <1>1, <1>11
  <2> QED BY <1>1, <2>2, <2>3 DEF Inner
<1>7. ASSUME NEW i \in 1 .. len PROVE <<c[i], c[i + 1]>> \in Edges
  <2>1. CASE i = len
    BY <1>4, <1>6, <2>1
  <2>2. CASE i # len
    <3>1. i + 1 \in 1 .. len /\ from + i \in 2 .. n /\ from + (i + 1) - 1 = from + i
      BY <1>11, <2>2
    <3>2. c[i] = Path[from + i - 1] /\ c[i + 1] = Path[from + i]
      BY <1>5, <3>1
    <3>3. <<calls[from + i - 1].key, calls[from + i].key>> \in Edges
      BY <1>1, <3>1 DEF CallsInv
    <3>4. from + i - 1 \in 1 .. n /\ from + i \in 1 .. n
      BY <1>5, <3>1
    <3> QED BY <1>1, <3>2, <3>3, <3>4
  <2> QED BY <2>1, <2>2
<1>8. Len(c) - 1 = len /\ Len(c) > 1
  BY <1>3, <1>4
<1>9. CycleOf(c)
  BY <1>4, <1>6, <1>7, <1>8 DEF CycleOf
<1>10. c[Len(c) - 1] = Inner.key /\ c[Len(c)] = p
  BY <1>4, <1>6, <1>8
<1> QED BY <1>4, <1>9, <1>10 DEF c, tail, n

LEMMA ValidateFindsPreserves ==
  ASSUME GraphInv, NEW p, ValidateFinds(p)
  PROVE  GraphInv'
<1> DEFINE Starts == {i \in 1 .. Len(Path) : Path[i] = p}
<1>1. /\ phase = "validate" /\ phase' = "validate" /\ Turns(p) /\ calls' = Turned
      /\ p \in InProgress
      /\ UNCHANGED <<pending, orderDepth, requires, requiredBy, creationOrder,
                     roots, seen, cut, extracted>>
  BY DEF ValidateFinds
<1>2. /\ Nodes' = Nodes /\ Edges' = Edges /\ WalkTypeOK /\ Nodes \subseteq Resources
      /\ OrderInv'
      /\ \A c \in cycles : CycleOf(c)
      /\ roots = Nodes /\ InProgress \subseteq seen
      /\ \A x \in Finished : <<x, x>> \notin Closure(Left)
      /\ \A x \in Finished, q \in Resources : <<x, q>> \in Left => q \in Finished
      /\ \A k \in 1 .. Len(calls), q \in Resources : <<calls[k].key, q>> \in Left =>
           \/ q \in Todo(k) \cup Finished
           \/ k < Len(calls) /\ q = calls[k + 1].key
  BY <1>1, WhileValidating
<1>3. /\ calls' \in Seq(CallType) /\ Len(calls') = Len(calls)
      /\ Len(calls) \in Nat \ {0}
      /\ \A k \in 1 .. Len(calls) : calls'[k].key = calls[k].key
      /\ \A i, j \in 1 .. Len(calls') : calls'[i].key = calls'[j].key => i = j
      /\ <<Inner.key, p>> \in Edges /\ Inner = calls[Len(calls)]
      /\ InProgress' = InProgress
      /\ \A k \in 1 .. Len(calls) : \A q : q \in Todo(k) =>
           q \in Todo(k)' \/ (k = Len(calls) /\ q = p)
      /\ CallsInv'
  BY <1>1, AfterTurn, Zenon
<1>4. PICK c : /\ cycles' = cycles \cup {c} /\ c \in Seq(Resources) /\ CycleOf(c)
               /\ c[Len(c) - 1] = Inner.key /\ c[Len(c)] = p
  <2>1. PICK from \in 1 .. Len(Path) :
          /\ Path[from] = p
          /\ cycles' = cycles \cup {Append(SubSeq(Path, from, Len(Path)), p)}
    <3>1. \E i \in 1 .. Len(Path) : Path[i] = p
      BY <1>1 DEF InProgress, ElementsOf
    <3> QED BY <3>1 DEF ValidateFinds
  <2> DEFINE c == Append(SubSeq(Path, from, Len(Path)), p)
  <2>2. c \in Seq(Resources) /\ CycleOf(c) /\ c[Len(c) - 1] = Inner.key /\ c[Len(c)] = p
    BY <1>1, <1>3, <2>1, PathClosed
  <2>3. cycles' = cycles \cup {c}
    BY <2>1
  <2> HIDE DEF c
  <2> QED BY <2>2, <2>3
<1>5. WalkTypeOK'
  BY <1>1, <1>2, <1>3, <1>4 DEF WalkTypeOK
<1>6. ValidateInv'
  <2>1. /\ Left' \subseteq Left /\ Left \subseteq Edges /\ <<Inner.key, p>> \notin Left'
    BY <1>2, <1>4 DEF Left, LastEdges
  <2>2. Finished' = Finished
    BY <1>1, <1>3 DEF Finished
  <2>3. \A d \in cycles' : CycleOf(d)'
    BY <1>2, <1>4 DEF CycleOf
  <2>4. Closure(Left)' \subseteq Closure(Left)
    <3>1. Edges \subseteq Pairs
      BY <1>2 DEF Edges, Pairs
    <3>2. Closure(Left') \subseteq Closure(Left)
      BY <2>1, <3>1, ClosureMonotone
    <3> QED BY <3>2
  <2>5. ASSUME NEW k \in 1 .. Len(calls'), NEW q \in Resources,
               <<calls'[k].key, q>> \in Left'
        PROVE  \/ q \in Todo(k)' \cup Finished
               \/ k < Len(calls') /\ q = calls'[k + 1].key
    <3>1. /\ k \in 1 .. Len(calls) /\ calls'[k].key = calls[k].key
          /\ <<calls[k].key, q>> \in Left
      BY <1>3, <2>1, <2>5
    <3>2. CASE q \in Todo(k) \cup Finished
      <4>1. ~ (k = Len(calls) /\ q = p)
        BY <1>3, <2>1, <2>5, <3>1
      <4> QED BY <1>3, <3>1, <3>2, <4>1
    <3>3. CASE k < Len(calls) /\ q = calls[k + 1].key
      <4>1. k + 1 \in 1 .. Len(calls)
        BY <1>3, <3>1, <3>3
      <4> QED BY <1>3, <3>3, <4>1
    <3> QED BY <1>2, <3>1, <3>2, <3>3
  <2>6. roots' = Nodes' /\ InProgress' \subseteq seen'
    BY <1>1, <1>2, <1>3
  <2>7. \A x \in Finished : <<x, x>> \notin Closure(Left)'
    BY <1>2, <2>4
  <2>8. \A x \in Finished, q \in Resources : <<x, q>> \in Left' => q \in Finished
    BY <1>2, <2>1
  <2> QED BY <1>1, <2>2, <2>3, <2>5, <2>6, <2>7, <2>8 DEF ValidateInv
<1> QED BY <1>1, <1>2, <1>3, <1>5, <1>6, SameGraph

\* The edges of a finished call that are left lead to finished resources, so that no
\* path leads back to it.
LEMMA ValidateReturnsPreserves ==
  ASSUME GraphInv, ValidateReturns
  PROVE  GraphInv'
<1>1. /\ phase = "validate" /\ phase' = "validate" /\ calls # << >> /\ Inner.todo = << >>
      /\ calls' = Outer
      /\ UNCHANGED <<pending, orderDepth, requires, requiredBy, creationOrder, cycles,
                     roots, seen, cut, extracted>>
  BY DEF ValidateReturns
<1>2. /\ Nodes' = Nodes /\ Edges' = Edges /\ WalkTypeOK /\ Nodes \subseteq Resources
      /\ OrderInv'
      /\ \A c \in cycles : CycleOf(c)
      /\ roots = Nodes /\ InProgress \subseteq seen
      /\ \A x \in Finished : <<x, x>> \notin Closure(Left)
      /\ \A x \in Finished, q \in Resources : <<x, q>> \in Left => q \in Finished
      /\ \A k \in 1 .. Len(calls), q \in Resources : <<calls[k].key, q>> \in Left =>
           \/ q \in Todo(k) \cup Finished
           \/ k < Len(calls) /\ q = calls[k + 1].key
  BY <1>1, WhileValidating
<1>3. PICK n \in Nat \ {0} :
      /\ n = Len(calls)
      /\ calls' \in Seq(CallType) /\ Len(calls') = n - 1
      /\ \A k \in 1 .. n - 1 : calls'[k] = calls[k]
      /\ \A i, j \in 1 .. Len(calls') : calls'[i].key = calls'[j].key => i = j
      /\ Inner = calls[n] /\ Inner.key \in Resources
      /\ Inner.key \notin InProgress' /\ InProgress = InProgress' \cup {Inner.key}
      /\ Todo(n) = {} /\ \A k \in 1 .. n - 1 : Todo(k)' = Todo(k)
      /\ CallsInv'
  BY <1>1, AfterReturn, Zenon
<1>4. WalkTypeOK'
  BY <1>1, <1>2, <1>3 DEF WalkTypeOK
<1>5. PICK key \in Resources : key = Inner.key
  BY <1>3
<1>6. /\ Left' = Left /\ Left \in SUBSET Pairs
      /\ Finished' = Finished \cup {key} /\ key \notin Finished
  <2>1. Left' = Left /\ Left \subseteq Edges
    BY <1>1, <1>2 DEF Left, LastEdges
  <2>2. Edges \subseteq Pairs
    BY <1>2 DEF Edges, Pairs
  <2>3. Finished' = Finished \cup {key} /\ key \notin Finished
    BY <1>1, <1>2, <1>3, <1>5 DEF Finished
  <2> QED BY <2>1, <2>2, <2>3
<1>7. \A q \in Resources : <<key, q>> \in Left => q \in Finished
  <2>1. n \in 1 .. Len(calls) /\ calls[n].key = key /\ ~ (n < Len(calls))
    BY <1>3, <1>5
  <2> QED BY <1>2, <1>3, <2>1
<1>8. <<key, key>> \notin Closure(Left)
  <2> DEFINE R == {e \in Pairs : e[1] \in Finished \cup {key} => e[2] \in Finished}
  <2>1. ASSUME NEW a \in Resources, NEW b \in Resources
        PROVE  <<a, b>> \in R <=> (a \in Finished \cup {key} => b \in Finished)
    BY DEF Pairs
  <2>2. Left \subseteq R
    <3> SUFFICES ASSUME NEW e \in Left PROVE e \in R
      OBVIOUS
    <3>1. e \in Pairs /\ e = <<e[1], e[2]>> /\ e[1] \in Resources /\ e[2] \in Resources
      BY <1>6 DEF Pairs
    <3>2. e[1] \in Finished \cup {key} => e[2] \in Finished
      BY <1>2, <1>7, <3>1
    <3> QED BY <3>1, <3>2
  <2> HIDE DEF R
  <2>3. IsTransitive(R)
    BY <2>1 DEF IsTransitive
  <2>4. Closure(Left) \subseteq R
    BY <1>6, <2>2, <2>3, ClosureLeast
  <2>5. <<key, key>> \notin R
    BY <1>6, <2>1
  <2> QED BY <2>4, <2>5
<1>9. ValidateInv'
  <2>1. \A c \in cycles' : CycleOf(c)'
    BY <1>1, <1>2 DEF CycleOf
  <2>2. ASSUME NEW k \in 1 .. Len(calls'), NEW q \in Resources,
               <<calls'[k].key, q>> \in Left
        PROVE  \/ q \in Todo(k)' \cup Finished'
               \/ k < Len(calls') /\ q = calls'[k + 1].key
    <3>1. /\ k \in 1 .. n - 1 /\ k \in 1 .. Len(calls) /\ calls'[k] = calls[k]
          /\ Todo(k)' = Todo(k)
      BY <1>3
    <3>2. CASE q \in Todo(k) \cup Finished
      BY <1>6, <3>1, <3>2
    <3>3. CASE k < Len(calls) /\ q = calls[k + 1].key
      <4>1. CASE k + 1 = n
        BY <1>3, <1>5, <1>6, <3>3, <4>1
      <4>2. CASE k + 1 # n
        <5>1. k + 1 \in 1 .. n - 1 /\ k < n - 1
          BY <1>3, <3>1, <4>2
        <5> QED BY <1>3, <3>3, <5>1
      <4> QED BY <4>1, <4>2
    <3> QED BY <1>2, <2>2, <3>1, <3>2, <3>3
  <2>3. roots' = Nodes' /\ InProgress' \subseteq seen'
    BY <1>1, <1>2, <1>3
  <2>4. \A x \in Finished' : <<x, x>> \notin Closure(Left)'
    <3>1. Closure(Left)' = Closure(Left)
      BY <1>6
    <3> QED BY <1>2, <1>6, <1>8, <3>1
  <2>5. \A x \in Finished', q \in Resources : <<x, q>> \in Left' => q \in Finished'
    BY <1>2, <1>6, <1>7
  <2> QED BY <1>1, <1>6, <2>1, <2>2, <2>3, <2>4, <2>5 DEF ValidateInv
<1> QED BY <1>1, <1>2, <1>3, <1>4, <1>9, SameGraph

LEMMA ValidateEndsPreserves ==
  ASSUME GraphInv, ValidateEnds
  PROVE  GraphInv'
<1>1. /\ phase = "validate" /\ phase' = "built" /\ calls = << >> /\ roots \subseteq seen
      /\ seen' = {}
      /\ UNCHANGED <<pending, orderDepth, requires, requiredBy, creationOrder, cycles,
                     roots, calls, cut, extracted>>
  BY DEF ValidateEnds
<1>2. /\ Nodes' = Nodes /\ Edges' = Edges /\ WalkTypeOK /\ OrderInv'
      /\ \A c \in cycles : CycleOf(c)
      /\ roots = Nodes
      /\ \A x \in Finished : <<x, x>> \notin Closure(Left)
  BY <1>1, WhileValidating
<1>3. WalkTypeOK'
  BY <1>1, <1>2 DEF WalkTypeOK
<1>4. CallsInv'
  <2>1. \A k \in 1 .. Len(calls') : FALSE
    BY <1>1
  <2>2. \A k \in 2 .. Len(calls') : FALSE
    BY <1>1
  <2> QED BY <1>1, <2>1, <2>2 DEF CallsInv
<1>5. ValidateInv'
  <2>1. Finished = seen
    BY <1>1, NoCalls DEF Finished
  <2>2. Left' = Left
    BY <1>1, <1>2 DEF Left, LastEdges
  <2>3. Closure(Left)' = Closure(Left)
    BY <2>2
  <2>4. \A c \in cycles' : CycleOf(c)'
    BY <1>1, <1>2 DEF CycleOf
  <2>5. \A r \in Nodes' : <<r, r>> \notin Closure(Left)'
    BY <1>1, <1>2, <2>1, <2>3
  <2> QED BY <1>1, <2>4, <2>5 DEF ValidateInv
<1> QED BY <1>1, <1>2, <1>3, <1>4, <1>5, SameGraph

-----------------------------------------------------------------------------
(* Every step *)

LEMMA GraphStepPreserves ==
  ASSUME GraphInv, GraphStep
  PROVE  GraphInv'
<1>1. CASE MergeNext      BY <1>1, MergeNextPreserves
<1>2. CASE Reverse        BY <1>2, ReversePreserves
<1>3. CASE OrderStarts    BY <1>3, OrderStartsPreserves
<1>4. CASE OrderReturns   BY <1>4, OrderReturnsPreserves
<1>5. CASE OrderEnds      BY <1>5, OrderEndsPreserves
<1>6. CASE ValidateStarts BY <1>6, ValidateStartsPreserves
<1>7. CASE ValidateReturns BY <1>7, ValidateReturnsPreserves
<1>8. CASE ValidateEnds   BY <1>8, ValidateEndsPreserves
<1>9. ASSUME NEW p \in Resources, OrderSkips(p) PROVE GraphInv'
  BY <1>9, OrderSkipsPreserves
<1>10. ASSUME NEW p \in Resources, OrderDescends(p) PROVE GraphInv'
  BY <1>10, OrderDescendsPreserves
<1>11. ASSUME NEW p \in Resources, ValidateFinds(p) PROVE GraphInv'
  BY <1>11, ValidateFindsPreserves
<1>12. ASSUME NEW p \in Resources, ValidateSkips(p) PROVE GraphInv'
  BY <1>12, ValidateSkipsPreserves
<1>13. ASSUME NEW p \in Resources, ValidateDescends(p) PROVE GraphInv'
  BY <1>13, ValidateDescendsPreserves
<1> QED BY <1>1, <1>2, <1>3, <1>4, <1>5, <1>6, <1>7, <1>8, <1>9, <1>10, <1>11, <1>12,
           <1>13 DEF GraphStep

LEMMA GraphStutters ==
  ASSUME GraphInv, UNCHANGED graphVars
  PROVE  GraphInv'
<1>1. UNCHANGED <<pending, orderDepth, phase, requires, requiredBy, creationOrder, cycles,
                  roots, calls, seen, cut, extracted>>
  BY DEF graphVars
<1>2. /\ Nodes' = Nodes /\ Edges' = Edges /\ InProgress' = InProgress /\ Left' = Left
      /\ Finished' = Finished
  BY <1>1 DEF Nodes, Edges, InProgress, Path, Left, LastEdges, Finished
<1>3. GraphTypeOK'
  BY <1>1, <1>2 DEF GraphInv, GraphTypeOK
<1>4. MergedSoFar'
  <2>1. \A r : Done(r)' = Done(r)
    BY <1>1 DEF Done
  <2> QED BY <1>1, <1>2, <2>1 DEF GraphInv, MergedSoFar, MergedOf
<1>5. /\ (phase # "merge" => \A r \in Nodes : pending[r] = << >>)'
      /\ (phase # "merge" => requiredBy = [p \in Resources |-> Dependents(p)])'
      /\ extracted' \in Extractions
  BY <1>1, <1>2 DEF GraphInv, Dependents
<1>6. CallsInv'
  BY <1>1, <1>2 DEF GraphInv, CallsInv
<1>7. \A k : Todo(k)' = Todo(k)
  BY <1>1 DEF Todo
<1>8. OrderInv'
  <2>1. \A r : /\ OrderSoFar(r) => OrderSoFar(r)'
               /\ OrderFinished(r) => OrderFinished(r)'
               /\ OrderWalk(r) => OrderWalk(r)'
    BY <1>1, <1>2, <1>7 DEF OrderSoFar, OrderFinished, OrderWalk
  <2> QED BY <1>1, <1>2, <2>1 DEF GraphInv, OrderInv
<1>9. ValidateInv'
  <2>1. \A c : CycleOf(c) => CycleOf(c)'
    BY <1>1, <1>2 DEF CycleOf
  <2> QED BY <1>1, <1>2, <1>7, <2>1 DEF GraphInv, ValidateInv
<1> QED BY <1>3, <1>4, <1>5, <1>6, <1>8, <1>9 DEF GraphInv

-----------------------------------------------------------------------------
(* What the invariant says of the graph *)

\* All references are merged when the reverse edges are made, in whatever order they came.
LEMMA RequiredAsMentioned ==
  ASSUME GraphInv
  PROVE  RequiredByAnyOperation
<1> SUFFICES ASSUME phase # "merge", NEW r \in Nodes, NEW p \in Resources
             PROVE  LET mentions == {ref \in ElementsOf(extracted[r]) : ref.to = p}
                        at == Place(requires[r], p) IN
                    /\ at # 0 <=> mentions # {}
                    /\ at # 0 =>
                         (requires[r][at].required <=> \E ref \in mentions : ref.required)
  BY DEF RequiredByAnyOperation
<1> DEFINE x == extracted[r]
           mentions == {ref \in ElementsOf(x) : ref.to = p}
           refs == requires[r]
           at == Place(refs, p)
<1>1. x \in Seq(Reference) /\ refs \in Seq(Reference) /\ pending[r] = << >>
  BY DEF GraphInv, GraphTypeOK
<1>2. Len(x) \in Nat /\ Done(r) = Len(x)
  BY <1>1 DEF Done
<1>3. /\ \A q \in Resources : (\E j \in 1 .. Len(refs) : refs[j].to = q)
           <=> \E i \in 1 .. Len(x) : x[i].to = q
      /\ \A j \in 1 .. Len(refs) : refs[j].required
           <=> \E i \in 1 .. Len(x) : x[i].to = refs[j].to /\ x[i].required
  <2>1. MergedOf(r)
    BY DEF GraphInv, MergedSoFar
  <2> QED BY <1>2, <2>1 DEF MergedOf
<1> HIDE DEF x, refs
<1>4. /\ at # 0 <=> \E j \in 1 .. Len(refs) : refs[j].to = p
      /\ at # 0 => at \in 1 .. Len(refs) /\ refs[at].to = p
  BY <1>1, PlaceFound
<1> HIDE DEF at
<1>5. \A ref : ref \in mentions <=> \E i \in 1 .. Len(x) : ref = x[i] /\ x[i].to = p
  BY DEF ElementsOf
<1> HIDE DEF mentions
<1>6. at # 0 <=> mentions # {}
  <2>1. (\E i \in 1 .. Len(x) : x[i].to = p) <=> mentions # {}
    BY <1>5
  <2> QED BY <1>3, <1>4, <2>1
<1>7. ASSUME at # 0
      PROVE  refs[at].required <=> \E ref \in mentions : ref.required
  <2>1. at \in 1 .. Len(refs) /\ refs[at].to = p
    BY <1>4, <1>7
  <2>2. refs[at].required <=> \E i \in 1 .. Len(x) : x[i].to = p /\ x[i].required
    BY <1>3, <2>1, Zenon
  <2>3. (\E i \in 1 .. Len(x) : x[i].to = p /\ x[i].required)
          <=> \E ref \in mentions : ref.required
    BY <1>5, Zenon
  <2> QED BY <2>2, <2>3, Zenon
<1> QED BY <1>6, <1>7, Zenon DEF at, refs, mentions, x

LEMMA OrderIsSound ==
  ASSUME GraphInv
  PROVE  CreationOrderSound
<1>1. creationOrder \in [Nodes -> Seq(Resources)] /\ \A r \in Nodes : OrderSoFar(r)
  BY DEF GraphInv, GraphTypeOK, OrderInv
<1> SUFFICES ASSUME NEW r \in Nodes,
                    NEW i \in 1 .. Len(creationOrder[r]),
                    NEW j \in 1 .. Len(creationOrder[r]), i < j
             PROVE  /\ creationOrder[r][i] # creationOrder[r][j]
                    /\ <<creationOrder[r][i], creationOrder[r][j]>> \in Edges =>
                         \/ <<creationOrder[r][j], creationOrder[r][i]>> \in Closure(Edges)
                         \/ creationOrder[r][i] \in cut[r]
  BY <1>1 DEF CreationOrderSound
<1> DEFINE order == creationOrder[r]
<1>2. OrderSoFar(r) /\ Len(order) \in Nat /\ order[j] \in Resources
  BY <1>1
<1>3. order[i] # order[j]
  BY <1>2 DEF OrderSoFar
<1>4. ASSUME <<order[i], order[j]>> \in Edges
      PROVE  <<order[j], order[i]>> \in Closure(Edges) \/ order[i] \in cut[r]
  <2>1. \/ \E k \in 1 .. i : order[k] = order[j]
        \/ order[i] \in cut[r]
        \/ <<order[j], order[i]>> \in Closure(Edges)
    BY <1>2, <1>4 DEF OrderSoFar
  <2>2. ASSUME NEW k \in 1 .. i, order[k] = order[j] PROVE FALSE
    <3>1. k \in 1 .. Len(order) /\ k # j
      BY <1>2
    <3> QED BY <1>2, <2>2, <3>1 DEF OrderSoFar
  <2> QED BY <2>1, <2>2
<1> QED BY <1>3, <1>4

\* Turning all edges around turns all paths around.
LEMMA ClosureTurned ==
  ASSUME NEW E \in SUBSET Pairs, NEW D \in SUBSET Pairs,
         \A a, b \in Resources : <<a, b>> \in D => <<b, a>> \in E
  PROVE  \A a, b \in Resources : <<a, b>> \in Closure(D) => <<b, a>> \in Closure(E)
<1> DEFINE R == {e \in Pairs : <<e[2], e[1]>> \in Closure(E)}
<1>1. \A a, b \in Resources : <<a, b>> \in R <=> <<b, a>> \in Closure(E)
  BY DEF Pairs
<1>2. D \subseteq R
  <2> SUFFICES ASSUME NEW e \in D PROVE e \in R
    OBVIOUS
  <2>1. e \in Pairs /\ e = <<e[1], e[2]>> /\ e[1] \in Resources /\ e[2] \in Resources
    BY DEF Pairs
  <2>2. <<e[2], e[1]>> \in Closure(E)
    BY <2>1, ClosureContains
  <2> QED BY <2>1, <2>2
<1> HIDE DEF R
<1>3. IsTransitive(R)
  BY <1>1, ClosureTransitive DEF IsTransitive
<1>4. Closure(D) \subseteq R
  BY <1>2, <1>3, ClosureLeast
<1> QED BY <1>1, <1>4

\* What leads out of a set that is closed under the edges: nothing.
LEMMA ClosedUnderEdges ==
  ASSUME NEW E \in SUBSET Pairs, NEW S,
         \A a, b \in Resources : <<a, b>> \in E /\ a \in S => b \in S
  PROVE  \A a, b \in Resources : <<a, b>> \in Closure(E) /\ a \in S => b \in S
<1> DEFINE R == {e \in Pairs : e[1] \in S => e[2] \in S}
<1>1. \A a, b \in Resources : <<a, b>> \in R <=> (a \in S => b \in S)
  BY DEF Pairs
<1>2. E \subseteq R
  <2> SUFFICES ASSUME NEW e \in E PROVE e \in R
    OBVIOUS
  <2>1. e \in Pairs /\ e = <<e[1], e[2]>> /\ e[1] \in Resources /\ e[2] \in Resources
    BY DEF Pairs
  <2>2. e[1] \in S => e[2] \in S
    BY <2>1
  <2> QED BY <2>1, <2>2
<1> HIDE DEF R
<1>3. IsTransitive(R)
  BY <1>1 DEF IsTransitive
<1>4. Closure(E) \subseteq R
  BY <1>2, <1>3, ClosureLeast
<1> QED BY <1>1, <1>4

LEMMA ReversedEdges ==
  ASSUME GraphInv, phase # "merge"
  PROVE  /\ Reversed \subseteq Pairs /\ Edges \subseteq Pairs
         /\ \A a, b \in Resources : <<a, b>> \in Reversed <=> <<b, a>> \in Edges
<1>1. /\ Nodes \subseteq Resources /\ requiredBy = [p \in Resources |-> Dependents(p)]
  BY NodesAreResources DEF GraphInv
<1>2. \A a, b \in Resources : <<a, b>> \in Reversed <=> b \in Nodes /\ b \in Dependents(a)
  BY <1>1 DEF Reversed
<1>3. \A a, b \in Resources : b \in Dependents(a) <=> <<b, a>> \in Edges
  BY DEF Dependents, Edges
<1>4. \A a, b \in Resources : <<b, a>> \in Edges => b \in Nodes
  BY DEF Edges
<1>5. Reversed \subseteq Pairs /\ Edges \subseteq Pairs
  BY <1>1 DEF Reversed, Edges, Pairs
<1> QED BY <1>2, <1>3, <1>4, <1>5

LEMMA OrderMatchesDependents ==
  ASSUME GraphInv
  PROVE  CreationOrderMatchesDependents
<1> SUFFICES ASSUME phase \in {"validate", "built"}, NEW r \in Nodes, cut[r] = {}
             PROVE  /\ creationOrder[r][Len(creationOrder[r])] = r
                    /\ ElementsOf(creationOrder[r]) =
                         {r} \cup {p \in Resources : <<p, r>> \in Closure(Reversed)}
  BY DEF CreationOrderMatchesDependents
<1> DEFINE order == creationOrder[r]
           S == ElementsOf(order)
<1>1. /\ OrderSoFar(r) /\ OrderFinished(r) /\ order \in Seq(Resources)
      /\ Nodes \subseteq Resources /\ r \in Resources
  BY NodesAreResources DEF GraphInv, GraphTypeOK, OrderInv
<1>2. S = {order[i] : i \in 1 .. Len(order)}
  BY DEF ElementsOf
<1>3. Len(order) \in Nat \ {0} /\ order[Len(order)] = r /\ S \subseteq Resources
  <2>1. order # << >> /\ order[Len(order)] = r
    BY <1>1 DEF OrderFinished
  <2>2. Len(order) \in Nat \ {0}
    BY <1>1, <2>1, EmptySeq
  <2> QED BY <1>1, <1>2, <2>1, <2>2
<1>4. r \in S
  BY <1>2, <1>3
<1>5. \A a, b \in Resources : <<a, b>> \in Edges /\ a \in S => b \in S
  BY <1>1 DEF OrderFinished
<1>6. /\ Reversed \in SUBSET Pairs /\ Edges \in SUBSET Pairs
      /\ \A a, b \in Resources : <<a, b>> \in Reversed <=> <<b, a>> \in Edges
  BY ReversedEdges
<1>7. \A p \in Resources : <<p, r>> \in Closure(Reversed) <=> <<r, p>> \in Closure(Edges)
  <2>1. \A a, b \in Resources : <<a, b>> \in Closure(Reversed) => <<b, a>> \in Closure(Edges)
    BY <1>6, ClosureTurned
  <2>2. \A a, b \in Resources : <<a, b>> \in Closure(Edges) => <<b, a>> \in Closure(Reversed)
    BY <1>6, ClosureTurned
  <2> QED BY <1>1, <2>1, <2>2
<1>8. \A x \in S : x = r \/ <<r, x>> \in Closure(Edges)
  BY <1>1, <1>2 DEF OrderSoFar
<1>9. \A p \in Resources : <<r, p>> \in Closure(Edges) => p \in S
  BY <1>1, <1>4, <1>5, <1>6, ClosedUnderEdges
<1> HIDE DEF S
<1>10. S = {r} \cup {p \in Resources : <<p, r>> \in Closure(Reversed)}
  BY <1>3, <1>4, <1>7, <1>8, <1>9
<1> QED BY <1>3, <1>10 DEF S

LEMMA NoCycleIsMissed ==
  ASSUME GraphInv
  PROVE  CyclesAreFound
  BY DEF GraphInv, ValidateInv, CycleOf, Left, LastEdges, CyclesAreFound
=============================================================================
