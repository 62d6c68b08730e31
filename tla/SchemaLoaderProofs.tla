-------------------------- MODULE SchemaLoaderProofs --------------------------
(***************************************************************************)
(* What holds of the expansion of a request body, whatever schemas the     *)
(* specification files have, however they refer to each other, and         *)
(* whichever domains have been loaded before.                              *)
(***************************************************************************)
EXTENDS SchemaLoader, SequenceTheorems, FiniteSetTheorems, TLAPS

\* The place at agrees with where the open calls are, for the first l - 1 of its numbers.
Along(at, l, s) == \A i \in 1 .. l - 1 : at[i] = s[i].taken

\* Each open call is on the reference that the next one expands.
PathOf(s) ==
  \A k \in 1 .. Len(s) : Len(s[k].at) = k - 1 /\ Along(s[k].at, k, s)

\* What was met below an open call was met below a reference that it has taken.
SeenOf(s, out) ==
  \A o \in out : \A k \in 1 .. Len(s) :
    k <= Len(o.at) /\ Along(o.at, k, s) => o.at[k] <= s[k].taken

\* The children of the first k open calls among the outcomes, but for those cut off.
MetBy(k, s, out) ==
  {x \in out : x.how # "cut" /\ Len(x.at) \in 1 .. k /\ Along(x.at, Len(x.at), s)}

\* The set of an open call is what it and those above it have met.
VisitedOf(s, out) ==
  \A k \in 1 .. Len(s) : \A n : n \in s[k].visited <=> \E x \in MetBy(k, s, out) : Name(x) = n

\* The schemas above an open call, but for the root, are in its set and differ.
AboveOf(s) ==
  \A k \in 1 .. Len(s) :
    /\ \A i \in 2 .. Len(s[k].names) : s[k].names[i] \in s[k].visited
    /\ \A i, j \in 2 .. Len(s[k].names) : s[k].names[i] = s[k].names[j] => i = j

\* A reference that has been looked at and was not too deep: its schema is to be found
\* nowhere, or is in the answer.
Met(n) ==
  \/ Source(n) = Nowhere
  \/ \E x \in outcomes : x.how \in {"expanded", "raw"} /\ Name(x) = n

Waits(n, s) == \E k \in 1 .. Len(s) : \E j \in 1 .. Len(s[k].todo) : s[k].todo[j].ref = n

\* No reference of an expanded schema is forgotten.
NoneForgotten ==
  phase = "resolving" =>
    /\ Own \in Cached
    /\ \A k \in 1 .. Len(frames) : \A n \in frames[k].visited : Met(n)
    /\ (\A x \in outcomes : x.how # "cut") =>
         \A o \in outcomes : o.how = "expanded" =>
           \A i \in 1 .. Len(files[o.from][Name(o)]) :
             LET n == files[o.from][Name(o)][i].ref IN Met(n) \/ Waits(n, frames)

SchemaInv ==
  /\ TypeOK
  /\ PathOf(frames)
  /\ SeenOf(frames, outcomes)
  /\ VisitedOf(frames, outcomes)
  /\ AboveOf(frames)
  /\ NoneForgotten
  /\ MarkedCircular
  /\ NoSchemaInsideItself

-----------------------------------------------------------------------------
(* Domains and sources *)

\* A set of numbers that is not empty has a least element: of the intervals from 0 to
\* its members one is contained in all the others.
LEMMA LeastNumber ==
  ASSUME NEW T \in SUBSET Nat, T # {}
  PROVE  \E m \in T : \A n \in T : m <= n
<1> DEFINE intervals == {0 .. n : n \in T}
<1>1. intervals \subseteq FiniteSubsetsOf(Nat) /\ intervals # {}
  <2>1. \A n \in T : 0 .. n \in SUBSET Nat /\ IsFiniteSet(0 .. n)
    BY FS_Interval
  <2>2. \A n \in T : 0 .. n \in FiniteSubsetsOf(Nat)
    BY <2>1 DEF FiniteSubsetsOf
  <2> QED BY <2>2
<1>2. PICK I \in intervals :
        \A J \in intervals : <<J, I>> \notin StrictSubsetOrdering(Nat)
  BY <1>1, FS_StrictSubsetOrderingWellFounded, WFMin
<1>3. PICK m \in T : I = 0 .. m
  OBVIOUS
<1>4. ASSUME NEW n \in T, n < m PROVE FALSE
  <2>1. 0 .. n \in intervals /\ 0 .. n \subseteq Nat /\ 0 .. m \subseteq Nat
    OBVIOUS
  <2>2. 0 .. n \subseteq 0 .. m /\ m \in 0 .. m /\ m \notin 0 .. n
    BY <1>4
  <2> QED BY <1>2, <1>3, <2>1, <2>2 DEF StrictSubsetOrdering
<1> QED BY <1>4

\* What a source is good for: a schema that some loaded domain has is found, and what is
\* found is a schema.
LEMMA SourceFound ==
  ASSUME TypeOK, NEW n \in Names
  PROVE  /\ Source(n) \in Domains \cup {Nowhere}
         /\ Source(n) # Nowhere =>
              /\ Own \in Cached /\ Source(n) \in DOMAIN files
              /\ files[Source(n)][n] \in Seq(Child)
         /\ Own \in Cached /\ Source(n) = Nowhere => \A d \in Cached : ~Has(d, n)
<1>1. /\ loaded \in Seq(DOMAIN files) /\ Len(loaded) \in Nat
      /\ Cached \subseteq DOMAIN files /\ DOMAIN files \subseteq Domains
      /\ \A d \in DOMAIN files : \A m \in DOMAIN files[d] : files[d][m] \in Seq(Child)
  <2>1. loaded \in Seq(DOMAIN files) /\ Len(loaded) \in Nat /\ files \in Files
    BY DEF TypeOK
  <2> QED BY <2>1, SchemaConstants DEF Cached
<1>2. Own \in Domains /\ Nowhere \notin Domains
  BY SchemaConstants
<1>3. CASE Has(Own, n)
  BY <1>1, <1>2, <1>3 DEF Source, Has
<1>4. CASE ~Has(Own, n) /\ Own \in Cached /\ \E d \in Cached : Has(d, n)
  <2> DEFINE Places == {i \in 1 .. Len(loaded) : Has(loaded[i], n)}
             First(i) == /\ Has(loaded[i], n)
                         /\ \A j \in 1 .. i - 1 : ~Has(loaded[j], n)
             k == CHOOSE i \in 1 .. Len(loaded) : First(i)
  <2>1. \E i \in 1 .. Len(loaded) : First(i)
    <3>1. Places # {} /\ Places \in SUBSET Nat
      BY <1>1, <1>4 DEF Cached
    <3>2. PICK i \in Places : \A j \in Places : i <= j
      <4> HIDE DEF Places
      <4> QED BY <3>1, LeastNumber
    <3>3. \A j \in 1 .. i - 1 : ~Has(loaded[j], n)
      BY <1>1, <3>2
    <3> QED BY <3>2, <3>3
  <2>2. k \in 1 .. Len(loaded) /\ Has(loaded[k], n)
    BY <2>1
  <2>3. Source(n) = loaded[k]
    BY <1>4 DEF Source
  <2> HIDE DEF k
  <2> QED BY <1>1, <1>2, <1>4, <2>2, <2>3 DEF Has
<1>5. CASE ~Has(Own, n) /\ ~(Own \in Cached /\ \E d \in Cached : Has(d, n))
  BY <1>2, <1>5 DEF Source
<1> QED BY <1>3, <1>4, <1>5

LEMMA SameSources ==
  ASSUME UNCHANGED <<files, loaded>>
  PROVE  Cached' = Cached /\ \A n : Source(n)' = Source(n)
  BY DEF Cached, Source, Has

\* A domain is loaded at most once, and only if its file can be read.
LEMMA LoadedType ==
  ASSUME TypeOK, NEW d
  PROVE  /\ LoadedWith(d) \in Seq(DOMAIN files)
         /\ \A i, j \in 1 .. Len(LoadedWith(d)) :
              LoadedWith(d)[i] = LoadedWith(d)[j] => i = j
<1>1. /\ loaded \in Seq(DOMAIN files) /\ Len(loaded) \in Nat
      /\ \A i, j \in 1 .. Len(loaded) : loaded[i] = loaded[j] => i = j
  BY DEF TypeOK
<1>2. CASE d \in DOMAIN files /\ d \notin Cached
  <2> DEFINE s == Append(loaded, d)
  <2>1. /\ LoadedWith(d) = s /\ s \in Seq(DOMAIN files) /\ Len(s) = Len(loaded) + 1
        /\ s[Len(loaded) + 1] = d /\ \A i \in 1 .. Len(loaded) : s[i] = loaded[i]
    BY <1>1, <1>2, AppendProperties DEF LoadedWith
  <2>2. \A i \in 1 .. Len(loaded) : loaded[i] # d
    BY <1>2 DEF Cached
  <2> HIDE DEF s
  <2> QED BY <1>1, <2>1, <2>2
<1>3. CASE ~(d \in DOMAIN files /\ d \notin Cached)
  BY <1>1, <1>3 DEF LoadedWith
<1> QED BY <1>2, <1>3

-----------------------------------------------------------------------------
(* A turn of the innermost call *)

LEMMA InnerCall ==
  ASSUME TypeOK, PathOf(frames), phase = "resolving"
  PROVE  /\ Len(frames) \in Nat \ {0} /\ Inner = frames[Len(frames)] /\ Inner \in FrameType
         /\ Inner.at \in Seq(Nat) /\ Len(Inner.at) = Len(frames) - 1
         /\ \A i \in 1 .. Len(frames) - 1 : Inner.at[i] = frames[i].taken
         /\ Inner.names \in Seq(Names) /\ Inner.taken \in Nat /\ Inner.depth \in 0 .. MaxDepth
         /\ Inner.todo \in Seq(Child) /\ Inner.visited \subseteq Names
         /\ Outer \in Seq(FrameType) /\ Len(Outer) = Len(frames) - 1
         /\ \A i \in 1 .. Len(frames) - 1 : Outer[i] = frames[i]
<1>1. frames \in Seq(FrameType) /\ frames # << >>
  BY DEF TypeOK
<1>2. Len(frames) \in Nat \ {0}
  BY <1>1, EmptySeq
<1>3. Inner = frames[Len(frames)] /\ Inner \in FrameType
  BY <1>1, <1>2 DEF Inner
<1>4. /\ Inner.at \in Seq(Nat) /\ Inner.names \in Seq(Names) /\ Inner.taken \in Nat
      /\ Inner.depth \in 0 .. MaxDepth /\ Inner.todo \in Seq(Child)
      /\ Inner.visited \subseteq Names
  BY <1>3 DEF FrameType
<1>5. /\ Len(Inner.at) = Len(frames) - 1
      /\ \A i \in 1 .. Len(frames) - 1 : Inner.at[i] = frames[i].taken
  BY <1>2, <1>3 DEF PathOf, Along
<1>6. /\ Outer \in Seq(FrameType) /\ Len(Outer) = Len(frames) - 1
      /\ \A i \in 1 .. Len(frames) - 1 : Outer[i] = frames[i]
  <2> DEFINE m == Len(frames) - 1
  <2>1. m \in Nat /\ \A i \in 1 .. m : frames[i] \in FrameType
    BY <1>1, <1>2
  <2> HIDE DEF m
  <2>2. /\ SubSeq(frames, 1, m) \in Seq(FrameType)
        /\ Len(SubSeq(frames, 1, m)) = m
        /\ \A i \in 1 .. m : SubSeq(frames, 1, m)[i] = frames[i]
    BY <2>1, SubSeqProperties
  <2> QED BY <2>2 DEF Outer, m
<1> QED BY <1>2, <1>3, <1>4, <1>5, <1>6

LEMMA TakenType ==
  ASSUME TypeOK
  PROVE  \A k \in 1 .. Len(frames) : frames[k] \in FrameType /\ frames[k].taken \in Nat
<1>1. frames \in Seq(FrameType)
  BY DEF TypeOK
<1>2. \A k \in 1 .. Len(frames) : frames[k] \in FrameType
  BY <1>1
<1> QED BY <1>2 DEF FrameType

\* The reference it turns to, and where that is.
LEMMA NextReference ==
  ASSUME TypeOK, PathOf(frames), Turns
  PROVE  /\ Ref \in Names /\ Ref = Inner.todo[1].ref /\ Len(Inner.todo) \in Nat \ {0}
         /\ Depth \in Nat
         /\ Tail(Inner.todo) \in Seq(Child) /\ Len(Tail(Inner.todo)) = Len(Inner.todo) - 1
         /\ \A j \in 1 .. Len(Inner.todo) - 1 : Tail(Inner.todo)[j] = Inner.todo[j + 1]
         /\ At \in Seq(Nat) /\ Len(At) = Len(frames)
         /\ \A i \in 1 .. Len(frames) - 1 : At[i] = frames[i].taken
         /\ At[Len(frames)] = Inner.taken + 1
         /\ Under \in Seq(Names) /\ Len(Under) = Len(Inner.names) + 1
         /\ Len(Inner.names) \in Nat /\ Under[Len(Inner.names) + 1] = Ref
         /\ \A i \in 1 .. Len(Inner.names) : Under[i] = Inner.names[i]
<1>1. /\ Len(frames) \in Nat \ {0} /\ Inner.at \in Seq(Nat)
      /\ Len(Inner.at) = Len(frames) - 1
      /\ \A i \in 1 .. Len(frames) - 1 : Inner.at[i] = frames[i].taken
      /\ Inner.names \in Seq(Names) /\ Inner.taken \in Nat /\ Inner.depth \in 0 .. MaxDepth
      /\ Inner.todo \in Seq(Child) /\ Inner.todo # << >>
  BY InnerCall DEF Turns
<1>2. /\ Len(Inner.todo) \in Nat \ {0} /\ Head(Inner.todo) = Inner.todo[1]
      /\ Head(Inner.todo) \in Child
  BY <1>1, EmptySeq
<1>3. /\ Tail(Inner.todo) \in Seq(Child) /\ Len(Tail(Inner.todo)) = Len(Inner.todo) - 1
      /\ \A j \in 1 .. Len(Inner.todo) - 1 : Tail(Inner.todo)[j] = Inner.todo[j + 1]
  BY <1>1, <1>2, HeadTailProperties
<1>4. Ref \in Names /\ Ref = Inner.todo[1].ref /\ Depth \in Nat
  <2>1. Head(Inner.todo).ref \in Names /\ Head(Inner.todo).inside \in Nat
    BY <1>2 DEF Child
  <2>2. Inner.depth \in Nat
    BY <1>1, SchemaConstants
  <2> QED BY <1>2, <2>1, <2>2 DEF Ref, Depth
<1>5. /\ At \in Seq(Nat) /\ Len(At) = Len(frames)
      /\ \A i \in 1 .. Len(frames) - 1 : At[i] = frames[i].taken
      /\ At[Len(frames)] = Inner.taken + 1
  <2>1. Inner.taken + 1 \in Nat
    BY <1>1
  <2>2. /\ At \in Seq(Nat) /\ Len(At) = Len(Inner.at) + 1
        /\ \A i \in 1 .. Len(Inner.at) : At[i] = Inner.at[i]
        /\ At[Len(Inner.at) + 1] = Inner.taken + 1
    BY <1>1, <2>1, AppendProperties DEF At
  <2> QED BY <1>1, <2>2
<1>6. /\ Under \in Seq(Names) /\ Len(Under) = Len(Inner.names) + 1
      /\ Len(Inner.names) \in Nat /\ Under[Len(Inner.names) + 1] = Ref
      /\ \A i \in 1 .. Len(Inner.names) : Under[i] = Inner.names[i]
  BY <1>1, <1>4, AppendProperties DEF Under
<1> QED BY <1>2, <1>3, <1>4, <1>5, <1>6

\* What is met now was not met before, nor was anything below it.
LEMMA NewPlace ==
  ASSUME SchemaInv, Turns, NEW o \in outcomes, Len(frames) <= Len(o.at),
         \A i \in 1 .. Len(frames) - 1 : o.at[i] = At[i]
  PROVE  o.at[Len(frames)] < At[Len(frames)]
<1> DEFINE n == Len(frames)
<1>1. /\ n \in Nat \ {0} /\ Inner = frames[n] /\ Inner.taken \in Nat
      /\ \A i \in 1 .. n - 1 : At[i] = frames[i].taken
      /\ At[n] = Inner.taken + 1
  BY InnerCall, NextReference DEF SchemaInv, Turns
<1>2. Along(o.at, n, frames)
  BY <1>1 DEF Along
<1>3. o.at[n] <= Inner.taken
  BY <1>1, <1>2 DEF SchemaInv, SeenOf
<1>4. o.at[n] \in Nat
  <2>1. o.at \in Seq(Nat)
    BY DEF SchemaInv, TypeOK, OutcomeType
  <2>2. Len(o.at) \in Nat /\ n \in 1 .. Len(o.at)
    BY <1>1, <2>1
  <2> QED BY <2>1, <2>2
<1> QED BY <1>1, <1>3, <1>4

\* MetBefore without subsequences.
LEMMA MetBeforeAlong ==
  ASSUME NEW x, NEW o, x.at \in Seq(Nat), o.at \in Seq(Nat)
  PROVE  MetBefore(x, o) <=>
           /\ x # o /\ 0 < Len(x.at) /\ Len(x.at) <= Len(o.at)
           /\ \A i \in 1 .. Len(x.at) - 1 : x.at[i] = o.at[i]
           /\ x.at[Len(x.at)] <= o.at[Len(x.at)]
<1> DEFINE k == Len(x.at)
<1>1. k \in Nat /\ Len(o.at) \in Nat
  OBVIOUS
<1>2. ASSUME 0 < k, k <= Len(o.at)
      PROVE  SubSeq(x.at, 1, k - 1) = SubSeq(o.at, 1, k - 1)
               <=> \A i \in 1 .. k - 1 : x.at[i] = o.at[i]
  <2> DEFINE m == k - 1
  <2>1. m \in Nat /\ m <= Len(x.at) /\ m <= Len(o.at)
    BY <1>1, <1>2
  <2> HIDE DEF m
  <2>2. \A i \in 1 .. m : x.at[i] \in Nat /\ o.at[i] \in Nat
    BY <2>1
  <2>3. /\ SubSeq(x.at, 1, m) \in Seq(Nat) /\ Len(SubSeq(x.at, 1, m)) = m
        /\ \A i \in 1 .. m : SubSeq(x.at, 1, m)[i] = x.at[i]
    BY <2>1, <2>2, SubSeqProperties
  <2>4. /\ SubSeq(o.at, 1, m) \in Seq(Nat) /\ Len(SubSeq(o.at, 1, m)) = m
        /\ \A i \in 1 .. m : SubSeq(o.at, 1, m)[i] = o.at[i]
    BY <2>1, <2>2, SubSeqProperties
  <2>5. (\A i \in 1 .. m : x.at[i] = o.at[i]) => SubSeq(x.at, 1, m) = SubSeq(o.at, 1, m)
    BY <2>3, <2>4, SeqEqual
  <2> QED BY <2>3, <2>4, <2>5 DEF m
<1> QED BY <1>2 DEF MetBefore

\* What becomes of a reference is in the answer, with the name of its schema.
LEMMA NewOutcome ==
  ASSUME TypeOK, PathOf(frames), Turns, NEW how, NEW from, Becomes(how, from)
  PROVE  LET x == Outcome(At, Under, how, from) IN
         /\ outcomes' = outcomes \cup {x}
         /\ x.at = At /\ x.how = how /\ x.from = from /\ x.names = Under /\ Name(x) = Ref
<1>1. Under \in Seq(Names) /\ Under[Len(Under)] = Ref
  BY NextReference
<1> QED BY <1>1 DEF Becomes, Outcome, Name

\* A reference is marked circular if and only if its schema is in the set of the call.
LEMMA MarkedTurn ==
  ASSUME SchemaInv, Turns, NEW how, NEW from, Becomes(how, from),
         how # "cut" => (how = "circular" <=> Ref \in Inner.visited)
  PROVE  MarkedCircular'
<1> DEFINE n == Len(frames)
           new == Outcome(At, Under, how, from)
<1>1. /\ outcomes' = outcomes \cup {new}
      /\ new.at = At /\ new.how = how /\ Name(new) = Ref
  BY NewOutcome DEF SchemaInv
<1>2. /\ n \in Nat \ {0} /\ Inner = frames[n] /\ Inner.taken \in Nat
      /\ At \in Seq(Nat) /\ Len(At) = n /\ At[n] = Inner.taken + 1
      /\ \A i \in 1 .. n - 1 : At[i] = frames[i].taken
  BY InnerCall, NextReference DEF SchemaInv, Turns
<1> HIDE DEF new
<1>3. \A x \in outcomes : x.at \in Seq(Nat)
  BY DEF SchemaInv, TypeOK, OutcomeType
<1>4. ASSUME NEW o \in outcomes PROVE ~MetBefore(new, o)
  <2> SUFFICES ASSUME MetBefore(new, o) PROVE FALSE
    OBVIOUS
  <2>1. /\ n <= Len(o.at) /\ \A i \in 1 .. n - 1 : o.at[i] = At[i]
        /\ At[n] <= o.at[n]
    BY <1>1, <1>2, <1>3, MetBeforeAlong
  <2>2. o.at[n] < At[n]
    BY <2>1, NewPlace
  <2>3. o.at[n] \in Nat
    BY <1>2, <1>3, <2>1
  <2> QED BY <1>2, <2>1, <2>2, <2>3
<1>5. ASSUME NEW x \in outcomes
      PROVE  MetBefore(x, new) <=> Len(x.at) \in 1 .. n /\ Along(x.at, Len(x.at), frames)
  <2> DEFINE l == Len(x.at)
  <2>1. l \in Nat /\ \A i \in 1 .. l : x.at[i] \in Nat
    BY <1>3
  <2>2. MetBefore(x, new) <=>
          /\ x # new /\ 0 < l /\ l <= n
          /\ \A i \in 1 .. l - 1 : x.at[i] = At[i]
          /\ x.at[l] <= At[l]
    BY <1>1, <1>2, <1>3, MetBeforeAlong
  <2> HIDE DEF l
  <2>3. ASSUME l \in 1 .. n
        PROVE  Along(x.at, l, frames) <=> \A i \in 1 .. l - 1 : x.at[i] = At[i]
    <3>1. \A i \in 1 .. l - 1 : i \in 1 .. n - 1
      BY <1>2, <2>1, <2>3
    <3> QED BY <1>2, <3>1 DEF Along
  <2>4. ASSUME l \in 1 .. n, Along(x.at, l, frames)
        PROVE  x.at[l] <= At[l] /\ x # new
    <3>1. x.at[l] <= frames[l].taken
      BY <2>1, <2>4 DEF SchemaInv, SeenOf, l
    <3>2. frames[l].taken \in Nat /\ x.at[l] \in Nat
      BY <2>1, <2>4, TakenType DEF SchemaInv
    <3>3. CASE l = n
      <4>1. x.at[l] < At[l]
        BY <1>2, <3>1, <3>2, <3>3
      <4>2. x # new
        BY <1>1, <3>2, <4>1, <1>2, <3>3
      <4> QED BY <1>2, <3>2, <3>3, <4>1, <4>2
    <3>4. CASE l # n
      <4>1. l \in 1 .. n - 1
        BY <1>2, <2>1, <2>4, <3>4
      <4>2. x # new
        BY <1>1, <1>2, <3>4 DEF l
      <4> QED BY <1>2, <3>1, <4>1, <4>2
    <3> QED BY <3>3, <3>4
  <2>5. l \in 1 .. n <=> 0 < l /\ l <= n
    BY <1>2, <2>1
  <2> QED BY <2>2, <2>3, <2>4, <2>5 DEF l
<1>6. n \in 1 .. n
  BY <1>2
<1>7. Ref \in Inner.visited <=>
        \E x \in outcomes : x.how # "cut" /\ MetBefore(x, new) /\ Name(x) = Ref
  BY <1>2, <1>5, <1>6 DEF SchemaInv, VisitedOf, MetBy
<1>8. ~MetBefore(new, new)
  BY DEF MetBefore
<1>9. \A o \in outcomes : o.at # << >> /\ o.how # "cut" =>
        (o.how = "circular"
           <=> \E x \in outcomes : x.how # "cut" /\ MetBefore(x, o) /\ Name(x) = Name(o))
  BY DEF SchemaInv, MarkedCircular
<1>10. \A o \in outcomes' : o.at # << >> /\ o.how # "cut" =>
        (o.how = "circular"
           <=> \E x \in outcomes' : x.how # "cut" /\ MetBefore(x, o) /\ Name(x) = Name(o))
  <2> SUFFICES ASSUME NEW o \in outcomes', o.at # << >>, o.how # "cut"
               PROVE  o.how = "circular"
                        <=> \E x \in outcomes' : x.how # "cut" /\ MetBefore(x, o) /\ Name(x) = Name(o)
    OBVIOUS
  <2>1. CASE o \in outcomes
    BY <1>1, <1>4, <1>9, <2>1
  <2>2. CASE o = new
    BY <1>1, <1>7, <1>8, <2>2
  <2> QED BY <1>1, <2>1, <2>2
<1> QED BY <1>10 DEF MarkedCircular

\* The innermost call has a reference behind it: it is still on the path of the open
\* calls, and its set is what they have met.
LEMMA TurnKeeps ==
  ASSUME SchemaInv, Turns, NEW F \in FrameType, NEW how, NEW from, Becomes(how, from),
         F.at = Inner.at, F.names = Inner.names, F.taken = Inner.taken + 1,
         F.visited = IF how = "cut" THEN Inner.visited ELSE Inner.visited \cup {Ref}
  PROVE  LET s == Append(Outer, F) IN
         /\ s \in Seq(FrameType) /\ Len(s) = Len(frames) /\ s[Len(frames)] = F
         /\ \A k \in 1 .. Len(frames) - 1 : s[k] = frames[k]
         /\ PathOf(s) /\ SeenOf(s, outcomes') /\ VisitedOf(s, outcomes') /\ AboveOf(s)
<1> DEFINE n == Len(frames)
           s == Append(Outer, F)
           new == Outcome(At, Under, how, from)
<1>1. /\ outcomes' = outcomes \cup {new}
      /\ new.at = At /\ new.how = how /\ Name(new) = Ref
  BY NewOutcome DEF SchemaInv
<1>2. /\ n \in Nat \ {0} /\ Inner = frames[n] /\ Inner.taken \in Nat
      /\ At \in Seq(Nat) /\ Len(At) = n /\ At[n] = Inner.taken + 1
      /\ \A i \in 1 .. n - 1 : At[i] = frames[i].taken
      /\ Outer \in Seq(FrameType) /\ Len(Outer) = n - 1
      /\ \A i \in 1 .. n - 1 : Outer[i] = frames[i]
  BY InnerCall, NextReference DEF SchemaInv, Turns
<1> HIDE DEF new
<1>3. /\ s \in Seq(FrameType) /\ Len(s) = n /\ s[n] = F
      /\ \A k \in 1 .. n - 1 : s[k] = frames[k]
  BY <1>2, AppendProperties
<1> HIDE DEF s
<1>4. \A at : \A l \in 1 .. n : Along(at, l, s) <=> Along(at, l, frames)
  <2>1. \A l \in 1 .. n : \A i \in 1 .. l - 1 : i \in 1 .. n - 1
    BY <1>2
  <2> QED BY <1>3, <2>1 DEF Along
<1>5. \A k \in 1 .. n : k = n \/ k \in 1 .. n - 1
  BY <1>2
<1>6. PathOf(s)
  BY <1>2, <1>3, <1>4, <1>5 DEF SchemaInv, PathOf
<1>7. Along(At, n, frames) /\ \A k \in 1 .. n - 1 : At[k] <= frames[k].taken
  <2>1. \A k \in 1 .. n - 1 : frames[k].taken \in Nat
    BY <1>2, TakenType DEF SchemaInv
  <2> QED BY <1>2, <2>1 DEF Along
<1>8. SeenOf(s, outcomes')
  <2> SUFFICES ASSUME NEW o \in outcomes', NEW k \in 1 .. n, k <= Len(o.at), Along(o.at, k, s)
               PROVE  o.at[k] <= s[k].taken
    BY <1>3 DEF SeenOf
  <2>1. CASE o \in outcomes
    <3>1. o.at[k] <= frames[k].taken
      BY <1>4, <2>1 DEF SchemaInv, SeenOf
    <3>2. o.at[k] \in Nat
      <4>1. o.at \in Seq(Nat)
        BY <2>1 DEF SchemaInv, TypeOK, OutcomeType
      <4> QED BY <4>1
    <3>3. CASE k = n
      BY <1>2, <1>3, <3>1, <3>2, <3>3
    <3>4. CASE k # n
      BY <1>3, <1>5, <3>1, <3>4
    <3> QED BY <3>3, <3>4
  <2>2. CASE o = new
    <3>1. CASE k = n
      BY <1>1, <1>2, <1>3, <2>2, <3>1
    <3>2. CASE k # n
      BY <1>1, <1>3, <1>5, <1>7, <2>2, <3>2
    <3> QED BY <3>1, <3>2
  <2> QED BY <1>1, <2>1, <2>2
<1>9. ASSUME NEW k \in 1 .. n
      PROVE  MetBy(k, s, outcomes') = IF k = n /\ how # "cut" THEN MetBy(k, frames, outcomes) \cup {new}
                                      ELSE MetBy(k, frames, outcomes)
  <2>1. \A l \in 1 .. k : l \in 1 .. n
    BY <1>2
  <2>2. ASSUME NEW x PROVE Len(x.at) \in 1 .. k /\ Along(x.at, Len(x.at), s)
                             <=> Len(x.at) \in 1 .. k /\ Along(x.at, Len(x.at), frames)
    BY <1>4, <2>1
  <2>3. Len(new.at) \in 1 .. k <=> k = n
    BY <1>1, <1>2
  <2>4. Along(new.at, Len(new.at), frames)
    BY <1>1, <1>2, <1>7
  <2> QED BY <1>1, <2>2, <2>3, <2>4 DEF MetBy
<1>10. VisitedOf(s, outcomes')
  <2> SUFFICES ASSUME NEW k \in 1 .. n, NEW m
               PROVE  m \in s[k].visited <=> \E x \in MetBy(k, s, outcomes') : Name(x) = m
    BY <1>3 DEF VisitedOf
  <2>1. m \in frames[k].visited <=> \E x \in MetBy(k, frames, outcomes) : Name(x) = m
    BY DEF SchemaInv, VisitedOf
  <2>2. CASE k = n
    BY <1>1, <1>2, <1>3, <1>9, <2>1, <2>2
  <2>3. CASE k # n
    BY <1>3, <1>5, <1>9, <2>1, <2>3
  <2> QED BY <2>2, <2>3
<1>11. AboveOf(s)
  <2> SUFFICES ASSUME NEW k \in 1 .. n
               PROVE  /\ \A i \in 2 .. Len(s[k].names) : s[k].names[i] \in s[k].visited
                      /\ \A i, j \in 2 .. Len(s[k].names) :
                           s[k].names[i] = s[k].names[j] => i = j
    BY <1>3 DEF AboveOf
  <2>1. /\ \A i \in 2 .. Len(frames[k].names) : frames[k].names[i] \in frames[k].visited
        /\ \A i, j \in 2 .. Len(frames[k].names) :
             frames[k].names[i] = frames[k].names[j] => i = j
    BY DEF SchemaInv, AboveOf
  <2>2. s[k].names = frames[k].names /\ frames[k].visited \subseteq s[k].visited
    BY <1>2, <1>3, <1>5
  <2> QED BY <2>1, <2>2
<1> QED BY <1>3, <1>6, <1>8, <1>10, <1>11 DEF s

-----------------------------------------------------------------------------
(* Nothing is lost *)

\* What is met stays met, and what is waiting waits or is turned to.
LEMMA TurnForgetsNone ==
  ASSUME SchemaInv, Turns, NEW how, NEW from, Becomes(how, from),
         UNCHANGED <<files, loaded, phase>>,
         NEW n, n = Len(frames), Len(frames') \in Nat, n <= Len(frames'),
         \A k \in 1 .. n - 1 : frames'[k] = frames[k],
         frames'[n].todo = Tail(Inner.todo),
         \A k \in n .. Len(frames') :
           frames'[k].visited = IF how = "cut" THEN Inner.visited ELSE Inner.visited \cup {Ref},
         \/ how = "cut"
         \/ how = "circular" /\ Ref \in Inner.visited
         \/ how = "unresolved" /\ Source(Ref) = Nowhere
         \/ how \in {"expanded", "raw"},
         how = "expanded" =>
           \A i \in 1 .. Len(files[from][Ref]) : Waits(files[from][Ref][i].ref, frames')
  PROVE  NoneForgotten'
<1> DEFINE new == Outcome(At, Under, how, from)
<1>1. /\ outcomes' = outcomes \cup {new}
      /\ new.how = how /\ new.from = from /\ Name(new) = Ref
  BY NewOutcome DEF SchemaInv
<1> HIDE DEF new
<1>2. /\ n \in Nat \ {0} /\ Inner = frames[n] /\ Len(Inner.todo) \in Nat \ {0}
      /\ Ref = Inner.todo[1].ref /\ Len(Tail(Inner.todo)) = Len(Inner.todo) - 1
      /\ \A j \in 1 .. Len(Inner.todo) - 1 : Tail(Inner.todo)[j] = Inner.todo[j + 1]
      /\ phase = "resolving"
  BY InnerCall, NextReference DEF SchemaInv, Turns
<1>3. Cached' = Cached /\ \A m : Source(m)' = Source(m)
  BY SameSources
<1>4. /\ Own \in Cached
      /\ \A k \in 1 .. n : \A m \in frames[k].visited : Met(m)
      /\ (\A x \in outcomes : x.how # "cut") =>
           \A o \in outcomes : o.how = "expanded" =>
             \A i \in 1 .. Len(files[o.from][Name(o)]) :
               LET m == files[o.from][Name(o)][i].ref IN Met(m) \/ Waits(m, frames)
  BY <1>2 DEF SchemaInv, NoneForgotten
<1>5. \A m : Met(m) => Met(m)'
  BY <1>1, <1>3 DEF Met
<1>6. how # "cut" => \A m : m = Ref => Met(m)'
  <2> SUFFICES ASSUME how # "cut", NEW m, m = Ref PROVE Met(m)'
    OBVIOUS
  <2>1. CASE how = "circular" /\ Ref \in Inner.visited
    <3>1. n \in 1 .. n /\ m \in frames[n].visited
      BY <1>2, <2>1
    <3> QED BY <1>4, <1>5, <3>1
  <2>2. CASE how = "unresolved" /\ Source(Ref) = Nowhere
    <3>1. Met(m)
      BY <2>2 DEF Met
    <3> QED BY <1>5, <3>1
  <2>3. CASE how \in {"expanded", "raw"}
    <3>1. new \in outcomes' /\ new.how \in {"expanded", "raw"} /\ Name(new) = m
      BY <1>1, <2>3
    <3> QED BY <3>1 DEF Met
  <2> QED BY <2>1, <2>2, <2>3
<1>7. ASSUME NEW k \in 1 .. Len(frames'), NEW m \in frames'[k].visited PROVE Met(m)'
  <2>1. CASE k < n
    <3>1. k \in 1 .. n /\ frames'[k] = frames[k]
      BY <1>2, <2>1
    <3> QED BY <1>4, <1>5, <1>7, <3>1
  <2>2. CASE k >= n
    <3>1. k \in n .. Len(frames')
      BY <1>2, <2>2
    <3>2. n \in 1 .. n
      BY <1>2
    <3>3. m \in frames[n].visited \/ (how # "cut" /\ m = Ref)
      BY <1>2, <1>7, <3>1
    <3> QED BY <1>4, <1>5, <1>6, <3>2, <3>3
  <2> QED BY <1>2, <2>1, <2>2
<1>8. ASSUME how # "cut", NEW m, Waits(m, frames) PROVE Met(m)' \/ Waits(m, frames')
  <2>1. PICK k \in 1 .. n : \E j \in 1 .. Len(frames[k].todo) : frames[k].todo[j].ref = m
    BY <1>8 DEF Waits
  <2>2. PICK j \in 1 .. Len(frames[k].todo) : frames[k].todo[j].ref = m
    BY <2>1
  <2>3. k \in 1 .. Len(frames')
    BY <1>2
  <2>4. CASE k # n
    <3>1. frames'[k] = frames[k]
      BY <1>2, <2>4
    <3> QED BY <2>2, <2>3, <3>1 DEF Waits
  <2>5. CASE k = n /\ j = 1
    BY <1>2, <1>6, <1>8, <2>2, <2>5
  <2>6. CASE k = n /\ j # 1
    <3>1. j - 1 \in 1 .. Len(frames'[n].todo) /\ frames'[n].todo[j - 1].ref = m
      BY <1>2, <2>2, <2>6
    <3> QED BY <2>3, <2>6, <3>1 DEF Waits
  <2> QED BY <2>4, <2>5, <2>6
<1>9. ASSUME \A x \in outcomes' : x.how # "cut",
             NEW o \in outcomes', o.how = "expanded",
             NEW i \in 1 .. Len(files[o.from][Name(o)]),
             NEW m, m = files[o.from][Name(o)][i].ref
      PROVE  Met(m)' \/ Waits(m, frames')
  <2>1. CASE o \in outcomes
    <3>1. Met(m) \/ Waits(m, frames)
      BY <1>1, <1>4, <1>9, <2>1
    <3>2. how # "cut"
      BY <1>1, <1>9
    <3> QED BY <1>5, <1>8, <3>1, <3>2
  <2>2. CASE o = new
    BY <1>1, <1>9, <2>2
  <2> QED BY <1>1, <2>1, <2>2
<1>10. Own \in Cached'
  BY <1>3, <1>4
<1> QED BY <1>7, <1>9, <1>10 DEF NoneForgotten, Waits

-----------------------------------------------------------------------------
(* The open calls *)

\* The schemas around a reference that was not met before differ, but for the root.
LEMMA UnderDiffers ==
  ASSUME SchemaInv, Turns, Ref \notin Inner.visited
  PROVE  /\ \A i \in 2 .. Len(Under) : Under[i] \in Inner.visited \cup {Ref}
         /\ \A i, j \in 2 .. Len(Under) : Under[i] = Under[j] => i = j
<1> DEFINE l == Len(Inner.names)
<1>1. /\ Len(frames) \in 1 .. Len(frames) /\ Inner = frames[Len(frames)]
      /\ l \in Nat /\ Len(Under) = l + 1 /\ Under[l + 1] = Ref
      /\ \A i \in 1 .. l : Under[i] = Inner.names[i]
  BY InnerCall, NextReference DEF SchemaInv, Turns
<1>2. /\ \A i \in 2 .. l : Inner.names[i] \in Inner.visited
      /\ \A i, j \in 2 .. l : Inner.names[i] = Inner.names[j] => i = j
  BY <1>1 DEF SchemaInv, AboveOf
<1> HIDE DEF l
<1>3. \A i \in 2 .. l + 1 : i = l + 1 \/ (i \in 2 .. l /\ i \in 1 .. l)
  BY <1>1
<1>4. \A i \in 2 .. l : Under[i] \in Inner.visited /\ Under[i] = Inner.names[i]
  BY <1>1, <1>2, <1>3
<1> QED BY <1>1, <1>2, <1>3, <1>4

\* The innermost call after it has turned.
LEMMA TurnedFields ==
  ASSUME SchemaInv, Turns
  PROVE  /\ Turned \in FrameType /\ Turned.at = Inner.at /\ Turned.names = Inner.names
         /\ Turned.taken = Inner.taken + 1 /\ Turned.todo = Tail(Inner.todo)
         /\ Turned.visited = Inner.visited
         /\ Visited \in FrameType /\ Visited.at = Inner.at /\ Visited.names = Inner.names
         /\ Visited.taken = Inner.taken + 1 /\ Visited.todo = Tail(Inner.todo)
         /\ Visited.visited = Inner.visited \cup {Ref}
<1>1. /\ Inner \in FrameType /\ Tail(Inner.todo) \in Seq(Child) /\ Inner.taken + 1 \in Nat
      /\ Ref \in Names
  <2>1. Inner \in FrameType /\ Inner.taken \in Nat
    BY InnerCall DEF SchemaInv, Turns
  <2>2. Tail(Inner.todo) \in Seq(Child) /\ Ref \in Names
    BY NextReference DEF SchemaInv
  <2> QED BY <2>1, <2>2
<1>2. /\ Turned \in FrameType /\ Turned.at = Inner.at /\ Turned.names = Inner.names
      /\ Turned.taken = Inner.taken + 1 /\ Turned.todo = Tail(Inner.todo)
      /\ Turned.visited = Inner.visited
  BY <1>1 DEF FrameType, Turned
<1>3. /\ Visited \in FrameType /\ Visited.at = Inner.at /\ Visited.names = Inner.names
      /\ Visited.taken = Inner.taken + 1 /\ Visited.todo = Tail(Inner.todo)
      /\ Visited.visited = Inner.visited \cup {Ref}
  BY <1>1, <1>2 DEF FrameType, Visited
<1> QED BY <1>2, <1>3

\* The types after a turn.
LEMMA TurnType ==
  ASSUME SchemaInv, Turns, NEW how, NEW from, Becomes(how, from),
         how \in {"expanded", "raw", "unresolved", "circular", "cut"},
         from \in Domains \cup {Nowhere},
         UNCHANGED <<files, loaded, phase, answer>>,
         frames' \in Seq(FrameType), Len(frames') \in Nat \ {0}
  PROVE  TypeOK'
<1>1. /\ At \in Seq(Nat) /\ Under \in Seq(Names)
      /\ outcomes' = outcomes \cup {Outcome(At, Under, how, from)}
  BY NextReference DEF SchemaInv, Becomes
<1>2. Outcome(At, Under, how, from) \in OutcomeType
  BY <1>1 DEF Outcome, OutcomeType
<1>3. /\ files \in Files /\ loaded \in Seq(DOMAIN files)
      /\ \A i, j \in 1 .. Len(loaded) : loaded[i] = loaded[j] => i = j
      /\ \A o \in outcomes \cup answer : o \in OutcomeType
  BY DEF SchemaInv, TypeOK
<1>4. \A o \in outcomes' \cup answer' : o \in OutcomeType
  BY <1>1, <1>2, <1>3
<1>5. phase = "resolving" /\ frames' # << >>
  BY DEF Turns
<1> QED BY <1>3, <1>4, <1>5 DEF TypeOK

\* The schemas around what becomes of a reference.
LEMMA TurnInside ==
  ASSUME SchemaInv, Turns, NEW how, NEW from, Becomes(how, from),
         how \in {"expanded", "raw"} => Ref \notin Inner.visited
  PROVE  NoSchemaInsideItself'
<1> DEFINE new == Outcome(At, Under, how, from)
<1>1. outcomes' = outcomes \cup {new} /\ new.how = how /\ new.names = Under
  BY NewOutcome DEF SchemaInv
<1> HIDE DEF new
<1>2. \A o \in outcomes : o.how \in {"expanded", "raw"} =>
        \A i, j \in 2 .. Len(o.names) : o.names[i] = o.names[j] => i = j
  BY DEF SchemaInv, NoSchemaInsideItself
<1>3. how \in {"expanded", "raw"} =>
        \A i, j \in 2 .. Len(Under) : Under[i] = Under[j] => i = j
  BY UnderDiffers
<1>4. \A o \in outcomes' : o.how \in {"expanded", "raw"} =>
        \A i, j \in 2 .. Len(o.names) : o.names[i] = o.names[j] => i = j
  BY <1>1, <1>2, <1>3
<1> QED BY <1>4 DEF NoSchemaInsideItself

\* A call on the schema that the innermost call is at, with nothing met below it yet.
LEMMA PushKeeps ==
  ASSUME NEW s \in Seq(FrameType), NEW out, NEW G \in FrameType, NEW n, n = Len(s),
         n \in Nat \ {0},
         PathOf(s), SeenOf(s, out), VisitedOf(s, out), AboveOf(s),
         Len(G.at) = n, \A i \in 1 .. n : G.at[i] = s[i].taken,
         \A o \in out : Len(o.at) \in Nat /\ ~(n + 1 <= Len(o.at) /\ Along(o.at, n + 1, s)),
         G.visited = s[n].visited,
         \A i \in 2 .. Len(G.names) : G.names[i] \in G.visited,
         \A i, j \in 2 .. Len(G.names) : G.names[i] = G.names[j] => i = j
  PROVE  LET t == Append(s, G) IN
         /\ t \in Seq(FrameType) /\ Len(t) = n + 1 /\ t[n + 1] = G
         /\ \A k \in 1 .. n : t[k] = s[k]
         /\ PathOf(t) /\ SeenOf(t, out) /\ VisitedOf(t, out) /\ AboveOf(t)
<1> DEFINE t == Append(s, G)
<1>1. /\ t \in Seq(FrameType) /\ Len(t) = n + 1 /\ t[n + 1] = G
      /\ \A k \in 1 .. n : t[k] = s[k]
  BY AppendProperties
<1> HIDE DEF t
<1>2. \A at : \A l \in 1 .. n + 1 : Along(at, l, t) <=> Along(at, l, s)
  <2>1. \A l \in 1 .. n + 1 : \A i \in 1 .. l - 1 : i \in 1 .. n
    OBVIOUS
  <2> QED BY <1>1, <2>1 DEF Along
<1>3. \A k \in 1 .. n + 1 : k = n + 1 \/ k \in 1 .. n
  OBVIOUS
<1>4. n + 1 \in 1 .. n + 1
  OBVIOUS
<1>5. PathOf(t)
  <2> SUFFICES ASSUME NEW k \in 1 .. n + 1
               PROVE  Len(t[k].at) = k - 1 /\ Along(t[k].at, k, t)
    BY <1>1 DEF PathOf
  <2>1. CASE k = n + 1
    <3>1. Along(G.at, n + 1, s)
      BY DEF Along
    <3> QED BY <1>1, <1>2, <2>1, <3>1
  <2>2. CASE k \in 1 .. n
    BY <1>1, <1>2, <2>2 DEF PathOf
  <2> QED BY <1>3, <2>1, <2>2
<1>6. SeenOf(t, out)
  <2> SUFFICES ASSUME NEW o \in out, NEW k \in 1 .. n + 1, k <= Len(o.at), Along(o.at, k, t)
               PROVE  o.at[k] <= t[k].taken
    BY <1>1 DEF SeenOf
  <2>1. k \in 1 .. n
    BY <1>2, <1>3
  <2> QED BY <1>1, <1>2, <2>1 DEF SeenOf
<1>7. ASSUME NEW k \in 1 .. n PROVE MetBy(k, t, out) = MetBy(k, s, out)
  <2>1. \A l \in 1 .. k : l \in 1 .. n + 1
    OBVIOUS
  <2> QED BY <1>2, <2>1 DEF MetBy
<1>8. MetBy(n + 1, t, out) = MetBy(n, s, out)
  <2>1. ASSUME NEW x \in out
        PROVE  Len(x.at) \in 1 .. n + 1 /\ Along(x.at, Len(x.at), t)
                 <=> Len(x.at) \in 1 .. n /\ Along(x.at, Len(x.at), s)
    <3>1. CASE Len(x.at) = n + 1
      BY <1>2, <1>4, <3>1
    <3>2. CASE Len(x.at) # n + 1
      <4>1. Len(x.at) \in 1 .. n + 1 <=> Len(x.at) \in 1 .. n
        BY <3>2
      <4> QED BY <1>2, <4>1
    <3> QED BY <3>1, <3>2
  <2> QED BY <2>1 DEF MetBy
<1>9. VisitedOf(t, out)
  <2> SUFFICES ASSUME NEW k \in 1 .. n + 1, NEW m
               PROVE  m \in t[k].visited <=> \E x \in MetBy(k, t, out) : Name(x) = m
    BY <1>1 DEF VisitedOf
  <2>1. CASE k = n + 1
    <3>1. n \in 1 .. n
      OBVIOUS
    <3>2. m \in s[n].visited <=> \E x \in MetBy(n, s, out) : Name(x) = m
      BY <3>1 DEF VisitedOf
    <3> QED BY <1>1, <1>8, <2>1, <3>2
  <2>2. CASE k \in 1 .. n
    <3>1. m \in s[k].visited <=> \E x \in MetBy(k, s, out) : Name(x) = m
      BY <2>2 DEF VisitedOf
    <3> QED BY <1>1, <1>7, <2>2, <3>1
  <2> QED BY <1>3, <2>1, <2>2
<1>10. AboveOf(t)
  <2> SUFFICES ASSUME NEW k \in 1 .. n + 1
               PROVE  /\ \A i \in 2 .. Len(t[k].names) : t[k].names[i] \in t[k].visited
                      /\ \A i, j \in 2 .. Len(t[k].names) :
                           t[k].names[i] = t[k].names[j] => i = j
    BY <1>1 DEF AboveOf
  <2>1. CASE k = n + 1
    BY <1>1, <2>1
  <2>2. CASE k \in 1 .. n
    BY <1>1, <2>2 DEF AboveOf
  <2> QED BY <1>3, <2>1, <2>2
<1> QED BY <1>1, <1>5, <1>6, <1>9, <1>10 DEF t

-----------------------------------------------------------------------------
(* The invariant is inductive *)

LEMMA NothingOpen ==
  ASSUME NEW out
  PROVE  /\ Len(<< >>) = 0
         /\ PathOf(<< >>) /\ SeenOf(<< >>, out) /\ VisitedOf(<< >>, out) /\ AboveOf(<< >>)
  BY DEF PathOf, SeenOf, VisitedOf, AboveOf

LEMMA SchemaInit ==
  ASSUME Init
  PROVE  SchemaInv
<1>1. PathOf(frames) /\ SeenOf(frames, outcomes) /\ VisitedOf(frames, outcomes) /\ AboveOf(frames)
  BY NothingOpen DEF Init
<1>2. TypeOK
  <2>1. loaded = << >> /\ Len(loaded) = 0 /\ loaded \in Seq(DOMAIN files)
    BY DEF Init
  <2> QED BY <2>1 DEF Init, TypeOK
<1>3. NoneForgotten /\ MarkedCircular /\ NoSchemaInsideItself
  BY DEF Init, NoneForgotten, MarkedCircular, NoSchemaInsideItself
<1> QED BY <1>1, <1>2, <1>3 DEF SchemaInv

\* A step with no call open before it or after it.
LEMMA QuietStep ==
  ASSUME SchemaInv, phase # "resolving", phase' \in {"idle", "looking"},
         UNCHANGED <<files, frames>>,
         loaded' \in Seq(DOMAIN files),
         \A i, j \in 1 .. Len(loaded') : loaded'[i] = loaded'[j] => i = j,
         \A o \in outcomes' \cup answer' : o \in OutcomeType,
         MarkedCircular', NoSchemaInsideItself'
  PROVE  SchemaInv'
<1>1. frames' = << >> /\ phase' # "resolving"
  BY DEF SchemaInv, TypeOK
<1>2. /\ PathOf(frames') /\ SeenOf(frames', outcomes')
      /\ VisitedOf(frames', outcomes') /\ AboveOf(frames')
  BY <1>1, NothingOpen
<1>3. TypeOK'
  <2>1. files \in Files /\ frames \in Seq(FrameType)
    BY DEF SchemaInv, TypeOK
  <2> QED BY <1>1, <2>1 DEF TypeOK
<1>4. NoneForgotten'
  BY <1>1 DEF NoneForgotten
<1> QED BY <1>2, <1>3, <1>4 DEF SchemaInv

\* The reference of the request body is the only one without schemas around it.
LEMMA RootOutcome ==
  ASSUME TypeOK, NEW how \in {"expanded", "unresolved"}, NEW from \in Domains \cup {Nowhere},
         outcomes' = {Outcome(<< >>, <<Root>>, how, from)}
  PROVE  /\ \A o \in outcomes' : o \in OutcomeType /\ Len(o.at) = 0 /\ Name(o) = Root
         /\ MarkedCircular' /\ NoSchemaInsideItself'
<1> DEFINE new == Outcome(<< >>, <<Root>>, how, from)
<1>1. /\ new \in OutcomeType /\ new.at = << >> /\ Len(new.at) = 0
      /\ new.names = <<Root>> /\ Len(new.names) = 1 /\ Name(new) = Root
  BY SchemaConstants DEF Outcome, OutcomeType, Name
<1> HIDE DEF new
<1>2. outcomes' = {new}
  BY DEF new
<1>3. \A i \in 2 .. 1 : FALSE
  OBVIOUS
<1> QED BY <1>1, <1>2, <1>3 DEF MarkedCircular, NoSchemaInsideItself

\* A turn that opens no call.
LEMMA TurnStep ==
  ASSUME SchemaInv, Turns, NEW how, NEW from, Becomes(how, from),
         how \in {"raw", "unresolved", "circular", "cut"}, from \in Domains \cup {Nowhere},
         NEW F \in FrameType,
         F.at = Inner.at, F.names = Inner.names, F.taken = Inner.taken + 1,
         F.todo = Tail(Inner.todo),
         F.visited = IF how = "cut" THEN Inner.visited ELSE Inner.visited \cup {Ref},
         how # "cut" => (how = "circular" <=> Ref \in Inner.visited),
         how = "unresolved" => Source(Ref) = Nowhere,
         frames' = Append(Outer, F), UNCHANGED <<files, loaded, phase, answer>>
  PROVE  SchemaInv'
<1>1. /\ frames' \in Seq(FrameType) /\ Len(frames') = Len(frames)
      /\ frames'[Len(frames)] = F
      /\ \A k \in 1 .. Len(frames) - 1 : frames'[k] = frames[k]
      /\ PathOf(frames') /\ SeenOf(frames', outcomes')
      /\ VisitedOf(frames', outcomes') /\ AboveOf(frames')
  BY TurnKeeps
<1>2. Len(frames) \in Nat \ {0}
  BY InnerCall DEF SchemaInv, Turns
<1>3. TypeOK'
  BY <1>1, <1>2, TurnType
<1>4. MarkedCircular'
  BY MarkedTurn
<1>5. NoSchemaInsideItself'
  BY TurnInside
<1>6. NoneForgotten'
  <2>1. \A k \in Len(frames) .. Len(frames') :
          frames'[k].visited = IF how = "cut" THEN Inner.visited ELSE Inner.visited \cup {Ref}
    BY <1>1, <1>2
  <2>2. /\ Len(frames') \in Nat /\ Len(frames) <= Len(frames')
        /\ \A k \in 1 .. Len(frames) - 1 : frames'[k] = frames[k]
        /\ frames'[Len(frames)].todo = Tail(Inner.todo)
    BY <1>1, <1>2
  <2>3. \/ how = "cut"
        \/ how = "circular" /\ Ref \in Inner.visited
        \/ how = "unresolved" /\ Source(Ref) = Nowhere
        \/ how \in {"expanded", "raw"}
    OBVIOUS
  <2>4. how # "expanded" /\ UNCHANGED <<files, loaded, phase>>
    OBVIOUS
  <2> QED BY <2>1, <2>2, <2>3, <2>4, TurnForgetsNone
<1> QED BY <1>1, <1>3, <1>4, <1>5, <1>6 DEF SchemaInv

\* The turn that opens a call.
LEMMA ExpandedStep ==
  ASSUME SchemaInv, NextIsExpanded
  PROVE  SchemaInv'
<1> DEFINE n == Len(frames)
           from == Source(Ref)
           s == Append(Outer, Visited)
           G == Frame(files[from][Ref], At, Under, Depth + 1, Visited.visited)
<1>1. /\ Turns /\ Depth < MaxDepth /\ Ref \notin Inner.visited /\ from # Nowhere
      /\ Becomes("expanded", from) /\ frames' = Append(s, G)
      /\ UNCHANGED <<files, loaded, phase, answer>>
  BY DEF NextIsExpanded
<1>2. /\ n \in Nat \ {0} /\ Inner = frames[n] /\ Inner.taken \in Nat
      /\ Inner.visited \subseteq Names
  BY <1>1, InnerCall DEF SchemaInv, Turns
<1>3. /\ At \in Seq(Nat) /\ Len(At) = n /\ At[n] = Inner.taken + 1
      /\ \A i \in 1 .. n - 1 : At[i] = frames[i].taken
      /\ Under \in Seq(Names) /\ Ref \in Names /\ Depth \in Nat
  BY <1>1, NextReference DEF SchemaInv
<1>4. /\ from \in Domains \cup {Nowhere} /\ files[from][Ref] \in Seq(Child)
  BY <1>1, <1>3, SourceFound DEF SchemaInv
<1>5. /\ Visited \in FrameType /\ Visited.at = Inner.at /\ Visited.names = Inner.names
      /\ Visited.taken = Inner.taken + 1 /\ Visited.todo = Tail(Inner.todo)
      /\ Visited.visited = Inner.visited \cup {Ref}
  BY <1>1, TurnedFields
<1>6. /\ s \in Seq(FrameType) /\ Len(s) = n /\ s[n] = Visited
      /\ \A k \in 1 .. n - 1 : s[k] = frames[k]
      /\ PathOf(s) /\ SeenOf(s, outcomes') /\ VisitedOf(s, outcomes') /\ AboveOf(s)
  BY <1>1, <1>5, TurnKeeps
<1>7. /\ G \in FrameType /\ G.at = At /\ G.names = Under
      /\ G.visited = Inner.visited \cup {Ref} /\ G.todo = files[from][Ref]
  <2>1. Depth + 1 \in 0 .. MaxDepth
    BY <1>1, <1>3, SchemaConstants
  <2>2. Visited.visited \subseteq Names /\ 0 \in Nat
    BY <1>2, <1>3, <1>5
  <2> HIDE DEF from
  <2> QED BY <1>3, <1>4, <1>5, <2>1, <2>2 DEF Frame, FrameType
<1>8. \A o \in outcomes' : Len(o.at) \in Nat /\ ~(n + 1 <= Len(o.at) /\ Along(o.at, n + 1, s))
  <2> DEFINE new == Outcome(At, Under, "expanded", from)
  <2>1. outcomes' = outcomes \cup {new} /\ new.at = At
    BY <1>1, NewOutcome DEF SchemaInv
  <2> HIDE DEF new
  <2>2. ASSUME NEW o \in outcomes
        PROVE  Len(o.at) \in Nat /\ ~(n + 1 <= Len(o.at) /\ Along(o.at, n + 1, s))
    <3>1. Len(o.at) \in Nat
      BY DEF SchemaInv, TypeOK, OutcomeType
    <3>2. ASSUME n + 1 <= Len(o.at), Along(o.at, n + 1, s) PROVE FALSE
      <4>1. \A i \in 1 .. n : o.at[i] = s[i].taken
        <5>1. \A i \in 1 .. n : i \in 1 .. n + 1 - 1
          BY <1>2
        <5> HIDE DEF s
        <5> QED BY <3>2, <5>1 DEF Along
      <4>2. o.at[n] = At[n] /\ \A i \in 1 .. n - 1 : o.at[i] = At[i]
        <5>1. n \in 1 .. n /\ \A i \in 1 .. n - 1 : i \in 1 .. n
          BY <1>2
        <5>2. s[n].taken = At[n]
          BY <1>3, <1>5, <1>6
        <5>3. \A i \in 1 .. n - 1 : s[i].taken = At[i]
          BY <1>3, <1>6
        <5> HIDE DEF s
        <5> QED BY <4>1, <5>1, <5>2, <5>3
      <4>3. n <= Len(o.at)
        BY <1>2, <3>1, <3>2
      <4>4. o.at[n] < At[n]
        BY <1>1, <4>2, <4>3, NewPlace
      <4> QED BY <1>2, <1>3, <4>2, <4>4
    <3> QED BY <3>1, <3>2
  <2>3. Len(new.at) \in Nat /\ ~(n + 1 <= Len(new.at))
    BY <1>2, <1>3, <2>1
  <2> QED BY <2>1, <2>2, <2>3
<1> HIDE DEF s, G
<1>9. /\ \A i \in 2 .. Len(Under) : Under[i] \in Inner.visited \cup {Ref}
      /\ \A i, j \in 2 .. Len(Under) : Under[i] = Under[j] => i = j
  BY <1>1, UnderDiffers
<1>10. \A i \in 1 .. n : G.at[i] = s[i].taken
  <2>1. \A i \in 1 .. n : i = n \/ i \in 1 .. n - 1
    BY <1>2
  <2> QED BY <1>3, <1>5, <1>6, <1>7, <2>1
<1>11. /\ frames' \in Seq(FrameType) /\ Len(frames') = n + 1 /\ frames'[n + 1] = G
       /\ \A k \in 1 .. n : frames'[k] = s[k]
       /\ PathOf(frames') /\ SeenOf(frames', outcomes')
       /\ VisitedOf(frames', outcomes') /\ AboveOf(frames')
  <2>1. Len(G.at) = n /\ G.visited = s[n].visited
    BY <1>3, <1>5, <1>6, <1>7
  <2>2. /\ \A i \in 2 .. Len(G.names) : G.names[i] \in G.visited
        /\ \A i, j \in 2 .. Len(G.names) : G.names[i] = G.names[j] => i = j
    BY <1>7, <1>9
  <2> DEFINE t == Append(s, G)
  <2>3. /\ t \in Seq(FrameType) /\ Len(t) = n + 1 /\ t[n + 1] = G
        /\ \A k \in 1 .. n : t[k] = s[k]
        /\ PathOf(t) /\ SeenOf(t, outcomes') /\ VisitedOf(t, outcomes') /\ AboveOf(t)
    BY <1>2, <1>6, <1>7, <1>8, <1>10, <2>1, <2>2, PushKeeps
  <2> QED BY <1>1, <2>3
<1>12. TypeOK'
  BY <1>1, <1>2, <1>4, <1>11, TurnType
<1>13. MarkedCircular'
  BY <1>1, MarkedTurn
<1>14. NoSchemaInsideItself'
  BY <1>1, TurnInside
<1>15. NoneForgotten'
  <2>1. /\ Len(frames') \in Nat /\ Len(frames) <= Len(frames')
        /\ \A k \in 1 .. Len(frames) - 1 : frames'[k] = frames[k]
        /\ frames'[Len(frames)].todo = Tail(Inner.todo)
    BY <1>2, <1>5, <1>6, <1>11
  <2>2. \A k \in Len(frames) .. Len(frames') :
          frames'[k].visited = IF "expanded" = "cut" THEN Inner.visited
                               ELSE Inner.visited \cup {Ref}
    <3>1. \A k \in n .. n + 1 : k = n \/ k = n + 1
      BY <1>2
    <3> QED BY <1>2, <1>5, <1>6, <1>7, <1>11, <3>1
  <2>3. \A i \in 1 .. Len(files[from][Ref]) : Waits(files[from][Ref][i].ref, frames')
    <3>1. n + 1 \in 1 .. Len(frames') /\ frames'[n + 1].todo = files[from][Ref]
      BY <1>2, <1>7, <1>11
    <3> QED BY <3>1 DEF Waits
  <2> HIDE DEF from
  <2> QED BY <1>1, <2>1, <2>2, <2>3, TurnForgetsNone
<1> QED BY <1>11, <1>12, <1>13, <1>14, <1>15 DEF SchemaInv

\* The innermost call has no references left.
LEMMA ReturnsStep ==
  ASSUME SchemaInv, Returns
  PROVE  SchemaInv'
<1> DEFINE m == Len(frames) - 1
<1>1. /\ phase = "resolving" /\ Inner.todo = << >> /\ frames' = Outer
      /\ UNCHANGED <<files, loaded, phase, outcomes, answer>>
  BY DEF Returns
<1>2. /\ Len(frames) > 1 /\ Len(frames) \in Nat /\ Inner = frames[Len(frames)]
      /\ Outer \in Seq(FrameType) /\ Len(Outer) = m /\ m \in Nat \ {0}
      /\ \A i \in 1 .. m : Outer[i] = frames[i]
  BY InnerCall DEF SchemaInv, Returns
<1>3. /\ frames' \in Seq(FrameType) /\ Len(frames') = m
      /\ \A k \in 1 .. m : frames'[k] = frames[k] /\ k \in 1 .. Len(frames)
  BY <1>1, <1>2
<1> HIDE DEF m
<1>4. \A at : \A l \in 1 .. m : Along(at, l, frames') <=> Along(at, l, frames)
  <2>1. \A l \in 1 .. m : \A i \in 1 .. l - 1 : i \in 1 .. m
    BY <1>2
  <2> QED BY <1>3, <2>1 DEF Along
<1>5. PathOf(frames')
  BY <1>3, <1>4 DEF SchemaInv, PathOf
<1>6. SeenOf(frames', outcomes')
  BY <1>1, <1>3, <1>4 DEF SchemaInv, SeenOf
<1>7. ASSUME NEW k \in 1 .. m PROVE MetBy(k, frames', outcomes') = MetBy(k, frames, outcomes)
  <2>1. \A l \in 1 .. k : l \in 1 .. m
    BY <1>2
  <2> QED BY <1>1, <1>4, <2>1 DEF MetBy
<1>8. VisitedOf(frames', outcomes')
  BY <1>3, <1>7 DEF SchemaInv, VisitedOf
<1>9. AboveOf(frames')
  BY <1>3 DEF SchemaInv, AboveOf
<1>10. TypeOK'
  <2>1. frames' # << >>
    BY <1>2, <1>3
  <2> QED BY <1>1, <1>3, <2>1 DEF SchemaInv, TypeOK
<1>11. MarkedCircular' /\ NoSchemaInsideItself'
  BY <1>1 DEF SchemaInv, MarkedCircular, NoSchemaInsideItself
<1>12. NoneForgotten'
  <2>1. Cached' = Cached /\ \A n : Source(n)' = Source(n)
    BY <1>1, SameSources
  <2>2. \A n : Met(n) => Met(n)'
    BY <1>1, <2>1 DEF Met
  <2>3. ASSUME NEW n, Waits(n, frames) PROVE Waits(n, frames')
    <3>1. PICK k \in 1 .. Len(frames) :
            \E j \in 1 .. Len(frames[k].todo) : frames[k].todo[j].ref = n
      BY <2>3 DEF Waits
    <3>2. k # Len(frames)
      BY <1>1, <1>2, <3>1
    <3>3. k \in 1 .. m
      BY <1>2, <3>1, <3>2 DEF m
    <3> QED BY <1>3, <3>1, <3>3 DEF Waits
  <2>4. /\ Own \in Cached
        /\ \A k \in 1 .. Len(frames) : \A n \in frames[k].visited : Met(n)
        /\ (\A x \in outcomes : x.how # "cut") =>
             \A o \in outcomes : o.how = "expanded" =>
               \A i \in 1 .. Len(files[o.from][Name(o)]) :
                 LET n == files[o.from][Name(o)][i].ref IN Met(n) \/ Waits(n, frames)
    BY <1>1 DEF SchemaInv, NoneForgotten
  <2>5. \A k \in 1 .. Len(frames') : \A n \in frames'[k].visited : Met(n)'
    BY <1>3, <2>2, <2>4
  <2>6. ASSUME \A x \in outcomes : x.how # "cut",
               NEW o \in outcomes, o.how = "expanded",
               NEW i \in 1 .. Len(files[o.from][Name(o)]),
               NEW n, n = files[o.from][Name(o)][i].ref
        PROVE  Met(n)' \/ Waits(n, frames')
    BY <2>2, <2>3, <2>4, <2>6
  <2> QED BY <1>1, <2>1, <2>4, <2>5, <2>6 DEF NoneForgotten, Waits
<1> QED BY <1>5, <1>6, <1>8, <1>9, <1>10, <1>11, <1>12 DEF SchemaInv

LEMMA AnswersStep ==
  ASSUME SchemaInv, Answers
  PROVE  SchemaInv'
<1>1. /\ phase' = "idle" /\ frames' = << >> /\ answer' = outcomes
      /\ UNCHANGED <<files, loaded, outcomes>>
  BY DEF Answers
<1>2. /\ PathOf(frames') /\ SeenOf(frames', outcomes')
      /\ VisitedOf(frames', outcomes') /\ AboveOf(frames')
  BY <1>1, NothingOpen
<1>3. TypeOK'
  <2>1. << >> \in Seq(FrameType)
    OBVIOUS
  <2> QED BY <1>1, <2>1 DEF SchemaInv, TypeOK
<1>4. NoneForgotten'
  BY <1>1 DEF NoneForgotten
<1>5. MarkedCircular' /\ NoSchemaInsideItself'
  BY <1>1 DEF SchemaInv, MarkedCircular, NoSchemaInsideItself
<1> QED BY <1>2, <1>3, <1>4, <1>5 DEF SchemaInv

\* The reference of the request body is found.
LEMMA RootStep ==
  ASSUME SchemaInv, RootIsExpanded
  PROVE  SchemaInv'
<1> DEFINE from == Source(Root)
           G == Frame(files[from][Root], << >>, <<Root>>, 0, {})
<1>1. /\ phase = "looking" /\ from # Nowhere /\ phase' = "resolving" /\ frames' = <<G>>
      /\ outcomes' = {Outcome(<< >>, <<Root>>, "expanded", from)}
      /\ UNCHANGED <<files, loaded, answer>>
  BY DEF RootIsExpanded
<1>2. /\ Own \in Cached /\ from \in Domains /\ files[from][Root] \in Seq(Child)
  BY <1>1, SourceFound, SchemaConstants DEF SchemaInv
<1>3. /\ G \in FrameType /\ G.at = << >> /\ G.names = <<Root>> /\ G.taken = 0
      /\ G.visited = {} /\ G.todo = files[from][Root]
  <2>1. /\ << >> \in Seq(Nat) /\ <<Root>> \in Seq(Names) /\ 0 \in 0 .. MaxDepth
        /\ {} \subseteq Names
    BY SchemaConstants
  <2> HIDE DEF from
  <2> QED BY <1>2, <2>1 DEF Frame, FrameType
<1> HIDE DEF G
<1>4. /\ frames' \in Seq(FrameType) /\ Len(frames') = 1 /\ frames'[1] = G
      /\ \A k \in 1 .. Len(frames') : k = 1
  BY <1>1, <1>3
<1>5. /\ \A o \in outcomes' : o \in OutcomeType /\ Len(o.at) = 0 /\ Name(o) = Root
      /\ MarkedCircular' /\ NoSchemaInsideItself'
  <2> HIDE DEF from
  <2> QED BY <1>1, <1>2, RootOutcome DEF SchemaInv
<1>6. PathOf(frames') /\ AboveOf(frames')
  <2>1. Len(<< >>) = 0 /\ Len(<<Root>>) = 1 /\ (\A i \in 1 .. 0 : FALSE) /\ (\A i \in 2 .. 1 : FALSE)
    OBVIOUS
  <2> QED BY <1>3, <1>4, <2>1 DEF PathOf, AboveOf, Along
<1>7. SeenOf(frames', outcomes')
  BY <1>4, <1>5 DEF SeenOf
<1>8. VisitedOf(frames', outcomes')
  BY <1>3, <1>4, <1>5 DEF VisitedOf, MetBy
<1>9. TypeOK'
  <2>1. \A o \in outcomes' \cup answer' : o \in OutcomeType
    BY <1>1, <1>5 DEF SchemaInv, TypeOK
  <2>2. frames' # << >>
    BY <1>4
  <2> QED BY <1>1, <1>4, <2>1, <2>2 DEF SchemaInv, TypeOK
<1>10. NoneForgotten'
  <2>1. Cached' = Cached
    BY <1>1, SameSources
  <2>2. \A o \in outcomes' : o.from = from /\ Name(o) = Root
    BY <1>1, <1>5 DEF Outcome
  <2>3. \A i \in 1 .. Len(files[from][Root]) : Waits(files[from][Root][i].ref, frames')
    BY <1>3, <1>4 DEF Waits
  <2>4. \A k \in 1 .. Len(frames') : frames'[k].visited = {}
    BY <1>3, <1>4
  <2> HIDE DEF from
  <2>5. \A o \in outcomes' : \A i \in 1 .. Len(files[o.from][Name(o)]) :
          Waits(files[o.from][Name(o)][i].ref, frames')
    BY <2>2, <2>3
  <2> QED BY <1>1, <1>2, <2>1, <2>4, <2>5 DEF NoneForgotten, Waits
<1> QED BY <1>5, <1>6, <1>7, <1>8, <1>9, <1>10 DEF SchemaInv

LEMMA SchemaNext ==
  ASSUME SchemaInv, [Next]_vars
  PROVE  SchemaInv'
<1>1. /\ loaded \in Seq(DOMAIN files)
      /\ \A i, j \in 1 .. Len(loaded) : loaded[i] = loaded[j] => i = j
      /\ \A o \in outcomes \cup answer : o \in OutcomeType
      /\ MarkedCircular /\ NoSchemaInsideItself
  BY DEF SchemaInv, TypeOK
<1>2. \A d : /\ LoadedWith(d) \in Seq(DOMAIN files)
             /\ \A i, j \in 1 .. Len(LoadedWith(d)) : LoadedWith(d)[i] = LoadedWith(d)[j] => i = j
  BY LoadedType DEF SchemaInv
<1>3. ASSUME NEW d \in Domains, Load(d) PROVE SchemaInv'
  <2>1. /\ phase = "idle" /\ loaded' = LoadedWith(d)
        /\ UNCHANGED <<files, phase, frames, outcomes, answer>>
    BY <1>3 DEF Load
  <2>2. MarkedCircular' /\ NoSchemaInsideItself'
    BY <1>1, <2>1 DEF MarkedCircular, NoSchemaInsideItself
  <2> QED BY <1>1, <1>2, <2>1, <2>2, QuietStep
<1>4. CASE Clear
  <2>1. /\ phase = "idle" /\ loaded' = << >> /\ answer' = {}
        /\ UNCHANGED <<files, phase, frames, outcomes>>
    BY <1>4 DEF Clear
  <2>2. MarkedCircular' /\ NoSchemaInsideItself'
    BY <1>1, <2>1 DEF MarkedCircular, NoSchemaInsideItself
  <2>3. loaded' \in Seq(DOMAIN files) /\ Len(loaded') = 0
    BY <2>1
  <2> QED BY <1>1, <2>1, <2>2, <2>3, QuietStep
<1>5. CASE Begin
  <2>1. /\ phase = "idle" /\ phase' = "looking" /\ loaded' = LoadedWith(Own) /\ outcomes' = {}
        /\ UNCHANGED <<files, frames, answer>>
    BY <1>5 DEF Begin
  <2>2. MarkedCircular' /\ NoSchemaInsideItself'
    BY <2>1 DEF MarkedCircular, NoSchemaInsideItself
  <2> QED BY <1>1, <1>2, <2>1, <2>2, QuietStep
<1>6. CASE RootIsExpanded
  BY <1>6, RootStep
<1>7. CASE RootIsUnresolved
  <2>1. /\ phase = "looking" /\ phase' = "idle"
        /\ outcomes' = {Outcome(<< >>, <<Root>>, "unresolved", Nowhere)}
        /\ answer' = outcomes' /\ UNCHANGED <<files, loaded, frames>>
    BY <1>7 DEF RootIsUnresolved
  <2>2. /\ \A o \in outcomes' : o \in OutcomeType
        /\ MarkedCircular' /\ NoSchemaInsideItself'
    BY <2>1, RootOutcome DEF SchemaInv
  <2> QED BY <1>1, <2>1, <2>2, QuietStep
<1>8. CASE NextIsCut
  <2>1. Turns /\ Becomes("cut", Nowhere) /\ frames' = Append(Outer, Turned)
        /\ UNCHANGED <<files, loaded, phase, answer>>
    BY <1>8 DEF NextIsCut
  <2> QED BY <2>1, TurnedFields, TurnStep
<1>9. CASE NextIsCircular
  <2>1. Turns /\ Becomes("circular", Nowhere) /\ frames' = Append(Outer, Turned)
        /\ Ref \in Inner.visited /\ UNCHANGED <<files, loaded, phase, answer>>
    BY <1>9 DEF NextIsCircular
  <2>2. /\ Turned \in FrameType /\ Turned.at = Inner.at /\ Turned.names = Inner.names
        /\ Turned.taken = Inner.taken + 1 /\ Turned.todo = Tail(Inner.todo)
        /\ Turned.visited = IF "circular" = "cut" THEN Inner.visited
                            ELSE Inner.visited \cup {Ref}
    BY <2>1, TurnedFields
  <2>3. "circular" # "cut" => ("circular" = "circular" <=> Ref \in Inner.visited)
    BY <2>1
  <2>4. "circular" # "unresolved" /\ "circular" \in {"raw", "unresolved", "circular", "cut"}
    OBVIOUS
  <2> QED BY <2>1, <2>2, <2>3, <2>4, TurnStep
<1>10. CASE NextIsUnresolved
  <2>1. Turns /\ Becomes("unresolved", Nowhere) /\ frames' = Append(Outer, Visited)
        /\ Ref \notin Inner.visited /\ Source(Ref) = Nowhere
        /\ UNCHANGED <<files, loaded, phase, answer>>
    BY <1>10 DEF NextIsUnresolved
  <2>2. /\ Visited \in FrameType /\ Visited.at = Inner.at /\ Visited.names = Inner.names
        /\ Visited.taken = Inner.taken + 1 /\ Visited.todo = Tail(Inner.todo)
        /\ Visited.visited = IF "unresolved" = "cut" THEN Inner.visited
                             ELSE Inner.visited \cup {Ref}
    BY <2>1, TurnedFields
  <2>3. "unresolved" # "cut" => ("unresolved" = "circular" <=> Ref \in Inner.visited)
    BY <2>1
  <2>4. "unresolved" \in {"raw", "unresolved", "circular", "cut"}
    OBVIOUS
  <2> QED BY <2>1, <2>2, <2>3, <2>4, TurnStep
<1>11. CASE NextIsRaw
  <2>1. Turns /\ Becomes("raw", Source(Ref)) /\ frames' = Append(Outer, Visited)
        /\ Ref \notin Inner.visited /\ UNCHANGED <<files, loaded, phase, answer>>
    BY <1>11 DEF NextIsRaw
  <2>2. /\ Visited \in FrameType /\ Visited.at = Inner.at /\ Visited.names = Inner.names
        /\ Visited.taken = Inner.taken + 1 /\ Visited.todo = Tail(Inner.todo)
        /\ Visited.visited = IF "raw" = "cut" THEN Inner.visited
                             ELSE Inner.visited \cup {Ref}
    BY <2>1, TurnedFields
  <2>3. "raw" # "cut" => ("raw" = "circular" <=> Ref \in Inner.visited)
    BY <2>1
  <2>4. Source(Ref) \in Domains \cup {Nowhere}
    BY <2>1, NextReference, SourceFound DEF SchemaInv
  <2>5. "raw" # "unresolved" /\ "raw" \in {"raw", "unresolved", "circular", "cut"}
    OBVIOUS
  <2> QED BY <2>1, <2>2, <2>3, <2>4, <2>5, TurnStep
<1>12. CASE NextIsExpanded
  BY <1>12, ExpandedStep
<1>13. CASE Returns
  BY <1>13, ReturnsStep
<1>14. CASE Answers
  BY <1>14, AnswersStep
<1>15. CASE UNCHANGED vars
  <2>1. UNCHANGED <<files, loaded, phase, frames, outcomes, answer>>
    BY <1>15 DEF vars
  <2>2. TypeOK'
    BY <2>1 DEF SchemaInv, TypeOK
  <2>3. MarkedCircular' /\ NoSchemaInsideItself'
    BY <1>1, <2>1 DEF MarkedCircular, NoSchemaInsideItself
  <2>4. NoneForgotten'
    <3>1. Cached' = Cached /\ \A n : Source(n)' = Source(n)
      BY <2>1, SameSources
    <3>2. \A n : Met(n) <=> Met(n)'
      BY <2>1, <3>1 DEF Met
    <3> QED BY <2>1, <3>1, <3>2 DEF SchemaInv, NoneForgotten, Waits
  <2> QED BY <2>1, <2>2, <2>3, <2>4 DEF SchemaInv
<1> QED BY <1>3, <1>4, <1>5, <1>6, <1>7, <1>8, <1>9, <1>10, <1>11, <1>12, <1>13, <1>14,
           <1>15 DEF Next

LEMMA SchemaAlways == Spec => []SchemaInv
<1>1. Init => SchemaInv
  BY SchemaInit
<1>2. SchemaInv /\ [Next]_vars => SchemaInv'
  BY SchemaNext
<1> QED BY <1>1, <1>2, PTL DEF Spec

-----------------------------------------------------------------------------
(* The theorems *)

\* The types of the cache, of the open calls and of the answer; in particular
\* schemaCache never has a domain twice, nor one whose file cannot be read.
THEOREM TypeCorrect == Spec => []TypeOK
<1>1. SchemaInv => TypeOK
  BY DEF SchemaInv
<1> QED BY <1>1, SchemaAlways, PTL

\* The marks of resolveNestedRefs(): _circular means that the same schema is referred to
\* above or by an elder sibling of the reference or of one above it, and nothing else.
THEOREM MarksAreExact == Spec => []MarkedCircular
<1>1. SchemaInv => MarkedCircular
  BY DEF SchemaInv
<1> QED BY <1>1, SchemaAlways, PTL

\* Whatever cycles the files have, the expansion follows none of them round, but for
\* the schema of the request body, which may be expanded once more.
THEOREM NothingInsideItself == Spec => []NoSchemaInsideItself
<1>1. SchemaInv => NoSchemaInsideItself
  BY DEF SchemaInv
<1> QED BY <1>1, SchemaAlways, PTL

\* Unless something was too deep, no schema is left out of the answer that a loaded domain
\* has: what is marked circular in one place is expanded in another.
THEOREM NothingIsLost == Spec => []EverySchemaExpanded
<1>1. ASSUME SchemaInv PROVE EverySchemaExpanded
  <2> SUFFICES ASSUME Finished, \A o \in outcomes : o.how \notin {"cut", "raw"},
                      NEW o \in outcomes, o.how = "expanded",
                      NEW i \in 1 .. Len(files[o.from][Name(o)]),
                      NEW n, n = files[o.from][Name(o)][i].ref,
                      NEW d \in Cached, Has(d, n)
               PROVE  \E x \in outcomes : x.how = "expanded" /\ Name(x) = n
    BY DEF EverySchemaExpanded
  <2>1. phase = "resolving" /\ Len(frames) = 1 /\ frames[1].todo = << >>
    BY DEF Finished, Inner
  <2>2. ~Waits(n, frames)
    BY <2>1 DEF Waits
  <2>3. Own \in Cached /\ (Met(n) \/ Waits(n, frames))
    BY <1>1, <2>1 DEF SchemaInv, NoneForgotten
  <2>4. n \in Names
    <3>1. files \in Files /\ Cached \subseteq DOMAIN files
      BY <1>1 DEF SchemaInv, TypeOK, Cached
    <3> QED BY <3>1, SchemaConstants DEF Has
  <2>5. Source(n) # Nowhere
    BY <1>1, <2>3, <2>4, SourceFound DEF SchemaInv
  <2> QED BY <2>2, <2>3, <2>5 DEF Met
<1> QED BY <1>1, SchemaAlways, PTL

-----------------------------------------------------------------------------
(* Asking again *)

\* What an answer is made of does not depend on when it is asked for, but for the sources:
\* each reference has its fate from the schema around it, from the depth and the set that
\* the call on that schema began with, and from those before it.  An entry ent[p] is that
\* depth and that set, for an expanded schema p.
Entry(depth, visited) == [depth |-> depth, visited |-> visited]

Body(p) == files[p.from][Name(p)]

\* The set of the call on p, entered with e, after t references.
SeenAfter(p, e, t) ==
  e.visited \cup {Body(p)[j].ref : j \in {i \in 1 .. t : e.depth + Body(p)[i].inside <= MaxDepth}}

\* What becomes of its i-th reference.
Fate(p, e, i) ==
  LET n == Body(p)[i].ref
      depth == e.depth + Body(p)[i].inside
      Is(how, from) == Outcome(Append(p.at, i), Append(p.names, n), how, from)
  IN IF depth > MaxDepth THEN Is("cut", Nowhere)
     ELSE IF n \in SeenAfter(p, e, i - 1) THEN Is("circular", Nowhere)
     ELSE IF Source(n) = Nowhere THEN Is("unresolved", Nowhere)
     ELSE Is(IF depth = MaxDepth THEN "raw" ELSE "expanded", Source(n))

EntryBelow(p, e, i) ==
  Entry(e.depth + Body(p)[i].inside + 1, SeenAfter(p, e, i - 1) \cup {Body(p)[i].ref})

RootExpanded == Outcome(<< >>, <<Root>>, "expanded", Source(Root))

Descends(o, p, i, ent) ==
  /\ p.how = "expanded" /\ i \in 1 .. Len(Body(p))
  /\ o = Fate(p, ent[p], i)
  /\ o.how = "expanded" => ent[o] = EntryBelow(p, ent[p], i)

\* Whatever was resolved has its fate.
Labelled(out, ent) ==
  \A o \in out : o.how # "unresolved" =>
    \/ Source(Root) # Nowhere /\ o = RootExpanded /\ ent[o] = Entry(0, {})
    \/ \E p \in out : \E i \in 1 .. Len(Body(p)) : Descends(o, p, i, ent)

HasChild(out, p, i, ent) == \E o \in out : Descends(o, p, i, ent)

\* f is the call on p.
Opens(out, f, p, ent) ==
  /\ p \in out /\ p.how = "expanded" /\ f.at = p.at /\ f.names = p.names
  /\ f.depth = ent[p].depth /\ f.visited = SeenAfter(p, ent[p], f.taken)
  /\ f.taken + Len(f.todo) = Len(Body(p))
  /\ \A j \in 1 .. Len(f.todo) : f.todo[j] = Body(p)[f.taken + j]
  /\ \A i \in 1 .. f.taken : HasChild(out, p, i, ent)

\* The open calls s have made the outcomes out, and will see to what is missing.
RunOf(out, s, ent) ==
  /\ Labelled(out, ent)
  /\ Source(Root) # Nowhere /\ RootExpanded \in out /\ ent[RootExpanded] = Entry(0, {})
  /\ \A k \in 1 .. Len(s) : \E p \in out : Opens(out, s[k], p, ent)
  /\ \A p \in out : p.how = "expanded" =>
       \/ \E k \in 1 .. Len(s) : Opens(out, s[k], p, ent)
       \/ \A i \in 1 .. Len(Body(p)) : HasChild(out, p, i, ent)

\* The reference that is next becomes that.
Fits(how, from) ==
  \/ how = "cut" /\ from = Nowhere /\ Depth > MaxDepth
  \/ how = "circular" /\ from = Nowhere /\ Depth <= MaxDepth /\ Ref \in Inner.visited
  \/ /\ how = "unresolved" /\ from = Nowhere /\ Depth <= MaxDepth
     /\ Ref \notin Inner.visited /\ Source(Ref) = Nowhere
  \/ /\ how = (IF Depth = MaxDepth THEN "raw" ELSE "expanded") /\ from = Source(Ref)
     /\ Depth <= MaxDepth /\ Ref \notin Inner.visited /\ Source(Ref) # Nowhere

RepeatInv ==
  /\ SchemaInv
  /\ \E ent : Labelled(answer, ent)
  /\ phase = "resolving" => \E ent : RunOf(outcomes, frames, ent)

\* A schema that is found is found in the same domain after another one is loaded.
LEMMA SourceStays ==
  ASSUME TypeOK, NEW d, files' = files, loaded' = LoadedWith(d), NEW n, Source(n) # Nowhere
  PROVE  Source(n)' = Source(n)
<1>1. /\ loaded \in Seq(DOMAIN files) /\ Len(loaded) \in Nat
  BY DEF TypeOK
<1>2. CASE ~(d \in DOMAIN files /\ d \notin Cached)
  <2>1. loaded' = loaded
    BY <1>2 DEF LoadedWith
  <2> QED BY <2>1, SameSources
<1>3. CASE d \in DOMAIN files /\ d \notin Cached
  <2> DEFINE l == Len(loaded)
  <2>1. /\ loaded' = Append(loaded, d) /\ Len(loaded') = l + 1
        /\ loaded'[l + 1] = d /\ \A i \in 1 .. l : loaded'[i] = loaded[i]
    BY <1>1, <1>3 DEF LoadedWith
  <2>2. \A i \in 1 .. l + 1 : i = l + 1 \/ i \in 1 .. l
    BY <1>1
  <2>3. Cached \subseteq Cached'
    BY <1>1, <2>1 DEF Cached
  <2>4. CASE Has(Own, n)
    BY <2>3, <2>4 DEF Source, Has
  <2>5. CASE ~Has(Own, n)
    <3> DEFINE Good(i) == /\ Has(loaded[i], n)
                          /\ \A j \in 1 .. i - 1 : ~Has(loaded[j], n)
    <3>1. Own \in Cached /\ \E e \in Cached : Has(e, n)
      BY <2>5 DEF Source
    <3>2. \E i \in 1 .. l : Good(i)
      <4> DEFINE Places == {i \in 1 .. l : Has(loaded[i], n)}
      <4>1. Places # {} /\ Places \in SUBSET Nat
        BY <1>1, <3>1 DEF Cached
      <4>2. PICK i \in Places : \A j \in Places : i <= j
        <5> HIDE DEF Places
        <5> QED BY <4>1, LeastNumber
      <4>3. \A j \in 1 .. i - 1 : ~Has(loaded[j], n)
        BY <1>1, <4>2
      <4> QED BY <4>2, <4>3
    <3>3. \A i \in 1 .. l : Has(loaded[i], n) <=> Has(loaded[i], n)'
      <4>1. \A i \in 1 .. l : loaded[i] \in Cached /\ loaded'[i] \in Cached'
        BY <2>1, <2>2, <2>3 DEF Cached
      <4> QED BY <2>1, <4>1 DEF Has
    <3>4. PICK k \in 1 .. l : Good(k)
      BY <3>2
    <3>5. Source(n) = loaded[k]
      <4>1. \A i \in 1 .. l : Good(i) => i = k
        BY <1>1, <3>4
      <4>2. (CHOOSE i \in 1 .. l : Good(i)) = k
        BY <3>4, <4>1
      <4> QED BY <2>5, <3>1, <4>2 DEF Source
    <3>6. Source(n)' = loaded'[k]
      <4>1. \A i \in 1 .. l + 1 : Good(i)' => i = k
        <5> SUFFICES ASSUME NEW i \in 1 .. l + 1, Good(i)' PROVE i = k
          OBVIOUS
        <5>1. CASE i < k
          <6>1. i \in 1 .. l /\ i \in 1 .. k - 1
            BY <1>1, <3>4, <5>1
          <6> QED BY <3>3, <3>4, <6>1
        <5>2. CASE k < i
          <6>1. k \in 1 .. i - 1
            BY <5>2
          <6> QED BY <3>3, <3>4, <6>1
        <5> QED BY <5>1, <5>2
      <4>2. Good(k)' /\ k \in 1 .. l + 1
        <5>1. \A j \in 1 .. k - 1 : j \in 1 .. l
          OBVIOUS
        <5> QED BY <1>1, <3>3, <3>4, <5>1
      <4>3. (CHOOSE i \in 1 .. l + 1 : Good(i)') = k
        BY <4>1, <4>2
      <4>4. ~Has(Own, n)' /\ Own \in Cached' /\ \E e \in Cached' : Has(e, n)'
        <5>1. ~Has(Own, n)' /\ Own \in Cached'
          BY <2>3, <2>5, <3>1 DEF Has
        <5>2. \A e \in Cached : Has(e, n) => Has(e, n)'
          BY <2>3 DEF Has
        <5> QED BY <2>3, <3>1, <5>1, <5>2
      <4> QED BY <2>1, <4>3, <4>4 DEF Source
    <3> QED BY <2>1, <3>4, <3>5, <3>6
  <2> QED BY <2>4, <2>5
<1> QED BY <1>2, <1>3

LEMMA LabelledStays ==
  ASSUME files' = files, \A n : Source(n) # Nowhere => Source(n)' = Source(n),
         NEW out, NEW ent, Labelled(out, ent)
  PROVE  Labelled(out, ent)'
<1>1. ASSUME NEW p, NEW e, NEW i, Fate(p, e, i).how # "unresolved"
      PROVE  Fate(p, e, i)' = Fate(p, e, i)
  <2> DEFINE n == Body(p)[i].ref
             depth == e.depth + Body(p)[i].inside
             Is(how, from) == Outcome(Append(p.at, i), Append(p.names, n), how, from)
  <2>1. Body(p)' = Body(p) /\ SeenAfter(p, e, i - 1)' = SeenAfter(p, e, i - 1)
    BY DEF Body, SeenAfter
  <2>2. CASE depth > MaxDepth \/ n \in SeenAfter(p, e, i - 1)
    BY <2>1, <2>2 DEF Fate
  <2>3. CASE ~(depth > MaxDepth) /\ n \notin SeenAfter(p, e, i - 1)
    <3>1. Source(n) # Nowhere
      <4> SUFFICES ASSUME Source(n) = Nowhere PROVE FALSE
        OBVIOUS
      <4>1. Fate(p, e, i) = Is("unresolved", Nowhere)
        BY <2>3 DEF Fate
      <4> QED BY <1>1, <4>1 DEF Outcome
    <3>2. \A m : m = n => Source(m)' = Source(m)
      BY <3>1
    <3> QED BY <2>1, <2>3, <3>1, <3>2 DEF Fate
  <2> QED BY <2>2, <2>3
<1>2. ASSUME NEW o, NEW p, NEW i, o.how # "unresolved", Descends(o, p, i, ent)
      PROVE  Descends(o, p, i, ent)'
  <2>1. Fate(p, ent[p], i)' = Fate(p, ent[p], i)
    BY <1>1, <1>2 DEF Descends
  <2>2. Body(p)' = Body(p) /\ EntryBelow(p, ent[p], i)' = EntryBelow(p, ent[p], i)
    BY DEF Body, SeenAfter, EntryBelow
  <2> QED BY <1>2, <2>1, <2>2 DEF Descends
<1>3. Source(Root) # Nowhere => Source(Root)' = Source(Root) /\ RootExpanded' = RootExpanded
  BY DEF RootExpanded
<1>4. \A p : Body(p)' = Body(p)
  BY DEF Body
<1> QED BY <1>2, <1>3, <1>4 DEF Labelled

LEMMA SameRun ==
  ASSUME UNCHANGED <<files, loaded>>, NEW out, NEW s, NEW ent, RunOf(out, s, ent)
  PROVE  RunOf(out, s, ent)'
<1>1. \A n : Source(n)' = Source(n)
  BY SameSources
<1>2. \A p : Body(p)' = Body(p)
  BY DEF Body
<1>3. \A p, e, i : SeenAfter(p, e, i)' = SeenAfter(p, e, i)
  BY <1>2 DEF SeenAfter
<1>4. \A p, e, i : Fate(p, e, i)' = Fate(p, e, i)
  BY <1>1, <1>2, <1>3 DEF Fate
<1>5. \A o, p, i : Descends(o, p, i, ent)' <=> Descends(o, p, i, ent)
  BY <1>2, <1>3, <1>4 DEF Descends, EntryBelow
<1>6. \A p, i : HasChild(out, p, i, ent)' <=> HasChild(out, p, i, ent)
  BY <1>5 DEF HasChild
<1>7. \A f, p : Opens(out, f, p, ent)' <=> Opens(out, f, p, ent)
  BY <1>2, <1>3, <1>6 DEF Opens
<1>8. Labelled(out, ent)'
  BY <1>1, LabelledStays DEF RunOf
<1>9. RootExpanded' = RootExpanded
  BY <1>1 DEF RootExpanded
<1> QED BY <1>1, <1>2, <1>6, <1>7, <1>8, <1>9 DEF RunOf

\* What the innermost call turns to has its fate from the schema it is on.
LEMMA TurnFate ==
  ASSUME SchemaInv, Turns, NEW ent, NEW q, Opens(outcomes, Inner, q, ent),
         NEW how, NEW from, Fits(how, from)
  PROVE  /\ Inner.taken + 1 \in 1 .. Len(Body(q))
         /\ Len(Tail(Inner.todo)) + (Inner.taken + 1) = Len(Body(q))
         /\ \A j \in 1 .. Len(Tail(Inner.todo)) :
              Tail(Inner.todo)[j] = Body(q)[Inner.taken + 1 + j]
         /\ Fate(q, ent[q], Inner.taken + 1) = Outcome(At, Under, how, from)
         /\ EntryBelow(q, ent[q], Inner.taken + 1) = Entry(Depth + 1, Inner.visited \cup {Ref})
         /\ SeenAfter(q, ent[q], Inner.taken + 1)
              = IF how = "cut" THEN Inner.visited ELSE Inner.visited \cup {Ref}
<1> DEFINE i == Inner.taken + 1
<1>1. /\ Inner.taken \in Nat /\ Inner.todo \in Seq(Child)
      /\ Len(Inner.todo) \in Nat \ {0} /\ Depth \in Nat /\ MaxDepth \in Nat
  <2>1. Inner.taken \in Nat /\ Inner.todo \in Seq(Child)
    BY InnerCall DEF SchemaInv, Turns
  <2>2. Len(Inner.todo) \in Nat \ {0} /\ Depth \in Nat
    BY NextReference DEF SchemaInv
  <2> QED BY <2>1, <2>2, SchemaConstants
<1>2. /\ Len(Tail(Inner.todo)) = Len(Inner.todo) - 1
      /\ \A j \in 1 .. Len(Inner.todo) - 1 : Tail(Inner.todo)[j] = Inner.todo[j + 1]
  BY NextReference DEF SchemaInv
<1>3. /\ Inner.at = q.at /\ Inner.names = q.names /\ Inner.depth = ent[q].depth
      /\ Inner.visited = SeenAfter(q, ent[q], Inner.taken)
      /\ Inner.taken + Len(Inner.todo) = Len(Body(q))
      /\ \A j \in 1 .. Len(Inner.todo) : Inner.todo[j] = Body(q)[Inner.taken + j]
  BY DEF Opens
<1>4. Body(q)[i] = Inner.todo[1] /\ Head(Inner.todo) = Inner.todo[1]
  BY <1>1, <1>3
<1>5. Ref = Body(q)[i].ref /\ Depth = ent[q].depth + Body(q)[i].inside
  BY <1>3, <1>4 DEF Ref, Depth
<1>6. At = Append(q.at, i) /\ Under = Append(q.names, Ref)
  BY <1>3 DEF At, Under
<1>7. i - 1 = Inner.taken
  BY <1>1
<1>8. Fate(q, ent[q], i) = Outcome(At, Under, how, from)
  <2>1. SeenAfter(q, ent[q], i - 1) = Inner.visited
    BY <1>3, <1>7
  <2> HIDE DEF i
  <2>2. CASE Depth > MaxDepth
    BY <1>1, <1>5, <1>6, <2>2 DEF Fate, Fits
  <2>3. CASE Depth <= MaxDepth
    <3>1. ~(Depth > MaxDepth)
      BY <1>1, <2>3
    <3>2. CASE Ref \in Inner.visited
      BY <1>5, <1>6, <2>1, <3>1, <3>2 DEF Fate, Fits
    <3>3. CASE Ref \notin Inner.visited
      BY <1>5, <1>6, <2>1, <3>1, <3>3 DEF Fate, Fits
    <3> QED BY <3>2, <3>3
  <2> QED BY <1>1, <2>2, <2>3
<1>9. EntryBelow(q, ent[q], i) = Entry(Depth + 1, Inner.visited \cup {Ref})
  BY <1>3, <1>5, <1>7 DEF EntryBelow
<1>10. SeenAfter(q, ent[q], i)
         = IF how = "cut" THEN Inner.visited ELSE Inner.visited \cup {Ref}
  <2>1. how = "cut" <=> ~(Depth <= MaxDepth)
    BY <1>1 DEF Fits
  <2>2. \A l \in 1 .. i : l = i \/ l \in 1 .. Inner.taken
    BY <1>1
  <2>3. Inner.taken \in Nat /\ i \in 1 .. i /\ \A l \in 1 .. Inner.taken : l \in 1 .. i
    BY <1>1
  <2> DEFINE Among(t) == {Body(q)[j].ref : j \in {l \in 1 .. t : ent[q].depth + Body(q)[l].inside <= MaxDepth}}
  <2>4. Among(i) = IF Depth <= MaxDepth THEN Among(Inner.taken) \cup {Ref} ELSE Among(Inner.taken)
    <3> HIDE DEF i
    <3>1. {l \in 1 .. i : ent[q].depth + Body(q)[l].inside <= MaxDepth}
            = {l \in 1 .. Inner.taken : ent[q].depth + Body(q)[l].inside <= MaxDepth}
                \cup (IF Depth <= MaxDepth THEN {i} ELSE {})
      BY <1>5, <2>2, <2>3
    <3> QED BY <1>5, <3>1
  <2>5. \A t : SeenAfter(q, ent[q], t) = ent[q].visited \cup Among(t)
    BY DEF SeenAfter
  <2>6. Inner.visited = ent[q].visited \cup Among(Inner.taken)
    BY <1>3, <2>5
  <2>7. SeenAfter(q, ent[q], i) = ent[q].visited \cup Among(i)
    BY <2>5
  <2> HIDE DEF Among, i
  <2>8. CASE how = "cut"
    BY <2>1, <2>4, <2>6, <2>7, <2>8
  <2>9. CASE how # "cut"
    <3>1. Among(i) = Among(Inner.taken) \cup {Ref}
      BY <2>1, <2>4, <2>9
    <3> QED BY <2>6, <2>7, <2>9, <3>1
  <2> QED BY <2>8, <2>9
<1>11. i \in 1 .. Len(Body(q)) /\ Len(Tail(Inner.todo)) + i = Len(Body(q))
  BY <1>1, <1>2, <1>3
<1>12. ASSUME NEW j \in 1 .. Len(Tail(Inner.todo)) PROVE Tail(Inner.todo)[j] = Body(q)[i + j]
  <2>1. j + 1 \in 1 .. Len(Inner.todo) /\ Inner.taken + (j + 1) = i + j
    BY <1>1, <1>2
  <2>2. Tail(Inner.todo)[j] = Inner.todo[j + 1]
    BY <1>2
  <2> QED BY <1>3, <2>1, <2>2
<1> QED BY <1>8, <1>9, <1>10, <1>11, <1>12

\* What the run is made of stays, and the innermost call, one reference further, with the
\* call that the reference may open, sees to what is missing.
LEMMA RunTurn ==
  ASSUME SchemaInv, Turns, NEW ent, RunOf(outcomes, frames, ent),
         NEW how, NEW from, Fits(how, from),
         NEW out, out = outcomes \cup {Outcome(At, Under, how, from)},
         NEW s, \A k \in 1 .. Len(frames) - 1 : s[k] = frames[k],
         NEW F, F = s[Len(frames)],
         F.at = Inner.at, F.names = Inner.names, F.depth = Inner.depth,
         F.taken = Inner.taken + 1, F.todo = Tail(Inner.todo),
         F.visited = IF how = "cut" THEN Inner.visited ELSE Inner.visited \cup {Ref},
         IF how = "expanded"
         THEN /\ Len(s) = Len(frames) + 1
              /\ s[Len(frames) + 1]
                   = Frame(files[from][Ref], At, Under, Depth + 1, Inner.visited \cup {Ref})
         ELSE Len(s) = Len(frames)
  PROVE  \E f : RunOf(out, s, f)
<1> DEFINE n == Len(frames)
           new == Outcome(At, Under, how, from)
           entry == Entry(Depth + 1, Inner.visited \cup {Ref})
           f == [o \in out |-> IF o = new THEN entry ELSE ent[o]]
           i == Inner.taken + 1
<1>1. /\ n \in Nat \ {0} /\ Inner = frames[n] /\ Inner.taken \in Nat
      /\ n \in 1 .. n /\ \A k \in 1 .. n : k = n \/ k \in 1 .. n - 1
      /\ 1 .. n - 1 \subseteq 1 .. n /\ Len(At) = n
  BY InnerCall, NextReference DEF SchemaInv, Turns
<1>2. new \notin outcomes
  <2> SUFFICES ASSUME new \in outcomes PROVE FALSE
    OBVIOUS
  <2>1. new.at = At
    BY DEF Outcome
  <2>2. At[n] \in Nat
    BY NextReference, <1>1 DEF SchemaInv
  <2>3. Len(frames) <= Len(new.at) /\ \A k \in 1 .. Len(frames) - 1 : new.at[k] = At[k]
    BY <1>1, <2>1
  <2> HIDE DEF new
  <2>4. new.at[Len(frames)] < At[Len(frames)]
    BY <2>3, NewPlace
  <2> QED BY <1>1, <2>1, <2>2, <2>4
<1>3. /\ new.at = At /\ new.names = Under /\ new.how = how /\ new.from = from
      /\ new \in out /\ outcomes \subseteq out /\ f[new] = entry
      /\ \A o \in out : o = new \/ o \in outcomes
  BY DEF Outcome
<1>4. \A o \in outcomes : f[o] = ent[o]
  BY <1>2, <1>3
<1> HIDE DEF new, f, entry
<1>5. ASSUME NEW o \in outcomes, NEW p \in outcomes, NEW j, Descends(o, p, j, ent)
      PROVE  Descends(o, p, j, f)
  <2>1. f[o] = ent[o] /\ f[p] = ent[p]
    BY <1>4
  <2> QED BY <1>5, <2>1 DEF Descends
<1>6. \A p \in outcomes : \A j : HasChild(outcomes, p, j, ent) => HasChild(out, p, j, f)
  BY <1>3, <1>5 DEF HasChild
<1>7. ASSUME NEW g, NEW p, Opens(outcomes, g, p, ent)
      PROVE  Opens(out, g, p, f)
  <2>1. p \in outcomes /\ f[p] = ent[p] /\ p \in out
    BY <1>3, <1>4, <1>7 DEF Opens
  <2> QED BY <1>6, <1>7, <2>1 DEF Opens
<1>8. ASSUME NEW p, Opens(outcomes, Inner, p, ent)
      PROVE  Descends(new, p, i, f) /\ Opens(out, F, p, f) /\ p \in outcomes
  <2>1. /\ p \in outcomes /\ f[p] = ent[p] /\ p \in out /\ p.how = "expanded"
        /\ Inner.at = p.at /\ Inner.names = p.names /\ Inner.depth = ent[p].depth
    BY <1>3, <1>4, <1>8 DEF Opens
  <2>2. /\ i \in 1 .. Len(Body(p))
        /\ Len(Tail(Inner.todo)) + i = Len(Body(p))
        /\ \A j \in 1 .. Len(Tail(Inner.todo)) : Tail(Inner.todo)[j] = Body(p)[i + j]
        /\ Fate(p, ent[p], i) = new
        /\ EntryBelow(p, ent[p], i) = entry
        /\ SeenAfter(p, ent[p], i)
             = IF how = "cut" THEN Inner.visited ELSE Inner.visited \cup {Ref}
    BY <1>8, TurnFate DEF new, entry
  <2> HIDE DEF i
  <2>3. Descends(new, p, i, f)
    BY <1>3, <2>1, <2>2 DEF Descends
  <2>4. \A j \in 1 .. F.taken : HasChild(out, p, j, f)
    <3>1. \A j \in 1 .. F.taken : j = i \/ j \in 1 .. Inner.taken
      BY <1>1 DEF i
    <3>2. \A j \in 1 .. Inner.taken : HasChild(out, p, j, f)
      BY <1>6, <1>8, <2>1 DEF Opens
    <3>3. HasChild(out, p, i, f)
      BY <1>3, <2>3 DEF HasChild
    <3> QED BY <3>1, <3>2, <3>3
  <2>5. F.taken = i /\ i + Len(F.todo) = Len(Body(p))
    <3>1. Len(Tail(Inner.todo)) \in Nat /\ i \in Nat
      BY NextReference, <1>1 DEF SchemaInv, i
    <3> QED BY <2>2, <3>1 DEF i
  <2>6. F.visited = SeenAfter(p, f[p], F.taken)
    BY <2>1, <2>2, <2>5
  <2> QED BY <2>1, <2>2, <2>3, <2>4, <2>5, <2>6 DEF Opens
<1>9. PICK q : Opens(outcomes, Inner, q, ent)
  BY <1>1 DEF RunOf
<1>10. Labelled(out, f)
  <2> SUFFICES ASSUME NEW o \in out, o.how # "unresolved"
               PROVE  \/ Source(Root) # Nowhere /\ o = RootExpanded /\ f[o] = Entry(0, {})
                      \/ \E p \in out : \E j \in 1 .. Len(Body(p)) : Descends(o, p, j, f)
    BY DEF Labelled
  <2>1. CASE o = new
    BY <1>3, <1>8, <1>9, <2>1 DEF Descends
  <2>2. CASE o \in outcomes
    <3>1. \/ Source(Root) # Nowhere /\ o = RootExpanded /\ ent[o] = Entry(0, {})
          \/ \E p \in outcomes : \E j \in 1 .. Len(Body(p)) : Descends(o, p, j, ent)
      BY <2>2 DEF RunOf, Labelled
    <3> QED BY <1>3, <1>4, <1>5, <2>2, <3>1
  <2> QED BY <1>3, <2>1, <2>2
<1>11. ASSUME how = "expanded" PROVE Opens(out, s[n + 1], new, f)
  <2> DEFINE g == s[n + 1]
  <2>1. /\ g.at = At /\ g.names = Under /\ g.depth = Depth + 1 /\ g.todo = files[from][Ref]
        /\ g.taken = 0 /\ g.visited = Inner.visited \cup {Ref}
    BY <1>11 DEF Frame
  <2> HIDE DEF g
  <2>2. Name(new) = Ref
    BY <1>3, NextReference DEF SchemaInv, Name
  <2>3. Body(new) = g.todo
    BY <1>3, <2>1, <2>2 DEF Body
  <2>4. Len(g.todo) \in Nat
    <3>1. Source(Ref) # Nowhere /\ from = Source(Ref)
      BY <1>11 DEF Fits
    <3>2. files[Source(Ref)][Ref] \in Seq(Child)
      BY <3>1, SourceFound, NextReference DEF SchemaInv
    <3> QED BY <2>1, <3>1, <3>2
  <2>5. f[new].depth = Depth + 1 /\ f[new].visited = Inner.visited \cup {Ref}
    BY <1>3 DEF entry, Entry
  <2>6. SeenAfter(new, f[new], 0) = f[new].visited
    BY DEF SeenAfter
  <2>7. \A j \in 1 .. Len(g.todo) : 0 + j = j
    OBVIOUS
  <2>8. Opens(out, g, new, f)
    BY <1>3, <1>11, <2>1, <2>3, <2>4, <2>5, <2>6, <2>7 DEF Opens
  <2> QED BY <2>8 DEF g
<1>12. /\ n \in 1 .. Len(s) /\ 1 .. n - 1 \subseteq 1 .. Len(s)
       /\ how = "expanded" => n + 1 \in 1 .. Len(s)
       /\ \A k \in 1 .. Len(s) : k \in 1 .. n - 1 \/ k = n \/ (k = n + 1 /\ how = "expanded")
  <2>1. CASE how = "expanded"
    BY <1>1, <2>1
  <2>2. CASE how # "expanded"
    BY <1>1, <2>2
  <2> QED BY <2>1, <2>2
<1>13. ASSUME NEW k \in 1 .. Len(s) PROVE \E p \in out : Opens(out, s[k], p, f)
  <2>1. CASE k \in 1 .. n - 1
    <3>1. k \in 1 .. Len(frames) /\ s[k] = frames[k]
      BY <1>1, <2>1
    <3>2. PICK p \in outcomes : Opens(outcomes, frames[k], p, ent)
      BY <3>1 DEF RunOf
    <3> QED BY <1>3, <1>7, <3>1, <3>2
  <2>2. CASE k = n
    BY <1>3, <1>8, <1>9, <2>2
  <2>3. CASE k = n + 1 /\ how = "expanded"
    BY <1>3, <1>11, <2>3
  <2> QED BY <1>12, <2>1, <2>2, <2>3
<1>14. ASSUME NEW p \in out, p.how = "expanded"
       PROVE  \/ \E k \in 1 .. Len(s) : Opens(out, s[k], p, f)
              \/ \A j \in 1 .. Len(Body(p)) : HasChild(out, p, j, f)
  <2>1. CASE p = new
    BY <1>3, <1>11, <1>12, <1>14, <2>1
  <2>2. CASE p \in outcomes
    <3>1. CASE \A j \in 1 .. Len(Body(p)) : HasChild(outcomes, p, j, ent)
      BY <1>6, <2>2, <3>1
    <3>2. CASE \E k \in 1 .. Len(frames) : Opens(outcomes, frames[k], p, ent)
      <4>1. PICK k \in 1 .. Len(frames) : Opens(outcomes, frames[k], p, ent)
        BY <3>2
      <4>2. CASE k = n
        BY <1>1, <1>8, <1>12, <4>1, <4>2
      <4>3. CASE k \in 1 .. n - 1
        BY <1>7, <1>12, <4>1, <4>3
      <4> QED BY <1>1, <4>2, <4>3
    <3> QED BY <1>14, <2>2, <3>1, <3>2 DEF RunOf
  <2> QED BY <1>3, <2>1, <2>2
<1>15. Source(Root) # Nowhere /\ RootExpanded \in out /\ f[RootExpanded] = Entry(0, {})
  BY <1>3, <1>4 DEF RunOf
<1>16. RunOf(out, s, f)
  BY <1>10, <1>13, <1>14, <1>15 DEF RunOf
<1> QED BY <1>16

\* The first call sees to all references of the schema of the request body.
LEMMA RunBegins ==
  ASSUME Source(Root) # Nowhere, files[Source(Root)][Root] \in Seq(Child),
         NEW out, out = {RootExpanded},
         NEW s, s = <<Frame(files[Source(Root)][Root], << >>, <<Root>>, 0, {})>>
  PROVE  \E f : RunOf(out, s, f)
<1> DEFINE r == RootExpanded
           f == [o \in out |-> Entry(0, {})]
           g == Frame(files[Source(Root)][Root], << >>, <<Root>>, 0, {})
<1>1. /\ r.at = << >> /\ r.names = <<Root>> /\ r.how = "expanded" /\ r.from = Source(Root)
      /\ r \in out /\ f[r] = Entry(0, {}) /\ \A o \in out : o = r
  BY DEF RootExpanded, Outcome
<1>2. Body(r) = files[Source(Root)][Root]
  BY <1>1 DEF Body, Name
<1>3. Len(s) = 1 /\ s[1] = g
  OBVIOUS
<1> HIDE DEF r, f
<1>4. Opens(out, g, r, f)
  <2>1. /\ g.at = << >> /\ g.names = <<Root>> /\ g.depth = 0 /\ g.todo = Body(r)
        /\ g.taken = 0 /\ g.visited = {}
    BY <1>2 DEF Frame
  <2>2. f[r].depth = 0 /\ SeenAfter(r, f[r], 0) = {}
    BY <1>1 DEF Entry, SeenAfter
  <2>3. Len(g.todo) \in Nat /\ \A j \in 1 .. Len(g.todo) : 0 + j = j
    BY <1>2, <2>1
  <2> HIDE DEF g
  <2> QED BY <1>1, <2>1, <2>2, <2>3 DEF Opens
<1>5. Labelled(out, f)
  BY <1>1 DEF Labelled, r
<1>6. \A k \in 1 .. Len(s) : k = 1
  BY <1>3
<1>7. 1 \in 1 .. Len(s)
  BY <1>3
<1>8. RunOf(out, s, f)
  <2> HIDE DEF g
  <2> QED BY <1>1, <1>3, <1>4, <1>5, <1>6, <1>7 DEF RunOf, r
<1> QED BY <1>8

\* An innermost call with nothing to do leaves nothing undone.
LEMMA NothingToDo ==
  ASSUME TypeOK, PathOf(frames), phase = "resolving", Inner.todo = << >>,
         NEW ent, NEW p, Opens(outcomes, Inner, p, ent)
  PROVE  \A i \in 1 .. Len(Body(p)) : HasChild(outcomes, p, i, ent)
<1>1. Inner.taken \in Nat /\ Len(Inner.todo) = 0
  BY InnerCall
<1>2. Inner.taken = Len(Body(p))
  BY <1>1 DEF Opens
<1> QED BY <1>2 DEF Opens

LEMMA RunReturns ==
  ASSUME SchemaInv, phase = "resolving", Inner.todo = << >>,
         NEW ent, RunOf(outcomes, frames, ent)
  PROVE  RunOf(outcomes, Outer, ent)
<1> DEFINE n == Len(frames)
<1>1. /\ n \in Nat \ {0} /\ Inner = frames[n] /\ Len(Outer) = n - 1
      /\ \A i \in 1 .. n - 1 : Outer[i] = frames[i]
  BY InnerCall DEF SchemaInv
<1>2. \A k \in 1 .. n : k = n \/ k \in 1 .. Len(Outer)
  BY <1>1
<1>3. ASSUME NEW p \in outcomes, p.how = "expanded"
      PROVE  \/ \E k \in 1 .. Len(Outer) : Opens(outcomes, Outer[k], p, ent)
             \/ \A i \in 1 .. Len(Body(p)) : HasChild(outcomes, p, i, ent)
  <2>1. CASE \E k \in 1 .. n : Opens(outcomes, frames[k], p, ent)
    <3>1. PICK k \in 1 .. n : Opens(outcomes, frames[k], p, ent)
      BY <2>1
    <3>2. CASE k = n
      <4>1. Opens(outcomes, Inner, p, ent)
        BY <1>1, <3>1, <3>2
      <4> QED BY <4>1, NothingToDo DEF SchemaInv
    <3>3. CASE k \in 1 .. Len(Outer)
      BY <1>1, <3>1, <3>3
    <3> QED BY <1>2, <3>2, <3>3
  <2> QED BY <1>3, <2>1 DEF RunOf
<1>4. ASSUME NEW k \in 1 .. Len(Outer) PROVE \E p \in outcomes : Opens(outcomes, Outer[k], p, ent)
  <2>1. k \in 1 .. n /\ Outer[k] = frames[k]
    BY <1>1
  <2> QED BY <2>1 DEF RunOf
<1> QED BY <1>3, <1>4 DEF RunOf

\* What was resolved in an answer is reached from the root of it.
LEMMA FromTheRoot ==
  ASSUME TypeOK, NEW ent, Labelled(answer, ent), NEW G,
         Source(Root) # Nowhere /\ ent[RootExpanded] = Entry(0, {}) => RootExpanded \in G,
         \A p \in answer : p \in G =>
           \A o \in answer : \A i \in 1 .. Len(Body(p)) : Descends(o, p, i, ent) => o \in G
  PROVE  \A o \in answer : o.how # "unresolved" => o \in G
<1> DEFINE Bad == {o \in answer : o.how # "unresolved" /\ o \notin G}
           Lengths == {Len(o.at) : o \in Bad}
<1> SUFFICES ASSUME Bad # {} PROVE FALSE
  OBVIOUS
<1>1. \A o \in answer : o.at \in Seq(Nat) /\ Len(o.at) \in Nat
  BY DEF TypeOK, OutcomeType
<1>2. Lengths # {} /\ Lengths \in SUBSET Nat
  BY <1>1
<1>3. PICK l \in Lengths : \A m \in Lengths : l <= m
  <2> HIDE DEF Lengths
  <2> QED BY <1>2, LeastNumber
<1>4. PICK o \in Bad : l = Len(o.at)
  BY <1>3
<1>5. PICK p \in answer : \E i \in 1 .. Len(Body(p)) : Descends(o, p, i, ent)
  BY <1>4 DEF Labelled
<1>6. PICK i \in 1 .. Len(Body(p)) : Descends(o, p, i, ent)
  BY <1>5
<1>7. p \notin G /\ p.how # "unresolved"
  BY <1>4, <1>6 DEF Descends
<1>8. Len(o.at) = Len(p.at) + 1
  <2>1. o.at = Append(p.at, i)
    BY <1>6 DEF Descends, Fate, Outcome
  <2> QED BY <1>1, <1>5, <2>1
<1>9. Len(p.at) \in Lengths
  BY <1>5, <1>7
<1>10. Len(o.at) <= Len(p.at)
  <2> HIDE DEF Lengths
  <2> QED BY <1>3, <1>4, <1>9
<1> QED BY <1>1, <1>5, <1>8, <1>10

\* A run that is finished has found what an earlier answer has resolved.
LEMMA FoundAgain ==
  ASSUME SchemaInv, Finished, NEW old, Labelled(answer, old),
         NEW ent, RunOf(outcomes, frames, ent)
  PROVE  \A o \in answer : o.how # "unresolved" => o \in outcomes
<1> DEFINE G == {o \in outcomes : o.how = "expanded" => ent[o] = old[o]}
<1>1. \A p \in outcomes : p.how = "expanded" =>
        \A i \in 1 .. Len(Body(p)) : HasChild(outcomes, p, i, ent)
  <2> SUFFICES ASSUME NEW p \in outcomes, p.how = "expanded",
                      NEW k \in 1 .. Len(frames), Opens(outcomes, frames[k], p, ent)
               PROVE  \A i \in 1 .. Len(Body(p)) : HasChild(outcomes, p, i, ent)
    BY DEF RunOf
  <2>1. frames[k] = Inner
    BY DEF Finished, Inner
  <2> QED BY <2>1, NothingToDo DEF SchemaInv, Finished
<1>2. ASSUME NEW p \in answer, p \in G, NEW o \in answer, NEW i \in 1 .. Len(Body(p)),
             Descends(o, p, i, old)
      PROVE  o \in G
  <2>1. p \in outcomes /\ p.how = "expanded" /\ ent[p] = old[p]
    BY <1>2 DEF Descends
  <2>2. PICK x \in outcomes : Descends(x, p, i, ent)
    BY <1>1, <2>1 DEF HasChild
  <2>3. x = o
    BY <1>2, <2>1, <2>2 DEF Descends
  <2>4. o.how = "expanded" => ent[o] = old[o]
    BY <1>2, <2>1, <2>2, <2>3 DEF Descends
  <2> QED BY <2>2, <2>3, <2>4
<1>3. ent[RootExpanded] = Entry(0, {}) /\ RootExpanded \in outcomes
  BY DEF RunOf
<1>4. old[RootExpanded] = Entry(0, {}) => RootExpanded \in G
  BY <1>3
<1> HIDE DEF G
<1>5. \A o \in answer : o.how # "unresolved" => o \in G
  BY <1>2, <1>4, FromTheRoot DEF SchemaInv
<1> QED BY <1>5 DEF G

\* A run after a step that leaves the files and the cache as they are.
LEMMA RunStays ==
  ASSUME UNCHANGED <<files, loaded>>, NEW out, out = outcomes', NEW s, s = frames',
         NEW ent, RunOf(out, s, ent)
  PROVE  RunOf(outcomes, frames, ent)'
<1>1. RunOf(out, s, ent)'
  BY SameRun
<1> QED BY <1>1 DEF RunOf, Labelled, Opens, HasChild

\* A turn that opens no call.
LEMMA TurnRuns ==
  ASSUME SchemaInv, Turns, NEW ent, RunOf(outcomes, frames, ent),
         NEW how, NEW from, Fits(how, from), how # "expanded", Becomes(how, from),
         NEW F \in FrameType,
         F.at = Inner.at, F.names = Inner.names, F.depth = Inner.depth,
         F.taken = Inner.taken + 1, F.todo = Tail(Inner.todo),
         F.visited = IF how = "cut" THEN Inner.visited ELSE Inner.visited \cup {Ref},
         frames' = Append(Outer, F), UNCHANGED <<files, loaded>>
  PROVE  (\E f : RunOf(outcomes, frames, f))'
<1> DEFINE s == Append(Outer, F)
           out == outcomes \cup {Outcome(At, Under, how, from)}
<1>1. /\ Len(frames) \in Nat \ {0} /\ Len(Outer) = Len(frames) - 1 /\ Outer \in Seq(FrameType)
      /\ \A k \in 1 .. Len(frames) - 1 : Outer[k] = frames[k]
  BY InnerCall DEF SchemaInv, Turns
<1>2. /\ Len(s) = Len(frames) /\ s[Len(frames)] = F
      /\ \A k \in 1 .. Len(frames) - 1 : s[k] = frames[k]
  BY <1>1, AppendProperties
<1>3. out = outcomes' /\ s = frames'
  BY DEF Becomes
<1> HIDE DEF s
<1>4. \E f : RunOf(out, s, f)
  <2> HIDE DEF out
  <2>1. out = outcomes \cup {Outcome(At, Under, how, from)}
    BY DEF out
  <2>2. IF how = "expanded"
        THEN /\ Len(s) = Len(frames) + 1
             /\ s[Len(frames) + 1]
                  = Frame(files[from][Ref], At, Under, Depth + 1, Inner.visited \cup {Ref})
        ELSE Len(s) = Len(frames)
    BY <1>2
  <2>3. F = s[Len(frames)]
    BY <1>2
  <2> QED BY <1>2, <2>1, <2>2, <2>3, RunTurn
<1> HIDE DEF out
<1>5. PICK f : RunOf(out, s, f)
  BY <1>4
<1>6. RunOf(outcomes, frames, f)'
  BY <1>3, <1>5, RunStays
<1> QED BY <1>6

\* The turn that opens a call.
LEMMA ExpandedRuns ==
  ASSUME SchemaInv, NextIsExpanded, NEW ent, RunOf(outcomes, frames, ent)
  PROVE  (\E f : RunOf(outcomes, frames, f))'
<1> DEFINE from == Source(Ref)
           t == Append(Outer, Visited)
           G == Frame(files[from][Ref], At, Under, Depth + 1, Visited.visited)
           s == Append(t, G)
           out == outcomes \cup {Outcome(At, Under, "expanded", from)}
<1>1. /\ Turns /\ Depth < MaxDepth /\ Ref \notin Inner.visited /\ from # Nowhere
      /\ outcomes' = out /\ frames' = s /\ UNCHANGED <<files, loaded>>
  BY DEF NextIsExpanded, Becomes
<1>2. /\ Len(frames) \in Nat \ {0} /\ Len(Outer) = Len(frames) - 1 /\ Outer \in Seq(FrameType)
      /\ \A k \in 1 .. Len(frames) - 1 : Outer[k] = frames[k]
  BY <1>1, InnerCall DEF SchemaInv, Turns
<1>3. /\ Visited \in FrameType /\ Visited.at = Inner.at /\ Visited.names = Inner.names
      /\ Visited.taken = Inner.taken + 1 /\ Visited.todo = Tail(Inner.todo)
      /\ Visited.visited = Inner.visited \cup {Ref} /\ Visited.depth = Inner.depth
  <2>1. Visited.depth = Inner.depth
    BY <1>1, InnerCall DEF SchemaInv, Turns, Visited, Turned, FrameType
  <2> QED BY <1>1, <2>1, TurnedFields
<1>4. /\ t \in Seq(FrameType) /\ Len(t) = Len(frames) /\ t[Len(frames)] = Visited
      /\ \A k \in 1 .. Len(frames) - 1 : t[k] = frames[k]
  BY <1>2, <1>3, AppendProperties
<1>5. G \in FrameType
  <2>1. /\ At \in Seq(Nat) /\ Under \in Seq(Names) /\ Ref \in Names /\ Depth \in Nat
    BY <1>1, NextReference DEF SchemaInv
  <2>2. files[from][Ref] \in Seq(Child)
    BY <1>1, <2>1, SourceFound DEF SchemaInv
  <2>3. Depth + 1 \in 0 .. MaxDepth
    BY <1>1, <2>1, SchemaConstants
  <2>4. Visited.visited \subseteq Names /\ 0 \in Nat
    BY <1>3 DEF FrameType
  <2> HIDE DEF from
  <2> QED BY <2>1, <2>2, <2>3, <2>4 DEF Frame, FrameType
<1> HIDE DEF t
<1>6. G = Frame(files[from][Ref], At, Under, Depth + 1, Inner.visited \cup {Ref})
  BY <1>3
<1> HIDE DEF G
<1>7. /\ Len(s) = Len(frames) + 1 /\ s[Len(frames) + 1] = G
      /\ \A k \in 1 .. Len(frames) : s[k] = t[k]
  BY <1>2, <1>4, <1>5, AppendProperties
<1> HIDE DEF s, out
<1>8. /\ \A k \in 1 .. Len(frames) - 1 : s[k] = frames[k]
      /\ s[Len(frames)] = Visited
  <2>1. /\ Len(frames) \in 1 .. Len(frames)
        /\ \A k \in 1 .. Len(frames) - 1 : k \in 1 .. Len(frames)
    BY <1>2
  <2> QED BY <1>4, <1>7, <2>1
<1>9. \E f : RunOf(out, s, f)
  <2>1. Fits("expanded", from)
    <3>1. Depth \in Nat
      BY <1>1, NextReference DEF SchemaInv
    <3>2. Depth <= MaxDepth /\ Depth # MaxDepth
      BY <1>1, <3>1, SchemaConstants
    <3> QED BY <1>1, <3>2 DEF Fits
  <2>2. out = outcomes \cup {Outcome(At, Under, "expanded", from)}
    BY DEF out
  <2>3. IF "expanded" = "expanded"
        THEN /\ Len(s) = Len(frames) + 1
             /\ s[Len(frames) + 1]
                  = Frame(files[from][Ref], At, Under, Depth + 1, Inner.visited \cup {Ref})
        ELSE Len(s) = Len(frames)
    BY <1>6, <1>7
  <2>4. Visited = s[Len(frames)]
    BY <1>8
  <2>5. Visited.visited = IF "expanded" = "cut" THEN Inner.visited ELSE Inner.visited \cup {Ref}
    BY <1>3
  <2> HIDE DEF from
  <2> QED BY <1>1, <1>3, <1>8, <2>1, <2>2, <2>3, <2>4, <2>5, RunTurn
<1>10. PICK f : RunOf(out, s, f)
  BY <1>9
<1>11. RunOf(outcomes, frames, f)'
  BY <1>1, <1>10, RunStays
<1> QED BY <1>11

\* The answer in between, while nothing is asked for.
LEMMA AnswerStays ==
  ASSUME files' = files, \A n : Source(n) # Nowhere => Source(n)' = Source(n),
         answer' = answer, \E ent : Labelled(answer, ent)
  PROVE  (\E ent : Labelled(answer, ent))'
<1>1. PICK ent : Labelled(answer, ent)
  OBVIOUS
<1>2. \A a : a = answer => Labelled(a, ent)'
  BY <1>1, LabelledStays
<1>3. Labelled(answer, ent)'
  BY <1>2 DEF Labelled
<1> QED BY <1>3

LEMMA RepeatInit ==
  ASSUME Init
  PROVE  RepeatInv
<1>1. SchemaInv
  BY SchemaInit
<1>2. \A ent : Labelled(answer, ent)
  BY DEF Init, Labelled
<1> QED BY <1>1, <1>2 DEF Init, RepeatInv

\* A step of the run at a reference.
LEMMA RunNext ==
  ASSUME SchemaInv, NEW ent, RunOf(outcomes, frames, ent),
         NextIsCut \/ NextIsCircular \/ NextIsUnresolved \/ NextIsRaw \/ NextIsExpanded
  PROVE  (\E f : RunOf(outcomes, frames, f))' /\ UNCHANGED <<files, loaded, phase, answer>>
<1>1. Turns /\ UNCHANGED <<files, loaded, phase, answer>>
  BY DEF NextIsCut, NextIsCircular, NextIsUnresolved, NextIsRaw, NextIsExpanded
<1>2. /\ Turned \in FrameType /\ Turned.at = Inner.at /\ Turned.names = Inner.names
      /\ Turned.taken = Inner.taken + 1 /\ Turned.todo = Tail(Inner.todo)
      /\ Turned.visited = Inner.visited
      /\ Visited \in FrameType /\ Visited.at = Inner.at /\ Visited.names = Inner.names
      /\ Visited.taken = Inner.taken + 1 /\ Visited.todo = Tail(Inner.todo)
      /\ Visited.visited = Inner.visited \cup {Ref}
  BY <1>1, TurnedFields
<1>3. Turned.depth = Inner.depth /\ Visited.depth = Inner.depth
  BY <1>1, InnerCall DEF SchemaInv, Turns, Visited, Turned, FrameType
<1>4. CASE NextIsCut
  <2>1. Depth > MaxDepth /\ Becomes("cut", Nowhere) /\ frames' = Append(Outer, Turned)
    BY <1>4 DEF NextIsCut
  <2>2. Fits("cut", Nowhere) /\ "cut" # "expanded"
    BY <2>1 DEF Fits
  <2>3. Turned.visited = IF "cut" = "cut" THEN Inner.visited ELSE Inner.visited \cup {Ref}
    BY <1>2
  <2> QED BY <1>1, <1>2, <1>3, <2>1, <2>2, <2>3, TurnRuns
<1>5. CASE NextIsCircular
  <2>1. /\ Depth <= MaxDepth /\ Ref \in Inner.visited
        /\ Becomes("circular", Nowhere) /\ frames' = Append(Outer, Turned)
    BY <1>5 DEF NextIsCircular
  <2>2. Fits("circular", Nowhere) /\ "circular" # "expanded"
    BY <2>1 DEF Fits
  <2>3. Turned.visited = IF "circular" = "cut" THEN Inner.visited ELSE Inner.visited \cup {Ref}
    BY <1>2, <2>1
  <2> QED BY <1>1, <1>2, <1>3, <2>1, <2>2, <2>3, TurnRuns
<1>6. CASE NextIsUnresolved
  <2>1. /\ Depth <= MaxDepth /\ Ref \notin Inner.visited /\ Source(Ref) = Nowhere
        /\ Becomes("unresolved", Nowhere) /\ frames' = Append(Outer, Visited)
    BY <1>6 DEF NextIsUnresolved
  <2>2. Fits("unresolved", Nowhere) /\ "unresolved" # "expanded"
    BY <2>1 DEF Fits
  <2>3. Visited.visited = IF "unresolved" = "cut" THEN Inner.visited
                          ELSE Inner.visited \cup {Ref}
    BY <1>2
  <2> QED BY <1>1, <1>2, <1>3, <2>1, <2>2, <2>3, TurnRuns
<1>7. CASE NextIsRaw
  <2>1. /\ Depth = MaxDepth /\ Ref \notin Inner.visited /\ Source(Ref) # Nowhere
        /\ Becomes("raw", Source(Ref)) /\ frames' = Append(Outer, Visited)
    BY <1>7 DEF NextIsRaw
  <2>2. Fits("raw", Source(Ref)) /\ "raw" # "expanded"
    BY <2>1, SchemaConstants DEF Fits
  <2>3. Visited.visited = IF "raw" = "cut" THEN Inner.visited ELSE Inner.visited \cup {Ref}
    BY <1>2
  <2> QED BY <1>1, <1>2, <1>3, <2>1, <2>2, <2>3, TurnRuns
<1>8. CASE NextIsExpanded
  BY <1>1, <1>8, ExpandedRuns
<1> QED BY <1>4, <1>5, <1>6, <1>7, <1>8

LEMMA RepeatNext ==
  ASSUME RepeatInv, [Next]_vars
  PROVE  RepeatInv'
<1>1. SchemaInv'
  BY SchemaNext DEF RepeatInv
<1>2. SchemaInv /\ \E ent : Labelled(answer, ent)
  BY DEF RepeatInv
<1>3. ASSUME UNCHANGED <<files, loaded>> PROVE \A n : Source(n)' = Source(n)
  BY <1>3, SameSources
<1> DEFINE Kept == (\E ent : Labelled(answer, ent))'
           Runs == (\E ent : RunOf(outcomes, frames, ent))'
<1>4. ASSUME UNCHANGED <<files, loaded, answer>> PROVE Kept
  BY <1>2, <1>3, <1>4, AnswerStays
<1>5. ASSUME UNCHANGED <<files, answer>>, NEW d, loaded' = LoadedWith(d) PROVE Kept
  <2>1. \A n : Source(n) # Nowhere => Source(n)' = Source(n)
    BY <1>2, <1>5, SourceStays DEF SchemaInv
  <2> QED BY <1>2, <1>5, <2>1, AnswerStays
<1>6. ASSUME \A o \in answer' : o.how = "unresolved" PROVE Kept
  BY <1>6 DEF Labelled
<1>7. Kept /\ (phase' = "resolving" => Runs)
  <2> HIDE DEF Kept, Runs
  <2>1. ASSUME NEW d \in Domains, Load(d) PROVE Kept /\ phase' # "resolving"
    BY <1>5, <2>1 DEF Load
  <2>2. CASE Clear
    BY <1>6, <2>2 DEF Clear
  <2>3. CASE Begin
    BY <1>5, <2>3 DEF Begin
  <2>4. CASE RootIsExpanded
    <3>1. /\ phase = "looking" /\ Source(Root) # Nowhere /\ UNCHANGED <<files, loaded, answer>>
          /\ frames' = <<Frame(files[Source(Root)][Root], << >>, <<Root>>, 0, {})>>
          /\ outcomes' = {RootExpanded}
      BY <2>4 DEF RootIsExpanded, RootExpanded
    <3>2. files[Source(Root)][Root] \in Seq(Child)
      BY <1>2, <3>1, SourceFound, SchemaConstants DEF SchemaInv
    <3>3. \A out, s : out = outcomes' /\ s = frames' => \E f : RunOf(out, s, f)
      BY <3>1, <3>2, RunBegins
    <3>4. \A out, s, f : out = outcomes' /\ s = frames' /\ RunOf(out, s, f)
                           => RunOf(outcomes, frames, f)'
      BY <3>1, RunStays
    <3>5. Runs
      BY <3>3, <3>4 DEF Runs
    <3> QED BY <1>4, <3>1, <3>5
  <2>5. CASE RootIsUnresolved
    BY <1>6, <2>5 DEF RootIsUnresolved, Outcome
  <2>6. CASE NextIsCut \/ NextIsCircular \/ NextIsUnresolved \/ NextIsRaw \/ NextIsExpanded
    <3>1. phase = "resolving"
      BY <2>6 DEF NextIsCut, NextIsCircular, NextIsUnresolved, NextIsRaw, NextIsExpanded, Turns
    <3>2. PICK ent : RunOf(outcomes, frames, ent)
      BY <3>1 DEF RepeatInv
    <3>3. Runs /\ UNCHANGED <<files, loaded, phase, answer>>
      BY <1>2, <2>6, <3>2, RunNext DEF Runs
    <3> QED BY <1>4, <3>3
  <2>7. CASE Returns
    <3>1. /\ phase = "resolving" /\ Inner.todo = << >> /\ frames' = Outer
          /\ UNCHANGED <<files, loaded, phase, outcomes, answer>>
      BY <2>7 DEF Returns
    <3>2. PICK ent : RunOf(outcomes, frames, ent)
      BY <3>1 DEF RepeatInv
    <3>3. RunOf(outcomes, Outer, ent)
      BY <1>2, <3>1, <3>2, RunReturns
    <3>4. \A out, s, f : out = outcomes' /\ s = frames' /\ RunOf(out, s, f)
                           => RunOf(outcomes, frames, f)'
      BY <3>1, RunStays
    <3>5. Runs
      BY <3>1, <3>3, <3>4 DEF Runs
    <3> QED BY <1>4, <3>1, <3>5
  <2>8. CASE Answers
    <3>1. /\ phase = "resolving" /\ phase' = "idle" /\ answer' = outcomes
          /\ UNCHANGED <<files, loaded>>
      BY <2>8 DEF Answers, Finished
    <3>2. PICK ent : RunOf(outcomes, frames, ent)
      BY <3>1 DEF RepeatInv
    <3>3. Labelled(outcomes, ent)
      BY <3>2 DEF RunOf
    <3>4. \A a : a = outcomes => Labelled(a, ent)'
      BY <1>3, <3>1, <3>3, LabelledStays
    <3>5. Labelled(answer, ent)'
      BY <3>1, <3>4 DEF Labelled
    <3>6. Kept
      BY <3>5 DEF Kept
    <3> QED BY <3>1, <3>6
  <2>9. CASE UNCHANGED vars
    <3>1. UNCHANGED <<files, loaded, phase, frames, outcomes, answer>>
      BY <2>9 DEF vars
    <3>2. ASSUME phase = "resolving" PROVE Runs
      <4>1. PICK ent : RunOf(outcomes, frames, ent)
        BY <3>2 DEF RepeatInv
      <4>2. \A out, s, f : out = outcomes' /\ s = frames' /\ RunOf(out, s, f)
                             => RunOf(outcomes, frames, f)'
        BY <3>1, RunStays
      <4> QED BY <3>1, <4>1, <4>2 DEF Runs
    <3> QED BY <1>4, <3>1, <3>2
  <2> QED BY <2>1, <2>2, <2>3, <2>4, <2>5, <2>6, <2>7, <2>8, <2>9 DEF Next
<1> QED BY <1>1, <1>7 DEF RepeatInv

\* What getResolvedRequestBodySchema() has resolved once it resolves the same way when it
\* is asked again, until clearSchemaCache(): the domains loaded in between only fill in
\* what was not found.
THEOREM AnswersImprove == Spec => AnswersOnlyImprove
<1> DEFINE Improves == answer' # {} => \A o \in answer : o.how # "unresolved" => o \in answer'
<1>1. ASSUME RepeatInv, [Next]_vars PROVE Improves
  <2>1. SchemaInv
    BY <1>1 DEF RepeatInv
  <2>2. PICK old : Labelled(answer, old)
    BY <1>1 DEF RepeatInv
  <2>3. CASE Answers
    <3>1. Finished /\ answer' = outcomes
      BY <2>3 DEF Answers
    <3>2. PICK ent : RunOf(outcomes, frames, ent)
      BY <1>1, <3>1 DEF RepeatInv, Finished
    <3> QED BY <2>1, <2>2, <3>1, <3>2, FoundAgain
  <2>4. CASE RootIsUnresolved
    <3>1. Source(Root) = Nowhere
      BY <2>4 DEF RootIsUnresolved
    <3>2. \A o \in answer : o.how # "unresolved" => o \in {}
      BY <2>1, <2>2, <3>1, FromTheRoot DEF SchemaInv
    <3> QED BY <3>2
  <2>5. CASE answer' = {} \/ answer' = answer
    BY <2>5
  <2> QED BY <1>1, <2>3, <2>4, <2>5
          DEF Next, vars, Load, Clear, Begin, RootIsExpanded, NextIsCut, NextIsCircular,
              NextIsUnresolved, NextIsRaw, NextIsExpanded, Returns
<1>2. Init => RepeatInv
  BY RepeatInit
<1>3. RepeatInv /\ [Next]_vars => RepeatInv'
  BY RepeatNext
<1>4. RepeatInv /\ [Next]_vars => [Improves]_vars
  BY <1>1
<1> QED BY <1>2, <1>3, <1>4, PTL DEF Spec, AnswersOnlyImprove
=============================================================================
