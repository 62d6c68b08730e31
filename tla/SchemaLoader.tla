----------------------------- MODULE SchemaLoader -----------------------------
(***************************************************************************)
(* The schema loader behind f5xc-api-get-schema:                           *)
(* getResolvedRequestBodySchema() of src/src/tools/discovery/              *)
(* schema-loader.ts, which expands every $ref below the request body of a  *)
(* tool, over a cache of specification files that grows as tools of other  *)
(* domains are looked at.                                                  *)
(*                                                                         *)
(* A schema is the sequence of the references in it, in the order of its   *)
(* keys, each with the number of objects around it: 0 if the schema is     *)
(* itself a $ref, 1 for one of its properties.  The expanded schema is     *)
(* represented by what became of each reference, at its place.  An action  *)
(* is one call of resolveNestedRefs() on a reference.                      *)
(* The calls run to their end without interruption, but between two of     *)
(* them other tools load domains and the cache may be cleared.             *)
(*                                                                         *)
(* (A definition named Bug... is the one that follows it with a mistake in *)
(* it; no behaviour of the model uses it.)                                 *)
(***************************************************************************)
EXTENDS Integers, Sequences, FiniteSets

CONSTANTS
  Domains,       \* domains with tools
  Own,           \* the domain of the tool whose schema is asked for
  Names,         \* names of component schemas
  Root,          \* the one its request body refers to
  Files,         \* what the specification files can be: for every domain that has
                 \* a readable one, its schemas
  MaxDepth       \* MAX_RESOLUTION_DEPTH

VARIABLES
  files,         \* the specification files
  loaded,        \* the keys of schemaCache, oldest first
  phase,         \* "idle", "looking" for the root, or "resolving"
  frames,        \* the schemas being expanded, the innermost last
  outcomes,      \* what has become of the references met so far, the root included
  answer         \* history: the outcomes of the last call since the cache was cleared

vars == <<files, loaded, phase, frames, outcomes, answer>>

Child == [ref : Names, inside : Nat]

\* The source of a schema that no loaded domain has.
Nowhere == "nowhere"

ASSUME SchemaConstants ==
  /\ Own \in Domains /\ Root \in Names /\ Nowhere \notin Domains
  /\ MaxDepth \in Nat
  /\ \A f \in Files : /\ DOMAIN f \subseteq Domains
                      /\ \A d \in DOMAIN f : /\ DOMAIN f[d] \subseteq Names
                                             /\ \A n \in DOMAIN f[d] : f[d][n] \in Seq(Child)

Cached == {loaded[i] : i \in 1 .. Len(loaded)}

Has(d, n) == d \in Cached /\ n \in DOMAIN files[d]

-----------------------------------------------------------------------------
(* loadDomainSchemas(), resolveSchemaRef() *)

\* The cache is not looked at first.
BugLoadedWith(d) == IF d \in DOMAIN files THEN Append(loaded, d) ELSE loaded

\* A file that cannot be read leaves no trace and is tried again the next time.
LoadedWith(d) ==
  IF d \in DOMAIN files /\ d \notin Cached THEN Append(loaded, d) ELSE loaded

\* Only the domain itself is searched.
BugSource(n) == IF Has(Own, n) THEN Own ELSE Nowhere

\* The domain loaded last is searched first.
BugSourceOrder(n) ==
  IF Has(Own, n) THEN Own
  ELSE IF Own \in Cached /\ \E d \in Cached : Has(d, n)
       THEN loaded[CHOOSE i \in 1 .. Len(loaded) :
                     /\ Has(loaded[i], n)
                     /\ \A j \in i + 1 .. Len(loaded) : ~Has(loaded[j], n)]
       ELSE Nowhere

\* The domain that n is taken from: the tool's own, or else the first one loaded that
\* has a schema of that name.
Source(n) ==
  IF Has(Own, n) THEN Own
  ELSE IF Own \in Cached /\ \E d \in Cached : Has(d, n)
       THEN loaded[CHOOSE i \in 1 .. Len(loaded) :
                     /\ Has(loaded[i], n)
                     /\ \A j \in 1 .. i - 1 : ~Has(loaded[j], n)]
       ELSE Nowhere

\* A tool of another domain is looked at.
Load(d) ==
  /\ phase = "idle"
  /\ loaded' = LoadedWith(d)
  /\ UNCHANGED <<files, phase, frames, outcomes, answer>>

\* clearSchemaCache()
Clear ==
  /\ phase = "idle"
  /\ loaded' = << >>
  /\ answer' = {}
  /\ UNCHANGED <<files, phase, frames, outcomes>>

-----------------------------------------------------------------------------
(* getResolvedRequestBodySchema() and resolveNestedRefs() *)

\* An open call on a schema that was found at the place at, under the schemas names:
\* its depth, the references still to be looked at and how many were, and the set
\* visited, which its references share.
Frame(body, at, names, depth, visited) ==
  [at |-> at, names |-> names, depth |-> depth, todo |-> body, taken |-> 0,
   visited |-> visited]

Outcome(at, names, how, from) ==
  [at |-> at, names |-> names, how |-> how, from |-> from]

\* resolveSchemaRef() is called for the reference of the request body.
Begin ==
  /\ phase = "idle"
  /\ phase' = "looking"
  /\ loaded' = LoadedWith(Own)
  /\ outcomes' = {}
  /\ UNCHANGED <<files, frames, answer>>

RootIsExpanded ==
  /\ phase = "looking" /\ Source(Root) # Nowhere
  /\ phase' = "resolving"
  /\ frames' = <<Frame(files[Source(Root)][Root], << >>, <<Root>>, 0, {})>>
  /\ outcomes' = {Outcome(<< >>, <<Root>>, "expanded", Source(Root))}
  /\ UNCHANGED <<files, loaded, answer>>

\* The reference itself is the answer.
RootIsUnresolved ==
  /\ phase = "looking" /\ Source(Root) = Nowhere
  /\ phase' = "idle"
  /\ outcomes' = {Outcome(<< >>, <<Root>>, "unresolved", Nowhere)}
  /\ answer' = outcomes'
  /\ UNCHANGED <<files, loaded, frames>>

Inner == frames[Len(frames)]

Outer == SubSeq(frames, 1, Len(frames) - 1)

Turns == phase = "resolving" /\ Inner.todo # << >>

\* The reference that the innermost call turns to, its place, and its depth.
Ref   == Head(Inner.todo).ref
At    == Append(Inner.at, Inner.taken + 1)
Under == Append(Inner.names, Ref)
Depth == Inner.depth + Head(Inner.todo).inside

Becomes(how, from) == outcomes' = outcomes \cup {Outcome(At, Under, how, from)}

\* The innermost call, with this reference behind it.
Turned == [Inner EXCEPT !.todo = Tail(@), !.taken = @ + 1]

Visited == [Turned EXCEPT !.visited = @ \cup {Ref}]

\* It is too deep to be looked at, and stays as it is.
NextIsCut ==
  /\ Turns /\ Depth > MaxDepth
  /\ Becomes("cut", Nowhere)
  /\ frames' = Append(Outer, Turned)
  /\ UNCHANGED <<files, loaded, phase, answer>>

NextIsCircular ==
  /\ Turns /\ Depth <= MaxDepth
  /\ Ref \in Inner.visited
  /\ Becomes("circular", Nowhere)
  /\ frames' = Append(Outer, Turned)
  /\ UNCHANGED <<files, loaded, phase, answer>>

NextIsUnresolved ==
  /\ Turns /\ Depth <= MaxDepth
  /\ Ref \notin Inner.visited
  /\ Source(Ref) = Nowhere
  /\ Becomes("unresolved", Nowhere)
  /\ frames' = Append(Outer, Visited)
  /\ UNCHANGED <<files, loaded, phase, answer>>

\* The schema is found, too deep for its own references to be looked at.
NextIsRaw ==
  /\ Turns /\ Depth = MaxDepth
  /\ Ref \notin Inner.visited
  /\ Source(Ref) # Nowhere
  /\ Becomes("raw", Source(Ref))
  /\ frames' = Append(Outer, Visited)
  /\ UNCHANGED <<files, loaded, phase, answer>>

\* The reference is not added to the set that is handed down.
BugNextIsExpanded ==
  /\ Turns /\ Depth < MaxDepth
  /\ Ref \notin Inner.visited
  /\ Source(Ref) # Nowhere
  /\ Becomes("expanded", Source(Ref))
  /\ frames' = Append(Append(Outer, Visited),
                      Frame(files[Source(Ref)][Ref], At, Under, Depth + 1, Inner.visited))
  /\ UNCHANGED <<files, loaded, phase, answer>>

\* Its own references start with a copy of the set.
NextIsExpanded ==
  /\ Turns /\ Depth < MaxDepth
  /\ Ref \notin Inner.visited
  /\ Source(Ref) # Nowhere
  /\ Becomes("expanded", Source(Ref))
  /\ frames' = Append(Append(Outer, Visited),
                      Frame(files[Source(Ref)][Ref], At, Under, Depth + 1, Visited.visited))
  /\ UNCHANGED <<files, loaded, phase, answer>>

\* The set is not a copy: the references met meanwhile stay in it.
BugReturns ==
  /\ phase = "resolving" /\ Len(frames) > 1 /\ Inner.todo = << >>
  /\ frames' = [Outer EXCEPT ![Len(Outer)].visited = @ \cup Inner.visited]
  /\ UNCHANGED <<files, loaded, phase, outcomes, answer>>

Returns ==
  /\ phase = "resolving" /\ Len(frames) > 1 /\ Inner.todo = << >>
  /\ frames' = Outer
  /\ UNCHANGED <<files, loaded, phase, outcomes, answer>>

Finished == phase = "resolving" /\ Len(frames) = 1 /\ Inner.todo = << >>

Answers ==
  /\ Finished
  /\ phase' = "idle"
  /\ frames' = << >>
  /\ answer' = outcomes
  /\ UNCHANGED <<files, loaded, outcomes>>

Init ==
  /\ files \in Files
  /\ loaded = << >>
  /\ phase = "idle"
  /\ frames = << >>
  /\ outcomes = {}
  /\ answer = {}

Next ==
  \/ \E d \in Domains : Load(d)
  \/ Clear
  \/ Begin \/ RootIsExpanded \/ RootIsUnresolved
  \/ NextIsCut \/ NextIsCircular \/ NextIsUnresolved \/ NextIsRaw \/ NextIsExpanded
  \/ Returns \/ Answers

Spec == Init /\ [][Next]_vars

-----------------------------------------------------------------------------
(* Properties *)

OutcomeType ==
  [at : Seq(Nat), names : Seq(Names), from : Domains \cup {Nowhere},
   how : {"expanded", "raw", "unresolved", "circular", "cut"}]

FrameType ==
  [at : Seq(Nat), names : Seq(Names), depth : 0 .. MaxDepth, todo : Seq(Child),
   taken : Nat, visited : SUBSET Names]

\* No domain is cached twice, and none whose file cannot be read.
TypeOK ==
  /\ files \in Files
  /\ loaded \in Seq(DOMAIN files)
  /\ \A i, j \in 1 .. Len(loaded) : loaded[i] = loaded[j] => i = j
  /\ phase \in {"idle", "looking", "resolving"}
  /\ phase = "resolving" <=> frames # << >>
  /\ frames \in Seq(FrameType)
  /\ \A o \in outcomes \cup answer : o \in OutcomeType

Name(o) == o.names[Len(o.names)]

\* x was met before o, above it or among its elder siblings or those of one above it.
MetBefore(x, o) ==
  LET k == Len(x.at) IN
  /\ x # o /\ 0 < k /\ k <= Len(o.at)
  /\ SubSeq(x.at, 1, k - 1) = SubSeq(o.at, 1, k - 1)
  /\ x.at[k] <= o.at[k]

\* A reference is marked _circular exactly if the same schema is referred to above it
\* or by an elder sibling of it or of one above it.  In particular it is not enough
\* that the schema was expanded in a branch aside, and a mark says less than its
\* name: there need be no cycle.
MarkedCircular ==
  \A o \in outcomes : o.at # << >> /\ o.how # "cut" =>
    (o.how = "circular"
       <=> \E x \in outcomes :
             x.how # "cut" /\ MetBefore(x, o) /\ Name(x) = Name(o))

\* No schema is expanded inside itself, on whatever cycle the files have it, except
\* that the one of the request body may be once.
NoSchemaInsideItself ==
  \A o \in outcomes : o.how \in {"expanded", "raw"} =>
    \A i, j \in 2 .. Len(o.names) : o.names[i] = o.names[j] => i = j

\* A schema that is left out as circular is to be found elsewhere: if nothing was too
\* deep, every schema that an expanded one refers to, and that a loaded domain has, is
\* expanded somewhere in the answer.  (Of schemas only: keywords beside a $ref are not
\* modelled, and the code drops those beside one it marks.)
EverySchemaExpanded ==
  Finished /\ (\A o \in outcomes : o.how \notin {"cut", "raw"}) =>
    \A o \in outcomes : o.how = "expanded" =>
      LET body == files[o.from][Name(o)] IN
      \A i \in 1 .. Len(body) : (\E d \in Cached : Has(d, body[i].ref)) =>
        \E x \in outcomes : x.how = "expanded" /\ Name(x) = body[i].ref

\* Until the cache is cleared, asking again can only find what was not found before:
\* domains loaded in between change nothing else of the answer, not even what is
\* marked circular or taken from which domain.
AnswersOnlyImprove ==
  [][answer' # {} => \A o \in answer : o.how # "unresolved" => o \in answer']_vars
=============================================================================
