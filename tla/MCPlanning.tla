------------------------------ MODULE MCPlanning ------------------------------
(***************************************************************************)
(* Small instances of Planning: every graph without cycles on four         *)
(* resources, optional and required edges mixed, every graph on three with *)
(* cycles and self-references, graphs with optional references back to the *)
(* target, and graphs with resources that have no operations; the domain   *)
(* of the fourth resource is unknown.  Two operations of a resource        *)
(* mention its references, and they disagree about which are required.     *)
(***************************************************************************)
EXTENDS Planning

MCResources == 1 .. 4

\* The graphs whose edges are among the given ones, each of one of the kinds.
GraphsOver(nodes, edges, kinds) ==
  { [r \in nodes |-> [p \in MCResources |->
       IF <<r, p>> \in edges THEN e[<<r, p>>] ELSE "none"]]
    : e \in [edges -> kinds] }

Kinds == {"none", "optional", "required"}

\* In the acyclic graphs a resource only needs resources with a larger number.
Acyclic == GraphsOver(1 .. 3, {e \in (1 .. 3) \X (1 .. 4) : e[1] < e[2]}, Kinds)

Cyclic == GraphsOver(1 .. 3, (1 .. 3) \X (1 .. 3), {"none", "required"})

\* What the target needs refers back to it.
Back == GraphsOver(1 .. 3, {<<1, 2>>, <<2, 3>>, <<2, 1>>, <<3, 1>>}, Kinds)

\* The target requires a resource of known domain without operations, or is one.
Partial == GraphsOver(1 .. 2, {<<1, 2>>, <<1, 3>>, <<2, 3>>, <<2, 4>>}, {"required"})
           \cup GraphsOver(2 .. 3, {<<2, 1>>, <<2, 3>>, <<3, 2>>}, Kinds)

\* One operation mentions what r needs, and takes what is required for required if
\* its number is odd; another mentions what is required, if its number is even as such.
Operations(g, r) ==
  LET all      == SelectSeq(<<1, 2, 3, 4>>, LAMBDA p : g[r][p] # "none")
      demanded == SelectSeq(<<4, 3, 2, 1>>, LAMBDA p : g[r][p] = "required") IN
  [i \in 1 .. Len(all) |->
     [to |-> all[i], required |-> g[r][all[i]] = "required" /\ all[i] % 2 = 1]]
  \o [i \in 1 .. Len(demanded) |->
        [to |-> demanded[i], required |-> demanded[i] % 2 = 0]]

MCExtractions ==
  { [r \in DOMAIN g |-> Operations(g, r)] : g \in Acyclic \cup Cyclic \cup Back \cup Partial }

\* The key that the generator has for the resource of unknown domain, and the planner's.
MCUnknown   == {4}
MCExistings == {{}, {2, -4}, {1, 4}}
=============================================================================
