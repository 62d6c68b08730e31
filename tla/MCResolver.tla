------------------------------ MODULE MCResolver ------------------------------
(***************************************************************************)
(* Small instance of Resolver: every graph without cycles on four          *)
(* resources, required and optional edges mixed.                           *)
(***************************************************************************)
EXTENDS Resolver

MCResources == 1 .. 4

\* The graphs whose edges are among the given ones, each of one of the kinds.
GraphsOver(edges, kinds) ==
  { [r \in MCResources |-> [p \in MCResources |->
       IF <<r, p>> \in edges THEN e[<<r, p>>] ELSE "none"]]
    : e \in [edges -> kinds] }

\* In the acyclic graphs a resource only needs resources with a larger number.
Acyclic == GraphsOver({e \in MCResources \X MCResources : e[1] < e[2]}, Needs)
=============================================================================
