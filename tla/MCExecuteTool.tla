---------------------------- MODULE MCExecuteTool ----------------------------
(***************************************************************************)
(* Small instances of ExecuteTool.  In the large one there are the path of *)
(* a collection and that of one of its items: a PUT or DELETE of the item  *)
(* changes what the collection shows, and a POST to the collection what    *)
(* the item shows.  The others have one path.                              *)
(***************************************************************************)
EXTENDS ExecuteTool, TLC

\* POST is the method of creates; PUT stands for DELETE too; PATCH has no case.
MCMethods == {"GET", "PUT", "PATCH"}
MCPaths   == {"list", "item"}
MCAffects == [p \in MCPaths |-> MCPaths]

MCOnePath        == {"item"}
MCOnePathAffects == [p \in MCOnePath |-> MCOnePath]

MCSymmetry == Permutations(Callers)
=============================================================================
