---------------------------- MODULE MCSchemaLoader ----------------------------
(***************************************************************************)
(* Small instances of SchemaLoader: three schemas, each absent or with up  *)
(* to two references, one of which lies deeper than the others, or a       *)
(* reference itself, in the domain of the tool; and two other domains that *)
(* have some of them too.                                                  *)
(***************************************************************************)
EXTENDS SchemaLoader

MCDomains == {"own", "other", "third"}
MCNames   == 1 .. 3

To(n) == [ref |-> n, inside |-> IF n = 3 THEN 2 ELSE 1]

Bodies == {<< >>} \cup {<<[ref |-> n, inside |-> 0]>> : n \in MCNames}
          \cup {<<To(n)>> : n \in MCNames}
          \cup {<<To(n), To(m)>> : n \in MCNames, m \in MCNames}

Schemas(names, bodies) == UNION {[K -> bodies] : K \in SUBSET names}

\* Everything is in one domain, and another one has two schemas of the same names.
OneDomain ==
  {[own |-> f, other |-> [n \in {2, 3} |-> <<To(1)>>]] : f \in Schemas(MCNames, Bodies)}

\* Two domains have what the tool's own lacks; or its file cannot be read.
ThreeDomains ==
  {[own |-> f, other |-> g, third |-> h] :
     f \in [{1} -> Bodies] \cup [{} -> Bodies],
     g \in Schemas({2, 3}, {<< >>, <<To(3)>>}),
     h \in [{1, 2, 3} -> {<< >>, <<To(2), To(1)>>}]}
  \cup {[other |-> g] : g \in [{1} -> Bodies]}

MCFiles == OneDomain \cup ThreeDomains
=============================================================================
