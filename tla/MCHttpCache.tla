----------------------------- MODULE MCHttpCache -----------------------------
(***************************************************************************)
(* A small instance of HttpCache: two GET keys and one of another method   *)
(* compete for two places.  The headers are: none; max-age=1; no-store;    *)
(* and a Cache-Control that says neither.                                  *)
(***************************************************************************)
EXTENDS HttpCache, TLC

CONSTANTS g1, g2, p1, d1, d2

MCKeys    == {g1, g2, p1}
MCGetKeys == {g1, g2}
MCData    == {d1, d2}

MCHeaders ==
  { [present |-> FALSE, maxAge |-> -1, noStore |-> FALSE],
    [present |-> TRUE,  maxAge |-> 1,  noStore |-> FALSE],
    [present |-> TRUE,  maxAge |-> -1, noStore |-> TRUE],
    [present |-> TRUE,  maxAge |-> -1, noStore |-> FALSE] }

MCSymmetry == Permutations({g1, g2}) \cup Permutations({d1, d2})
=============================================================================
