------------------------------ MODULE MCSession ------------------------------
(***************************************************************************)
(* The instance of Session that TLC checks: two calls of configure-auth    *)
(* at once, two profiles and the credentials of two tenants, of which one  *)
(* may also be in the environment.                                         *)
(***************************************************************************)

EXTENDS Session, TLC

CONSTANTS c1, c2, n1, n2, t1, t2, None

MCEnvs == {None, t1}

MCSymmetry == Permutations({c1, c2}) \cup Permutations({n1, n2})

=============================================================================
