---------------------------- MODULE MCQuotaService ----------------------------
(***************************************************************************)
(* A small instance of QuotaTenants: one quota, checked by creates of two  *)
(* tenants' web application firewalls.                                     *)
(***************************************************************************)
EXTENDS QuotaTenants, TLC

MCTypes       == {"waf-policy"}
MCQuotaTypes  == {"app_firewall"}
MCQuotaTypeOf == [type \in MCTypes |-> "app_firewall"]

\* Below the limit of 200, at the usages that round to 99% and to 100%, at it.
MCUsages == {198, 199, 200}

MCSymmetry == Permutations(Callers)
=============================================================================
