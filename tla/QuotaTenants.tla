----------------------------- MODULE QuotaTenants -----------------------------
(***************************************************************************)
(* QuotaService under changes of tenant.  The cache of quota statuses is   *)
(* keyed by namespace and type (getFromCache(), src/src/services/          *)
(* quota-service.ts), not by tenant: what one tenant left in it decides    *)
(* about the creates of the next.  This module adds the history that says  *)
(* for how long, and changes nothing else.                                 *)
(***************************************************************************)
EXTENDS QuotaService

VARIABLE lastSwitch  \* history: when the loaded credentials last changed tenant

tenantVars == <<vars, lastSwitch>>

TenantInit == Init /\ lastSwitch = 0

Note == lastSwitch' = IF active' = active THEN lastSwitch ELSE now

TenantNext == Next /\ Note

TenantSpec == TenantInit /\ [][TenantNext]_tenantVars

\* A create is decided on by the quota of the tenant it is for: the status of another
\* one decides at most until what that one had asked for before the last switch has
\* arrived and expired.
OwnTenantDecides ==
  decision # Nothing /\ decision.scope # decision.status.scope
    => now - lastSwitch <= CacheTtl + HttpTimeout
=============================================================================
