----------------------------- MODULE MCDocuments -----------------------------
(* Documents for TLC: every document belongs to the same one of the tenants.  *)
EXTENDS Documents

MCTenantOf == [d \in Docs |-> CHOOSE t \in Tenants : TRUE]
=============================================================================
