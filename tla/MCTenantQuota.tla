---------------------------- MODULE MCTenantQuota ----------------------------
(* TenantQuota for TLC.  API processes are interchangeable, and so are workers. *)
EXTENDS TenantQuota, TLC

MCSymmetry == Permutations(Processes) \union Permutations(Workers)
=============================================================================
