----------------------------- MODULE MCTenants -----------------------------
(* Tenants with interchangeable requests, app_ids and secrets.             *)
EXTENDS Tenants, TLC

Symmetry == Permutations(Requests) \cup Permutations(AppIDs) \cup Permutations(Secrets)
=============================================================================
