------------------------------ MODULE MCVault ------------------------------
(* Small instances of Vault.tla: settings for TLC.                         *)
EXTENDS Vault, TLC

MCDefaultPolicy == [k |-> 1, n |-> 2]
MCPolicies == {[k |-> 1, n |-> 1]}

Alike == Permutations(Generation) \cup Permutations(Beneficiary)
=============================================================================
