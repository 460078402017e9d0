------------------------------ MODULE MCRefresh ------------------------------
(* A small instance of Refresh.tla: settings for TLC.                      *)
EXTENDS Refresh, TLC

Alike == Permutations(Tab) \cup Permutations(Request)
=============================================================================
