------------------------------ MODULE MCBrowser ------------------------------
(* A small instance of Browser.tla: settings for TLC.                      *)
EXTENDS Browser, TLC

Alike == Permutations(Tab) \cup Permutations(Person)
=============================================================================
