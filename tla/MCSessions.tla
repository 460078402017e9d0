----------------------------- MODULE MCSessions -----------------------------
(* A small instance of Sessions.tla: settings for TLC.                     *)
EXTENDS Sessions, TLC

Alike == Permutations(Family) \cup Permutations(Challenge)
            \cup Permutations(Invitation) \cup Permutations(Process)
=============================================================================
