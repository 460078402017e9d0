----------------------------- MODULE MCRelease -----------------------------
(* Small instances of Release.tla: settings for TLC.                       *)
EXTENDS Release

MCShortPolicy == [interval |-> 1, grace |-> 1]
MCOnePolicy == {MCShortPolicy}

\* With the second warning after one day, one of these periods is long enough
\* for it and the other is not.
MCPolicy == [interval |-> 2, grace |-> 2]
MCPolicies == {[interval |-> 2, grace |-> 1], MCPolicy}
=============================================================================
