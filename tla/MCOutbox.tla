------------------------------ MODULE MCOutbox ------------------------------
(***************************************************************************)
(* Small instances of Outbox for TLC.                                      *)
(***************************************************************************)
EXTENDS Outbox, TLC

CONSTANTS Invitation, Text, Warning, Api, Daemon

MCMail == {Invitation}
MCJobs == {Invitation, Text}
MCWarnings == {Invitation, Warning}
MCSms == {Text}
MCCredential == {Invitation}
MCWithheld == {Warning}
MCWorker == {Api, Daemon}
MCHeld == {Api}
None == {}

\* Workers that hold nothing are alike.
Alike == Permutations(MCWorker)

=============================================================================
