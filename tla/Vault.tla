------------------------------- MODULE Vault -------------------------------
(***************************************************************************)
(* The key material of one vault, its recovery ceremonies, the messages    *)
(* encrypted under its key, and the beneficiaries who hold the shares of   *)
(* the current distribution.                                               *)
(*                                                                         *)
(* Every handler locks the VaultStatus row and refreshes the Vault row     *)
(* (writable, or lock_status and refresh) and commits once, so each is one *)
(* action.  What interleaves is the browsers: a tab or a device keeps the  *)
(* key and the material revision of when it unlocked (Browser.tla shows    *)
(* that the two belong together), the shares of a draft, or an old         *)
(* readiness report, and comes back with them much later.  views holds     *)
(* every pair a browser may still hold, and a request quotes one of them.  *)
(*                                                                         *)
(* A generation is a fresh random number: it names its draft and, when the *)
(* draft is the first setup, the vault key that the same browser made.     *)
(***************************************************************************)
EXTENDS Integers, FiniteSets

CONSTANTS
    Generation,     \* generations of recovery distributions
    None,           \* NULL
    Policy,         \* recovery policies that owners choose: [k, n]
    DefaultPolicy,  \* the policy of a new row: 2 of 3
    Beneficiary,    \* ids of beneficiary rows, never used twice
    Message,        \* ids of messages
    MaxRevision,    \* bound: changes of the key material
    MaxMoved        \* bound: rows with a new address, which has one at most

ASSUME ConstantsAssumption ==
    /\ None \notin Generation
    /\ Policy \subseteq {p \in [k : Nat \ {0}, n : Nat \ {0}] : p.k <= p.n}
    /\ DefaultPolicy \in [k : Nat \ {0}, n : Nat \ {0}]
    /\ MaxRevision \in Nat /\ MaxMoved \in Nat

VARIABLES
    vault,      \* Vault: [revision, wrapped, generation, status, policy]
    ceremony,   \* RecoveryCeremony rows by generation
    drill,      \* the accepted drill in the row of the vault's generation (in
                \* the others it is never read)
    recipient,  \* Beneficiary rows by id
    messages,   \* the key that each stored message is encrypted under
    views,      \* what browsers have unlocked: [revision, key]
    released    \* VaultStatus.state = "triggered"

vars == <<vault, ceremony, drill, recipient, messages, views, released>>

NoDrill == [revision |-> 0, signature |-> <<>>]
NoRow == [status |-> "none", expected |-> 0, key |-> None, initial |-> FALSE,
          policy |-> DefaultPolicy]
Absent == [status |-> "absent", contact |-> 0, share |-> 0, generation |-> None]

Init ==
    /\ vault = [revision |-> 0, wrapped |-> None, generation |-> None,
                status |-> "UNINITIALIZED", policy |-> DefaultPolicy]
    /\ ceremony = [g \in Generation |-> NoRow]
    /\ drill = NoDrill
    /\ recipient = [b \in Beneficiary |-> Absent]
    /\ messages = [m \in Message |-> None]
    /\ views = {}
    /\ released = FALSE

-----------------------------------------------------------------------------
(* Recovery readiness                                                      *)

Rows == {b \in Beneficiary : recipient[b].status \notin {"absent", "deleted"}}

\* Everything that the hash of the assignments is taken over.
Signature == [b \in Rows |-> recipient[b]]

\* The distinct shares of the current distribution in accepted hands.
Eligible ==
    {recipient[b].share : b \in {c \in Rows :
        /\ recipient[c].status = "accepted"
        /\ recipient[c].share # 0
        /\ recipient[c].generation = vault.generation}}

QuorumAssigned == Cardinality(Eligible) >= vault.policy.k

HasCeremony ==
    /\ vault.generation # None
    /\ ceremony[vault.generation].status = "FINALIZED"

\* Mutant: the drill is not compared with the assignments.
CurrentDrillUnsigned ==
    LET row == ceremony[vault.generation]
    IN  /\ HasCeremony
        /\ row.expected + 1 = vault.revision
        /\ drill.revision = vault.revision

CurrentDrill ==
    LET row == ceremony[vault.generation]
    IN  /\ HasCeremony
        /\ row.expected + 1 = vault.revision
        /\ row.policy = vault.policy
        /\ drill = [revision |-> vault.revision, signature |-> Signature]

ReleaseReady ==
    /\ vault.wrapped # None
    /\ vault.status = "READY"
    /\ HasCeremony
    /\ QuorumAssigned
    /\ CurrentDrill

-----------------------------------------------------------------------------
(* Key material and ceremonies                                             *)

\* Mutant: a released vault is still written.
WritableReleased(expected) == vault.revision = expected

Writable(expected) ==
    /\ ~released
    /\ vault.revision = expected

\* Mutant: the wrapped key of a replaced setup is kept.
CancelDraftsOnly(rows) ==
    [g \in Generation |->
        IF rows[g].status = "DRAFT" THEN [rows[g] EXCEPT !.status = "CANCELLED"] ELSE rows[g]]

CancelDrafts(rows) ==
    [g \in Generation |->
        IF rows[g].status = "DRAFT"
        THEN [rows[g] EXCEPT !.status = "CANCELLED", !.initial = FALSE]
        ELSE rows[g]]

\* Mutant: an earlier draft is left alone.
AddDraftBeside(g, key, initial, policy) ==
    ceremony' = [ceremony EXCEPT ![g] =
        [status |-> "DRAFT", expected |-> vault.revision, key |-> key,
         initial |-> initial, policy |-> policy]]

AddDraft(g, key, initial, policy) ==
    ceremony' = [CancelDrafts(ceremony) EXCEPT ![g] =
        [status |-> "DRAFT", expected |-> vault.revision, key |-> key,
         initial |-> initial, policy |-> policy]]

\* The setup page makes a key, its shares and a draft with the wrapped key.
CreateFirstDraft(g, policy) ==
    /\ ceremony[g].status = "none"
    /\ Writable(0)
    /\ vault.wrapped = None
    /\ AddDraft(g, g, TRUE, policy)
    /\ vault' = [vault EXCEPT !.status = "DRAFT"]
    /\ UNCHANGED <<drill, recipient, messages, views, released>>

\* The reshare page splits the key that the browser holds.
CreateReshareDraft(g, policy, view) ==
    /\ ceremony[g].status = "none"
    /\ Writable(view.revision)
    /\ vault.wrapped # None
    /\ AddDraft(g, view.key, FALSE, policy)
    /\ UNCHANGED <<vault, drill, recipient, messages, views, released>>

SeenBy(v) == views' = views \cup {[revision |-> v.revision, key |-> v.wrapped]}

ForgetAssignments ==
    [b \in Beneficiary |-> [recipient[b] EXCEPT !.generation = None]]

\* Mutants: a draft that is stale or cancelled is finalized; so is one that
\* has fewer shares than are assigned.
FinalizableAnyway(g) ==
    /\ ceremony[g].status # "none"
    /\ \A b \in Rows : recipient[b].share <= ceremony[g].policy.n
FinalizableShort(g) ==
    /\ ceremony[g].status = "DRAFT"
    /\ Writable(ceremony[g].expected)

\* finalize up to its last refusal; a row that is FINALIZED already changes
\* nothing.
Finalizable(g) ==
    /\ ceremony[g].status = "DRAFT"
    /\ Writable(ceremony[g].expected)
    /\ \A b \in Rows : recipient[b].share <= ceremony[g].policy.n

FinalizeCeremony(g) ==
    /\ ~released
    /\ Finalizable(g)
    /\ vault.revision < MaxRevision
    /\ ceremony' =
        [h \in Generation |->
            IF h = g THEN [ceremony[g] EXCEPT !.status = "FINALIZED", !.initial = FALSE]
            ELSE IF ceremony[h].status = "FINALIZED"
                 THEN [ceremony[h] EXCEPT !.status = "SUPERSEDED"]
                 ELSE ceremony[h]]
    /\ vault' = [revision |-> vault.revision + 1,
                 wrapped |-> IF ceremony[g].initial THEN ceremony[g].key ELSE vault.wrapped,
                 generation |-> g, status |-> "READY", policy |-> ceremony[g].policy]
    /\ recipient' = ForgetAssignments
    /\ drill' = NoDrill
    /\ SeenBy(vault')
    /\ UNCHANGED <<messages, released>>

StatusAfterCancel == IF vault.wrapped = None THEN "UNINITIALIZED" ELSE vault.status

\* Refused only when finalized: rows cancelled or superseded are cancelled
\* again, and a vault without a key is uninitialized even beside a live draft.
CancelCeremony(g) ==
    /\ ceremony[g].status \notin {"none", "FINALIZED"}
    /\ ~released
    /\ ceremony' = [ceremony EXCEPT ![g].status = "CANCELLED", ![g].initial = FALSE]
    /\ vault' = [vault EXCEPT !.status = StatusAfterCancel]
    /\ UNCHANGED <<drill, recipient, messages, views, released>>

\* save_crypto_material: the browser wraps the key it holds anew.
Rewrap(view) ==
    /\ Writable(view.revision)
    /\ vault.wrapped # None
    /\ vault.revision < MaxRevision
    /\ vault' = [vault EXCEPT !.wrapped = view.key, !.revision = @ + 1]
    /\ SeenBy(vault')
    /\ UNCHANGED <<ceremony, drill, recipient, messages, released>>

-----------------------------------------------------------------------------
(* Messages                                                                *)

UnchangedButMessages == UNCHANGED <<vault, ceremony, drill, recipient, views, released>>

SaveMessage(m, view) ==
    /\ messages[m] = None
    /\ Writable(view.revision)
    /\ vault.wrapped # None
    /\ messages' = [messages EXCEPT ![m] = view.key]
    /\ UnchangedButMessages

\* An update that replaces the ciphertext.  One of the label, the category or
\* the tags alone changes nothing that is kept here.
UpdateMessage(m, view) ==
    /\ messages[m] # None
    /\ Writable(view.revision)
    /\ messages' = [messages EXCEPT ![m] = view.key]
    /\ UnchangedButMessages

\* Deletion, of one message or of all, asks neither for a lock nor for the
\* state of the vault.
DeleteMessage(m) ==
    /\ messages[m] # None
    /\ messages' = [messages EXCEPT ![m] = None]
    /\ UnchangedButMessages

WipeMessages ==
    /\ messages' = [m \in Message |-> None]
    /\ UnchangedButMessages

-----------------------------------------------------------------------------
(* Beneficiaries.  None of their handlers asks whether the vault is        *)
(* released.                                                               *)

UnchangedButRecipients == UNCHANGED <<vault, ceremony, drill, messages, views, released>>

Update(b, row) ==
    /\ recipient' = [recipient EXCEPT ![b] = row]
    /\ UnchangedButRecipients

\* Mutant: two beneficiaries may get one share.
AssignableTaken(b, i) == i = 0 \/ i \in 1 .. vault.policy.n

\* Share i (0: none) is in range and nobody else's.
Assignable(b, i) ==
    i # 0 => /\ i \in 1 .. vault.policy.n
             /\ \A c \in Rows \ {b} : recipient[c].share # i

WithShare(row, i) ==
    [row EXCEPT !.share = i, !.generation = IF i = 0 THEN None ELSE vault.generation]

AddBeneficiary(b, i) ==
    /\ recipient[b].status = "absent"
    /\ Assignable(b, i)
    /\ Update(b, WithShare([Absent EXCEPT !.status = "pending"], i))

InviteBeneficiary(b) ==
    /\ b \in Rows
    /\ recipient[b].status # "accepted"
    /\ Update(b, [recipient[b] EXCEPT !.status = "sent"])

AcceptInvitation(b) ==
    /\ recipient[b].status = "sent"
    /\ Update(b, [recipient[b] EXCEPT !.status = "accepted"])

\* An acceptance that comes after seven days.
ExpireInvitation(b) ==
    /\ recipient[b].status = "sent"
    /\ Update(b, [recipient[b] EXCEPT !.status = "expired"])

NewContact(row) == [row EXCEPT !.contact = @ + 1, !.status = "pending"]

MovedRows == {b \in Rows : recipient[b].contact > 0}

\* update_beneficiary: a new address, a share to assign or take away, or both.
UpdateBeneficiary(b, moved, assigned, i) ==
    /\ b \in Rows
    /\ moved \/ assigned
    /\ moved => recipient[b].contact = 0 /\ Cardinality(MovedRows) < MaxMoved
    /\ IF assigned THEN Assignable(b, i) ELSE i = 0
    /\ LET row == IF moved THEN NewContact(recipient[b]) ELSE recipient[b]
       IN  Update(b, IF assigned THEN WithShare(row, i) ELSE row)

AssignShare(b, i) ==
    /\ b \in Rows
    /\ i # 0
    /\ Assignable(b, i)
    /\ Update(b, WithShare(recipient[b], i))

DeleteBeneficiary(b) ==
    /\ b \in Rows
    /\ Update(b, [Absent EXCEPT !.status = "deleted"])

-----------------------------------------------------------------------------
(* Drill and release                                                       *)

\* The report is refused unless it quotes the revision, the generation and
\* the assignments of now.
ReportDrill ==
    /\ HasCeremony
    /\ drill' = [revision |-> vault.revision, signature |-> Signature]
    /\ UNCHANGED <<vault, ceremony, recipient, messages, views, released>>

\* What Release.tla is about, as far as it reaches this module: a release
\* passes the gate.
PassGate ==
    /\ ~released
    /\ ReleaseReady
    /\ released' = TRUE
    /\ UNCHANGED <<vault, ceremony, drill, recipient, messages, views>>

ChangeMaterial ==
    \/ \E g \in Generation, p \in Policy :
          \/ CreateFirstDraft(g, p)
          \/ \E view \in views : CreateReshareDraft(g, p, view)
    \/ \E g \in Generation : FinalizeCeremony(g) \/ CancelCeremony(g)
    \/ \E view \in views : Rewrap(view)
    \/ ReportDrill

ChangeMessages ==
    \/ \E m \in Message, view \in views : SaveMessage(m, view) \/ UpdateMessage(m, view)
    \/ \E m \in Message : DeleteMessage(m)
    \/ WipeMessages

ChangeRecipients ==
    \E b \in Beneficiary :
        \/ \E i \in 0 .. vault.policy.n : AddBeneficiary(b, i)
        \/ InviteBeneficiary(b)
        \/ AcceptInvitation(b)
        \/ ExpireInvitation(b)
        \/ \E moved, assigned \in BOOLEAN, i \in 0 .. vault.policy.n :
              UpdateBeneficiary(b, moved, assigned, i)
        \/ \E i \in 1 .. vault.policy.n : AssignShare(b, i)
        \/ DeleteBeneficiary(b)

Next == ChangeMaterial \/ ChangeMessages \/ ChangeRecipients \/ PassGate

Spec == Init /\ [][Next]_vars

-----------------------------------------------------------------------------
(* Properties                                                              *)

Key == Generation \cup {None}

VaultRow == [revision : Nat, wrapped : Key, generation : Key,
             status : {"UNINITIALIZED", "DRAFT", "READY"},
             policy : Policy \cup {DefaultPolicy}]
CeremonyRow == [status : {"none", "DRAFT", "FINALIZED", "CANCELLED", "SUPERSEDED"},
                expected : Nat, key : Key, initial : BOOLEAN,
                policy : Policy \cup {DefaultPolicy}]
RecipientRow == [status : {"absent", "pending", "sent", "accepted", "expired", "deleted"},
                 contact : {0, 1}, share : Nat, generation : Key]

\* Every row holds values of its columns, and initial material only while the
\* row is a draft.
TypeOK ==
    /\ vault \in VaultRow
    /\ ceremony \in [Generation -> CeremonyRow]
    /\ \A g \in Generation : ceremony[g].initial => ceremony[g].status = "DRAFT"
    /\ drill.revision \in Nat
    /\ recipient \in [Beneficiary -> RecipientRow]
    /\ messages \in [Message -> Key]
    /\ views \subseteq [revision : Nat, key : Generation]
    /\ released \in BOOLEAN

\* What the shares of the vault's generation reconstruct is the key that is
\* wrapped in the vault, and every stored message is encrypted under it,
\* whichever setup, reshare, rewrap and save requests of how many browsers
\* crossed (vault.py:179-187, ceremony.py:74-117).
Recoverable ==
    IF vault.wrapped = None
    THEN /\ vault.revision = 0 /\ vault.generation = None
         /\ \A m \in Message : messages[m] = None
    ELSE /\ HasCeremony
         /\ ceremony[vault.generation].key = vault.wrapped
         /\ ceremony[vault.generation].policy = vault.policy
         /\ \A m \in Message : messages[m] \in {None, vault.wrapped}

\* There is one live draft at most and one finalized ceremony, which is the
\* vault's; a vault is READY when it has a key and not before, whatever is
\* cancelled in between (ceremony.py:41-57,100-110,134-138).
OneCeremony ==
    /\ \A g, h \in Generation :
        ceremony[g].status = "DRAFT" /\ ceremony[h].status = "DRAFT" => g = h
    /\ \A g \in Generation :
        ceremony[g].status = "FINALIZED" => vault.generation = g
    /\ vault.status = "READY" <=> vault.wrapped # None

\* Nobody is counted with a share of another distribution than the vault's,
\* with one that does not exist in it, or with somebody else's
\* (beneficiaries.py:90-93,284-301, ceremony.py:94-99,111-114).
SharesAreReal ==
    \A b \in Rows :
        /\ recipient[b].share \in 0 .. vault.policy.n
        /\ recipient[b].generation \in {None, vault.generation}
        /\ \A c \in Rows \ {b} :
            recipient[b].share # 0 => recipient[c].share # recipient[b].share

\* From the release on, what the beneficiaries need to recover is fixed: the
\* material, its ceremony and the messages, which the owner can only delete.
ReleaseFreezes ==
    [][released => /\ released'
                   /\ vault' = vault /\ ceremony' = ceremony
                   /\ \A m \in Message : messages'[m] \in {None, messages[m]}]_vars

\* An accepted drill of a vault whose quorum is assigned makes it ready for
\* release.  README.md:10 says of a passphrase change that existing messages
\* and shares continue to work, docs/remediation-plan.md:332 asks to
\* "invalidate/requalify drill indicators" after it.
DrillQualifies ==
    [][HasCeremony /\ ~released /\ QuorumAssigned
        /\ drill' # drill /\ drill' # NoDrill
        => ReleaseReady']_vars

-----------------------------------------------------------------------------
(* The setup that Release.tla sees                                         *)

Material == IF vault.wrapped = None THEN 0 ELSE vault.revision
CeremonyRevision == IF HasCeremony THEN ceremony[vault.generation].expected + 1 ELSE 0

Seen == [material |-> Material, ceremony |-> CeremonyRevision, drill |-> drill.revision,
         quorum |-> HasCeremony /\ QuorumAssigned,
         signed |-> drill.revision # 0 /\ drill.signature = Signature]

Accepted == {b \in Rows : recipient[b].status = "accepted"}

Authority == INSTANCE Release WITH
    Production <- TRUE, Tab <- {}, Policy <- {},
    DefaultPolicy <- [interval |-> 1, grace |-> 1], SecondWarningAfter <- 3,
    MaxDay <- 0, MaxEpisode <- 0, MaxRevision <- MaxRevision, MaxReleases <- 1,
    now <- 0, hb <- 0, events <- {}, jobs <- {}, releases <- 0,
    hold <- <<>>, pass <- <<>>, req <- <<>>,
    vs <- [state |-> IF released THEN "triggered" ELSE "active"],
    vault <- Seen,
    accepted <- Accepted

\* Every change of the rows is, to the release authority, one of the changes
\* of the setup that Release.tla allows or none, and its readiness is this
\* one: what Release.tla leaves to chance is what the code can do.
RefinesSetup == [][UNCHANGED <<Seen, Accepted>> \/ Authority!ChangeSetup]_vars

\* The gate of Release.tla is this one.
SameGate == Authority!Ready(Seen.material) <=> ReleaseReady
=============================================================================
