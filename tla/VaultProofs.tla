---------------------------- MODULE VaultProofs ----------------------------
(***************************************************************************)
(* Theorems about Vault.tla for every set of generations, beneficiaries,   *)
(* messages and policies, every number of browsers and every bound.        *)
(***************************************************************************)
EXTENDS Vault, FiniteSetTheorems, TLAPS

-----------------------------------------------------------------------------
(* The inductive invariant                                                 *)

\* A browser holds the key that is wrapped in the vault.
ViewsHoldTheKey == \A v \in views : v.key = vault.wrapped

\* A live draft is a setup of a key of its own, which can be finalized only
\* while the vault has no key, or it was split from the key of the vault.
DraftsAreOfTheKey ==
    \A g \in Generation : ceremony[g].status = "DRAFT" =>
        /\ ceremony[g].key # None
        /\ IF ceremony[g].initial
           THEN ceremony[g].expected = 0
           ELSE ceremony[g].key = vault.wrapped

\* The first finalization, and nothing before it, moves the revision from 0.
KeyIsCounted == vault.wrapped = None <=> vault.revision = 0

\* The drill is a report or none.
DrillIsReport == drill = [revision |-> drill.revision, signature |-> drill.signature]

VaultInvariant ==
    /\ TypeOK
    /\ ViewsHoldTheKey
    /\ DraftsAreOfTheKey
    /\ KeyIsCounted
    /\ DrillIsReport
    /\ Recoverable
    /\ OneCeremony
    /\ SharesAreReal

LEMMA InitInvariant == Init => VaultInvariant
<1> SUFFICES ASSUME Init
             PROVE  VaultInvariant
  OBVIOUS
<1>1. TypeOK
  <2>1. vault \in VaultRow
    BY DEF Init, VaultRow, Key
  <2>2. NoRow \in CeremonyRow /\ NoRow.initial = FALSE
    BY DEF NoRow, CeremonyRow, Key
  <2>3. Absent \in RecipientRow
    BY DEF Absent, RecipientRow, Key
  <2> QED
    BY <2>1, <2>2, <2>3 DEF Init, TypeOK, NoDrill, Key
<1>2. ViewsHoldTheKey /\ KeyIsCounted /\ DrillIsReport /\ Recoverable
  BY DEF Init, ViewsHoldTheKey, KeyIsCounted, DrillIsReport, NoDrill, Recoverable
<1>3. DraftsAreOfTheKey /\ OneCeremony
  BY DEF Init, DraftsAreOfTheKey, OneCeremony, NoRow
<1>4. SharesAreReal
  BY DEF Init, SharesAreReal, Rows, Absent
<1> QED
  BY <1>1, <1>2, <1>3, <1>4 DEF VaultInvariant

-----------------------------------------------------------------------------
(* Beneficiaries                                                           *)

\* A row that may take the place of b's.
Fits(b, row) ==
    row.status \notin {"absent", "deleted"} =>
        /\ row.share \in 0 .. vault.policy.n
        /\ row.generation \in {None, vault.generation}
        /\ row.share # 0 => \A c \in Rows \ {b} : recipient[c].share # row.share

\* Whatever is done to one beneficiary row, what it says decides.
LEMMA UpdateInvariant ==
  ASSUME VaultInvariant, NEW b \in Beneficiary, NEW row \in RecipientRow,
         Fits(b, row), Update(b, row)
  PROVE  VaultInvariant'
<1> USE DEF VaultInvariant, Update, UnchangedButRecipients
<1>1. TypeOK'
  BY DEF TypeOK
<1>2. /\ ViewsHoldTheKey' /\ DraftsAreOfTheKey' /\ KeyIsCounted' /\ DrillIsReport'
      /\ Recoverable' /\ OneCeremony'
  BY DEF ViewsHoldTheKey, DraftsAreOfTheKey, KeyIsCounted, DrillIsReport,
         Recoverable, HasCeremony, OneCeremony
<1>3. SharesAreReal'
  <2>1. recipient'[b] = row /\ \A c \in Beneficiary \ {b} : recipient'[c] = recipient[c]
    BY DEF TypeOK
  <2>2. Rows' \ {b} = Rows \ {b}
    BY <2>1 DEF Rows
  <2>3. b \in Rows' => row.status \notin {"absent", "deleted"}
    BY <2>1 DEF Rows
  <2>4. \A c \in Rows' : c \in Beneficiary
    BY DEF Rows
  <2> SUFFICES ASSUME NEW c \in Rows'
               PROVE  /\ recipient'[c].share \in 0 .. vault.policy.n
                      /\ recipient'[c].generation \in {None, vault.generation}
                      /\ \A d \in Rows' \ {c} :
                          recipient'[c].share # 0 => recipient'[d].share # recipient'[c].share
    BY DEF SharesAreReal
  <2>5. CASE c = b
    BY <2>1, <2>2, <2>3, <2>4, <2>5 DEF Fits
  <2>6. CASE c # b
    <3>1. c \in Rows /\ recipient'[c] = recipient[c]
      BY <2>1, <2>2, <2>4, <2>6
    <3>2. ASSUME NEW d \in Rows' \ {c}, recipient[c].share # 0
          PROVE  recipient'[d].share # recipient[c].share
      <4>1. CASE d = b
        <5>1. row.share # 0 => recipient[c].share # row.share
          BY <2>3, <2>6, <3>1, <4>1 DEF Fits
        <5> QED
          BY <2>1, <3>2, <4>1, <5>1
      <4>2. CASE d # b
        BY <2>1, <2>2, <2>4, <3>1, <3>2, <4>2 DEF SharesAreReal
      <4> QED
        BY <4>1, <4>2
    <3> QED
      BY <3>1, <3>2 DEF SharesAreReal
  <2> QED
    BY <2>5, <2>6
<1> QED
  BY <1>1, <1>2, <1>3

\* A change of the status or the address leaves the share where it was.
LEMMA SameShareFits ==
  ASSUME VaultInvariant, NEW b \in Rows, NEW row \in RecipientRow,
         row.share = recipient[b].share, row.generation = recipient[b].generation
  PROVE  Fits(b, row)
  BY DEF VaultInvariant, SharesAreReal, Fits

LEMMA AssignedFits ==
  ASSUME VaultInvariant, NEW b \in Beneficiary, NEW row \in RecipientRow,
         NEW i \in 0 .. vault.policy.n, Assignable(b, i)
  PROVE  WithShare(row, i) \in RecipientRow /\ Fits(b, WithShare(row, i))
<1>1. vault.generation \in Key /\ None \in Key /\ i \in Nat
  BY DEF VaultInvariant, TypeOK, VaultRow, Key
<1> DEFINE h == IF i = 0 THEN None ELSE vault.generation
           new == [row EXCEPT !.share = i, !.generation = h]
<1>2. h \in Key
  BY <1>1
<1>3. new \in RecipientRow /\ new.share = i /\ new.generation = h
  <2> HIDE DEF h
  <2> QED
    BY <1>1, <1>2 DEF RecipientRow
<1>4. new = WithShare(row, i)
  BY DEF WithShare
<1> QED
  BY <1>3, <1>4 DEF Fits, Assignable

\* Nothing that the owner or an invited person does with a beneficiary lets
\* two hold one share, or one hold a share that the vault does not know.
LEMMA RecipientsInvariant ==
  ASSUME VaultInvariant, ChangeRecipients
  PROVE  VaultInvariant'
<1>1. PICK b \in Beneficiary :
        \/ \E i \in 0 .. vault.policy.n : AddBeneficiary(b, i)
        \/ InviteBeneficiary(b)
        \/ AcceptInvitation(b)
        \/ ExpireInvitation(b)
        \/ \E moved, assigned \in BOOLEAN, i \in 0 .. vault.policy.n :
              UpdateBeneficiary(b, moved, assigned, i)
        \/ \E i \in 1 .. vault.policy.n : AssignShare(b, i)
        \/ DeleteBeneficiary(b)
  BY DEF ChangeRecipients
<1>2. recipient[b] \in RecipientRow
  BY DEF VaultInvariant, TypeOK
<1> DEFINE In(s) == [recipient[b] EXCEPT !.status = s]
<1>3. ASSUME NEW s \in {"pending", "sent", "accepted", "expired"}, b \in Rows,
             Update(b, In(s))
      PROVE  VaultInvariant'
  <2>1. /\ In(s) \in RecipientRow
        /\ In(s).share = recipient[b].share /\ In(s).generation = recipient[b].generation
    BY <1>2 DEF RecipientRow
  <2> HIDE DEF In
  <2> QED
    BY <1>3, <2>1, SameShareFits, UpdateInvariant
<1>4. CASE \E i \in 0 .. vault.policy.n : AddBeneficiary(b, i)
  <2>1. PICK i \in 0 .. vault.policy.n : AddBeneficiary(b, i)
    BY <1>4
  <2> DEFINE new == [Absent EXCEPT !.status = "pending"]
  <2>2. new \in RecipientRow
    BY DEF Absent, RecipientRow, Key
  <2>3. Assignable(b, i) /\ Update(b, WithShare(new, i))
    BY <2>1 DEF AddBeneficiary
  <2> HIDE DEF new
  <2>4. WithShare(new, i) \in RecipientRow /\ Fits(b, WithShare(new, i))
    BY <2>2, <2>3, AssignedFits
  <2> QED
    BY <2>3, <2>4, UpdateInvariant
<1>5. CASE InviteBeneficiary(b)
  BY <1>3, <1>5 DEF InviteBeneficiary
<1>6. CASE AcceptInvitation(b)
  BY <1>3, <1>6 DEF AcceptInvitation, Rows
<1>7. CASE ExpireInvitation(b)
  BY <1>3, <1>7 DEF ExpireInvitation, Rows
<1>8. CASE \E moved, assigned \in BOOLEAN, i \in 0 .. vault.policy.n :
              UpdateBeneficiary(b, moved, assigned, i)
  <2>1. PICK moved, assigned \in BOOLEAN, i \in 0 .. vault.policy.n :
                UpdateBeneficiary(b, moved, assigned, i)
    BY <1>8
  <2> DEFINE row == IF moved THEN NewContact(recipient[b]) ELSE recipient[b]
  <2>2. /\ row \in RecipientRow
        /\ row.share = recipient[b].share /\ row.generation = recipient[b].generation
    <3>1. CASE moved
      <4>1. recipient[b].contact = 0
        BY <2>1, <3>1 DEF UpdateBeneficiary
      <4>2. /\ NewContact(recipient[b]) \in RecipientRow
            /\ NewContact(recipient[b]).share = recipient[b].share
            /\ NewContact(recipient[b]).generation = recipient[b].generation
        <5> DEFINE c == recipient[b].contact + 1
                   new == [recipient[b] EXCEPT !.contact = c, !.status = "pending"]
        <5>1. c \in {0, 1}
          BY <4>1
        <5> HIDE DEF c
        <5>2. /\ new \in RecipientRow
              /\ new.share = recipient[b].share /\ new.generation = recipient[b].generation
          BY <1>2, <5>1 DEF RecipientRow
        <5>3. new = NewContact(recipient[b])
          BY DEF NewContact, c
        <5> QED
          BY <5>2, <5>3
      <4> QED
        BY <3>1, <4>2
    <3> QED
      BY <1>2, <3>1
  <2>3. /\ b \in Rows
        /\ IF assigned THEN Assignable(b, i) ELSE i = 0
        /\ Update(b, IF assigned THEN WithShare(row, i) ELSE row)
    BY <2>1 DEF UpdateBeneficiary
  <2> HIDE DEF row
  <2>4. CASE assigned
    <3>1. WithShare(row, i) \in RecipientRow /\ Fits(b, WithShare(row, i))
      BY <2>2, <2>3, <2>4, AssignedFits
    <3> QED
      BY <2>3, <2>4, <3>1, UpdateInvariant
  <2>5. CASE ~assigned
    BY <2>2, <2>3, <2>5, SameShareFits, UpdateInvariant
  <2> QED
    BY <2>4, <2>5
<1>9. CASE \E i \in 1 .. vault.policy.n : AssignShare(b, i)
  <2>1. PICK i \in 1 .. vault.policy.n : AssignShare(b, i)
    BY <1>9
  <2>2. Assignable(b, i) /\ Update(b, WithShare(recipient[b], i))
    BY <2>1 DEF AssignShare
  <2>3. i \in 0 .. vault.policy.n
    OBVIOUS
  <2>4. WithShare(recipient[b], i) \in RecipientRow /\ Fits(b, WithShare(recipient[b], i))
    BY <1>2, <2>2, <2>3, AssignedFits
  <2> QED
    BY <2>2, <2>4, UpdateInvariant
<1>10. CASE DeleteBeneficiary(b)
  <2> DEFINE new == [Absent EXCEPT !.status = "deleted"]
  <2>1. new \in RecipientRow /\ new.status = "deleted"
    BY DEF Absent, RecipientRow, Key
  <2>2. Update(b, new)
    BY <1>10 DEF DeleteBeneficiary
  <2> HIDE DEF new
  <2>3. Fits(b, new)
    BY <2>1 DEF Fits
  <2> QED
    BY <2>1, <2>2, <2>3, UpdateInvariant
<1> QED
  BY <1>1, <1>4, <1>5, <1>6, <1>7, <1>8, <1>9, <1>10

-----------------------------------------------------------------------------
(* Messages, the drill and the gate                                        *)

\* Whoever writes a message encrypts it under the key of the vault.
LEMMA MessagesInvariant ==
  ASSUME VaultInvariant, ChangeMessages
  PROVE  VaultInvariant'
<1>1. UnchangedButMessages
  BY DEF ChangeMessages, SaveMessage, UpdateMessage, DeleteMessage, WipeMessages
<1>2. /\ messages' \in [Message -> Key]
      /\ \A m \in Message :
            \/ messages'[m] \in {None, messages[m]}
            \/ \E view \in views : messages'[m] = view.key
  <2>1. ASSUME NEW m \in Message, NEW view \in views,
               messages' = [messages EXCEPT ![m] = view.key]
        PROVE  <1>2
    <3>1. view.key \in Key
      BY DEF VaultInvariant, TypeOK, Key
    <3> QED
      BY <2>1, <3>1 DEF VaultInvariant, TypeOK
  <2>2. ASSUME NEW m \in Message, messages' = [messages EXCEPT ![m] = None]
        PROVE  <1>2
    BY <2>2 DEF VaultInvariant, TypeOK, Key
  <2>3. CASE WipeMessages
    BY <2>3 DEF WipeMessages, Key
  <2> QED
    BY <2>1, <2>2, <2>3 DEF ChangeMessages, SaveMessage, UpdateMessage, DeleteMessage
<1>3. \A view \in views : vault.wrapped # None /\ view.key = vault.wrapped
  BY ConstantsAssumption DEF VaultInvariant, ViewsHoldTheKey, TypeOK
<1>4. Recoverable'
  BY <1>1, <1>2, <1>3 DEF VaultInvariant, Recoverable, HasCeremony, UnchangedButMessages
<1>5. TypeOK'
  BY <1>1, <1>2 DEF VaultInvariant, TypeOK, UnchangedButMessages
<1> QED
  BY <1>1, <1>4, <1>5 DEF VaultInvariant, UnchangedButMessages, ViewsHoldTheKey,
     DraftsAreOfTheKey, KeyIsCounted, DrillIsReport, OneCeremony, SharesAreReal, Rows

LEMMA DrillInvariant ==
  ASSUME VaultInvariant, ReportDrill
  PROVE  VaultInvariant'
<1> USE DEF VaultInvariant, ReportDrill
<1>1. TypeOK' /\ DrillIsReport'
  BY DEF TypeOK, VaultRow, DrillIsReport
<1> QED
  BY <1>1 DEF ViewsHoldTheKey, DraftsAreOfTheKey, KeyIsCounted, Recoverable, HasCeremony,
     OneCeremony, SharesAreReal, Rows

LEMMA GateInvariant ==
  ASSUME VaultInvariant, PassGate
  PROVE  VaultInvariant'
<1> USE DEF VaultInvariant, PassGate
<1>1. TypeOK'
  BY DEF TypeOK
<1> QED
  BY <1>1 DEF ViewsHoldTheKey, DraftsAreOfTheKey, KeyIsCounted, DrillIsReport, Recoverable,
     HasCeremony, OneCeremony, SharesAreReal, Rows

-----------------------------------------------------------------------------
(* The key material                                                        *)

\* A new draft ends the live one, and touches no finalized row.
LEMMA AddDraftRows ==
  ASSUME TypeOK, NEW g \in Generation, ceremony[g].status = "none",
         NEW key \in Generation, NEW initial \in BOOLEAN, NEW policy \in Policy,
         AddDraft(g, key, initial, policy)
  PROVE  /\ ceremony' \in [Generation -> CeremonyRow]
         /\ ceremony'[g] = [status |-> "DRAFT", expected |-> vault.revision, key |-> key,
                            initial |-> initial, policy |-> policy]
         /\ \A h \in Generation \ {g} :
              /\ ceremony'[h].status # "DRAFT"
              /\ ceremony'[h].initial = FALSE
              /\ ceremony'[h].status = "FINALIZED" <=> ceremony[h].status = "FINALIZED"
              /\ ceremony[h].status = "FINALIZED" => ceremony'[h] = ceremony[h]
<1> DEFINE new == [status |-> "DRAFT", expected |-> vault.revision, key |-> key,
                   initial |-> initial, policy |-> policy]
<1>1. new \in CeremonyRow
  BY DEF TypeOK, VaultRow, CeremonyRow, Key
<1>2. ASSUME NEW h \in Generation
      PROVE  /\ CancelDrafts(ceremony)[h] \in CeremonyRow
             /\ CancelDrafts(ceremony)[h].status # "DRAFT"
             /\ CancelDrafts(ceremony)[h].initial = FALSE
             /\ CancelDrafts(ceremony)[h].status = "FINALIZED"
                  <=> ceremony[h].status = "FINALIZED"
             /\ ceremony[h].status = "FINALIZED" => CancelDrafts(ceremony)[h] = ceremony[h]
  <2>1. /\ ceremony[h] \in CeremonyRow
        /\ ceremony[h].initial => ceremony[h].status = "DRAFT"
    BY DEF TypeOK
  <2>2. CancelDrafts(ceremony)[h] =
            IF ceremony[h].status = "DRAFT"
            THEN [ceremony[h] EXCEPT !.status = "CANCELLED", !.initial = FALSE]
            ELSE ceremony[h]
    BY DEF CancelDrafts
  <2>3. CASE ceremony[h].status = "DRAFT"
    <3> DEFINE row == [ceremony[h] EXCEPT !.status = "CANCELLED", !.initial = FALSE]
    <3>1. row \in CeremonyRow /\ row.status = "CANCELLED" /\ row.initial = FALSE
      BY <2>1 DEF CeremonyRow
    <3>2. CancelDrafts(ceremony)[h] = row
      BY <2>2, <2>3
    <3> HIDE DEF row
    <3> QED
      BY <2>3, <3>1, <3>2
  <2>4. CASE ceremony[h].status # "DRAFT"
    <3>1. ceremony[h].initial = FALSE
      BY <2>1, <2>4 DEF CeremonyRow
    <3> QED
      BY <2>1, <2>2, <2>4, <3>1
  <2> QED
    BY <2>3, <2>4
<1>3. /\ DOMAIN CancelDrafts(ceremony) = Generation
      /\ CancelDrafts(ceremony) = [h \in Generation |-> CancelDrafts(ceremony)[h]]
  BY DEF CancelDrafts
<1>4. ceremony' = [CancelDrafts(ceremony) EXCEPT ![g] = new]
  BY DEF AddDraft
<1> HIDE DEF new
<1>5. /\ ceremony'[g] = new
      /\ \A h \in Generation \ {g} : ceremony'[h] = CancelDrafts(ceremony)[h]
      /\ ceremony' = [h \in Generation |-> ceremony'[h]]
  BY <1>3, <1>4
<1>6. \A h \in Generation : ceremony'[h] \in CeremonyRow
  BY <1>1, <1>2, <1>5
<1>7. ceremony' \in [Generation -> CeremonyRow]
  BY <1>5, <1>6
<1> QED
  BY <1>2, <1>5, <1>7 DEF new

\* What every new draft preserves, whichever it is.
LEMMA AddDraftInvariant ==
  ASSUME VaultInvariant, NEW g \in Generation, ceremony[g].status = "none",
         NEW key \in Generation, NEW initial \in BOOLEAN, NEW policy \in Policy,
         AddDraft(g, key, initial, policy),
         IF initial THEN vault.revision = 0 ELSE key = vault.wrapped,
         vault' \in {vault, [vault EXCEPT !.status = "DRAFT"]},
         vault' # vault => vault.wrapped = None,
         UNCHANGED <<drill, recipient, messages, views, released>>
  PROVE  VaultInvariant'
<1> USE DEF VaultInvariant
<1>1. /\ vault' \in VaultRow
      /\ vault'.revision = vault.revision /\ vault'.wrapped = vault.wrapped
      /\ vault'.generation = vault.generation /\ vault'.policy = vault.policy
      /\ vault'.status # vault.status => vault.wrapped = None /\ vault'.status = "DRAFT"
  BY DEF TypeOK, VaultRow
<1>2. /\ ceremony' \in [Generation -> CeremonyRow]
      /\ ceremony'[g] = [status |-> "DRAFT", expected |-> vault.revision, key |-> key,
                         initial |-> initial, policy |-> policy]
      /\ \A h \in Generation \ {g} :
           /\ ceremony'[h].status # "DRAFT"
           /\ ceremony'[h].initial = FALSE
           /\ ceremony'[h].status = "FINALIZED" <=> ceremony[h].status = "FINALIZED"
           /\ ceremony[h].status = "FINALIZED" => ceremony'[h] = ceremony[h]
  <2>1. TypeOK
    OBVIOUS
  <2> QED
    BY ONLY <2>1, AddDraftRows, g \in Generation, ceremony[g].status = "none",
       key \in Generation, initial \in BOOLEAN, policy \in Policy,
       AddDraft(g, key, initial, policy)
<1>3. TypeOK'
  <2>1. \A h \in Generation : ceremony'[h].initial => ceremony'[h].status = "DRAFT"
    BY <1>2
  <2> QED
    BY <1>1, <1>2, <2>1 DEF TypeOK
<1>4. ViewsHoldTheKey' /\ KeyIsCounted' /\ DrillIsReport'
  BY <1>1 DEF ViewsHoldTheKey, KeyIsCounted, DrillIsReport
<1>5. DraftsAreOfTheKey'
  BY <1>1, <1>2, ConstantsAssumption DEF DraftsAreOfTheKey
<1>6. Recoverable'
  <2>1. CASE vault.wrapped = None
    BY <1>1, <2>1 DEF Recoverable
  <2>2. CASE vault.wrapped # None
    <3>1. vault.generation \in Generation \ {g}
      BY <2>2 DEF Recoverable, HasCeremony, TypeOK, VaultRow, Key
    <3>2. ceremony'[vault.generation] = ceremony[vault.generation]
      BY <1>2, <2>2, <3>1 DEF Recoverable, HasCeremony
    <3> QED
      BY <1>1, <2>2, <3>2 DEF Recoverable, HasCeremony
  <2> QED
    BY <2>1, <2>2
<1>7. OneCeremony'
  BY <1>1, <1>2 DEF OneCeremony
<1>8. SharesAreReal'
  BY <1>1 DEF SharesAreReal, Rows
<1> QED
  BY <1>3, <1>4, <1>5, <1>6, <1>7, <1>8

LEMMA DraftInvariant ==
  ASSUME VaultInvariant, NEW g \in Generation, NEW p \in Policy,
         \/ CreateFirstDraft(g, p)
         \/ \E view \in views : CreateReshareDraft(g, p, view)
  PROVE  VaultInvariant'
<1>1. CASE CreateFirstDraft(g, p)
  <2>1. /\ ceremony[g].status = "none" /\ vault.revision = 0 /\ vault.wrapped = None
        /\ AddDraft(g, g, TRUE, p) /\ vault' = [vault EXCEPT !.status = "DRAFT"]
        /\ UNCHANGED <<drill, recipient, messages, views, released>>
    BY <1>1 DEF CreateFirstDraft, Writable
  <2> QED
    BY <2>1, AddDraftInvariant
<1>2. CASE \E view \in views : CreateReshareDraft(g, p, view)
  <2>1. PICK view \in views : CreateReshareDraft(g, p, view)
    BY <1>2
  <2>2. view.key \in Generation /\ view.key = vault.wrapped
    BY DEF VaultInvariant, TypeOK, ViewsHoldTheKey
  <2>3. /\ ceremony[g].status = "none"
        /\ AddDraft(g, view.key, FALSE, p)
        /\ UNCHANGED <<vault, drill, recipient, messages, views, released>>
    BY <2>1 DEF CreateReshareDraft
  <2> QED
    BY <2>2, <2>3, AddDraftInvariant
<1> QED
  BY <1>1, <1>2

\* The rows and the key after a finalization: the draft's key is that of the
\* vault from now on, and it was before unless there was none.
LEMMA FinalizeRows ==
  ASSUME VaultInvariant, NEW g \in Generation, FinalizeCeremony(g)
  PROVE  /\ ceremony' \in [Generation -> CeremonyRow]
         /\ ceremony'[g].status = "FINALIZED" /\ ceremony'[g].initial = FALSE
         /\ ceremony'[g].key = ceremony[g].key /\ ceremony'[g].policy = ceremony[g].policy
         /\ \A h \in Generation \ {g} :
              /\ ceremony'[h].status \notin {"DRAFT", "FINALIZED"}
              /\ ceremony'[h].initial = FALSE
         /\ vault' = [revision |-> vault.revision + 1, wrapped |-> ceremony[g].key,
                      generation |-> g, status |-> "READY", policy |-> ceremony[g].policy]
         /\ vault' \in VaultRow
         /\ ceremony[g].key \in Generation
         /\ vault.wrapped \in {None, ceremony[g].key}
<1> USE DEF VaultInvariant
<1>1. /\ ceremony[g] \in CeremonyRow /\ ceremony[g].status = "DRAFT"
      /\ vault.revision = ceremony[g].expected
  BY DEF TypeOK, FinalizeCeremony, Finalizable, Writable
<1>2. /\ ceremony[g].key \in Generation
      /\ IF ceremony[g].initial THEN vault.revision = 0
         ELSE ceremony[g].key = vault.wrapped
  BY <1>1 DEF DraftsAreOfTheKey, CeremonyRow, Key
<1>3. /\ vault.wrapped \in {None, ceremony[g].key}
      /\ (IF ceremony[g].initial THEN ceremony[g].key ELSE vault.wrapped) = ceremony[g].key
  BY <1>2 DEF KeyIsCounted
<1>4. vault' = [revision |-> vault.revision + 1, wrapped |-> ceremony[g].key,
                generation |-> g, status |-> "READY", policy |-> ceremony[g].policy]
  BY <1>3 DEF FinalizeCeremony
<1>5. vault' \in VaultRow
  BY <1>1, <1>2, <1>4 DEF TypeOK, VaultRow, CeremonyRow, Key
<1>6. /\ ceremony'[g] = [ceremony[g] EXCEPT !.status = "FINALIZED", !.initial = FALSE]
      /\ \A h \in Generation \ {g} :
           ceremony'[h] = IF ceremony[h].status = "FINALIZED"
                          THEN [ceremony[h] EXCEPT !.status = "SUPERSEDED"]
                          ELSE ceremony[h]
      /\ ceremony' = [h \in Generation |-> ceremony'[h]]
  BY DEF FinalizeCeremony
<1>7. /\ ceremony'[g] \in CeremonyRow
      /\ ceremony'[g].status = "FINALIZED" /\ ceremony'[g].initial = FALSE
      /\ ceremony'[g].key = ceremony[g].key /\ ceremony'[g].policy = ceremony[g].policy
  BY <1>1, <1>6 DEF CeremonyRow
<1>8. ASSUME NEW h \in Generation \ {g}
      PROVE  /\ ceremony'[h] \in CeremonyRow
             /\ ceremony'[h].status \notin {"DRAFT", "FINALIZED"}
             /\ ceremony'[h].initial = FALSE
  <2>1. /\ ceremony[h] \in CeremonyRow /\ ceremony[h].status # "DRAFT"
        /\ ceremony[h].initial = FALSE
    BY <1>1 DEF TypeOK, OneCeremony, CeremonyRow
  <2>2. CASE ceremony[h].status = "FINALIZED"
    BY <1>6, <2>1, <2>2 DEF CeremonyRow
  <2>3. CASE ceremony[h].status # "FINALIZED"
    BY <1>6, <2>1, <2>3
  <2> QED
    BY <2>2, <2>3
<1>9. ceremony' \in [Generation -> CeremonyRow]
  <2>1. \A h \in Generation : ceremony'[h] \in CeremonyRow
    BY <1>7, <1>8
  <2> QED
    BY <1>6, <2>1
<1> QED
  BY <1>2, <1>3, <1>4, <1>5, <1>7, <1>8, <1>9

LEMMA FinalizeInvariant ==
  ASSUME VaultInvariant, NEW g \in Generation, FinalizeCeremony(g)
  PROVE  VaultInvariant'
<1> DEFINE key == ceremony[g].key
<1>1. /\ ceremony' \in [Generation -> CeremonyRow]
      /\ ceremony'[g].status = "FINALIZED" /\ ceremony'[g].initial = FALSE
      /\ ceremony'[g].key = key /\ ceremony'[g].policy = ceremony[g].policy
      /\ \A h \in Generation \ {g} :
           /\ ceremony'[h].status \notin {"DRAFT", "FINALIZED"}
           /\ ceremony'[h].initial = FALSE
      /\ vault' = [revision |-> vault.revision + 1, wrapped |-> key,
                   generation |-> g, status |-> "READY", policy |-> ceremony[g].policy]
      /\ vault' \in VaultRow
      /\ key \in Generation
      /\ vault.wrapped \in {None, key}
  BY FinalizeRows
<1> HIDE DEF key
<1>2. key # None /\ g # None
  BY <1>1, ConstantsAssumption
<1>3. /\ recipient' = ForgetAssignments /\ drill' = NoDrill /\ SeenBy(vault')
      /\ UNCHANGED <<messages, released>>
      /\ \A b \in Rows : recipient[b].share <= ceremony[g].policy.n
  BY DEF FinalizeCeremony, Finalizable
<1>4. \A b \in Beneficiary :
        /\ recipient'[b] \in RecipientRow
        /\ recipient'[b].share = recipient[b].share
        /\ recipient'[b].status = recipient[b].status
        /\ recipient'[b].generation = None
  BY <1>3 DEF ForgetAssignments, VaultInvariant, TypeOK, RecipientRow, Key
<1>5. \A v \in views' : v \in [revision : Nat, key : Generation] /\ v.key = key
  <2>1. vault'.wrapped = key /\ vault'.revision \in Nat
    BY <1>1 DEF VaultRow
  <2>2. \A v \in views : v \in [revision : Nat, key : Generation] /\ v.key = key
    BY <1>1, ConstantsAssumption DEF VaultInvariant, ViewsHoldTheKey, TypeOK
  <2> QED
    BY <1>1, <1>3, <2>1, <2>2 DEF SeenBy
<1>6. TypeOK'
  <2>1. recipient' \in [Beneficiary -> RecipientRow]
    BY <1>3, <1>4 DEF ForgetAssignments
  <2>2. drill'.revision \in Nat
    BY <1>3 DEF NoDrill
  <2> QED
    BY <1>1, <1>3, <1>5, <2>1, <2>2 DEF VaultInvariant, TypeOK
<1>7. ViewsHoldTheKey' /\ DraftsAreOfTheKey' /\ KeyIsCounted' /\ DrillIsReport'
  <2>1. vault'.revision # 0
    BY <1>1 DEF VaultInvariant, TypeOK, VaultRow
  <2> QED
    BY <1>1, <1>2, <1>3, <1>5, <2>1 DEF ViewsHoldTheKey, DraftsAreOfTheKey, KeyIsCounted,
       DrillIsReport, NoDrill
<1>8. Recoverable'
  <2>1. \A m \in Message : messages[m] \in {None, key}
    BY <1>1 DEF VaultInvariant, Recoverable
  <2> QED
    BY <1>1, <1>2, <1>3, <2>1 DEF Recoverable, HasCeremony
<1>9. OneCeremony'
  BY <1>1, <1>2 DEF OneCeremony
<1>10. SharesAreReal'
  <2>1. Rows' = Rows
    BY <1>4 DEF Rows
  <2>2. \A b \in Rows : recipient[b].share \in 0 .. ceremony[g].policy.n
    BY <1>3 DEF VaultInvariant, TypeOK, RecipientRow, Rows
  <2> QED
    BY <1>1, <1>4, <2>1, <2>2 DEF VaultInvariant, SharesAreReal, Rows
<1> QED
  BY <1>6, <1>7, <1>8, <1>9, <1>10 DEF VaultInvariant

LEMMA CancelInvariant ==
  ASSUME VaultInvariant, NEW g \in Generation, CancelCeremony(g)
  PROVE  VaultInvariant'
<1>1. /\ ceremony[g].status \notin {"none", "FINALIZED"}
      /\ ceremony' = [ceremony EXCEPT ![g].status = "CANCELLED", ![g].initial = FALSE]
      /\ vault' = [vault EXCEPT !.status = StatusAfterCancel]
      /\ UNCHANGED <<drill, recipient, messages, views, released>>
  BY DEF CancelCeremony
<1>2. /\ ceremony \in [Generation -> CeremonyRow] /\ vault \in VaultRow
      /\ \A h \in Generation : ceremony[h].initial => ceremony[h].status = "DRAFT"
  BY DEF VaultInvariant, TypeOK
<1>3. /\ ceremony' \in [Generation -> CeremonyRow]
      /\ ceremony'[g].status = "CANCELLED" /\ ceremony'[g].initial = FALSE
      /\ \A h \in Generation \ {g} : ceremony'[h] = ceremony[h]
  BY <1>1, <1>2 DEF CeremonyRow
<1>4. /\ vault' \in VaultRow
      /\ vault'.revision = vault.revision /\ vault'.wrapped = vault.wrapped
      /\ vault'.generation = vault.generation /\ vault'.policy = vault.policy
      /\ vault'.status = StatusAfterCancel
  <2>1. StatusAfterCancel \in {"UNINITIALIZED", "DRAFT", "READY"}
    BY <1>2 DEF StatusAfterCancel, VaultRow
  <2> HIDE DEF StatusAfterCancel
  <2> QED
    BY <1>1, <1>2, <2>1 DEF VaultRow
<1>5. TypeOK'
  BY <1>1, <1>2, <1>3, <1>4 DEF VaultInvariant, TypeOK
<1>6. ViewsHoldTheKey' /\ DraftsAreOfTheKey' /\ KeyIsCounted' /\ DrillIsReport'
  BY <1>1, <1>3, <1>4 DEF VaultInvariant, ViewsHoldTheKey, DraftsAreOfTheKey, KeyIsCounted,
     DrillIsReport
<1>7. Recoverable'
  <2>1. CASE vault.wrapped = None
    BY <1>1, <1>4, <2>1 DEF VaultInvariant, Recoverable
  <2>2. CASE vault.wrapped # None
    <3>1. vault.generation \in Generation \ {g}
      BY <1>1, <1>2, <2>2 DEF VaultInvariant, Recoverable, HasCeremony, VaultRow, Key
    <3> QED
      BY <1>1, <1>3, <1>4, <2>2, <3>1 DEF VaultInvariant, Recoverable, HasCeremony
  <2> QED
    BY <2>1, <2>2
<1>8. OneCeremony'
  BY <1>3, <1>4 DEF VaultInvariant, OneCeremony, StatusAfterCancel
<1>9. SharesAreReal'
  BY <1>1, <1>4 DEF VaultInvariant, SharesAreReal, Rows
<1> QED
  BY <1>5, <1>6, <1>7, <1>8, <1>9 DEF VaultInvariant

\* A browser of any age that still passes the revision check wraps the key
\* that is wrapped already.
LEMMA RewrapInvariant ==
  ASSUME VaultInvariant, NEW view \in views, Rewrap(view)
  PROVE  VaultInvariant'
<1>1. /\ view.key \in Generation /\ view.key = vault.wrapped /\ vault.wrapped # None
      /\ SeenBy(vault')
      /\ vault' = [vault EXCEPT !.wrapped = view.key, !.revision = @ + 1]
      /\ UNCHANGED <<ceremony, drill, recipient, messages, released>>
  BY DEF VaultInvariant, TypeOK, ViewsHoldTheKey, Rewrap
<1>2. /\ vault' \in VaultRow
      /\ vault'.revision = vault.revision + 1 /\ vault'.wrapped = vault.wrapped
      /\ vault'.generation = vault.generation /\ vault'.policy = vault.policy
      /\ vault'.status = vault.status
  <2> DEFINE r == vault.revision + 1
  <2>1. r \in Nat /\ vault.wrapped \in Key
    BY DEF VaultInvariant, TypeOK, VaultRow
  <2> HIDE DEF r
  <2>2. LET new == [vault EXCEPT !.wrapped = vault.wrapped, !.revision = r]
        IN  /\ new \in VaultRow
            /\ new.revision = r /\ new.wrapped = vault.wrapped
            /\ new.generation = vault.generation /\ new.policy = vault.policy
            /\ new.status = vault.status
    BY <2>1 DEF VaultInvariant, TypeOK, VaultRow
  <2> QED
    BY <1>1, <2>2 DEF r
<1>3. \A v \in views' : v \in [revision : Nat, key : Generation] /\ v.key = vault.wrapped
  <2>1. vault'.revision \in Nat
    BY <1>2 DEF VaultRow
  <2> QED
    BY <1>1, <1>2, <2>1 DEF VaultInvariant, TypeOK, ViewsHoldTheKey, SeenBy
<1>4. TypeOK'
  BY <1>1, <1>2, <1>3 DEF VaultInvariant, TypeOK
<1>5. vault'.revision # 0
  BY <1>2 DEF VaultInvariant, TypeOK, VaultRow
<1> QED
  BY <1>1, <1>2, <1>3, <1>4, <1>5 DEF VaultInvariant, ViewsHoldTheKey, DraftsAreOfTheKey,
     KeyIsCounted, DrillIsReport, Recoverable, HasCeremony, OneCeremony, SharesAreReal, Rows

-----------------------------------------------------------------------------

LEMMA MaterialInvariant ==
  ASSUME VaultInvariant, ChangeMaterial
  PROVE  VaultInvariant'
  BY DraftInvariant, FinalizeInvariant, CancelInvariant, RewrapInvariant, DrillInvariant
     DEF ChangeMaterial

LEMMA NextInvariant ==
  ASSUME VaultInvariant, [Next]_vars
  PROVE  VaultInvariant'
<1>1. CASE Next
  BY <1>1, MaterialInvariant, MessagesInvariant, RecipientsInvariant, GateInvariant DEF Next
<1>2. CASE UNCHANGED vars
  BY <1>2 DEF vars, VaultInvariant, TypeOK, ViewsHoldTheKey, DraftsAreOfTheKey,
     KeyIsCounted, DrillIsReport, Recoverable, HasCeremony, OneCeremony, SharesAreReal, Rows
<1> QED
  BY <1>1, <1>2

LEMMA Safety == Spec => []VaultInvariant
  BY InitInvariant, NextInvariant, PTL DEF Spec

\* The rows of the vault, its ceremonies, messages and beneficiaries have
\* their types, and a row that is no draft keeps no initial material.
THEOREM TypeCorrect == Spec => []TypeOK
<1>1. VaultInvariant => TypeOK
  BY DEF VaultInvariant
<1> QED
  BY <1>1, Safety, PTL

\* The shares of the current distribution reconstruct the key under which
\* every stored message is encrypted, whatever requests of any number of
\* browsers crossed.
THEOREM SharesOpenMessages == Spec => []Recoverable
<1>1. VaultInvariant => Recoverable
  BY DEF VaultInvariant
<1> QED
  BY <1>1, Safety, PTL

\* One draft is live at most, one ceremony finalized, and the vault says
\* READY exactly while it has a key.
THEOREM CeremonyIsSingle == Spec => []OneCeremony
<1>1. VaultInvariant => OneCeremony
  BY DEF VaultInvariant
<1> QED
  BY <1>1, Safety, PTL

\* A beneficiary counts with a share of the current distribution, that exists
\* in it and that nobody else holds.
THEOREM SharesAreDistinct == Spec => []SharesAreReal
<1>1. VaultInvariant => SharesAreReal
  BY DEF VaultInvariant
<1> QED
  BY <1>1, Safety, PTL

-----------------------------------------------------------------------------
(* The release and the gate                                                *)

LEMMA FrozenStep ==
  ASSUME VaultInvariant, released, [Next]_vars
  PROVE  /\ released'
         /\ vault' = vault /\ ceremony' = ceremony
         /\ \A m \in Message : messages'[m] \in {None, messages[m]}
<1> USE DEF VaultInvariant
<1>1. CASE ChangeMaterial
  <2>1. ASSUME NEW g \in Generation, CancelCeremony(g)
        PROVE  FALSE
    BY <2>1 DEF CancelCeremony
  <2>2. ASSUME NEW g \in Generation, FinalizeCeremony(g)
        PROVE  FALSE
    BY <2>2 DEF FinalizeCeremony
  <2>3. CASE ReportDrill
    BY <2>3 DEF ReportDrill
  <2> QED
    BY <1>1, <2>1, <2>2, <2>3 DEF ChangeMaterial, CreateFirstDraft, CreateReshareDraft,
       Rewrap, Writable
<1>2. CASE ChangeMessages
  <2>1. CASE \E m \in Message, view \in views : SaveMessage(m, view) \/ UpdateMessage(m, view)
    BY <2>1 DEF SaveMessage, UpdateMessage, Writable
  <2>2. CASE \E m \in Message : DeleteMessage(m)
    BY <2>2 DEF DeleteMessage, UnchangedButMessages, TypeOK
  <2>3. CASE WipeMessages
    BY <2>3 DEF WipeMessages, UnchangedButMessages
  <2> QED
    BY <1>2, <2>1, <2>2, <2>3 DEF ChangeMessages
<1>3. CASE ChangeRecipients
  BY <1>3 DEF ChangeRecipients, AddBeneficiary, InviteBeneficiary, AcceptInvitation,
     ExpireInvitation, UpdateBeneficiary, AssignShare, DeleteBeneficiary, Update,
     UnchangedButRecipients
<1>4. CASE PassGate
  BY <1>4 DEF PassGate
<1>5. CASE UNCHANGED vars
  BY <1>5 DEF vars
<1> QED
  BY <1>1, <1>2, <1>3, <1>4, <1>5 DEF Next

\* From the release on nobody changes the key material or its ceremonies, or
\* writes a message, whichever page was open, however old.
THEOREM ReleaseIsFrozen == Spec => ReleaseFreezes
<1>1. VaultInvariant /\ [Next]_vars
        => [released => /\ released'
                        /\ vault' = vault /\ ceremony' = ceremony
                        /\ \A m \in Message : messages'[m] \in {None, messages[m]}]_vars
  BY FrozenStep
<1> QED
  BY <1>1, Safety, PTL DEF Spec, ReleaseFreezes

\* The gate that Release.tla computes from its abridged setup opens exactly
\* when the gate of the rows does.
THEOREM GateIsSame == Spec => []SameGate
<1>1. VaultInvariant => SameGate
  <2> SUFFICES ASSUME VaultInvariant
               PROVE  Authority!Ready(Seen.material) <=> ReleaseReady
    BY DEF SameGate
  <2> USE DEF VaultInvariant
  <2>1. Authority!Ready(Seen.material) <=>
          /\ Material # 0
          /\ CeremonyRevision = Material
          /\ drill.revision = Material
          /\ HasCeremony /\ QuorumAssigned
          /\ drill.revision # 0 /\ drill.signature = Signature
    BY DEF Authority!Ready, Seen
  <2>2. CASE vault.wrapped = None
    BY <2>1, <2>2 DEF Material, ReleaseReady
  <2>3. CASE vault.wrapped # None
    <3>1. /\ Material = vault.revision /\ vault.revision # 0 /\ vault.status = "READY"
          /\ HasCeremony /\ ceremony[vault.generation].policy = vault.policy
      BY <2>3 DEF Material, KeyIsCounted, OneCeremony, Recoverable
    <3>2. CeremonyRevision = ceremony[vault.generation].expected + 1
      BY <3>1 DEF CeremonyRevision
    <3>3. drill = [revision |-> vault.revision, signature |-> Signature]
            <=> drill.revision = vault.revision /\ drill.signature = Signature
      BY DEF DrillIsReport
    <3> QED
      BY <2>1, <2>3, <3>1, <3>2, <3>3 DEF ReleaseReady, CurrentDrill
  <2> QED
    BY <2>2, <2>3
<1> QED
  BY <1>1, Safety, PTL

-----------------------------------------------------------------------------
(* The setup that Release.tla sees                                         *)

\* Who had accepted when the drill was reported has accepted still and not
\* moved, is deleted, or has moved since: no acceptance restores a signature.
DrillRemembers ==
    drill.revision # 0 =>
        \A b \in Beneficiary :
            b \in DOMAIN drill.signature /\ drill.signature[b].status = "accepted" =>
                \/ recipient[b].status = "deleted"
                \/ /\ recipient[b].status = "accepted"
                   /\ recipient[b].contact = drill.signature[b].contact
                \/ /\ recipient[b].status # "absent"
                   /\ recipient[b].contact = 1
                   /\ drill.signature[b].contact = 0

LEMMA InitRemembers == Init => DrillRemembers
  BY DEF Init, NoDrill, DrillRemembers

LEMMA NextRemembers ==
  ASSUME VaultInvariant, DrillRemembers, [Next]_vars
  PROVE  DrillRemembers'
<1>1. CASE UNCHANGED <<drill, recipient>>
  BY <1>1 DEF DrillRemembers
<1>2. CASE drill' = NoDrill
  BY <1>2 DEF DrillRemembers, NoDrill
<1>3. CASE ReportDrill
  <2>1. recipient' = recipient /\ drill' = [revision |-> vault.revision, signature |-> Signature]
    BY <1>3 DEF ReportDrill
  <2>2. drill'.signature = [b \in Rows |-> recipient[b]]
    BY <2>1 DEF Signature
  <2> QED
    BY <2>1, <2>2 DEF DrillRemembers
<1>4. CASE ChangeRecipients
  <2>1. drill' = drill
    BY <1>4 DEF ChangeRecipients, AddBeneficiary, InviteBeneficiary, AcceptInvitation,
       ExpireInvitation, UpdateBeneficiary, AssignShare, DeleteBeneficiary, Update,
       UnchangedButRecipients
  <2>2. PICK b \in Beneficiary :
          \/ \E i \in 0 .. vault.policy.n : AddBeneficiary(b, i)
          \/ InviteBeneficiary(b)
          \/ AcceptInvitation(b)
          \/ ExpireInvitation(b)
          \/ \E moved, assigned \in BOOLEAN, i \in 0 .. vault.policy.n :
                UpdateBeneficiary(b, moved, assigned, i)
          \/ \E i \in 1 .. vault.policy.n : AssignShare(b, i)
          \/ DeleteBeneficiary(b)
    BY <1>4 DEF ChangeRecipients
  <2>3. recipient \in [Beneficiary -> RecipientRow] /\ recipient[b] \in RecipientRow
    BY DEF VaultInvariant, TypeOK
  <2>4. ASSUME NEW row, Update(b, row), row.status # "absent",
               \/ row.status = "deleted"
               \/ /\ recipient[b].status \notin {"accepted", "deleted"}
                  /\ row.contact = recipient[b].contact
               \/ row.status = recipient[b].status /\ row.contact = recipient[b].contact
               \/ row.contact = 1 /\ recipient[b].contact = 0
                    /\ recipient[b].status \notin {"absent", "deleted"}
        PROVE  DrillRemembers'
    <3>1. /\ recipient'[b] = row
          /\ \A c \in Beneficiary \ {b} : recipient'[c] = recipient[c]
      BY <2>3, <2>4 DEF Update
    <3> QED
      BY <2>1, <2>4, <3>1 DEF DrillRemembers
  <2>5. ASSUME NEW row \in RecipientRow, NEW i
        PROVE  /\ WithShare(row, i).status = row.status
               /\ WithShare(row, i).contact = row.contact
    BY DEF WithShare, RecipientRow
  <2>6. CASE \E i \in 0 .. vault.policy.n : AddBeneficiary(b, i)
    <3>1. PICK i \in 0 .. vault.policy.n : AddBeneficiary(b, i)
      BY <2>6
    <3> DEFINE new == [Absent EXCEPT !.status = "pending"]
    <3>2. new \in RecipientRow /\ new.status = "pending"
      BY DEF Absent, RecipientRow, Key
    <3>3. Update(b, WithShare(new, i)) /\ recipient[b].status = "absent"
      BY <3>1 DEF AddBeneficiary
    <3> HIDE DEF new
    <3>4. /\ recipient'[b].status = "pending"
          /\ \A c \in Beneficiary \ {b} : recipient'[c] = recipient[c]
      BY <2>3, <2>5, <3>2, <3>3 DEF Update
    <3> QED
      BY <2>1, <3>3, <3>4 DEF DrillRemembers
  <2>7. ASSUME NEW s \in {"sent", "accepted", "expired"},
               recipient[b].status \notin {"accepted", "deleted"},
               Update(b, [recipient[b] EXCEPT !.status = s])
        PROVE  DrillRemembers'
    <3> DEFINE new == [recipient[b] EXCEPT !.status = s]
    <3>1. new.status = s /\ new.contact = recipient[b].contact
      BY <2>3 DEF RecipientRow
    <3> HIDE DEF new
    <3>2. Update(b, new)
      BY <2>7 DEF new
    <3> QED
      BY <2>4, <2>7, <3>1, <3>2
  <2>8. CASE InviteBeneficiary(b) \/ AcceptInvitation(b) \/ ExpireInvitation(b)
    BY <2>7, <2>8 DEF InviteBeneficiary, AcceptInvitation, ExpireInvitation, Rows
  <2>9. CASE \E moved, assigned \in BOOLEAN, i \in 0 .. vault.policy.n :
                UpdateBeneficiary(b, moved, assigned, i)
    <3>1. PICK moved, assigned \in BOOLEAN, i \in 0 .. vault.policy.n :
                  UpdateBeneficiary(b, moved, assigned, i)
      BY <2>9
    <3> DEFINE row == IF moved THEN NewContact(recipient[b]) ELSE recipient[b]
               new == IF assigned THEN WithShare(row, i) ELSE row
    <3>2. Update(b, new) /\ recipient[b].status \notin {"absent", "deleted"}
      BY <3>1 DEF UpdateBeneficiary, Rows
    <3>3. CASE moved
      <4>1. recipient[b].contact = 0
        BY <3>1, <3>3 DEF UpdateBeneficiary
      <4>2. row \in RecipientRow /\ row.status = "pending" /\ row.contact = 1
        <5>1. recipient[b].contact + 1 = 1
          BY <4>1
        <5>2. row = [recipient[b] EXCEPT !.contact = 1, !.status = "pending"]
          BY <3>3, <5>1 DEF NewContact
        <5> QED
          BY <2>3, <5>2 DEF RecipientRow
      <4> HIDE DEF row
      <4>3. new.status = "pending" /\ new.contact = 1
        BY <2>5, <4>2
      <4> HIDE DEF new
      <4> QED
        BY <2>4, <3>2, <4>1, <4>3
    <3>4. CASE ~moved
      <4>1. new.status = recipient[b].status /\ new.contact = recipient[b].contact
        BY <2>3, <2>5, <3>4
      <4> HIDE DEF new
      <4> QED
        BY <2>4, <3>2, <4>1
    <3> QED
      BY <3>3, <3>4
  <2>10. CASE \E i \in 1 .. vault.policy.n : AssignShare(b, i)
    <3>1. PICK i \in 1 .. vault.policy.n : AssignShare(b, i)
      BY <2>10
    <3>2. /\ Update(b, WithShare(recipient[b], i))
          /\ recipient[b].status \notin {"absent", "deleted"}
      BY <3>1 DEF AssignShare, Rows
    <3> QED
      BY <2>3, <2>4, <2>5, <3>2
  <2>11. CASE DeleteBeneficiary(b)
    BY <2>4, <2>11 DEF DeleteBeneficiary, Absent
  <2> QED
    BY <2>2, <2>6, <2>8, <2>9, <2>10, <2>11
<1>5. CASE ChangeMaterial \/ ChangeMessages \/ PassGate \/ UNCHANGED vars
  <2>1. \A g \in Generation : FinalizeCeremony(g) => drill' = NoDrill
    BY DEF FinalizeCeremony
  <2>2. UNCHANGED <<drill, recipient>> \/ drill' = NoDrill \/ ReportDrill
    BY <1>5, <2>1 DEF ChangeMaterial, CreateFirstDraft, CreateReshareDraft, CancelCeremony,
       Rewrap, ChangeMessages, SaveMessage, UpdateMessage, DeleteMessage, WipeMessages,
       UnchangedButMessages, PassGate, vars
  <2> QED
    BY <1>1, <1>2, <1>3, <2>2
<1> QED
  BY <1>4, <1>5 DEF Next

\* Shares are numbers up to the policy's total: more of them in accepted
\* hands never lose a quorum, and a quorum is of at least one.
LEMMA QuorumGrows ==
  VaultInvariant =>
    /\ \A S \in SUBSET Eligible : Cardinality(S) >= vault.policy.k => QuorumAssigned
    /\ QuorumAssigned => Accepted # {}
<1> SUFFICES ASSUME VaultInvariant, NEW S \in SUBSET Eligible
             PROVE  /\ Cardinality(S) >= vault.policy.k => QuorumAssigned
                    /\ QuorumAssigned => Accepted # {}
  OBVIOUS
<1>1. vault.policy.k \in Nat \ {0} /\ vault.policy.n \in Nat
  BY ConstantsAssumption DEF VaultInvariant, TypeOK, VaultRow
<1>2. Eligible \subseteq 0 .. vault.policy.n
  BY DEF VaultInvariant, SharesAreReal, Eligible
<1>3. IsFiniteSet(Eligible)
  <2>1. IsFiniteSet(0 .. vault.policy.n)
    BY <1>1, FS_Interval
  <2> QED
    BY <1>2, <2>1, FS_Subset
<1>4. Cardinality(S) <= Cardinality(Eligible)
  BY <1>3, FS_Subset
<1>5. Cardinality(S) \in Nat /\ Cardinality(Eligible) \in Nat
  BY <1>3, FS_Subset, FS_CardinalityType
<1>6. Cardinality(S) >= vault.policy.k => QuorumAssigned
  BY <1>1, <1>4, <1>5 DEF QuorumAssigned
<1>7. QuorumAssigned => Eligible # {}
  BY <1>1, FS_EmptySet DEF QuorumAssigned
<1>8. Eligible # {} => Accepted # {}
  BY DEF Eligible, Accepted
<1> QED
  BY <1>6, <1>7, <1>8

\* While the material stays as it is, only the quorum and the signature of
\* what Release.tla sees can change.
LEMMA SeenOfRecipients ==
  ASSUME VaultInvariant, UnchangedButRecipients
  PROVE  /\ Seen' = [Seen EXCEPT !.quorum = Seen'.quorum, !.signed = Seen'.signed]
         /\ Seen'.quorum \in BOOLEAN /\ Seen'.signed \in BOOLEAN
         /\ Seen'.quorum <=> HasCeremony /\ QuorumAssigned'
         /\ Seen'.signed <=> drill.revision # 0 /\ drill.signature = Signature'
         /\ Seen'.quorum => Seen.ceremony # 0
         /\ Seen'.signed => Seen.drill # 0
<1>1. /\ Material' = Material /\ CeremonyRevision' = CeremonyRevision
      /\ HasCeremony' = HasCeremony /\ drill' = drill
  BY DEF UnchangedButRecipients, Material, CeremonyRevision, HasCeremony
<1>2. HasCeremony => CeremonyRevision # 0
  BY DEF VaultInvariant, TypeOK, VaultRow, CeremonyRow, HasCeremony, CeremonyRevision, Key
<1> DEFINE q == HasCeremony' /\ QuorumAssigned'
           s == drill'.revision # 0 /\ drill'.signature = Signature'
           q0 == HasCeremony /\ QuorumAssigned
           s0 == drill.revision # 0 /\ drill.signature = Signature
<1>3. Seen' = [material |-> Material, ceremony |-> CeremonyRevision, drill |-> drill.revision,
               quorum |-> q, signed |-> s]
  BY <1>1 DEF Seen
<1>4. q \in BOOLEAN /\ s \in BOOLEAN
  OBVIOUS
<1>5. (q <=> HasCeremony /\ QuorumAssigned')
      /\ (s <=> drill.revision # 0 /\ drill.signature = Signature')
  BY <1>1
<1>6. Seen = [material |-> Material, ceremony |-> CeremonyRevision, drill |-> drill.revision,
              quorum |-> q0, signed |-> s0]
  BY DEF Seen
<1> HIDE DEF q, s, q0, s0
<1>7. /\ Seen'.quorum = q /\ Seen'.signed = s
      /\ Seen' = [Seen EXCEPT !.quorum = q, !.signed = s]
  <2>1. Seen'.quorum = q
    BY <1>3
  <2>2. Seen'.signed = s
    BY <1>3
  <2>3. Seen' = [Seen EXCEPT !.quorum = q, !.signed = s]
    <3> DEFINE before == [material |-> Material, ceremony |-> CeremonyRevision,
                          drill |-> drill.revision, quorum |-> q0, signed |-> s0]
               between == [material |-> Material, ceremony |-> CeremonyRevision,
                           drill |-> drill.revision, quorum |-> q, signed |-> s0]
               after == [material |-> Material, ceremony |-> CeremonyRevision,
                         drill |-> drill.revision, quorum |-> q, signed |-> s]
    <3>1. between = [before EXCEPT !.quorum = q]
      BY SMT
    <3>2. after = [between EXCEPT !.signed = s]
      BY SMT
    <3>3. Seen = before /\ Seen' = after
      BY <1>3, <1>6
    <3> HIDE DEF before, between, after
    <3>4. after = [[before EXCEPT !.quorum = q] EXCEPT !.signed = s]
      BY <3>1, <3>2, Zenon
    <3>5. Seen' = [[Seen EXCEPT !.quorum = q] EXCEPT !.signed = s]
      BY <3>3, <3>4, Zenon
    <3> QED
      BY <3>5
  <2> QED
    BY <2>1, <2>2, <2>3
<1>8. Seen.ceremony = CeremonyRevision /\ Seen.drill = drill.revision
  BY <1>6
<1> QED
  BY <1>2, <1>4, <1>5, <1>7, <1>8

LEMMA QuorumGrowsNext ==
  ASSUME VaultInvariant'
  PROVE  /\ \A S \in SUBSET Eligible' :
               Cardinality(S) >= vault'.policy.k => QuorumAssigned'
         /\ QuorumAssigned' => Accepted' # {}
<1>1. (VaultInvariant =>
         /\ \A S \in SUBSET Eligible : Cardinality(S) >= vault.policy.k => QuorumAssigned
         /\ QuorumAssigned => Accepted # {})'
  BY QuorumGrows, PTL
<1> QED
  BY <1>1

\* A change of one row that leaves the accepted beneficiaries who they are.
LEMMA EditMaps ==
  ASSUME VaultInvariant, VaultInvariant', UnchangedButRecipients, Accepted' = Accepted
  PROVE  Authority!ChangeSetup
<1>1. Seen'.quorum => Accepted # {}
  BY SeenOfRecipients, QuorumGrowsNext
<1>2. Authority!EditAssignments(Seen'.quorum, Seen'.signed)
  BY <1>1, SeenOfRecipients DEF Authority!EditAssignments, Authority!release,
     UnchangedButRecipients
<1> QED
  BY <1>2, SeenOfRecipients DEF Authority!ChangeSetup

LEMMA AcceptMaps ==
  ASSUME VaultInvariant, VaultInvariant', DrillRemembers, NEW b \in Beneficiary,
         AcceptInvitation(b)
  PROVE  Authority!ChangeSetup
<1> DEFINE row == [recipient[b] EXCEPT !.status = "accepted"]
<1>1. /\ recipient \in [Beneficiary -> RecipientRow] /\ recipient[b].status = "sent"
      /\ recipient' = [recipient EXCEPT ![b] = row]
      /\ UnchangedButRecipients
  BY DEF AcceptInvitation, Update, VaultInvariant, TypeOK
<1>2. /\ row.status = "accepted" /\ row.share = recipient[b].share
      /\ row.contact = recipient[b].contact /\ row.generation = recipient[b].generation
  BY <1>1 DEF RecipientRow
<1> HIDE DEF row
<1>3. recipient'[b] = row /\ \A c \in Beneficiary \ {b} : recipient'[c] = recipient[c]
  BY <1>1
<1>4. Accepted' = Accepted \cup {b} /\ b \notin Accepted
  BY <1>1, <1>2, <1>3 DEF Accepted, Rows
<1>5. Seen.quorum => Seen'.quorum
  <2>1. Eligible \subseteq Eligible'
    BY <1>1, <1>2, <1>3 DEF Eligible, Rows, UnchangedButRecipients
  <2>2. QuorumAssigned => QuorumAssigned'
    BY <1>1, <2>1, QuorumGrowsNext DEF QuorumAssigned, UnchangedButRecipients
  <2>3. Seen.quorum <=> HasCeremony /\ QuorumAssigned
    BY DEF Seen
  <2> QED
    BY <1>1, <2>2, <2>3, SeenOfRecipients
<1>6. Seen'.signed = FALSE
  <2> SUFFICES ASSUME drill.revision # 0, drill.signature = Signature'
               PROVE  FALSE
    BY <1>1, SeenOfRecipients
  <2>1. b \in Rows' /\ Signature' = [c \in Rows' |-> recipient'[c]]
    BY <1>2, <1>3 DEF Rows, Signature
  <2>2. b \in DOMAIN drill.signature /\ drill.signature[b] = row
    BY <1>3, <2>1
  <2> QED
    BY <1>1, <1>2, <2>2 DEF DrillRemembers
<1>7. Authority!AcceptInvitation(b, Seen'.quorum)
  BY <1>1, <1>4, <1>5, <1>6, SeenOfRecipients DEF Authority!AcceptInvitation,
     Authority!release, UnchangedButRecipients
<1> QED
  BY <1>1, <1>7, SeenOfRecipients DEF Authority!ChangeSetup

\* A beneficiary who moved or was deleted has to accept again, or never can.
LEMMA DropMaps ==
  ASSUME VaultInvariant, VaultInvariant', UnchangedButRecipients, NEW b \in Beneficiary,
         recipient'[b].status \in {"pending", "deleted"},
         \A c \in Beneficiary \ {b} : recipient'[c] = recipient[c]
  PROVE  Authority!ChangeSetup
<1>1. Accepted' = Accepted \ {b}
  BY DEF Accepted, Rows
<1>2. Seen'.quorum => Seen.quorum /\ Accepted' # {}
  <2>1. Eligible' \subseteq Eligible
    BY DEF Eligible, Rows, UnchangedButRecipients
  <2>2. QuorumAssigned' => QuorumAssigned
    BY <2>1, QuorumGrows DEF QuorumAssigned, UnchangedButRecipients
  <2>3. Seen.quorum <=> HasCeremony /\ QuorumAssigned
    BY DEF Seen
  <2> QED
    BY <2>2, <2>3, SeenOfRecipients, QuorumGrowsNext
<1>3. Authority!DropBeneficiary(b, Seen'.quorum, Seen'.signed)
  BY <1>1, <1>2, SeenOfRecipients DEF Authority!DropBeneficiary, UnchangedButRecipients
<1> QED
  BY <1>3, SeenOfRecipients DEF Authority!ChangeSetup

LEMMA RecipientsMap ==
  ASSUME VaultInvariant, VaultInvariant', DrillRemembers, ChangeRecipients
  PROVE  Authority!ChangeSetup
<1>1. PICK b \in Beneficiary :
        \/ \E i \in 0 .. vault.policy.n : AddBeneficiary(b, i)
        \/ InviteBeneficiary(b)
        \/ AcceptInvitation(b)
        \/ ExpireInvitation(b)
        \/ \E moved, assigned \in BOOLEAN, i \in 0 .. vault.policy.n :
              UpdateBeneficiary(b, moved, assigned, i)
        \/ \E i \in 1 .. vault.policy.n : AssignShare(b, i)
        \/ DeleteBeneficiary(b)
  BY DEF ChangeRecipients
<1>2. recipient \in [Beneficiary -> RecipientRow] /\ recipient[b] \in RecipientRow
  BY DEF VaultInvariant, TypeOK
<1>3. ASSUME NEW row, Update(b, row),
             \/ row.status = recipient[b].status
             \/ row.status # "accepted" /\ recipient[b].status # "accepted"
      PROVE  Authority!ChangeSetup
  <2>1. recipient'[b] = row /\ \A c \in Beneficiary \ {b} : recipient'[c] = recipient[c]
    BY <1>2, <1>3 DEF Update
  <2>2. Accepted' = Accepted
    BY <1>3, <2>1 DEF Accepted, Rows
  <2> QED
    BY <1>3, <2>2, EditMaps DEF Update
<1>4. ASSUME NEW row, Update(b, row), row.status \in {"pending", "deleted"}
      PROVE  Authority!ChangeSetup
  BY <1>2, <1>4, DropMaps DEF Update
<1>5. ASSUME NEW row, row.status \in {"accepted", "pending", "sent", "expired"},
             row \in RecipientRow, NEW i
      PROVE  WithShare(row, i).status = row.status
  BY <1>5 DEF WithShare, RecipientRow
<1>6. ASSUME NEW s \in {"sent", "expired"}, recipient[b].status # "accepted",
             Update(b, [recipient[b] EXCEPT !.status = s])
      PROVE  Authority!ChangeSetup
  <2> DEFINE new == [recipient[b] EXCEPT !.status = s]
  <2>1. new.status = s
    BY <1>2 DEF RecipientRow
  <2> HIDE DEF new
  <2>2. Update(b, new)
    BY <1>6 DEF new
  <2> QED
    BY <1>3, <1>6, <2>1, <2>2
<1>7. CASE \E i \in 0 .. vault.policy.n : AddBeneficiary(b, i)
  <2>1. PICK i \in 0 .. vault.policy.n : AddBeneficiary(b, i)
    BY <1>7
  <2> DEFINE new == [Absent EXCEPT !.status = "pending"]
  <2>2. new \in RecipientRow /\ new.status = "pending"
    BY DEF Absent, RecipientRow, Key
  <2>3. Update(b, WithShare(new, i)) /\ recipient[b].status = "absent"
    BY <2>1 DEF AddBeneficiary
  <2> HIDE DEF new
  <2> QED
    BY <1>3, <1>5, <2>2, <2>3
<1>8. CASE InviteBeneficiary(b) \/ ExpireInvitation(b)
  BY <1>6, <1>8 DEF InviteBeneficiary, ExpireInvitation
<1>9. CASE AcceptInvitation(b)
  BY <1>9, AcceptMaps
<1>10. CASE \E moved, assigned \in BOOLEAN, i \in 0 .. vault.policy.n :
               UpdateBeneficiary(b, moved, assigned, i)
  <2>1. PICK moved, assigned \in BOOLEAN, i \in 0 .. vault.policy.n :
                UpdateBeneficiary(b, moved, assigned, i)
    BY <1>10
  <2> DEFINE row == IF moved THEN NewContact(recipient[b]) ELSE recipient[b]
             new == IF assigned THEN WithShare(row, i) ELSE row
  <2>2. Update(b, new)
    BY <2>1 DEF UpdateBeneficiary
  <2>3. recipient[b].status \in {"accepted", "pending", "sent", "expired"}
    BY <1>2, <2>1 DEF UpdateBeneficiary, Rows, RecipientRow
  <2>4. CASE moved
    <3>1. recipient[b].contact + 1 = 1
      BY <2>1, <2>4 DEF UpdateBeneficiary
    <3>2. row = [recipient[b] EXCEPT !.contact = 1, !.status = "pending"]
      BY <2>4, <3>1 DEF NewContact
    <3>3. row \in RecipientRow /\ row.status = "pending"
      BY <1>2, <3>2 DEF RecipientRow
    <3> HIDE DEF row
    <3>4. new.status = "pending"
      BY <1>5, <3>3
    <3> HIDE DEF new
    <3> QED
      BY <1>4, <2>2, <3>4
  <2>5. CASE ~moved
    <3>1. new.status = recipient[b].status
      BY <1>2, <1>5, <2>3, <2>5
    <3> HIDE DEF new
    <3> QED
      BY <1>3, <2>2, <3>1
  <2> QED
    BY <2>4, <2>5
<1>11. CASE \E i \in 1 .. vault.policy.n : AssignShare(b, i)
  <2>1. PICK i \in 1 .. vault.policy.n : AssignShare(b, i)
    BY <1>11
  <2>2. /\ Update(b, WithShare(recipient[b], i))
        /\ recipient[b].status \in {"accepted", "pending", "sent", "expired"}
    BY <1>2, <2>1 DEF AssignShare, Rows, RecipientRow
  <2> QED
    BY <1>2, <1>3, <1>5, <2>2
<1>12. CASE DeleteBeneficiary(b)
  BY <1>4, <1>12 DEF DeleteBeneficiary, Absent
<1> QED
  BY <1>1, <1>7, <1>8, <1>9, <1>10, <1>11, <1>12

\* Drafts, made or cancelled, are not part of what Release.tla sees.
LEMMA SeenIsFinalized ==
  ASSUME VaultInvariant, UNCHANGED <<drill, recipient>>,
         vault'.revision = vault.revision, vault'.wrapped = vault.wrapped,
         vault'.generation = vault.generation, vault'.policy = vault.policy,
         HasCeremony' = HasCeremony,
         HasCeremony => ceremony'[vault.generation] = ceremony[vault.generation]
  PROVE  UNCHANGED <<Seen, Accepted>>
<1>1. Material' = Material /\ Rows' = Rows
  BY DEF Material, Rows
<1>2. CeremonyRevision' = CeremonyRevision
  BY DEF CeremonyRevision
<1>3. QuorumAssigned' = QuorumAssigned
  BY <1>1 DEF QuorumAssigned, Eligible
<1>4. Signature' = Signature
  BY <1>1 DEF Signature
<1> QED
  BY <1>1, <1>2, <1>3, <1>4 DEF Seen, Accepted

LEMMA AddDraftMaps ==
  ASSUME VaultInvariant, NEW g \in Generation, ceremony[g].status = "none",
         NEW key \in Generation, NEW initial \in BOOLEAN, NEW policy \in Policy,
         AddDraft(g, key, initial, policy),
         vault' \in {vault, [vault EXCEPT !.status = "DRAFT"]},
         UNCHANGED <<drill, recipient>>
  PROVE  UNCHANGED <<Seen, Accepted>>
<1>1. TypeOK
  BY DEF VaultInvariant
<1>2. /\ ceremony' \in [Generation -> CeremonyRow]
      /\ ceremony'[g] = [status |-> "DRAFT", expected |-> vault.revision, key |-> key,
                         initial |-> initial, policy |-> policy]
      /\ \A h \in Generation \ {g} :
           /\ ceremony'[h].status # "DRAFT"
           /\ ceremony'[h].initial = FALSE
           /\ ceremony'[h].status = "FINALIZED" <=> ceremony[h].status = "FINALIZED"
           /\ ceremony[h].status = "FINALIZED" => ceremony'[h] = ceremony[h]
  BY ONLY <1>1, AddDraftRows, g \in Generation, ceremony[g].status = "none",
     key \in Generation, initial \in BOOLEAN, policy \in Policy,
     AddDraft(g, key, initial, policy)
<1>3. ceremony'[g].status = "DRAFT"
  BY <1>2
<1>4. /\ vault'.revision = vault.revision /\ vault'.wrapped = vault.wrapped
      /\ vault'.generation = vault.generation /\ vault'.policy = vault.policy
  BY <1>1 DEF TypeOK, VaultRow
<1>5. vault.generation # None => vault.generation \in Generation
  BY <1>1 DEF TypeOK, VaultRow, Key
<1>6. HasCeremony' = HasCeremony
  BY <1>2, <1>3, <1>4, <1>5 DEF HasCeremony
<1>7. HasCeremony => ceremony'[vault.generation] = ceremony[vault.generation]
  BY <1>2, <1>5 DEF HasCeremony
<1> QED
  BY <1>4, <1>6, <1>7, SeenIsFinalized

LEMMA CancelMaps ==
  ASSUME VaultInvariant, NEW g \in Generation, CancelCeremony(g)
  PROVE  UNCHANGED <<Seen, Accepted>>
<1>1. /\ ceremony[g].status # "FINALIZED"
      /\ ceremony' = [ceremony EXCEPT ![g].status = "CANCELLED", ![g].initial = FALSE]
      /\ vault' = [vault EXCEPT !.status = StatusAfterCancel]
      /\ UNCHANGED <<drill, recipient>>
  BY DEF CancelCeremony
<1>2. /\ ceremony'[g].status = "CANCELLED"
      /\ \A h \in Generation \ {g} : ceremony'[h] = ceremony[h]
  BY <1>1 DEF VaultInvariant, TypeOK, CeremonyRow
<1>3. /\ vault'.revision = vault.revision /\ vault'.wrapped = vault.wrapped
      /\ vault'.generation = vault.generation /\ vault'.policy = vault.policy
  BY <1>1 DEF VaultInvariant, TypeOK, VaultRow
<1>4. vault.generation # None => vault.generation \in Generation
  BY DEF VaultInvariant, TypeOK, VaultRow, Key
<1>5. HasCeremony' = HasCeremony
  BY <1>1, <1>2, <1>3, <1>4 DEF HasCeremony
<1>6. HasCeremony => ceremony'[vault.generation] = ceremony[vault.generation]
  BY <1>1, <1>2, <1>4 DEF HasCeremony
<1> QED
  BY <1>1, <1>3, <1>5, <1>6, SeenIsFinalized

\* The shares of the new distribution are in nobody's hands yet.
LEMMA FinalizeMaps ==
  ASSUME VaultInvariant, VaultInvariant', NEW g \in Generation, FinalizeCeremony(g)
  PROVE  Authority!FinalizeCeremony
<1>1. /\ ~released /\ released' = released /\ vault.revision < MaxRevision
      /\ vault.revision = ceremony[g].expected /\ drill' = NoDrill
      /\ recipient' = ForgetAssignments
  BY DEF FinalizeCeremony, Finalizable, Writable
<1>2. Material = vault.revision /\ vault.revision \in Nat
  BY DEF Material, VaultInvariant, KeyIsCounted, TypeOK, VaultRow
<1>3. /\ vault'.revision = vault.revision + 1 /\ vault'.wrapped # None
      /\ vault'.generation = g /\ g # None
      /\ ceremony'[g].status = "FINALIZED" /\ ceremony'[g].expected = ceremony[g].expected
  <2>1. ceremony'[g] = [ceremony[g] EXCEPT !.status = "FINALIZED", !.initial = FALSE]
    BY DEF FinalizeCeremony
  <2>2. ceremony'[g].expected = ceremony[g].expected
    BY <2>1 DEF VaultInvariant, TypeOK, CeremonyRow
  <2>3. /\ vault' = [revision |-> vault.revision + 1, wrapped |-> ceremony[g].key,
                     generation |-> g, status |-> "READY", policy |-> ceremony[g].policy]
        /\ ceremony[g].key \in Generation
        /\ ceremony'[g].status = "FINALIZED"
    BY FinalizeRows
  <2> QED
    BY <2>2, <2>3, ConstantsAssumption
<1>4. Material' = vault.revision + 1 /\ HasCeremony' /\ CeremonyRevision' = vault.revision + 1
  BY <1>1, <1>3 DEF Material, HasCeremony, CeremonyRevision
<1>5. /\ \A b \in Beneficiary :
            recipient'[b].generation = None /\ recipient'[b].status = recipient[b].status
  BY <1>1 DEF ForgetAssignments, VaultInvariant, TypeOK, RecipientRow
<1>6. ~QuorumAssigned'
  <2>1. Eligible' = {}
    BY <1>3, <1>5 DEF Eligible, Rows
  <2>2. vault'.policy.k \in Nat \ {0}
    BY ConstantsAssumption DEF VaultInvariant, TypeOK, VaultRow
  <2> QED
    BY <2>1, <2>2, FS_EmptySet DEF QuorumAssigned
<1>7. drill'.revision = 0
  BY <1>1 DEF NoDrill
<1>8. Seen' = [material |-> Seen.material + 1, ceremony |-> Seen.material + 1,
               drill |-> 0, quorum |-> FALSE, signed |-> FALSE]
  <2>1. Seen.material = vault.revision
    BY <1>2 DEF Seen
  <2> QED
    BY <1>4, <1>6, <1>7, <2>1 DEF Seen
<1>9. Accepted' = Accepted
  BY <1>5 DEF Accepted, Rows
<1>10. Seen.material < MaxRevision
  BY <1>1, <1>2 DEF Seen
<1> QED
  BY <1>1, <1>8, <1>9, <1>10 DEF Authority!FinalizeCeremony, Authority!release

LEMMA RewrapMaps ==
  ASSUME VaultInvariant, NEW view \in views, Rewrap(view)
  PROVE  Authority!Rewrap
<1>1. /\ ~released /\ released' = released /\ vault.wrapped # None
      /\ vault.revision < MaxRevision
      /\ UNCHANGED <<ceremony, drill, recipient>>
      /\ view.key = vault.wrapped
  BY DEF Rewrap, Writable, VaultInvariant, ViewsHoldTheKey
<1>2. vault.revision \in Nat \ {0}
  BY <1>1 DEF VaultInvariant, KeyIsCounted, TypeOK, VaultRow
<1>3. /\ vault'.revision = vault.revision + 1 /\ vault'.wrapped = vault.wrapped
      /\ vault'.generation = vault.generation /\ vault'.policy = vault.policy
  <2> DEFINE r == vault.revision + 1
  <2>1. vault' = [vault EXCEPT !.wrapped = view.key, !.revision = r]
    BY DEF Rewrap
  <2> HIDE DEF r
  <2>2. /\ vault'.revision = r /\ vault'.wrapped = view.key
        /\ vault'.generation = vault.generation /\ vault'.policy = vault.policy
    BY <2>1 DEF VaultInvariant, TypeOK, VaultRow
  <2> QED
    BY <1>1, <2>2 DEF r
<1> DEFINE q == HasCeremony /\ QuorumAssigned
           s == drill.revision # 0 /\ drill.signature = Signature
<1>4. Seen = [material |-> vault.revision, ceremony |-> CeremonyRevision,
              drill |-> drill.revision, quorum |-> q, signed |-> s]
  BY <1>1 DEF Seen, Material
<1>5. Seen' = [material |-> vault.revision + 1, ceremony |-> CeremonyRevision,
               drill |-> drill.revision, quorum |-> q, signed |-> s]
  BY <1>1, <1>3 DEF Seen, Material, CeremonyRevision, HasCeremony, QuorumAssigned, Eligible,
     Signature, Rows
<1> HIDE DEF q, s
<1>6. Seen' = [Seen EXCEPT !.material = Seen.material + 1] /\ Seen.material = vault.revision
  BY <1>4, <1>5
<1>7. Seen.material \in 1 .. MaxRevision - 1
  BY <1>1, <1>2, <1>6, ConstantsAssumption
<1>8. Accepted' = Accepted
  BY <1>1 DEF Accepted, Rows
<1> QED
  BY <1>1, <1>6, <1>7, <1>8 DEF Authority!Rewrap, Authority!release

LEMMA DrillMaps ==
  ASSUME VaultInvariant, ReportDrill
  PROVE  Authority!ReportDrill
<1>1. /\ HasCeremony /\ UNCHANGED <<vault, ceremony, recipient, released>>
      /\ drill' = [revision |-> vault.revision, signature |-> Signature]
  BY DEF ReportDrill
<1>2. vault.wrapped # None
  BY <1>1 DEF VaultInvariant, Recoverable, HasCeremony
<1>3. vault.revision # 0 /\ Material = vault.revision
  BY <1>2 DEF VaultInvariant, KeyIsCounted, Material
<1>4. CeremonyRevision # 0
  BY <1>1 DEF VaultInvariant, TypeOK, VaultRow, CeremonyRow, HasCeremony, CeremonyRevision, Key
<1> DEFINE q == HasCeremony /\ QuorumAssigned
           s == drill.revision # 0 /\ drill.signature = Signature
<1>5. Seen = [material |-> vault.revision, ceremony |-> CeremonyRevision,
              drill |-> drill.revision, quorum |-> q, signed |-> s]
  BY <1>3 DEF Seen
<1>6. Signature' = Signature /\ Accepted' = Accepted
  BY <1>1 DEF Signature, Accepted, Rows
<1>7. drill'.revision # 0 /\ drill'.signature = Signature'
  BY <1>1, <1>3, <1>6
<1>8. Seen' = [material |-> vault.revision, ceremony |-> CeremonyRevision,
               drill |-> vault.revision, quorum |-> q, signed |-> TRUE]
  <2>1. /\ Material' = vault.revision /\ CeremonyRevision' = CeremonyRevision
        /\ HasCeremony' = HasCeremony /\ QuorumAssigned' = QuorumAssigned
        /\ drill'.revision = vault.revision
    BY <1>1, <1>2 DEF Material, CeremonyRevision, HasCeremony, QuorumAssigned, Eligible, Rows
  <2> QED
    BY <1>7, <2>1 DEF Seen
<1> HIDE DEF q, s
<1>9. Seen' = [Seen EXCEPT !.drill = Seen.material, !.signed = TRUE]
  <2> DEFINE t == TRUE
             between == [material |-> vault.revision, ceremony |-> CeremonyRevision,
                         drill |-> vault.revision, quorum |-> q, signed |-> s]
             after == [material |-> vault.revision, ceremony |-> CeremonyRevision,
                       drill |-> vault.revision, quorum |-> q, signed |-> t]
  <2>1. Seen.material = vault.revision
    BY <1>5
  <2>2. between = [Seen EXCEPT !.drill = vault.revision]
    BY <1>5, SMT
  <2>3. Seen' = after
    BY <1>8
  <2> HIDE DEF t
  <2>4. after = [between EXCEPT !.signed = t]
    BY SMT
  <2> HIDE DEF between, after
  <2>5. Seen' = [[Seen EXCEPT !.drill = vault.revision] EXCEPT !.signed = t]
    BY <2>2, <2>3, <2>4, Zenon
  <2> QED
    BY <2>1, <2>5 DEF t
<1>10. Seen.ceremony # 0
  BY <1>4, <1>5
<1> QED
  BY <1>1, <1>6, <1>9, <1>10 DEF Authority!ReportDrill, Authority!release

LEMMA MaterialMaps ==
  ASSUME VaultInvariant, VaultInvariant', ChangeMaterial
  PROVE  UNCHANGED <<Seen, Accepted>> \/ Authority!ChangeSetup
<1>1. ASSUME NEW g \in Generation, NEW p \in Policy, CreateFirstDraft(g, p)
      PROVE  UNCHANGED <<Seen, Accepted>>
  BY <1>1, AddDraftMaps DEF CreateFirstDraft
<1>2. ASSUME NEW g \in Generation, NEW p \in Policy, NEW view \in views,
             CreateReshareDraft(g, p, view)
      PROVE  UNCHANGED <<Seen, Accepted>>
  <2>1. view.key \in Generation
    BY DEF VaultInvariant, TypeOK
  <2> QED
    BY <1>2, <2>1, AddDraftMaps DEF CreateReshareDraft
<1> QED
  BY <1>1, <1>2, FinalizeMaps, CancelMaps, RewrapMaps, DrillMaps
     DEF ChangeMaterial, Authority!ChangeSetup

\* Every change of the rows is, for the release authority, a change of the
\* setup that Release.tla allows, or none.
THEOREM SetupRefined == Spec => RefinesSetup
<1>1. VaultInvariant /\ VaultInvariant' /\ DrillRemembers /\ [Next]_vars
        => [UNCHANGED <<Seen, Accepted>> \/ Authority!ChangeSetup]_vars
  <2> SUFFICES ASSUME VaultInvariant, VaultInvariant', DrillRemembers, Next
               PROVE  UNCHANGED <<Seen, Accepted>> \/ Authority!ChangeSetup
    OBVIOUS
  <2>1. CASE UNCHANGED <<vault, ceremony, drill, recipient>>
    <3>1. HasCeremony' = HasCeremony
      BY <2>1 DEF HasCeremony
    <3> QED
      BY <2>1, <3>1, SeenIsFinalized
  <2>2. ChangeMessages \/ PassGate => UNCHANGED <<vault, ceremony, drill, recipient>>
    BY DEF ChangeMessages, SaveMessage, UpdateMessage, DeleteMessage, WipeMessages,
       UnchangedButMessages, PassGate
  <2> QED
    BY <2>1, <2>2, MaterialMaps, RecipientsMap DEF Next
<1>2. Spec => []DrillRemembers
  BY Safety, InitRemembers, NextRemembers, PTL DEF Spec
<1> QED
  BY <1>1, <1>2, Safety, PTL DEF Spec, RefinesSetup
=============================================================================
