------------------------------ MODULE Sessions ------------------------------
(***************************************************************************)
(* The credentials of one vault: the session families of its owner and its *)
(* beneficiaries with their single-use refresh tokens, the sign-in links   *)
(* (challenges) and the invitations.                                       *)
(*                                                                         *)
(* Handlers that lock the VaultStatus row first are one action.  Those     *)
(* that read before they lock (accept, redeem, request of a link, sign-out *)
(* everywhere) are two: Begin is what they read, Finish what they do with  *)
(* the lock held.  A request may quote any credential that was ever handed *)
(* out: an old tab, a lost response, a second browser or a copied cookie   *)
(* are all of that kind.                                                   *)
(*                                                                         *)
(* A link is dated by the time at which its request came, however long the *)
(* request then waited for the lock.  The clock now is for the links and    *)
(* the requests for them: time that none of them measures is not counted.  *)
(* The other things have an age that only grows: a consumed token is       *)
(* "just" consumed for ten seconds and then "long", an invitation lasts a  *)
(* week.                                                                   *)
(* A restored database (ops.py) is an earlier one, quarantined.            *)
(***************************************************************************)
EXTENDS Integers, Sequences, FiniteSets

CONSTANTS
    Owner,          \* the owner of the vault
    Beneficiary,    \* ids of beneficiary rows
    Family,         \* ids of session families, random
    Challenge,      \* sign-in links, random
    Invitation,     \* invitation links, random
    Process,        \* requests being served at one time
    None,           \* NULL
    Minute,         \* the time that must pass between two links
    LinkLife,       \* the time that a link is good for: 15 minutes
    MaxNow,         \* bound: the clock
    MaxTokens,      \* bound: refresh tokens of a family
    MaxContact,     \* bound: replaced addresses of a beneficiary
    MaxEpoch        \* bound: restorations

ASSUME ConstantsAssumption ==
    /\ Owner \notin Beneficiary
    /\ None \notin Challenge \cup Invitation
    /\ None \notin [to : Beneficiary \cup {Owner}, contact : 0 .. MaxContact]
    /\ Challenge \cap Invitation = {}
    /\ Minute \in Nat \ {0} /\ LinkLife \in Nat \ {0} /\ MaxNow \in Nat
    /\ MaxTokens \in Nat \ {0} /\ MaxContact \in Nat /\ MaxEpoch \in Nat

VARIABLES
    recipient,  \* Beneficiary rows: [status, contact, hash, old]
    family,     \* AuthSession and SessionRefresh rows, by family
    challenge,  \* AuthChallenge rows
    sent,       \* the row and the address that an invitation was sent for
    epoch,      \* AUTH_EPOCH of the deployment
    now,        \* the clock
    request     \* what each request has read and not acted on yet

vars == <<recipient, family, challenge, sent, epoch, now, request>>

Absent == [status |-> "absent", contact |-> 0, hash |-> None, old |-> FALSE]
NoFamily == [state |-> "unused", principal |-> Owner, contact |-> 0, epoch |-> 0,
             by |-> None, refresh |-> <<>>]
NoChallenge == [state |-> "unused", to |-> Owner, contact |-> 0, epoch |-> 0,
                at |-> 0]
Idle == [op |-> "idle"]

Init ==
    /\ recipient = [b \in Beneficiary |-> Absent]
    /\ family = [f \in Family |-> NoFamily]
    /\ challenge = [c \in Challenge |-> NoChallenge]
    /\ sent = [i \in Invitation |-> None]
    /\ epoch = 0
    /\ now = 0
    /\ request = [p \in Process |-> Idle]

-----------------------------------------------------------------------------
(* Families                                                                *)

Accepted(b, contact) ==
    recipient[b].status = "accepted" /\ recipient[b].contact = contact

\* valid_family: a family that has run out is as good as revoked.
ValidFamily(f) == family[f].state = "live" /\ family[f].epoch = epoch

\* An access token of the family opens a session.
Usable(f) ==
    /\ ValidFamily(f)
    /\ family[f].principal # Owner => Accepted(family[f].principal, family[f].contact)

Issue(f, principal, contact, by) ==
    /\ family[f].state = "unused"
    /\ family' = [family EXCEPT ![f] =
        [state |-> "live", principal |-> principal, contact |-> contact,
         epoch |-> epoch, by |-> by, refresh |-> <<"no">>]]

\* Nobody looks at the tokens of a revoked family.
Revoked(row) ==
    IF row.state = "live" THEN [row EXCEPT !.state = "revoked", !.refresh = <<>>] ELSE row

\* Mutant: only the families opened for an earlier address are revoked.
WithoutCurrent(families, b) ==
    [f \in Family |->
        IF families[f].principal = b /\ families[f].contact # recipient[b].contact
        THEN Revoked(families[f]) ELSE families[f]]

WithoutSessions(families, b) ==
    [f \in Family |->
        IF families[f].principal = b THEN Revoked(families[f]) ELSE families[f]]

Consumed(row) == [row EXCEPT !.state = IF @ = "live" THEN "consumed" ELSE @]

\* revoke_beneficiary: every family of b, and the links it was not signed in
\* with.  (Its jobs are Release.tla's and Outbox.tla's.)
RevokeBeneficiary(b) ==
    /\ family' = WithoutSessions(family, b)
    /\ challenge' = [c \in Challenge |->
        IF challenge[c].to = b THEN Consumed(challenge[c]) ELSE challenge[c]]

\* Mutant: the token that was quoted stays good.
RotatedSibling(refresh, n) == Append(refresh, "no")

Rotated(refresh, n) == Append([refresh EXCEPT ![n] = "just"], "no")

\* rotate of token n, by /auth/refresh or /access/session.
Rotate(f, n) ==
    /\ Usable(f)
    /\ n \in DOMAIN family[f].refresh
    /\ family[f].refresh[n] = "no"
    /\ Len(family[f].refresh) < MaxTokens
    /\ family' = [family EXCEPT ![f].refresh = Rotated(@, n)]
    /\ UNCHANGED <<recipient, challenge, sent, epoch, now, request>>

\* Within ten seconds the answer is 409 and nothing changes; after that the
\* reuse is taken for theft.
DetectReuse(f, n) ==
    /\ Usable(f)
    /\ n \in DOMAIN family[f].refresh
    /\ family[f].refresh[n] = "long"
    /\ family' = [family EXCEPT ![f] = Revoked(@)]
    /\ UNCHANGED <<recipient, challenge, sent, epoch, now, request>>

Login(f) ==
    /\ Issue(f, Owner, 0, None)
    /\ UNCHANGED <<recipient, challenge, sent, epoch, now, request>>

RevokeCookie(f) ==
    /\ family[f].state = "live"
    /\ family' = [family EXCEPT ![f] = Revoked(@)]

\* Logout of the owner asks for a refresh cookie of the family, ...
Logout(f) ==
    /\ family[f].principal = Owner
    /\ RevokeCookie(f)
    /\ UNCHANGED <<recipient, challenge, sent, epoch, now, request>>

\* ... /access/revoke for an access token besides.
SignOut(f) ==
    /\ family[f].principal # Owner
    /\ \E g \in Family : Usable(g) /\ family[g].principal # Owner
    /\ RevokeCookie(f)
    /\ UNCHANGED <<recipient, challenge, sent, epoch, now, request>>

-----------------------------------------------------------------------------
(* Requests that read first and lock later                                 *)

Start(p, what) ==
    /\ request[p] = Idle
    /\ request' = [request EXCEPT ![p] = what]
    /\ UNCHANGED <<recipient, family, challenge, sent, epoch, now>>

End(p) == request' = [request EXCEPT ![p] = Idle]

\* The request is refused, or has nothing to do.
Give(p) == End(p) /\ UNCHANGED <<recipient, family, challenge, sent, epoch, now>>

BeginAccept(p, b) ==
    /\ recipient[b].hash # None
    /\ Start(p, [op |-> "accept", to |-> b, with |-> recipient[b].hash])

\* Mutant: the invitation that was found is not looked for again.
StillInvitedAnyway(b, i) == recipient[b].status = "sent"

StillInvited(b, i) == recipient[b].status = "sent" /\ recipient[b].hash = i

FinishAccept(p) ==
    LET b == request[p].to
        i == request[p].with
    IN  /\ request[p].op = "accept"
        /\ \/ /\ StillInvited(b, i) /\ ~recipient[b].old
              /\ recipient' = [recipient EXCEPT ![b].status = "accepted", ![b].hash = None]
              /\ \E f \in Family : Issue(f, b, recipient[b].contact, i)
              /\ End(p)
              /\ UNCHANGED <<challenge, sent, epoch, now>>
           \/ /\ StillInvited(b, i) /\ recipient[b].old
              /\ recipient' = [recipient EXCEPT ![b].status = "expired"]
              /\ End(p)
              /\ UNCHANGED <<family, challenge, sent, epoch, now>>
           \/ ~StillInvited(b, i) /\ Give(p)

\* The links of b in the database.
ChallengesOf(b) == {c \in Challenge : challenge[c].to = b /\ challenge[c].state # "lost"}

\* A link is asked for: none was within the last minute.  From here on the
\* request goes by the time of now.
BeginLink(p, b) ==
    /\ recipient[b].status = "accepted"
    /\ \A c \in ChallengesOf(b) : challenge[c].at <= now - Minute
    /\ Start(p, [op |-> "link", to |-> b, contact |-> recipient[b].contact, at |-> now])

\* Mutant: the minute is not looked at again.
MayChallengeTwice(q) == Accepted(q.to, q.contact)

\* With the lock held, the links there are now are compared with the time at
\* which the request came: those of requests that came later refuse it, too.
MayChallenge(q) ==
    /\ Accepted(q.to, q.contact)
    /\ \A c \in ChallengesOf(q.to) : q.at - challenge[c].at >= Minute

\* The link is dated, and expires, by the time at which the request came.
FinishLink(p) ==
    LET q == request[p]
    IN  /\ q.op = "link"
        /\ \/ /\ MayChallenge(q)
              /\ \E c \in Challenge :
                    /\ challenge[c].state = "unused"
                    /\ challenge' = [challenge EXCEPT ![c] =
                        [state |-> "live", to |-> q.to, contact |-> recipient[q.to].contact,
                         epoch |-> epoch, at |-> q.at]]
              /\ End(p)
              /\ UNCHANGED <<recipient, family, sent, epoch, now>>
           \/ ~MayChallenge(q) /\ Give(p)

Expired(c) == challenge[c].at + LinkLife <= now

\* What redeem_link reads before the lock: it looks at the age no more.
BeginRedeem(p, c) ==
    /\ challenge[c].state = "live"
    /\ ~Expired(c)
    /\ challenge[c].epoch = epoch
    /\ Start(p, [op |-> "redeem", with |-> c])

\* Mutant: the link is not looked at again.
RedeemableTwice(c) == Accepted(challenge[c].to, challenge[c].contact)

Redeemable(c) ==
    /\ Accepted(challenge[c].to, challenge[c].contact)
    /\ challenge[c].state = "live"

FinishRedeem(p) ==
    LET c == request[p].with
    IN  /\ request[p].op = "redeem"
        /\ \/ /\ Redeemable(c)
              /\ challenge' = [challenge EXCEPT ![c].state = "consumed"]
              /\ \E f \in Family : Issue(f, challenge[c].to, challenge[c].contact, c)
              /\ End(p)
              /\ UNCHANGED <<recipient, sent, epoch, now>>
           \/ ~Redeemable(c) /\ Give(p)

\* revoke_all: the session is checked before the lock and not after it.
BeginSignOutEverywhere(p, f) ==
    /\ Usable(f) /\ family[f].principal # Owner
    /\ Start(p, [op |-> "signout", to |-> family[f].principal])

FinishSignOutEverywhere(p) ==
    /\ request[p].op = "signout"
    /\ RevokeBeneficiary(request[p].to)
    /\ End(p)
    /\ UNCHANGED <<recipient, sent, epoch, now>>

-----------------------------------------------------------------------------
(* What the owner does                                                     *)

AddBeneficiary(b) ==
    /\ recipient[b].status = "absent"
    /\ recipient' = [recipient EXCEPT ![b] = [Absent EXCEPT !.status = "pending"]]
    /\ UNCHANGED <<family, challenge, sent, epoch, now, request>>

InviteBeneficiary(b, i) ==
    /\ recipient[b].status \in {"pending", "sent", "expired"}
    /\ sent[i] = None
    /\ RevokeBeneficiary(b)
    /\ recipient' = [recipient EXCEPT ![b] =
        [status |-> "sent", contact |-> @.contact, hash |-> i, old |-> FALSE]]
    /\ sent' = [sent EXCEPT ![i] = [to |-> b, contact |-> recipient[b].contact]]
    /\ UNCHANGED <<epoch, now, request>>

NewContact(row) ==
    [status |-> "pending", contact |-> row.contact + 1, hash |-> None, old |-> FALSE]

ChangeContact(b) ==
    /\ recipient[b].status \notin {"absent", "deleted"}
    /\ recipient[b].contact < MaxContact
    /\ RevokeBeneficiary(b)
    /\ recipient' = [recipient EXCEPT ![b] = NewContact(@)]
    /\ UNCHANGED <<sent, epoch, now, request>>

DeleteBeneficiary(b) ==
    /\ recipient[b].status \notin {"absent", "deleted"}
    /\ RevokeBeneficiary(b)
    /\ recipient' = [recipient EXCEPT ![b] = [Absent EXCEPT !.status = "deleted"]]
    /\ UNCHANGED <<sent, epoch, now, request>>

-----------------------------------------------------------------------------
(* Time                                                                    *)

AgeToken(f, n) ==
    /\ family[f].state = "live"
    /\ n \in DOMAIN family[f].refresh
    /\ family[f].refresh[n] = "just"
    /\ family' = [family EXCEPT ![f].refresh[n] = "long"]
    /\ UNCHANGED <<recipient, challenge>>

AgeFamily(f) ==
    /\ family[f].state = "live"
    /\ family' = [family EXCEPT ![f] = Revoked(@)]
    /\ UNCHANGED <<recipient, challenge>>

AgeInvitation(b) ==
    /\ recipient[b].hash # None /\ ~recipient[b].old
    /\ recipient' = [recipient EXCEPT ![b].old = TRUE]
    /\ UNCHANGED <<family, challenge>>

Age ==
    /\ \/ \E f \in Family : AgeFamily(f) \/ \E n \in 1 .. MaxTokens : AgeToken(f, n)
       \/ \E b \in Beneficiary : AgeInvitation(b)
    /\ UNCHANGED <<sent, epoch, now, request>>

\* Time passes for a link that is still good, or for the request for one.
Tick ==
    /\ now < MaxNow
    /\ \/ \E p \in Process : request[p].op = "link"
       \/ \E c \in Challenge : challenge[c].state = "live" /\ ~Expired(c)
       \/ \E b \in Beneficiary : \E c \in ChallengesOf(b) : now - challenge[c].at < Minute
    /\ now' = now + 1
    /\ UNCHANGED <<recipient, family, challenge, sent, epoch, request>>

-----------------------------------------------------------------------------
(* Restoration                                                             *)

\* Mutants: invitations, which know of no epoch, survive; or their status does.
QuarantinedSent(row) == [row EXCEPT !.hash = None]
QuarantinedInvited(row) == row

Quarantined(row) ==
    [row EXCEPT !.hash = None, !.status = IF @ = "sent" THEN "pending" ELSE @]

\* The rows that b may have had in an earlier database.  (One that is pending
\* or expired is, quarantined, as good as one that was sent.)
EarlierRows(b) ==
    {row \in [status : {"absent", "sent", "accepted"},
              contact : 0 .. MaxContact, hash : Invitation \cup {None}, old : {FALSE}] :
        /\ row.status = "absent" => row.contact = 0
        /\ recipient[b].status # "deleted" => row.contact <= recipient[b].contact
        /\ row.hash # None <=> row.status = "sent"
        /\ row.hash # None => sent[row.hash] = [to |-> b, contact |-> row.contact]}

\* A family or a challenge that is in the earlier database was live there (or
\* dead, which only helps); one that is not there is lost.
EarlierFamilies(f) ==
    IF family[f].state = "unused" THEN {family[f]}
    ELSE {[family[f] EXCEPT !.state = "lost", !.refresh = <<>>],
          [family[f] EXCEPT !.state = "live", !.refresh = <<"no">>]}
EarlierChallenges(c) ==
    IF challenge[c].state = "unused" THEN {challenge[c]}
    ELSE {[challenge[c] EXCEPT !.state = "lost"], [challenge[c] EXCEPT !.state = "live"]}

\* The functions that give every id one of its earlier rows.
Choices(ids, Earlier(_)) ==
    {rows \in [ids -> UNION {Earlier(x) : x \in ids}] : \A x \in ids : rows[x] \in Earlier(x)}

\* The database is an earlier one, quarantined before anybody reaches it, and
\* the deployment gets an epoch that was never used.  A request that was being
\* served has changed nothing yet: it is left out.
Restore ==
    /\ epoch < MaxEpoch
    /\ \A p \in Process : request[p] = Idle
    /\ epoch' = epoch + 1
    /\ \E recipients \in Choices(Beneficiary, EarlierRows) :
        recipient' = [b \in Beneficiary |-> Quarantined(recipients[b])]
    /\ \E families \in Choices(Family, EarlierFamilies) :
        family' = [f \in Family |-> Revoked(families[f])]
    /\ \E challenges \in Choices(Challenge, EarlierChallenges) :
        challenge' = [c \in Challenge |-> Consumed(challenges[c])]
    /\ UNCHANGED <<sent, now, request>>

-----------------------------------------------------------------------------

UseSession ==
    \E f \in Family :
        \/ Login(f)
        \/ Logout(f) \/ SignOut(f)
        \/ \E n \in 1 .. MaxTokens : Rotate(f, n) \/ DetectReuse(f, n)

Serve(p) ==
    \/ \E b \in Beneficiary : BeginAccept(p, b) \/ BeginLink(p, b)
    \/ \E c \in Challenge : BeginRedeem(p, c)
    \/ \E f \in Family : BeginSignOutEverywhere(p, f)
    \/ FinishAccept(p)
    \/ FinishLink(p)
    \/ FinishRedeem(p)
    \/ FinishSignOutEverywhere(p)

ManageBeneficiary ==
    \E b \in Beneficiary :
        \/ AddBeneficiary(b)
        \/ \E i \in Invitation : InviteBeneficiary(b, i)
        \/ ChangeContact(b)
        \/ DeleteBeneficiary(b)

Next ==
    \/ UseSession
    \/ \E p \in Process : Serve(p)
    \/ ManageBeneficiary
    \/ Age
    \/ Tick
    \/ Restore

Spec == Init /\ [][Next]_vars

-----------------------------------------------------------------------------
(* Properties                                                              *)

Contact == 0 .. MaxContact
RecipientRow == [status : {"absent", "pending", "sent", "accepted", "expired", "deleted"},
                 contact : Contact, hash : Invitation \cup {None}, old : BOOLEAN]
FamilyRow == [state : {"unused", "live", "revoked", "lost"},
              principal : Beneficiary \cup {Owner}, contact : Contact,
              epoch : 0 .. MaxEpoch, by : Challenge \cup Invitation \cup {None},
              refresh : Seq({"no", "just", "long"})]
ChallengeRow == [state : {"unused", "live", "consumed", "lost"},
                 to : Beneficiary \cup {Owner}, contact : Contact,
                 epoch : 0 .. MaxEpoch, at : 0 .. MaxNow]
Request == {Idle}
    \cup [op : {"accept"}, to : Beneficiary, with : Invitation]
    \cup [op : {"link"}, to : Beneficiary, contact : Contact, at : 0 .. MaxNow]
    \cup [op : {"redeem"}, with : Challenge]
    \cup [op : {"signout"}, to : Beneficiary]

\* Every row holds values of its columns, and the hash of an invitation just
\* while one is out.
TypeOK ==
    /\ recipient \in [Beneficiary -> RecipientRow]
    /\ \A b \in Beneficiary :
        recipient[b].hash # None <=> recipient[b].status \in {"sent", "expired"}
    /\ family \in [Family -> FamilyRow]
    /\ challenge \in [Challenge -> ChallengeRow]
    /\ sent \in [Invitation -> {None} \cup [to : Beneficiary, contact : Contact]]
    /\ epoch \in 0 .. MaxEpoch
    /\ now \in 0 .. MaxNow
    /\ request \in [Process -> Request]

\* A live family has one refresh token that was not used yet and no sibling, however
\* its rotations, retries and replays crossed (sessions.py:65-116).
OneLiveToken ==
    \A f \in Family :
        family[f].state = "live" =>
            Cardinality({n \in DOMAIN family[f].refresh : family[f].refresh[n] = "no"}) = 1

\* When a beneficiary is deleted, invited anew or given another address, no
\* session and no sign-in link of before is left, those that a request which
\* had read the old row was about to open included
\* (sessions.py:128-136, access.py:139-201, beneficiary_login.py:119-150).
NothingOutlivesItsRecipient ==
    /\ \A f \in Family : family[f].principal # Owner /\ ValidFamily(f) => Usable(f)
    /\ \A c \in Challenge :
        challenge[c].state = "live" => Accepted(challenge[c].to, challenge[c].contact)

\* An invitation or a sign-in link opens one session, the session of the row
\* and the address it was sent to; a restored database does not let it open a
\* second one (access.py:168-201, beneficiary_login.py:138-150, ops.py:144-152).
OpensOneSession ==
    /\ \A f, g \in Family :
        f # g /\ family[f].by = family[g].by => family[f].by = None
    /\ \A f \in Family :
        LET by == family[f].by
            here == [to |-> family[f].principal, contact |-> family[f].contact]
        IN  /\ by \in Invitation => sent[by] = here
            /\ by \in Challenge =>
                here = [to |-> challenge[by].to, contact |-> challenge[by].contact]

\* The sign-in links that a deployment makes for a recipient are dated a minute
\* apart, and so a quarter of an hour has fifteen of them at most, however many
\* requests for one wait for the lock, and however long
\* (beneficiary_login.py:37,70-88).
OneLinkAMinute ==
    \A c, d \in Challenge :
        /\ c # d
        /\ challenge[c].state # "unused" /\ challenge[d].state # "unused"
        /\ challenge[c].to = challenge[d].to /\ challenge[c].epoch = challenge[d].epoch
        => \/ challenge[c].at - challenge[d].at >= Minute
           \/ challenge[d].at - challenge[c].at >= Minute

\* What a session, a token, a link and an invitation would be answered now.
TokenWorks(f, n) == Usable(f) /\ n \in DOMAIN family[f].refresh /\ family[f].refresh[n] = "no"
LinkWorks(c) == Redeemable(c) /\ ~Expired(c) /\ challenge[c].epoch = epoch
InvitationWorks(i) == \E b \in Beneficiary : StillInvited(b, i) /\ ~recipient[b].old

\* A credential that was used, revoked or replaced, or has expired, never works
\* again: not by a replay, and not by a database restored from before its use.
DeadStaysDead ==
    [][ /\ \A f \in Family :
            /\ family[f].state # "unused" /\ Usable(f)' => Usable(f)
            /\ \A n \in DOMAIN family[f].refresh : TokenWorks(f, n)' => TokenWorks(f, n)
        /\ \A c \in Challenge : challenge[c].state # "unused" /\ LinkWorks(c)' => LinkWorks(c)
        /\ \A i \in Invitation : sent[i] # None /\ InvitationWorks(i)' => InvitationWorks(i)
      ]_vars
=============================================================================
