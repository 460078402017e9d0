--------------------------- MODULE SessionsProofs ---------------------------
(***************************************************************************)
(* Theorems about Sessions.tla for every set of beneficiaries, credentials *)
(* and concurrent requests and every bound.                                *)
(***************************************************************************)
EXTENDS Sessions, FiniteSetTheorems, SequenceTheorems, TLAPS

-----------------------------------------------------------------------------
(* The inductive invariant                                                 *)

\* A rotation appends the one token that was not used yet.
LastIsUnused(refresh) ==
    /\ Len(refresh) # 0
    /\ refresh[Len(refresh)] = "no"
    /\ \A n \in 1 .. Len(refresh) - 1 : refresh[n] # "no"

\* What is live is of this deployment: a restoration leaves nothing live, and
\* what it lost is of an earlier one.  A family that was not opened has no
\* maker, one that is not live no tokens.
FamiliesAreCurrent ==
    \A f \in Family :
        /\ family[f].state = "unused" => family[f].by = None
        /\ IF family[f].state = "live"
           THEN family[f].epoch = epoch /\ LastIsUnused(family[f].refresh)
           ELSE family[f].refresh = <<>>

ChallengesAreCurrent ==
    \A c \in Challenge :
        /\ challenge[c].state = "live" => challenge[c].epoch = epoch
        /\ challenge[c].state = "unused" <=> challenge[c].to = Owner
        /\ challenge[c].epoch <= epoch
        /\ challenge[c].state = "lost" => challenge[c].epoch < epoch

\* A session is of a row that is accepted at the address it was opened for.
SessionsAreAccepted ==
    \A f \in Family :
        family[f].state = "live" /\ family[f].principal # Owner
        => Accepted(family[f].principal, family[f].contact)

ChallengesAreAccepted ==
    \A c \in Challenge :
        challenge[c].state = "live" => Accepted(challenge[c].to, challenge[c].contact)

\* Who opened a session cannot open another: an invitation that is out and a
\* link that is live have opened none.
MakersAreSpent ==
    \A f \in Family :
        /\ family[f].by \in Invitation =>
            /\ sent[family[f].by] = [to |-> family[f].principal, contact |-> family[f].contact]
            /\ \A b \in Beneficiary : recipient[b].hash # family[f].by
        /\ family[f].by \in Challenge =>
            /\ challenge[family[f].by].state \in {"consumed", "lost"}
            /\ challenge[family[f].by].to = family[f].principal
            /\ challenge[family[f].by].contact = family[f].contact

\* The invitation that a row waits for was sent to it, where it is now.
HashIsOfTheRow ==
    \A b \in Beneficiary :
        recipient[b].hash # None =>
            sent[recipient[b].hash] = [to |-> b, contact |-> recipient[b].contact]

MakersAreDistinct ==
    \A f, g \in Family : f # g /\ family[f].by = family[g].by => family[f].by = None

SessionsInvariant ==
    /\ TypeOK
    /\ FamiliesAreCurrent
    /\ ChallengesAreCurrent
    /\ SessionsAreAccepted
    /\ ChallengesAreAccepted
    /\ MakersAreSpent
    /\ HashIsOfTheRow
    /\ MakersAreDistinct
    /\ OneLinkAMinute

LEMMA InitInvariant == Init => SessionsInvariant
<1> SUFFICES ASSUME Init
             PROVE  SessionsInvariant
  OBVIOUS
<1> USE DEF Init
<1>1. 0 \in Contact /\ 0 \in 0 .. MaxEpoch /\ 0 \in 0 .. MaxNow
  BY ConstantsAssumption DEF Contact
<1>2. Absent \in RecipientRow /\ Absent.hash = None /\ Absent.status = "absent"
  BY <1>1 DEF Absent, RecipientRow
<1>3. /\ NoFamily \in FamilyRow /\ NoFamily.by = None /\ NoFamily.state = "unused"
      /\ NoFamily.refresh = <<>>
  <2>1. <<>> \in Seq({"no", "just", "long"})
    OBVIOUS
  <2> QED
    BY <1>1, <2>1 DEF NoFamily, FamilyRow
<1>4. /\ NoChallenge \in ChallengeRow
      /\ NoChallenge.state = "unused" /\ NoChallenge.to = Owner /\ NoChallenge.epoch = 0
  BY <1>1 DEF NoChallenge, ChallengeRow
<1>5. TypeOK
  BY <1>1, <1>2, <1>3, <1>4 DEF TypeOK, Request
<1>6. FamiliesAreCurrent /\ ChallengesAreCurrent
  BY <1>3, <1>4 DEF FamiliesAreCurrent, ChallengesAreCurrent
<1>7. SessionsAreAccepted /\ ChallengesAreAccepted
  BY <1>3, <1>4 DEF SessionsAreAccepted, ChallengesAreAccepted
<1>8. MakersAreSpent /\ MakersAreDistinct
  BY <1>3, ConstantsAssumption DEF MakersAreSpent, MakersAreDistinct
<1>9. HashIsOfTheRow /\ OneLinkAMinute
  BY <1>2, <1>4 DEF HashIsOfTheRow, OneLinkAMinute
<1> QED
  BY <1>5, <1>6, <1>7, <1>8, <1>9 DEF SessionsInvariant

-----------------------------------------------------------------------------
(* Rows                                                                    *)

LEMMA RevokedRow ==
  ASSUME NEW row \in FamilyRow, row.state # "live" => row.refresh = <<>>
  PROVE  /\ Revoked(row) \in FamilyRow
         /\ Revoked(row).state = IF row.state = "live" THEN "revoked" ELSE row.state
         /\ Revoked(row).principal = row.principal /\ Revoked(row).contact = row.contact
         /\ Revoked(row).epoch = row.epoch /\ Revoked(row).by = row.by
         /\ Revoked(row).refresh = <<>>
<1>1. <<>> \in Seq({"no", "just", "long"})
  OBVIOUS
<1>2. CASE row.state = "live"
  <2> DEFINE none == <<>>
             new == [row EXCEPT !.state = "revoked", !.refresh = none]
  <2>1. none \in Seq({"no", "just", "long"})
    BY <1>1
  <2> HIDE DEF none
  <2>2. /\ new \in FamilyRow
        /\ new.state = "revoked" /\ new.refresh = none
        /\ new.principal = row.principal /\ new.contact = row.contact
        /\ new.epoch = row.epoch /\ new.by = row.by
    BY <2>1 DEF FamilyRow
  <2>3. Revoked(row) = new
    BY <1>2 DEF Revoked, none
  <2> HIDE DEF new
  <2> QED
    BY <1>2, <2>2, <2>3 DEF none
<1>3. CASE row.state # "live"
  BY <1>3 DEF Revoked
<1> QED
  BY <1>2, <1>3

LEMMA ConsumedRow ==
  ASSUME NEW row \in ChallengeRow
  PROVE  /\ Consumed(row) \in ChallengeRow
         /\ Consumed(row).state = IF row.state = "live" THEN "consumed" ELSE row.state
         /\ Consumed(row).to = row.to /\ Consumed(row).contact = row.contact
         /\ Consumed(row).epoch = row.epoch /\ Consumed(row).at = row.at
<1> DEFINE s == IF row.state = "live" THEN "consumed" ELSE row.state
           new == [row EXCEPT !.state = s]
<1>1. s \in {"unused", "live", "consumed", "lost"}
  BY DEF ChallengeRow
<1>2. Consumed(row) = new
  BY DEF Consumed
<1> HIDE DEF s
<1>3. /\ new \in ChallengeRow
      /\ new.state = s /\ new.to = row.to /\ new.contact = row.contact
      /\ new.epoch = row.epoch /\ new.at = row.at
  BY <1>1 DEF ChallengeRow
<1> QED
  BY <1>2, <1>3 DEF s

-----------------------------------------------------------------------------
(* Families                                                                *)

\* A family whose tokens change, or that dies, stays whose it is.
LEMMA FamilyInvariant ==
  ASSUME SessionsInvariant, NEW f \in Family, NEW row \in FamilyRow,
         family' = [family EXCEPT ![f] = row],
         UNCHANGED <<recipient, challenge, sent, epoch, now, request>>,
         row.principal = family[f].principal, row.contact = family[f].contact,
         row.epoch = family[f].epoch, row.by = family[f].by,
         family[f].state = "live",
         \/ row.state = "revoked" /\ row.refresh = <<>>
         \/ row.state = "live" /\ LastIsUnused(row.refresh)
  PROVE  SessionsInvariant'
<1> USE DEF SessionsInvariant
<1>1. family'[f] = row /\ \A g \in Family \ {f} : family'[g] = family[g]
  BY DEF TypeOK
<1>2. TypeOK'
  BY DEF TypeOK
<1>3. FamiliesAreCurrent'
  BY <1>1 DEF FamiliesAreCurrent
<1>4. SessionsAreAccepted'
  BY <1>1 DEF SessionsAreAccepted, Accepted
<1>5. \A g \in Family :
        /\ family'[g].by = family[g].by /\ family'[g].principal = family[g].principal
        /\ family'[g].contact = family[g].contact
  BY <1>1
<1>6. MakersAreSpent' /\ MakersAreDistinct'
  BY <1>5 DEF MakersAreSpent, MakersAreDistinct
<1>7. ChallengesAreCurrent' /\ ChallengesAreAccepted' /\ HashIsOfTheRow' /\ OneLinkAMinute'
  BY DEF ChallengesAreCurrent, ChallengesAreAccepted, Accepted, HashIsOfTheRow, OneLinkAMinute
<1> QED
  BY <1>2, <1>3, <1>4, <1>6, <1>7

LEMMA RevokeFamilyInvariant ==
  ASSUME SessionsInvariant, NEW f \in Family, family[f].state = "live",
         family' = [family EXCEPT ![f] = Revoked(@)],
         UNCHANGED <<recipient, challenge, sent, epoch, now, request>>
  PROVE  SessionsInvariant'
<1>1. family[f] \in FamilyRow /\ (family[f].state # "live" => family[f].refresh = <<>>)
  BY DEF SessionsInvariant, TypeOK, FamiliesAreCurrent
<1>2. /\ Revoked(family[f]) \in FamilyRow /\ Revoked(family[f]).state = "revoked"
      /\ Revoked(family[f]).principal = family[f].principal
      /\ Revoked(family[f]).contact = family[f].contact
      /\ Revoked(family[f]).epoch = family[f].epoch /\ Revoked(family[f]).by = family[f].by
      /\ Revoked(family[f]).refresh = <<>>
  BY <1>1, RevokedRow
<1>3. family' = [family EXCEPT ![f] = Revoked(family[f])]
  OBVIOUS
<1> QED
  BY <1>2, <1>3, FamilyInvariant

\* The tokens change and the rest of the row does not.
LEMMA RefreshInvariant ==
  ASSUME SessionsInvariant, NEW f \in Family, family[f].state = "live",
         NEW refresh \in Seq({"no", "just", "long"}), LastIsUnused(refresh),
         family' = [family EXCEPT ![f].refresh = refresh],
         UNCHANGED <<recipient, challenge, sent, epoch, now, request>>
  PROVE  SessionsInvariant'
<1> DEFINE row == [family[f] EXCEPT !.refresh = refresh]
<1>1. family[f] \in FamilyRow
  BY DEF SessionsInvariant, TypeOK
<1>2. /\ row \in FamilyRow /\ row.state = "live" /\ row.refresh = refresh
      /\ row.principal = family[f].principal /\ row.contact = family[f].contact
      /\ row.epoch = family[f].epoch /\ row.by = family[f].by
  BY <1>1 DEF FamilyRow
<1>3. family' = [family EXCEPT ![f] = row]
  OBVIOUS
<1> HIDE DEF row
<1> QED
  BY <1>2, <1>3, FamilyInvariant

\* Only the last token is unused, so only the last one is rotated.
LEMMA RotatedTokens ==
  ASSUME NEW refresh \in Seq({"no", "just", "long"}), LastIsUnused(refresh),
         NEW n \in DOMAIN refresh, refresh[n] = "no"
  PROVE  /\ Rotated(refresh, n) \in Seq({"no", "just", "long"})
         /\ LastIsUnused(Rotated(refresh, n))
<1> DEFINE used == [refresh EXCEPT ![n] = "just"]
<1>1. Len(refresh) \in Nat /\ n \in 1 .. Len(refresh) /\ n = Len(refresh)
  BY DEF LastIsUnused
<1>2. /\ used \in Seq({"no", "just", "long"}) /\ Len(used) = Len(refresh)
      /\ \A m \in 1 .. Len(used) : used[m] # "no"
  BY <1>1 DEF LastIsUnused
<1>3. Rotated(refresh, n) = Append(used, "no")
  BY DEF Rotated
<1> HIDE DEF used
<1>4. /\ Append(used, "no") \in Seq({"no", "just", "long"})
      /\ Len(Append(used, "no")) = Len(used) + 1
      /\ Append(used, "no")[Len(used) + 1] = "no"
      /\ \A m \in 1 .. Len(used) : Append(used, "no")[m] = used[m]
  BY <1>2, AppendProperties
<1> QED
  BY <1>1, <1>2, <1>3, <1>4 DEF LastIsUnused

LEMMA AgedTokens ==
  ASSUME NEW refresh \in Seq({"no", "just", "long"}), LastIsUnused(refresh),
         NEW n \in DOMAIN refresh, refresh[n] = "just"
  PROVE  /\ [refresh EXCEPT ![n] = "long"] \in Seq({"no", "just", "long"})
         /\ LastIsUnused([refresh EXCEPT ![n] = "long"])
<1> DEFINE aged == [refresh EXCEPT ![n] = "long"]
<1>1. Len(refresh) \in Nat /\ n \in 1 .. Len(refresh) /\ n # Len(refresh)
  BY DEF LastIsUnused
<1>2. /\ aged \in Seq({"no", "just", "long"}) /\ Len(aged) = Len(refresh)
      /\ \A m \in 1 .. Len(refresh) : m # n => aged[m] = refresh[m]
      /\ aged[n] = "long"
  BY <1>1
<1> HIDE DEF aged
<1>3. LastIsUnused(aged)
  BY <1>1, <1>2 DEF LastIsUnused
<1> QED
  BY <1>2, <1>3 DEF aged

LEMMA IssuedRow ==
  ASSUME SessionsInvariant, NEW f \in Family, NEW principal \in Beneficiary \cup {Owner},
         NEW contact \in Contact, NEW by \in Challenge \cup Invitation \cup {None},
         Issue(f, principal, contact, by)
  PROVE  /\ family[f].by = None
         /\ family' \in [Family -> FamilyRow]
         /\ family'[f].state = "live" /\ family'[f].principal = principal
         /\ family'[f].contact = contact /\ family'[f].epoch = epoch
         /\ family'[f].by = by /\ LastIsUnused(family'[f].refresh)
         /\ \A g \in Family \ {f} : family'[g] = family[g]
<1> DEFINE one == <<"no">>
           row == [state |-> "live", principal |-> principal, contact |-> contact,
                   epoch |-> epoch, by |-> by, refresh |-> one]
<1>1. one \in Seq({"no", "just", "long"}) /\ LastIsUnused(one)
  BY DEF LastIsUnused
<1>2. family' = [family EXCEPT ![f] = row] /\ family[f].state = "unused"
  BY DEF Issue
<1> HIDE DEF one
<1>3. row \in FamilyRow
  BY <1>1 DEF SessionsInvariant, TypeOK, FamilyRow
<1>4. family \in [Family -> FamilyRow]
  BY DEF SessionsInvariant, TypeOK
<1>5. family'[f] = row /\ \A g \in Family \ {f} : family'[g] = family[g]
  BY <1>2, <1>4
<1>6. family' \in [Family -> FamilyRow]
  BY <1>2, <1>3, <1>4
<1> QED
  BY <1>1, <1>2, <1>5, <1>6 DEF SessionsInvariant, FamiliesAreCurrent

\* The owner's families have no maker.
LEMMA LoginInvariant ==
  ASSUME SessionsInvariant, NEW f \in Family, Login(f)
  PROVE  SessionsInvariant'
<1> USE DEF SessionsInvariant
<1>1. UNCHANGED <<recipient, challenge, sent, epoch, now, request>> /\ Issue(f, Owner, 0, None)
  BY DEF Login
<1>2. 0 \in Contact
  BY ConstantsAssumption DEF Contact
<1>3. /\ family[f].by = None
      /\ family' \in [Family -> FamilyRow]
      /\ family'[f].state = "live" /\ family'[f].principal = Owner
      /\ family'[f].contact = 0 /\ family'[f].epoch = epoch
      /\ family'[f].by = None /\ LastIsUnused(family'[f].refresh)
      /\ \A g \in Family \ {f} : family'[g] = family[g]
  BY <1>1, <1>2, IssuedRow
<1>4. TypeOK'
  BY <1>1, <1>3 DEF TypeOK
<1>5. FamiliesAreCurrent' /\ SessionsAreAccepted'
  BY <1>1, <1>3 DEF FamiliesAreCurrent, SessionsAreAccepted, Accepted
<1>6. MakersAreSpent' /\ MakersAreDistinct'
  BY <1>1, <1>3, ConstantsAssumption DEF MakersAreSpent, MakersAreDistinct
<1>7. ChallengesAreCurrent' /\ ChallengesAreAccepted' /\ HashIsOfTheRow' /\ OneLinkAMinute'
  BY <1>1 DEF ChallengesAreCurrent, ChallengesAreAccepted, Accepted, HashIsOfTheRow,
     OneLinkAMinute
<1> QED
  BY <1>4, <1>5, <1>6, <1>7

LEMMA UseSessionInvariant ==
  ASSUME SessionsInvariant, UseSession
  PROVE  SessionsInvariant'
<1>1. ASSUME NEW f \in Family, NEW n \in 1 .. MaxTokens, Rotate(f, n)
      PROVE  SessionsInvariant'
  <2>1. /\ family[f].state = "live" /\ n \in DOMAIN family[f].refresh
        /\ family[f].refresh[n] = "no"
        /\ family' = [family EXCEPT ![f].refresh = Rotated(family[f].refresh, n)]
        /\ UNCHANGED <<recipient, challenge, sent, epoch, now, request>>
    BY <1>1 DEF Rotate, Usable, ValidFamily
  <2>2. /\ family[f].refresh \in Seq({"no", "just", "long"})
        /\ LastIsUnused(family[f].refresh)
    BY <2>1 DEF SessionsInvariant, TypeOK, FamilyRow, FamiliesAreCurrent
  <2> QED
    BY <2>1, <2>2, RotatedTokens, RefreshInvariant
<1>2. ASSUME NEW f \in Family, NEW n \in 1 .. MaxTokens, DetectReuse(f, n)
      PROVE  SessionsInvariant'
  BY <1>2, RevokeFamilyInvariant DEF DetectReuse, Usable, ValidFamily
<1>3. ASSUME NEW f \in Family, Logout(f) \/ SignOut(f)
      PROVE  SessionsInvariant'
  BY <1>3, RevokeFamilyInvariant DEF Logout, SignOut, RevokeCookie
<1> QED
  BY <1>1, <1>2, <1>3, LoginInvariant DEF UseSession

-----------------------------------------------------------------------------
(* Time                                                                    *)

LEMMA TickInvariant ==
  ASSUME SessionsInvariant, Tick
  PROVE  SessionsInvariant'
<1>1. now' \in 0 .. MaxNow /\ UNCHANGED <<recipient, family, challenge, sent, epoch, request>>
  BY ConstantsAssumption DEF Tick, SessionsInvariant, TypeOK
<1> QED
  BY <1>1 DEF SessionsInvariant, TypeOK, FamiliesAreCurrent, ChallengesAreCurrent,
     SessionsAreAccepted, ChallengesAreAccepted, Accepted, MakersAreSpent, HashIsOfTheRow,
     MakersAreDistinct, OneLinkAMinute

LEMMA AgeInvitationInvariant ==
  ASSUME SessionsInvariant, NEW b \in Beneficiary, AgeInvitation(b),
         UNCHANGED <<sent, epoch, now, request>>
  PROVE  SessionsInvariant'
<1> USE DEF SessionsInvariant
<1>1. /\ recipient' = [recipient EXCEPT ![b].old = TRUE]
      /\ recipient \in [Beneficiary -> RecipientRow] /\ UNCHANGED <<family, challenge>>
  BY DEF AgeInvitation, TypeOK
<1>2. /\ recipient' \in [Beneficiary -> RecipientRow]
      /\ \A c \in Beneficiary :
           /\ recipient'[c].status = recipient[c].status
           /\ recipient'[c].contact = recipient[c].contact
           /\ recipient'[c].hash = recipient[c].hash
  BY <1>1 DEF RecipientRow
<1>3. TypeOK'
  BY <1>1, <1>2 DEF TypeOK
<1>4. SessionsAreAccepted' /\ ChallengesAreAccepted'
  <2>1. \A f \in Family : family[f].principal # Owner => family[f].principal \in Beneficiary
    BY DEF TypeOK, FamilyRow
  <2>2. \A c \in Challenge : challenge[c].state = "live" => challenge[c].to \in Beneficiary
    BY DEF TypeOK, ChallengeRow, ChallengesAreCurrent
  <2> QED
    BY <1>1, <1>2, <2>1, <2>2 DEF SessionsAreAccepted, ChallengesAreAccepted, Accepted
<1>5. MakersAreSpent' /\ HashIsOfTheRow'
  BY <1>1, <1>2 DEF MakersAreSpent, HashIsOfTheRow
<1>6. FamiliesAreCurrent' /\ ChallengesAreCurrent' /\ MakersAreDistinct' /\ OneLinkAMinute'
  BY <1>1 DEF FamiliesAreCurrent, ChallengesAreCurrent, MakersAreDistinct, OneLinkAMinute
<1> QED
  BY <1>3, <1>4, <1>5, <1>6

LEMMA AgeInvariant ==
  ASSUME SessionsInvariant, Age
  PROVE  SessionsInvariant'
<1>1. ASSUME NEW f \in Family, NEW n \in 1 .. MaxTokens, AgeToken(f, n),
             UNCHANGED <<sent, epoch, now, request>>
      PROVE  SessionsInvariant'
  <2>1. /\ family[f].refresh \in Seq({"no", "just", "long"})
        /\ LastIsUnused(family[f].refresh)
    BY <1>1 DEF SessionsInvariant, TypeOK, FamilyRow, FamiliesAreCurrent, AgeToken
  <2> DEFINE aged == [family[f].refresh EXCEPT ![n] = "long"]
  <2>2. aged \in Seq({"no", "just", "long"}) /\ LastIsUnused(aged)
    BY <1>1, <2>1, AgedTokens DEF AgeToken
  <2>3. family' = [family EXCEPT ![f].refresh = aged]
    BY <1>1 DEF AgeToken
  <2> HIDE DEF aged
  <2> QED
    BY <1>1, <2>2, <2>3, RefreshInvariant DEF AgeToken
<1>2. ASSUME NEW f \in Family, AgeFamily(f), UNCHANGED <<sent, epoch, now, request>>
      PROVE  SessionsInvariant'
  BY <1>2, RevokeFamilyInvariant DEF AgeFamily
<1> QED
  BY <1>1, <1>2, AgeInvitationInvariant DEF Age

-----------------------------------------------------------------------------
(* Requests                                                                *)

LEMMA RequestInvariant ==
  ASSUME SessionsInvariant, NEW p \in Process, NEW what \in Request,
         request' = [request EXCEPT ![p] = what],
         UNCHANGED <<recipient, family, challenge, sent, epoch, now>>
  PROVE  SessionsInvariant'
<1> USE DEF SessionsInvariant
<1>1. TypeOK'
  BY DEF TypeOK
<1> QED
  BY <1>1 DEF FamiliesAreCurrent, ChallengesAreCurrent, SessionsAreAccepted,
     ChallengesAreAccepted, Accepted, MakersAreSpent, MakersAreDistinct, HashIsOfTheRow,
     OneLinkAMinute

LEMMA GiveInvariant ==
  ASSUME SessionsInvariant, NEW p \in Process, Give(p)
  PROVE  SessionsInvariant'
<1>1. Idle \in Request
  BY DEF Request
<1> QED
  BY <1>1, RequestInvariant DEF Give, End

LEMMA BeginInvariant ==
  ASSUME SessionsInvariant, NEW p \in Process,
         \/ \E b \in Beneficiary : BeginAccept(p, b) \/ BeginLink(p, b)
         \/ \E c \in Challenge : BeginRedeem(p, c)
         \/ \E f \in Family : BeginSignOutEverywhere(p, f)
  PROVE  SessionsInvariant'
<1> USE DEF Start
<1>1. ASSUME NEW b \in Beneficiary, BeginAccept(p, b)
      PROVE  SessionsInvariant'
  <2> DEFINE what == [op |-> "accept", to |-> b, with |-> recipient[b].hash]
  <2>1. what \in Request
    BY <1>1 DEF BeginAccept, SessionsInvariant, TypeOK, RecipientRow, Request
  <2> HIDE DEF what
  <2> QED
    BY <1>1, <2>1, RequestInvariant DEF BeginAccept, what
<1>2. ASSUME NEW b \in Beneficiary, BeginLink(p, b)
      PROVE  SessionsInvariant'
  <2> DEFINE what == [op |-> "link", to |-> b, contact |-> recipient[b].contact,
                      at |-> now]
  <2>1. what \in Request
    BY DEF SessionsInvariant, TypeOK, RecipientRow, Request
  <2> HIDE DEF what
  <2> QED
    BY <1>2, <2>1, RequestInvariant DEF BeginLink, what
<1>3. ASSUME NEW c \in Challenge, BeginRedeem(p, c)
      PROVE  SessionsInvariant'
  <2> DEFINE what == [op |-> "redeem", with |-> c]
  <2>1. what \in Request
    BY DEF Request
  <2> HIDE DEF what
  <2> QED
    BY <1>3, <2>1, RequestInvariant DEF BeginRedeem, what
<1>4. ASSUME NEW f \in Family, BeginSignOutEverywhere(p, f)
      PROVE  SessionsInvariant'
  <2> DEFINE what == [op |-> "signout", to |-> family[f].principal]
  <2>1. what \in Request
    BY <1>4 DEF BeginSignOutEverywhere, SessionsInvariant, TypeOK, FamilyRow, Request
  <2> HIDE DEF what
  <2> QED
    BY <1>4, <2>1, RequestInvariant DEF BeginSignOutEverywhere, what
<1> QED
  BY <1>1, <1>2, <1>3, <1>4

LEMMA EndType ==
  ASSUME SessionsInvariant, NEW p \in Process, End(p)
  PROVE  request' \in [Process -> Request]
<1>1. Idle \in Request
  BY DEF Request
<1> QED
  BY <1>1 DEF End, SessionsInvariant, TypeOK

\* Of what a row said before it was accepted nothing is left alive.
LEMMA AcceptInvariant ==
  ASSUME SessionsInvariant, NEW p \in Process, FinishAccept(p)
  PROVE  SessionsInvariant'
<1> USE DEF SessionsInvariant
<1> DEFINE b == request[p].to
           i == request[p].with
<1>1. b \in Beneficiary /\ i \in Invitation
  <2>1. request[p] \in Request /\ request[p].op = "accept"
    BY DEF TypeOK, FinishAccept
  <2> QED
    BY <2>1 DEF Request, Idle
<1>2. \/ /\ StillInvited(b, i) /\ ~recipient[b].old
         /\ recipient' = [recipient EXCEPT ![b].status = "accepted", ![b].hash = None]
         /\ \E f \in Family : Issue(f, b, recipient[b].contact, i)
         /\ End(p)
         /\ UNCHANGED <<challenge, sent, epoch, now>>
      \/ /\ StillInvited(b, i) /\ recipient[b].old
         /\ recipient' = [recipient EXCEPT ![b].status = "expired"]
         /\ End(p)
         /\ UNCHANGED <<family, challenge, sent, epoch, now>>
      \/ ~StillInvited(b, i) /\ Give(p)
  BY DEF FinishAccept
<1> HIDE DEF b, i
<1>3. /\ recipient \in [Beneficiary -> RecipientRow]
      /\ \A f \in Family : family[f].principal # Owner => family[f].principal \in Beneficiary
      /\ \A c \in Challenge : challenge[c].state = "live" => challenge[c].to \in Beneficiary
  BY DEF TypeOK, FamilyRow, ChallengeRow, ChallengesAreCurrent
<1>4. CASE ~StillInvited(b, i) /\ Give(p)
  BY <1>4, GiveInvariant
<1>5. ASSUME StillInvited(b, i)
      PROVE  /\ \A f \in Family : family[f].state = "live" => family[f].principal # b
             /\ \A c \in Challenge : challenge[c].state = "live" => challenge[c].to # b
             /\ sent[i] = [to |-> b, contact |-> recipient[b].contact]
             /\ i # None /\ recipient[b].contact \in Contact
  <2>1. recipient[b].status = "sent" /\ recipient[b].hash = i
    BY <1>5 DEF StillInvited
  <2>2. b # Owner /\ i # None
    BY <1>1, ConstantsAssumption
  <2>3. \A f \in Family : family[f].state = "live" => family[f].principal # b
    BY <2>1, <2>2 DEF SessionsAreAccepted, Accepted
  <2>4. \A c \in Challenge : challenge[c].state = "live" => challenge[c].to # b
    BY <2>1 DEF ChallengesAreAccepted, Accepted
  <2>5. sent[i] = [to |-> b, contact |-> recipient[b].contact]
    BY <1>1, <2>1, <2>2 DEF HashIsOfTheRow
  <2>6. recipient[b].contact \in Contact
    BY <1>1, <1>3 DEF RecipientRow
  <2> QED
    BY <2>2, <2>3, <2>4, <2>5, <2>6
<1>6. CASE /\ StillInvited(b, i)
           /\ recipient' = [recipient EXCEPT ![b].status = "expired"]
           /\ End(p)
           /\ UNCHANGED <<family, challenge, sent, epoch, now>>
  <2>1. /\ recipient' \in [Beneficiary -> RecipientRow]
        /\ recipient'[b].status = "expired" /\ recipient'[b].hash = recipient[b].hash
        /\ recipient'[b].contact = recipient[b].contact
        /\ \A c \in Beneficiary \ {b} : recipient'[c] = recipient[c]
    BY <1>1, <1>3, <1>6 DEF RecipientRow
  <2>2. request' \in [Process -> Request]
    BY <1>6, EndType
  <2>3. recipient[b].status = "sent"
    BY <1>6 DEF StillInvited
  <2>4. TypeOK'
    BY <1>1, <1>6, <2>1, <2>2, <2>3 DEF TypeOK
  <2>5. SessionsAreAccepted' /\ ChallengesAreAccepted'
    BY <1>3, <1>5, <1>6, <2>1 DEF SessionsAreAccepted, ChallengesAreAccepted, Accepted
  <2>6. MakersAreSpent' /\ HashIsOfTheRow'
    BY <1>1, <1>6, <2>1 DEF MakersAreSpent, HashIsOfTheRow
  <2> QED
    BY <1>6, <2>4, <2>5, <2>6 DEF FamiliesAreCurrent, ChallengesAreCurrent,
       MakersAreDistinct, OneLinkAMinute
<1>7. CASE /\ StillInvited(b, i)
           /\ recipient' = [recipient EXCEPT ![b].status = "accepted", ![b].hash = None]
           /\ \E f \in Family : Issue(f, b, recipient[b].contact, i)
           /\ End(p)
           /\ UNCHANGED <<challenge, sent, epoch, now>>
  <2>1. PICK f \in Family : Issue(f, b, recipient[b].contact, i)
    BY <1>7
  <2>2. /\ family[f].by = None
        /\ family' \in [Family -> FamilyRow]
        /\ family'[f].state = "live" /\ family'[f].principal = b
        /\ family'[f].contact = recipient[b].contact /\ family'[f].epoch = epoch
        /\ family'[f].by = i /\ LastIsUnused(family'[f].refresh)
        /\ \A g \in Family \ {f} : family'[g] = family[g]
    BY <1>1, <1>5, <1>7, <2>1, IssuedRow
  <2>3. /\ recipient' \in [Beneficiary -> RecipientRow]
        /\ recipient'[b].status = "accepted" /\ recipient'[b].hash = None
        /\ recipient'[b].contact = recipient[b].contact
        /\ \A c \in Beneficiary \ {b} : recipient'[c] = recipient[c]
    BY <1>1, <1>3, <1>7 DEF RecipientRow
  <2>4. request' \in [Process -> Request]
    BY <1>7, EndType
  <2>5. recipient[b].hash = i
    BY <1>7 DEF StillInvited
  <2>6. ASSUME NEW c \in Beneficiary, recipient[c].hash = i
        PROVE  c = b
    <3>1. sent[i] = [to |-> c, contact |-> recipient[c].contact]
      BY <1>1, <1>5, <1>7, <2>6 DEF HashIsOfTheRow
    <3>2. sent[i].to = c
      BY <3>1
    <3>3. sent[i].to = b
      BY <1>5, <1>7
    <3> QED
      BY <3>2, <3>3
  <2>7. \A g \in Family : family[g].by # i
    BY <1>1, <2>5 DEF MakersAreSpent
  <2>8. TypeOK'
    BY <1>1, <1>7, <2>2, <2>3, <2>4 DEF TypeOK
  <2>9. FamiliesAreCurrent'
    BY <1>7, <2>2 DEF FamiliesAreCurrent
  <2>10. SessionsAreAccepted' /\ ChallengesAreAccepted'
    BY <1>3, <1>5, <1>7, <2>2, <2>3 DEF SessionsAreAccepted, ChallengesAreAccepted, Accepted
  <2>11. MakersAreSpent'
    BY <1>1, <1>5, <1>7, <2>2, <2>3, <2>5, <2>6, ConstantsAssumption DEF MakersAreSpent
  <2>12. MakersAreDistinct'
    BY <2>2, <2>7 DEF MakersAreDistinct
  <2>13. HashIsOfTheRow'
    BY <1>1, <1>7, <2>3 DEF HashIsOfTheRow
  <2> QED
    BY <1>7, <2>8, <2>9, <2>10, <2>11, <2>12, <2>13 DEF ChallengesAreCurrent, OneLinkAMinute
<1> QED
  BY <1>2, <1>4, <1>6, <1>7

\* Whatever came while the request waited for the lock, what is in the database
\* is a minute older than the link that it writes.
LEMMA LinkInvariant ==
  ASSUME SessionsInvariant, NEW p \in Process, FinishLink(p)
  PROVE  SessionsInvariant'
<1> USE DEF SessionsInvariant
<1> DEFINE b == request[p].to
           at == request[p].at
<1>1. b \in Beneficiary /\ b # Owner /\ at \in 0 .. MaxNow
  <2>1. request[p] \in Request /\ request[p].op = "link"
    BY DEF TypeOK, FinishLink
  <2> QED
    BY <2>1, ConstantsAssumption DEF Request, Idle
<1>2. \/ /\ MayChallenge(request[p])
         /\ \E c \in Challenge :
               /\ challenge[c].state = "unused"
               /\ challenge' = [challenge EXCEPT ![c] =
                   [state |-> "live", to |-> b, contact |-> recipient[b].contact,
                    epoch |-> epoch, at |-> at]]
         /\ End(p)
         /\ UNCHANGED <<recipient, family, sent, epoch, now>>
      \/ Give(p)
  BY DEF FinishLink
<1>3. MayChallenge(request[p]) =>
        /\ recipient[b].status = "accepted"
        /\ \A c \in Challenge : challenge[c].to = b /\ challenge[c].state # "lost"
             => at - challenge[c].at >= Minute
  BY DEF MayChallenge, Accepted, ChallengesOf
<1> HIDE DEF b, at
<1>4. ASSUME MayChallenge(request[p]), End(p), UNCHANGED <<recipient, family, sent, epoch, now>>,
             NEW c \in Challenge, challenge[c].state = "unused",
             challenge' = [challenge EXCEPT ![c] =
                 [state |-> "live", to |-> b, contact |-> recipient[b].contact,
                  epoch |-> epoch, at |-> at]]
      PROVE  SessionsInvariant'
  <2> DEFINE row == [state |-> "live", to |-> b, contact |-> recipient[b].contact,
                     epoch |-> epoch, at |-> at]
  <2>1. row \in ChallengeRow
    BY <1>1 DEF TypeOK, RecipientRow, ChallengeRow
  <2>2. /\ row.state = "live" /\ row.to = b /\ row.contact = recipient[b].contact
        /\ row.epoch = epoch /\ row.at = at
    OBVIOUS
  <2>3. challenge' = [challenge EXCEPT ![c] = row]
    BY <1>4
  <2> HIDE DEF row
  <2>4. /\ challenge' \in [Challenge -> ChallengeRow] /\ challenge'[c] = row
        /\ \A d \in Challenge \ {c} : challenge'[d] = challenge[d]
    BY <2>1, <2>3 DEF TypeOK
  <2>5. request' \in [Process -> Request]
    BY <1>4, EndType
  <2>6. TypeOK'
    BY <1>4, <2>4, <2>5 DEF TypeOK
  <2>7. ChallengesAreCurrent'
    <3>1. epoch \in Nat
      BY DEF TypeOK
    <3> QED
      BY <1>1, <1>4, <2>2, <2>4, <3>1 DEF ChallengesAreCurrent
  <2>8. ChallengesAreAccepted'
    BY <1>3, <1>4, <2>2, <2>4 DEF ChallengesAreAccepted, Accepted
  <2>9. MakersAreSpent'
    <3>1. \A f \in Family : family[f].by # c
      BY <1>4 DEF MakersAreSpent
    <3> QED
      BY <1>4, <2>4, <3>1 DEF MakersAreSpent
  <2>10. OneLinkAMinute'
    <3>1. ASSUME NEW d \in Challenge \ {c}, challenge[d].state # "unused",
                 challenge[d].to = b, challenge[d].epoch = epoch
          PROVE  row.at - challenge[d].at >= Minute
      <4>1. challenge[d].state # "lost"
        BY <3>1 DEF ChallengesAreCurrent, TypeOK
      <4> QED
        BY <1>3, <1>4, <2>2, <3>1, <4>1
    <3> QED
      BY <2>2, <2>4, <3>1 DEF OneLinkAMinute
  <2>11. FamiliesAreCurrent' /\ SessionsAreAccepted' /\ MakersAreDistinct' /\ HashIsOfTheRow'
    BY <1>4 DEF FamiliesAreCurrent, SessionsAreAccepted, Accepted, MakersAreDistinct,
       HashIsOfTheRow
  <2> QED
    BY <2>6, <2>7, <2>8, <2>9, <2>10, <2>11
<1> QED
  BY <1>2, <1>4, GiveInvariant

\* A link that is live has opened no session, and is consumed when it opens one.
LEMMA RedeemInvariant ==
  ASSUME SessionsInvariant, NEW p \in Process, FinishRedeem(p)
  PROVE  SessionsInvariant'
<1> USE DEF SessionsInvariant
<1> DEFINE c == request[p].with
           b == challenge[c].to
<1>1. c \in Challenge
  <2>1. request[p] \in Request /\ request[p].op = "redeem"
    BY DEF TypeOK, FinishRedeem
  <2> QED
    BY <2>1 DEF Request, Idle
<1>2. \/ /\ Redeemable(c)
         /\ challenge' = [challenge EXCEPT ![c].state = "consumed"]
         /\ \E f \in Family : Issue(f, b, challenge[c].contact, c)
         /\ End(p)
         /\ UNCHANGED <<recipient, sent, epoch, now>>
      \/ Give(p)
  BY DEF FinishRedeem
<1> HIDE DEF c
<1>3. challenge[c] \in ChallengeRow
  BY <1>1 DEF TypeOK
<1>4. ASSUME Redeemable(c), challenge' = [challenge EXCEPT ![c].state = "consumed"],
             End(p), UNCHANGED <<recipient, sent, epoch, now>>,
             NEW f \in Family, Issue(f, b, challenge[c].contact, c)
      PROVE  SessionsInvariant'
  <2>1. /\ challenge[c].state = "live" /\ Accepted(b, challenge[c].contact) /\ b # Owner
        /\ b \in Beneficiary \cup {Owner} /\ challenge[c].contact \in Contact
    BY <1>1, <1>3, <1>4 DEF Redeemable, ChallengesAreCurrent, ChallengeRow
  <2>2. /\ challenge' \in [Challenge -> ChallengeRow]
        /\ challenge'[c].state = "consumed" /\ challenge'[c].to = b
        /\ challenge'[c].contact = challenge[c].contact
        /\ challenge'[c].epoch = challenge[c].epoch /\ challenge'[c].at = challenge[c].at
        /\ \A d \in Challenge \ {c} : challenge'[d] = challenge[d]
    BY <1>1, <1>3, <1>4 DEF TypeOK, ChallengeRow
  <2> DEFINE contact == challenge[c].contact
  <2> HIDE DEF b, contact
  <2>3. /\ family[f].by = None
        /\ family' \in [Family -> FamilyRow]
        /\ family'[f].state = "live" /\ family'[f].principal = b
        /\ family'[f].contact = contact /\ family'[f].epoch = epoch
        /\ family'[f].by = c /\ LastIsUnused(family'[f].refresh)
        /\ \A g \in Family \ {f} : family'[g] = family[g]
    <3>1. Issue(f, b, contact, c) /\ contact \in Contact /\ b \in Beneficiary \cup {Owner}
      BY <1>4, <2>1 DEF contact
    <3>2. c \in Challenge \cup Invitation \cup {None}
      BY <1>1
    <3> QED
      BY ONLY SessionsInvariant, f \in Family, <3>1, <3>2, IssuedRow
  <2>4. request' \in [Process -> Request]
    BY <1>4, EndType
  <2>5. \A g \in Family : family[g].by # c
    BY <1>1, <2>1 DEF MakersAreSpent
  <2>6. TypeOK'
    BY <1>4, <2>2, <2>3, <2>4 DEF TypeOK
  <2>7. FamiliesAreCurrent'
    BY <1>4, <2>3 DEF FamiliesAreCurrent
  <2>8. ChallengesAreCurrent' /\ ChallengesAreAccepted'
    <3>1. challenge[c].to # Owner
      BY <2>1 DEF b
    <3>2. challenge'[c].to # Owner
      BY <2>1, <2>2
    <3> QED
      BY <1>4, <2>2, <3>2 DEF ChallengesAreCurrent, ChallengesAreAccepted, Accepted
  <2>9. SessionsAreAccepted'
    BY <1>4, <2>1, <2>3 DEF SessionsAreAccepted, Accepted, contact
  <2>10. MakersAreSpent'
    <3>1. c \notin Invitation
      BY <1>1, ConstantsAssumption
    <3>2. challenge'[c].contact = contact
      BY <2>2 DEF contact
    <3>3. ASSUME NEW g \in Family \ {f}
          PROVE  family'[g] = family[g] /\ family[g].by # c
      BY <2>3, <2>5
    <3> QED
      BY <1>1, <1>4, <2>2, <2>3, <3>1, <3>2, <3>3 DEF MakersAreSpent
  <2>11. MakersAreDistinct'
    BY <2>3, <2>5 DEF MakersAreDistinct
  <2>12. OneLinkAMinute'
    <3>1. \A d \in Challenge :
            /\ challenge'[d].at = challenge[d].at /\ challenge'[d].to = challenge[d].to
            /\ challenge'[d].epoch = challenge[d].epoch
            /\ challenge'[d].state = "unused" <=> challenge[d].state = "unused"
      BY <2>1, <2>2 DEF b
    <3> QED
      BY <3>1 DEF OneLinkAMinute
  <2>13. HashIsOfTheRow'
    BY <1>4 DEF HashIsOfTheRow
  <2> QED
    BY <2>6, <2>7, <2>8, <2>9, <2>10, <2>11, <2>12, <2>13
<1> QED
  BY <1>2, <1>4, GiveInvariant

-----------------------------------------------------------------------------
(* Beneficiaries                                                           *)

LEMMA RevokeStep ==
  ASSUME SessionsInvariant, NEW b \in Beneficiary, RevokeBeneficiary(b)
  PROVE  /\ family' \in [Family -> FamilyRow] /\ challenge' \in [Challenge -> ChallengeRow]
         /\ \A f \in Family :
              /\ family'[f].principal = family[f].principal
              /\ family'[f].contact = family[f].contact
              /\ family'[f].epoch = family[f].epoch /\ family'[f].by = family[f].by
              /\ family[f].principal # b => family'[f] = family[f]
              /\ family[f].principal = b =>
                   /\ family'[f].state = IF family[f].state = "live" THEN "revoked"
                                         ELSE family[f].state
                   /\ family'[f].refresh = <<>>
         /\ \A c \in Challenge :
              /\ challenge'[c].to = challenge[c].to
              /\ challenge'[c].contact = challenge[c].contact
              /\ challenge'[c].epoch = challenge[c].epoch
              /\ challenge'[c].at = challenge[c].at
              /\ challenge[c].to # b => challenge'[c] = challenge[c]
              /\ challenge[c].to = b =>
                   challenge'[c].state = IF challenge[c].state = "live" THEN "consumed"
                                         ELSE challenge[c].state
<1>1. \A f \in Family :
        /\ family[f] \in FamilyRow
        /\ family[f].state # "live" => family[f].refresh = <<>>
  BY DEF SessionsInvariant, TypeOK, FamiliesAreCurrent
<1>2. \A c \in Challenge : challenge[c] \in ChallengeRow
  BY DEF SessionsInvariant, TypeOK
<1>3. family' = [f \in Family |->
                   IF family[f].principal = b THEN Revoked(family[f]) ELSE family[f]]
  BY DEF RevokeBeneficiary, WithoutSessions
<1>4. challenge' = [c \in Challenge |->
                      IF challenge[c].to = b THEN Consumed(challenge[c]) ELSE challenge[c]]
  BY DEF RevokeBeneficiary
<1>5. ASSUME NEW f \in Family
      PROVE  /\ Revoked(family[f]) \in FamilyRow
             /\ Revoked(family[f]).state =
                  IF family[f].state = "live" THEN "revoked" ELSE family[f].state
             /\ Revoked(family[f]).principal = family[f].principal
             /\ Revoked(family[f]).contact = family[f].contact
             /\ Revoked(family[f]).epoch = family[f].epoch
             /\ Revoked(family[f]).by = family[f].by
             /\ Revoked(family[f]).refresh = <<>>
  BY <1>1, RevokedRow
<1>6. ASSUME NEW c \in Challenge
      PROVE  /\ Consumed(challenge[c]) \in ChallengeRow
             /\ Consumed(challenge[c]).state =
                  IF challenge[c].state = "live" THEN "consumed" ELSE challenge[c].state
             /\ Consumed(challenge[c]).to = challenge[c].to
             /\ Consumed(challenge[c]).contact = challenge[c].contact
             /\ Consumed(challenge[c]).epoch = challenge[c].epoch
             /\ Consumed(challenge[c]).at = challenge[c].at
  BY <1>2, ConsumedRow
<1>7. ASSUME NEW f \in Family
      PROVE  family'[f] = IF family[f].principal = b THEN Revoked(family[f]) ELSE family[f]
  BY <1>3
<1>8. ASSUME NEW c \in Challenge
      PROVE  challenge'[c] = IF challenge[c].to = b THEN Consumed(challenge[c])
                             ELSE challenge[c]
  BY <1>4
<1>9. family' \in [Family -> FamilyRow]
  BY <1>1, <1>3, <1>5
<1>10. challenge' \in [Challenge -> ChallengeRow]
  BY <1>2, <1>4, <1>6
<1>11. ASSUME NEW f \in Family
       PROVE  /\ family'[f].principal = family[f].principal
              /\ family'[f].contact = family[f].contact
              /\ family'[f].epoch = family[f].epoch /\ family'[f].by = family[f].by
              /\ family[f].principal # b => family'[f] = family[f]
              /\ family[f].principal = b =>
                   /\ family'[f].state = IF family[f].state = "live" THEN "revoked"
                                         ELSE family[f].state
                   /\ family'[f].refresh = <<>>
  BY <1>5, <1>7
<1>12. ASSUME NEW c \in Challenge
       PROVE  /\ challenge'[c].to = challenge[c].to
              /\ challenge'[c].contact = challenge[c].contact
              /\ challenge'[c].epoch = challenge[c].epoch
              /\ challenge'[c].at = challenge[c].at
              /\ challenge[c].to # b => challenge'[c] = challenge[c]
              /\ challenge[c].to = b =>
                   challenge'[c].state = IF challenge[c].state = "live" THEN "consumed"
                                         ELSE challenge[c].state
  BY <1>6, <1>8
<1> QED
  BY <1>9, <1>10, <1>11, <1>12

\* The row may change in any way once nothing is left alive of it, if it waits
\* for no invitation that was used or is another's.
LEMMA RevokeInvariant ==
  ASSUME SessionsInvariant, NEW b \in Beneficiary, RevokeBeneficiary(b),
         NEW row \in RecipientRow, recipient' = [recipient EXCEPT ![b] = row],
         row.hash # None <=> row.status \in {"sent", "expired"},
         row.hash # None =>
           /\ sent'[row.hash] = [to |-> b, contact |-> row.contact]
           /\ \A f \in Family : family[f].by # row.hash,
         sent' \in [Invitation -> {None} \cup [to : Beneficiary, contact : Contact]],
         \A i \in Invitation : sent[i] # None => sent'[i] = sent[i],
         request' \in [Process -> Request],
         UNCHANGED <<epoch, now>>
  PROVE  SessionsInvariant'
<1> USE DEF SessionsInvariant
<1>1. /\ family' \in [Family -> FamilyRow] /\ challenge' \in [Challenge -> ChallengeRow]
      /\ \A f \in Family :
           /\ family'[f].principal = family[f].principal
           /\ family'[f].contact = family[f].contact
           /\ family'[f].epoch = family[f].epoch /\ family'[f].by = family[f].by
           /\ family[f].principal # b => family'[f] = family[f]
           /\ family[f].principal = b =>
                /\ family'[f].state = IF family[f].state = "live" THEN "revoked"
                                      ELSE family[f].state
                /\ family'[f].refresh = <<>>
      /\ \A c \in Challenge :
           /\ challenge'[c].to = challenge[c].to
           /\ challenge'[c].contact = challenge[c].contact
           /\ challenge'[c].epoch = challenge[c].epoch
           /\ challenge'[c].at = challenge[c].at
           /\ challenge[c].to # b => challenge'[c] = challenge[c]
           /\ challenge[c].to = b =>
                challenge'[c].state = IF challenge[c].state = "live" THEN "consumed"
                                      ELSE challenge[c].state
  BY ONLY SessionsInvariant, b \in Beneficiary, RevokeBeneficiary(b), RevokeStep
<1>2. /\ recipient' \in [Beneficiary -> RecipientRow] /\ recipient'[b] = row
      /\ \A c \in Beneficiary \ {b} : recipient'[c] = recipient[c]
  BY DEF TypeOK
<1>3. TypeOK'
  BY <1>1, <1>2 DEF TypeOK
<1>4. FamiliesAreCurrent'
  <2>1. ASSUME NEW f \in Family, family[f].principal = b
        PROVE  /\ family'[f].state # "live" /\ family'[f].refresh = <<>>
               /\ family'[f].state = "unused" => family'[f].by = None
    BY <1>1, <2>1 DEF FamiliesAreCurrent
  <2>2. ASSUME NEW f \in Family, family[f].principal # b
        PROVE  family'[f] = family[f]
    BY <1>1, <2>2
  <2> QED
    BY <2>1, <2>2 DEF FamiliesAreCurrent
<1>5. ChallengesAreCurrent'
  BY <1>1 DEF ChallengesAreCurrent
<1>6. SessionsAreAccepted' /\ ChallengesAreAccepted'
  <2>1. ASSUME NEW f \in Family, family'[f].state = "live"
        PROVE  family[f].principal # b /\ family'[f] = family[f]
    BY <1>1, <2>1
  <2>2. ASSUME NEW c \in Challenge, challenge'[c].state = "live"
        PROVE  challenge[c].to # b /\ challenge'[c] = challenge[c]
    BY <1>1, <2>2
  <2>3. \A f \in Family : family[f].principal # Owner => family[f].principal \in Beneficiary
    BY DEF TypeOK, FamilyRow
  <2>4. \A c \in Challenge : challenge[c].state = "live" => challenge[c].to \in Beneficiary
    BY DEF TypeOK, ChallengeRow, ChallengesAreCurrent
  <2>5. SessionsAreAccepted'
    BY <1>2, <2>1, <2>3 DEF SessionsAreAccepted, Accepted
  <2>6. ChallengesAreAccepted'
    BY <1>2, <2>2, <2>4 DEF ChallengesAreAccepted, Accepted
  <2> QED
    BY <2>5, <2>6
<1>7. MakersAreSpent'
  <2>1. ASSUME NEW f \in Family, family[f].by \in Invitation
        PROVE  /\ sent'[family[f].by] = [to |-> family[f].principal,
                                         contact |-> family[f].contact]
               /\ \A c \in Beneficiary : recipient'[c].hash # family[f].by
    <3>1. /\ sent[family[f].by] = [to |-> family[f].principal, contact |-> family[f].contact]
          /\ \A c \in Beneficiary : recipient[c].hash # family[f].by
      BY <2>1 DEF MakersAreSpent
    <3>2. family[f].principal \in Beneficiary \cup {Owner} /\ family[f].contact \in Contact
      BY DEF TypeOK, FamilyRow
    <3>3. sent[family[f].by] # None
      BY <3>1, <3>2, ConstantsAssumption DEF Contact
    <3>4. sent'[family[f].by] = sent[family[f].by]
      BY <2>1, <3>3
    <3>5. recipient'[b].hash # family[f].by
      BY <1>2, <2>1, ConstantsAssumption
    <3> QED
      BY <1>2, <3>1, <3>4, <3>5
  <2>2. ASSUME NEW f \in Family, family[f].by \in Challenge
        PROVE  /\ challenge'[family[f].by].state \in {"consumed", "lost"}
               /\ challenge'[family[f].by].to = family[f].principal
               /\ challenge'[family[f].by].contact = family[f].contact
    <3>1. /\ challenge[family[f].by].state \in {"consumed", "lost"}
          /\ challenge[family[f].by].to = family[f].principal
          /\ challenge[family[f].by].contact = family[f].contact
      BY <2>2 DEF MakersAreSpent
    <3> QED
      BY <1>1, <2>2, <3>1
  <2>3. \A f \in Family : /\ family'[f].principal = family[f].principal
                          /\ family'[f].contact = family[f].contact
                          /\ family'[f].by = family[f].by
    BY <1>1
  <2> QED
    BY ONLY <2>1, <2>2, <2>3 DEF MakersAreSpent
<1>8. MakersAreDistinct'
  BY <1>1 DEF MakersAreDistinct
<1>9. HashIsOfTheRow'
  <2>1. ASSUME NEW c \in Beneficiary \ {b}, recipient[c].hash # None
        PROVE  sent'[recipient[c].hash] = [to |-> c, contact |-> recipient[c].contact]
    <3>1. /\ sent[recipient[c].hash] = [to |-> c, contact |-> recipient[c].contact]
          /\ recipient[c].hash \in Invitation /\ recipient[c].contact \in Contact
      BY <2>1 DEF HashIsOfTheRow, TypeOK, RecipientRow
    <3>2. sent[recipient[c].hash] # None
      BY <3>1, ConstantsAssumption DEF Contact
    <3> QED
      BY <3>1, <3>2
  <2> QED
    BY <1>2, <2>1 DEF HashIsOfTheRow
<1>10. OneLinkAMinute'
  <2>1. \A d \in Challenge :
          /\ challenge'[d].at = challenge[d].at /\ challenge'[d].to = challenge[d].to
          /\ challenge'[d].epoch = challenge[d].epoch
          /\ challenge'[d].state = "unused" <=> challenge[d].state = "unused"
    BY <1>1
  <2> QED
    BY <2>1 DEF OneLinkAMinute
<1> QED
  BY <1>3, <1>4, <1>5, <1>6, <1>7, <1>8, <1>9, <1>10

LEMMA SignOutInvariant ==
  ASSUME SessionsInvariant, NEW p \in Process, FinishSignOutEverywhere(p)
  PROVE  SessionsInvariant'
<1> USE DEF SessionsInvariant
<1> DEFINE b == request[p].to
           row == recipient[b]
<1>1. b \in Beneficiary
  <2>1. request[p] \in Request /\ request[p].op = "signout"
    BY DEF TypeOK, FinishSignOutEverywhere
  <2> QED
    BY <2>1 DEF Request, Idle
<1>2. RevokeBeneficiary(b) /\ End(p) /\ UNCHANGED <<recipient, sent, epoch, now>>
  BY DEF FinishSignOutEverywhere
<1> HIDE DEF b
<1>3. /\ row \in RecipientRow /\ recipient' = [recipient EXCEPT ![b] = row]
      /\ row.hash # None <=> row.status \in {"sent", "expired"}
      /\ row.hash \in Invitation \cup {None}
  BY <1>1, <1>2 DEF TypeOK, RecipientRow
<1>4. row.hash # None =>
        /\ sent'[row.hash] = [to |-> b, contact |-> row.contact]
        /\ \A f \in Family : family[f].by # row.hash
  BY <1>1, <1>2, <1>3 DEF HashIsOfTheRow, MakersAreSpent
<1>5. request' \in [Process -> Request]
  BY <1>2, EndType
<1>6. /\ sent' \in [Invitation -> {None} \cup [to : Beneficiary, contact : Contact]]
      /\ \A i \in Invitation : sent[i] # None => sent'[i] = sent[i]
  BY <1>2 DEF TypeOK
<1>7. UNCHANGED <<epoch, now>>
  BY <1>2
<1> HIDE DEF row
<1> QED
  BY <1>1, <1>2, <1>3, <1>4, <1>5, <1>6, <1>7, RevokeInvariant

\* A session that an invitation opened keeps the record of it, so one that was
\* not sent yet has opened none.
LEMMA InviteInvariant ==
  ASSUME SessionsInvariant, NEW b \in Beneficiary, NEW i \in Invitation,
         InviteBeneficiary(b, i)
  PROVE  SessionsInvariant'
<1> USE DEF SessionsInvariant
<1> DEFINE row == [status |-> "sent", contact |-> recipient[b].contact, hash |-> i,
                   old |-> FALSE]
           here == [to |-> b, contact |-> recipient[b].contact]
<1>1. /\ RevokeBeneficiary(b) /\ recipient' = [recipient EXCEPT ![b] = row]
      /\ sent' = [sent EXCEPT ![i] = here] /\ sent[i] = None
      /\ UNCHANGED <<epoch, now, request>>
  BY DEF InviteBeneficiary
<1>2. recipient[b].contact \in Contact /\ i # None
  BY ConstantsAssumption DEF TypeOK, RecipientRow
<1>3. /\ row \in RecipientRow /\ row.status = "sent" /\ row.hash = i
      /\ row.contact = recipient[b].contact
      /\ here \in [to : Beneficiary, contact : Contact]
  BY <1>2 DEF RecipientRow
<1>4. here = [to |-> b, contact |-> row.contact]
  OBVIOUS
<1> HIDE DEF row, here
<1>5. /\ sent' \in [Invitation -> {None} \cup [to : Beneficiary, contact : Contact]]
      /\ \A j \in Invitation : sent[j] # None => sent'[j] = sent[j]
      /\ sent'[i] = here
  BY <1>1, <1>3 DEF TypeOK
<1>6. ASSUME NEW f \in Family
      PROVE  family[f].by # i
  <2>1. family[f].principal \in Beneficiary \cup {Owner} /\ family[f].contact \in Contact
    BY DEF TypeOK, FamilyRow
  <2>2. family[f].by = i => sent[i] = [to |-> family[f].principal,
                                       contact |-> family[f].contact]
    BY DEF MakersAreSpent
  <2> QED
    BY <1>1, <2>1, <2>2, ConstantsAssumption DEF Contact
<1>7. request' \in [Process -> Request]
  BY <1>1 DEF TypeOK
<1>8. row.hash # None <=> row.status \in {"sent", "expired"}
  BY <1>2, <1>3
<1>9. row.hash # None => /\ sent'[row.hash] = [to |-> b, contact |-> row.contact]
                         /\ \A f \in Family : family[f].by # row.hash
  BY <1>3, <1>4, <1>5, <1>6
<1> QED
  BY <1>1, <1>3, <1>5, <1>7, <1>8, <1>9, RevokeInvariant

\* A row without an invitation.
LEMMA PlainRowInvariant ==
  ASSUME SessionsInvariant, NEW b \in Beneficiary, RevokeBeneficiary(b),
         NEW row \in RecipientRow, recipient' = [recipient EXCEPT ![b] = row],
         row.hash = None, row.status \notin {"sent", "expired"},
         UNCHANGED <<sent, epoch, now, request>>
  PROVE  SessionsInvariant'
<1>1. /\ sent' \in [Invitation -> {None} \cup [to : Beneficiary, contact : Contact]]
      /\ \A i \in Invitation : sent[i] # None => sent'[i] = sent[i]
      /\ request' \in [Process -> Request]
  BY DEF SessionsInvariant, TypeOK
<1> QED
  BY <1>1, RevokeInvariant

LEMMA ManageInvariant ==
  ASSUME SessionsInvariant, ManageBeneficiary
  PROVE  SessionsInvariant'
<1> USE DEF SessionsInvariant
<1>1. ASSUME NEW b \in Beneficiary, ChangeContact(b)
      PROVE  SessionsInvariant'
  <2> DEFINE next == recipient[b].contact + 1
             row == [status |-> "pending", contact |-> next, hash |-> None, old |-> FALSE]
  <2>1. next \in Contact
    BY <1>1, ConstantsAssumption DEF ChangeContact, TypeOK, RecipientRow, Contact
  <2>2. recipient' = [recipient EXCEPT ![b] = row]
    BY <1>1 DEF ChangeContact, NewContact
  <2> HIDE DEF next
  <2>3. row \in RecipientRow /\ row.hash = None /\ row.status = "pending"
    BY <2>1 DEF RecipientRow
  <2> HIDE DEF row
  <2> QED
    BY <1>1, <2>2, <2>3, PlainRowInvariant DEF ChangeContact
<1>2. ASSUME NEW b \in Beneficiary, DeleteBeneficiary(b)
      PROVE  SessionsInvariant'
  <2> DEFINE row == [Absent EXCEPT !.status = "deleted"]
  <2>1. 0 \in Contact
    BY ConstantsAssumption DEF Contact
  <2>2. row \in RecipientRow /\ row.hash = None /\ row.status = "deleted"
    BY <2>1 DEF RecipientRow, Absent
  <2>3. recipient' = [recipient EXCEPT ![b] = row]
    BY <1>2 DEF DeleteBeneficiary
  <2> HIDE DEF row
  <2> QED
    BY <1>2, <2>2, <2>3, PlainRowInvariant DEF DeleteBeneficiary
<1>3. ASSUME NEW b \in Beneficiary, AddBeneficiary(b)
      PROVE  SessionsInvariant'
  <2> DEFINE row == [Absent EXCEPT !.status = "pending"]
  <2>1. 0 \in Contact
    BY ConstantsAssumption DEF Contact
  <2>2. row \in RecipientRow /\ row.hash = None /\ row.status = "pending"
    BY <2>1 DEF RecipientRow, Absent
  <2>3. /\ recipient' = [recipient EXCEPT ![b] = row] /\ recipient[b].status = "absent"
        /\ UNCHANGED <<family, challenge, sent, epoch, now, request>>
    BY <1>3 DEF AddBeneficiary
  <2> HIDE DEF row
  <2>4. /\ recipient' \in [Beneficiary -> RecipientRow] /\ recipient'[b] = row
        /\ \A c \in Beneficiary \ {b} : recipient'[c] = recipient[c]
    BY <2>2, <2>3 DEF TypeOK
  <2>5. TypeOK'
    BY <2>2, <2>3, <2>4 DEF TypeOK
  <2>6. SessionsAreAccepted' /\ ChallengesAreAccepted'
    <3>1. \A f \in Family : family[f].principal # Owner => family[f].principal \in Beneficiary
      BY DEF TypeOK, FamilyRow
    <3>2. \A c \in Challenge : challenge[c].state = "live" => challenge[c].to \in Beneficiary
      BY DEF TypeOK, ChallengeRow, ChallengesAreCurrent
    <3> QED
      BY <2>3, <2>4, <3>1, <3>2 DEF SessionsAreAccepted, ChallengesAreAccepted, Accepted
  <2>7. MakersAreSpent' /\ HashIsOfTheRow'
    BY <2>2, <2>3, <2>4, ConstantsAssumption DEF MakersAreSpent, HashIsOfTheRow
  <2> QED
    BY <2>3, <2>5, <2>6, <2>7 DEF FamiliesAreCurrent, ChallengesAreCurrent,
       MakersAreDistinct, OneLinkAMinute
<1> QED
  BY <1>1, <1>2, <1>3, InviteInvariant DEF ManageBeneficiary

-----------------------------------------------------------------------------
(* Restoration                                                             *)

LEMMA RestoredFamily ==
  ASSUME SessionsInvariant, NEW f \in Family, NEW row \in EarlierFamilies(f)
  PROVE  /\ Revoked(row) \in FamilyRow
         /\ Revoked(row).state # "live" /\ Revoked(row).refresh = <<>>
         /\ Revoked(row).state = "unused" <=> family[f].state = "unused"
         /\ Revoked(row).principal = family[f].principal
         /\ Revoked(row).contact = family[f].contact
         /\ Revoked(row).epoch = family[f].epoch /\ Revoked(row).by = family[f].by
<1>1. /\ family[f] \in FamilyRow
      /\ family[f].state # "live" => family[f].refresh = <<>>
  BY DEF SessionsInvariant, TypeOK, FamiliesAreCurrent
<1> DEFINE none == <<>>
           one == <<"no">>
           lost == [family[f] EXCEPT !.state = "lost", !.refresh = none]
           live == [family[f] EXCEPT !.state = "live", !.refresh = one]
<1>2. /\ none \in Seq({"no", "just", "long"}) /\ one \in Seq({"no", "just", "long"})
      /\ none = <<>>
  OBVIOUS
<1>3. row \in IF family[f].state = "unused" THEN {family[f]} ELSE {lost, live}
  BY DEF EarlierFamilies
<1> HIDE DEF none, one
<1>4. /\ lost \in FamilyRow /\ lost.state = "lost" /\ lost.refresh = none
      /\ lost.principal = family[f].principal /\ lost.contact = family[f].contact
      /\ lost.epoch = family[f].epoch /\ lost.by = family[f].by
  BY <1>1, <1>2 DEF FamilyRow
<1>5. /\ live \in FamilyRow /\ live.state = "live"
      /\ live.principal = family[f].principal /\ live.contact = family[f].contact
      /\ live.epoch = family[f].epoch /\ live.by = family[f].by
  BY <1>1, <1>2 DEF FamilyRow
<1> HIDE DEF lost, live
<1>6. /\ row \in FamilyRow /\ (row.state # "live" => row.refresh = <<>>)
      /\ row.state = "unused" <=> family[f].state = "unused"
      /\ row.principal = family[f].principal /\ row.contact = family[f].contact
      /\ row.epoch = family[f].epoch /\ row.by = family[f].by
  BY <1>1, <1>2, <1>3, <1>4, <1>5
<1>7. /\ Revoked(row) \in FamilyRow
      /\ Revoked(row).state = IF row.state = "live" THEN "revoked" ELSE row.state
      /\ Revoked(row).principal = row.principal /\ Revoked(row).contact = row.contact
      /\ Revoked(row).epoch = row.epoch /\ Revoked(row).by = row.by
      /\ Revoked(row).refresh = <<>>
  BY ONLY <1>6, RevokedRow
<1> QED
  BY ONLY <1>6, <1>7

LEMMA RestoredChallenge ==
  ASSUME SessionsInvariant, NEW c \in Challenge, NEW row \in EarlierChallenges(c)
  PROVE  /\ Consumed(row) \in ChallengeRow
         /\ Consumed(row).state \in {"unused", "consumed", "lost"}
         /\ Consumed(row).state = "unused" <=> challenge[c].state = "unused"
         /\ Consumed(row).to = challenge[c].to
         /\ Consumed(row).contact = challenge[c].contact
         /\ Consumed(row).at = challenge[c].at /\ Consumed(row).epoch = challenge[c].epoch
<1>1. challenge[c] \in ChallengeRow
  BY DEF SessionsInvariant, TypeOK
<1> DEFINE lost == [challenge[c] EXCEPT !.state = "lost"]
           live == [challenge[c] EXCEPT !.state = "live"]
<1>2. row \in IF challenge[c].state = "unused" THEN {challenge[c]} ELSE {lost, live}
  BY DEF EarlierChallenges
<1>3. /\ lost \in ChallengeRow /\ lost.state = "lost"
      /\ lost.at = challenge[c].at /\ lost.epoch = challenge[c].epoch
      /\ lost.to = challenge[c].to /\ lost.contact = challenge[c].contact
  BY <1>1 DEF ChallengeRow
<1>4. /\ live \in ChallengeRow /\ live.state = "live"
      /\ live.at = challenge[c].at /\ live.epoch = challenge[c].epoch
      /\ live.to = challenge[c].to /\ live.contact = challenge[c].contact
  BY <1>1 DEF ChallengeRow
<1> HIDE DEF lost, live
<1>5. /\ row \in ChallengeRow /\ row.state \in {"unused", "live", "lost"}
      /\ row.state = "unused" <=> challenge[c].state = "unused"
      /\ row.to = challenge[c].to /\ row.contact = challenge[c].contact
      /\ row.at = challenge[c].at /\ row.epoch = challenge[c].epoch
  BY <1>1, <1>2, <1>3, <1>4
<1>6. /\ Consumed(row) \in ChallengeRow
      /\ Consumed(row).state = IF row.state = "live" THEN "consumed" ELSE row.state
      /\ Consumed(row).to = row.to /\ Consumed(row).contact = row.contact
      /\ Consumed(row).epoch = row.epoch /\ Consumed(row).at = row.at
  BY ONLY <1>5, ConsumedRow
<1> QED
  BY ONLY <1>5, <1>6

LEMMA RestoredRecipient ==
  ASSUME NEW b \in Beneficiary, NEW row \in EarlierRows(b)
  PROVE  /\ Quarantined(row) \in RecipientRow /\ Quarantined(row).hash = None
         /\ Quarantined(row).status \in {"absent", "pending", "accepted"}
<1> DEFINE s == IF row.status = "sent" THEN "pending" ELSE row.status
<1>1. row \in [status : {"absent", "sent", "accepted"}, contact : Contact,
               hash : Invitation \cup {None}, old : {FALSE}]
  BY DEF EarlierRows, Contact
<1>2. s \in {"absent", "pending", "accepted"}
  BY <1>1
<1>3. Quarantined(row) = [row EXCEPT !.hash = None, !.status = s]
  BY DEF Quarantined
<1> HIDE DEF s
<1> DEFINE new == [row EXCEPT !.hash = None, !.status = s]
<1>4. new \in RecipientRow /\ new.hash = None /\ new.status = s
  BY <1>1, <1>2 DEF RecipientRow
<1> HIDE DEF new
<1> QED
  BY <1>2, <1>3, <1>4 DEF new

LEMMA RestoreStep ==
  ASSUME SessionsInvariant, Restore
  PROVE  /\ recipient' \in [Beneficiary -> RecipientRow]
         /\ family' \in [Family -> FamilyRow] /\ challenge' \in [Challenge -> ChallengeRow]
         /\ \A b \in Beneficiary :
              /\ recipient'[b].hash = None
              /\ recipient'[b].status \in {"absent", "pending", "accepted"}
         /\ \A f \in Family :
              /\ family'[f].state # "live" /\ family'[f].refresh = <<>>
              /\ family'[f].state = "unused" <=> family[f].state = "unused"
              /\ family'[f].principal = family[f].principal
              /\ family'[f].contact = family[f].contact
              /\ family'[f].by = family[f].by
         /\ \A c \in Challenge :
              /\ challenge'[c].state \in {"unused", "consumed", "lost"}
              /\ challenge'[c].state = "unused" <=> challenge[c].state = "unused"
              /\ challenge'[c].to = challenge[c].to
              /\ challenge'[c].contact = challenge[c].contact
              /\ challenge'[c].at = challenge[c].at /\ challenge'[c].epoch = challenge[c].epoch
<1>1. PICK recipients \in Choices(Beneficiary, EarlierRows) :
        recipient' = [b \in Beneficiary |-> Quarantined(recipients[b])]
  BY DEF Restore
<1>2. PICK families \in Choices(Family, EarlierFamilies) :
        family' = [f \in Family |-> Revoked(families[f])]
  BY DEF Restore
<1>3. PICK challenges \in Choices(Challenge, EarlierChallenges) :
        challenge' = [c \in Challenge |-> Consumed(challenges[c])]
  BY DEF Restore
<1>4. ASSUME NEW b \in Beneficiary
      PROVE  /\ recipient'[b] \in RecipientRow /\ recipient'[b].hash = None
             /\ recipient'[b].status \in {"absent", "pending", "accepted"}
  <2>1. recipients[b] \in EarlierRows(b)
    BY DEF Choices
  <2>2. recipient'[b] = Quarantined(recipients[b])
    BY <1>1
  <2> QED
    BY <2>1, <2>2, RestoredRecipient
<1>5. ASSUME NEW f \in Family
      PROVE  /\ family'[f] \in FamilyRow
             /\ family'[f].state # "live" /\ family'[f].refresh = <<>>
             /\ family'[f].state = "unused" <=> family[f].state = "unused"
             /\ family'[f].principal = family[f].principal
             /\ family'[f].contact = family[f].contact
             /\ family'[f].by = family[f].by
  <2>1. families[f] \in EarlierFamilies(f)
    BY DEF Choices
  <2>2. family'[f] = Revoked(families[f])
    BY <1>2
  <2>3. /\ Revoked(families[f]) \in FamilyRow
        /\ Revoked(families[f]).state # "live" /\ Revoked(families[f]).refresh = <<>>
        /\ Revoked(families[f]).state = "unused" <=> family[f].state = "unused"
        /\ Revoked(families[f]).principal = family[f].principal
        /\ Revoked(families[f]).contact = family[f].contact
        /\ Revoked(families[f]).epoch = family[f].epoch
        /\ Revoked(families[f]).by = family[f].by
    BY ONLY SessionsInvariant, f \in Family, <2>1, RestoredFamily
  <2> QED
    BY ONLY <2>2, <2>3
<1>6. ASSUME NEW c \in Challenge
      PROVE  /\ challenge'[c] \in ChallengeRow
             /\ challenge'[c].state \in {"unused", "consumed", "lost"}
             /\ challenge'[c].state = "unused" <=> challenge[c].state = "unused"
             /\ challenge'[c].to = challenge[c].to
             /\ challenge'[c].contact = challenge[c].contact
             /\ challenge'[c].at = challenge[c].at /\ challenge'[c].epoch = challenge[c].epoch
  <2>1. challenges[c] \in EarlierChallenges(c)
    BY DEF Choices
  <2>2. challenge'[c] = Consumed(challenges[c])
    BY <1>3
  <2>3. /\ Consumed(challenges[c]) \in ChallengeRow
        /\ Consumed(challenges[c]).state \in {"unused", "consumed", "lost"}
        /\ Consumed(challenges[c]).state = "unused" <=> challenge[c].state = "unused"
        /\ Consumed(challenges[c]).to = challenge[c].to
        /\ Consumed(challenges[c]).contact = challenge[c].contact
        /\ Consumed(challenges[c]).at = challenge[c].at
        /\ Consumed(challenges[c]).epoch = challenge[c].epoch
    BY ONLY SessionsInvariant, c \in Challenge, <2>1, RestoredChallenge
  <2> QED
    BY ONLY <2>2, <2>3
<1>7. recipient' \in [Beneficiary -> RecipientRow]
  BY <1>1, <1>4
<1>8. family' \in [Family -> FamilyRow]
  BY <1>2, <1>5
<1>9. challenge' \in [Challenge -> ChallengeRow]
  BY <1>3, <1>6
<1> QED
  BY ONLY <1>4, <1>5, <1>6, <1>7, <1>8, <1>9

\* Nothing is left alive, and who opened a session remains as used as it was.
LEMMA RestoreInvariant ==
  ASSUME SessionsInvariant, Restore
  PROVE  SessionsInvariant'
<1> USE DEF SessionsInvariant
<1>1. /\ recipient' \in [Beneficiary -> RecipientRow]
      /\ family' \in [Family -> FamilyRow] /\ challenge' \in [Challenge -> ChallengeRow]
      /\ \A b \in Beneficiary :
           /\ recipient'[b].hash = None
           /\ recipient'[b].status \in {"absent", "pending", "accepted"}
      /\ \A f \in Family :
           /\ family'[f].state # "live" /\ family'[f].refresh = <<>>
           /\ family'[f].state = "unused" <=> family[f].state = "unused"
           /\ family'[f].principal = family[f].principal
           /\ family'[f].contact = family[f].contact
           /\ family'[f].by = family[f].by
      /\ \A c \in Challenge :
           /\ challenge'[c].state \in {"unused", "consumed", "lost"}
           /\ challenge'[c].state = "unused" <=> challenge[c].state = "unused"
           /\ challenge'[c].to = challenge[c].to
           /\ challenge'[c].contact = challenge[c].contact
           /\ challenge'[c].at = challenge[c].at /\ challenge'[c].epoch = challenge[c].epoch
  BY ONLY SessionsInvariant, Restore, RestoreStep
<1>2. /\ epoch' \in 0 .. MaxEpoch /\ epoch' = epoch + 1 /\ UNCHANGED <<sent, now, request>>
      /\ \A p \in Process : request[p] = Idle
  BY ConstantsAssumption DEF Restore, TypeOK
<1>3. TypeOK'
  BY <1>1, <1>2 DEF TypeOK
<1>4. FamiliesAreCurrent' /\ SessionsAreAccepted'
  BY <1>1 DEF FamiliesAreCurrent, SessionsAreAccepted
<1>5. ChallengesAreCurrent' /\ ChallengesAreAccepted'
  <2>1. /\ epoch' \in Nat
        /\ \A c \in Challenge : challenge[c].epoch \in Nat /\ challenge[c].epoch < epoch'
    BY <1>2 DEF ChallengesAreCurrent, TypeOK, ChallengeRow
  <2> QED
    BY <1>1, <2>1 DEF ChallengesAreCurrent, ChallengesAreAccepted
<1>6. MakersAreSpent'
  <2>1. ASSUME NEW f \in Family, family[f].by \in Challenge
        PROVE  /\ challenge'[family[f].by].state \in {"consumed", "lost"}
               /\ challenge'[family[f].by].to = family[f].principal
               /\ challenge'[family[f].by].contact = family[f].contact
    <3>1. /\ challenge[family[f].by].state \in {"consumed", "lost"}
          /\ challenge[family[f].by].to = family[f].principal
          /\ challenge[family[f].by].contact = family[f].contact
      BY <2>1 DEF MakersAreSpent
    <3> QED
      BY <1>1, <2>1, <3>1
  <2>2. ASSUME NEW f \in Family, family[f].by \in Invitation
        PROVE  /\ sent'[family[f].by] = [to |-> family[f].principal,
                                         contact |-> family[f].contact]
               /\ \A b \in Beneficiary : recipient'[b].hash # family[f].by
    BY <1>1, <1>2, <2>2, ConstantsAssumption DEF MakersAreSpent
  <2>3. \A f \in Family : /\ family'[f].principal = family[f].principal
                          /\ family'[f].contact = family[f].contact
                          /\ family'[f].by = family[f].by
    BY <1>1
  <2> QED
    BY ONLY <2>1, <2>2, <2>3 DEF MakersAreSpent
<1>7. MakersAreDistinct'
  BY <1>1 DEF MakersAreDistinct
<1>8. HashIsOfTheRow'
  BY <1>1 DEF HashIsOfTheRow
<1>9. OneLinkAMinute'
  BY <1>1 DEF OneLinkAMinute
<1> QED
  BY <1>3, <1>4, <1>5, <1>6, <1>7, <1>8, <1>9

-----------------------------------------------------------------------------
(* Theorems                                                                *)

LEMMA NextInvariant == SessionsInvariant /\ [Next]_vars => SessionsInvariant'
<1> SUFFICES ASSUME SessionsInvariant, [Next]_vars
             PROVE  SessionsInvariant'
  OBVIOUS
<1>1. ASSUME NEW p \in Process, Serve(p)
      PROVE  SessionsInvariant'
  BY <1>1, BeginInvariant, AcceptInvariant, LinkInvariant, RedeemInvariant, SignOutInvariant
     DEF Serve
<1>2. CASE UNCHANGED vars
  BY <1>2 DEF vars, SessionsInvariant, TypeOK, FamiliesAreCurrent, ChallengesAreCurrent,
     SessionsAreAccepted, ChallengesAreAccepted, Accepted, MakersAreSpent, HashIsOfTheRow,
     MakersAreDistinct, OneLinkAMinute
<1> QED
  BY <1>1, <1>2, UseSessionInvariant, ManageInvariant, AgeInvariant, TickInvariant,
     RestoreInvariant DEF Next

LEMMA Safety == Spec => []SessionsInvariant
  BY InitInvariant, NextInvariant, PTL DEF Spec

\* Every row holds values of its columns, and the hash of an invitation just
\* while one is out.
THEOREM TypeCorrect == Spec => []TypeOK
<1>1. SessionsInvariant => TypeOK
  BY DEF SessionsInvariant
<1> QED
  BY <1>1, Safety, PTL

\* However rotations, retries, replays, sign-outs and restorations cross, a
\* live family has one refresh token that was not used yet.
THEOREM TokenIsSingle == Spec => []OneLiveToken
<1>1. SessionsInvariant => OneLiveToken
  <2> SUFFICES ASSUME SessionsInvariant, NEW f \in Family, family[f].state = "live"
               PROVE  Cardinality({n \in DOMAIN family[f].refresh :
                                     family[f].refresh[n] = "no"}) = 1
    BY DEF OneLiveToken
  <2> DEFINE refresh == family[f].refresh
  <2>1. refresh \in Seq({"no", "just", "long"}) /\ LastIsUnused(refresh)
    BY DEF SessionsInvariant, TypeOK, FamilyRow, FamiliesAreCurrent
  <2> HIDE DEF refresh
  <2>2. {n \in DOMAIN refresh : refresh[n] = "no"} = {Len(refresh)}
    <3>1. Len(refresh) \in Nat /\ DOMAIN refresh = 1 .. Len(refresh)
      BY <2>1
    <3> QED
      BY <2>1, <3>1 DEF LastIsUnused
  <2>3. Cardinality({Len(refresh)}) = 1
    BY FS_Singleton
  <2> QED
    BY <2>2, <2>3 DEF refresh
<1> QED
  BY <1>1, Safety, PTL

\* No session and no sign-in link is left of a recipient that was deleted,
\* invited anew or given another address.
THEOREM SessionsAreOfRecipients == Spec => []NothingOutlivesItsRecipient
<1>1. SessionsInvariant => NothingOutlivesItsRecipient
  BY DEF SessionsInvariant, SessionsAreAccepted, ChallengesAreAccepted,
     NothingOutlivesItsRecipient, Usable, ValidFamily
<1> QED
  BY <1>1, Safety, PTL

\* An invitation or a sign-in link opens one session, of the row and the
\* address it was sent to, over any number of restorations.
THEOREM MakersOpenOne == Spec => []OpensOneSession
<1>1. SessionsInvariant => OpensOneSession
  BY DEF SessionsInvariant, MakersAreDistinct, MakersAreSpent, OpensOneSession
<1> QED
  BY <1>1, Safety, PTL

\* However many requests for a link wait for the lock, and however long, the
\* links of a recipient are dated a minute apart.
THEOREM LinksAreMinutesApart == Spec => []OneLinkAMinute
<1>1. SessionsInvariant => OneLinkAMinute
  BY DEF SessionsInvariant
<1> QED
  BY <1>1, Safety, PTL

-----------------------------------------------------------------------------
(* Dead credentials                                                        *)

\* A family is live in a step that opened it, or left it live; and no step
\* makes a used token of a live family unused.
LEMMA FamilyDies ==
  ASSUME SessionsInvariant, Next, NEW f \in Family, family'[f].state = "live"
  PROVE  \/ family[f].state = "unused"
         \/ /\ family[f].state = "live"
            /\ \A n \in DOMAIN family[f].refresh :
                 family'[f].refresh[n] = "no" => family[f].refresh[n] = "no"
<1> DEFINE Opened == family[f].state = "unused"
           Kept == /\ family[f].state = "live"
                   /\ \A n \in DOMAIN family[f].refresh :
                        family'[f].refresh[n] = "no" => family[f].refresh[n] = "no"
<1>1. /\ family \in [Family -> FamilyRow]
      /\ family[f].refresh \in Seq({"no", "just", "long"})
  BY DEF SessionsInvariant, TypeOK, FamilyRow
<1>2. ASSUME family' = family
      PROVE  Kept
  BY <1>2
<1>3. ASSUME NEW g \in Family, NEW principal, NEW contact, NEW by,
             Issue(g, principal, contact, by)
      PROVE  Opened \/ Kept
  <2>1. CASE g = f
    BY <1>3, <2>1 DEF Issue
  <2>2. CASE g # f
    <3>1. family'[f] = family[f]
      BY <1>1, <1>3, <2>2 DEF Issue
    <3> QED
      BY <3>1
  <2> QED
    BY <2>1, <2>2
<1>4. ASSUME NEW g \in Family, family' = [family EXCEPT ![g] = Revoked(family[g])]
      PROVE  Kept
  <2>1. CASE g = f
    <3>1. family'[f] = Revoked(family[f])
      BY <1>1, <1>4, <2>1
    <3>2. /\ family[f] \in FamilyRow
          /\ family[f].state # "live" => family[f].refresh = <<>>
      BY DEF SessionsInvariant, TypeOK, FamiliesAreCurrent
    <3>3. Revoked(family[f]).state =
            IF family[f].state = "live" THEN "revoked" ELSE family[f].state
      BY <3>2, RevokedRow
    <3> QED
      BY <3>1, <3>3
  <2>2. CASE g # f
    <3>1. family'[f] = family[f]
      BY <1>1, <1>4, <2>2
    <3> QED
      BY <3>1
  <2> QED
    BY <2>1, <2>2
<1>5. ASSUME NEW g \in Family, NEW refresh, family[g].state = "live",
             family' = [family EXCEPT ![g].refresh = refresh],
             \A n \in DOMAIN family[g].refresh :
               refresh[n] = "no" => family[g].refresh[n] = "no"
      PROVE  Kept
  <2>1. CASE g = f
    <3>1. family'[f].refresh = refresh
      BY <1>1, <1>5, <2>1 DEF FamilyRow
    <3> QED
      BY <1>5, <2>1, <3>1
  <2>2. CASE g # f
    <3>1. family'[f] = family[f]
      BY <1>1, <1>5, <2>2
    <3> QED
      BY <3>1
  <2> QED
    BY <2>1, <2>2
<1>6. ASSUME NEW b \in Beneficiary, RevokeBeneficiary(b)
      PROVE  Kept
  <2>1. /\ family[f].principal # b => family'[f] = family[f]
        /\ family[f].principal = b =>
             family'[f].state = IF family[f].state = "live" THEN "revoked" ELSE family[f].state
    BY <1>6, RevokeStep
  <2>2. family'[f] = family[f]
    BY <2>1
  <2> QED
    BY <2>2
<1>7. ASSUME UseSession
      PROVE  Opened \/ Kept
  <2>1. ASSUME NEW g \in Family, NEW n \in 1 .. MaxTokens, Rotate(g, n)
        PROVE  Kept
    <3> DEFINE tokens == family[g].refresh
    <3>1. /\ family[g].state = "live" /\ n \in DOMAIN tokens
          /\ family' = [family EXCEPT ![g].refresh = Rotated(tokens, n)]
      BY <2>1 DEF Rotate, Usable, ValidFamily
    <3>2. tokens \in Seq({"no", "just", "long"})
      BY DEF SessionsInvariant, TypeOK, FamilyRow
    <3> DEFINE used == [tokens EXCEPT ![n] = "just"]
    <3> HIDE DEF tokens
    <3>3. /\ used \in Seq({"no", "just", "long"}) /\ Len(used) = Len(tokens)
          /\ \A m \in 1 .. Len(tokens) : used[m] = "no" => tokens[m] = "no"
      BY <3>1, <3>2
    <3>4. Rotated(tokens, n) = Append(used, "no")
      BY DEF Rotated
    <3> HIDE DEF used
    <3>5. \A m \in 1 .. Len(used) : Append(used, "no")[m] = used[m]
      BY <3>3, AppendProperties
    <3>6. \A m \in DOMAIN tokens : Rotated(tokens, n)[m] = "no" => tokens[m] = "no"
      BY <3>2, <3>3, <3>4, <3>5
    <3> QED
      BY <1>5, <3>1, <3>6 DEF tokens
  <2>2. ASSUME NEW g \in Family, Login(g)
        PROVE  Opened \/ Kept
    BY <1>3, <2>2 DEF Login
  <2>3. ASSUME NEW g \in Family,
               Logout(g) \/ SignOut(g) \/ \E n \in 1 .. MaxTokens : DetectReuse(g, n)
        PROVE  Kept
    BY <1>4, <2>3 DEF Logout, SignOut, RevokeCookie, DetectReuse
  <2> QED
    BY <1>7, <2>1, <2>2, <2>3 DEF UseSession
<1>8. ASSUME NEW p \in Process, Serve(p)
      PROVE  Opened \/ Kept
  <2>1. CASE FinishAccept(p)
    BY <1>2, <1>3, <2>1 DEF FinishAccept, Give
  <2>2. CASE FinishLink(p)
    BY <1>2, <2>2 DEF FinishLink, Give
  <2>3. CASE FinishRedeem(p)
    BY <1>2, <1>3, <2>3 DEF FinishRedeem, Give
  <2>4. CASE FinishSignOutEverywhere(p)
    <3>1. request[p].to \in Beneficiary
      <4>1. request[p] \in Request /\ request[p].op = "signout"
        BY <2>4 DEF SessionsInvariant, TypeOK, FinishSignOutEverywhere
      <4> QED
        BY <4>1 DEF Request, Idle
    <3> QED
      BY <1>6, <2>4, <3>1 DEF FinishSignOutEverywhere
  <2> QED
    BY <1>2, <1>8, <2>1, <2>2, <2>3, <2>4
       DEF Serve, BeginAccept, BeginLink, BeginRedeem, BeginSignOutEverywhere, Start
<1>9. CASE ManageBeneficiary
  BY <1>2, <1>6, <1>9 DEF ManageBeneficiary, AddBeneficiary, InviteBeneficiary,
     ChangeContact, DeleteBeneficiary
<1>10. CASE Age
  <2>1. ASSUME NEW g \in Family, NEW n \in 1 .. MaxTokens, AgeToken(g, n)
        PROVE  Kept
    <3> DEFINE tokens == family[g].refresh
               aged == [tokens EXCEPT ![n] = "long"]
    <3>1. /\ family[g].state = "live" /\ n \in DOMAIN tokens
          /\ family' = [family EXCEPT ![g].refresh = aged]
      BY <2>1 DEF AgeToken
    <3>2. \A m \in DOMAIN tokens : aged[m] = "no" => tokens[m] = "no"
      BY <3>1
    <3> HIDE DEF aged
    <3> QED
      BY <1>5, <3>1, <3>2
  <2> QED
    BY <1>2, <1>4, <1>10, <2>1 DEF Age, AgeFamily, AgeInvitation
<1>11. CASE Restore
  BY <1>11, RestoreStep
<1>12. CASE Tick
  BY <1>2, <1>12 DEF Tick
<1> QED
  BY <1>7, <1>8, <1>9, <1>10, <1>11, <1>12 DEF Next

\* The clock is not set back.
LEMMA TimePasses ==
  ASSUME SessionsInvariant, Next
  PROVE  now' \in Nat /\ now <= now'
<1>1. now \in Nat
  BY DEF SessionsInvariant, TypeOK
<1>2. CASE Tick
  BY <1>1, <1>2 DEF Tick
<1>3. CASE ~Tick
  <2>1. now' = now
    BY <1>3 DEF Next, UseSession, Rotate, DetectReuse, Login, Logout, SignOut, Serve,
       BeginAccept, BeginLink, BeginRedeem, BeginSignOutEverywhere, Start, Give,
       FinishAccept, FinishLink, FinishRedeem, FinishSignOutEverywhere, ManageBeneficiary,
       AddBeneficiary, InviteBeneficiary, ChangeContact, DeleteBeneficiary, Age, Restore
  <2> QED
    BY <1>1, <2>1
<1> QED
  BY <1>2, <1>3

\* A link that is good was good before the step, or was made in it.
LEMMA ChallengeDies ==
  ASSUME SessionsInvariant, Next, NEW c \in Challenge, challenge'[c].state = "live", ~Expired(c)'
  PROVE  \/ challenge[c].state = "unused"
         \/ challenge[c].state = "live" /\ ~Expired(c)
<1> DEFINE Made == challenge[c].state = "unused"
           Kept == challenge[c].state = "live" /\ ~Expired(c)
<1>1. challenge \in [Challenge -> ChallengeRow]
  BY DEF SessionsInvariant, TypeOK
<1>2. ASSUME challenge'[c] = challenge[c]
      PROVE  Kept
  <2>1. challenge[c].at \in Nat /\ now \in Nat /\ now' \in Nat /\ now <= now'
    BY TimePasses DEF SessionsInvariant, TypeOK, ChallengeRow
  <2> QED
    BY <1>2, <2>1, ConstantsAssumption DEF Expired
<1>3. ASSUME NEW b \in Beneficiary, RevokeBeneficiary(b)
      PROVE  Kept
  <2>1. /\ challenge[c].to # b => challenge'[c] = challenge[c]
        /\ challenge[c].to = b =>
             challenge'[c].state = IF challenge[c].state = "live" THEN "consumed"
                                   ELSE challenge[c].state
    BY <1>3, RevokeStep
  <2> QED
    BY <1>2, <2>1
<1>4. ASSUME NEW p \in Process, Serve(p)
      PROVE  Made \/ Kept
  <2>1. CASE FinishLink(p)
    <3>1. ASSUME NEW d \in Challenge, challenge[d].state = "unused", NEW row,
                 challenge' = [challenge EXCEPT ![d] = row]
          PROVE  Made \/ Kept
      <4>1. CASE d = c
        BY <3>1, <4>1
      <4>2. CASE d # c
        BY <1>1, <1>2, <3>1, <4>2
      <4> QED
        BY <4>1, <4>2
    <3> QED
      BY <1>2, <2>1, <3>1 DEF FinishLink, Give
  <2>2. CASE FinishRedeem(p)
    <3>1. ASSUME NEW d \in Challenge, challenge' = [challenge EXCEPT ![d].state = "consumed"]
          PROVE  Kept
      <4>1. CASE d = c
        BY <1>1, <3>1, <4>1 DEF ChallengeRow
      <4>2. CASE d # c
        BY <1>1, <1>2, <3>1, <4>2
      <4> QED
        BY <4>1, <4>2
    <3>2. request[p].with \in Challenge
      <4>1. request[p] \in Request /\ request[p].op = "redeem"
        BY <2>2 DEF SessionsInvariant, TypeOK, FinishRedeem
      <4> QED
        BY <4>1 DEF Request, Idle
    <3> QED
      BY <1>2, <2>2, <3>1, <3>2 DEF FinishRedeem, Give
  <2>3. CASE FinishSignOutEverywhere(p)
    <3>1. request[p].to \in Beneficiary
      <4>1. request[p] \in Request /\ request[p].op = "signout"
        BY <2>3 DEF SessionsInvariant, TypeOK, FinishSignOutEverywhere
      <4> QED
        BY <4>1 DEF Request, Idle
    <3> QED
      BY <1>3, <2>3, <3>1 DEF FinishSignOutEverywhere
  <2>4. CASE FinishAccept(p)
    BY <1>2, <2>4 DEF FinishAccept, Give
  <2> QED
    BY <1>2, <1>4, <2>1, <2>2, <2>3, <2>4
       DEF Serve, BeginAccept, BeginLink, BeginRedeem, BeginSignOutEverywhere, Start
<1>5. CASE UseSession
  BY <1>2, <1>5 DEF UseSession, Rotate, DetectReuse, Login, Logout, SignOut
<1>6. CASE ManageBeneficiary
  BY <1>2, <1>3, <1>6 DEF ManageBeneficiary, AddBeneficiary, InviteBeneficiary,
     ChangeContact, DeleteBeneficiary
<1>7. CASE Age \/ Tick
  BY <1>2, <1>7 DEF Age, AgeFamily, AgeToken, AgeInvitation, Tick
<1>8. CASE Restore
  BY <1>8, RestoreStep
<1> QED
  BY <1>4, <1>5, <1>6, <1>7, <1>8 DEF Next

Open(b, i) == StillInvited(b, i) /\ ~recipient[b].old

\* An invitation that is open was open before the step, or was sent in it.
LEMMA InvitationDies ==
  ASSUME SessionsInvariant, Next, NEW b \in Beneficiary, NEW i \in Invitation, Open(b, i)'
  PROVE  sent[i] = None \/ Open(b, i)
<1>1. recipient \in [Beneficiary -> RecipientRow] /\ i # None
  BY ConstantsAssumption DEF SessionsInvariant, TypeOK
<1>2. /\ recipient'[b].status = "sent" /\ recipient'[b].hash = i /\ ~recipient'[b].old
  BY DEF Open, StillInvited
<1>3. ASSUME recipient'[b] = recipient[b]
      PROVE  Open(b, i)
  BY <1>2, <1>3 DEF Open, StillInvited
<1>4. ASSUME NEW c \in Beneficiary, NEW row, recipient' = [recipient EXCEPT ![c] = row],
             row.hash = None \/ row.status # "sent" \/ row.old
      PROVE  Open(b, i)
  <2>1. CASE c = b
    BY <1>1, <1>2, <1>4, <2>1
  <2>2. CASE c # b
    BY <1>1, <1>3, <1>4, <2>2
  <2> QED
    BY <2>1, <2>2
<1>5. ASSUME NEW p \in Process, FinishAccept(p)
      PROVE  Open(b, i)
  <2> DEFINE c == request[p].to
  <2>1. c \in Beneficiary
    <3>1. request[p] \in Request /\ request[p].op = "accept"
      BY <1>5 DEF SessionsInvariant, TypeOK, FinishAccept
    <3> QED
      BY <3>1 DEF Request, Idle
  <2>2. \/ recipient' = [recipient EXCEPT ![c].status = "accepted", ![c].hash = None]
        \/ recipient' = [recipient EXCEPT ![c].status = "expired"]
        \/ recipient' = recipient
    BY <1>5 DEF FinishAccept, Give
  <2> HIDE DEF c
  <2>3. \/ recipient'[c].status = "accepted" \/ recipient'[c].status = "expired"
        \/ recipient'[c] = recipient[c]
    BY <1>1, <2>1, <2>2 DEF RecipientRow
  <2>4. \A d \in Beneficiary \ {c} : recipient'[d] = recipient[d]
    BY <1>1, <2>1, <2>2
  <2> QED
    BY <1>2, <1>3, <2>3, <2>4
<1>6. ASSUME NEW p \in Process, Serve(p)
      PROVE  Open(b, i)
  BY <1>3, <1>5, <1>6 DEF Serve, BeginAccept, BeginLink, BeginRedeem,
     BeginSignOutEverywhere, Start, FinishLink, FinishRedeem, FinishSignOutEverywhere, Give
<1>7. ASSUME NEW c \in Beneficiary, NEW j \in Invitation, InviteBeneficiary(c, j)
      PROVE  sent[i] = None \/ Open(b, i)
  <2>1. recipient' = [recipient EXCEPT ![c] = [status |-> "sent",
          contact |-> recipient[c].contact, hash |-> j, old |-> FALSE]]
        /\ sent[j] = None
    BY <1>7 DEF InviteBeneficiary
  <2>2. CASE c = b
    BY <1>1, <1>2, <2>1, <2>2
  <2>3. CASE c # b
    BY <1>1, <1>3, <2>1, <2>3
  <2> QED
    BY <2>2, <2>3
<1>8. ASSUME NEW c \in Beneficiary, AddBeneficiary(c) \/ ChangeContact(c) \/ DeleteBeneficiary(c)
      PROVE  Open(b, i)
  <2> DEFINE added == [Absent EXCEPT !.status = "pending"]
             deleted == [Absent EXCEPT !.status = "deleted"]
             moved == NewContact(recipient[c])
  <2>1. \/ recipient' = [recipient EXCEPT ![c] = added]
        \/ recipient' = [recipient EXCEPT ![c] = deleted]
        \/ recipient' = [recipient EXCEPT ![c] = moved]
    BY <1>8 DEF AddBeneficiary, ChangeContact, DeleteBeneficiary
  <2>2. added.status # "sent" /\ deleted.status # "sent" /\ moved.status # "sent"
    BY DEF Absent, NewContact
  <2> HIDE DEF added, deleted, moved
  <2> QED
    BY <1>4, <2>1, <2>2
<1>9. CASE ManageBeneficiary
  BY <1>7, <1>8, <1>9 DEF ManageBeneficiary
<1>10. CASE Age
  <2>1. ASSUME NEW c \in Beneficiary, AgeInvitation(c)
        PROVE  Open(b, i)
    <3>1. recipient' = [recipient EXCEPT ![c].old = TRUE]
      BY <2>1 DEF AgeInvitation
    <3>2. CASE c = b
      BY <1>1, <1>2, <3>1, <3>2 DEF RecipientRow
    <3>3. CASE c # b
      BY <1>1, <1>3, <3>1, <3>3
    <3> QED
      BY <3>2, <3>3
  <2> QED
    BY <1>3, <1>10, <2>1 DEF Age, AgeFamily, AgeToken
<1>11. CASE Restore
  <2>1. recipient'[b].hash = None
    BY <1>11, RestoreStep
  <2> QED
    BY <1>1, <1>2, <2>1
<1>12. CASE UseSession
  BY <1>3, <1>12 DEF UseSession, Rotate, DetectReuse, Login, Logout, SignOut
<1>13. CASE Tick
  BY <1>3, <1>13 DEF Tick
<1> QED
  BY <1>6, <1>9, <1>10, <1>11, <1>12, <1>13 DEF Next

LEMMA LiveIsUsable ==
  ASSUME SessionsInvariant, NEW f \in Family, family[f].state = "live"
  PROVE  Usable(f)
BY DEF SessionsInvariant, FamiliesAreCurrent, SessionsAreAccepted, Usable, ValidFamily

\* A session, a refresh token, a sign-in link or an invitation that was used,
\* revoked, replaced or has expired never works again: not by a replay, and
\* not in a database restored from before its use.
THEOREM DeathIsFinal == Spec => DeadStaysDead
<1>1. ASSUME SessionsInvariant, Next, NEW f \in Family, family[f].state # "unused", Usable(f)'
      PROVE  Usable(f)
  BY <1>1, FamilyDies, LiveIsUsable DEF Usable, ValidFamily
<1>2. ASSUME SessionsInvariant, Next, NEW f \in Family, NEW n \in DOMAIN family[f].refresh,
             TokenWorks(f, n)'
      PROVE  TokenWorks(f, n)
  <2>1. family'[f].state = "live" /\ family'[f].refresh[n] = "no"
    BY <1>2 DEF TokenWorks, Usable, ValidFamily
  <2>2. family[f].state # "unused"
    BY <1>2 DEF SessionsInvariant, FamiliesAreCurrent
  <2>3. family[f].state = "live" /\ family[f].refresh[n] = "no"
    BY <1>2, <2>1, <2>2, FamilyDies
  <2> QED
    BY <1>2, <2>3, LiveIsUsable DEF TokenWorks
<1>3. ASSUME SessionsInvariant, Next, NEW c \in Challenge, challenge[c].state # "unused",
             LinkWorks(c)'
      PROVE  LinkWorks(c)
  <2>1. challenge[c].state = "live" /\ ~Expired(c)
    BY <1>3, ChallengeDies DEF LinkWorks, Redeemable
  <2>2. challenge[c].epoch = epoch /\ Accepted(challenge[c].to, challenge[c].contact)
    BY <1>3, <2>1 DEF SessionsInvariant, ChallengesAreCurrent, ChallengesAreAccepted
  <2> QED
    BY <2>1, <2>2 DEF LinkWorks, Redeemable
<1>4. ASSUME SessionsInvariant, Next, NEW i \in Invitation, sent[i] # None, InvitationWorks(i)'
      PROVE  InvitationWorks(i)
  <2>1. PICK b \in Beneficiary : Open(b, i)'
    BY <1>4 DEF InvitationWorks, Open
  <2>2. Open(b, i)
    BY <1>4, <2>1, InvitationDies
  <2> QED
    BY <2>2 DEF InvitationWorks, Open
<1>5. SessionsInvariant /\ [Next]_vars =>
        [ /\ \A f \in Family :
              /\ family[f].state # "unused" /\ Usable(f)' => Usable(f)
              /\ \A n \in DOMAIN family[f].refresh : TokenWorks(f, n)' => TokenWorks(f, n)
          /\ \A c \in Challenge : challenge[c].state # "unused" /\ LinkWorks(c)' => LinkWorks(c)
          /\ \A i \in Invitation : sent[i] # None /\ InvitationWorks(i)' => InvitationWorks(i)
        ]_vars
  BY <1>1, <1>2, <1>3, <1>4
<1> QED
  BY <1>5, Safety, PTL DEF Spec, DeadStaysDead
=============================================================================
