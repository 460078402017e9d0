--------------------------- MODULE ReleaseProofs ---------------------------
(***************************************************************************)
(* Theorems about Release.tla for every set of beneficiaries, requests and *)
(* settings and every bound.  ReleaseInvariant is proved inductive, one    *)
(* conjunct at a time; the properties that TLC checks follow from it.      *)
(***************************************************************************)
EXTENDS Release, TLAPS

-----------------------------------------------------------------------------
(* Types                                                                   *)

\* What the helpers compute has the type of what they change.
LEMMA Dates ==
  ASSUME TypeOK
  PROVE  Deadline \in Int /\ ReleaseDue \in Int /\ Never \in Int /\ Never \in Days
  BY DEF TypeOK, HeartbeatRow, Days, Deadline, ReleaseDue, Never

LEMMA ActiveType ==
  ASSUME NEW s \in StatusRow
  PROVE  Active(s) \in StatusRow
<1>1. Never \in Int /\ "active" \in VaultState
  BY DEF Never, VaultState
<1> QED
  BY <1>1 DEF Active, StatusRow

LEMMA InGraceType ==
  ASSUME TypeOK, NEW s \in StatusRow
  PROVE  InGrace(s) \in StatusRow
<1> DEFINE e == s.episode + 1
<1>1. e \in Nat /\ "grace" \in VaultState
  BY DEF StatusRow, VaultState
<1> HIDE DEF e
<1>2. [s EXCEPT !.state = "grace", !.graceStart = Deadline, !.episode = e] \in StatusRow
  BY <1>1, Dates DEF StatusRow
<1> QED
  BY <1>2 DEF InGrace, e

LEMMA ReleaseVaultType ==
  ASSUME TypeOK, NEW s \in StatusRow, NEW r \in Reason, NEW at \in Nat,
         ReleaseVault(s, r, at)
  PROVE  vs' \in StatusRow /\ releases' \in Nat /\ jobs' \subseteq JobRow
<1>1. vs' \in StatusRow
  <2>1. at \in Days /\ "triggered" \in VaultState
    BY DEF Days, VaultState
  <2> QED
    BY <2>1 DEF ReleaseVault, StatusRow
<1>2. releases' \in Nat
  BY DEF ReleaseVault, TypeOK
<1>3. [kind : {"released"}, rev : {releases + 1}, to : accepted] \subseteq JobRow
  BY DEF TypeOK, JobRow
<1> QED
  BY <1>1, <1>2, <1>3 DEF ReleaseVault, NotWarnings, TypeOK

\* The rows have their types in the initial state.
LEMMA InitType == Init => TypeOK
<1> SUFFICES ASSUME Init
             PROVE  TypeOK
  OBVIOUS
<1>1. Never \in Int /\ Never \in Days
  BY DEF Never, Days
<1>2. vs \in StatusRow
  BY <1>1 DEF Init, StatusRow, VaultState, Reason
<1>3. hb \in HeartbeatRow
  BY <1>1, ConstantsAssumption DEF Init, HeartbeatRow, Policies
<1> QED
  BY <1>1, <1>2, <1>3 DEF Init, TypeOK, VaultRow

\* A pass of the checker keeps the types, whatever it decides.
LEMMA CheckerType ==
  ASSUME TypeOK, NEW p \in Process, RunChecker(p)
  PROVE  TypeOK'
<1>1. CASE \E at \in 0 .. MaxDay : StartPass(p, at)
  <2>1. PICK at \in 0 .. MaxDay : StartPass(p, at)
    BY <1>1
  <2>2. at \in Days
    BY ConstantsAssumption DEF Days
  <2> QED
    BY <2>1, <2>2 DEF StartPass, TypeOK, release, setup
<1>2. CASE SkipVault(p) \/ FailPass(p)
  BY <1>2, Dates DEF SkipVault, FailPass, EndPass, TypeOK, release, setup
<1>3. CASE WarnVault(p)
  <2>1. vs' \in StatusRow
    BY <1>3, InGraceType DEF WarnVault, TypeOK
  <2>2. vs'.episode \in Nat
    BY <2>1 DEF StatusRow
  <2>3. /\ events' \subseteq [kind : WarningKind, rev : Nat]
        /\ jobs' \subseteq JobRow
    BY <1>3, <2>2 DEF WarnVault, StageWarnings, DueWarnings, TypeOK, JobRow
  <2> QED
    BY <1>3, <2>1, <2>3, Dates DEF WarnVault, EndPass, setup, TypeOK
<1>4. CASE ReleaseSilentVault(p)
  <2>1. pass[p] \in Nat /\ "inactivity" \in Reason /\ InGrace(vs) \in StatusRow
    BY <1>4, InGraceType DEF ReleaseSilentVault, TypeOK, Days, Reason
  <2>2. vs' \in StatusRow /\ releases' \in Nat /\ jobs' \subseteq JobRow
    BY <1>4, <2>1, ReleaseVaultType DEF ReleaseSilentVault
  <2> QED
    BY <1>4, <2>2, Dates DEF ReleaseSilentVault, EndPass, setup, TypeOK
<1> QED
  BY <1>1, <1>2, <1>3, <1>4 DEF RunChecker, EvaluateVault

\* So does a request of the owner.
LEMMA OwnerType ==
  ASSUME TypeOK, NEW t \in Tab, ServeOwner(t)
  PROVE  TypeOK'
<1>1. CASE BeginRequest(t) \/ RefuseRequest(t)
  BY <1>1 DEF BeginRequest, RefuseRequest, EndRequest, release, setup, TypeOK, VaultRow
<1>2. CASE CheckIn(t)
  <2>1. vs' \in StatusRow
    <3>1. [vs EXCEPT !.armed = TRUE] \in StatusRow
      BY DEF TypeOK, StatusRow
    <3> QED
      BY <1>2, <3>1, ActiveType DEF CheckIn
  <2>2. hb' \in HeartbeatRow
    BY <1>2 DEF CheckIn, TypeOK, HeartbeatRow, Days
  <2> QED
    BY <1>2, <2>1, <2>2 DEF CheckIn, NotWarnings, EndRequest, setup, TypeOK
<1>3. CASE \E policy \in Policy, arm \in {"keep", "on", "off"} :
              SaveHeartbeat(t, policy, arm)
  <2>1. PICK policy \in Policy, arm \in {"keep", "on", "off"} :
                SaveHeartbeat(t, policy, arm)
    BY <1>3
  <2>2. vs' \in StatusRow
    <3> DEFINE a == IF arm = "keep" THEN vs.armed ELSE arm = "on"
    <3>1. a \in BOOLEAN
      BY DEF TypeOK, StatusRow
    <3> HIDE DEF a
    <3>2. [vs EXCEPT !.armed = a] \in StatusRow
      BY <3>1 DEF TypeOK, StatusRow
    <3> QED
      BY <2>1, <3>2, ActiveType DEF SaveHeartbeat, a
  <2>3. hb' \in HeartbeatRow
    BY <2>1, ConstantsAssumption DEF SaveHeartbeat, TypeOK, HeartbeatRow, Days, Policies
  <2> QED
    BY <2>1, <2>2, <2>3 DEF SaveHeartbeat, NotWarnings, EndRequest, setup, TypeOK
<1>4. CASE TriggerVault(t)
  <2>1. "manual" \in Reason
    BY DEF Reason
  <2>2. vs' \in StatusRow /\ releases' \in Nat /\ jobs' \subseteq JobRow
    BY <1>4, <2>1, ReleaseVaultType DEF TriggerVault, TypeOK
  <2> QED
    BY <1>4, <2>2 DEF TriggerVault, EndRequest, setup, TypeOK
<1> QED
  BY <1>1, <1>2, <1>3, <1>4 DEF ServeOwner

\* And a change of the recovery setup.
LEMMA SetupType ==
  ASSUME TypeOK, ChangeSetup
  PROVE  TypeOK'
<1>1. CASE Rewrap \/ FinalizeCeremony \/ ReportDrill
  <2> DEFINE m == vault.material + 1
  <2>1. vault.material \in Nat /\ m \in Nat /\ 0 \in Nat
    BY DEF TypeOK, VaultRow
  <2> HIDE DEF m
  <2>2. /\ [vault EXCEPT !.material = m] \in VaultRow
        /\ [vault EXCEPT !.drill = vault.material, !.signed = TRUE] \in VaultRow
        /\ [material |-> m, ceremony |-> m, drill |-> 0,
            quorum |-> FALSE, signed |-> FALSE] \in VaultRow
    BY <2>1 DEF TypeOK, VaultRow
  <2>3. vault' \in VaultRow
    BY <1>1, <2>2 DEF Rewrap, FinalizeCeremony, ReportDrill, m
  <2> QED
    BY <1>1, <2>3 DEF Rewrap, FinalizeCeremony, ReportDrill, release, TypeOK
<1>2. CASE \E q, s \in BOOLEAN : EditAssignments(q, s)
  BY <1>2 DEF EditAssignments, release, TypeOK, VaultRow
<1>3. CASE \E b \in Beneficiary, q, s \in BOOLEAN : AcceptInvitation(b, q)
  BY <1>3 DEF AcceptInvitation, release, TypeOK, VaultRow
<1>4. CASE \E b \in Beneficiary, q, s \in BOOLEAN : DropBeneficiary(b, q, s)
  BY <1>4 DEF DropBeneficiary, TypeOK, VaultRow
<1>5. CASE \E b \in Beneficiary : SignOutEverywhere(b)
  BY <1>5 DEF SignOutEverywhere, setup, TypeOK
<1> QED
  BY <1>1, <1>2, <1>3, <1>4, <1>5 DEF ChangeSetup

\* Types are kept by every step.
LEMMA NextType == TypeOK /\ [Next]_vars => TypeOK'
<1> SUFFICES ASSUME TypeOK, [Next]_vars
             PROVE  TypeOK'
  OBVIOUS
<1>1. CASE Tick
  BY <1>1, ConstantsAssumption DEF Tick, TypeOK, release, setup
<1>2. CASE \E p \in Process : RunChecker(p)
  BY <1>2, CheckerType
<1>3. CASE \E p \in Process, h \in BOOLEAN : Restart(p, h)
  BY <1>3, Dates DEF Restart, TypeOK, release, setup
<1>4. CASE \E t \in Tab : ServeOwner(t)
  BY <1>4, OwnerType
<1>5. CASE \E won \in BOOLEAN : ResetStatus(won)
  <2>1. Active(vs) \in StatusRow /\ Never \in Days /\ "none" \in Reason
    BY ActiveType, Dates DEF TypeOK, Reason
  <2>2. vs' \in StatusRow
    BY <1>5, <2>1 DEF ResetStatus, TypeOK, StatusRow
  <2> QED
    BY <1>5, <2>2 DEF ResetStatus, NotWarnings, setup, TypeOK
<1>6. CASE ChangeSetup
  BY <1>6, SetupType
<1>7. CASE UNCHANGED vars
  BY <1>7 DEF TypeOK, vars
<1> QED
  BY <1>1, <1>2, <1>3, <1>4, <1>5, <1>6, <1>7 DEF Next

\* Every row always holds values of its columns.
THEOREM TypeCorrect == Spec => []TypeOK
  BY InitType, NextType, PTL DEF Spec

-----------------------------------------------------------------------------
(* The inductive invariant                                                 *)

LEMMA InitInvariant == Init => ReleaseInvariant
<1> SUFFICES ASSUME Init
             PROVE  ReleaseInvariant
  OBVIOUS
<1>1. TypeOK
  BY InitType
<1> QED
  BY <1>1 DEF Init, ReleaseInvariant, ArmedOnce, EventsNotAhead, PassInThePast,
              ReleasedForCause, GraceIsDatedAndWarned, WarningsOnlyInGrace,
              OwnerIsWarned, OneReleaseEvent, Never

\* Where the release rows stay, only time and the checker's passes matter.
LEMMA SameRelease ==
  ASSUME ReleaseInvariant, TypeOK', UNCHANGED release, now' >= now, PassInThePast'
  PROVE  ReleaseInvariant'
<1>1. now \in Int /\ now' \in Int /\ vs.triggeredAt \in Int
  BY DEF ReleaseInvariant, TypeOK, StatusRow, Days, Never
<1>2. ReleasedForCause'
  BY <1>1 DEF ReleaseInvariant, ReleasedForCause, ReleaseDue, Deadline, release
<1> QED
  BY <1>2 DEF ReleaseInvariant, release, ArmedOnce, EventsNotAhead, Deadline,
              GraceIsDatedAndWarned, WarningsOnlyInGrace, OwnerIsWarned, OneReleaseEvent

\* The rows that InGrace writes, column by column.
LEMMA InGraceColumns ==
  ASSUME TypeOK
  PROVE  /\ InGrace(vs).armed = vs.armed
         /\ vs.state = "active" =>
              /\ InGrace(vs).state = "grace"
              /\ InGrace(vs).graceStart = Deadline
              /\ InGrace(vs).episode = vs.episode + 1
         /\ vs.state # "active" => InGrace(vs) = vs
  BY DEF InGrace, TypeOK, StatusRow

\* Warning a due vault keeps the invariant: entering grace dates it and opens a
\* new episode, for which nothing was recorded yet.
LEMMA WarnVaultInvariant ==
  ASSUME ReleaseInvariant, TypeOK', NEW p \in Process, WarnVault(p)
  PROVE  ReleaseInvariant'
<1>1. /\ TypeOK /\ vs.armed /\ vs.state # "triggered"
      /\ vs' = InGrace(vs) /\ hb' = hb /\ releases' = releases /\ now' = now
      /\ pass' = [pass EXCEPT ![p] = Never]
      /\ StageWarnings(vs', pass[p])
  BY DEF WarnVault, CanAdvance, EndPass, ReleaseInvariant
<1>2. /\ vs'.armed /\ vs'.state = "grace"
      /\ vs'.graceStart = Deadline
      /\ vs'.episode = IF vs.state = "active" THEN vs.episode + 1 ELSE vs.episode
  BY <1>1, InGraceColumns
  DEF ReleaseInvariant, GraceIsDatedAndWarned, TypeOK, StatusRow, VaultState
<1>3. vs.episode \in Nat /\ vs'.episode \in Nat
  BY <1>1 DEF TypeOK, StatusRow
<1>4. \A e \in events' : e \in events \/ (e.rev = vs'.episode /\ e.kind \in WarningKind)
  BY <1>1 DEF StageWarnings, DueWarnings
<1>5. [kind |-> "grace_first", rev |-> vs'.episode] \in events'
  BY <1>1, <1>3 DEF StageWarnings, DueWarnings, WarningKind
<1>6. \A j \in jobs' : j \in jobs \/ (j.rev = vs'.episode /\ j.kind \in WarningKind)
  <2> DEFINE kinds == {k \in DueWarnings(vs', pass[p]) :
                         [kind |-> k, rev |-> vs'.episode] \notin events}
  <2>1. kinds \subseteq WarningKind
    BY DEF DueWarnings
  <2>2. jobs' = jobs \cup [kind : kinds, rev : {vs'.episode}, to : accepted \cup {Owner}]
    BY <1>1 DEF StageWarnings
  <2> HIDE DEF kinds
  <2> QED
    BY <2>1, <2>2
<1>7. EventsNotAhead'
  BY <1>1, <1>2, <1>3, <1>4 DEF ReleaseInvariant, EventsNotAhead, TypeOK
<1>8. PassInThePast'
  BY <1>1 DEF ReleaseInvariant, PassInThePast, TypeOK, Never
<1>9. GraceIsDatedAndWarned' /\ ReleasedForCause' /\ ArmedOnce'
  BY <1>1, <1>2, <1>5
  DEF ReleaseInvariant, ArmedOnce, GraceIsDatedAndWarned, ReleasedForCause, Deadline
<1>10. WarningsOnlyInGrace'
  BY <1>2, <1>6 DEF ReleaseInvariant, WarningsOnlyInGrace
<1>11. Production => OwnerIsWarned'
  <2>1. CASE vs.state = "active"
    <3>1. [kind |-> "grace_first", rev |-> vs'.episode] \notin events
      BY <1>2, <1>3, <2>1 DEF ReleaseInvariant, EventsNotAhead
    <3> QED
      BY <1>1, <3>1 DEF StageWarnings, DueWarnings, WarningKind, OwnerIsWarned
  <2>2. CASE vs.state = "grace"
    BY <1>1, <1>2, <2>2 DEF StageWarnings, ReleaseInvariant, OwnerIsWarned
  <2> QED
    BY <1>1, <2>1, <2>2 DEF TypeOK, StatusRow, VaultState
<1>12. Production => OneReleaseEvent'
  BY <1>1, <1>2, <1>6 DEF ReleaseInvariant, OneReleaseEvent, WarningKind
<1> QED
  BY <1>7, <1>8, <1>9, <1>10, <1>11, <1>12 DEF ReleaseInvariant

\* A release for inactivity is due by the dates of the locked rows, and ends
\* every warning.
LEMMA ReleaseSilentVaultInvariant ==
  ASSUME ReleaseInvariant, TypeOK', NEW p \in Process, ReleaseSilentVault(p)
  PROVE  ReleaseInvariant'
<1>1. /\ TypeOK /\ vs.armed /\ vs.state # "triggered"
      /\ pass[p] >= ReleaseDue
      /\ ReleaseVault(InGrace(vs), "inactivity", pass[p])
      /\ hb' = hb /\ events' = events /\ now' = now
      /\ pass' = [pass EXCEPT ![p] = Never]
  BY DEF ReleaseSilentVault, CanAdvance, EndPass, ReleaseInvariant
<1>2. InGrace(vs) \in StatusRow
  BY <1>1, InGraceType DEF TypeOK
<1>3. /\ vs'.state = "triggered" /\ vs'.reason = "inactivity"
      /\ vs'.triggeredAt = pass[p]
      /\ vs'.armed
      /\ vs'.episode = IF vs.state = "active" THEN vs.episode + 1 ELSE vs.episode
  BY <1>1, <1>2, InGraceColumns DEF ReleaseVault, StatusRow
<1>4. vs.episode \in Nat /\ pass[p] \in Int
  BY <1>1 DEF TypeOK, StatusRow, Days, Never
<1>5. ReleaseDue' = ReleaseDue
  BY <1>1 DEF ReleaseDue, Deadline
<1>6. ReleasedForCause' /\ ArmedOnce'
  BY <1>1, <1>3, <1>4, <1>5
  DEF ReleaseInvariant, ReleasedForCause, ArmedOnce, PassInThePast
<1>7. EventsNotAhead'
  BY <1>1, <1>3, <1>4 DEF ReleaseInvariant, EventsNotAhead, TypeOK
<1>8. PassInThePast'
  BY <1>1 DEF ReleaseInvariant, PassInThePast, TypeOK, Never
<1>9. GraceIsDatedAndWarned' /\ OwnerIsWarned'
  BY <1>3 DEF GraceIsDatedAndWarned, OwnerIsWarned
<1>10. \A j \in jobs' : j.kind \notin WarningKind /\ (j \in jobs \/ j.rev = releases')
  BY <1>1 DEF ReleaseVault, NotWarnings, WarningKind
<1>11. WarningsOnlyInGrace'
  BY <1>10 DEF WarningsOnlyInGrace
<1>12. Production => OneReleaseEvent'
  <2> HAVE Production
  <2>1. releases = 0 /\ releases' = 1 /\ \A j \in jobs : j.kind # "released"
    BY <1>1 DEF ReleaseInvariant, OneReleaseEvent, ReleaseVault
  <2> QED
    BY <1>1, <1>3, <1>10, <2>1 DEF OneReleaseEvent, ReleaseVault
<1> QED
  BY <1>6, <1>7, <1>8, <1>9, <1>11, <1>12 DEF ReleaseInvariant

\* A check-in ends the grace period and with it the warnings.
LEMMA CheckInInvariant ==
  ASSUME ReleaseInvariant, TypeOK', NEW t \in Tab, CheckIn(t)
  PROVE  ReleaseInvariant'
<1>1. /\ TypeOK /\ vs.state # "triggered"
      /\ hb' = [hb EXCEPT !.last = now]
      /\ vs' = Active([vs EXCEPT !.armed = TRUE])
      /\ jobs' = NotWarnings
      /\ UNCHANGED <<events, releases, now, pass>>
  BY DEF CheckIn, EndRequest, ReleaseInvariant
<1>2. /\ vs'.state = "active" /\ vs'.graceStart = Never /\ vs'.episode = vs.episode
      /\ hb'.last = now
  BY <1>1 DEF Active, TypeOK, StatusRow, HeartbeatRow
<1>3. hb'.last # Never
  BY <1>1, <1>2 DEF TypeOK, Never
<1> QED
  BY <1>1, <1>2, <1>3
  DEF ReleaseInvariant, ArmedOnce, EventsNotAhead, PassInThePast, ReleasedForCause,
      GraceIsDatedAndWarned, WarningsOnlyInGrace, OwnerIsWarned, OneReleaseEvent,
      NotWarnings

\* So do new settings; arming starts the first period.
LEMMA SaveHeartbeatInvariant ==
  ASSUME ReleaseInvariant, TypeOK', NEW t \in Tab, NEW policy \in Policy,
         NEW arm \in {"keep", "on", "off"}, SaveHeartbeat(t, policy, arm)
  PROVE  ReleaseInvariant'
<1> DEFINE a == IF arm = "keep" THEN vs.armed ELSE arm = "on"
<1>1. /\ TypeOK /\ vs.state # "triggered"
      /\ vs' = Active([vs EXCEPT !.armed = a])
      /\ jobs' = NotWarnings
      /\ UNCHANGED <<events, releases, now, pass>>
  BY DEF SaveHeartbeat, EndRequest, ReleaseInvariant
<1>2. hb'.last = IF arm = "on" /\ hb.last = Never THEN now ELSE hb.last
  BY DEF SaveHeartbeat
<1>3. /\ vs'.state = "active" /\ vs'.graceStart = Never /\ vs'.episode = vs.episode
      /\ vs'.armed = a
  BY <1>1 DEF Active, TypeOK, StatusRow
<1>4. ArmedOnce'
  <2>1. CASE arm = "on"
    BY <1>1, <1>2, <2>1 DEF ArmedOnce, TypeOK, Never
  <2>2. CASE arm = "keep"
    BY <1>2, <1>3, <2>2 DEF ReleaseInvariant, ArmedOnce
  <2>3. CASE arm = "off"
    BY <1>3, <2>3 DEF ArmedOnce
  <2> QED
    BY <2>1, <2>2, <2>3
<1> HIDE DEF a
<1> QED
  BY <1>1, <1>3, <1>4
  DEF ReleaseInvariant, EventsNotAhead, PassInThePast, ReleasedForCause,
      GraceIsDatedAndWarned, WarningsOnlyInGrace, OwnerIsWarned, OneReleaseEvent,
      NotWarnings

\* The owner's own release has no cause to show, but is the only one.
LEMMA TriggerVaultInvariant ==
  ASSUME ReleaseInvariant, TypeOK', NEW t \in Tab, TriggerVault(t)
  PROVE  ReleaseInvariant'
<1>1. /\ TypeOK /\ vs.state # "triggered"
      /\ ReleaseVault(vs, "manual", now)
      /\ UNCHANGED <<hb, events, now, pass>>
  BY DEF TriggerVault, EndRequest, ReleaseInvariant
<1>2. /\ vs'.state = "triggered" /\ vs'.reason = "manual"
      /\ vs'.episode = vs.episode /\ vs'.armed = vs.armed
  BY <1>1 DEF ReleaseVault, TypeOK, StatusRow
<1>3. \A j \in jobs' : j.kind \notin WarningKind /\ (j \in jobs \/ j.rev = releases')
  BY <1>1 DEF ReleaseVault, NotWarnings, WarningKind
<1>4. Production => OneReleaseEvent'
  <2> HAVE Production
  <2>1. releases = 0 /\ releases' = 1 /\ \A j \in jobs : j.kind # "released"
    BY <1>1 DEF ReleaseInvariant, OneReleaseEvent, ReleaseVault
  <2> QED
    BY <1>1, <1>2, <1>3, <2>1 DEF OneReleaseEvent, ReleaseVault
<1> QED
  BY <1>1, <1>2, <1>3, <1>4
  DEF ReleaseInvariant, ArmedOnce, EventsNotAhead, PassInThePast, ReleasedForCause,
      GraceIsDatedAndWarned, WarningsOnlyInGrace, OwnerIsWarned

\* Outside production a reset ends the grace period or loses the race for the
\* row; it cancels the warnings in both cases.
LEMMA ResetStatusInvariant ==
  ASSUME ReleaseInvariant, TypeOK', NEW won \in BOOLEAN, ResetStatus(won)
  PROVE  ReleaseInvariant'
<1>1. /\ TypeOK /\ ~Production
      /\ vs' = IF won
               THEN [Active(vs) EXCEPT !.triggeredAt = Never, !.reason = "none"]
               ELSE vs
      /\ jobs' = NotWarnings
      /\ UNCHANGED <<hb, events, now, pass>>
  BY DEF ResetStatus, ReleaseInvariant
<1>2. /\ vs'.armed = vs.armed /\ vs'.episode = vs.episode
      /\ won => vs'.state = "active" /\ vs'.graceStart = Never
      /\ ~won => vs' = vs
  BY <1>1 DEF Active, TypeOK, StatusRow
<1>3. WarningsOnlyInGrace'
  BY <1>1 DEF WarningsOnlyInGrace, NotWarnings
<1>4. ReleasedForCause'
  BY <1>1, <1>2 DEF ReleaseInvariant, ReleasedForCause, ReleaseDue, Deadline
<1>5. GraceIsDatedAndWarned'
  BY <1>1, <1>2 DEF ReleaseInvariant, GraceIsDatedAndWarned, Deadline
<1> QED
  BY <1>1, <1>2, <1>3, <1>4, <1>5
  DEF ReleaseInvariant, ArmedOnce, EventsNotAhead, PassInThePast

\* What cancels a beneficiary's messages cancels none of the owner's.
LEMMA DropBeneficiaryInvariant ==
  ASSUME ReleaseInvariant, TypeOK', NEW b \in Beneficiary, NEW q \in BOOLEAN,
         NEW s \in BOOLEAN, DropBeneficiary(b, q, s) \/ SignOutEverywhere(b)
  PROVE  ReleaseInvariant'
<1>1. /\ jobs' = {j \in jobs : j.to # b}
      /\ UNCHANGED <<now, vs, hb, events, releases, pass>>
      /\ b # Owner
  BY ConstantsAssumption DEF DropBeneficiary, SignOutEverywhere, Owner
<1> QED
  BY <1>1
  DEF ReleaseInvariant, ArmedOnce, EventsNotAhead, PassInThePast, ReleasedForCause,
      ReleaseDue, Deadline, GraceIsDatedAndWarned, WarningsOnlyInGrace,
      OwnerIsWarned, OneReleaseEvent

\* The clock is never put back.
LEMMA TimePasses ==
  ASSUME TypeOK, [Next]_vars
  PROVE  now' >= now
<1>1. CASE Tick
  BY <1>1 DEF Tick, TypeOK
<1>2. CASE now' = now
  BY <1>2 DEF TypeOK
<1> QED
  BY <1>1, <1>2
  DEF Next, vars, RunChecker, EvaluateVault, StartPass, SkipVault, WarnVault,
      ReleaseSilentVault, FailPass, EndPass, Restart, ServeOwner, BeginRequest,
      RefuseRequest, CheckIn, SaveHeartbeat, TriggerVault, EndRequest, ResetStatus,
      ChangeSetup, Rewrap, FinalizeCeremony, ReportDrill, EditAssignments,
      AcceptInvitation, DropBeneficiary, SignOutEverywhere

\* The invariant is kept by every step of every process.
LEMMA NextInvariant == ReleaseInvariant /\ [Next]_vars => ReleaseInvariant'
<1> SUFFICES ASSUME ReleaseInvariant, [Next]_vars
             PROVE  ReleaseInvariant'
  OBVIOUS
<1>1. TypeOK /\ TypeOK'
  BY NextType DEF ReleaseInvariant
<1>2. now' >= now
  BY <1>1, TimePasses
<1>3. CASE Tick \/ UNCHANGED vars
  <2>1. PassInThePast'
    BY <1>1, <1>2, <1>3
    DEF Tick, vars, ReleaseInvariant, PassInThePast, TypeOK, Days, Never
  <2>2. UNCHANGED release
    BY <1>3 DEF Tick, vars, release
  <2> QED
    BY <1>1, <1>2, <2>1, <2>2, SameRelease
<1>4. CASE \E p \in Process : RunChecker(p)
  <2>1. PICK p \in Process : RunChecker(p)
    BY <1>4
  <2>2. CASE \E at \in 0 .. MaxDay : StartPass(p, at)
    <3>1. PassInThePast' /\ UNCHANGED release
      BY <1>1, <2>2 DEF StartPass, ReleaseInvariant, PassInThePast, TypeOK, Process
    <3> QED
      BY <1>1, <1>2, <3>1, SameRelease
  <2>3. CASE SkipVault(p) \/ FailPass(p)
    <3>1. PassInThePast' /\ UNCHANGED release
      BY <1>1, <2>3
      DEF SkipVault, FailPass, EndPass, ReleaseInvariant, PassInThePast, TypeOK, Never
    <3> QED
      BY <1>1, <1>2, <3>1, SameRelease
  <2> QED
    BY <1>1, <2>1, <2>2, <2>3, WarnVaultInvariant, ReleaseSilentVaultInvariant
    DEF RunChecker, EvaluateVault
<1>5. CASE \E p \in Process, h \in BOOLEAN : Restart(p, h)
  <2>1. PassInThePast' /\ UNCHANGED release
    BY <1>1, <1>5 DEF Restart, ReleaseInvariant, PassInThePast, TypeOK, Never
  <2> QED
    BY <1>1, <1>2, <2>1, SameRelease
<1>6. CASE \E t \in Tab : ServeOwner(t)
  <2>1. PICK t \in Tab : ServeOwner(t)
    BY <1>6
  <2>2. CASE BeginRequest(t) \/ RefuseRequest(t)
    <3>1. PassInThePast' /\ UNCHANGED release
      BY <2>2 DEF BeginRequest, RefuseRequest, EndRequest, ReleaseInvariant, PassInThePast
    <3> QED
      BY <1>1, <1>2, <3>1, SameRelease
  <2> QED
    BY <1>1, <2>1, <2>2, CheckInInvariant, SaveHeartbeatInvariant, TriggerVaultInvariant
    DEF ServeOwner
<1>7. CASE \E won \in BOOLEAN : ResetStatus(won)
  BY <1>1, <1>7, ResetStatusInvariant
<1>8. CASE ChangeSetup
  <2>1. CASE UNCHANGED release /\ UNCHANGED pass /\ UNCHANGED now
    <3>1. PassInThePast'
      BY <2>1 DEF ReleaseInvariant, PassInThePast
    <3> QED
      BY <1>1, <1>2, <2>1, <3>1, SameRelease
  <2> QED
    BY <1>1, <1>8, <2>1, DropBeneficiaryInvariant
    DEF ChangeSetup, Rewrap, FinalizeCeremony, ReportDrill, EditAssignments, AcceptInvitation
<1> QED
  BY <1>3, <1>4, <1>5, <1>6, <1>7, <1>8 DEF Next

\* The invariant always holds.
THEOREM InvariantHolds == Spec => []ReleaseInvariant
  BY InitInvariant, NextInvariant, PTL DEF Spec

\* A vault is released for inactivity only for its cause: armed, and silent for
\* the whole interval and grace period of the settings the table shows, however
\* check-ins, settings, passes and restarts interleave.
THEOREM ReleasedForCauseHolds == Spec => []ReleasedForCause
<1>1. ReleaseInvariant => ReleasedForCause
  BY DEF ReleaseInvariant
<1> QED
  BY <1>1, InvariantHolds, PTL

\* In every deployment a grace period is dated from the missed deadline and its
\* own first warning is on record, ...
THEOREM GraceHolds == Spec => []GraceIsDatedAndWarned
<1>1. ReleaseInvariant => GraceIsDatedAndWarned
  BY DEF ReleaseInvariant
<1> QED
  BY <1>1, InvariantHolds, PTL

\* ... and no warning outlives it.
THEOREM WarningsOnlyInGraceHolds == Spec => []WarningsOnlyInGrace
<1>1. ReleaseInvariant => WarningsOnlyInGrace
  BY DEF ReleaseInvariant
<1> QED
  BY <1>1, InvariantHolds, PTL

\* In production the first warning to the owner stands while grace runs.
THEOREM OwnerIsWarnedHolds == Spec => [](Production => OwnerIsWarned)
<1>1. ReleaseInvariant => (Production => OwnerIsWarned)
  BY DEF ReleaseInvariant
<1> QED
  BY <1>1, InvariantHolds, PTL

\* In production a vault is released at most once, and notices are only of
\* that release.
THEOREM OneReleaseEventHolds == Spec => [](Production => OneReleaseEvent)
<1>1. ReleaseInvariant => (Production => OneReleaseEvent)
  BY DEF ReleaseInvariant
<1> QED
  BY <1>1, InvariantHolds, PTL

-----------------------------------------------------------------------------
(* What a step may do                                                      *)

\* The status and heartbeat rows change in seven actions only.
LEMMA StepsOfTheRows ==
  ASSUME [Next]_vars
  PROVE  \/ UNCHANGED <<vs, hb>>
         \/ \E p \in Process : WarnVault(p) \/ ReleaseSilentVault(p)
         \/ \E t \in Tab : CheckIn(t) \/ TriggerVault(t)
         \/ \E t \in Tab, policy \in Policy, arm \in {"keep", "on", "off"} :
               SaveHeartbeat(t, policy, arm)
         \/ \E won \in BOOLEAN : ResetStatus(won)
<1>1. CASE Tick \/ UNCHANGED vars
  BY <1>1 DEF Tick, vars, release
<1>2. CASE \E p \in Process : RunChecker(p)
  BY <1>2 DEF RunChecker, EvaluateVault, StartPass, SkipVault, FailPass, release
<1>3. CASE \E p \in Process, h \in BOOLEAN : Restart(p, h)
  BY <1>3 DEF Restart, release
<1>4. CASE \E t \in Tab : ServeOwner(t)
  BY <1>4 DEF ServeOwner, BeginRequest, RefuseRequest, release
<1>5. CASE ChangeSetup
  BY <1>5 DEF ChangeSetup, Rewrap, FinalizeCeremony, ReportDrill, EditAssignments,
              AcceptInvitation, DropBeneficiary, SignOutEverywhere, release
<1> QED
  BY <1>1, <1>2, <1>3, <1>4, <1>5 DEF Next

LEMMA StepsOfEvents ==
  ASSUME [Next]_vars
  PROVE  events' = events \/ \E p \in Process : WarnVault(p)
<1>1. CASE \E p \in Process : RunChecker(p)
  BY <1>1 DEF RunChecker, EvaluateVault, StartPass, SkipVault, ReleaseSilentVault, FailPass,
              release
<1>2. CASE \E t \in Tab : ServeOwner(t)
  BY <1>2 DEF ServeOwner, BeginRequest, RefuseRequest, CheckIn, SaveHeartbeat, TriggerVault,
              release
<1>3. CASE ChangeSetup
  BY <1>3 DEF ChangeSetup, Rewrap, FinalizeCeremony, ReportDrill, EditAssignments,
              AcceptInvitation, DropBeneficiary, SignOutEverywhere, release
<1> QED
  BY <1>1, <1>2, <1>3 DEF Next, vars, Tick, Restart, ResetStatus, release

\* What a checker pass records is due at its evaluation time, which is past;
\* and what changes the dates ends the grace period.
LEMMA TimelyStep ==
  ASSUME ReleaseInvariant, [Next]_vars, WarningsAreTimely
  PROVE  WarningsAreTimely'
<1> SUFFICES ASSUME Production, vs'.state = "grace", NEW e \in events', e.rev = vs'.episode
             PROVE  /\ e.kind = "grace_second" =>
                         /\ hb'.grace > SecondWarningAfter
                         /\ now' >= Deadline' + SecondWarningAfter
                    /\ e.kind = "grace_final" => now' >= ReleaseDue' - FinalWarningWithin
  BY DEF WarningsAreTimely
<1>1. /\ TypeOK /\ TypeOK' /\ now \in Int /\ now' \in Int /\ now' >= now
      /\ Deadline \in Int /\ ReleaseDue \in Int /\ SecondWarningAfter \in Int
      /\ FinalWarningWithin \in Int
  BY NextType, TimePasses, Dates, ConstantsAssumption
  DEF ReleaseInvariant, TypeOK, FinalWarningWithin
<1>2. ASSUME UNCHANGED <<vs, hb>>, e \in events
      PROVE  /\ e.kind = "grace_second" =>
                  /\ hb'.grace > SecondWarningAfter
                  /\ now' >= Deadline' + SecondWarningAfter
             /\ e.kind = "grace_final" => now' >= ReleaseDue' - FinalWarningWithin
  <2>1. Deadline' = Deadline /\ ReleaseDue' = ReleaseDue
    BY <1>2 DEF Deadline, ReleaseDue
  <2>2. /\ e.kind = "grace_second" =>
             hb.grace > SecondWarningAfter /\ now >= Deadline + SecondWarningAfter
        /\ e.kind = "grace_final" => now >= ReleaseDue - FinalWarningWithin
    BY <1>2 DEF WarningsAreTimely
  <2> QED
    BY <1>1, <1>2, <2>1, <2>2
<1>3. ASSUME NEW p \in Process, WarnVault(p)
      PROVE  /\ e.kind = "grace_second" =>
                  /\ hb'.grace > SecondWarningAfter
                  /\ now' >= Deadline' + SecondWarningAfter
             /\ e.kind = "grace_final" => now' >= ReleaseDue' - FinalWarningWithin
  <2>1. /\ vs.state # "triggered" /\ vs' = InGrace(vs) /\ UNCHANGED <<hb, now>>
        /\ StageWarnings(vs', pass[p])
    BY <1>3 DEF WarnVault, CanAdvance, EndPass
  <2>2. /\ vs'.graceStart = Deadline /\ vs.episode \in Nat
        /\ vs.state = "active" => vs'.episode = vs.episode + 1
        /\ vs.state # "active" => vs' = vs
    BY <1>1, <2>1, InGraceColumns
    DEF ReleaseInvariant, GraceIsDatedAndWarned, TypeOK, StatusRow, VaultState
  <2>3. e \in events \/ e.kind \in DueWarnings(vs', pass[p])
    BY <2>1 DEF StageWarnings
  <2>4. CASE e \in events
    <3>1. vs.state # "active"
      BY <2>2, <2>4 DEF ReleaseInvariant, EventsNotAhead
    <3> QED
      BY <1>2, <2>1, <2>2, <2>4, <3>1
  <2>5. CASE e.kind \in DueWarnings(vs', pass[p])
    <3>1. pass[p] \in Int /\ pass[p] <= now
      BY <1>1 DEF TypeOK, Days, Never, ReleaseInvariant, PassInThePast
    <3>2. Deadline' = Deadline /\ ReleaseDue' = ReleaseDue
      BY <2>1 DEF Deadline, ReleaseDue
    <3>3. /\ e.kind = "grace_second" => /\ pass[p] - Deadline >= SecondWarningAfter
                                        /\ hb.grace > SecondWarningAfter
          /\ e.kind = "grace_final" => ReleaseDue - pass[p] <= FinalWarningWithin
      BY <2>2, <2>5 DEF DueWarnings
    <3> QED
      BY <1>1, <2>1, <3>1, <3>2, <3>3
  <2> QED
    BY <2>3, <2>4, <2>5
<1>4. ASSUME NEW p \in Process, ReleaseSilentVault(p)
      PROVE  FALSE
  <2>1. ReleaseVault(InGrace(vs), "inactivity", pass[p]) /\ InGrace(vs) \in StatusRow
    BY <1>1, <1>4, InGraceType DEF ReleaseSilentVault, TypeOK
  <2> QED
    BY <2>1 DEF ReleaseVault, StatusRow
<1>5. ASSUME NEW t \in Tab, TriggerVault(t)
      PROVE  FALSE
  BY <1>1, <1>5 DEF TriggerVault, ReleaseVault, TypeOK, StatusRow
<1>6. ASSUME NEW s, s \in StatusRow
      PROVE  vs' # Active(s)
  BY <1>6 DEF Active, StatusRow
<1>7. ASSUME NEW t \in Tab, CheckIn(t)
      PROVE  FALSE
  <2>1. [vs EXCEPT !.armed = TRUE] \in StatusRow
    BY <1>1 DEF TypeOK, StatusRow
  <2> QED
    BY <1>6, <1>7, <2>1 DEF CheckIn
<1>8. ASSUME NEW t \in Tab, NEW policy \in Policy, NEW arm \in {"keep", "on", "off"},
             SaveHeartbeat(t, policy, arm)
      PROVE  FALSE
  <2> DEFINE a == IF arm = "keep" THEN vs.armed ELSE arm = "on"
  <2>1. a \in BOOLEAN /\ vs' = Active([vs EXCEPT !.armed = a])
    BY <1>1, <1>8 DEF SaveHeartbeat, TypeOK, StatusRow
  <2> HIDE DEF a
  <2>2. [vs EXCEPT !.armed = a] \in StatusRow
    BY <1>1, <2>1 DEF TypeOK, StatusRow
  <2> QED
    BY <1>6, <2>1, <2>2
<1>9. ASSUME NEW won \in BOOLEAN, ResetStatus(won)
      PROVE  FALSE
  BY <1>9 DEF ResetStatus
<1> QED
  BY <1>2, <1>3, <1>4, <1>5, <1>7, <1>8, <1>9, StepsOfTheRows, StepsOfEvents

\* In production a later warning of the running grace period is on record only
\* when it was due by the dates that the tables show.
THEOREM WarningsAreTimelyHolds == Spec => []WarningsAreTimely
<1>1. Init => WarningsAreTimely
  BY DEF Init, WarningsAreTimely
<1>2. ReleaseInvariant /\ WarningsAreTimely /\ [Next]_vars => WarningsAreTimely'
  BY TimelyStep
<1> QED
  BY <1>1, <1>2, InvariantHolds, PTL DEF Spec

LEMMA TerminalStep ==
  ASSUME Production, TypeOK, [Next]_vars, vs.state = "triggered"
  PROVE  UNCHANGED <<vs, hb, events, releases, vault.material>>
<1>1. UNCHANGED <<vs, hb>>
  BY StepsOfTheRows
  DEF WarnVault, ReleaseSilentVault, CanAdvance, CheckIn, TriggerVault, SaveHeartbeat,
      ResetStatus
<1>2. CASE Tick \/ UNCHANGED vars
  BY <1>2 DEF Tick, vars, release, setup
<1>3. CASE \E p \in Process : RunChecker(p)
  BY <1>3 DEF RunChecker, EvaluateVault, StartPass, SkipVault, FailPass, WarnVault,
              ReleaseSilentVault, CanAdvance, EndPass, release, setup
<1>4. CASE \E p \in Process, h \in BOOLEAN : Restart(p, h)
  BY <1>4 DEF Restart, release, setup
<1>5. CASE \E t \in Tab : ServeOwner(t)
  BY <1>5 DEF ServeOwner, BeginRequest, RefuseRequest, CheckIn, SaveHeartbeat,
              TriggerVault, EndRequest, release, setup
<1>6. CASE ChangeSetup
  <2>1. UNCHANGED <<events, releases>> /\ ~Rewrap /\ ~FinalizeCeremony
    BY <1>6 DEF ChangeSetup, Rewrap, FinalizeCeremony, ReportDrill, EditAssignments,
                AcceptInvitation, DropBeneficiary, SignOutEverywhere, release
  <2>2. vault'.material = vault.material
    BY <1>6, <2>1 DEF ChangeSetup, ReportDrill, EditAssignments, AcceptInvitation,
                      DropBeneficiary, SignOutEverywhere, setup, TypeOK, VaultRow
  <2> QED
    BY <1>1, <2>1, <2>2
<1>7. CASE \E won \in BOOLEAN : ResetStatus(won)
  BY <1>7 DEF ResetStatus
<1> QED
  BY <1>1, <1>2, <1>3, <1>4, <1>5, <1>6, <1>7 DEF Next

\* In production nothing that the code does changes the status, the heartbeat
\* or the key material of a released vault.
THEOREM TerminalHolds == ASSUME Production PROVE Spec => ReleaseIsTerminal
<1>1. TypeOK /\ [Next]_vars =>
        [vs.state = "triggered" =>
            UNCHANGED <<vs, hb, events, releases, vault.material>>]_vars
  BY TerminalStep
<1> QED
  BY <1>1, TypeCorrect, PTL DEF Spec, ReleaseIsTerminal

LEMMA SilentReleaseStep ==
  ASSUME TypeOK, [Next]_vars, vs.state # "triggered",
         vs'.state = "triggered", vs'.reason = "inactivity"
  PROVE  Ready(vault.material)
<1>1. CASE \E p \in Process : WarnVault(p) \/ ReleaseSilentVault(p)
  BY <1>1 DEF WarnVault, ReleaseSilentVault, CanAdvance
<1>2. CASE \E t \in Tab : CheckIn(t)
  BY <1>2 DEF CheckIn, Active, TypeOK, StatusRow
<1>3. CASE \E t \in Tab : TriggerVault(t)
  BY <1>3 DEF TriggerVault, ReleaseVault, TypeOK, StatusRow
<1>4. CASE \E t \in Tab, policy \in Policy, arm \in {"keep", "on", "off"} :
              SaveHeartbeat(t, policy, arm)
  <2>1. PICK t \in Tab, policy \in Policy, arm \in {"keep", "on", "off"} :
                SaveHeartbeat(t, policy, arm)
    BY <1>4
  <2> DEFINE a == IF arm = "keep" THEN vs.armed ELSE arm = "on"
  <2>2. vs' = Active([vs EXCEPT !.armed = a])
    BY <2>1 DEF SaveHeartbeat
  <2> HIDE DEF a
  <2> QED
    BY <2>2 DEF Active, TypeOK, StatusRow
<1>5. CASE \E won \in BOOLEAN : ResetStatus(won)
  BY <1>5 DEF ResetStatus, Active, TypeOK, StatusRow
<1> QED
  BY <1>1, <1>2, <1>3, <1>4, <1>5, StepsOfTheRows

\* A release for inactivity always finds the committed setup ready, whatever
\* changed between the selection of the vault and its evaluation.
THEOREM SilentReleaseIsReadyHolds == Spec => SilentReleaseIsReady
<1>1. TypeOK /\ [Next]_vars =>
        [vs.state # "triggered" /\ vs'.state = "triggered" /\ vs'.reason = "inactivity"
            => Ready(vault.material)]_vars
  BY SilentReleaseStep
<1> QED
  BY <1>1, TypeCorrect, PTL DEF Spec, SilentReleaseIsReady

-----------------------------------------------------------------------------
(* Refinement                                                              *)

Windows == {p.interval + p.grace : p \in Policy \cup {DefaultPolicy}}

LEMMA SwitchInit == Init => Switch!Init
  BY DEF Init, Switch!Init, Never

LEMMA SwitchStep ==
  ASSUME Production, ReleaseInvariant, ReleaseInvariant', [Next]_vars
  PROVE  [Switch!Next]_(Switch!vars)
<1>1. /\ TypeOK /\ TypeOK' /\ now \in Nat
      /\ hb.last \in Int /\ hb.interval \in Int /\ hb.grace \in Int
      /\ ArmedOnce /\ ArmedOnce'
  BY DEF ReleaseInvariant, TypeOK, HeartbeatRow, Days, Never
<1>2. CASE UNCHANGED <<now, vs, hb>>
  BY <1>2 DEF Switch!vars
<1>3. CASE Tick
  BY <1>1, <1>3 DEF Tick, release, Switch!Next, Switch!Tick
<1>4. ASSUME NEW p \in Process, WarnVault(p)
      PROVE  UNCHANGED Switch!vars
  <2>1. vs' = InGrace(vs) /\ vs.state # "triggered" /\ UNCHANGED <<now, hb>>
    BY <1>4 DEF WarnVault, CanAdvance, EndPass
  <2>2. vs'.state # "triggered" /\ vs'.armed = vs.armed
    BY <1>1, <2>1, InGraceColumns
  <2> QED
    BY <2>1, <2>2 DEF Switch!vars
<1>5. ASSUME NEW p \in Process, ReleaseSilentVault(p)
      PROVE  Switch!ReleaseBySilence
  <2>1. /\ vs.state # "triggered" /\ vs.armed /\ pass[p] >= ReleaseDue
        /\ ReleaseVault(InGrace(vs), "inactivity", pass[p])
        /\ UNCHANGED <<now, hb>>
    BY <1>5 DEF ReleaseSilentVault, CanAdvance, EndPass
  <2>2. vs'.state = "triggered" /\ vs'.armed = vs.armed /\ vs'.reason = "inactivity"
    BY <1>1, <2>1, InGraceType, InGraceColumns DEF ReleaseVault, StatusRow, TypeOK
  <2>3. now >= hb.last + (hb.interval + hb.grace)
    <3>1. pass[p] \in Int /\ pass[p] <= now
      BY <1>1 DEF TypeOK, Days, Never, ReleaseInvariant, PassInThePast
    <3> QED
      BY <1>1, <2>1, <3>1 DEF ReleaseDue, Deadline
  <2>4. hb.last # -1
    BY <1>1, <2>1 DEF ArmedOnce, Never
  <2> QED
    BY <2>1, <2>2, <2>3, <2>4 DEF Switch!ReleaseBySilence
<1>6. ASSUME NEW t \in Tab, CheckIn(t)
      PROVE  Switch!CheckIn
  <2>1. /\ vs.state # "triggered" /\ hb' = [hb EXCEPT !.last = now]
        /\ vs' = Active([vs EXCEPT !.armed = TRUE]) /\ now' = now
    BY <1>6 DEF CheckIn, EndRequest
  <2>2. /\ vs'.state = "active" /\ vs'.armed = TRUE
        /\ hb'.last = now /\ hb'.interval = hb.interval /\ hb'.grace = hb.grace
    BY <1>1, <2>1 DEF Active, TypeOK, StatusRow, HeartbeatRow
  <2> QED
    BY <2>1, <2>2 DEF Switch!CheckIn
<1>7. ASSUME NEW t \in Tab, TriggerVault(t)
      PROVE  Switch!ReleaseByOwner
  <2>1. vs.state # "triggered" /\ ReleaseVault(vs, "manual", now) /\ UNCHANGED <<now, hb>>
    BY <1>7 DEF TriggerVault, EndRequest
  <2>2. vs'.state = "triggered" /\ vs'.armed = vs.armed /\ vs'.reason = "manual"
    BY <1>1, <2>1 DEF ReleaseVault, TypeOK, StatusRow
  <2> QED
    BY <2>1, <2>2 DEF Switch!ReleaseByOwner
<1>8. ASSUME NEW t \in Tab, NEW policy \in Policy, NEW arm \in {"keep", "on", "off"},
             SaveHeartbeat(t, policy, arm)
      PROVE  Switch!Configure
  <2> DEFINE a == IF arm = "keep" THEN vs.armed ELSE arm = "on"
  <2>1. /\ vs.state # "triggered" /\ now' = now
        /\ hb'.interval = policy.interval /\ hb'.grace = policy.grace
        /\ hb'.last = IF arm = "on" /\ hb.last = Never THEN now ELSE hb.last
        /\ vs' = Active([vs EXCEPT !.armed = a])
    BY <1>8 DEF SaveHeartbeat, EndRequest
  <2>2. a \in BOOLEAN
    BY <1>1 DEF TypeOK, StatusRow
  <2> HIDE DEF a
  <2>3. vs'.state = "active" /\ vs'.armed = a
    BY <1>1, <2>1 DEF Active, TypeOK, StatusRow
  <2>4. hb'.last = IF hb.last = -1 /\ a THEN now ELSE hb.last
    <3>1. CASE arm = "on"
      BY <2>1, <3>1 DEF a, Never
    <3>2. CASE arm = "keep"
      BY <1>1, <2>1, <3>2 DEF a, ArmedOnce, Never
    <3>3. CASE arm = "off"
      BY <2>1, <3>3 DEF a
    <3> QED
      BY <3>1, <3>2, <3>3
  <2>5. hb'.interval + hb'.grace \in Windows
    BY <2>1 DEF Windows
  <2> QED
    BY <2>1, <2>2, <2>3, <2>4, <2>5 DEF Switch!Configure, Windows
<1>9. CASE ~(Tick \/ UNCHANGED now)
  BY <1>9
  DEF Next, vars, RunChecker, EvaluateVault, StartPass, SkipVault, WarnVault,
      ReleaseSilentVault, FailPass, EndPass, Restart, ServeOwner, BeginRequest,
      RefuseRequest, CheckIn, SaveHeartbeat, TriggerVault, EndRequest, ResetStatus,
      ChangeSetup, Rewrap, FinalizeCeremony, ReportDrill, EditAssignments,
      AcceptInvitation, DropBeneficiary, SignOutEverywhere
<1> QED
  BY <1>2, <1>3, <1>4, <1>5, <1>6, <1>7, <1>8, <1>9, StepsOfTheRows
  DEF ResetStatus, Switch!Next

\* In production the checker, the requests and the restarts together implement
\* the dead man's switch: every step releases, checks in, configures, lets time
\* pass, or changes nothing that the owner was promised.
THEOREM SwitchImplemented == ASSUME Production PROVE Spec => ImplementsSwitch
<1>1. ReleaseInvariant /\ ReleaseInvariant' /\ [Next]_vars => [Switch!Next]_(Switch!vars)
  BY SwitchStep
<1> QED
  BY <1>1, SwitchInit, InvariantHolds, PTL DEF Spec, Switch!Spec, ImplementsSwitch
=============================================================================
