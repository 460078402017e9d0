------------------------------ MODULE Release ------------------------------
(***************************************************************************)
(* The release authority of one vault: the heartbeat checker of every      *)
(* process, the owner's check-in, heartbeat settings and manual release,   *)
(* the changes of the recovery setup that decide whether a release is      *)
(* allowed, and restarts that change a process's RELEASE_HOLD.             *)
(*                                                                         *)
(* Every handler that takes part locks the VaultStatus row first           *)
(* (lock_status) and commits once, so what it does after the lock is one   *)
(* action.  What it read BEFORE the lock is a step of its own, kept in     *)
(* pass (the checker's evaluation time, fixed when its candidates were     *)
(* selected) and in req (the Vault row that a request loaded, which the    *)
(* session's identity map hands back to the readiness gate after the       *)
(* lock).                                                                  *)
(*                                                                         *)
(* A day is the unit of time.  jobs holds the deliveries staged and not    *)
(* cancelled; sending them is the business of Outbox.tla.                  *)
(***************************************************************************)
EXTENDS Integers, FiniteSets

CONSTANTS
    Production,         \* settings.environment = "production"
    Beneficiary,        \* the beneficiary rows that can exist
    Tab,                \* the owner's concurrent requests
    Policy,             \* heartbeat settings: [interval, grace]
    DefaultPolicy,      \* the settings of a vault that never saved any
    SecondWarningAfter, \* days of grace before the second warning: 3 in the code
    MaxDay,             \* bound: the last day
    MaxEpisode,         \* bound: grace periods
    MaxRevision,        \* bound: changes of the key material
    MaxReleases         \* bound: releases (more than one only after a reset)

Policies == [interval : Nat \ {0}, grace : Nat \ {0}]

ASSUME ConstantsAssumption ==
    /\ Production \in BOOLEAN
    /\ Policy \subseteq Policies
    /\ \A p \in Policy : p.grace <= p.interval
    /\ DefaultPolicy \in Policies
    /\ SecondWarningAfter \in Nat \ {0}
    /\ MaxDay \in Nat /\ MaxEpisode \in Nat
    /\ MaxRevision \in Nat /\ MaxReleases \in Nat \ {0}
    /\ "owner" \notin Beneficiary

Process == {"api", "worker"}

Never == -1     \* a NULL timestamp; no checker pass running; no request
Owner == "owner"        \* the owner among the recipients of a warning
FinalWarningWithin == 1 \* days left when the last warning is due

WarningKind == {"grace_first", "grace_second", "grace_final"}

VARIABLES
    now,        \* the clock that all processes share
    vs,         \* VaultStatus: [state, armed, episode, graceStart, triggeredAt, reason]
    hb,         \* HeartbeatConfig: [interval, grace, last]
    vault,      \* the recovery setup, see Ready
    accepted,   \* beneficiaries whose invitation_status is "accepted"
    events,     \* BusinessEvents of warnings: [kind, rev]
    jobs,       \* DeliveryJobs not cancelled: [kind, rev, to]
    releases,   \* how many "released" BusinessEvents exist
    hold,       \* each process's cached RELEASE_HOLD
    pass,       \* the evaluation time of the checker pass that a process runs
    req         \* the material revision in the Vault row that a request loaded

vars == <<now, vs, hb, vault, accepted, events, jobs, releases, hold, pass, req>>
release == <<vs, hb, events, jobs, releases>>
setup == <<vault, accepted>>

-----------------------------------------------------------------------------
(* What the rows say                                                       *)

Deadline == hb.last + hb.interval
ReleaseDueWithoutGrace == Deadline          \* mutant: the grace days forgotten
ReleaseDue == Deadline + hb.grace

\* vault.material counts the changes of the key material, 0 before the setup
\* is finalized.  vault.ceremony and vault.drill are the revisions at which
\* the current ceremony was finalized and its drill reported (0: none);
\* quorum says that enough accepted beneficiaries hold a share of it, signed
\* that the assignments are still those of the drill.  m is the revision the
\* caller's Vault row shows, the rest is read from the tables.
Ready(m) ==
    /\ m # 0
    /\ vault.ceremony = m
    /\ vault.drill = m
    /\ vault.quorum
    /\ vault.signed

Init ==
    /\ now = 0
    /\ vs = [state |-> "active", armed |-> FALSE, episode |-> 0,
             graceStart |-> Never, triggeredAt |-> Never, reason |-> "none"]
    /\ hb = [interval |-> DefaultPolicy.interval, grace |-> DefaultPolicy.grace,
             last |-> Never]
    /\ vault = [material |-> 0, ceremony |-> 0, drill |-> 0,
                quorum |-> FALSE, signed |-> FALSE]
    /\ accepted = {}
    /\ events = {}
    /\ jobs = {}
    /\ releases = 0
    /\ hold = [p \in Process |-> FALSE]
    /\ pass = [p \in Process |-> Never]
    /\ req = [t \in Tab |-> Never]

-----------------------------------------------------------------------------
(* What the handlers share                                                 *)

\* Mutant: the pattern matches the first warning only.
NotFirstWarnings == {j \in jobs : j.kind # "grace_first"}

\* The jobs that cancel_warnings leaves.
NotWarnings == {j \in jobs : j.kind \notin WarningKind}

Active(s) == [s EXCEPT !.state = "active", !.graceStart = Never]

\* Mutant: two of the values assigned together change places.
ReleaseVaultSwapped(s, reason, at) ==
    /\ vs' = [s EXCEPT !.state = reason, !.triggeredAt = at, !.reason = "triggered"]
    /\ releases' = releases + 1
    /\ jobs' = NotWarnings

\* release_locked after its early returns.
ReleaseVault(s, reason, at) ==
    /\ vs' = [s EXCEPT !.state = "triggered", !.triggeredAt = at, !.reason = reason]
    /\ releases' = releases + 1
    /\ jobs' = NotWarnings \cup
                [kind : {"released"}, rev : {releases + 1}, to : accepted]

\* Mutants: grace starts when it is noticed; the episode is not counted.
InGraceWhenSeen(s) ==
    IF s.state = "active"
    THEN [s EXCEPT !.state = "grace", !.graceStart = now, !.episode = s.episode + 1]
    ELSE s
InGraceSameEpisode(s) ==
    IF s.state = "active"
    THEN [s EXCEPT !.state = "grace", !.graceStart = Deadline]
    ELSE s

\* The status a due vault gets before it is warned or released: its grace
\* period starts at the deadline it missed.
InGrace(s) ==
    IF s.state = "active"
    THEN [s EXCEPT !.state = "grace", !.graceStart = Deadline,
                   !.episode = s.episode + 1]
    ELSE s

\* The warnings that stage_warning owes at a time inside the grace period s.
DueWarnings(s, at) ==
    {k \in WarningKind :
        /\ k = "grace_second" => /\ at - s.graceStart >= SecondWarningAfter
                                 /\ hb.grace > SecondWarningAfter
        /\ k = "grace_final" => ReleaseDue - at <= FinalWarningWithin}

StageWarnings(s, at) ==
    LET kinds == {k \in DueWarnings(s, at) :
                     [kind |-> k, rev |-> s.episode] \notin events}
    IN  /\ events' = events \cup [kind : kinds, rev : {s.episode}]
        /\ jobs' = jobs \cup
                    [kind : kinds, rev : {s.episode}, to : accepted \cup {Owner}]

-----------------------------------------------------------------------------
(* Time and processes                                                      *)

Tick ==
    /\ now < MaxDay
    /\ now' = now + 1
    /\ UNCHANGED <<release, setup, hold, pass, req>>

\* A process dies with its pass or its requests and comes back with the
\* RELEASE_HOLD that its environment has by then.
Restart(p, h) ==
    /\ hold' = [hold EXCEPT ![p] = h]
    /\ pass' = [pass EXCEPT ![p] = Never]
    /\ req' = IF p = "api" THEN [t \in Tab |-> Never] ELSE req
    /\ UNCHANGED <<now, release, setup>>

-----------------------------------------------------------------------------
(* The heartbeat checker                                                   *)

\* Mutant: vaults in grace are not selected again.
CandidateActive(at) ==
    vs.armed /\ vs.state = "active" /\ hb.last # Never /\ Deadline <= at

\* The unlocked candidate query.
Candidate(at) ==
    /\ vs.armed
    /\ vs.state \in {"active", "grace"}
    /\ hb.last # Never
    /\ Deadline <= at

\* check_heartbeat fixes its evaluation time and selects its candidates.
\* Outside production the owner may ask the API for a pass in the future.
StartPass(p, at) ==
    /\ pass[p] = Never
    /\ ~hold[p]
    /\ \/ at = now
       \/ ~Production /\ p = "api" /\ at > now
    /\ Candidate(at)
    /\ pass' = [pass EXCEPT ![p] = at]
    /\ UNCHANGED <<now, release, setup, hold, req>>

\* Mutants: the candidate query is trusted for armed, or for the setup.
CanAdvanceDisarmed(at) ==
    vs.state # "triggered" /\ at >= Deadline /\ Ready(vault.material)
CanAdvanceUnready(at) ==
    vs.armed /\ vs.state # "triggered" /\ at >= Deadline

\* _can_advance, with everything but the evaluation time read under the lock.
CanAdvance(at) ==
    /\ vs.armed
    /\ vs.state # "triggered"
    /\ at >= Deadline
    /\ Ready(vault.material)

EndPass(p) ==
    /\ pass' = [pass EXCEPT ![p] = Never]
    /\ UNCHANGED <<now, setup, hold, req>>

SkipVault(p) ==
    /\ pass[p] # Never
    /\ ~CanAdvance(pass[p])
    /\ EndPass(p)
    /\ UNCHANGED release

WarnVault(p) ==
    /\ pass[p] # Never
    /\ CanAdvance(pass[p])
    /\ pass[p] < ReleaseDue
    /\ vs' = InGrace(vs)
    /\ StageWarnings(vs', pass[p])
    /\ EndPass(p)
    /\ UNCHANGED <<hb, releases>>

\* A vault found active after the whole window is released at once.
ReleaseSilentVault(p) ==
    /\ pass[p] # Never
    /\ CanAdvance(pass[p])
    /\ pass[p] >= ReleaseDue
    /\ ReleaseVault(InGrace(vs), "inactivity", pass[p])
    /\ EndPass(p)
    /\ UNCHANGED <<hb, events>>

\* Any exception while the vault is evaluated rolls its transaction back.
FailPass(p) ==
    /\ pass[p] # Never
    /\ EndPass(p)
    /\ UNCHANGED release

EvaluateVault(p) == SkipVault(p) \/ WarnVault(p) \/ ReleaseSilentVault(p)

-----------------------------------------------------------------------------
(* The owner's requests                                                    *)

\* _get_vault, before the lock: the Vault row stays in the identity map.  The
\* three requests begin alike; the lock is where they part.
BeginRequest(t) ==
    /\ req[t] = Never
    /\ req' = [req EXCEPT ![t] = vault.material]
    /\ UNCHANGED <<now, release, setup, hold, pass>>

EndRequest(t) ==
    /\ req' = [req EXCEPT ![t] = Never]
    /\ UNCHANGED <<now, setup, hold, pass>>

\* A request that is refused, that finds the vault released already, or that
\* fails: its transaction is rolled back.
RefuseRequest(t) ==
    /\ req[t] # Never
    /\ EndRequest(t)
    /\ UNCHANGED release

\* Mutant: a check-in that lost the race for the lock revives the vault.
CheckInAfterRelease(t) ==
    /\ req[t] # Never
    /\ vs.episode < MaxEpisode
    /\ Ready(req[t])
    /\ hb' = [hb EXCEPT !.last = now]
    /\ vs' = Active([vs EXCEPT !.armed = TRUE])
    /\ jobs' = NotWarnings
    /\ EndRequest(t)
    /\ UNCHANGED <<events, releases>>

CheckIn(t) ==
    /\ req[t] # Never
    /\ vs.episode < MaxEpisode
    /\ vs.state # "triggered"
    /\ Ready(req[t])
    /\ hb' = [hb EXCEPT !.last = now]
    /\ vs' = Active([vs EXCEPT !.armed = TRUE])
    /\ jobs' = NotWarnings
    /\ EndRequest(t)
    /\ UNCHANGED <<events, releases>>

\* Mutant: new settings leave a running grace period alone.
SaveHeartbeatInGrace(t, policy, arm) ==
    /\ req[t] # Never
    /\ vs.state # "triggered"
    /\ arm = "keep"
    /\ hb' = [hb EXCEPT !.interval = policy.interval, !.grace = policy.grace]
    /\ EndRequest(t)
    /\ UNCHANGED <<vs, events, jobs, releases>>

\* Saving settings ends a grace period; arm is data.armed, "keep" when absent.
SaveHeartbeat(t, policy, arm) ==
    /\ req[t] # Never
    /\ vs.episode < MaxEpisode
    /\ vs.state # "triggered"
    /\ arm = "on" => Ready(req[t])
    /\ hb' = [interval |-> policy.interval, grace |-> policy.grace,
              last |-> IF arm = "on" /\ hb.last = Never THEN now ELSE hb.last]
    /\ vs' = Active([vs EXCEPT !.armed = IF arm = "keep" THEN vs.armed
                                                         ELSE arm = "on"])
    /\ jobs' = NotWarnings
    /\ EndRequest(t)
    /\ UNCHANGED <<events, releases>>

\* Mutant: the request that lost the race releases again.
TriggerVaultAgain(t) ==
    /\ req[t] # Never
    /\ releases < 2
    /\ Ready(req[t])
    /\ ReleaseVault(vs, "manual", now)
    /\ EndRequest(t)
    /\ UNCHANGED <<hb, events>>

TriggerVault(t) ==
    /\ req[t] # Never
    /\ vs.state # "triggered"
    /\ ~hold["api"]
    /\ Ready(req[t])
    /\ ReleaseVault(vs, "manual", now)
    /\ EndRequest(t)
    /\ UNCHANGED <<hb, events>>

\* Mutants: the grace period keeps its date; its warnings are still sent.
ResetStatusDated(won) ==
    /\ ~Production /\ won
    /\ vs.episode < MaxEpisode /\ releases < MaxReleases
    /\ vs' = [vs EXCEPT !.state = "active", !.triggeredAt = Never, !.reason = "none"]
    /\ jobs' = NotWarnings
    /\ UNCHANGED <<now, hb, events, releases, setup, hold, pass, req>>
ResetStatusSending(won) ==
    /\ ~Production /\ won
    /\ vs.episode < MaxEpisode /\ releases < MaxReleases
    /\ vs' = [Active(vs) EXCEPT !.triggeredAt = Never, !.reason = "none"]
    /\ UNCHANGED <<now, hb, events, jobs, releases, setup, hold, pass, req>>

\* reset_status, refused in production.  It ignores whether its compare and
\* swap found the version it had read, and cancels the warnings either way.
ResetStatus(won) ==
    /\ ~Production
    /\ vs.episode < MaxEpisode
    /\ releases < MaxReleases
    /\ vs' = IF won
             THEN [Active(vs) EXCEPT !.triggeredAt = Never, !.reason = "none"]
             ELSE vs
    /\ jobs' = NotWarnings
    /\ UNCHANGED <<now, hb, events, releases, setup, hold, pass, req>>

-----------------------------------------------------------------------------
(* Changes of the recovery setup.  Each locks the status row and refreshes *)
(* the Vault row it had loaded.                                            *)

\* writable: the key material of a released vault cannot change.
Rewrap ==
    /\ vs.state # "triggered"
    /\ vault.material \in 1 .. MaxRevision - 1
    /\ vault' = [vault EXCEPT !.material = @ + 1]
    /\ UNCHANGED <<now, release, accepted, hold, pass, req>>

\* A draft made at the current revision is finalized: the shares of the new
\* generation are not assigned yet.
FinalizeCeremony ==
    /\ vs.state # "triggered"
    /\ vault.material < MaxRevision
    /\ vault' = [material |-> vault.material + 1, ceremony |-> vault.material + 1,
                 drill |-> 0, quorum |-> FALSE, signed |-> FALSE]
    /\ UNCHANGED <<now, release, accepted, hold, pass, req>>

\* The report quotes the revision and the assignments it is about, and is
\* refused unless they are the current ones.
ReportDrill ==
    /\ vault.ceremony # 0
    /\ vault' = [vault EXCEPT !.drill = vault.material, !.signed = TRUE]
    /\ UNCHANGED <<now, release, accepted, hold, pass, req>>

\* A beneficiary is added or invited, or share indexes change.  Undoing an
\* edit restores the signature of the drill.
EditAssignments(quorum, signed) ==
    /\ quorum => accepted # {} /\ vault.ceremony # 0
    /\ signed => vault.drill # 0
    /\ vault' = [vault EXCEPT !.quorum = quorum, !.signed = signed]
    /\ UNCHANGED <<now, release, accepted, hold, pass, req>>

AcceptInvitation(b, quorum) ==
    /\ b \notin accepted
    /\ accepted' = accepted \cup {b}
    /\ vault.quorum => quorum
    /\ quorum => vault.ceremony # 0
    /\ vault' = [vault EXCEPT !.quorum = quorum, !.signed = FALSE]
    /\ UNCHANGED <<now, release, hold, pass, req>>

\* A beneficiary gets a new address, or is deleted: revoke_beneficiary cancels
\* what was going to be sent.  Only a deletion can restore the signature.
DropBeneficiary(b, quorum, signed) ==
    /\ accepted' = accepted \ {b}
    /\ quorum => vault.quorum /\ accepted' # {}
    /\ signed => vault.drill # 0
    /\ vault' = [vault EXCEPT !.quorum = quorum, !.signed = signed]
    /\ jobs' = {j \in jobs : j.to # b}
    /\ UNCHANGED <<now, vs, hb, events, releases, hold, pass, req>>

\* A beneficiary who revokes all sessions loses the notices on their way, too.
SignOutEverywhere(b) ==
    /\ b \in accepted
    /\ jobs' = {j \in jobs : j.to # b}
    /\ UNCHANGED <<now, vs, hb, events, releases, setup, hold, pass, req>>

ChangeSetup ==
    \/ Rewrap
    \/ FinalizeCeremony
    \/ ReportDrill
    \/ \E q, s \in BOOLEAN : EditAssignments(q, s)
    \/ \E b \in Beneficiary, q, s \in BOOLEAN :
          AcceptInvitation(b, q) \/ DropBeneficiary(b, q, s)
    \/ \E b \in Beneficiary : SignOutEverywhere(b)

-----------------------------------------------------------------------------

RunChecker(p) ==
    \/ \E at \in 0 .. MaxDay : StartPass(p, at)
    \/ EvaluateVault(p)
    \/ FailPass(p)

ServeOwner(t) ==
    \/ BeginRequest(t)
    \/ RefuseRequest(t)
    \/ CheckIn(t)
    \/ \E policy \in Policy, arm \in {"keep", "on", "off"} : SaveHeartbeat(t, policy, arm)
    \/ TriggerVault(t)

Next ==
    \/ Tick
    \/ \E p \in Process : RunChecker(p) \/ \E h \in BOOLEAN : Restart(p, h)
    \/ \E t \in Tab : ServeOwner(t)
    \/ \E won \in BOOLEAN : ResetStatus(won)
    \/ ChangeSetup

Spec == Init /\ [][Next]_vars

-----------------------------------------------------------------------------
(* Safety                                                                  *)

Days == Nat \cup {Never}
VaultState == {"active", "grace", "triggered"}
Reason == {"none", "inactivity", "manual"}

StatusRow == [state : VaultState, armed : BOOLEAN, episode : Nat,
              graceStart : Int, triggeredAt : Days, reason : Reason]
HeartbeatRow == [interval : Nat \ {0}, grace : Nat \ {0}, last : Days]
VaultRow == [material : Nat, ceremony : Nat, drill : Nat,
             quorum : BOOLEAN, signed : BOOLEAN]
JobRow == [kind : WarningKind \cup {"released"}, rev : Nat,
           to : Beneficiary \cup {Owner}]

\* Every row holds values of its columns.
TypeOK ==
    /\ now \in Nat
    /\ vs \in StatusRow
    /\ hb \in HeartbeatRow
    /\ vault \in VaultRow
    /\ accepted \subseteq Beneficiary
    /\ events \subseteq [kind : WarningKind, rev : Nat]
    /\ jobs \subseteq JobRow
    /\ releases \in Nat
    /\ hold \in [Process -> BOOLEAN]
    /\ pass \in [Process -> Days]
    /\ req \in [Tab -> Nat \cup {Never}]

\* A vault that was released for inactivity was armed, and the evaluation that
\* released it took place a whole interval and grace period after the last
\* check-in that the table shows, by the settings that the table shows: no
\* check-in, disarming or change of settings that committed while the checker
\* held an older candidate list or time was lost (heartbeat_checker.py:56-71).
ReleasedForCause ==
    vs.state = "triggered" /\ vs.reason = "inactivity" =>
        /\ vs.armed
        /\ hb.last # Never
        /\ vs.triggeredAt >= ReleaseDue
        /\ Production => vs.triggeredAt <= now

\* A grace period is dated from the deadline that the current check-in and
\* settings give, whenever it was noticed, and its first warning was recorded
\* for this very episode, so that it is not taken for an earlier one's
\* (heartbeat_checker.py:63-66, trigger_service.py:139-146).
GraceIsDatedAndWarned ==
    /\ vs.state = "grace" =>
        /\ vs.armed
        /\ hb.last # Never
        /\ vs.graceStart = Deadline
        /\ [kind |-> "grace_first", rev |-> vs.episode] \in events
    /\ vs.state = "active" => vs.graceStart = Never

\* No warning outlives the grace period it is about: a check-in, new settings,
\* a release and a reset cancel whatever was still to be sent
\* (outbox.py:118-126 and its callers).
WarningsOnlyInGrace ==
    \A j \in jobs : j.kind \in WarningKind =>
        vs.state = "grace" /\ j.rev = vs.episode

\* While a grace period runs, its first warning to the owner has not been
\* cancelled by anything, the removal of beneficiaries included.
OwnerIsWarned ==
    vs.state = "grace" =>
        [kind |-> "grace_first", rev |-> vs.episode, to |-> Owner] \in jobs

\* A later warning of the running grace period was due by its dates: the
\* second after three days of it, the last in its last day.  A change of
\* settings cannot leave behind a warning that belongs to the old dates
\* (trigger_service.py:131-136, heartbeat.py:108-118).
WarningsAreTimely ==
    Production /\ vs.state = "grace" =>
        \A e \in events : e.rev = vs.episode =>
            /\ e.kind = "grace_second" =>
                    hb.grace > SecondWarningAfter /\ now >= Deadline + SecondWarningAfter
            /\ e.kind = "grace_final" => now >= ReleaseDue - FinalWarningWithin

\* A vault is released once: however the manual release, the checkers of two
\* processes and their retries interleave, there is one "released" event, and
\* notices belong to it (trigger_service.py:51-52).
OneReleaseEvent ==
    /\ releases = IF vs.state = "triggered" THEN 1 ELSE 0
    /\ \A j \in jobs : j.kind = "released" =>
            vs.state = "triggered" /\ j.rev = releases

\* The parts above together with what they rest on, an inductive invariant:
\* arming starts the first period; warnings are recorded for episodes that
\* have begun; in production no process evaluates a vault at a future time.
ArmedOnce == vs.armed => hb.last # Never
EventsNotAhead == \A e \in events : e.rev <= vs.episode
PassInThePast == Production => \A p \in Process : pass[p] <= now

ReleaseInvariant ==
    /\ TypeOK
    /\ ArmedOnce
    /\ EventsNotAhead
    /\ PassInThePast
    /\ ReleasedForCause
    /\ GraceIsDatedAndWarned
    /\ WarningsOnlyInGrace
    /\ Production => OwnerIsWarned /\ OneReleaseEvent

\* Once released, the status, the heartbeat and the key material never change
\* again.
ReleaseIsTerminal ==
    [][vs.state = "triggered" =>
        UNCHANGED <<vs, hb, events, releases, vault.material>>]_vars

\* A release for inactivity finds the committed setup complete, under the
\* lock, whatever the setup was when the pass selected the vault.
SilentReleaseIsReady ==
    [][vs.state # "triggered" /\ vs'.state = "triggered" /\ vs'.reason = "inactivity"
        => Ready(vault.material)]_vars

\* The same of every release.  docs/remediation-plan.md:164 asks for it; the
\* gate of the manual release reads the Vault row loaded before the lock.
EveryReleaseIsReady ==
    [][vs.state # "triggered" /\ vs'.state = "triggered"
        => Ready(vault.material)]_vars

\* The whole authority keeps the promise of DeadMansSwitch.
Switch == INSTANCE DeadMansSwitch WITH
    Window <- {p.interval + p.grace : p \in Policy \cup {DefaultPolicy}},
    armed <- vs.armed,
    last <- hb.last,
    window <- hb.interval + hb.grace,
    released <- IF vs.state = "triggered" THEN vs.reason ELSE "no"

ImplementsSwitch == Switch!Spec

-----------------------------------------------------------------------------
(* Liveness                                                                *)

\* The worker's loop starts a pass every minute and, of the passes it starts,
\* some are not cut short by a crash or a failing transaction.  Nothing is
\* assumed of the owner, of the API process, of time or of restarts.
FairSpec ==
    /\ Spec
    /\ WF_vars(\E at \in 0 .. MaxDay : StartPass("worker", at))
    /\ SF_vars(EvaluateVault("worker"))

Overdue ==
    /\ vs.armed
    /\ vs.state # "triggered"
    /\ hb.last # Never
    /\ now >= ReleaseDue
    /\ Ready(vault.material)
    /\ ~hold["worker"]

\* A vault whose owner stays silent past the whole window is released, unless
\* its setup stops being ready or the worker is held: warnings and grace
\* periods entered late do not postpone it for ever.
SilentOwnerIsReleased == []<>~Overdue
=============================================================================
