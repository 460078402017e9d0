# LegacyLock, specified

LegacyLock keeps an owner's encrypted vault and gives named beneficiaries access to it when the
owner releases it or stays silent for too long. The beneficiaries hold shares of the recovery
key; the server holds ciphertext, decides *when* access is released, and tells people about it.
What must never go wrong is therefore not the cipher but the decision and its announcement: a
release without cause, a release that cannot be undone being undone, a warning that does not
arrive or arrives in the wrong period, a notice sent twice or never.

These modules specify the parts of the backend that make that decision and send those messages,
the key material, ceremonies and assignments that the decision depends on, the credentials by which
people reach all this, and the tabs of the browser that hold the key.
Every definition is written from the code at the lines that `PROJECT.json` names ("map").

Paths are relative to the repository; `services/`, `routers/`, `models/` are under `src/backend/`.

## 1. Inventory

### How the system runs

An API process (FastAPI; handlers are synchronous and run in a thread pool, so requests overlap),
optionally with a checker loop and a delivery loop inside it (`main.py:72-101`, setting
`background_in_api`), and a worker process with the same two loops (`worker.py`). They share
nothing but the database. A release or a warning is a row in `business_events` and one
`delivery_jobs` row per recipient, written in the transaction of the decision; the delivery loop
sends them later. `RELEASE_HOLD` is read from the environment and cached for the life of a
process, so two processes can disagree about it.

### Components

| Component | State it keeps | Operations | Interacts through |
|---|---|---|---|
| Release authority (`trigger_service.py`, `routers/heartbeat.py`, `routers/trigger.py`) | `vault_status`: state active / grace / triggered, armed, episode, dates, version; `heartbeat_config` | check-in, save settings, manual release, development reset, `lock_status`, `release_locked`, `stage_warning` | locks the status row; asks the readiness gate; stages and cancels jobs |
| Heartbeat checker (`heartbeat_checker.py`, loops in `main.py`, `worker.py`) | none; an evaluation time and a list of candidates for the length of a pass | select due vaults without a lock, then lock and evaluate each | the release authority |
| Recovery readiness and drill (`recovery_readiness.py`, `routers/readiness.py`) | the drill report of a finalized ceremony | `release_ready`, `require_release_ready`, `report_drill` | read by every release and arming |
| Key material and ceremony (`routers/vault.py`, `services/ceremony.py`) | `vaults`: wrapped keys, material revision, generation, threshold; `recovery_ceremonies` | setup, rewrap, draft, finalize, cancel | moves the revision that readiness compares |
| Beneficiaries and invitations (`routers/beneficiaries.py`, `routers/access.py`) | `beneficiaries`: contact revision, invitation state, share index | add, invite, accept, change contact, assign share, delete | decides who is told; cancels a recipient's jobs |
| Delivery outbox (`outbox.py`) | `delivery_jobs`: state, claim token, lease, attempts, due time, payload; `delivery_attempts` | enqueue, cancel, claim, `deliver_one`, `work_once` | two or more workers; the providers |
| Providers (`notifications.py`) | outside: the email provider's idempotency keys, kept a day | one email or SMS call with a 15 s timeout | called between two transactions |
| Sessions (`sessions.py`, `auth.py`, `cookies.py`) | refresh tokens by family, epochs | issue, rotate, detect reuse, revoke | every authenticated request |
| Sign-in, invitations, email verification (`beneficiary_login.py`, `access.py`, `email_verification.py`) | single-use challenges with expiry and cooldown | request, redeem | outbox, sessions |
| Messages and recovery access (`routers/vault.py`, `routers/access.py`) | encrypted messages at a material revision | write, read once released | release state |
| Restore quarantine and operations (`ops.py`, `restore_rehearsal.py`, `operations.py`) | none of its own | quarantine after a restore, read-only reports | runs with the processes stopped |
| Rate limiter and middleware (`middleware/`) | sliding windows per key, in memory | count, evict | every request |
| Browser crypto session and transport (`frontend/lib/`) | key, epoch, lock deadlines; one refresh flight | unlock, lock, adopt, refresh | the API |
| Shamir shares, envelope encryption (`frontend/lib/`) | none | split, combine, wrap | ceremony pages |
| Lifecycle tables, audit, configuration, migrations, pages | | | |

### What is hard, and what makes each part correct

*Release authority and checker.* Handlers of two processes and of the owner's tabs reach the same
vault. Each locks the status row before it decides, but each has read something before the lock:
the checker its candidates and its evaluation time, a request its `Vault` row. A check-in must beat
a stale candidate list; a release must beat a late check-in; a grace period must be dated from the
deadline missed and not from the moment the worker noticed; its warnings must be sent for *this*
period, and for no other. Processes restart in the middle with another hold.

*Outbox.* A provider call cannot be in a transaction with the row that records it. Answers get
lost, a process dies between the call and the record, a lease of 90 seconds runs out under a slow
batch and a second worker claims the job, and the domain cancels jobs that are being sent. Retries
stretch over hours while the provider remembers an idempotency key only for a day.

*Setup.* The readiness that a release requires is a relation of five tables that different
requests change: material revision, ceremony, drill, assignments, acceptances.
Browsers keep the key, the revision, or a
draft's shares of when they unlocked, and come back with them when others have moved on.

*Sessions and challenges.* A single-use secret is used at the same time in two places, or again from
an old tab, or against a database restored from before its use; several handlers read first and
lock later.

*Browser.* The tabs share the cookies and not the key. Every await is a point where the session that
started an operation may end, another tab may sign in as somebody else, and a lock deadline may pass.
Tabs that renew one session at the same time look to the server like theft.

The full list, each at the line where it bites and with the properties that watch it, is
"hazards" in `PROJECT.json`.

## 2. Modules

| Module | What it is |
|---|---|
| `DeadMansSwitch` | abstract: what the release authority promises |
| `Release` | one vault: release authority, checker, readiness gate, changes of setup |
| `MCRelease` + `Release*.cfg` | instances for TLC |
| `ReleaseProofs` | theorems about `Release` |
| `Outbox` | delivery jobs, workers, providers |
| `MCOutbox` + `Outbox*.cfg` | instances for TLC |
| `OutboxProofs` | theorems about `Outbox` |
| `Vault` | key material, ceremonies, messages, shares and the readiness gate of one vault, in full |
| `Sessions` | session families, refresh tokens, sign-in links, invitations, restored databases |
| `Browser` | tabs, their keys and bindings, the cookies they share, login and logout |
| `Refresh` | the renewal of one session by several tabs |
| `MCVault`, `MCSessions`, `MCBrowser`, `MCRefresh` + `.cfg` | instances for TLC |
| `VaultProofs`, `SessionsProofs`, `BrowserProofs`, `RefreshProofs` | theorems about each |

`Vault` implements the part of `Release` that changes the setup. `Browser` shows what `Vault` takes as
given of a browser (the key and the revision that a request quotes belong together), and `Refresh`
refines the token of a family in `Sessions` to its travel between tabs and server.

### Release

**State.** `vs` and `hb` are the `vault_status` and `heartbeat_config` rows, `vault` the recovery
setup as far as the gate can tell (below), `accepted` the beneficiaries to be told, `events` and
`jobs` the warnings recorded and the deliveries staged and not cancelled, `releases` the number of
`released` events. `hold`, `pass` and `req` belong to processes: the cached hold, the evaluation
time of a running checker pass, the material revision in the `Vault` row a request has loaded.

**Grain.** Every handler takes the status row's lock with its first write and commits once, so
what follows the lock is one action. What precedes it is a separate action: `StartPass` (the
checker's unlocked query, `heartbeat_checker.py:29-53`) and `BeginRequest` (`_get_vault` before
`lock_status`). Between the two anything may happen. After the lock the checker rereads
everything, `CanAdvance`, except its evaluation time. A request rereads all but the `Vault` row: the session's
identity map returns the row that it loaded before (`recovery_readiness.py:100` locks it without
`populate_existing`). `Ready(m)` takes the revision as a parameter for that reason.

| Action | Code |
|---|---|
| `StartPass`, `SkipVault`, `WarnVault`, `ReleaseSilentVault`, `FailPass` | `check_heartbeat` |
| `SignOutEverywhere` | `revoke_all_beneficiary_sessions`, as far as it cancels a beneficiary's notices |
| `BeginRequest`, `RefuseRequest`, `CheckIn`, `SaveHeartbeat`, `TriggerVault` | the owner's requests in `routers/heartbeat.py`, `routers/trigger.py` |
| `ResetStatus` | `reset_status`; `won` tells whether its compare and swap found its version |
| `Rewrap`, `FinalizeCeremony`, `ReportDrill`, `EditAssignments`, `AcceptInvitation`, `DropBeneficiary` | the handlers that change the setup |
| `Restart` | a process dies and returns with another `RELEASE_HOLD` |
| `Tick` | a day passes |

**Abstractions.** A day is the unit of time: settings are whole days and every comparison the code
makes is between a time and a time plus days. The drill's assignment signature is one bit, whether it
still matches, and the count of eligible shares another, whether it reaches the threshold; the
actions leave both free wherever the code's data decides them, within what the code can
produce. A job is its event and its recipient: the channel, and the texts, do not matter here.

### Outbox

**State.** `job` holds the rows, `task` the running `deliver_one` calls with what each has read,
`purged` the workers between the two transactions that open a pass. `known` and `received` are
the provider's: keys it remembers, messages it sent on. `eligible` says whether the domain still wants
the job sent, `expired` whether its credential has expired, `late` that 23 hours have passed.

**Grain.** One action per transaction, and one for the provider's answer. `deliver_one` is four
steps: `Load` (first read, with the token, no lock), a decision before the send that writes the
row by its id (`GiveUp`, `CancelObsolete`, `RejectPayload`) or `StartSend`, then `Answer`, then
`Record` (second read, with lock and token). Only the send awaits in the worker's event loop, so
a loaded task runs alone *within its worker*, and interleaves with other workers and the domain.

**Tokens.** A claim writes a random token and adds one to `attempts`. The number of attempts is
as fresh as the token, so it stands for it, and no bound on tokens is needed.

**Time.** There is no clock. What it brings about are actions: `RunOut` (a lease passes 90 s),
`FallDue`, `ExpireCredential`, `CloseWindow` (23 hours), `Forget` (the provider's 24 hours). `Forget`
waits for calls in flight: a call that started before the 23rd hour ended, by its 15 s timeout,
long before the 24th.

**Crash** stands for the death of a process and for an exception that `deliver_email` does not
catch, which leaves `gather` and ends the pass with its other tasks cancelled.

**Left out.** The domain's staging of new jobs (all jobs exist initially; a job does not depend on
others but through the batch), the cut of a pass's expired rows at 100 and the purge of payloads of final jobs
after 30 days, the branch at `outbox.py:186-192` (a held process does not claim such a job), and
`skip_locked` (transactions are serial, so no row is ever locked by another).

### DeadMansSwitch

Five variables and five actions: tick, check in, configure, release by the owner, release by
silence. The refinement reads `armed`, `last` and `window` off the rows of `Release`, and `released` with
the reason that the row gives: a release by silence that came too early must not pass for one by
the owner.
It is stated for production: the development reset breaks it on purpose.

### Vault

**State.** `vault`, `ceremony`, `recipient` and `messages` are rows, reduced to what decides something:
a wrapped key is the name of the key in it, a message the key it is encrypted under, a recipient its
invitation status, whether it has moved, its share and that share's generation. `drill` is the
report in the finalized ceremony's row. `views` are the pairs of revision and key that some browser
has unlocked and may still use: a request quotes one of them, so any number of tabs and devices, as
slow as they like, is covered without a variable for each. `released` is the status row.

**Grain.** Every handler takes the status row's lock and refreshes the vault before it decides
(`writable`; `lock_status` and `refresh` in `routers/beneficiaries.py`) and commits once: one action
each. Deletion of messages takes no lock and decides nothing.

| Action | Code |
|---|---|
| `CreateFirstDraft`, `CreateReshareDraft`, `FinalizeCeremony`, `CancelCeremony` | `services/ceremony.py` |
| `Rewrap`, `SaveMessage`, `UpdateMessage`, `DeleteMessage`, `WipeMessages` | `routers/vault.py` |
| `AddBeneficiary`, `InviteBeneficiary`, `UpdateBeneficiary`, `AssignShare`, `DeleteBeneficiary` | `routers/beneficiaries.py` |
| `AcceptInvitation`, `ExpireInvitation` | `accept_invitation` (who may is `Sessions`' matter) |
| `ReportDrill`, `PassGate` | `report_drill`, and a release as far as it reaches these rows |

**Refinement.** `Seen` and `Accepted` compute from the rows what `Release` keeps of the setup.
`RefinesSetup` says that every step changes them as `Release!ChangeSetup` allows or not at all;
`SameGate` that `Release!Ready` and `release_ready` agree. What `Release` leaves to chance (`quorum`,
`signed`) is thereby shown to contain what the code does with shares and signatures.

### Sessions

**State.** `family` is an `auth_session` with its `session_refresh` rows: `refresh` lists, token by token,
whether it was not consumed ("no"), just now, or long ago. `challenge` are sign-in links with the
date in `created_at`, `recipient` the status, address and invitation hash of each beneficiary, `sent`
what each invitation was sent for (kept to state the properties), `epoch` the deployment's
`AUTH_EPOCH`, `now` a clock. `request` is what a handler has read before it takes the lock, the clock
included: `request_link` compares and dates a link by the time at which it was called, which may be
minutes before it gets the lock.

**Grain.** `accept_invitation`, `request_link`, `redeem_link` and `revoke_all` read and then lock:
`Begin...` and `Finish...`. What the second part rereads it rereads in the code (`populate_existing`,
`refresh`); what it does not, it takes from `request`. `rotate` locks the token's row and the family
before it looks. A request may quote any credential ever handed out: that is an old tab, a lost
answer, a copied cookie.

**Time.** Links are measured by the clock, which moves while a link is good, or younger than a minute,
or a request for one is under way (`Tick`); at other times nothing of theirs depends on it. For the
rest time is an age that grows by a step of its own: ten seconds for a consumed token, a week for an
invitation, a family's end. **Restore** puts any earlier row in the place of each row, and quarantines the result; it happens with the processes
stopped, so no request is under way.

### Browser

**State.** Of each tab: the key it holds, by the name of the owner it was unwrapped for (`Unsaved`
while a setup has not ended), and the principal and revision it is bound to (`crypto-session.ts`);
the operation that a page has under way and where it awaits; the shell's probe of who is signed in; a
login or logout; the messages on the channel not yet received. The tabs share `cookie`; `server`
has the revision of each owner's vault.

**Grain.** From await to await. The epoch is not a number: `lockVault` increments it so that every
operation that captured it fails, and `AfterLock` throws the operation away. Two operations have an
effect in a new epoch, because the code looks at none: the shell goes on, without the material
(`Late`), and a login or logout is not undone. Cookies are stored when the head of the answer arrives
(`CommitCookie`), the other tabs are told before the request and after its answer.

### Refresh

`fetchWithRefresh` of each request (`request`), the flight that the requests of a tab share
(`flight`), the lock between tabs (`holder`), the renewals on the network, and the family and its tokens at
the server. A renewal and its answer travel separately; a tab may close and a connection fail at any
moment. `trouble` records that one did, `broken` that a renewal's answer found nobody.

## 3. What is checked

| Run | Instance | Shows |
|---|---|---|
| `release` | production, two processes, one request at a time, one beneficiary, two settings, 4 days, 2 episodes, 2 revisions, second warning after a day (743 thousand states) | the safety properties of a release, with every change of the setup interleaved; warnings of the dates in force; the refinement of `DeadMansSwitch` |
| `release_dev` | outside production, one setting, 3 days, 2 releases, fair worker (210 thousand) | the inductive invariant also with passes evaluated at a future time and resets that lose their compare and swap; a silent owner's vault is released |
| `outbox` | an email and an SMS, two workers, one task at a time, two attempts, one overrun lease per job, one crash (1.27 million) | the safety of delivery |
| `outbox_live` | two emails, one withheld from a held worker, one with a credential, one crash, fair workers (276 thousand) | every job settles |
| `vault` | two generations, a policy and the default one, two beneficiaries, a message, 2 revisions, one moved address (486 thousand) | shares, wrapped key and messages stay of one key; the gate; `Release`'s view of the setup |
| `sessions` | one beneficiary and the owner, two families of two tokens, two links, two invitations, two requests, one new address, one restoration, a clock of three instants (855 thousand) | each credential works once, for whom it was sent, and not after its death; links are dated a minute apart |
| `browser` | two tabs, two owners, two operations at a time, 2 revisions, one message in flight per tab (1.86 million) | no tab keeps or submits the key of who was there before |
| `refresh` | two tabs, two requests each, 3 tokens, 2 renewals on the network (285 thousand) | renewals of several tabs neither fail requests nor end the session |
| `release_stale`, `outbox_stale`, `outbox_sms`, `vault_rewrap` | smallest instance each | the four divergences of section 6 |

The properties, by the question they answer:

- *May this release happen?* `ReleasedForCause` (the window has passed by the check-in and the settings
  that the tables show, whatever the checker saw first), `SilentReleaseIsReady` (the
  setup is complete at the moment of the commit), `ImplementsSwitch`.
- *Is it final, and single?* `ReleaseIsTerminal`, `OneReleaseEvent`.
- *Was the owner warned, and of the right thing?* `GraceIsDatedAndWarned`, `OwnerIsWarned`,
  `WarningsOnlyInGrace`, `WarningsAreTimely`.
- *Will it happen?* `SilentOwnerIsReleased`.
- *Is a message sent once?* `EmailReceivedOnce`, `SmsRepeatedByReclaim`, `OneSender`, `SettledIsSilent`.
- *Is what the row says true?* `SupersededIsFinal`, `FinalStaysFinal`, and `AcceptedWasReceived` as a part of
  `OutboxInvariant`.
- *Does the queue drain?* `Settled` (of `Outbox`).
- *Will the shares open the messages?* `Recoverable`, `OneCeremony`, `SharesAreReal`, `ReleaseFreezes`.
- *Does the release see the setup as it is?* `SameGate`, `RefinesSetup`.
- *Is a secret used once?* `OneLiveToken`, `OpensOneSession`, `OneLinkAMinute`.
- *Is what was ended over?* `NothingOutlivesItsRecipient`, `DeadStaysDead`.
- *Whose key is in the tab?* `KeyIsOfTheSession`, `TakesTheVaultsKey`.
- *Does renewal get in its own way?* `HealthySessionSurvives`, `RequestsSucceed`.

`KeyIsOfTheSession` and `TakesTheVaultsKey` are claimed when `Settled` (of `Browser`): no login or logout is
under way, no message is on the channel, and no login's answer was lost after its cookies
(`misled`). Until then a tab cannot know: a request it sends carries the new cookies with the old
key, and the server compares the revision only. `HealthySessionSurvives` excepts an answer that found
nobody, and `RequestsSucceed` any failed connection, closed tab or lock of fifteen seconds, which
the code answers by signing the tab out.

### Bounds, and why they suffice

`MaxDay`, `MaxEpisode`, `MaxRevision`, `MaxReleases` (Release) and `MaxOverruns`, `MaxCrashes`
(Outbox) are guards; every other number is the code's or a constant. Two episodes are needed for a
warning of one period to be mistaken for another's, two revisions for a gate to read the wrong one,
four days for two periods of the shortest window and for the second warning, which the code
sends after three days and these runs after one (`SecondWarningAfter`), to fall on another day than the
final one. One request at a time is enough for the
races with the checker, with the setup and with restarts; two requests differ from a request and a
checker only in the row that they loaded, and the proofs cover any number. The grace and interval of
one day make a late checker find a vault already due for release. Two attempts are enough for a
retry to be the last; one overrun for two live tasks of one job. The model's `AttemptBudget` is 8 in
the code, `Batch` 20 and `Concurrency` 4; the safety proofs hold for all values.

`Vault`: two generations make a setup and a reshare, or two drafts that cross; two revisions a stale
view; the policies (1 of 2, then 1 of 1) a total that shrinks below an assigned share; two beneficiaries
a share that is taken. `Sessions`: one beneficiary suffices because no handler relates two (the
owner's family stands beside); two of each credential are a replaced and a new one, two requests the
races between reading and locking. A minute is one step of the clock and a link is good for two: with
`MaxNow` 2 two requests come at one time, a minute or two apart, and get the lock in either order, and
a link is good, overtaken by another, and expired. `MaxNow`, `MaxTokens`, `MaxContact` and `MaxEpoch`
are guards; the proofs hold for every minute, life of a link and clock. `Browser`:
`MaxBusy` operations of pages and shells are under way in all tabs together, `MaxInbox` messages on a
tab's channel, and one login or logout at a time; a third tab would repeat the second's part. `Refresh`: three
tokens are two renewals, and the second one may quote the token that the first consumed. The run
assumes `WebLocks`; without them both properties fail, as hazards record.

### Fairness

*Release.* The worker's loop starts a pass every minute (`worker.py`, `main.py:72-86`): weak
fairness of `StartPass`. A pass that has been started may be cut short by a crash or by a failing
transaction, any number of times, but not every time: strong fairness of `EvaluateVault`. Nothing
is assumed of the owner, the API, the days or restarts. `SilentOwnerIsReleased` therefore says
that a vault is not *overdue* for ever: overdue means armed, ready, past its window, and the worker
not held. An owner who keeps making the setup unready is not overdue.

`release_dev` checks it outside production, where releases may also be reset.

*Outbox.* Each worker keeps working (`worker.py:21-37`, `main.py:89-101`: a pass that fails is
logged and the loop goes on; a call ends by its timeout): weak fairness of `Work(w)`. Time
passes: weak fairness of `FallDue` and `RunOut`. The number of crashes is finite, the batch
is not smaller than the number of jobs, and a held worker alone would never settle a withheld job, so one worker
in the run is not held.

## 4. What is proved

TLAPS proves, for every value of the constants that the `ASSUME`s admit, the theorems that
`PROJECT.json` lists: every invariant, every action property and both refinements that the passing
runs check, liveness alone excepted. One proof module stands beside each module (`ReleaseProofs` and
so on); an inductive invariant is proved with one lemma per action, and the theorems follow from it.

**Assumptions.** All are about constants, named in the module that declares them and evaluated by
TLC with every run. `Release`: settings are positive and the grace not longer than the interval
(`routers/heartbeat.py` validates both), the owner is not a beneficiary row. `Outbox`: subsets are
subsets; batch, concurrency and budget are positive. `Vault`: a policy has 1 <= k <= n
(`_validate_policy`). `Sessions`: the minute and the life of a link are positive. `Sessions`,
`Refresh`, `Browser`: NULL is none of the ids, and ids of different kinds (hashes of random tokens,
row ids) are different. Bounds are naturals. No set is
assumed finite: where a count matters (`OneSender`), that the tasks of a job are finitely many is
part of the invariant. Four theorems say by a hypothesis of their own what they are about:
`TerminalHolds` and `SwitchImplemented` are for production, and the two about renewal for browsers
with `WebLocks`, without which they are false.

**Release.** The inductive invariant is `ReleaseInvariant`. The properties alone are not inductive:
`ReleasedForCause` needs that no process evaluates a vault in the future (`PassInThePast`, in
production); `GraceIsDatedAndWarned` needs that no warning was recorded for an episode that has not
begun (`EventsNotAhead`), or the next period would take it for its own, and that an armed vault has
a first check-in (`ArmedOnce`). The three outcomes of the checker share lemmas about `InGrace` and
`StageWarnings`. From it follow type correctness, `ReleasedForCause`, `GraceIsDatedAndWarned`,
`WarningsOnlyInGrace` and `SilentReleaseIsReady` for every deployment; `OwnerIsWarned`,
`OneReleaseEvent`, `WarningsAreTimely`, `ReleaseIsTerminal` and the refinement of `DeadMansSwitch`
in production. `WarningsAreTimely` needs two more things of the invariant: that no period starts
with recorded warnings, and that a period's dates do not change while it runs, since whatever
changes them ends it. For the refinement a check-in or a saved setting maps to the abstract action,
a warning or a change of setup to a stutter, and a release to one of the two releases: `ReleaseDue`,
the checker's evaluation time and `PassInThePast` give the guard of `ReleaseBySilence`.

**Outbox.** `OutboxInvariant` is checked by `outbox` as the conjunction of its safety properties
with what they need. The provider sends an email a second time only if it has forgotten the key.
`RepetitionIsKnown` says why no task is then about to send: once a message was sent on, either the
provider knows its key, or 23 hours have passed, no call of the job is under way, and a task that
has read the job holds a token greater than one, so `deliver_one` gives up. That the first claim's
task is not among them needs that a token belongs to one task (`OneTaskPerClaim`), since otherwise a
second task with token 1 could still send without the 23-hour test. `AcceptedWasReceived` rests on
`ReceiptsAreTrue`, `SupersededIsFinal` on the types alone and on every writer's guard. `SettledIsSilent`
rests on the types, too: a settled job has no token, so that a waiting task that starts finds its claim
gone, and no worker claims the job again. `OneSender`
is a count: each task of a live job that has lost its claim, and each task of a job that could be
claimed again, is paid for by an overrun (`SendersAreCounted`). `SmsRepeatedByReclaim` counts the
other side: messages received and sends to come are no more than claims (`SendsAreClaims`), and the
claims of an SMS no more than one, its overruns and the crashes (`ClaimsOfSms`), because a failed
SMS never waits for a retry. Both need lemmas on the cardinality of a set of tasks that loses, gains
or exchanges a member.

**Vault.** `Recoverable` is not inductive. What keeps it: a browser that has unlocked, however long
ago, holds the key that is wrapped (`ViewsHoldTheKey`: rewraps and reshares change everything but
the key), and a draft in the state DRAFT is a first setup, which only a vault without a key can
finalize, or was split from the wrapped key (`DraftsAreOfTheKey`); the revision is 0 until there is
a key (`KeyIsCounted`). So a draft whose browser comes back after the others' setups, reshares and
rewraps is refused or harmless. One lemma about replacing a recipient's row (`UpdateInvariant`)
serves all the handlers of beneficiaries. `SameGate` unfolds the gate on both sides. `RefinesSetup`
takes the handlers in turn, and one of them, the acceptance of an invitation, needs the past:
`Release` lets no acceptance make a drill's signature match again. `DrillRemembers` is the invariant
that rules it out: whoever had accepted when the drill was reported still has, was deleted, or has
moved to another address.

**Sessions.** `SessionsInvariant` contains that the last token of a live family is the only one not
consumed (`FamiliesAreCurrent`), which gives `OneLiveToken`; that what is live is of the running
deployment and of an accepted row at its present address; and that an invitation or link which opened
a session is spent, whatever table it is restored into (`MakersAreSpent`, `HashIsOfTheRow`).
`OneLinkAMinute` rests on the comparison made with the lock held, by the time at which the request
came: it sees every link that the running deployment made for the recipient, because a link that a
restoration lost is of an earlier epoch (`ChallengesAreCurrent`). Two requests may be under way
together and both get a link, when the one that came a minute earlier gets the lock first;
their dates are still a minute apart. `DeadStaysDead` is proved per kind of credential: a family, a link, an invitation,
a token. Two attempts at the proof failed on `Restore` and showed the model wrong: a family that the
backup does not have lost the name of what had opened it, so that nothing was claimed of the
invitation any more (`EarlierFamilies` keeps it now, as a record of the past), and `OpensOneSession`
spoke of live families only (it speaks of all now).

**Refresh.** `NetKnowsTheLast`: while every answer found its tab, a renewal on the network quotes
the family's last token, and the last token is in the jar or in the answer under way; with the lock
there is one renewal at a time, so none can be taken for reuse. `RequestsSucceed` needs besides that
a request retries only with an access cookie (`RetriedHaveAccess`).

**Browser.** `BrowserInvariant` is proved tab by tab: a step of one tab leaves the others alone or
puts a message into their inbox. Its core, `TabsAreCurrent`, drops what `Settled` asks of other
tabs: a tab that has read its own messages, with no cookie stored and not told of, holds the key of
who is signed in, and the unlock or use it has under way is of the same. A key that is not saved yet
ends with its setup (`UnsavedInSetup`).

**Only model-checked.** Liveness, `SilentOwnerIsReleased` and `Settled` (of `Outbox`): fairness and
ENABLED are out of the prover's reach. The four statements of section 6 are refuted, not proved.

## 5. What is not modelled

- Registration and email verification: single requests on one row, no step of which waits.
- The rate limiter: windows in the memory of one process.
- Many vaults: the checker's limit of 100 and its order. `Release` has one vault in detail.
- Reads: recovery access, lists, reports. Their only condition, a released vault or a session, is modelled
  where it is written.
- In the browser: the beneficiary's session and the recovery page, which use the same functions; the
  answer of a renewal that arrives after another login and replaces its cookies (listed as a hazard).
- In `Sessions`: bearer tokens without a family, which production refuses, an address with several
  beneficiary rows, and the deliveries that a restoration ends.
- Code without a caller: the lifecycle tables, `trigger_vault`'s inactivity branch, `move_to_grace`, the
  rotation in `services/auth.py`. `put_recovery_policy` changes nothing.
- Share arithmetic and ciphers, which have no state; HTTP, schema, pages, wording.

## 6. Where the code and its documents disagree

1. **A manual release can pass the gate on an old reading** (`release_stale`).
   `require_release_ready` locks the `Vault` row without refreshing it, and the request had loaded
   it before the status lock. A rewrap that commits between the two leaves the request with the old
   revision, to which ceremony and drill still belong: the vault is released although its
   committed setup is not ready. `docs/remediation-plan.md:164` asks that identity-map caching
   not do this. The checker is not affected (it loads the row after the lock), which is why
   `SilentReleaseIsReady` is proved and `EveryReleaseIsReady` refuted.
2. **A stale worker can write** (`outbox_stale`). `deliver_one`'s decisions before the send do not
   look at the token again, so a worker that loaded a job before its lease was reclaimed, or before it
   was cancelled, moves it to DEAD or CANCELLED. `docs/remediation-plan.md:180` says that it cannot.
   `FinalStaysFinal` states what remains true: such a write never brings a job back.
3. **An SMS can be repeated** (`outbox_sms`). Failures of an SMS are not retried, but a claim whose
   lease ran out is reclaimed whatever its channel. `notifications.py:64-65` promises reconciliation
   by an operator instead. `SmsRepeatedByReclaim` states what remains true.
4. **A change of the passphrase disqualifies every later drill** (`vault_rewrap`). The readiness gate
   asks that the ceremony's revision be the vault's, a rewrap moves the vault's, and nothing but a
   reshare moves the ceremony's: the drill that the owner then reports is accepted and does not count.
   `README.md:10` promises that existing shares continue to work, `docs/remediation-plan.md:332` that drill
   indicators are requalified.

## 7. Plan

The modules are as complete as their runs allow, and what the runs check is proved but for liveness.
What is left to state and prove, most important first:

1. That `Sessions` implements what `Vault` and `Release` assume of acceptance: a row is accepted only by
   the invitation that was last sent to it.
2. That a vault released by silence had its owner warned on every recorded date, as a theorem over
   `Release` and the jobs of `Outbox` together.
3. `SwitchImplemented` outside production, for a switch that may be reset.
4. `Refresh` without Web Locks: what remains true when tabs renew at once.
