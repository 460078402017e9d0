------------------------------- MODULE Outbox -------------------------------
(***************************************************************************)
(* The delivery outbox: jobs staged by the domain's transactions, and      *)
(* workers that claim them in batches under a lease, send them outside any *)
(* transaction and record the outcome.                                     *)
(*                                                                         *)
(* The database's clock is left out: what it can do, a lease that runs     *)
(* out, a retry that falls due, a credential or an idempotency window that *)
(* expires, is an action.  A claim token is fresh for every claim, and so  *)
(* is the number of attempts that a claim counts: the number stands for    *)
(* the token, 0 for none.                                                  *)
(*                                                                         *)
(* deliver_one reads its job in one statement and writes it in a later     *)
(* one, and only the write after the send looks at the token again.  A     *)
(* task's pc tells how far it got:                                         *)
(*   "queued"    claimed, waiting for the semaphore                        *)
(*   "loaded"    the job was read with its token, without a lock           *)
(*   "sending"   the attempt is recorded, the provider called              *)
(*   "answered"  the call ended, the outcome is not written yet            *)
(* Only the send awaits, so a task that was loaded runs alone in its       *)
(* worker until it sends or ends.  The branch at outbox.py:186-192 is left *)
(* out: a process that holds releases does not claim the jobs it is about. *)
(* So is the purge of the payloads that final jobs keep for 30 days.       *)
(***************************************************************************)
EXTENDS Integers, FiniteSets

CONSTANTS
    Job,            \* the deliveries, staged before the first step
    Worker,         \* processes that run work_once
    Sms,            \* the jobs whose channel is "sms"; the rest are emails
    Credential,     \* the jobs whose payload expires with a credential
    Withheld,       \* the jobs of release and grace events
    Held,           \* the workers that run with RELEASE_HOLD
    Batch,          \* how many jobs a pass claims at most
    Concurrency,    \* how many of them it delivers at a time
    AttemptBudget,  \* the attempts after which a failure is final
    MaxOverruns,    \* bound: leases of a job that run out under a live task
    MaxCrashes      \* bound: crashes of workers

ASSUME OutboxAssumption ==
    /\ Sms \subseteq Job /\ Credential \subseteq Job /\ Withheld \subseteq Job
    /\ Held \subseteq Worker
    /\ Batch \in Nat \ {0} /\ Concurrency \in Nat \ {0}
    /\ AttemptBudget \in Nat \ {0}
    /\ MaxOverruns \in Nat /\ MaxCrashes \in Nat

VARIABLES
    job,        \* DeliveryJob: [state, token, leased, attempts, due, payload]
    task,       \* running deliver_one calls: [job, token, worker, pc, outcome]
    purged,     \* the workers between the two transactions that open a pass
    eligible,   \* jobs whose episode and recipient's contact are current
    expired,    \* jobs whose credential expired
    late,       \* 23 hours have passed since the jobs were created
    known,      \* emails whose idempotency key the provider remembers
    received,   \* messages that the provider sent on for each job
    overruns,   \* leases of each job that ran out under a live task
    crashes

provider == <<known, received>>
clock == <<eligible, expired, late, overruns, crashes>>
vars == <<job, task, purged, clock, provider>>

Live == {"READY", "RETRY_WAIT", "CLAIMED"}
Final == {"ACCEPTED", "DEAD", "CANCELLED"}
InFlight == {"loaded", "sending", "answered"}

TasksOf(w) == {t \in task : t.worker = w}

Init ==
    /\ job = [j \in Job |-> [state |-> "READY", token |-> 0, leased |-> FALSE,
                             attempts |-> 0, due |-> TRUE, payload |-> TRUE]]
    /\ task = {}
    /\ purged = {}
    /\ eligible = Job
    /\ expired = {}
    /\ late = FALSE
    /\ known = {}
    /\ received = [j \in Job |-> 0]
    /\ overruns = [j \in Job |-> 0]
    /\ crashes = 0

\* The row in state s, without its claim (the lease is read of claims only).
Settle(row, s) == [row EXCEPT !.state = s, !.token = 0, !.leased = FALSE]

\* Mutant: the cancelled job keeps its token.
CancelledWithToken(row) ==
    [row EXCEPT !.state = "CANCELLED", !.payload = FALSE, !.leased = FALSE]

Cancelled(row) == [Settle(row, "CANCELLED") EXCEPT !.payload = FALSE]

-----------------------------------------------------------------------------
(* What the domain and the clock do                                        *)

\* Mutant: what a worker has claimed is left alone.
SupersedeWaiting(j) ==
    /\ j \in eligible
    /\ eligible' = eligible \ {j}
    /\ job' = IF job[j].state \in {"READY", "RETRY_WAIT"}
              THEN [job EXCEPT ![j] = Cancelled(@)] ELSE job
    /\ UNCHANGED <<task, purged, expired, late, provider, overruns, crashes>>

\* cancel_warnings and cancel_recipient, in the transaction that ends the
\* grace period or replaces the contact the job was addressed to.
Supersede(j) ==
    /\ j \in eligible
    /\ eligible' = eligible \ {j}
    /\ job' = IF job[j].state \in Live THEN [job EXCEPT ![j] = Cancelled(@)] ELSE job
    /\ UNCHANGED <<task, purged, expired, late, provider, overruns, crashes>>

ExpireCredential(j) ==
    /\ j \in Credential \ expired
    /\ expired' = expired \cup {j}
    /\ UNCHANGED <<job, task, purged, eligible, late, provider, overruns, crashes>>

\* 23 hours pass since the jobs were created.
CloseWindow ==
    /\ ~late
    /\ late' = TRUE
    /\ UNCHANGED <<job, task, purged, eligible, expired, provider, overruns, crashes>>

\* The provider's window, 24 hours, closes.  A call ends within seconds, so
\* none that began before the 23rd hour is still under way.
Forget(j) ==
    /\ late
    /\ j \in known
    /\ \A t \in task : t.job = j => t.pc \notin {"loaded", "sending"}
    /\ known' = known \ {j}
    /\ UNCHANGED <<job, task, purged, clock, received>>

FallDue(j) ==
    /\ job[j].state = "RETRY_WAIT"
    /\ ~job[j].due
    /\ job' = [job EXCEPT ![j].due = TRUE]
    /\ UNCHANGED <<task, purged, clock, provider>>

ClaimedBy(j) == {t \in task : t.job = j /\ t.token = job[j].token}

\* 90 seconds pass since the claim: the worker that made it died, or it is
\* slow, which the bound counts.
RunOut(j) ==
    /\ job[j].state = "CLAIMED"
    /\ job[j].leased
    /\ job' = [job EXCEPT ![j].leased = FALSE]
    /\ IF ClaimedBy(j) = {}
       THEN UNCHANGED overruns
       ELSE /\ overruns[j] < MaxOverruns
            /\ overruns' = [overruns EXCEPT ![j] = @ + 1]
    /\ UNCHANGED <<task, purged, eligible, expired, late, provider, crashes>>

\* The process dies, or a call raises what deliver_email does not catch: the
\* error ends the pass, and the tasks of the pass are cancelled with it.
Crash(w) ==
    /\ crashes < MaxCrashes
    /\ crashes' = crashes + 1
    /\ task' = task \ TasksOf(w)
    /\ purged' = purged \ {w}
    /\ UNCHANGED <<job, eligible, expired, late, provider, overruns>>

-----------------------------------------------------------------------------
(* work_once                                                               *)

\* Its first transaction drops the payloads that expired and cancels those of
\* their jobs that were still to be sent.  A worker starts a pass when it has
\* delivered all of the last one.
Purge(w) ==
    /\ w \notin purged
    /\ TasksOf(w) = {}
    /\ purged' = purged \cup {w}
    /\ job' = [j \in Job |->
                IF j \notin expired \/ ~job[j].payload THEN job[j]
                ELSE IF job[j].state \in Live THEN Cancelled(job[j])
                ELSE [job[j] EXCEPT !.payload = FALSE]]
    /\ UNCHANGED <<task, clock, provider>>

\* Mutant: the lease is not looked at.
DueUnderLease(j) ==
    \/ job[j].state \in {"READY", "RETRY_WAIT"} /\ job[j].due
    \/ job[j].state = "CLAIMED"

\* Mutant: what was claimed is not claimed again.
DueUnclaimed(j) == job[j].state \in {"READY", "RETRY_WAIT"} /\ job[j].due

Due(j) ==
    \/ job[j].state \in {"READY", "RETRY_WAIT"} /\ job[j].due
    \/ job[j].state = "CLAIMED" /\ ~job[j].leased

Permitted(w) == {j \in Job : Due(j) /\ (w \in Held => j \notin Withheld)}

\* claim, its second transaction: a batch of due jobs gets new tokens.
Claim(w, batch) ==
    /\ w \in purged
    /\ purged' = purged \ {w}
    /\ batch \subseteq Permitted(w)
    /\ IF Cardinality(Permitted(w)) <= Batch THEN batch = Permitted(w)
                                             ELSE Cardinality(batch) = Batch
    /\ job' = [j \in Job |->
                IF j \in batch
                THEN [job[j] EXCEPT !.state = "CLAIMED", !.leased = TRUE,
                                    !.token = job[j].attempts + 1,
                                    !.attempts = job[j].attempts + 1]
                ELSE job[j]]
    /\ task' = task \cup {[job |-> j, token |-> job'[j].token, worker |-> w,
                           pc |-> "queued", outcome |-> "none"] : j \in batch}
    /\ UNCHANGED <<clock, provider>>

-----------------------------------------------------------------------------
(* deliver_one                                                             *)

Move(t, pc, outcome) ==
    task' = (task \ {t}) \cup {[t EXCEPT !.pc = pc, !.outcome = outcome]}

End(t) == task' = task \ {t}

\* The token that a task still holds.
Owns(t) == job[t.job].state = "CLAIMED" /\ job[t.job].token = t.token

Loaded(w) == {t \in TasksOf(w) : t.pc = "loaded"}

\* Mutant: the first read does not require the token.
LoadUnclaimed(t) ==
    /\ t.pc = "queued"
    /\ Loaded(t.worker) = {}
    /\ Cardinality({u \in TasksOf(t.worker) : u.pc \in InFlight}) < Concurrency
    /\ Move(t, "loaded", "none")
    /\ UNCHANGED <<job, purged, clock, provider>>

\* The first read, when the semaphore lets the task pass.
Load(t) ==
    /\ t.pc = "queued"
    /\ Loaded(t.worker) = {}
    /\ Cardinality({u \in TasksOf(t.worker) : u.pc \in InFlight}) < Concurrency
    /\ IF Owns(t) THEN Move(t, "loaded", "none") ELSE End(t)
    /\ UNCHANGED <<job, purged, clock, provider>>

\* Mutant: the second attempt is not held to the provider's window.
TooLateAfterTwo(t) == late /\ t.token > 2

TooLate(t) == late /\ t.token > 1
Obsolete(t) == t.job \notin eligible \/ t.job \in expired

\* The decisions before the send.  They write the row by its id alone.
GiveUp(t) ==
    /\ t.pc = "loaded"
    /\ TooLate(t)
    /\ job' = [job EXCEPT ![t.job] = Settle(@, "DEAD")]
    /\ End(t)
    /\ UNCHANGED <<purged, clock, provider>>

CancelObsolete(t) ==
    /\ t.pc = "loaded"
    /\ ~TooLate(t) /\ Obsolete(t)
    /\ job' = [job EXCEPT ![t.job] = Cancelled(@)]
    /\ End(t)
    /\ UNCHANGED <<purged, clock, provider>>

\* The deployment has lost the key that the payload was sealed with.
RejectPayload(t) ==
    /\ t.pc = "loaded"
    /\ ~TooLate(t) /\ ~Obsolete(t)
    /\ job' = [job EXCEPT ![t.job] = Settle(@, "DEAD")]
    /\ End(t)
    /\ UNCHANGED <<purged, clock, provider>>

StartSend(t) ==
    /\ t.pc = "loaded"
    /\ ~TooLate(t) /\ ~Obsolete(t)
    /\ Move(t, "sending", "none")
    /\ UNCHANGED <<job, purged, clock, provider>>

\* How a call ends: taken by the provider, taken with the answer lost, not
\* taken but worth another try, or refused.
Outcome == {"accepted", "lost", "retry", "refused"}

Answer(t, outcome) ==
    /\ t.pc = "sending"
    /\ Move(t, "answered", outcome)
    /\ IF outcome \in {"accepted", "lost"} /\ t.job \notin known
       THEN /\ received' = [received EXCEPT ![t.job] = @ + 1]
            /\ known' = IF t.job \in Sms THEN known ELSE known \cup {t.job}
       ELSE UNCHANGED provider
    /\ UNCHANGED <<job, purged, clock>>

\* Mutant: an SMS is retried like an email.
RetryableText(t) ==
    /\ t.outcome \in {"lost", "retry"}
    /\ job[t.job].attempts < AttemptBudget

\* An SMS is never retried: its provider cannot tell a repetition.
Retryable(t) ==
    /\ t.outcome \in {"lost", "retry"}
    /\ t.job \notin Sms
    /\ job[t.job].attempts < AttemptBudget

\* Mutant: the second read does not require the token.
RecordUnowned(t) ==
    /\ t.pc = "answered"
    /\ Loaded(t.worker) = {}
    /\ job' =
        IF t.outcome = "accepted"
        THEN [job EXCEPT ![t.job] = [Settle(@, "ACCEPTED") EXCEPT !.payload = FALSE]]
        ELSE IF Retryable(t)
        THEN [job EXCEPT ![t.job] = [Settle(@, "RETRY_WAIT") EXCEPT !.due = FALSE]]
        ELSE [job EXCEPT ![t.job] = Settle(@, "DEAD")]
    /\ End(t)
    /\ UNCHANGED <<purged, clock, provider>>

\* Mutant: a call without an answer counts as accepted.
RecordUncertain(t) ==
    /\ t.pc = "answered"
    /\ Loaded(t.worker) = {}
    /\ job' =
        IF ~Owns(t) THEN job
        ELSE IF t.outcome # "refused"
        THEN [job EXCEPT ![t.job] = [Settle(@, "ACCEPTED") EXCEPT !.payload = FALSE]]
        ELSE [job EXCEPT ![t.job] = Settle(@, "DEAD")]
    /\ End(t)
    /\ UNCHANGED <<purged, clock, provider>>

\* The second read locks the row and requires the token.
Record(t) ==
    /\ t.pc = "answered"
    /\ Loaded(t.worker) = {}
    /\ job' =
        IF ~Owns(t) THEN job
        ELSE IF t.outcome = "accepted"
        THEN [job EXCEPT ![t.job] = [Settle(@, "ACCEPTED") EXCEPT !.payload = FALSE]]
        ELSE IF Retryable(t)
        THEN [job EXCEPT ![t.job] = [Settle(@, "RETRY_WAIT") EXCEPT !.due = FALSE]]
        ELSE [job EXCEPT ![t.job] = Settle(@, "DEAD")]
    /\ End(t)
    /\ UNCHANGED <<purged, clock, provider>>

Deliver(t) ==
    \/ Load(t)
    \/ GiveUp(t)
    \/ CancelObsolete(t)
    \/ RejectPayload(t)
    \/ StartSend(t)
    \/ \E outcome \in Outcome : Answer(t, outcome)
    \/ Record(t)

Work(w) ==
    \/ Purge(w)
    \/ \E batch \in SUBSET Job : Claim(w, batch)
    \/ \E t \in TasksOf(w) : Deliver(t)

Next ==
    \/ \E j \in Job : Supersede(j) \/ ExpireCredential(j) \/ Forget(j)
                     \/ FallDue(j) \/ RunOut(j)
    \/ CloseWindow
    \/ \E w \in Worker : Work(w) \/ Crash(w)

Spec == Init /\ [][Next]_vars

\* A worker never stops for good: worker.main and _delivery_loop restart a
\* pass that failed, and a call ends by its timeout.  Retries fall due and
\* leases run out with the clock.
FairSpec ==
    /\ Spec
    /\ \A w \in Worker : WF_vars(Work(w))
    /\ \A j \in Job : WF_vars(FallDue(j)) /\ WF_vars(RunOut(j))

-----------------------------------------------------------------------------
(* Properties                                                              *)

Row == [state : Live \cup Final, token : Nat, leased : BOOLEAN,
        attempts : Nat, due : BOOLEAN, payload : BOOLEAN]
JobRow == {row \in Row :
    /\ row.token = (IF row.state = "CLAIMED" THEN row.attempts ELSE 0)
    /\ row.state \in Live => row.payload}
Task == [job : Job, token : Nat \ {0}, worker : Worker,
         pc : {"queued"} \cup InFlight, outcome : {"none"} \cup Outcome]

\* The variables' types, and what a row is: the token of a claim is the last
\* that was given, and a job that is to be sent has its payload.
TypeOK ==
    /\ job \in [Job -> JobRow]
    /\ task \subseteq Task
    /\ purged \subseteq Worker /\ eligible \subseteq Job
    /\ expired \subseteq Credential
    /\ late \in BOOLEAN /\ known \subseteq Job \ Sms
    /\ received \in [Job -> Nat] /\ overruns \in [Job -> Nat]
    /\ crashes \in Nat
    /\ \A t \in task : t.token <= job[t.job].attempts

\* The tasks of a job.
Deliverers(j) == {t \in task : t.job = j}

\* Two tasks deliver one job only when a lease of it ran out under a task
\* that was still alive (claim's lease test and its fresh token).
OneSender == \A j \in Job : Cardinality(Deliverers(j)) <= 1 + overruns[j]

\* A job is reported ACCEPTED only if the provider did take a message of it,
\* and then its payload is gone, whatever tasks of it are still alive
\* (deliver_one's second write).
AcceptedWasReceived ==
    \A j \in Job : job[j].state = "ACCEPTED" => received[j] >= 1 /\ ~job[j].payload

\* What the domain cancelled is never in the queue again: neither a task that
\* was sending it nor a failure that would be retried brings it back
\* (cancel_warnings and cancel_recipient against claim and deliver_one).
SupersededIsFinal ==
    \A j \in Job : j \notin eligible => job[j].state \in Final

\* The recipient of an email gets it at most once, through retries, lost
\* answers, crashes and leases that run out: a repetition falls within the
\* provider's window or is not sent (the 23 hours of deliver_one).
EmailReceivedOnce == \A j \in Job \ Sms : received[j] <= 1

\* A claim token belongs to one task.
OneTaskPerClaim == \A t, u \in task : t.job = u.job /\ t.token = u.token => t = u

\* What the provider knows or accepted, it sent on.
ReceiptsAreTrue ==
    /\ \A j \in known : received[j] >= 1
    /\ \A t \in task : t.pc = "answered" /\ t.outcome = "accepted" => received[t.job] >= 1

\* Why the second message of an email is never sent on: no task of the first
\* claim is left that could send it, and when the provider has forgotten the
\* first one, a task of a later claim finds the 23 hours over.
RepetitionIsKnown ==
    \A j \in Job : received[j] >= 1 =>
        /\ job[j].attempts >= 1
        /\ job[j].attempts = 1 => \A t \in task : t.job = j => t.pc = "answered"
        /\ j \notin Sms \cup known =>
            /\ late
            /\ \A t \in task : t.job = j => t.pc # "sending"
            /\ \A t \in task : t.job = j /\ t.pc = "loaded" => t.token > 1

\* An SMS, whose provider does not recognise a repetition, is repeated only by
\* the reclaim of a lease that ran out, never by the retry of a failure.
SmsRepeatedByReclaim ==
    \A j \in Sms : received[j] <= 1 + overruns[j] + crashes

\* What keeps OneSender: every task that has lost its claim, and every task of
\* a job that can be claimed, was overrun.
SendersAreCounted ==
    \A j \in Job :
        /\ IsFiniteSet(Deliverers(j))
        /\ job[j].state \in Live =>
            /\ Cardinality(Deliverers(j) \ ClaimedBy(j)) <= overruns[j]
            /\ job[j].state # "CLAIMED" \/ ~job[j].leased =>
                Cardinality(Deliverers(j)) <= overruns[j]

\* A claim sends at most one message; one that it may still send is pending.
Pending(j) == {t \in Deliverers(j) : t.pc # "answered"}
SendsAreClaims ==
    \A j \in Job : received[j] + Cardinality(Pending(j)) <= job[j].attempts

\* What keeps SmsRepeatedByReclaim: an SMS is claimed again after its lease ran
\* out under a live task, or when a crash took the task of the claim.
ClaimsOfSms ==
    \A j \in Sms :
        /\ job[j].state # "RETRY_WAIT"
        /\ job[j].state = "READY" => job[j].attempts = 0
        /\ job[j].attempts <= 1 + overruns[j] + crashes
        /\ job[j].state = "CLAIMED" /\ (job[j].leased => ClaimedBy(j) = {}) =>
            job[j].attempts <= overruns[j] + crashes

\* The inductive invariant behind the safety properties.
OutboxInvariant ==
    /\ TypeOK
    /\ OneTaskPerClaim /\ ReceiptsAreTrue /\ RepetitionIsKnown
    /\ AcceptedWasReceived /\ SupersededIsFinal /\ EmailReceivedOnce
    /\ SendersAreCounted /\ OneSender
    /\ SendsAreClaims /\ ClaimsOfSms /\ SmsRepeatedByReclaim

\* A final job never enters the queue again, and no job becomes ACCEPTED
\* after it was given up: there is no path out of DEAD or CANCELLED but to
\* the other (claim, deliver_one, work_once).
FinalStaysFinal ==
    [][\A j \in Job : job[j].state \in Final =>
            job'[j].state \in {job[j].state, "DEAD", "CANCELLED"}]_vars

\* The tasks of j that there are wait for the semaphore.
AllQueued(j) == \A t \in Deliverers(j) : t.pc = "queued"

\* A job that is settled while tasks of it wait in the queue is not sent: a
\* task that waits so long that its lease runs out, the job is claimed by
\* another worker and delivered, or cancelled by the domain, finds that when
\* it starts (the token at outbox.py:174-184, and claim).
SettledIsSilent ==
    [][\A j \in Job : job[j].state \in Final /\ AllQueued(j) =>
            AllQueued(j)' /\ received'[j] = received[j]]_vars

\* Every job reaches a final state: no crash, lost answer, lease or pause of a
\* worker leaves one in the queue for ever (work_once's loop).
Settled == \A j \in Job : <>[](job[j].state \in Final)

\* docs/remediation-plan.md:180: "Update the result only if the claim token
\* still matches.  A reclaimed lease prevents the stale worker from changing
\* job state".  The writes before the send do not look at the token.
StaleWorkerWritesNothing ==
    [][\A t \in task \ task' : ~Owns(t) => job'[t.job] = job[t.job]]_vars

\* notifications.py:64: "Uncertain requests require operator reconciliation
\* rather than automatic duplicates".  A lease that runs out after the
\* provider took the message makes one.
SmsReceivedOnce == \A j \in Sms : received[j] <= 1

=============================================================================
