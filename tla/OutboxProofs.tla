---------------------------- MODULE OutboxProofs ----------------------------
(***************************************************************************)
(* Theorems about Outbox.tla for every set of jobs and workers, every      *)
(* batch, concurrency and attempt budget, and any number of crashes and    *)
(* leases that run out.  OutboxInvariant is proved inductive: first the    *)
(* types, then what it says of tasks and messages.                         *)
(***************************************************************************)
EXTENDS Outbox, FiniteSetTheorems, TLAPS

-----------------------------------------------------------------------------
(* Rows                                                                    *)

\* A settled job keeps a consistent row, with or without its payload.
LEMMA SettledRow ==
  ASSUME NEW row \in JobRow, NEW s \in Final
  PROVE  /\ Settle(row, s) \in JobRow
         /\ [Settle(row, s) EXCEPT !.payload = FALSE] \in JobRow
         /\ Settle(row, s).state = s
         /\ Settle(row, s).payload = row.payload
         /\ Settle(row, s).attempts = row.attempts
  BY DEF Settle, JobRow, Row, Final, Live

\* A cancelled row is consistent and final.
LEMMA CancelledRow ==
  ASSUME NEW row \in JobRow
  PROVE  /\ Cancelled(row) \in JobRow
         /\ Cancelled(row).state = "CANCELLED"
         /\ Cancelled(row).attempts = row.attempts
  BY DEF Cancelled, Settle, JobRow, Row, Final, Live

\* What is claimed or waits for a retry has its payload, so it may wait again.
LEMMA RetriedRow ==
  ASSUME NEW row \in JobRow, row.state \in Live
  PROVE  /\ [Settle(row, "RETRY_WAIT") EXCEPT !.due = FALSE] \in JobRow
         /\ [Settle(row, "RETRY_WAIT") EXCEPT !.due = FALSE].state = "RETRY_WAIT"
         /\ [Settle(row, "RETRY_WAIT") EXCEPT !.due = FALSE].attempts = row.attempts
  BY DEF Settle, JobRow, Row, Final, Live

\* The row of a job that is claimed.
LEMMA ClaimedRow ==
  ASSUME NEW row \in JobRow, row.state \in Live
  PROVE  LET new == [row EXCEPT !.state = "CLAIMED", !.leased = TRUE,
                                !.token = row.attempts + 1,
                                !.attempts = row.attempts + 1]
         IN  /\ new \in JobRow
             /\ new.state = "CLAIMED"
             /\ new.token = row.attempts + 1
             /\ new.attempts = row.attempts + 1
<1> DEFINE n == row.attempts + 1
<1>1. n \in Nat
  BY DEF JobRow, Row
<1> HIDE DEF n
<1>2. [row EXCEPT !.state = "CLAIMED", !.leased = TRUE, !.token = n, !.attempts = n]
        \in JobRow
  BY <1>1 DEF JobRow, Row, Live, Final
<1> QED
  BY <1>1, <1>2 DEF JobRow, Row, n

-----------------------------------------------------------------------------
(* Types                                                                   *)

LEMMA InitType == Init => TypeOK
<1> SUFFICES ASSUME Init
             PROVE  TypeOK
  OBVIOUS
<1>1. [state |-> "READY", token |-> 0, leased |-> FALSE, attempts |-> 0,
       due |-> TRUE, payload |-> TRUE] \in JobRow
  BY DEF JobRow, Row, Live, Final
<1> QED
  BY <1>1 DEF Init, TypeOK

\* What the domain and the clock do to a job.
LEMMA ClockType ==
  ASSUME TypeOK, NEW j \in Job,
         Supersede(j) \/ ExpireCredential(j) \/ Forget(j) \/ FallDue(j) \/ RunOut(j)
  PROVE  TypeOK'
<1>1. CASE Supersede(j)
  <2>1. job' \in [Job -> JobRow]
    BY <1>1, CancelledRow DEF Supersede, TypeOK
  <2>2. \A i \in Job : job'[i].attempts = job[i].attempts
    BY <1>1, CancelledRow DEF Supersede, TypeOK
  <2> QED
    BY <1>1, <2>1, <2>2 DEF Supersede, TypeOK, provider, Task
<1>2. CASE ExpireCredential(j) \/ Forget(j)
  BY <1>2 DEF ExpireCredential, Forget, TypeOK, provider, clock
<1>3. CASE FallDue(j)
  <2>1. [job[j] EXCEPT !.due = TRUE] \in JobRow
    BY DEF TypeOK, JobRow, Row
  <2>2. \A i \in Job : job'[i].attempts = job[i].attempts
    BY <1>3 DEF FallDue, TypeOK, JobRow, Row
  <2> QED
    BY <1>3, <2>1, <2>2 DEF FallDue, TypeOK, provider, clock, Task
<1>4. CASE RunOut(j)
  <2>1. [job[j] EXCEPT !.leased = FALSE] \in JobRow
    BY DEF TypeOK, JobRow, Row
  <2>2. \A i \in Job : job'[i].attempts = job[i].attempts
    BY <1>4 DEF RunOut, TypeOK, JobRow, Row
  <2>3. overruns' \in [Job -> Nat]
    BY <1>4 DEF RunOut, TypeOK
  <2> QED
    BY <1>4, <2>1, <2>2, <2>3 DEF RunOut, TypeOK, provider, Task
<1> QED
  BY <1>1, <1>2, <1>3, <1>4

\* The two transactions that open a pass.
LEMMA PassType ==
  ASSUME TypeOK, NEW w \in Worker
  PROVE  /\ Purge(w) => TypeOK'
         /\ \A batch \in SUBSET Job : Claim(w, batch) => TypeOK'
<1>1. ASSUME Purge(w)
      PROVE  TypeOK'
  <2>1. ASSUME NEW j \in Job
        PROVE  job'[j] \in JobRow /\ job'[j].attempts = job[j].attempts
    <3>1. CASE j \notin expired \/ ~job[j].payload
      BY <1>1, <3>1 DEF Purge, TypeOK
    <3>2. CASE ~(j \notin expired \/ ~job[j].payload) /\ job[j].state \in Live
      BY <1>1, <3>2, CancelledRow DEF Purge, TypeOK
    <3>3. CASE ~(j \notin expired \/ ~job[j].payload) /\ job[j].state \notin Live
      BY <1>1, <3>3 DEF Purge, TypeOK, JobRow, Row
    <3> QED
      BY <3>1, <3>2, <3>3
  <2> QED
    BY <1>1, <2>1 DEF Purge, TypeOK, provider, clock, Task
<1>2. ASSUME NEW batch \in SUBSET Job, Claim(w, batch)
      PROVE  TypeOK'
  <2>1. \A j \in batch : job[j].state \in Live
    BY <1>2 DEF Claim, Permitted, Due, Live
  <2>2. ASSUME NEW j \in Job
        PROVE  /\ job'[j] \in JobRow
               /\ job'[j].attempts \in Nat /\ job'[j].token \in Nat
               /\ job[j].attempts <= job'[j].attempts
               /\ j \in batch => job'[j].token = job'[j].attempts /\ job'[j].token > 0
    <3>1. job[j] \in JobRow /\ job[j].attempts \in Nat
      BY DEF TypeOK, JobRow, Row
    <3>2. CASE j \in batch
      <4>1. job'[j] = [job[j] EXCEPT !.state = "CLAIMED", !.leased = TRUE,
                                     !.token = job[j].attempts + 1,
                                     !.attempts = job[j].attempts + 1]
        BY <1>2, <3>2 DEF Claim
      <4>2. /\ job'[j] \in JobRow
            /\ job'[j].token = job[j].attempts + 1
            /\ job'[j].attempts = job[j].attempts + 1
        BY <2>1, <3>1, <3>2, <4>1, ClaimedRow
      <4> QED
        BY <3>1, <4>2
    <3>3. CASE j \notin batch
      <4>1. job'[j] = job[j]
        BY <1>2, <3>3 DEF Claim
      <4>2. job[j].token \in Nat
        BY <3>1 DEF JobRow, Row
      <4> QED
        BY <3>1, <3>3, <4>1, <4>2
    <3> QED
      BY <3>2, <3>3
  <2>3. job' \in [Job -> JobRow]
    BY <1>2, <2>2 DEF Claim
  <2>4. \A t \in task' : t \in task \/ \E j \in batch :
            t = [job |-> j, token |-> job'[j].token, worker |-> w,
                 pc |-> "queued", outcome |-> "none"]
    BY <1>2 DEF Claim
  <2>5. task' \subseteq Task
    BY <2>2, <2>4 DEF TypeOK, Task
  <2>6. ASSUME NEW t \in task'
        PROVE  t.token <= job'[t.job].attempts
    <3>1. CASE t \in task
      <4>1. t.job \in Job /\ t.token \in Nat /\ t.token <= job[t.job].attempts
        BY <3>1 DEF TypeOK, Task
      <4>2. job[t.job].attempts \in Nat
        BY <4>1 DEF TypeOK, JobRow, Row
      <4> QED
        BY <2>2, <4>1, <4>2
    <3>2. CASE t \notin task
      <4>1. PICK j \in batch : t.job = j /\ t.token = job'[j].token
        BY <2>4, <3>2
      <4> QED
        BY <2>2, <4>1
    <3> QED
      BY <3>1, <3>2
  <2> QED
    BY <1>2, <2>3, <2>5, <2>6 DEF Claim, TypeOK, provider, clock
<1> QED
  BY <1>1, <1>2

\* A task that moves on is still the task of its claim.
LEMMA MovedTask ==
  ASSUME TypeOK, NEW t \in task, NEW pc \in {"queued"} \cup InFlight,
         NEW o \in {"none"} \cup Outcome, Move(t, pc, o)
  PROVE  \E m \in Task : /\ task' = (task \ {t}) \cup {m}
                         /\ m.job = t.job /\ m.token = t.token
                         /\ m.pc = pc /\ m.outcome = o
<1> DEFINE m == [t EXCEPT !.pc = pc, !.outcome = o]
<1>1. t \in Task
  BY DEF TypeOK
<1>2. /\ m \in Task /\ m.job = t.job /\ m.token = t.token
      /\ m.pc = pc /\ m.outcome = o
  BY <1>1 DEF Task
<1>3. task' = (task \ {t}) \cup {m}
  BY DEF Move
<1> HIDE DEF m
<1> QED
  BY <1>2, <1>3

LEMMA MoveType ==
  ASSUME TypeOK, NEW t \in task, NEW pc \in {"queued"} \cup InFlight,
         NEW o \in {"none"} \cup Outcome, Move(t, pc, o)
  PROVE  /\ task' \subseteq Task
         /\ \A u \in task' : u.token <= job[u.job].attempts
<1>1. PICK m \in Task : task' = (task \ {t}) \cup {m} /\ m.job = t.job /\ m.token = t.token
  BY MovedTask
<1> QED
  BY <1>1 DEF TypeOK

\* A step of deliver_one.
LEMMA DeliverType ==
  ASSUME TypeOK, NEW t \in task, Deliver(t)
  PROVE  TypeOK'
<1>1. t \in Task /\ t.job \in Job /\ job[t.job] \in JobRow
  BY DEF TypeOK, Task
<1>2. CASE Load(t) \/ StartSend(t)
  <2>1. UNCHANGED <<job, purged, clock, provider>>
    BY <1>2 DEF Load, StartSend
  <2>2. End(t) \/ Move(t, "loaded", "none") \/ Move(t, "sending", "none")
    BY <1>2 DEF Load, StartSend
  <2>3. task' \subseteq Task /\ \A u \in task' : u.token <= job[u.job].attempts
    <3>1. CASE End(t)
      BY <3>1 DEF End, TypeOK
    <3>2. "loaded" \in InFlight /\ "sending" \in InFlight
      BY DEF InFlight
    <3> QED
      BY <2>2, <3>1, <3>2, MoveType
  <2> QED
    BY <2>1, <2>3 DEF TypeOK, clock, provider
<1>3. CASE \E o \in Outcome : Answer(t, o)
  <2>1. PICK o \in Outcome : Answer(t, o)
    BY <1>3
  <2>2. received' \in [Job -> Nat] /\ known' \subseteq Job \ Sms
    BY <1>1, <2>1 DEF Answer, TypeOK, provider
  <2>3. Move(t, "answered", o) /\ "answered" \in InFlight
    BY <2>1 DEF Answer, InFlight
  <2>4. task' \subseteq Task /\ \A u \in task' : u.token <= job[u.job].attempts
    BY <2>3, MoveType
  <2> QED
    BY <2>1, <2>2, <2>4 DEF Answer, TypeOK, clock
<1>4. CASE GiveUp(t) \/ CancelObsolete(t) \/ RejectPayload(t) \/ Record(t)
  <2>1. job' \in [Job -> JobRow] /\ \A j \in Job : job'[j].attempts = job[j].attempts
    <3>1. CASE job' = job
      BY <3>1 DEF TypeOK
    <3>2. CASE job' = [job EXCEPT ![t.job] = Settle(@, "DEAD")]
      <4>1. Settle(job[t.job], "DEAD") \in JobRow
        BY <1>1, SettledRow DEF Final
      <4>2. Settle(job[t.job], "DEAD").attempts = job[t.job].attempts
        BY <1>1, SettledRow DEF Final
      <4> QED
        BY <1>1, <3>2, <4>1, <4>2 DEF TypeOK
    <3>3. CASE job' = [job EXCEPT ![t.job] = Cancelled(@)]
      BY <1>1, <3>3, CancelledRow DEF TypeOK
    <3>4. CASE job' = [job EXCEPT ![t.job] =
                        [Settle(@, "ACCEPTED") EXCEPT !.payload = FALSE]]
      <4>1. [Settle(job[t.job], "ACCEPTED") EXCEPT !.payload = FALSE].attempts
                = job[t.job].attempts
        BY <1>1 DEF Settle, JobRow, Row
      <4> QED
        BY <1>1, <3>4, <4>1, SettledRow DEF TypeOK, Final
    <3>5. CASE Owns(t) /\ job' = [job EXCEPT ![t.job] =
                        [Settle(@, "RETRY_WAIT") EXCEPT !.due = FALSE]]
      <4>1. job[t.job].state \in Live
        BY <3>5 DEF Owns, Live
      <4> QED
        BY <1>1, <3>5, <4>1, RetriedRow DEF TypeOK
    <3> QED
      BY <1>4, <3>1, <3>2, <3>3, <3>4, <3>5
         DEF GiveUp, CancelObsolete, RejectPayload, Record
  <2>2. End(t) /\ UNCHANGED <<purged, clock, provider>>
    BY <1>4 DEF GiveUp, CancelObsolete, RejectPayload, Record
  <2>3. \A u \in task' : u \in task /\ u.job \in Job
    BY <2>2 DEF End, TypeOK, Task
  <2> QED
    BY <2>1, <2>2, <2>3 DEF End, TypeOK, clock, provider
<1> QED
  BY <1>2, <1>3, <1>4 DEF Deliver

LEMMA NextType ==
  ASSUME TypeOK, [Next]_vars
  PROVE  TypeOK'
<1>1. ASSUME NEW j \in Job,
             Supersede(j) \/ ExpireCredential(j) \/ Forget(j) \/ FallDue(j) \/ RunOut(j)
      PROVE  TypeOK'
  BY <1>1, ClockType
<1>2. ASSUME CloseWindow
      PROVE  TypeOK'
  BY <1>2 DEF CloseWindow, TypeOK, provider
<1>3. ASSUME NEW w \in Worker, Work(w)
      PROVE  TypeOK'
  BY <1>3, PassType, DeliverType DEF Work, TasksOf
<1>4. ASSUME NEW w \in Worker, Crash(w)
      PROVE  TypeOK'
  BY <1>4 DEF Crash, TypeOK, provider
<1>5. ASSUME UNCHANGED vars
      PROVE  TypeOK'
  BY <1>5 DEF vars, clock, provider, TypeOK
<1> QED
  BY <1>1, <1>2, <1>3, <1>4, <1>5 DEF Next

\* The types of Outbox's state hold in every reachable state: in particular
\* only a claimed job has a token, and a job to be sent never lost its payload.
THEOREM TypeCorrect == Spec => []TypeOK
<1> QED
  BY InitType, NextType, PTL DEF Spec

-----------------------------------------------------------------------------
(* The queue                                                               *)

\* No step brings a job back from a final state.
LEMMA FinalStep ==
  ASSUME TypeOK, [Next]_vars, NEW j \in Job, job[j].state \in Final
  PROVE  job'[j].state \in {job[j].state, "DEAD", "CANCELLED"}
<1>1. job[j] \in JobRow /\ job[j].state \notin Live
  BY DEF TypeOK, Live, Final
<1>2. ASSUME NEW i \in Job,
             Supersede(i) \/ ExpireCredential(i) \/ Forget(i) \/ FallDue(i) \/ RunOut(i)
      PROVE  job'[j].state = job[j].state
  <2>1. CASE Supersede(i) \/ ExpireCredential(i) \/ Forget(i)
    BY <1>1, <2>1 DEF Supersede, ExpireCredential, Forget, TypeOK
  <2>2. CASE FallDue(i)
    BY <1>1, <2>2 DEF FallDue, TypeOK, Live
  <2>3. CASE RunOut(i)
    BY <1>1, <2>3 DEF RunOut, TypeOK, Live
  <2> QED
    BY <1>2, <2>1, <2>2, <2>3
<1>3. ASSUME NEW w \in Worker, Purge(w)
      PROVE  job'[j].state = job[j].state
  <2>1. job'[j] = job[j] \/ job'[j] = [job[j] EXCEPT !.payload = FALSE]
    BY <1>1, <1>3 DEF Purge
  <2> QED
    BY <1>1, <2>1 DEF JobRow, Row
<1>4. ASSUME NEW w \in Worker, NEW batch \in SUBSET Job, Claim(w, batch)
      PROVE  job'[j].state = job[j].state
  <2>1. j \notin batch
    BY <1>1, <1>4 DEF Claim, Permitted, Due, Live
  <2> QED
    BY <1>4, <2>1 DEF Claim
<1>5. ASSUME NEW t \in task, Deliver(t)
      PROVE  job'[j].state \in {job[j].state, "DEAD", "CANCELLED"}
  <2>1. t.job \in Job /\ job[t.job] \in JobRow
    BY DEF TypeOK, Task
  <2>2. CASE Load(t) \/ StartSend(t) \/ \E o \in Outcome : Answer(t, o)
    BY <2>2 DEF Load, StartSend, Answer
  <2>3. CASE GiveUp(t) \/ RejectPayload(t)
    <3>1. Settle(job[t.job], "DEAD").state = "DEAD"
      BY <2>1, SettledRow DEF Final
    <3> QED
      BY <2>1, <2>3, <3>1 DEF GiveUp, RejectPayload, TypeOK
  <2>4. CASE CancelObsolete(t)
    BY <2>1, <2>4, CancelledRow DEF CancelObsolete, TypeOK
  <2>5. CASE Record(t)
    <3>1. Owns(t) => t.job # j
      BY <1>1 DEF Owns, Live
    <3> QED
      BY <2>5, <3>1 DEF Record
  <2> QED
    BY <1>5, <2>2, <2>3, <2>4, <2>5 DEF Deliver
<1>6. CASE CloseWindow \/ UNCHANGED vars \/ \E w \in Worker : Crash(w)
  BY <1>6 DEF CloseWindow, Crash, vars
<1> QED
  BY <1>2, <1>3, <1>4, <1>5, <1>6 DEF Next, Work, TasksOf

\* Neither does one of a worker that was sending a job when it was cancelled.
LEMMA SupersededStep ==
  ASSUME TypeOK, SupersededIsFinal, [Next]_vars
  PROVE  SupersededIsFinal'
<1> SUFFICES ASSUME NEW j \in Job, j \notin eligible'
             PROVE  job'[j].state \in Final
  BY DEF SupersededIsFinal
<1>1. CASE j \notin eligible
  BY <1>1, FinalStep DEF SupersededIsFinal, Final
<1>2. CASE j \in eligible
  <2>1. Supersede(j)
    <3>1. PICK i \in Job : Supersede(i)
      BY <1>2 DEF Next, Work, TasksOf, Deliver, ExpireCredential, Forget, FallDue, RunOut,
                  CloseWindow, Purge, Claim, Crash, Load, GiveUp, CancelObsolete,
                  RejectPayload, StartSend, Answer, Record, vars, clock
    <3> QED
      BY <1>2, <3>1 DEF Supersede
  <2>2. job[j] \in JobRow /\ job[j].state \in Live \cup Final
    BY DEF TypeOK, JobRow, Row
  <2>3. CASE job[j].state \in Live
    BY <2>1, <2>2, <2>3, CancelledRow DEF Supersede, TypeOK, Final
  <2>4. CASE job[j].state \in Final
    BY <2>4, FinalStep DEF Final
  <2> QED
    BY <2>2, <2>3, <2>4
<1> QED
  BY <1>1, <1>2

-----------------------------------------------------------------------------
(* Tasks and messages                                                      *)

MessageInvariant ==
    OneTaskPerClaim /\ ReceiptsAreTrue /\ RepetitionIsKnown /\ EmailReceivedOnce

\* A step that claims nothing, sends nothing and moves no task but to end it.
LEMMA QuietStep ==
  ASSUME TypeOK, MessageInvariant, task' \subseteq task, UNCHANGED provider,
         late => late', \A j \in Job : job'[j].attempts = job[j].attempts
  PROVE  MessageInvariant'
<1>1. OneTaskPerClaim'
  BY DEF MessageInvariant, OneTaskPerClaim
<1>2. ReceiptsAreTrue'
  BY DEF MessageInvariant, ReceiptsAreTrue, provider
<1>3. RepetitionIsKnown'
  BY DEF MessageInvariant, RepetitionIsKnown, provider
<1> QED
  BY <1>1, <1>2, <1>3 DEF MessageInvariant, EmailReceivedOnce, provider

\* Only claim counts attempts.
LEMMA AttemptsStep ==
  ASSUME TypeOK, NEW j \in Job
  PROVE  /\ \A i \in Job : Supersede(i) \/ FallDue(i) \/ RunOut(i)
                => job'[j].attempts = job[j].attempts
         /\ \A w \in Worker : Purge(w) => job'[j].attempts = job[j].attempts
         /\ \A t \in task : GiveUp(t) \/ CancelObsolete(t) \/ RejectPayload(t) \/ Record(t)
                => job'[j].attempts = job[j].attempts
<1>1. job[j] \in JobRow
  BY DEF TypeOK
<1>2. ASSUME NEW i \in Job, Supersede(i) \/ FallDue(i) \/ RunOut(i)
      PROVE  job'[j].attempts = job[j].attempts
  <2>1. CASE Supersede(i)
    BY <1>1, <2>1, CancelledRow DEF Supersede, TypeOK
  <2>2. CASE FallDue(i) \/ RunOut(i)
    BY <1>1, <2>2 DEF FallDue, RunOut, TypeOK, JobRow, Row
  <2> QED
    BY <1>2, <2>1, <2>2
<1>3. ASSUME NEW w \in Worker, Purge(w)
      PROVE  job'[j].attempts = job[j].attempts
  <2>1. \/ job'[j] = job[j] \/ job'[j] = Cancelled(job[j])
        \/ job'[j] = [job[j] EXCEPT !.payload = FALSE]
    BY <1>3 DEF Purge
  <2> QED
    BY <1>1, <2>1, CancelledRow DEF JobRow, Row
<1>4. ASSUME NEW t \in task,
             GiveUp(t) \/ CancelObsolete(t) \/ RejectPayload(t) \/ Record(t)
      PROVE  job'[j].attempts = job[j].attempts
  <2>1. t.job \in Job /\ job[t.job] \in JobRow
    BY DEF TypeOK, Task
  <2>2. Settle(job[t.job], "DEAD").attempts = job[t.job].attempts
    BY <2>1, SettledRow DEF Final
  <2>3. Cancelled(job[t.job]).attempts = job[t.job].attempts
    BY <2>1, CancelledRow
  <2>4. [Settle(job[t.job], "ACCEPTED") EXCEPT !.payload = FALSE].attempts
            = job[t.job].attempts
    BY <2>1 DEF Settle, JobRow, Row
  <2>5. [Settle(job[t.job], "RETRY_WAIT") EXCEPT !.due = FALSE].attempts
            = job[t.job].attempts
    BY <2>1 DEF Settle, JobRow, Row
  <2>6. CASE Record(t)
    BY <2>1, <2>2, <2>4, <2>5, <2>6 DEF Record, TypeOK
  <2>7. CASE GiveUp(t) \/ CancelObsolete(t) \/ RejectPayload(t)
    BY <2>1, <2>2, <2>3, <2>7 DEF GiveUp, CancelObsolete, RejectPayload, TypeOK
  <2> QED
    BY <1>4, <2>6, <2>7
<1> QED
  BY <1>2, <1>3, <1>4

\* The provider forgets an email after the 23 hours, when no task is sending it.
LEMMA ForgetMessages ==
  ASSUME TypeOK, MessageInvariant, NEW i \in Job, Forget(i)
  PROVE  MessageInvariant'
<1>1. UNCHANGED <<job, task, received, late>> /\ late
  BY DEF Forget, clock
<1>2. RepetitionIsKnown'
  BY <1>1 DEF Forget, MessageInvariant, RepetitionIsKnown
<1> QED
  BY <1>1, <1>2 DEF Forget, MessageInvariant, OneTaskPerClaim, ReceiptsAreTrue,
                    EmailReceivedOnce

\* A claim's token is above those of all tasks of the job.
LEMMA ClaimMessages ==
  ASSUME TypeOK, MessageInvariant, NEW w \in Worker, NEW batch \in SUBSET Job,
         Claim(w, batch)
  PROVE  MessageInvariant'
<1> DEFINE new(j) == [job |-> j, token |-> job'[j].token, worker |-> w,
                      pc |-> "queued", outcome |-> "none"]
<1>1. \A t \in task' : t \in task \/ \E j \in batch : t = new(j)
  BY DEF Claim
<1>2. UNCHANGED <<known, received, late>>
  BY DEF Claim, clock, provider
<1>3. ASSUME NEW j \in Job
      PROVE  /\ job[j].attempts \in Nat
             /\ j \in batch => /\ job'[j].attempts = job[j].attempts + 1
                               /\ job'[j].token = job[j].attempts + 1
             /\ j \notin batch => job'[j].attempts = job[j].attempts
  <2>1. job[j] \in JobRow /\ job[j].attempts \in Nat
    BY DEF TypeOK, JobRow, Row
  <2>2. CASE j \in batch
    <3>1. job'[j] = [job[j] EXCEPT !.state = "CLAIMED", !.leased = TRUE,
                                   !.token = job[j].attempts + 1,
                                   !.attempts = job[j].attempts + 1]
      BY <2>2 DEF Claim
    <3>2. job[j].state \in Live
      BY <2>2 DEF Claim, Permitted, Due, Live
    <3> QED
      BY <2>1, <2>2, <3>1, <3>2, ClaimedRow
  <2>3. CASE j \notin batch
    BY <2>1, <2>3 DEF Claim
  <2> QED
    BY <2>2, <2>3
<1>4. \A t \in task : /\ t.job \in Job /\ t.token \in Nat /\ t.token > 0
                      /\ t.token <= job[t.job].attempts
  BY DEF TypeOK, Task
<1>5. \A j \in batch : /\ new(j).job = j /\ new(j).token = job[j].attempts + 1
                       /\ new(j).pc = "queued"
  BY <1>3
<1> HIDE DEF new
<1>6. OneTaskPerClaim'
  <2> SUFFICES ASSUME NEW t \in task', NEW u \in task', t.job = u.job, t.token = u.token
               PROVE  t = u
    BY DEF OneTaskPerClaim
  <2>1. CASE t \in task /\ u \in task
    BY <2>1 DEF MessageInvariant, OneTaskPerClaim
  <2>2. ASSUME NEW x \in task, NEW y \in batch, x.job = new(y).job
        PROVE  x.token # new(y).token
    BY <1>3, <1>4, <1>5, <2>2
  <2>3. CASE t \notin task /\ u \notin task
    BY <1>1, <1>5, <2>3
  <2> QED
    BY <1>1, <2>1, <2>2, <2>3
<1>7. ReceiptsAreTrue'
  BY <1>1, <1>2, <1>5 DEF MessageInvariant, ReceiptsAreTrue
<1>8. RepetitionIsKnown'
  <2> SUFFICES ASSUME NEW j \in Job, received[j] >= 1
               PROVE  /\ job'[j].attempts >= 1
                      /\ job'[j].attempts = 1 => \A t \in task' : t.job = j => t.pc = "answered"
                      /\ j \notin Sms \cup known =>
                          /\ late
                          /\ \A t \in task' : t.job = j => t.pc # "sending"
                          /\ \A t \in task' : t.job = j /\ t.pc = "loaded" => t.token > 1
    BY <1>2 DEF RepetitionIsKnown
  <2>1. /\ job[j].attempts >= 1
        /\ job[j].attempts = 1 => \A t \in task : t.job = j => t.pc = "answered"
        /\ j \notin Sms \cup known =>
            /\ late
            /\ \A t \in task : t.job = j => t.pc # "sending"
            /\ \A t \in task : t.job = j /\ t.pc = "loaded" => t.token > 1
    BY DEF MessageInvariant, RepetitionIsKnown
  <2>2. \A t \in task' : t \in task \/ (t.pc = "queued" /\ t.job \in batch)
    BY <1>1, <1>5
  <2>3. j \in batch => job'[j].attempts > 1
    BY <1>3, <2>1
  <2> QED
    BY <1>3, <2>1, <2>2, <2>3
<1> QED
  BY <1>2, <1>6, <1>7, <1>8 DEF MessageInvariant, EmailReceivedOnce

\* A task that loads its job after an email was sent on has a later claim.
LEMMA LoadMessages ==
  ASSUME TypeOK, MessageInvariant, NEW t \in task, Load(t)
  PROVE  MessageInvariant'
<1>1. CASE End(t)
  <2>1. task' \subseteq task /\ UNCHANGED <<job, late, provider>>
    BY <1>1 DEF End, Load, clock
  <2> QED
    BY <2>1, QuietStep
<1>2. CASE Owns(t) /\ Move(t, "loaded", "none")
  <2>1. PICK m \in Task : /\ task' = (task \ {t}) \cup {m}
                          /\ m.job = t.job /\ m.token = t.token
                          /\ m.pc = "loaded" /\ m.outcome = "none"
    BY <1>2, MovedTask DEF InFlight
  <2>2. UNCHANGED <<job, known, received, late>> /\ t.pc = "queued"
    BY DEF Load, clock, provider
  <2>3. t.token = job[t.job].attempts /\ job[t.job].attempts \in Nat
    BY <1>2 DEF Owns, TypeOK, Task, JobRow, Row
  <2>4. RepetitionIsKnown'
    BY <2>1, <2>2, <2>3 DEF MessageInvariant, RepetitionIsKnown
  <2> QED
    BY <2>1, <2>2, <2>4 DEF MessageInvariant, OneTaskPerClaim, ReceiptsAreTrue,
                            EmailReceivedOnce
<1> QED
  BY <1>1, <1>2 DEF Load

\* One that the provider would not recognise does not send.
LEMMA StartMessages ==
  ASSUME TypeOK, MessageInvariant, NEW t \in task, StartSend(t)
  PROVE  MessageInvariant'
<1>1. PICK m \in Task : /\ task' = (task \ {t}) \cup {m}
                        /\ m.job = t.job /\ m.token = t.token
                        /\ m.pc = "sending" /\ m.outcome = "none"
  BY MovedTask DEF StartSend, InFlight
<1>2. /\ UNCHANGED <<job, known, received, late>>
      /\ t.pc = "loaded" /\ ~TooLate(t)
  BY DEF StartSend, clock, provider
<1>3. RepetitionIsKnown'
  BY <1>1, <1>2 DEF MessageInvariant, RepetitionIsKnown, TooLate
<1> QED
  BY <1>1, <1>2, <1>3 DEF MessageInvariant, OneTaskPerClaim, ReceiptsAreTrue,
                          EmailReceivedOnce

\* The message of an email that is sent on is the first.
LEMMA AnswerMessages ==
  ASSUME TypeOK, MessageInvariant, NEW t \in task, NEW o \in Outcome, Answer(t, o)
  PROVE  MessageInvariant' /\ \A j \in Job : received'[j] >= received[j]
<1>1. PICK m \in Task : /\ task' = (task \ {t}) \cup {m}
                        /\ m.job = t.job /\ m.token = t.token
                        /\ m.pc = "answered" /\ m.outcome = o
  <2>1. Move(t, "answered", o) /\ "answered" \in {"queued"} \cup InFlight
    BY DEF Answer, InFlight
  <2>2. o \in {"none"} \cup Outcome
    OBVIOUS
  <2> QED
    BY <2>1, <2>2, MovedTask
<1>2. UNCHANGED <<job, late>> /\ t.pc = "sending"
  BY DEF Answer, clock
<1>3. /\ t.job \in Job /\ t.token \in Nat \ {0}
      /\ t.token <= job[t.job].attempts /\ job[t.job].attempts \in Nat
  BY DEF TypeOK, Task, JobRow, Row
<1>4. OneTaskPerClaim'
  BY <1>1 DEF MessageInvariant, OneTaskPerClaim
<1>5. CASE o \in {"accepted", "lost"} /\ t.job \notin known
  <2>1. /\ received' = [received EXCEPT ![t.job] = @ + 1]
        /\ known' = IF t.job \in Sms THEN known ELSE known \cup {t.job}
    BY <1>5 DEF Answer
  <2>2. \A j \in Job : received[j] \in Nat /\ received'[j] >= received[j]
    BY <1>3, <2>1 DEF TypeOK
  <2>3. t.job \notin Sms => received[t.job] = 0
    BY <1>2, <1>3, <1>5, <2>2 DEF MessageInvariant, RepetitionIsKnown
  <2>4. received'[t.job] >= 1 /\ \A j \in Job \ {t.job} : received'[j] = received[j]
    BY <1>3, <2>1 DEF TypeOK
  <2>5. ReceiptsAreTrue'
    <3>1. \A j \in known' : received'[j] >= 1
      BY <2>1, <2>4 DEF MessageInvariant, ReceiptsAreTrue, TypeOK
    <3>2. \A u \in task' : u.job \in Job
      BY <1>1, <1>3 DEF TypeOK, Task
    <3>3. \A u \in task' : u.pc = "answered" /\ u.outcome = "accepted"
                => received'[u.job] >= 1
      BY <1>1, <2>4, <3>2 DEF MessageInvariant, ReceiptsAreTrue
    <3> QED
      BY <3>1, <3>3 DEF ReceiptsAreTrue
  <2>6. RepetitionIsKnown'
    <3> SUFFICES ASSUME NEW j \in Job, received'[j] >= 1
                 PROVE  /\ job[j].attempts >= 1
                        /\ job[j].attempts = 1 => \A u \in task' : u.job = j => u.pc = "answered"
                        /\ j \notin Sms \cup known' =>
                            /\ late
                            /\ \A u \in task' : u.job = j => u.pc # "sending"
                            /\ \A u \in task' : u.job = j /\ u.pc = "loaded" => u.token > 1
      BY <1>2 DEF RepetitionIsKnown
    <3>1. CASE j = t.job
      <4>1. ASSUME NEW u \in task, u.job = j, job[j].attempts = 1
            PROVE  u = t
        <5>1. u.token \in Nat \ {0} /\ u.token <= 1
          BY <4>1 DEF TypeOK, Task
        <5>2. u.token = 1 /\ t.token = 1
          BY <1>3, <3>1, <4>1, <5>1
        <5> QED
          BY <3>1, <4>1, <5>2 DEF MessageInvariant, OneTaskPerClaim
      <4>2. job[j].attempts >= 1
        BY <1>3, <3>1
      <4>3. j \in Sms \cup known'
        BY <2>1, <3>1
      <4> QED
        BY <1>1, <4>1, <4>2, <4>3
    <3>2. CASE j # t.job
      <4>1. received[j] >= 1 /\ (j \notin Sms \cup known' => j \notin Sms \cup known)
        BY <2>1, <2>4, <3>2
      <4> QED
        BY <1>1, <3>2, <4>1 DEF MessageInvariant, RepetitionIsKnown
    <3> QED
      BY <3>1, <3>2
  <2>7. EmailReceivedOnce'
    <3>1. t.job \notin Sms => received'[t.job] = 1
      BY <1>3, <2>1, <2>3 DEF TypeOK
    <3> QED
      BY <2>4, <3>1 DEF MessageInvariant, EmailReceivedOnce
  <2> QED
    BY <1>4, <2>2, <2>5, <2>6, <2>7 DEF MessageInvariant
<1>6. CASE ~(o \in {"accepted", "lost"} /\ t.job \notin known)
  <2>1. UNCHANGED <<known, received>>
    BY <1>6 DEF Answer, provider
  <2>2. ReceiptsAreTrue'
    BY <1>1, <1>6, <2>1 DEF MessageInvariant, ReceiptsAreTrue
  <2>3. RepetitionIsKnown'
    BY <1>1, <1>2, <2>1 DEF MessageInvariant, RepetitionIsKnown
  <2>4. \A j \in Job : received'[j] >= received[j]
    BY <2>1 DEF TypeOK
  <2> QED
    BY <1>4, <2>1, <2>2, <2>3, <2>4 DEF MessageInvariant, EmailReceivedOnce
<1> QED
  BY <1>5, <1>6

LEMMA MessageStep ==
  ASSUME TypeOK, MessageInvariant, [Next]_vars
  PROVE  MessageInvariant'
<1>1. ASSUME NEW i \in Job,
             Supersede(i) \/ ExpireCredential(i) \/ Forget(i) \/ FallDue(i) \/ RunOut(i)
      PROVE  MessageInvariant'
  <2>1. CASE Supersede(i) \/ FallDue(i) \/ RunOut(i)
    <3>1. task' \subseteq task /\ UNCHANGED <<provider, late>>
      BY <2>1 DEF Supersede, FallDue, RunOut, clock
    <3> QED
      BY <2>1, <3>1, AttemptsStep, QuietStep
  <2>2. CASE ExpireCredential(i)
    BY <2>2, QuietStep DEF ExpireCredential
  <2>3. CASE Forget(i)
    BY <2>3, ForgetMessages
  <2> QED
    BY <1>1, <2>1, <2>2, <2>3
<1>2. ASSUME NEW w \in Worker, Purge(w)
      PROVE  MessageInvariant'
  <2>1. task' \subseteq task /\ UNCHANGED <<provider, late>>
    BY <1>2 DEF Purge, clock
  <2> QED
    BY <1>2, <2>1, AttemptsStep, QuietStep
<1>3. ASSUME NEW t \in task, Deliver(t)
      PROVE  MessageInvariant'
  <2>1. CASE GiveUp(t) \/ CancelObsolete(t) \/ RejectPayload(t) \/ Record(t)
    <3>1. task' \subseteq task /\ UNCHANGED <<provider, late>>
      BY <2>1 DEF GiveUp, CancelObsolete, RejectPayload, Record, End, clock
    <3> QED
      BY <2>1, <3>1, AttemptsStep, QuietStep
  <2> QED
    BY <1>3, <2>1, LoadMessages, StartMessages, AnswerMessages DEF Deliver
<1>4. CASE CloseWindow \/ UNCHANGED vars \/ \E w \in Worker : Crash(w)
  <2>1. /\ task' \subseteq task /\ UNCHANGED <<job, provider>>
        /\ late => late'
    BY <1>4 DEF CloseWindow, Crash, vars, clock
  <2> QED
    BY <2>1, QuietStep
<1> QED
  BY <1>1, <1>2, <1>3, <1>4, ClaimMessages DEF Next, Work, TasksOf

\* What the provider took is never taken back, so an ACCEPTED job stays true.
LEMMA AcceptedStep ==
  ASSUME TypeOK, MessageInvariant, AcceptedWasReceived, [Next]_vars
  PROVE  AcceptedWasReceived'
<1> SUFFICES ASSUME NEW j \in Job, job'[j].state = "ACCEPTED"
             PROVE  received'[j] >= 1 /\ ~job'[j].payload
  BY DEF AcceptedWasReceived
<1> DEFINE same == /\ job'[j].state = job[j].state /\ job'[j].payload = job[j].payload
                   /\ received'[j] = received[j]
<1>1. same => received'[j] >= 1 /\ ~job'[j].payload
  BY DEF AcceptedWasReceived
<1>2. job[j] \in JobRow
  BY DEF TypeOK
<1>3. ASSUME NEW i \in Job,
             Supersede(i) \/ ExpireCredential(i) \/ Forget(i) \/ FallDue(i) \/ RunOut(i)
      PROVE  same
  <2>1. CASE Supersede(i)
    <3>1. job'[j] = job[j] \/ job'[j] = Cancelled(job[j])
      BY <2>1 DEF Supersede, TypeOK
    <3>2. job'[j] = job[j]
      BY <1>2, <3>1, CancelledRow
    <3> QED
      BY <2>1, <3>2 DEF Supersede, provider
  <2>2. CASE ExpireCredential(i) \/ Forget(i)
    BY <2>2 DEF ExpireCredential, Forget, provider
  <2>3. CASE FallDue(i) \/ RunOut(i)
    <3>1. \/ job'[j] = job[j] \/ job'[j] = [job[j] EXCEPT !.due = TRUE]
          \/ job'[j] = [job[j] EXCEPT !.leased = FALSE]
      BY <2>3 DEF FallDue, RunOut, TypeOK
    <3>2. job'[j].state = job[j].state /\ job'[j].payload = job[j].payload
      BY <1>2, <3>1 DEF JobRow, Row
    <3> QED
      BY <2>3, <3>2 DEF FallDue, RunOut, provider
  <2> QED
    BY <1>3, <2>1, <2>2, <2>3
<1>4. ASSUME NEW w \in Worker, Purge(w)
      PROVE  received'[j] >= 1 /\ ~job'[j].payload
  <2>1. \/ job'[j] = job[j] \/ job'[j] = Cancelled(job[j])
        \/ job'[j] = [job[j] EXCEPT !.payload = FALSE]
    BY <1>4 DEF Purge
  <2>2. job[j].state = "ACCEPTED"
    BY <1>2, <2>1, CancelledRow DEF JobRow, Row
  <2>3. ~job[j].payload /\ received[j] >= 1
    BY <2>2 DEF AcceptedWasReceived
  <2>4. job'[j] = job[j]
    BY <1>4, <2>3 DEF Purge
  <2> QED
    BY <1>4, <2>3, <2>4 DEF Purge, provider
<1>5. ASSUME NEW w \in Worker, NEW batch \in SUBSET Job, Claim(w, batch)
      PROVE  same
  <2>1. CASE j \in batch
    <3>1. job[j].state \in Live
      BY <1>5, <2>1 DEF Claim, Permitted, Due, Live
    <3>2. job'[j].state = "CLAIMED"
      BY <1>2, <1>5, <2>1, <3>1, ClaimedRow DEF Claim
    <3> QED
      BY <3>2
  <2>2. CASE j \notin batch
    BY <1>5, <2>2 DEF Claim, provider
  <2> QED
    BY <2>1, <2>2
<1>6. ASSUME NEW t \in task, Deliver(t)
      PROVE  received'[j] >= 1 /\ ~job'[j].payload
  <2>1. t.job \in Job /\ job[t.job] \in JobRow
    BY DEF TypeOK, Task
  <2>2. CASE Load(t) \/ StartSend(t)
    BY <1>1, <2>2 DEF Load, StartSend, provider
  <2>3. CASE \E o \in Outcome : Answer(t, o)
    <3>1. job' = job /\ received'[j] >= received[j]
      BY <2>3, AnswerMessages DEF Answer
    <3>2. received[j] >= 1 /\ ~job[j].payload
      BY <3>1 DEF AcceptedWasReceived
    <3>3. received[j] \in Int /\ received'[j] \in Int
      BY <2>1, <2>3 DEF Answer, TypeOK, provider
    <3> QED
      BY <3>1, <3>2, <3>3
  <2>4. CASE GiveUp(t) \/ CancelObsolete(t) \/ RejectPayload(t)
    <3>1. Settle(job[t.job], "DEAD").state = "DEAD"
      BY <2>1, SettledRow DEF Final
    <3>2. Cancelled(job[t.job]).state = "CANCELLED"
      BY <2>1, CancelledRow
    <3>3. t.job # j
      BY <2>1, <2>4, <3>1, <3>2 DEF GiveUp, CancelObsolete, RejectPayload, TypeOK
    <3>4. job'[j] = job[j] /\ received' = received
      BY <2>1, <2>4, <3>3 DEF GiveUp, CancelObsolete, RejectPayload, TypeOK, provider
    <3> QED
      BY <1>1, <3>4
  <2>5. CASE Record(t)
    <3>1. received' = received /\ t.pc = "answered"
      BY <2>5 DEF Record, provider
    <3>2. CASE t.job # j \/ ~Owns(t)
      <4>1. job'[j] = job[j]
        BY <2>1, <2>5, <3>2 DEF Record, TypeOK
      <4> QED
        BY <1>1, <3>1, <4>1
    <3>3. CASE t.job = j /\ Owns(t) /\ t.outcome = "accepted"
      <4>1. job'[j] = [Settle(job[j], "ACCEPTED") EXCEPT !.payload = FALSE]
        BY <2>5, <3>3 DEF Record, TypeOK
      <4>2. ~job'[j].payload
        BY <1>2, <4>1 DEF Settle, JobRow, Row
      <4> QED
        BY <3>1, <3>3, <4>2 DEF MessageInvariant, ReceiptsAreTrue
    <3>4. CASE t.job = j /\ Owns(t) /\ t.outcome # "accepted"
      <4>1. \/ job'[j] = [Settle(job[j], "RETRY_WAIT") EXCEPT !.due = FALSE]
            \/ job'[j] = Settle(job[j], "DEAD")
        BY <2>5, <3>4 DEF Record, TypeOK
      <4>2. job[j].state \in Live
        BY <3>4 DEF Owns, Live
      <4>3. Settle(job[j], "DEAD").state = "DEAD"
        BY <1>2, SettledRow DEF Final
      <4> QED
        BY <1>2, <4>1, <4>2, <4>3, RetriedRow
    <3> QED
      BY <3>2, <3>3, <3>4
  <2> QED
    BY <1>6, <2>2, <2>3, <2>4, <2>5 DEF Deliver
<1>7. CASE CloseWindow \/ UNCHANGED vars \/ \E w \in Worker : Crash(w)
  BY <1>1, <1>7 DEF CloseWindow, Crash, vars, provider
<1> QED
  BY <1>1, <1>3, <1>4, <1>5, <1>6, <1>7 DEF Next, Work, TasksOf

-----------------------------------------------------------------------------
(* Senders, sends and claims, counted per job                              *)

LEMMA Shrunk ==
  ASSUME NEW B, IsFiniteSet(B), NEW A, A \subseteq B
  PROVE  /\ IsFiniteSet(A)
         /\ Cardinality(A) \in Nat /\ Cardinality(B) \in Nat
         /\ Cardinality(A) <= Cardinality(B)
<1>1. A \in SUBSET B
  OBVIOUS
<1> QED
  BY <1>1, FS_Subset, FS_CardinalityType

LEMMA Extended ==
  ASSUME NEW B, IsFiniteSet(B), NEW y, NEW A, A \subseteq B \cup {y}
  PROVE  /\ IsFiniteSet(A)
         /\ Cardinality(A) \in Nat /\ Cardinality(B) \in Nat
         /\ Cardinality(A) <= Cardinality(B) + 1
<1>1. /\ IsFiniteSet(B \cup {y}) /\ Cardinality(B) \in Nat
      /\ Cardinality(B \cup {y}) <= Cardinality(B) + 1
  BY FS_AddElement, FS_CardinalityType
<1>2. /\ IsFiniteSet(A) /\ Cardinality(A) \in Nat /\ Cardinality(B \cup {y}) \in Nat
      /\ Cardinality(A) <= Cardinality(B \cup {y})
  BY <1>1, Shrunk
<1> QED
  BY <1>1, <1>2

LEMMA Reduced ==
  ASSUME NEW B, IsFiniteSet(B), NEW x \in B, NEW A, A \subseteq B \ {x}
  PROVE  /\ IsFiniteSet(A)
         /\ Cardinality(A) \in Nat /\ Cardinality(B) \in Nat
         /\ Cardinality(A) + 1 <= Cardinality(B)
<1>1. /\ IsFiniteSet(B \ {x}) /\ Cardinality(B) \in Nat
      /\ Cardinality(B \ {x}) = Cardinality(B) - 1
  BY FS_RemoveElement, FS_CardinalityType
<1>2. /\ IsFiniteSet(A) /\ Cardinality(A) \in Nat
      /\ Cardinality(A) <= Cardinality(B \ {x})
  BY <1>1, Shrunk
<1> QED
  BY <1>1, <1>2

LEMMA Exchanged ==
  ASSUME NEW B, IsFiniteSet(B), NEW x \in B, NEW y, NEW A, A \subseteq (B \ {x}) \cup {y}
  PROVE  /\ IsFiniteSet(A)
         /\ Cardinality(A) \in Nat /\ Cardinality(B) \in Nat
         /\ Cardinality(A) <= Cardinality(B)
<1> DEFINE C == B \ {x}
<1>1. /\ IsFiniteSet(C) /\ Cardinality(C) \in Nat /\ Cardinality(B) \in Nat
      /\ Cardinality(C) + 1 <= Cardinality(B)
  BY Reduced
<1>2. A \subseteq C \cup {y}
  OBVIOUS
<1> HIDE DEF C
<1>3. IsFiniteSet(A) /\ Cardinality(A) \in Nat /\ Cardinality(A) <= Cardinality(C) + 1
  BY <1>1, <1>2, Extended
<1> QED
  BY <1>1, <1>3

\* The counting part of the invariant for one job.
Counted(j) ==
    /\ IsFiniteSet(Deliverers(j))
    /\ Cardinality(Deliverers(j)) <= 1 + overruns[j]
    /\ job[j].state \in Live =>
        /\ Cardinality(Deliverers(j) \ ClaimedBy(j)) <= overruns[j]
        /\ job[j].state # "CLAIMED" \/ ~job[j].leased =>
            Cardinality(Deliverers(j)) <= overruns[j]
    /\ received[j] + Cardinality(Pending(j)) <= job[j].attempts
    /\ j \in Sms =>
        /\ job[j].state # "RETRY_WAIT"
        /\ job[j].state = "READY" => job[j].attempts = 0
        /\ job[j].attempts <= 1 + overruns[j] + crashes
        /\ job[j].state = "CLAIMED" /\ (job[j].leased => ClaimedBy(j) = {}) =>
            job[j].attempts <= overruns[j] + crashes

LEMMA CountedJobs ==
  (SendersAreCounted /\ OneSender /\ SendsAreClaims /\ ClaimsOfSms)
    <=> \A j \in Job : Counted(j)
BY OutboxAssumption DEF SendersAreCounted, OneSender, SendsAreClaims, ClaimsOfSms, Counted

LEMMA CountedTypes ==
  ASSUME TypeOK, NEW j \in Job, Counted(j)
  PROVE  /\ IsFiniteSet(Deliverers(j)) /\ IsFiniteSet(Pending(j))
         /\ IsFiniteSet(Deliverers(j) \ ClaimedBy(j))
         /\ Cardinality(Deliverers(j)) \in Nat /\ Cardinality(Pending(j)) \in Nat
         /\ Cardinality(Deliverers(j) \ ClaimedBy(j)) \in Nat
         /\ job[j].attempts \in Nat /\ received[j] \in Nat /\ overruns[j] \in Nat
         /\ crashes \in Nat
<1>1. Pending(j) \subseteq Deliverers(j) /\ Deliverers(j) \ ClaimedBy(j) \subseteq Deliverers(j)
  BY DEF Pending
<1>2. IsFiniteSet(Deliverers(j))
  BY DEF Counted
<1>3. job[j].attempts \in Nat /\ received[j] \in Nat /\ overruns[j] \in Nat /\ crashes \in Nat
  BY DEF TypeOK, JobRow, Row
<1> QED
  BY <1>1, <1>2, <1>3, Shrunk

\* A step that ends tasks at most, and leaves the job's claim alone or is final.
LEMMA QuietCount ==
  ASSUME TypeOK, NEW j \in Job, Counted(j),
         task' \subseteq task,
         received'[j] = received[j], overruns'[j] = overruns[j],
         crashes' \in Nat, crashes' >= crashes,
         job'[j].attempts = job[j].attempts,
         \/ job'[j].state \in Final
         \/ /\ job'[j].state = job[j].state /\ job'[j].token = job[j].token
            /\ job'[j].leased = job[j].leased
            /\ ClaimedBy(j) \subseteq task' \/ crashes' > crashes
  PROVE  Counted(j)'
<1>1. /\ IsFiniteSet(Deliverers(j)) /\ IsFiniteSet(Pending(j))
      /\ IsFiniteSet(Deliverers(j) \ ClaimedBy(j))
      /\ Cardinality(Deliverers(j)) \in Nat /\ Cardinality(Pending(j)) \in Nat
      /\ Cardinality(Deliverers(j) \ ClaimedBy(j)) \in Nat
      /\ job[j].attempts \in Nat /\ received[j] \in Nat /\ overruns[j] \in Nat
      /\ crashes \in Nat
  BY CountedTypes
<1>2. /\ IsFiniteSet(Deliverers(j)') /\ Cardinality(Deliverers(j)') \in Nat
      /\ Cardinality(Deliverers(j)') <= Cardinality(Deliverers(j))
  <2>1. Deliverers(j)' \subseteq Deliverers(j)
    BY DEF Deliverers
  <2> QED
    BY <1>1, <2>1, Shrunk
<1>3. /\ Cardinality(Pending(j)') \in Nat
      /\ Cardinality(Pending(j)') <= Cardinality(Pending(j))
  <2>1. Pending(j)' \subseteq Pending(j)
    BY DEF Deliverers, Pending
  <2> QED
    BY <1>1, <2>1, Shrunk
<1>4. CASE job'[j].state \in Final
  <2>1. job'[j].state \notin Live /\ job'[j].state # "RETRY_WAIT"
        /\ job'[j].state # "READY" /\ job'[j].state # "CLAIMED"
    BY <1>4 DEF Final, Live
  <2> QED
    BY <1>1, <1>2, <1>3, <2>1 DEF Counted
<1>5. CASE /\ job'[j].state = job[j].state /\ job'[j].token = job[j].token
           /\ job'[j].leased = job[j].leased
           /\ ClaimedBy(j) \subseteq task' \/ crashes' > crashes
  <2>1. /\ Cardinality((Deliverers(j) \ ClaimedBy(j))') \in Nat
        /\ Cardinality((Deliverers(j) \ ClaimedBy(j))') <= Cardinality(Deliverers(j) \ ClaimedBy(j))
    <3>1. (Deliverers(j) \ ClaimedBy(j))' \subseteq Deliverers(j) \ ClaimedBy(j)
      BY <1>5 DEF Deliverers, ClaimedBy
    <3> QED
      BY <1>1, <3>1, Shrunk
  <2>2. ClaimedBy(j)' = {} => ClaimedBy(j) = {} \/ crashes' > crashes
    BY <1>5 DEF ClaimedBy
  <2>3. (job[j].state \in Live =>
            /\ Cardinality(Deliverers(j) \ ClaimedBy(j)) <= overruns[j]
            /\ job[j].state # "CLAIMED" \/ ~job[j].leased =>
                Cardinality(Deliverers(j)) <= overruns[j])'
    BY <1>1, <1>2, <1>5, <2>1 DEF Counted
  <2>4. (j \in Sms =>
            /\ job[j].state # "RETRY_WAIT"
            /\ job[j].state = "READY" => job[j].attempts = 0
            /\ job[j].attempts <= 1 + overruns[j] + crashes
            /\ job[j].state = "CLAIMED" /\ (job[j].leased => ClaimedBy(j) = {}) =>
                job[j].attempts <= overruns[j] + crashes)'
    BY <1>1, <1>5, <2>2 DEF Counted
  <2> QED
    BY <1>1, <1>2, <1>3, <2>3, <2>4 DEF Counted
<1> QED
  BY <1>4, <1>5

\* A lease runs out: its task is counted, or a crash took it.
LEMMA RunOutCount ==
  ASSUME TypeOK, NEW j \in Job, Counted(j), RunOut(j)
  PROVE  Counted(j)'
<1>1. /\ IsFiniteSet(Deliverers(j))
      /\ Cardinality(Deliverers(j)) \in Nat /\ Cardinality(Pending(j)) \in Nat
      /\ Cardinality(Deliverers(j) \ ClaimedBy(j)) \in Nat
      /\ job[j].attempts \in Nat /\ received[j] \in Nat /\ overruns[j] \in Nat
      /\ crashes \in Nat
  BY CountedTypes
<1>2. UNCHANGED <<task, received, crashes>> /\ job[j].state = "CLAIMED" /\ job[j].leased
  BY DEF RunOut, provider
<1>3. Deliverers(j)' = Deliverers(j) /\ Pending(j)' = Pending(j)
  BY <1>2 DEF Deliverers, Pending
<1>4. /\ job'[j].state = "CLAIMED" /\ ~job'[j].leased
      /\ job'[j].token = job[j].token /\ job'[j].attempts = job[j].attempts
  <2>1. job[j] \in JobRow /\ job'[j] = [job[j] EXCEPT !.leased = FALSE]
    BY DEF RunOut, TypeOK
  <2> QED
    BY <1>2, <2>1 DEF JobRow, Row
<1>5. ClaimedBy(j)' = ClaimedBy(j)
  BY <1>2, <1>4 DEF ClaimedBy
<1>6. "CLAIMED" \in Live
  BY DEF Live
<1>7. CASE ClaimedBy(j) = {}
  <2>1. overruns' = overruns
    BY <1>7 DEF RunOut
  <2>2. Deliverers(j) \ ClaimedBy(j) = Deliverers(j)
    BY <1>7
  <2>3. Cardinality(Deliverers(j)) <= overruns[j]
    BY <1>2, <1>6, <2>2 DEF Counted
  <2> QED
    BY <1>1, <1>2, <1>3, <1>4, <1>5, <1>6, <1>7, <2>1, <2>2, <2>3 DEF Counted
<1>8. CASE ClaimedBy(j) # {}
  <2>1. overruns'[j] = overruns[j] + 1
    BY <1>8 DEF RunOut, TypeOK
  <2>2. Cardinality(Deliverers(j) \ ClaimedBy(j)) <= overruns'[j]
    BY <1>1, <1>2, <1>6, <2>1 DEF Counted
  <2> QED
    BY <1>1, <1>2, <1>3, <1>4, <1>5, <1>6, <2>1, <2>2 DEF Counted
<1> QED
  BY <1>7, <1>8

\* What one claim does to the jobs of its batch, and to those that it leaves.
LEMMA ClaimCount ==
  ASSUME TypeOK, NEW w \in Worker, NEW batch \in SUBSET Job, Claim(w, batch),
         NEW j \in Job, Counted(j)
  PROVE  Counted(j)'
<1>1. /\ IsFiniteSet(Deliverers(j)) /\ IsFiniteSet(Pending(j))
      /\ Cardinality(Deliverers(j)) \in Nat /\ Cardinality(Pending(j)) \in Nat
      /\ Cardinality(Deliverers(j) \ ClaimedBy(j)) \in Nat
      /\ job[j].attempts \in Nat /\ received[j] \in Nat /\ overruns[j] \in Nat
      /\ crashes \in Nat
  BY CountedTypes
<1> DEFINE new(i) == [job |-> i, token |-> job'[i].token, worker |-> w,
                      pc |-> "queued", outcome |-> "none"]
<1>2. /\ task' = task \cup {new(i) : i \in batch}
      /\ \A i \in batch : /\ new(i).job = i /\ new(i).token = job'[i].token
                          /\ new(i).pc = "queued"
  BY DEF Claim
<1>3. UNCHANGED <<received, overruns, crashes>>
  BY DEF Claim, clock, provider
<1> HIDE DEF new
<1>4. CASE j \notin batch
  <2>1. job'[j] = job[j]
    BY <1>4 DEF Claim
  <2>2. /\ Deliverers(j)' = Deliverers(j) /\ Pending(j)' = Pending(j)
        /\ ClaimedBy(j)' = ClaimedBy(j)
    <3>1. \A t : t \in task' /\ t.job = j <=> t \in task /\ t.job = j
      BY <1>2, <1>4
    <3>2. Deliverers(j)' = Deliverers(j)
      BY <3>1 DEF Deliverers
    <3>3. ClaimedBy(j)' = ClaimedBy(j)
      BY <2>1, <3>1 DEF ClaimedBy
    <3> QED
      BY <3>2, <3>3 DEF Pending
  <2> QED
    BY <1>3, <2>1, <2>2 DEF Counted
<1>5. CASE j \in batch
  <2>1. /\ job[j].state \in Live
        /\ job[j].state # "CLAIMED" \/ ~job[j].leased
        /\ job[j].state \in {"READY", "RETRY_WAIT", "CLAIMED"}
    BY <1>5 DEF Claim, Permitted, Due, Live
  <2>2. /\ job'[j].state = "CLAIMED" /\ job'[j].leased
        /\ job'[j].token = job[j].attempts + 1
        /\ job'[j].attempts = job[j].attempts + 1
    <3>1. job[j] \in JobRow
          /\ job'[j] = [job[j] EXCEPT !.state = "CLAIMED", !.leased = TRUE,
                                      !.token = job[j].attempts + 1,
                                      !.attempts = job[j].attempts + 1]
      BY <1>5 DEF Claim, TypeOK
    <3>2. /\ job'[j].state = "CLAIMED"
          /\ job'[j].token = job[j].attempts + 1
          /\ job'[j].attempts = job[j].attempts + 1
      BY <2>1, <3>1, ClaimedRow
    <3>3. job'[j].leased = TRUE
      BY <3>1 DEF JobRow, Row
    <3> QED
      BY <3>2, <3>3
  <2>3. Cardinality(Deliverers(j)) <= overruns[j]
    BY <2>1 DEF Counted
  <2>4. /\ IsFiniteSet(Deliverers(j)') /\ Cardinality(Deliverers(j)') \in Nat
        /\ Cardinality(Deliverers(j)') <= Cardinality(Deliverers(j)) + 1
    <3>1. Deliverers(j)' \subseteq Deliverers(j) \cup {new(j)}
      BY <1>2 DEF Deliverers
    <3> QED
      BY <1>1, <3>1, Extended
  <2>5. /\ Cardinality(Pending(j)') \in Nat
        /\ Cardinality(Pending(j)') <= Cardinality(Pending(j)) + 1
    <3>1. Pending(j)' \subseteq Pending(j) \cup {new(j)}
      BY <1>2 DEF Deliverers, Pending
    <3> QED
      BY <1>1, <3>1, Extended
  <2>6. new(j) \in ClaimedBy(j)'
    BY <1>2, <1>5 DEF ClaimedBy
  <2>7. /\ Cardinality((Deliverers(j) \ ClaimedBy(j))') \in Nat
        /\ Cardinality((Deliverers(j) \ ClaimedBy(j))') <= Cardinality(Deliverers(j))
    <3>1. (Deliverers(j) \ ClaimedBy(j))' \subseteq Deliverers(j)
      BY <1>2, <2>6 DEF Deliverers, ClaimedBy
    <3> QED
      BY <1>1, <3>1, Shrunk
  <2>8. j \in Sms => job[j].attempts <= overruns[j] + crashes
    BY <1>1, <2>1 DEF Counted
  <2>9. (job[j].state \in Live =>
            /\ Cardinality(Deliverers(j) \ ClaimedBy(j)) <= overruns[j]
            /\ job[j].state # "CLAIMED" \/ ~job[j].leased =>
                Cardinality(Deliverers(j)) <= overruns[j])'
    BY <1>1, <1>3, <2>2, <2>3, <2>7
  <2>10. received'[j] + Cardinality(Pending(j)') <= job'[j].attempts
    BY <1>1, <1>3, <2>2, <2>5 DEF Counted
  <2>11. (j \in Sms =>
            /\ job[j].state # "RETRY_WAIT"
            /\ job[j].state = "READY" => job[j].attempts = 0
            /\ job[j].attempts <= 1 + overruns[j] + crashes
            /\ job[j].state = "CLAIMED" /\ (job[j].leased => ClaimedBy(j) = {}) =>
                job[j].attempts <= overruns[j] + crashes)'
    BY <1>1, <1>3, <2>2, <2>6, <2>8
  <2> QED
    BY <1>1, <1>3, <2>3, <2>4, <2>9, <2>10, <2>11 DEF Counted
<1> QED
  BY <1>4, <1>5

\* A task that moves on remains one; when its call ends it is not pending.
LEMMA MoveCount ==
  ASSUME TypeOK, NEW j \in Job, Counted(j), NEW t \in task, NEW m \in Task,
         task' = (task \ {t}) \cup {m}, m.job = t.job, m.token = t.token,
         UNCHANGED <<job, overruns, crashes>>,
         \/ received'[j] = received[j] /\ (m.pc = "answered" \/ t.pc # "answered")
         \/ /\ t.job = j /\ t.pc # "answered" /\ m.pc = "answered"
            /\ received'[j] = received[j] + 1
  PROVE  Counted(j)'
<1>1. /\ IsFiniteSet(Deliverers(j)) /\ IsFiniteSet(Pending(j))
      /\ IsFiniteSet(Deliverers(j) \ ClaimedBy(j))
      /\ Cardinality(Deliverers(j)) \in Nat /\ Cardinality(Pending(j)) \in Nat
      /\ Cardinality(Deliverers(j) \ ClaimedBy(j)) \in Nat
      /\ job[j].attempts \in Nat /\ received[j] \in Nat /\ overruns[j] \in Nat
      /\ crashes \in Nat
  BY CountedTypes
<1>2. /\ IsFiniteSet(Deliverers(j)') /\ Cardinality(Deliverers(j)') \in Nat
      /\ Cardinality(Deliverers(j)') <= Cardinality(Deliverers(j))
  <2>1. CASE t \in Deliverers(j)
    <3>1. Deliverers(j)' \subseteq (Deliverers(j) \ {t}) \cup {m}
      BY DEF Deliverers
    <3> QED
      BY <1>1, <2>1, <3>1, Exchanged
  <2>2. CASE t \notin Deliverers(j)
    <3>1. Deliverers(j)' \subseteq Deliverers(j)
      BY <2>2 DEF Deliverers
    <3> QED
      BY <1>1, <3>1, Shrunk
  <2> QED
    BY <2>1, <2>2
<1>3. /\ Cardinality((Deliverers(j) \ ClaimedBy(j))') \in Nat
      /\ Cardinality((Deliverers(j) \ ClaimedBy(j))') <= Cardinality(Deliverers(j) \ ClaimedBy(j))
  <2> DEFINE D == Deliverers(j) \ ClaimedBy(j)
             E == (Deliverers(j) \ ClaimedBy(j))'
  <2>1. CASE t \in D
    <3>1. E \subseteq (D \ {t}) \cup {m}
      BY DEF Deliverers, ClaimedBy
    <3> HIDE DEF D, E
    <3>2. Cardinality(E) \in Nat /\ Cardinality(E) <= Cardinality(D)
      BY <1>1, <2>1, <3>1, Exchanged DEF D
    <3> QED
      BY <3>2 DEF D, E
  <2>2. CASE t \notin D
    <3>1. E \subseteq D
      BY <2>2 DEF Deliverers, ClaimedBy
    <3> HIDE DEF D, E
    <3>2. Cardinality(E) \in Nat /\ Cardinality(E) <= Cardinality(D)
      BY <1>1, <3>1, Shrunk DEF D
    <3> QED
      BY <3>2 DEF D, E
  <2> QED
    BY <2>1, <2>2
<1>4. received'[j] + Cardinality(Pending(j)') <= job'[j].attempts
  <2>1. CASE t \in Pending(j) /\ m.pc = "answered"
    <3>1. Pending(j)' \subseteq Pending(j) \ {t}
      BY <2>1 DEF Deliverers, Pending
    <3>2. /\ Cardinality(Pending(j)') \in Nat
          /\ Cardinality(Pending(j)') + 1 <= Cardinality(Pending(j))
      BY <1>1, <2>1, <3>1, Reduced
    <3> QED
      BY <1>1, <3>2 DEF Counted
  <2>2. CASE t \in Pending(j) /\ m.pc # "answered"
    <3>1. Pending(j)' \subseteq (Pending(j) \ {t}) \cup {m}
      BY DEF Deliverers, Pending
    <3>2. /\ Cardinality(Pending(j)') \in Nat
          /\ Cardinality(Pending(j)') <= Cardinality(Pending(j))
      BY <1>1, <2>2, <3>1, Exchanged
    <3> QED
      BY <1>1, <2>2, <3>2 DEF Counted
  <2>3. CASE t \notin Pending(j)
    <3>1. Pending(j)' \subseteq Pending(j) /\ received'[j] = received[j]
      BY <2>3 DEF Deliverers, Pending
    <3>2. /\ Cardinality(Pending(j)') \in Nat
          /\ Cardinality(Pending(j)') <= Cardinality(Pending(j))
      BY <1>1, <3>1, Shrunk
    <3> QED
      BY <1>1, <3>1, <3>2 DEF Counted
  <2> QED
    BY <2>1, <2>2, <2>3
<1>5. ClaimedBy(j)' = {} => ClaimedBy(j) = {}
  BY DEF ClaimedBy
<1> QED
  BY <1>1, <1>2, <1>3, <1>4, <1>5 DEF Counted

\* The failure that is to be retried ends the task of the claim, and no SMS is.
LEMMA RetryCount ==
  ASSUME TypeOK, NEW t \in task, Counted(t.job), Owns(t), Retryable(t), End(t),
         UNCHANGED <<received, overruns, crashes>>,
         job' = [job EXCEPT ![t.job] = [Settle(@, "RETRY_WAIT") EXCEPT !.due = FALSE]]
  PROVE  Counted(t.job)'
<1> DEFINE j == t.job
<1>1. j \in Job /\ job[j] \in JobRow /\ job[j].state \in Live /\ t.job = j
  BY DEF TypeOK, Task, Owns, Live
<1>2. Counted(j) /\ j \notin Sms /\ t \in Deliverers(j)
  BY DEF Retryable, Deliverers
<1>3. /\ job'[j].state = "RETRY_WAIT" /\ job'[j].attempts = job[j].attempts
  <2>1. job'[j] = [Settle(job[j], "RETRY_WAIT") EXCEPT !.due = FALSE]
    BY <1>1 DEF TypeOK
  <2> QED
    BY <1>1, <2>1, RetriedRow
<1>4. task' = task \ {t}
  BY DEF End
<1> SUFFICES Counted(j)'
  OBVIOUS
<1> HIDE DEF j
<1>5. /\ IsFiniteSet(Deliverers(j)) /\ IsFiniteSet(Pending(j))
      /\ Cardinality(Deliverers(j)) \in Nat /\ Cardinality(Pending(j)) \in Nat
      /\ job[j].attempts \in Nat /\ received[j] \in Nat /\ overruns[j] \in Nat
  BY <1>1, <1>2, CountedTypes
<1>6. /\ IsFiniteSet(Deliverers(j)') /\ Cardinality(Deliverers(j)') \in Nat
      /\ Cardinality(Deliverers(j)') + 1 <= Cardinality(Deliverers(j))
  <2>1. Deliverers(j)' \subseteq Deliverers(j) \ {t}
    BY <1>4 DEF Deliverers
  <2> QED
    BY <1>2, <1>5, <2>1, Reduced
<1>7. Cardinality(Deliverers(j)') <= overruns'[j]
  BY <1>2, <1>5, <1>6 DEF Counted
<1>8. /\ Cardinality((Deliverers(j) \ ClaimedBy(j))') \in Nat
      /\ Cardinality((Deliverers(j) \ ClaimedBy(j))') <= Cardinality(Deliverers(j)')
  <2>1. (Deliverers(j) \ ClaimedBy(j))' \subseteq Deliverers(j)'
    OBVIOUS
  <2> QED
    BY <1>6, <2>1, Shrunk
<1>9. Cardinality(Pending(j)') \in Nat /\ Cardinality(Pending(j)') <= Cardinality(Pending(j))
  <2>1. Pending(j)' \subseteq Pending(j)
    BY <1>4 DEF Deliverers, Pending
  <2> QED
    BY <1>5, <2>1, Shrunk
<1> QED
  BY <1>2, <1>3, <1>5, <1>6, <1>7, <1>8, <1>9 DEF Counted

\* The steps that leave every task and every claim alone, or end them.
LEMMA ClockCount ==
  ASSUME TypeOK, TypeOK', NEW j \in Job, Counted(j),
         \/ \E i \in Job : Supersede(i) \/ ExpireCredential(i) \/ Forget(i)
                            \/ FallDue(i) \/ RunOut(i)
         \/ CloseWindow \/ UNCHANGED vars
         \/ \E w \in Worker : Purge(w) \/ Crash(w)
  PROVE  Counted(j)'
<1>1. job[j] \in JobRow /\ job[j].state \in Live \cup Final /\ crashes \in Nat /\ crashes' \in Nat
  BY DEF TypeOK, JobRow, Row
<1> DEFINE idle == UNCHANGED <<task, received, overruns, crashes>>
           held == /\ job'[j].state = job[j].state /\ job'[j].token = job[j].token
                   /\ job'[j].leased = job[j].leased
<1>2. ASSUME idle, job'[j].attempts = job[j].attempts, held \/ job'[j].state \in Final
      PROVE  Counted(j)'
  <2>1. ClaimedBy(j) \subseteq task'
    BY <1>2 DEF ClaimedBy
  <2>2. crashes' >= crashes
    BY <1>1, <1>2
  <2> HIDE DEF held
  <2>3. held => /\ job'[j].state = job[j].state /\ job'[j].token = job[j].token
                /\ job'[j].leased = job[j].leased
    BY DEF held
  <2>4. /\ task' \subseteq task
        /\ received'[j] = received[j] /\ overruns'[j] = overruns[j]
    BY <1>2
  <2> QED
    BY <1>1, <1>2, <2>1, <2>2, <2>3, <2>4, QuietCount
<1>3. CASE \E i \in Job : Supersede(i)
  <2>1. PICK i \in Job : Supersede(i)
    BY <1>3
  <2>2. job'[j] = job[j] \/ job'[j] = Cancelled(job[j])
    BY <2>1 DEF Supersede, TypeOK
  <2>3. /\ job'[j].attempts = job[j].attempts
        /\ held \/ job'[j].state \in Final
    BY <1>1, <2>2, CancelledRow DEF Final
  <2>4. idle
    BY <2>1 DEF Supersede, provider
  <2> QED
    BY <1>2, <2>3, <2>4
<1>4. CASE \/ \E i \in Job : ExpireCredential(i) \/ Forget(i)
           \/ CloseWindow \/ UNCHANGED vars
  BY <1>2, <1>4 DEF ExpireCredential, Forget, CloseWindow, vars, provider, clock
<1>5. CASE \E i \in Job : FallDue(i)
  <2>1. job'[j] = job[j] \/ job'[j] = [job[j] EXCEPT !.due = TRUE]
    BY <1>5 DEF FallDue, TypeOK
  <2>2. job'[j].attempts = job[j].attempts /\ held
    BY <1>1, <2>1 DEF JobRow, Row
  <2>3. idle
    BY <1>5 DEF FallDue, provider, clock
  <2> QED
    BY <1>2, <2>2, <2>3
<1>6. CASE \E i \in Job : RunOut(i)
  <2>1. PICK i \in Job : RunOut(i)
    BY <1>6
  <2>2. CASE i = j
    BY <2>1, <2>2, RunOutCount
  <2>3. CASE i # j
    <3>1. /\ job'[j] = job[j] /\ overruns'[j] = overruns[j]
          /\ UNCHANGED <<task, received, crashes>>
      BY <2>1, <2>3 DEF RunOut, TypeOK, provider
    <3>2. ClaimedBy(j) \subseteq task'
      BY <3>1 DEF ClaimedBy
    <3> QED
      BY <1>1, <3>1, <3>2, QuietCount
  <2> QED
    BY <2>2, <2>3
<1>7. CASE \E w \in Worker : Purge(w)
  <2>1. \/ job'[j] = job[j] \/ job'[j] = Cancelled(job[j])
        \/ job'[j] = [job[j] EXCEPT !.payload = FALSE]
    BY <1>7 DEF Purge
  <2>2. [job[j] EXCEPT !.payload = FALSE].attempts = job[j].attempts
        /\ [job[j] EXCEPT !.payload = FALSE].state = job[j].state
        /\ [job[j] EXCEPT !.payload = FALSE].token = job[j].token
        /\ [job[j] EXCEPT !.payload = FALSE].leased = job[j].leased
    BY <1>1 DEF JobRow, Row
  <2>3. /\ job'[j].attempts = job[j].attempts
        /\ held \/ job'[j].state \in Final
    BY <1>1, <2>1, <2>2, CancelledRow DEF Final
  <2>4. idle
    BY <1>7 DEF Purge, provider, clock
  <2> QED
    BY <1>2, <2>3, <2>4
<1>8. CASE \E w \in Worker : Crash(w)
  <2>1. /\ task' \subseteq task /\ UNCHANGED <<job, received, overruns>>
        /\ crashes' > crashes /\ crashes' >= crashes
    BY <1>1, <1>8 DEF Crash, provider
  <2> QED
    BY <1>1, <2>1, QuietCount
<1> QED
  BY <1>3, <1>4, <1>5, <1>6, <1>7, <1>8

\* The steps of deliver_one.
LEMMA DeliverCount ==
  ASSUME TypeOK, NEW t \in task, Deliver(t), NEW j \in Job, Counted(j)
  PROVE  Counted(j)'
<1>1. /\ t \in Task /\ t.job \in Job /\ job[t.job] \in JobRow /\ job[j] \in JobRow
      /\ crashes \in Nat /\ received[j] \in Nat
  BY DEF TypeOK, Task
<1>2. UNCHANGED <<overruns, crashes>>
  BY DEF Deliver, Load, GiveUp, CancelObsolete, RejectPayload, StartSend, Answer, Record,
         clock
<1>3. ASSUME End(t), received' = received, job'[j].attempts = job[j].attempts,
             \/ job'[j].state \in Final
             \/ job'[j] = job[j] /\ (t.job = j => ~Owns(t))
      PROVE  Counted(j)'
  <2>1. /\ task' \subseteq task /\ crashes' \in Nat /\ crashes' >= crashes
        /\ received'[j] = received[j] /\ overruns'[j] = overruns[j]
    BY <1>1, <1>2, <1>3 DEF End
  <2>2. CASE job'[j].state \in Final
    BY <1>3, <2>1, <2>2, QuietCount
  <2>3. CASE job'[j] = job[j] /\ (t.job = j => ~Owns(t))
    <3>1. t \notin ClaimedBy(j)
      <4>1. SUFFICES ASSUME t.job = j, t.token = job[j].token
                     PROVE  FALSE
        BY DEF ClaimedBy
      <4>2. t.token # 0 /\ job[j].state # "CLAIMED"
        BY <1>1, <2>3, <4>1 DEF Owns, Task
      <4> QED
        BY <1>1, <4>1, <4>2 DEF JobRow
    <3>2. ClaimedBy(j) \subseteq task'
      BY <1>3, <3>1 DEF ClaimedBy, End
    <3> QED
      BY <1>3, <2>1, <2>3, <3>2, QuietCount
  <2> QED
    BY <1>3, <2>2, <2>3
<1>4. CASE Load(t) /\ ~Owns(t)
  <2>1. End(t) /\ UNCHANGED <<job, received>>
    BY <1>4 DEF Load, provider
  <2> QED
    BY <1>3, <1>4, <2>1
<1>5. CASE (Load(t) /\ Owns(t)) \/ StartSend(t)
  <2>1. PICK pc \in {"queued"} \cup InFlight : Move(t, pc, "none")
    BY <1>5 DEF Load, StartSend, InFlight
  <2>2. PICK m \in Task : /\ task' = (task \ {t}) \cup {m}
                          /\ m.job = t.job /\ m.token = t.token
                          /\ m.pc = pc /\ m.outcome = "none"
    BY <2>1, MovedTask
  <2>3. t.pc # "answered" /\ UNCHANGED <<job, received>>
    BY <1>5 DEF Load, StartSend, provider
  <2>4. received'[j] = received[j]
    BY <2>3
  <2> QED
    BY <1>2, <2>2, <2>3, <2>4, MoveCount
<1>6. CASE \E o \in Outcome : Answer(t, o)
  <2>1. PICK o \in Outcome : Answer(t, o)
    BY <1>6
  <2>2. /\ Move(t, "answered", o) /\ "answered" \in {"queued"} \cup InFlight
        /\ o \in {"none"} \cup Outcome
    BY <2>1 DEF Answer, InFlight
  <2>3. PICK m \in Task : /\ task' = (task \ {t}) \cup {m}
                          /\ m.job = t.job /\ m.token = t.token
                          /\ m.pc = "answered" /\ m.outcome = o
    BY <2>2, MovedTask
  <2>4. t.pc # "answered" /\ UNCHANGED job
    BY <2>1 DEF Answer
  <2>5. \/ received'[j] = received[j]
        \/ t.job = j /\ received'[j] = received[j] + 1
    BY <1>1, <2>1 DEF Answer, TypeOK, provider
  <2> QED
    BY <1>2, <2>3, <2>4, <2>5, MoveCount
<1>7. ASSUME End(t), received' = received, NEW row, job' = [job EXCEPT ![t.job] = row],
             row.state \in Final, row.attempts = job[t.job].attempts
      PROVE  Counted(j)'
  <2>1. CASE t.job = j
    BY <1>1, <1>3, <1>7, <2>1 DEF TypeOK
  <2>2. CASE t.job # j
    BY <1>1, <1>3, <1>7, <2>2 DEF TypeOK
  <2> QED
    BY <2>1, <2>2
<1>8. CASE GiveUp(t) \/ CancelObsolete(t) \/ RejectPayload(t)
  <2>1. End(t) /\ received' = received
    BY <1>8 DEF GiveUp, CancelObsolete, RejectPayload, provider
  <2>2. \/ job' = [job EXCEPT ![t.job] = Settle(job[t.job], "DEAD")]
        \/ job' = [job EXCEPT ![t.job] = Cancelled(job[t.job])]
    BY <1>8 DEF GiveUp, CancelObsolete, RejectPayload
  <2>3. /\ Settle(job[t.job], "DEAD").state \in Final
        /\ Settle(job[t.job], "DEAD").attempts = job[t.job].attempts
    BY <1>1, SettledRow DEF Final
  <2>4. /\ Cancelled(job[t.job]).state \in Final
        /\ Cancelled(job[t.job]).attempts = job[t.job].attempts
    BY <1>1, CancelledRow DEF Final
  <2> QED
    BY <1>7, <2>1, <2>2, <2>3, <2>4
<1>9. CASE Record(t)
  <2>1. End(t) /\ received' = received
    BY <1>9 DEF Record, provider
  <2>2. CASE ~Owns(t)
    <3>1. job' = job
      BY <1>9, <2>2 DEF Record
    <3> QED
      BY <1>3, <2>1, <2>2, <3>1
  <2>3. CASE Owns(t) /\ t.outcome = "accepted"
    <3> DEFINE row == [Settle(job[t.job], "ACCEPTED") EXCEPT !.payload = FALSE]
    <3>1. job' = [job EXCEPT ![t.job] = row]
      BY <1>9, <2>3 DEF Record
    <3>2. row.state \in Final /\ row.attempts = job[t.job].attempts
      BY <1>1 DEF Settle, JobRow, Row, Final
    <3> HIDE DEF row
    <3> QED
      BY <1>7, <2>1, <3>1, <3>2
  <2>4. CASE Owns(t) /\ t.outcome # "accepted" /\ ~Retryable(t)
    <3>1. job' = [job EXCEPT ![t.job] = Settle(job[t.job], "DEAD")]
      BY <1>9, <2>4 DEF Record
    <3>2. /\ Settle(job[t.job], "DEAD").state \in Final
          /\ Settle(job[t.job], "DEAD").attempts = job[t.job].attempts
      BY <1>1, SettledRow DEF Final
    <3> QED
      BY <1>7, <2>1, <3>1, <3>2
  <2>5. CASE Owns(t) /\ t.outcome # "accepted" /\ Retryable(t)
    <3>1. job' = [job EXCEPT ![t.job] = [Settle(@, "RETRY_WAIT") EXCEPT !.due = FALSE]]
      BY <1>9, <2>5 DEF Record
    <3>2. CASE t.job = j
      BY <1>2, <2>1, <2>5, <3>1, <3>2, RetryCount
    <3>3. CASE t.job # j
      <4>1. job'[j] = job[j]
        BY <1>1, <3>1, <3>3 DEF TypeOK
      <4> QED
        BY <1>3, <2>1, <3>3, <4>1
    <3> QED
      BY <3>2, <3>3
  <2> QED
    BY <2>2, <2>3, <2>4, <2>5
<1> QED
  BY <1>4, <1>5, <1>6, <1>8, <1>9 DEF Deliver

LEMMA CountStep ==
  ASSUME TypeOK, TypeOK', [Next]_vars, NEW j \in Job, Counted(j)
  PROVE  Counted(j)'
<1>1. CASE \/ \E i \in Job : Supersede(i) \/ ExpireCredential(i) \/ Forget(i)
                              \/ FallDue(i) \/ RunOut(i)
           \/ CloseWindow \/ UNCHANGED vars
           \/ \E w \in Worker : Purge(w) \/ Crash(w)
  BY <1>1, ClockCount
<1>2. CASE \E w \in Worker : \E batch \in SUBSET Job : Claim(w, batch)
  BY <1>2, ClaimCount
<1>3. CASE \E w \in Worker : \E t \in TasksOf(w) : Deliver(t)
  BY <1>3, DeliverCount DEF TasksOf
<1> QED
  BY <1>1, <1>2, <1>3 DEF Next, Work

\* A job that is not claimed twice without a reason is not sent on twice.
LEMMA SmsBound == TypeOK /\ SendsAreClaims /\ ClaimsOfSms /\ SendersAreCounted => SmsRepeatedByReclaim
<1> SUFFICES ASSUME TypeOK, SendsAreClaims, ClaimsOfSms, SendersAreCounted, NEW j \in Sms
             PROVE  received[j] <= 1 + overruns[j] + crashes
  BY DEF SmsRepeatedByReclaim
<1>1. j \in Job
  BY OutboxAssumption
<1>2. Pending(j) \subseteq Deliverers(j)
  BY DEF Pending
<1>3. Cardinality(Pending(j)) \in Nat
  BY <1>1, <1>2, Shrunk DEF SendersAreCounted
<1>4. /\ received[j] \in Nat /\ job[j].attempts \in Nat
      /\ overruns[j] \in Nat /\ crashes \in Nat
  BY <1>1 DEF TypeOK, JobRow, Row
<1>5. /\ received[j] + Cardinality(Pending(j)) <= job[j].attempts
      /\ job[j].attempts <= 1 + overruns[j] + crashes
  BY <1>1 DEF SendsAreClaims, ClaimsOfSms
<1> QED
  BY <1>3, <1>4, <1>5

-----------------------------------------------------------------------------
(* Theorems                                                                *)

LEMMA InitInvariant == Init => OutboxInvariant
<1> SUFFICES ASSUME Init
             PROVE  OutboxInvariant
  OBVIOUS
<1>1. \A j \in Job : job[j].state = "READY" /\ received[j] = 0
  BY DEF Init
<1>2. task = {} /\ known = {} /\ eligible = Job
  BY DEF Init
<1>3. ASSUME NEW j \in Job
      PROVE  Counted(j)
  <2>1. Deliverers(j) = {} /\ Pending(j) = {} /\ ClaimedBy(j) = {}
    BY <1>2 DEF Deliverers, Pending, ClaimedBy
  <2>2. /\ job[j].state = "READY" /\ job[j].attempts = 0 /\ received[j] = 0
        /\ overruns[j] = 0 /\ crashes = 0
    BY DEF Init
  <2> QED
    BY <2>1, <2>2, FS_EmptySet DEF Counted
<1>4. SendersAreCounted /\ OneSender /\ SendsAreClaims /\ ClaimsOfSms
  BY <1>3, CountedJobs
<1> QED
  BY <1>1, <1>2, <1>4, InitType, SmsBound
     DEF OutboxInvariant, OneTaskPerClaim, ReceiptsAreTrue, RepetitionIsKnown,
         AcceptedWasReceived, SupersededIsFinal, EmailReceivedOnce

LEMMA NextInvariant == OutboxInvariant /\ [Next]_vars => OutboxInvariant'
<1> SUFFICES ASSUME OutboxInvariant, [Next]_vars
             PROVE  OutboxInvariant'
  OBVIOUS
<1>1. /\ TypeOK /\ MessageInvariant /\ AcceptedWasReceived /\ SupersededIsFinal
      /\ SendersAreCounted /\ OneSender /\ SendsAreClaims /\ ClaimsOfSms
  BY DEF OutboxInvariant, MessageInvariant
<1>2. TypeOK' /\ MessageInvariant' /\ AcceptedWasReceived' /\ SupersededIsFinal'
  BY <1>1, NextType, MessageStep, AcceptedStep, SupersededStep
<1>3. \A j \in Job : Counted(j)'
  BY <1>1, <1>2, CountedJobs, CountStep
<1>4. (SendersAreCounted /\ OneSender /\ SendsAreClaims /\ ClaimsOfSms)'
  BY <1>3, OutboxAssumption
     DEF SendersAreCounted, OneSender, SendsAreClaims, ClaimsOfSms, Counted
<1>5. SmsRepeatedByReclaim'
  BY <1>2, <1>4, SmsBound, PTL
<1> QED
  BY <1>2, <1>4, <1>5 DEF OutboxInvariant, MessageInvariant

\* The invariant holds in every reachable state.
THEOREM InvariantHolds == Spec => []OutboxInvariant
<1> QED
  BY InitInvariant, NextInvariant, PTL DEF Spec

\* No recipient of an email gets it twice, whatever crashes, lost answers and
\* leases that run out there are (deliver_one's idempotency key and 23 hours).
THEOREM EmailReceivedOnceHolds == Spec => []EmailReceivedOnce
<1>1. OutboxInvariant => EmailReceivedOnce
  BY DEF OutboxInvariant
<1> QED
  BY <1>1, InvariantHolds, PTL

\* Two tasks send one job only after a lease of it ran out under a live task.
THEOREM OneSenderHolds == Spec => []OneSender
<1>1. OutboxInvariant => OneSender
  BY DEF OutboxInvariant
<1> QED
  BY <1>1, InvariantHolds, PTL

\* An SMS is repeated once for each lease that runs out or crash, at most.
THEOREM SmsRepeatedByReclaimHolds == Spec => []SmsRepeatedByReclaim
<1>1. OutboxInvariant => SmsRepeatedByReclaim
  BY DEF OutboxInvariant
<1> QED
  BY <1>1, InvariantHolds, PTL

\* An ACCEPTED job was taken by the provider and keeps no payload.
THEOREM AcceptedWasReceivedHolds == Spec => []AcceptedWasReceived
<1>1. OutboxInvariant => AcceptedWasReceived
  BY DEF OutboxInvariant
<1> QED
  BY <1>1, InvariantHolds, PTL

\* A job that the domain cancelled stays out of the queue.
THEOREM SupersededIsFinalHolds == Spec => []SupersededIsFinal
<1>1. OutboxInvariant => SupersededIsFinal
  BY DEF OutboxInvariant
<1> QED
  BY <1>1, InvariantHolds, PTL

\* No step takes a job from a final state back to the queue, and none makes a
\* job ACCEPTED after it was given up.
THEOREM FinalStaysFinalHolds == Spec => FinalStaysFinal
<1>1. TypeOK /\ [Next]_vars =>
        [\A j \in Job : job[j].state \in Final =>
            job'[j].state \in {job[j].state, "DEAD", "CANCELLED"}]_vars
  BY FinalStep
<1> QED
  BY <1>1, TypeCorrect, PTL DEF Spec, FinalStaysFinal

\* A step leaves the tasks of a settled job in the queue, and sends no message
\* of it: a task that starts finds the job without the token, and a claim does
\* not take it.
LEMMA SilentStep ==
  ASSUME TypeOK, [Next]_vars, NEW j \in Job, job[j].state \in Final, AllQueued(j)
  PROVE  AllQueued(j)' /\ received'[j] = received[j]
<1>1. \A t \in task : t.job = j => t.pc = "queued"
  BY DEF AllQueued, Deliverers
<1>2. ASSUME task' \subseteq task, received' = received
      PROVE  AllQueued(j)' /\ received'[j] = received[j]
  BY <1>1, <1>2 DEF AllQueued, Deliverers
<1>3. ASSUME NEW i \in Job,
             Supersede(i) \/ ExpireCredential(i) \/ Forget(i) \/ FallDue(i) \/ RunOut(i)
      PROVE  task' \subseteq task /\ received' = received
  BY <1>3 DEF Supersede, ExpireCredential, Forget, FallDue, RunOut, provider
<1>4. ASSUME NEW w \in Worker, Purge(w) \/ Crash(w)
      PROVE  task' \subseteq task /\ received' = received
  BY <1>4 DEF Purge, Crash, provider
<1>5. ASSUME NEW w \in Worker, NEW batch \in SUBSET Job, Claim(w, batch)
      PROVE  AllQueued(j)' /\ received'[j] = received[j]
  <2>1. ASSUME NEW t \in task', t \notin task
        PROVE  t.pc = "queued"
    <3>1. PICK i \in batch : t = [job |-> i, token |-> job'[i].token, worker |-> w,
                                  pc |-> "queued", outcome |-> "none"]
      BY <1>5, <2>1 DEF Claim
    <3> QED
      BY <3>1
  <2>2. received' = received
    BY <1>5 DEF Claim, provider
  <2> QED
    BY <1>1, <2>1, <2>2 DEF AllQueued, Deliverers
<1>6. ASSUME NEW t \in task, Deliver(t)
      PROVE  AllQueued(j)' /\ received'[j] = received[j]
  <2>1. ASSUME t.job # j, NEW pc, NEW outcome, Move(t, pc, outcome)
        PROVE  AllQueued(j)'
    <3>1. t \in Task
      BY DEF TypeOK
    <3>2. [t EXCEPT !.pc = pc, !.outcome = outcome].job = t.job
      BY <3>1 DEF Task
    <3> QED
      BY <1>1, <2>1, <3>2 DEF Move, AllQueued, Deliverers
  <2>2. ASSUME End(t), received' = received
        PROVE  AllQueued(j)' /\ received'[j] = received[j]
    BY <1>2, <2>2 DEF End
  <2>3. CASE Load(t)
    <3>1. Owns(t) => t.job # j
      BY DEF Owns, Final
    <3> QED
      BY <2>1, <2>2, <2>3, <3>1 DEF Load, provider
  <2>4. CASE StartSend(t)
    BY <1>1, <2>1, <2>4 DEF StartSend, provider
  <2>5. CASE \E outcome \in Outcome : Answer(t, outcome)
    <3>1. t.job # j
      BY <1>1, <2>5 DEF Answer
    <3>2. received'[j] = received[j]
      BY <2>5, <3>1 DEF Answer, TypeOK, provider
    <3> QED
      BY <2>1, <2>5, <3>1, <3>2 DEF Answer
  <2>6. CASE GiveUp(t) \/ CancelObsolete(t) \/ RejectPayload(t) \/ Record(t)
    BY <2>2, <2>6 DEF GiveUp, CancelObsolete, RejectPayload, Record, provider
  <2> QED
    BY <1>6, <2>3, <2>4, <2>5, <2>6 DEF Deliver
<1>7. CASE CloseWindow \/ UNCHANGED vars
  BY <1>2, <1>7 DEF CloseWindow, vars, provider
<1> QED
  BY <1>2, <1>3, <1>4, <1>5, <1>6, <1>7 DEF Next, Work, TasksOf

\* A job that is settled while tasks of it wait in the queue is sent by none.
THEOREM SettledIsSilentHolds == Spec => SettledIsSilent
<1>1. TypeOK /\ [Next]_vars =>
        [\A j \in Job : job[j].state \in Final /\ AllQueued(j) =>
            AllQueued(j)' /\ received'[j] = received[j]]_vars
  BY SilentStep
<1> QED
  BY <1>1, TypeCorrect, PTL DEF Spec, SettledIsSilent

=============================================================================
