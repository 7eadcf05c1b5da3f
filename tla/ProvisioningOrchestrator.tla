---------------------- MODULE ProvisioningOrchestrator ----------------------
(***************************************************************************)
(* ProvisioningOrchestrator.execute together with the ProvisioningJob-     *)
(* Service it drives.  Each request thread owns an orchestrator and a      *)
(* freshly built registry (app/dependencies.py), and so its connectors'    *)
(* attempt counters; it runs its executions one after the other.  Threads  *)
(* share the process-wide DomainEventPublisher.  Rows are modelled as the  *)
(* session sees them; committing them is the caller's business.            *)
(***************************************************************************)
EXTENDS ConnectorFramework, SequencesExt

CONSTANTS
    Requests,     \* concurrent request threads
    Workload,     \* [Requests -> the calls it makes]
    MaxCalls,     \* [Requests -> executions (bound)]
    NoCall        \* no execution begun yet

ASSUME OrchestratorAssumption ==
    /\ Workload \in [Requests -> SUBSET Calls]
    /\ MaxCalls \in [Requests -> Nat]
    /\ NoCall \notin Calls

VARIABLES
    jobs,       \* ProvisioningJob rows
    history,    \* ProvisioningHistory rows of each job, in insertion order
    audit,      \* audit rows each execution writes, in insertion order
    attempts,   \* MockIdentityConnector._attempts of each request's connectors
    published,  \* DomainEventPublisher._events
    pc, calls, call, attempt, result,   \* control state of execute()
    pending,    \* ProvisioningJobService.pending_events
    events      \* the local list of connector events

rows == <<jobs, history, audit>>
vars == <<jobs, history, audit, attempts, published, pc, calls, call, attempt,
          result, pending, events>>

-----------------------------------------------------------------------------
(* The k-th execution of request r writes at most one job: <<r, k>> is its id. *)
JobIds == UNION {{r} \X (1..MaxCalls[r]) : r \in Requests}

job(r) == <<r, calls[r]>>

JobStatus == {"ABSENT", "PENDING", "RUNNING"} \cup ConnectorStatus

JobRow == [status : JobStatus, attempt_count : Nat, retry_count : Nat,
           retryable : BOOLEAN, last_error : BOOLEAN,
           started : BOOLEAN, completed : BOOLEAN]

AbsentJob == [status |-> "ABSENT", attempt_count |-> 0, retry_count |-> 0,
              retryable |-> FALSE, last_error |-> FALSE,
              started |-> FALSE, completed |-> FALSE]

HistoryEventType ==
    {"job_created", "job_started", "connector_invocation", "connector_result",
     "job_completed", "job_failed", "retry_recorded"}

HistoryRow == [event_type : HistoryEventType, status : JobStatus,
               attempt : Nat, retryable : BOOLEAN]

(* A history row; a retry row also stores NextDelay(n), a function of n. *)
Row(type, status, n, retryable) ==
    [event_type |-> type, status |-> status, attempt |-> n,
     retryable |-> retryable]

Entry(action, outcome) == [action |-> action, result |-> outcome]

(* A domain event, tagged with the execution that produced it. *)
Event(type, j, n) == [type |-> type, job |-> j, attempt |-> n]

LargerOf(a, b) == IF a >= b THEN a ELSE b

(* The job row after create_job, start_job, record_retry, and after        *)
(* complete_job or fail_job, which write the same columns.                 *)
created == [status |-> "PENDING", attempt_count |-> 0, retry_count |-> 0,
            retryable |-> FALSE, last_error |-> FALSE,
            started |-> FALSE, completed |-> FALSE]

started(row, n) ==
    [status |-> "RUNNING", attempt_count |-> LargerOf(row.attempt_count, n),
     retry_count |-> row.retry_count, retryable |-> row.retryable,
     last_error |-> row.last_error, started |-> TRUE,
     completed |-> row.completed]

retried(row, n) ==
    [status |-> row.status, attempt_count |-> LargerOf(row.attempt_count, n),
     retry_count |-> row.retry_count + 1, retryable |-> TRUE,
     last_error |-> TRUE, started |-> row.started,
     completed |-> row.completed]

(* Mutant of ended: complete_job leaves last_error of the retries behind. *)
EndedKeepingError(row, n, status, retryable, error) ==
    [status |-> status, attempt_count |-> LargerOf(row.attempt_count, n),
     retry_count |-> row.retry_count, retryable |-> retryable,
     last_error |-> row.last_error \/ error, started |-> row.started,
     completed |-> TRUE]

ended(row, n, status, retryable, error) ==
    [status |-> status, attempt_count |-> LargerOf(row.attempt_count, n),
     retry_count |-> row.retry_count, retryable |-> retryable,
     last_error |-> error, started |-> row.started, completed |-> TRUE]

-----------------------------------------------------------------------------
Init ==
    /\ jobs = [j \in JobIds |-> AbsentJob]
    /\ history = [j \in JobIds |-> <<>>]
    /\ audit = [j \in JobIds |-> <<>>]
    /\ attempts = [r \in Requests |-> [k \in AttemptKeys |-> 0]]
    /\ published = <<>>
    /\ pc = [r \in Requests |-> "idle"]
    /\ calls = [r \in Requests |-> 0]
    /\ call = [r \in Requests |-> NoCall]
    /\ attempt = [r \in Requests |-> 0]
    /\ result = [r \in Requests |-> "none"]
    /\ pending = [r \in Requests |-> <<>>]
    /\ events = [r \in Requests |-> <<>>]

(* _record_audit writes only when a session and both user ids were supplied. *)
Audited(c) == c.db /\ c.audited

(* Mutant of RecordAudit: only the first of several entries is written. *)
RecordFirstAudit(r, entries) ==
    audit' = IF Audited(call[r])
               THEN [audit EXCEPT ![job(r)] = Append(@, Head(entries))]
               ELSE audit

RecordAudit(r, entries) ==
    audit' = IF Audited(call[r])
               THEN [audit EXCEPT ![job(r)] = @ \o entries]
               ELSE audit

(***************************************************************************)
(* registry.get raises before anything is written: the execution leaves no *)
(* job behind and the exception reaches the caller.                        *)
(***************************************************************************)
UnknownConnector(r, c) ==
    /\ pc[r] = "idle" /\ calls[r] < MaxCalls[r]
    /\ ~Registered(c)
    /\ calls' = [calls EXCEPT ![r] = @ + 1]
    /\ call' = [call EXCEPT ![r] = c]
    /\ attempt' = [attempt EXCEPT ![r] = 0]
    /\ result' = [result EXCEPT ![r] = "error"]
    /\ UNCHANGED <<rows, attempts, published, pc, pending, events>>

(***************************************************************************)
(* The head of execute(): the connector is found and create_job flushes    *)
(* the PENDING row and its first history row.  (The audit entitlement is   *)
(* seeded at startup and never deleted, so _record_audit does not raise.)  *)
(***************************************************************************)
Begin(r, c) ==
    LET id == <<r, calls[r] + 1>> IN
    /\ pc[r] = "idle" /\ calls[r] < MaxCalls[r]
    /\ Registered(c)
    /\ calls' = [calls EXCEPT ![r] = @ + 1]
    /\ call' = [call EXCEPT ![r] = c]
    /\ IF c.db
         THEN /\ jobs' = [jobs EXCEPT ![id] = created]
              /\ history' = [history EXCEPT ![id] =
                    Append(@, Row("job_created", "PENDING", 0, FALSE))]
              /\ pending' = [pending EXCEPT ![r] =
                                <<Event("ProvisioningJobCreated", id, 0)>>]
         ELSE /\ UNCHANGED <<jobs, history>>
              /\ pending' = [pending EXCEPT ![r] = <<>>]
    /\ audit' = IF Audited(c)
                  THEN [audit EXCEPT ![id] =
                    Append(@, Entry("provisioning_job_created", "succeeded"))]
                  ELSE audit
    /\ events' = [events EXCEPT ![r] = <<Event("ProvisioningStarted", id, 0)>>]
    /\ attempt' = [attempt EXCEPT ![r] = 1]
    /\ result' = [result EXCEPT ![r] = "none"]
    /\ pc' = [pc EXCEPT ![r] = "attempt"]
    /\ UNCHANGED <<attempts, published>>

(* The head of the loop: start_job, the invocation row, event and audit. *)
StartAttempt(r) ==
    LET j == job(r)
        n == attempt[r]
    IN
    /\ pc[r] = "attempt"
    /\ IF call[r].db
         THEN /\ jobs' = [jobs EXCEPT ![j] = started(@, n)]
              /\ history' = [history EXCEPT ![j] = @ \o
                    <<Row("job_started", "RUNNING", n, FALSE),
                      Row("connector_invocation", "RUNNING", n, FALSE)>>]
              /\ pending' = [pending EXCEPT ![r] =
                    Append(@, Event("ProvisioningJobStarted", j, 0))]
         ELSE UNCHANGED <<jobs, history, pending>>
    /\ events' = [events EXCEPT ![r] =
                    Append(@, Event("ConnectorCalled", j, n))]
    /\ RecordAudit(r, <<Entry("connector_invocation", "succeeded")>>)
    /\ pc' = [pc EXCEPT ![r] = "call"]
    /\ UNCHANGED <<attempts, published, calls, call, attempt, result>>

(* What the connector answers now, and the attempt it records in doing so. *)
Answer(r) == Invoke(call[r], attempts[r][KeyOf(call[r])])

record_attempt(r) ==
    attempts' = IF Recorded(call[r])
                  THEN [attempts EXCEPT ![r][KeyOf(call[r])] = @ + 1]
                  ELSE attempts

(* The connector raised and the policy allows another attempt. *)
RecordRetry(r) ==
    LET j == job(r)
        n == attempt[r]
    IN
    /\ pc[r] = "call"
    /\ ShouldRetry(Answer(r), n)
    /\ record_attempt(r)
    /\ IF call[r].db
         THEN /\ jobs' = [jobs EXCEPT ![j] = retried(@, n)]
              /\ history' = [history EXCEPT ![j] = Append(@,
                    Row("retry_recorded", "RETRYABLE", n, TRUE))]
              /\ pending' = [pending EXCEPT ![r] =
                    Append(@, Event("ProvisioningRetryRecorded", j, n))]
         ELSE UNCHANGED <<jobs, history, pending>>
    /\ events' = [events EXCEPT ![r] =
                    Append(@, Event("ConnectorRetryScheduled", j, n))]
    /\ RecordAudit(r, <<Entry("connector_retry_scheduled", "succeeded"),
                        Entry("provisioning_retry_recorded", "succeeded")>>)
    /\ attempt' = [attempt EXCEPT ![r] = n + 1]
    /\ pc' = [pc EXCEPT ![r] = "attempt"]
    /\ UNCHANGED <<published, calls, call, result>>

(* What complete_job and fail_job have in common. *)
EndJob(r, status, retryable, error, last) ==
    LET j == job(r)
        n == attempt[r]
    IN  IF call[r].db
          THEN /\ jobs' = [jobs EXCEPT
                    ![j] = ended(@, n, status, retryable, error)]
               /\ history' = [history EXCEPT ![j] = @ \o
                    <<Row("connector_result", status, n, retryable),
                      Row(last, status, n, retryable)>>]
          ELSE UNCHANGED <<jobs, history>>

AfterEnd(c) == IF c.db THEN "publish_job" ELSE "publish"

(* The connector raised and no attempt is left, or the error is permanent. *)
Fail(r) ==
    LET answer == Answer(r)
        status == FailedStatus(answer)
        j == job(r)
        n == attempt[r]
    IN
    /\ pc[r] = "call"
    /\ Raises(answer) /\ ~ShouldRetry(answer, n)
    /\ record_attempt(r)
    /\ EndJob(r, status, answer = "transient", TRUE, "job_failed")
    /\ pending' = IF call[r].db
                    THEN [pending EXCEPT ![r] =
                            Append(@, Event("ProvisioningJobFailed", j, 0))]
                    ELSE pending
    /\ events' = [events EXCEPT ![r] = @ \o
                    <<Event("ConnectorFailed", j, n),
                      Event("ProvisioningFailed", j, 0)>>]
    /\ RecordAudit(r, <<Entry("connector_failure", "denied"),
                        Entry("provisioning_job_failed", "denied")>>)
    /\ result' = [result EXCEPT ![r] = status]
    /\ pc' = [pc EXCEPT ![r] = AfterEnd(call[r])]
    /\ UNCHANGED <<published, calls, call, attempt>>

(* The connector returned: SUCCESS, or SKIPPED when it is disabled. *)
Complete(r) ==
    LET answer == Answer(r)
        j == job(r)
        n == attempt[r]
    IN
    /\ pc[r] = "call"
    /\ ~Raises(answer)
    /\ record_attempt(r)
    /\ EndJob(r, answer, FALSE, FALSE, "job_completed")
    /\ pending' = IF call[r].db
                    THEN [pending EXCEPT ![r] =
                            Append(@, Event("ProvisioningJobCompleted", j, 0))]
                    ELSE pending
    /\ events' = [events EXCEPT ![r] = @ \o
                    <<Event("ConnectorSucceeded", j, n),
                      Event("ProvisioningCompleted", j, 0)>>]
    /\ RecordAudit(r, <<Entry("connector_success", "succeeded"),
                        Entry("connector_provisioning_completed", "succeeded"),
                        Entry("provisioning_job_completed", "succeeded")>>)
    /\ result' = [result EXCEPT ![r] = answer]
    /\ pc' = [pc EXCEPT ![r] = AfterEnd(call[r])]
    /\ UNCHANGED <<published, calls, call, attempt>>

(* Mutant of PublishJobEvents: the events are published one at a time. *)
PublishOneByOne(r) ==
    /\ pc[r] = "publish_job"
    /\ published' = Append(published, Head(pending[r]))
    /\ pending' = [pending EXCEPT ![r] = Tail(@)]
    /\ pc' = [pc EXCEPT ![r] = IF Len(pending[r]) = 1 THEN "publish" ELSE @]
    /\ UNCHANGED <<rows, attempts, calls, call, attempt, result, events>>

(* publish_pending_events: one locked publish_all, then clear(). *)
PublishJobEvents(r) ==
    /\ pc[r] = "publish_job"
    /\ published' = published \o pending[r]
    /\ pending' = [pending EXCEPT ![r] = <<>>]
    /\ pc' = [pc EXCEPT ![r] = "publish"]
    /\ UNCHANGED <<rows, attempts, calls, call, attempt, result, events>>

(* publish_domain_events(events), and execute() returns its result. *)
PublishAndReturn(r) ==
    /\ pc[r] = "publish"
    /\ published' = published \o events[r]
    /\ events' = [events EXCEPT ![r] = <<>>]
    /\ pc' = [pc EXCEPT ![r] = "idle"]
    /\ UNCHANGED <<rows, attempts, calls, call, attempt, result, pending>>

(* Mutant of Step: a SKIPPED answer is not treated as a result. *)
StepIgnoringSkipped(r) ==
    \/ StartAttempt(r)
    \/ RecordRetry(r)
    \/ Fail(r)
    \/ pc[r] = "call" /\ Answer(r) # "SKIPPED" /\ Complete(r)
    \/ PublishJobEvents(r)
    \/ PublishAndReturn(r)

(* One step of the thread of request r inside execute(). *)
Step(r) ==
    \/ StartAttempt(r)
    \/ RecordRetry(r)
    \/ Fail(r)
    \/ Complete(r)
    \/ PublishJobEvents(r)
    \/ PublishAndReturn(r)

Execute(r) == \E c \in Workload[r] : UnknownConnector(r, c) \/ Begin(r, c)

Next == \E r \in Requests : Execute(r) \/ Step(r)

Spec == Init /\ [][Next]_vars

(* A thread that is inside execute() keeps running: nothing in it blocks. *)
FairSpec == Spec /\ \A r \in Requests : WF_vars(Step(r))
-----------------------------------------------------------------------------
(* Types of the state; the rows' value sets are those of the ORM columns. *)
TypeOK ==
    /\ jobs \in [JobIds -> JobRow]
    /\ history \in [JobIds -> Seq(HistoryRow)]
    /\ attempts \in [Requests -> [AttemptKeys -> Nat]]
    /\ pc \in [Requests -> {"idle", "attempt", "call", "publish_job", "publish"}]
    /\ calls \in [Requests -> Nat] /\ \A r \in Requests : calls[r] <= MaxCalls[r]
    /\ call \in [Requests -> Calls \cup {NoCall}]
    /\ attempt \in [Requests -> 0..MaxAttempts]
    /\ result \in [Requests -> ConnectorStatus \cup {"none", "error"}]

(***************************************************************************)
(* The retry loop computes the reference outcome.  Whatever the connector  *)
(* recorded before (an earlier execution of the same request with the same *)
(* operation and correlation id counts), execute() ends with the status    *)
(* and after the number of attempts that Outcome gives.                    *)
(***************************************************************************)
RecordedBefore(r) ==
    attempts[r][KeyOf(call[r])] - (IF Recorded(call[r]) THEN attempt[r] ELSE 0)

LoopComputesOutcome ==
    \A r \in Requests : result[r] \in ConnectorStatus =>
        [status |-> result[r], attempts |-> attempt[r]]
            = Outcome(call[r], RecordedBefore(r))

(***************************************************************************)
(* Why it does: inside the loop every earlier attempt of this execution    *)
(* was recorded by the connector and failed transiently, either because    *)
(* failures_before_success had not been used up or because of the mode.    *)
(***************************************************************************)
InLoop(r) == pc[r] \in {"attempt", "call"}

LoopInv ==
    \A r \in Requests :
        /\ InLoop(r) =>
             /\ call[r] \in Calls /\ Registered(call[r])
             /\ calls[r] >= 1 /\ attempt[r] >= 1
             /\ result[r] = "none"
             /\ Recorded(call[r]) =>
                  attempts[r][KeyOf(call[r])] >= attempt[r] - 1
             /\ attempt[r] > 1 =>
                  /\ Recorded(call[r])
                  /\ \/ attempts[r][KeyOf(call[r])] <= Failures[ConnectorOf(call[r])]
                     \/ Mode[ConnectorOf(call[r])] \in TransientModes
        /\ result[r] \in ConnectorStatus =>
             call[r] \in Calls /\ Registered(call[r])

(* The row of the running job mirrors the local attempt counter. *)
RowInv ==
    \A r \in Requests :
        /\ \A k \in 1..MaxCalls[r] : k > calls[r] => jobs[<<r, k>>] = AbsentJob
        /\ InLoop(r) /\ call[r].db =>
             /\ \/ jobs[job(r)].status = "RUNNING"
                \/ pc[r] = "attempt" /\ jobs[job(r)].status = "PENDING"
             /\ jobs[job(r)].retry_count = attempt[r] - 1
             /\ jobs[job(r)].attempt_count =
                  IF pc[r] = "attempt" THEN attempt[r] - 1 ELSE attempt[r]

(***************************************************************************)
(* The immutable history explains the job row: replaying a job's history   *)
(* rows gives the row's counters, its retryable flag, its error flag and   *)
(* its status, at every moment of the execution.                           *)
(***************************************************************************)
Rows(h, type) == {i \in DOMAIN h : h[i].event_type = type}

CountRows(j, type) == Cardinality(Rows(history[j], type))

ReplayedStatus(j) ==
    IF history[j] = <<>> THEN "ABSENT"
    ELSE LET h == Last(history[j])
         IN  IF h.event_type \in {"connector_invocation", "retry_recorded"}
               THEN "RUNNING" ELSE h.status

HistoryExplainsJob ==
    \A j \in JobIds :
        /\ jobs[j].status = ReplayedStatus(j)
        /\ jobs[j].attempt_count = CountRows(j, "connector_invocation")
        /\ jobs[j].retry_count = CountRows(j, "retry_recorded")
        /\ jobs[j].completed <=>
              CountRows(j, "job_completed") + CountRows(j, "job_failed") = 1
        /\ jobs[j].last_error <=>
              /\ CountRows(j, "retry_recorded") + CountRows(j, "job_failed") > 0
              /\ CountRows(j, "job_completed") = 0
        /\ jobs[j].completed => jobs[j].retryable = Last(history[j]).retryable

(***************************************************************************)
(* The audit trail of an audited execution tells the same story as the     *)
(* history: one connector_invocation entry per invocation row, two retry   *)
(* entries per retry row, and the terminal entries of the job's status;    *)
(* an execution without requester or target writes no audit at all.        *)
(***************************************************************************)
Entries(log, action) == {i \in DOMAIN log : log[i].action = action}

CountAudit(j, action) == Cardinality(Entries(audit[j], action))

AuditAgreesWithHistory ==
    \A j \in JobIds : audit[j] # <<>> =>
        /\ CountAudit(j, "connector_invocation")
              = CountRows(j, "connector_invocation")
        /\ \A a \in {"connector_retry_scheduled", "provisioning_retry_recorded"} :
              CountAudit(j, a) = CountRows(j, "retry_recorded")
        /\ \A a \in {"connector_failure", "provisioning_job_failed"} :
              CountAudit(j, a) = CountRows(j, "job_failed")
        /\ \A a \in {"connector_success", "connector_provisioning_completed",
                      "provisioning_job_completed"} :
              CountAudit(j, a) = CountRows(j, "job_completed")

(***************************************************************************)
(* Interleaved threads never tear or repeat a job's event stream: the job  *)
(* events found in the shared publisher are, for each job, either none or  *)
(* exactly one event per lifecycle row of its finished history, in order.  *)
(***************************************************************************)
EventOfRow ==
    [job_created    |-> "ProvisioningJobCreated",
     job_started    |-> "ProvisioningJobStarted",
     retry_recorded |-> "ProvisioningRetryRecorded",
     job_completed  |-> "ProvisioningJobCompleted",
     job_failed     |-> "ProvisioningJobFailed"]

JobEventTypes == {EventOfRow[t] : t \in DOMAIN EventOfRow}

(* The job events of j in the publisher, and the rows of a history that    *)
(* have one; both are sets of positions, compared by their order.          *)
JobStream(log, j) ==
    {i \in DOMAIN log : log[i].job = j /\ log[i].type \in JobEventTypes}

LifecycleRows(h) == {i \in DOMAIN h : h[i].event_type \in DOMAIN EventOfRow}

Rank(S, i) == Cardinality({k \in S : k <= i})

StreamTells(log, stream, h) ==
    /\ Cardinality(stream) = Cardinality(LifecycleRows(h))
    /\ \A i \in stream, k \in LifecycleRows(h) :
          Rank(stream, i) = Rank(LifecycleRows(h), k)
              => log[i].type = EventOfRow[h[k].event_type]

StreamsAreWhole ==
    \A j \in JobIds :
        JobStream(published, j) # {} =>
            /\ jobs[j].completed
            /\ StreamTells(published, JobStream(published, j), history[j])

(***************************************************************************)
(* Backoff: within one job the recorded delays never decrease, start at    *)
(* base_delay_ms and never exceed max_delay_ms.                            *)
(***************************************************************************)
BackoffIsMonotone ==
    \A j \in JobIds :
        LET retries  == Rows(history[j], "retry_recorded")
            delay(i) == NextDelay(history[j][i].attempt)
        IN  \A i \in retries :
              /\ delay(i) <= MaxDelay
              /\ \A k \in retries : i <= k => delay(i) <= delay(k)
              /\ (\A k \in retries : i <= k) => delay(i) = BaseDelay

(***************************************************************************)
(* What an execution leaves behind tells one story: the job row, its       *)
(* history, the delays between its attempts and the audit log.             *)
(***************************************************************************)
RecordsAgree == HistoryExplainsJob /\ AuditAgreesWithHistory /\ BackoffIsMonotone

(***************************************************************************)
(* execute() returns: retries are bounded and nothing in the loop waits    *)
(* for another thread.                                                     *)
(***************************************************************************)
ExecuteReturns ==
    \A r \in Requests : pc[r] # "idle" ~> pc[r] = "idle"

(***************************************************************************)
(* The job rows behave as the abstract lifecycle of ProvisioningJobs.      *)
(***************************************************************************)
JobLifecycle == [j \in JobIds |-> [status   |-> jobs[j].status,
                                   attempts |-> jobs[j].attempt_count,
                                   retries  |-> jobs[j].retry_count]]

Lifecycle == INSTANCE ProvisioningJobs WITH lifecycle <- JobLifecycle

JobsFollowLifecycle == Lifecycle!Spec
=============================================================================
