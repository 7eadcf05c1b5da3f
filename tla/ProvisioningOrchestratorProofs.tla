------------------- MODULE ProvisioningOrchestratorProofs -------------------
(***************************************************************************)
(* Proofs about ProvisioningOrchestrator, for any connectors, retry policy,*)
(* workload and number of threads: types, the outcome of the retry loop,   *)
(* the lifecycle of the job rows, the agreement of rows, history, delays   *)
(* and audit log, and the streams of job events in the shared publisher.   *)
(***************************************************************************)
EXTENDS ProvisioningOrchestrator, FiniteSetTheorems, TLAPS

(* Facts about a registered call that the proofs below share. *)
LEMMA RegisteredCall ==
    ASSUME NEW c \in Calls, Registered(c)
    PROVE  /\ ConnectorOf(c) \in Connectors
           /\ KeyOf(c) \in AttemptKeys
           /\ c.operation \in Operations
           /\ c.db \in BOOLEAN /\ c.audited \in BOOLEAN
           /\ Failures[ConnectorOf(c)] \in Nat
           /\ Mode[ConnectorOf(c)] \in ConnectorSimulationMode
           /\ Enabled[ConnectorOf(c)] \in BOOLEAN
  BY ConnectorsAssumption
     DEF Registered, ConnectorOf, KeyOf, AttemptKeys, Calls

(* A connector answers with a status or an exception, nothing else. *)
LEMMA InvokeType ==
    ASSUME NEW c \in Calls, Registered(c), NEW n \in Nat
    PROVE  Invoke(c, n) \in {"fatal", "transient", "SKIPPED", "SUCCESS"}
  BY RegisteredCall DEF Invoke, Simulate, Dispatches

(* Only a call the connector records can fail transiently. *)
LEMMA TransientIsRecorded ==
    ASSUME NEW c \in Calls, Registered(c), NEW n \in Nat,
           Invoke(c, n) = "transient"
    PROVE  /\ Recorded(c)
           /\ \/ n + 1 <= Failures[ConnectorOf(c)]
              \/ Mode[ConnectorOf(c)] \in TransientModes
  BY RegisteredCall
     DEF Invoke, Simulate, Dispatches, Recorded, ConnectorSimulationMode,
         PermanentModes, TransientModes, WorkingModes

-----------------------------------------------------------------------------
(***************************************************************************)
(* The answer that ends the loop is the reference outcome.  n is what the  *)
(* connector had recorded when it was called for the k-th attempt of this  *)
(* execution, all k - 1 earlier attempts having failed transiently.        *)
(***************************************************************************)
LEMMA LastAnswerIsOutcome ==
    ASSUME NEW c \in Calls, Registered(c),
           NEW n \in Nat, NEW k \in 1..MaxAttempts,
           Recorded(c) => n >= k - 1,
           k > 1 => /\ Recorded(c)
                    /\ \/ n <= Failures[ConnectorOf(c)]
                       \/ Mode[ConnectorOf(c)] \in TransientModes,
           ~ShouldRetry(Invoke(c, n), k)
    PROVE  LET status == IF Raises(Invoke(c, n))
                           THEN FailedStatus(Invoke(c, n)) ELSE Invoke(c, n)
               before == IF Recorded(c) THEN n - (k - 1) ELSE n
           IN  [status |-> status, attempts |-> k] = Outcome(c, before)
  <1> USE RegisteredCall, ConnectorsAssumption
      DEF Invoke, Raises, FailedStatus, Outcome, ShouldRetry
  <1>1. CASE ~Dispatches(c) \/ c.operation \notin Supported[ConnectorOf(c)]
    BY <1>1 DEF Recorded
  <1>2. CASE /\ Dispatches(c) /\ c.operation \in Supported[ConnectorOf(c)]
             /\ ~Enabled[ConnectorOf(c)]
    BY <1>2 DEF Recorded
  <1>3. CASE Recorded(c)
    <2>1. /\ Dispatches(c) /\ c.operation \in Supported[ConnectorOf(c)]
          /\ Enabled[ConnectorOf(c)]
      BY <1>3 DEF Recorded
    <2>2. n - (k - 1) \in Nat
      BY <1>3
    <2>3. CASE n + 1 <= Failures[ConnectorOf(c)]
      BY <1>3, <2>1, <2>2, <2>3
    <2>4. CASE ~(n + 1 <= Failures[ConnectorOf(c)])
      <3>1. CASE Mode[ConnectorOf(c)] \in TransientModes
        BY <1>3, <2>1, <2>2, <2>4, <3>1
           DEF Simulate, TransientModes, PermanentModes
      <3>2. CASE Mode[ConnectorOf(c)] \notin TransientModes
        BY <1>3, <2>1, <2>2, <2>4, <3>2
           DEF Simulate, TransientModes, PermanentModes
      <3> QED BY <3>1, <3>2
    <2> QED BY <2>3, <2>4
  <1> QED BY <1>1, <1>2, <1>3 DEF Recorded

-----------------------------------------------------------------------------
(* A step of one thread, action by action. *)
LEMMA StepCases ==
    ASSUME [Next]_vars
    PROVE  \/ UNCHANGED vars
           \/ \E r \in Requests :
                \/ \E c \in Workload[r] : UnknownConnector(r, c) \/ Begin(r, c)
                \/ StartAttempt(r) \/ RecordRetry(r) \/ Fail(r) \/ Complete(r)
                \/ PublishJobEvents(r) \/ PublishAndReturn(r)
  BY DEF Next, Execute, Step

(* The updates of the job row keep its type. *)
LEMMA RowUpdates ==
    ASSUME NEW row \in JobRow, NEW n \in Nat
    PROVE  /\ started(row, n) \in JobRow
           /\ retried(row, n) \in JobRow
           /\ \A s \in ConnectorStatus, b \in BOOLEAN, e \in BOOLEAN :
                ended(row, n, s, b, e) \in JobRow
  BY DEF started, retried, ended, JobRow, JobStatus, LargerOf

(* The k-th execution of r has its own job, different from all others. *)
LEMMA JobIdsDiffer ==
    ASSUME NEW r \in Requests, NEW q \in Requests,
           NEW k \in 1..MaxCalls[r], NEW m \in 1..MaxCalls[q]
    PROVE  /\ <<r, k>> \in JobIds
           /\ <<r, k>> = <<q, m>> => r = q /\ k = m
  BY DEF JobIds

(* One job's row and history are replaced together, or neither is. *)
LEMMA RowsUpdated ==
    ASSUME TypeOK, NEW id \in JobIds, NEW row \in JobRow,
           NEW h \in Seq(HistoryRow),
           \/ /\ jobs' = [jobs EXCEPT ![id] = row]
              /\ history' = [history EXCEPT ![id] = h]
           \/ jobs' = jobs /\ history' = history
    PROVE  /\ jobs' \in [JobIds -> JobRow]
           /\ history' \in [JobIds -> Seq(HistoryRow)]
  BY DEF TypeOK

(* Appending one or two rows to a history gives a history. *)
LEMMA HistoryGrows ==
    ASSUME NEW h \in Seq(HistoryRow), NEW a \in HistoryRow, NEW b \in HistoryRow
    PROVE  Append(h, a) \in Seq(HistoryRow) /\ h \o <<a, b>> \in Seq(HistoryRow)
  OBVIOUS

(* The type invariant is inductive together with LoopInv. *)
LEMMA TypeInit == Init => TypeOK /\ LoopInv
  BY OrchestratorAssumption, ConnectorsAssumption
     DEF Init, TypeOK, LoopInv, InLoop, JobRow, AbsentJob, JobStatus,
         ConnectorStatus

LEMMA TypeStep == TypeOK /\ LoopInv /\ [Next]_vars => TypeOK'
  <1> SUFFICES ASSUME TypeOK, LoopInv, [Next]_vars PROVE TypeOK'
    OBVIOUS
  <1> USE OrchestratorAssumption, ConnectorsAssumption
  <1>0. CASE UNCHANGED vars
    BY <1>0 DEF TypeOK, vars
  <1>1. ASSUME NEW r \in Requests, NEW c \in Workload[r], UnknownConnector(r, c)
        PROVE  TypeOK'
    BY <1>1 DEF TypeOK, UnknownConnector, rows
  <1>2. ASSUME NEW r \in Requests, NEW c \in Workload[r], Begin(r, c)
        PROVE  TypeOK'
    <2>0. calls[r] + 1 \in 1..MaxCalls[r]
      BY <1>2 DEF TypeOK, Begin
    <2>1. PICK id \in JobIds : id = <<r, calls[r] + 1>>
      <3>1. PICK k \in 1..MaxCalls[r] : k = calls[r] + 1
        BY <2>0
      <3>2. <<r, k>> \in JobIds
        BY JobIdsDiffer, Zenon
      <3> QED BY <3>1, <3>2, Zenon
    <2>2. Row("job_created", "PENDING", 0, FALSE) \in HistoryRow
      BY DEF Row, HistoryRow, HistoryEventType, JobStatus
    <2>3. created \in JobRow
      BY DEF created, JobRow, JobStatus
    <2>4. \/ /\ jobs' = [jobs EXCEPT ![id] = created]
             /\ history' = [history EXCEPT ![id] =
                   Append(history[id], Row("job_created", "PENDING", 0, FALSE))]
          \/ jobs' = jobs /\ history' = history
      BY <1>2, <2>1 DEF Begin
    <2>5. /\ jobs' \in [JobIds -> JobRow]
          /\ history' \in [JobIds -> Seq(HistoryRow)]
      <3>1. history[id] \in Seq(HistoryRow)
        BY DEF TypeOK
      <3> QED BY <2>2, <2>3, <2>4, <3>1, RowsUpdated, HistoryGrows
    <2> QED
      BY <1>2, <2>5 DEF TypeOK, Begin, rows
  <1>3. ASSUME NEW r \in Requests, pc[r] \in {"attempt", "call"}
        PROVE  /\ job(r) \in JobIds /\ attempt[r] \in 1..MaxAttempts
               /\ jobs[job(r)] \in JobRow
               /\ history[job(r)] \in Seq(HistoryRow)
               /\ KeyOf(call[r]) \in AttemptKeys
               /\ attempts[r][KeyOf(call[r])] \in Nat
    BY <1>3, RegisteredCall DEF TypeOK, LoopInv, InLoop, job, JobIds
  <1>4. ASSUME NEW r \in Requests, StartAttempt(r)
        PROVE  TypeOK'
    <2> DEFINE a == Row("job_started", "RUNNING", attempt[r], FALSE)
               b == Row("connector_invocation", "RUNNING", attempt[r], FALSE)
    <2>0. pc[r] = "attempt"
      BY <1>4 DEF StartAttempt
    <2>1. a \in HistoryRow /\ b \in HistoryRow
      BY <1>3, <2>0 DEF Row, HistoryRow, HistoryEventType, JobStatus
    <2>2. \/ /\ jobs' = [jobs EXCEPT ![job(r)] = started(jobs[job(r)], attempt[r])]
             /\ history' = [history EXCEPT ![job(r)] = history[job(r)] \o <<a, b>>]
          \/ jobs' = jobs /\ history' = history
      BY <1>4 DEF StartAttempt
    <2>3. started(jobs[job(r)], attempt[r]) \in JobRow
      BY <1>3, <2>0, RowUpdates
    <2>4. history[job(r)] \o <<a, b>> \in Seq(HistoryRow)
      BY <1>3, <2>0, <2>1, HistoryGrows
    <2>5. /\ jobs' \in [JobIds -> JobRow]
          /\ history' \in [JobIds -> Seq(HistoryRow)]
      <3> HIDE DEF a, b
      <3> QED BY <1>3, <2>0, <2>2, <2>3, <2>4, RowsUpdated
    <2> QED
      BY <1>4, <2>5 DEF TypeOK, StartAttempt, rows
  <1>5. ASSUME NEW r \in Requests, pc[r] = "call", record_attempt(r)
        PROVE  attempts' \in [Requests -> [AttemptKeys -> Nat]]
    BY <1>3, <1>5 DEF record_attempt, TypeOK
  <1>6. ASSUME NEW r \in Requests, RecordRetry(r)
        PROVE  TypeOK'
    <2> DEFINE a == Row("retry_recorded", "RETRYABLE", attempt[r], TRUE)
    <2>0. pc[r] = "call"
      BY <1>6 DEF RecordRetry
    <2>1. a \in HistoryRow
      BY <1>3, <2>0 DEF Row, HistoryRow, HistoryEventType, JobStatus, ConnectorStatus
    <2>2. \/ /\ jobs' = [jobs EXCEPT ![job(r)] = retried(jobs[job(r)], attempt[r])]
             /\ history' = [history EXCEPT ![job(r)] = Append(history[job(r)], a)]
          \/ jobs' = jobs /\ history' = history
      BY <1>6 DEF RecordRetry
    <2>3. retried(jobs[job(r)], attempt[r]) \in JobRow
      BY <1>3, <2>0, RowUpdates
    <2>4. Append(history[job(r)], a) \in Seq(HistoryRow)
      BY <1>3, <2>0, <2>1, HistoryGrows
    <2>5. /\ jobs' \in [JobIds -> JobRow]
          /\ history' \in [JobIds -> Seq(HistoryRow)]
      <3> HIDE DEF a
      <3> QED BY <1>3, <2>0, <2>2, <2>3, <2>4, RowsUpdated
    <2>6. attempts' \in [Requests -> [AttemptKeys -> Nat]]
      BY <1>5, <1>6 DEF RecordRetry
    <2>7. attempt' \in [Requests -> 0..MaxAttempts]
      BY <1>3, <1>6 DEF TypeOK, RecordRetry, ShouldRetry
    <2> QED
      BY <1>6, <2>5, <2>6, <2>7 DEF TypeOK, RecordRetry
  <1>7. ASSUME NEW r \in Requests, pc[r] = "call",
               NEW s \in ConnectorStatus, NEW re \in BOOLEAN, NEW e \in BOOLEAN,
               NEW last \in {"job_completed", "job_failed"},
               EndJob(r, s, re, e, last)
        PROVE  /\ jobs' \in [JobIds -> JobRow]
               /\ history' \in [JobIds -> Seq(HistoryRow)]
    <2> DEFINE a == Row("connector_result", s, attempt[r], re)
               b == Row(last, s, attempt[r], re)
    <2>1. a \in HistoryRow /\ b \in HistoryRow
      BY <1>3, <1>7 DEF Row, HistoryRow, HistoryEventType, JobStatus
    <2>2. \/ /\ jobs' = [jobs EXCEPT ![job(r)] =
                             ended(jobs[job(r)], attempt[r], s, re, e)]
             /\ history' = [history EXCEPT ![job(r)] = history[job(r)] \o <<a, b>>]
          \/ jobs' = jobs /\ history' = history
      BY <1>7 DEF EndJob
    <2>3. ended(jobs[job(r)], attempt[r], s, re, e) \in JobRow
      BY <1>3, <1>7, RowUpdates
    <2>4. history[job(r)] \o <<a, b>> \in Seq(HistoryRow)
      BY <1>3, <1>7, <2>1, HistoryGrows
    <2> HIDE DEF a, b
    <2> QED BY <1>3, <1>7, <2>2, <2>3, <2>4, RowsUpdated
  <1>8. ASSUME NEW r \in Requests, pc[r] = "call"
        PROVE  Answer(r) \in {"fatal", "transient", "SKIPPED", "SUCCESS"}
    BY <1>3, <1>8, InvokeType DEF Answer, LoopInv, InLoop
  <1>9. ASSUME NEW r \in Requests, Fail(r)
        PROVE  TypeOK'
    <2>1. FailedStatus(Answer(r)) \in ConnectorStatus
      BY DEF FailedStatus, ConnectorStatus
    <2>2. jobs' \in [JobIds -> JobRow] /\ history' \in [JobIds -> Seq(HistoryRow)]
      BY <1>7, <1>9, <2>1 DEF Fail
    <2>3. attempts' \in [Requests -> [AttemptKeys -> Nat]]
      BY <1>5, <1>9 DEF Fail
    <2> QED
      BY <1>9, <2>1, <2>2, <2>3 DEF TypeOK, Fail, AfterEnd
  <1>10. ASSUME NEW r \in Requests, Complete(r)
         PROVE  TypeOK'
    <2>1. Answer(r) \in ConnectorStatus
      BY <1>8, <1>10 DEF Complete, Raises, ConnectorStatus
    <2>2. jobs' \in [JobIds -> JobRow] /\ history' \in [JobIds -> Seq(HistoryRow)]
      BY <1>7, <1>10, <2>1 DEF Complete
    <2>3. attempts' \in [Requests -> [AttemptKeys -> Nat]]
      BY <1>5, <1>10 DEF Complete
    <2> QED
      BY <1>10, <2>1, <2>2, <2>3 DEF TypeOK, Complete, AfterEnd
  <1>11. ASSUME NEW r \in Requests, PublishJobEvents(r) \/ PublishAndReturn(r)
         PROVE  TypeOK'
    BY <1>11 DEF TypeOK, PublishJobEvents, PublishAndReturn, rows
  <1> QED
    BY StepCases, <1>0, <1>1, <1>2, <1>4, <1>6, <1>9, <1>10, <1>11

-----------------------------------------------------------------------------
(* What LoopInv says of one thread, so that a step of another keeps it. *)
LoopInvOf(r) ==
    /\ InLoop(r) =>
         /\ call[r] \in Calls /\ Registered(call[r])
         /\ calls[r] >= 1 /\ attempt[r] >= 1
         /\ result[r] = "none"
         /\ Recorded(call[r]) =>
              attempts[r][KeyOf(call[r])] >= attempt[r] - 1
         /\ attempt[r] > 1 =>
              /\ Recorded(call[r])
              /\ \/ attempts[r][KeyOf(call[r])] <= Failures[ConnectorOf(call[r])]
                 \/ Mode[ConnectorOf(call[r])] \in TransientModes
    /\ result[r] \in ConnectorStatus =>
         call[r] \in Calls /\ Registered(call[r])

OutcomeOf(r) ==
    result[r] \in ConnectorStatus =>
        [status |-> result[r], attempts |-> attempt[r]]
            = Outcome(call[r], RecordedBefore(r))

(* A step of thread r leaves the control state of every other thread alone. *)
LEMMA OthersUntouched ==
    ASSUME TypeOK, NEW r \in Requests, NEW q \in Requests, q # r,
           \/ \E c \in Workload[r] : UnknownConnector(r, c) \/ Begin(r, c)
           \/ StartAttempt(r) \/ RecordRetry(r) \/ Fail(r) \/ Complete(r)
           \/ PublishJobEvents(r) \/ PublishAndReturn(r)
    PROVE  /\ pc'[q] = pc[q] /\ calls'[q] = calls[q] /\ call'[q] = call[q]
           /\ attempt'[q] = attempt[q] /\ result'[q] = result[q]
           /\ attempts'[q] = attempts[q]
  <1> DEFINE Same == /\ pc'[q] = pc[q] /\ calls'[q] = calls[q]
                     /\ call'[q] = call[q] /\ attempt'[q] = attempt[q]
                     /\ result'[q] = result[q] /\ attempts'[q] = attempts[q]
  <1>1. ASSUME NEW c \in Workload[r], UnknownConnector(r, c) PROVE Same
    BY <1>1 DEF UnknownConnector, TypeOK
  <1>2. ASSUME NEW c \in Workload[r], Begin(r, c) PROVE Same
    BY <1>2 DEF Begin, TypeOK
  <1>3. CASE StartAttempt(r)
    BY <1>3 DEF StartAttempt, TypeOK
  <1>4. CASE RecordRetry(r)
    BY <1>4 DEF RecordRetry, record_attempt, TypeOK
  <1>5. CASE Fail(r)
    BY <1>5 DEF Fail, record_attempt, TypeOK
  <1>6. CASE Complete(r)
    BY <1>6 DEF Complete, record_attempt, TypeOK
  <1>7. CASE PublishJobEvents(r) \/ PublishAndReturn(r)
    BY <1>7 DEF PublishJobEvents, PublishAndReturn, TypeOK
  <1> QED
    BY <1>1, <1>2, <1>3, <1>4, <1>5, <1>6, <1>7

(* The thread that steps keeps both invariants. *)
LEMMA OwnStep ==
    ASSUME TypeOK, NEW r \in Requests, LoopInvOf(r), OutcomeOf(r),
           \/ \E c \in Workload[r] : UnknownConnector(r, c) \/ Begin(r, c)
           \/ StartAttempt(r) \/ RecordRetry(r) \/ Fail(r) \/ Complete(r)
           \/ PublishJobEvents(r) \/ PublishAndReturn(r)
    PROVE  LoopInvOf(r)' /\ OutcomeOf(r)'
  <1> USE OrchestratorAssumption, ConnectorsAssumption
  <1>1. ASSUME NEW c \in Workload[r], UnknownConnector(r, c)
        PROVE  LoopInvOf(r)' /\ OutcomeOf(r)'
    BY <1>1 DEF UnknownConnector, TypeOK, LoopInvOf, OutcomeOf, InLoop, ConnectorStatus
  <1>2. ASSUME NEW c \in Workload[r], Begin(r, c)
        PROVE  LoopInvOf(r)' /\ OutcomeOf(r)'
    <2>1. /\ pc'[r] = "attempt" /\ call'[r] = c /\ calls'[r] = calls[r] + 1
          /\ attempt'[r] = 1 /\ result'[r] = "none" /\ attempts' = attempts
          /\ Registered(c) /\ c \in Calls
      BY <1>2 DEF Begin, TypeOK
    <2>2. attempts[r][KeyOf(c)] \in Nat
      BY <2>1, RegisteredCall DEF TypeOK
    <2> QED
      BY <2>1, <2>2 DEF LoopInvOf, OutcomeOf, InLoop, TypeOK, ConnectorStatus
  <1>3. CASE StartAttempt(r)
    <2>1. /\ pc[r] = "attempt" /\ pc'[r] = "call"
          /\ UNCHANGED <<attempts, calls, call, attempt, result>>
      BY <1>3 DEF StartAttempt, TypeOK
    <2> QED
      BY <2>1 DEF LoopInvOf, OutcomeOf, RecordedBefore, InLoop, ConnectorStatus
  <1>4. CASE PublishJobEvents(r) \/ PublishAndReturn(r)
    <2>1. /\ pc'[r] \in {"publish", "idle"}
          /\ UNCHANGED <<attempts, calls, call, attempt, result>>
      BY <1>4 DEF PublishJobEvents, PublishAndReturn, TypeOK
    <2> QED
      BY <2>1 DEF LoopInvOf, OutcomeOf, RecordedBefore, InLoop, ConnectorStatus
  <1>5. CASE pc[r] = "call" /\ (RecordRetry(r) \/ Fail(r) \/ Complete(r))
    <2> DEFINE c == call[r]
               n == attempts[r][KeyOf(call[r])]
               k == attempt[r]
    <2>1. /\ c \in Calls /\ Registered(c) /\ KeyOf(c) \in AttemptKeys
          /\ n \in Nat /\ k \in 1..MaxAttempts
          /\ Recorded(c) => n >= k - 1
          /\ k > 1 => /\ Recorded(c)
                      /\ \/ n <= Failures[ConnectorOf(c)]
                         \/ Mode[ConnectorOf(c)] \in TransientModes
      BY <1>5, RegisteredCall DEF LoopInvOf, InLoop, TypeOK
    <2>2. /\ calls' = calls /\ call' = call
          /\ attempts'[r][KeyOf(c)] = IF Recorded(c) THEN n + 1 ELSE n
      <3>1. record_attempt(r) /\ calls' = calls /\ call' = call
        BY <1>5 DEF RecordRetry, Fail, Complete
      <3> QED BY <2>1, <3>1 DEF record_attempt, TypeOK
    <2>3. CASE RecordRetry(r)
      <3>1. /\ pc'[r] = "attempt" /\ attempt'[r] = k + 1 /\ result'[r] = result[r]
            /\ Invoke(c, n) = "transient"
        BY <2>3 DEF RecordRetry, ShouldRetry, Answer, TypeOK
      <3>2. /\ Recorded(c)
            /\ \/ n + 1 <= Failures[ConnectorOf(c)]
               \/ Mode[ConnectorOf(c)] \in TransientModes
        BY <2>1, <3>1, TransientIsRecorded
      <3>3. result[r] = "none" /\ calls[r] >= 1
        BY <1>5 DEF LoopInvOf, InLoop
      <3> HIDE DEF n, k
      <3> QED
        BY <2>1, <2>2, <3>1, <3>2, <3>3
           DEF LoopInvOf, OutcomeOf, InLoop, ConnectorStatus
    <2>4. CASE Fail(r) \/ Complete(r)
      <3>1. /\ pc'[r] \in {"publish_job", "publish"} /\ attempt'[r] = k
            /\ ~ShouldRetry(Invoke(c, n), k)
            /\ result'[r] = IF Raises(Invoke(c, n))
                              THEN FailedStatus(Invoke(c, n)) ELSE Invoke(c, n)
        BY <2>4 DEF Fail, Complete, AfterEnd, Answer, TypeOK, ShouldRetry, Raises
      <3>2. [status |-> result'[r], attempts |-> k]
              = Outcome(c, IF Recorded(c) THEN n - (k - 1) ELSE n)
        <4> HIDE DEF c, n, k
        <4> QED BY <2>1, <3>1, LastAnswerIsOutcome
      <3>3. RecordedBefore(r)' = IF Recorded(c) THEN n - (k - 1) ELSE n
        BY <2>1, <2>2, <3>1 DEF RecordedBefore
      <3> QED
        BY <2>1, <2>2, <3>1, <3>2, <3>3 DEF LoopInvOf, OutcomeOf, InLoop
    <2> QED
      BY <1>5, <2>3, <2>4
  <1> QED
    BY <1>1, <1>2, <1>3, <1>4, <1>5 DEF RecordRetry, Fail, Complete

LEMMA OutcomeStep ==
    TypeOK /\ LoopInv /\ LoopComputesOutcome /\ [Next]_vars
        => LoopInv' /\ LoopComputesOutcome'
  <1> SUFFICES ASSUME TypeOK, LoopInv, LoopComputesOutcome, [Next]_vars
               PROVE  \A q \in Requests : LoopInvOf(q)' /\ OutcomeOf(q)'
    BY DEF LoopInv, LoopInvOf, LoopComputesOutcome, OutcomeOf
  <1>1. \A q \in Requests : LoopInvOf(q) /\ OutcomeOf(q)
    BY DEF LoopInv, LoopInvOf, LoopComputesOutcome, OutcomeOf
  <1>2. CASE UNCHANGED vars
    BY <1>1, <1>2 DEF vars, LoopInvOf, OutcomeOf, InLoop, RecordedBefore
  <1>3. ASSUME NEW r \in Requests, NEW q \in Requests,
               \/ \E c \in Workload[r] : UnknownConnector(r, c) \/ Begin(r, c)
               \/ StartAttempt(r) \/ RecordRetry(r) \/ Fail(r) \/ Complete(r)
               \/ PublishJobEvents(r) \/ PublishAndReturn(r)
        PROVE  LoopInvOf(q)' /\ OutcomeOf(q)'
    <2>1. CASE q = r
      BY <1>1, <1>3, <2>1, OwnStep
    <2>2. CASE q # r
      <3>1. /\ pc'[q] = pc[q] /\ calls'[q] = calls[q] /\ call'[q] = call[q]
            /\ attempt'[q] = attempt[q] /\ result'[q] = result[q]
            /\ attempts'[q] = attempts[q]
        BY <1>3, <2>2, OthersUntouched
      <3> QED
        BY <1>1, <3>1 DEF LoopInvOf, OutcomeOf, InLoop, RecordedBefore
    <2> QED BY <2>1, <2>2
  <1> QED
    BY StepCases, <1>2, <1>3

LEMMA ControlInvariant == Spec => [](TypeOK /\ LoopInv /\ LoopComputesOutcome)
  <1>1. Init => TypeOK /\ LoopInv /\ LoopComputesOutcome
    BY TypeInit DEF Init, LoopComputesOutcome, ConnectorStatus
  <1>2. TypeOK /\ LoopInv /\ LoopComputesOutcome /\ [Next]_vars
          => (TypeOK /\ LoopInv /\ LoopComputesOutcome)'
    BY TypeStep, OutcomeStep
  <1> QED
    BY <1>1, <1>2, PTL DEF Spec

(***************************************************************************)
(* Every state of every behaviour has the types the code relies on.        *)
(***************************************************************************)
THEOREM TypeCorrect == Spec => []TypeOK
  BY ControlInvariant, PTL

(***************************************************************************)
(* For every set of connectors, every configuration of them and every      *)
(* interleaving of request threads, execute() ends with the status and     *)
(* after the number of attempts given by the closed-form Outcome.          *)
(***************************************************************************)
THEOREM RetryLoopCorrect == Spec => []LoopComputesOutcome
  BY ControlInvariant, PTL

-----------------------------------------------------------------------------
(* A step of thread r writes no row but that of its current execution. *)
LEMMA RowWritten ==
    ASSUME TypeOK, LoopInv, NEW r \in Requests,
           \/ \E c \in Workload[r] : UnknownConnector(r, c) \/ Begin(r, c)
           \/ StartAttempt(r) \/ RecordRetry(r) \/ Fail(r) \/ Complete(r)
           \/ PublishJobEvents(r) \/ PublishAndReturn(r)
    PROVE  \A j \in JobIds : j # <<r, calls'[r]>> => jobs'[j] = jobs[j]
  <1> SUFFICES ASSUME NEW j \in JobIds, j # <<r, calls'[r]>>
               PROVE  jobs'[j] = jobs[j]
    OBVIOUS
  <1>1. ASSUME NEW c \in Workload[r], UnknownConnector(r, c) PROVE jobs'[j] = jobs[j]
    BY <1>1 DEF UnknownConnector, rows
  <1>2. ASSUME NEW c \in Workload[r], Begin(r, c) PROVE jobs'[j] = jobs[j]
    <2>1. calls'[r] = calls[r] + 1
      BY <1>2 DEF Begin, TypeOK
    <2>2. PICK id : id = <<r, calls[r] + 1>>
      OBVIOUS
    <2>3. jobs' = [jobs EXCEPT ![id] = created] \/ jobs' = jobs
      BY <1>2, <2>2 DEF Begin
    <2> QED
      BY <2>1, <2>2, <2>3 DEF TypeOK
  <1>3. CASE StartAttempt(r)
    <2>1. calls' = calls /\ job(r) = <<r, calls[r]>>
      BY <1>3 DEF StartAttempt, job
    <2>2. \/ jobs' = [jobs EXCEPT ![job(r)] = started(jobs[job(r)], attempt[r])]
          \/ jobs' = jobs
      BY <1>3 DEF StartAttempt
    <2> QED
      BY <2>1, <2>2 DEF TypeOK
  <1>4. CASE RecordRetry(r)
    <2>1. calls' = calls /\ job(r) = <<r, calls[r]>>
      BY <1>4 DEF RecordRetry, job
    <2>2. \/ jobs' = [jobs EXCEPT ![job(r)] = retried(jobs[job(r)], attempt[r])]
          \/ jobs' = jobs
      BY <1>4 DEF RecordRetry
    <2> QED
      BY <2>1, <2>2 DEF TypeOK
  <1>5. CASE Fail(r) \/ Complete(r)
    <2>1. calls' = calls /\ job(r) = <<r, calls[r]>>
      BY <1>5 DEF Fail, Complete, job
    <2>2. \/ \E row : jobs' = [jobs EXCEPT ![job(r)] = row]
          \/ jobs' = jobs
      BY <1>5 DEF Fail, Complete, EndJob
    <2> QED
      BY <2>1, <2>2 DEF TypeOK
  <1>6. CASE PublishJobEvents(r) \/ PublishAndReturn(r)
    BY <1>6 DEF PublishJobEvents, PublishAndReturn, rows
  <1> QED
    BY <1>1, <1>2, <1>3, <1>4, <1>5, <1>6

RowInvOf(r) ==
    /\ \A k \in 1..MaxCalls[r] : k > calls[r] => jobs[<<r, k>>] = AbsentJob
    /\ InLoop(r) /\ call[r].db =>
         /\ \/ jobs[job(r)].status = "RUNNING"
            \/ pc[r] = "attempt" /\ jobs[job(r)].status = "PENDING"
         /\ jobs[job(r)].retry_count = attempt[r] - 1
         /\ jobs[job(r)].attempt_count =
              IF pc[r] = "attempt" THEN attempt[r] - 1 ELSE attempt[r]

(* What a step does to the row of its own execution. *)
LEMMA OwnRow ==
    ASSUME TypeOK, LoopInv, RowInv, NEW r \in Requests
    PROVE  /\ \A c \in Workload[r] : Begin(r, c) =>
                /\ calls'[r] = calls[r] + 1 /\ calls'[r] \in 1..MaxCalls[r]
                /\ pc'[r] = "attempt" /\ attempt'[r] = 1 /\ call'[r] = c
                /\ jobs[<<r, calls'[r]>>] = AbsentJob
                /\ jobs'[<<r, calls'[r]>>] = IF c.db THEN created ELSE AbsentJob
           /\ StartAttempt(r) =>
                /\ pc[r] = "attempt" /\ pc'[r] = "call"
                /\ UNCHANGED <<calls, call, attempt>>
                /\ jobs'[job(r)] = IF call[r].db
                                     THEN started(jobs[job(r)], attempt[r])
                                     ELSE jobs[job(r)]
           /\ RecordRetry(r) =>
                /\ pc[r] = "call" /\ pc'[r] = "attempt"
                /\ UNCHANGED <<calls, call>> /\ attempt'[r] = attempt[r] + 1
                /\ attempt[r] < MaxAttempts
                /\ jobs'[job(r)] = IF call[r].db
                                     THEN retried(jobs[job(r)], attempt[r])
                                     ELSE jobs[job(r)]
           /\ Fail(r) \/ Complete(r) =>
                /\ pc[r] = "call" /\ ~InLoop(r)'
                /\ UNCHANGED <<calls, call, attempt>>
                /\ result'[r] \in ConnectorStatus
                /\ result'[r] = "RETRYABLE" => attempt[r] = MaxAttempts
                /\ \E b, e \in BOOLEAN :
                     jobs'[job(r)] = IF call[r].db
                       THEN ended(jobs[job(r)], attempt[r], result'[r], b, e)
                       ELSE jobs[job(r)]
  <1> USE OrchestratorAssumption, ConnectorsAssumption
  <1>0. ASSUME InLoop(r)
        PROVE  /\ job(r) \in JobIds /\ attempt[r] \in 1..MaxAttempts
               /\ call[r] \in Calls /\ Registered(call[r])
               /\ call[r].db \in BOOLEAN
               /\ attempts[r][KeyOf(call[r])] \in Nat
    BY <1>0, RegisteredCall DEF TypeOK, LoopInv, job, JobIds
  <1>1. ASSUME NEW c \in Workload[r], Begin(r, c)
        PROVE  /\ calls'[r] = calls[r] + 1 /\ calls'[r] \in 1..MaxCalls[r]
               /\ pc'[r] = "attempt" /\ attempt'[r] = 1 /\ call'[r] = c
               /\ jobs[<<r, calls'[r]>>] = AbsentJob
               /\ jobs'[<<r, calls'[r]>>] = IF c.db THEN created ELSE AbsentJob
    <2>1. /\ calls'[r] = calls[r] + 1 /\ calls'[r] \in 1..MaxCalls[r]
          /\ pc'[r] = "attempt" /\ attempt'[r] = 1 /\ call'[r] = c
      BY <1>1 DEF Begin, TypeOK
    <2>2. PICK id \in JobIds : id = <<r, calls[r] + 1>>
      BY <2>1, JobIdsDiffer
    <2>3. jobs[id] = AbsentJob
      BY <2>1, <2>2 DEF RowInv, TypeOK
    <2>4. jobs' = IF c.db THEN [jobs EXCEPT ![id] = created] ELSE jobs
      BY <1>1, <2>2 DEF Begin
    <2> QED
      BY <2>1, <2>2, <2>3, <2>4 DEF TypeOK
  <1>2. ASSUME StartAttempt(r)
        PROVE  /\ pc[r] = "attempt" /\ pc'[r] = "call"
               /\ UNCHANGED <<calls, call, attempt>>
               /\ jobs'[job(r)] = IF call[r].db
                                    THEN started(jobs[job(r)], attempt[r])
                                    ELSE jobs[job(r)]
    <2>1. /\ pc[r] = "attempt" /\ pc'[r] = "call"
          /\ UNCHANGED <<calls, call, attempt>>
      BY <1>2 DEF StartAttempt, TypeOK
    <2>2. jobs' = IF call[r].db
                    THEN [jobs EXCEPT ![job(r)] = started(jobs[job(r)], attempt[r])]
                    ELSE jobs
      BY <1>2 DEF StartAttempt
    <2> QED
      BY <1>0, <2>1, <2>2 DEF TypeOK, InLoop
  <1>3. ASSUME RecordRetry(r)
        PROVE  /\ pc[r] = "call" /\ pc'[r] = "attempt"
               /\ UNCHANGED <<calls, call>> /\ attempt'[r] = attempt[r] + 1
               /\ attempt[r] < MaxAttempts
               /\ jobs'[job(r)] = IF call[r].db
                                    THEN retried(jobs[job(r)], attempt[r])
                                    ELSE jobs[job(r)]
    <2>1. /\ pc[r] = "call" /\ pc'[r] = "attempt"
          /\ UNCHANGED <<calls, call>> /\ attempt'[r] = attempt[r] + 1
          /\ attempt[r] < MaxAttempts
      BY <1>3 DEF RecordRetry, ShouldRetry, TypeOK
    <2>2. jobs' = IF call[r].db
                    THEN [jobs EXCEPT ![job(r)] = retried(jobs[job(r)], attempt[r])]
                    ELSE jobs
      BY <1>3 DEF RecordRetry
    <2> QED
      BY <1>0, <2>1, <2>2 DEF TypeOK, InLoop
  <1>4. ASSUME Fail(r) \/ Complete(r)
        PROVE  /\ pc[r] = "call" /\ ~InLoop(r)'
               /\ UNCHANGED <<calls, call, attempt>>
               /\ result'[r] \in ConnectorStatus
               /\ result'[r] = "RETRYABLE" => attempt[r] = MaxAttempts
               /\ \E b, e \in BOOLEAN :
                    jobs'[job(r)] = IF call[r].db
                      THEN ended(jobs[job(r)], attempt[r], result'[r], b, e)
                      ELSE jobs[job(r)]
    <2>0. pc[r] = "call" /\ InLoop(r)
      BY <1>4 DEF Fail, Complete, InLoop
    <2>1. Answer(r) \in {"fatal", "transient", "SKIPPED", "SUCCESS"}
      BY <1>0, <2>0, InvokeType DEF Answer
    <2>2. /\ ~InLoop(r)' /\ UNCHANGED <<calls, call, attempt>>
          /\ result'[r] = IF Raises(Answer(r)) THEN FailedStatus(Answer(r))
                                               ELSE Answer(r)
          /\ Answer(r) = "transient" => ~(attempt[r] < MaxAttempts)
      BY <1>4 DEF Fail, Complete, InLoop, AfterEnd, TypeOK, ShouldRetry, Raises
    <2>3. /\ result'[r] \in ConnectorStatus
          /\ result'[r] = "RETRYABLE" => attempt[r] = MaxAttempts
      BY <1>0, <2>0, <2>1, <2>2 DEF Raises, FailedStatus, ConnectorStatus
    <2>4. \E b, e \in BOOLEAN :
            jobs' = IF call[r].db
                      THEN [jobs EXCEPT ![job(r)] =
                              ended(jobs[job(r)], attempt[r], result'[r], b, e)]
                      ELSE jobs
      <3>1. CASE Fail(r)
        <4>1. EndJob(r, result'[r], Answer(r) = "transient", TRUE, "job_failed")
          BY <3>1 DEF Fail, TypeOK
        <4> QED BY <4>1 DEF EndJob
      <3>2. CASE Complete(r)
        <4>1. EndJob(r, result'[r], FALSE, FALSE, "job_completed")
          BY <3>2 DEF Complete, TypeOK
        <4> QED BY <4>1 DEF EndJob
      <3> QED BY <1>4, <3>1, <3>2
    <2> QED
      BY <1>0, <2>0, <2>2, <2>3, <2>4 DEF TypeOK
  <1> QED
    BY <1>1, <1>2, <1>3, <1>4

LEMMA StepNext ==
    ASSUME NEW r \in Requests,
           \/ \E c \in Workload[r] : UnknownConnector(r, c) \/ Begin(r, c)
           \/ StartAttempt(r) \/ RecordRetry(r) \/ Fail(r) \/ Complete(r)
           \/ PublishJobEvents(r) \/ PublishAndReturn(r)
    PROVE  [Next]_vars
  BY DEF Next, Execute, Step

LEMMA RowInit == Init => RowInv
  BY JobIdsDiffer DEF Init, RowInv, InLoop

(* The thread that steps keeps RowInv. *)
LEMMA OwnRowStep ==
    ASSUME TypeOK, LoopInv, RowInv, NEW r \in Requests,
           \/ \E c \in Workload[r] : UnknownConnector(r, c) \/ Begin(r, c)
           \/ StartAttempt(r) \/ RecordRetry(r) \/ Fail(r) \/ Complete(r)
           \/ PublishJobEvents(r) \/ PublishAndReturn(r)
    PROVE  RowInvOf(r)'
  <1> USE OrchestratorAssumption, ConnectorsAssumption
  <1>0. /\ RowInvOf(r) /\ calls[r] \in 0..MaxCalls[r]
        /\ InLoop(r) => /\ attempt[r] \in 1..MaxAttempts /\ calls[r] \in 1..MaxCalls[r]
                        /\ job(r) = <<r, calls[r]>>
                        /\ jobs[job(r)] \in JobRow
    <2>1. RowInvOf(r) /\ calls[r] \in 0..MaxCalls[r] /\ jobs \in [JobIds -> JobRow]
      <3>1. RowInvOf(r)
        BY Zenon DEF RowInv, RowInvOf
      <3>2. jobs \in [JobIds -> JobRow] /\ calls[r] \in Nat /\ calls[r] <= MaxCalls[r]
        BY DEF TypeOK
      <3>3. MaxCalls[r] \in Nat
        OBVIOUS
      <3> QED BY <3>1, <3>2, <3>3
    <2>2. ASSUME InLoop(r) PROVE attempt[r] \in 1..MaxAttempts /\ calls[r] \in 1..MaxCalls[r]
      BY <2>1, <2>2 DEF LoopInv, TypeOK
    <2>3. ASSUME InLoop(r) PROVE job(r) = <<r, calls[r]>> /\ job(r) \in JobIds
      BY <2>2, <2>3, JobIdsDiffer DEF job
    <2> QED BY <2>1, <2>2, <2>3
  <1>1. \A k \in 1..MaxCalls[r] :
           k > calls'[r] => jobs'[<<r, k>>] = jobs[<<r, k>>]
    <2> SUFFICES ASSUME NEW k \in 1..MaxCalls[r], k > calls'[r]
                 PROVE  jobs'[<<r, k>>] = jobs[<<r, k>>]
      OBVIOUS
    <2>1. PICK id \in JobIds : id = <<r, k>>
      BY JobIdsDiffer
    <2>2. calls'[r] \in Nat
      BY TypeStep, StepNext DEF TypeOK
    <2>3. id # <<r, calls'[r]>>
      BY <2>1, <2>2
    <2> QED
      BY <2>1, <2>3, RowWritten
  <1>2. calls'[r] >= calls[r]
    <2>1. calls' = calls \/ calls' = [calls EXCEPT ![r] = @ + 1]
      BY DEF UnknownConnector, Begin, StartAttempt, RecordRetry, Fail,
             Complete, PublishJobEvents, PublishAndReturn
    <2> QED
      BY <1>0, <2>1 DEF TypeOK
  <1>3. \A k \in 1..MaxCalls[r] : k > calls'[r] => jobs'[<<r, k>>] = AbsentJob
    <2>1. calls'[r] \in Nat
      BY TypeStep, StepNext DEF TypeOK
    <2> QED
      BY <1>0, <1>1, <1>2, <2>1 DEF RowInvOf
  <1>4. (InLoop(r) /\ call[r].db)' =>
          /\ \/ jobs'[job(r)'].status = "RUNNING"
             \/ pc'[r] = "attempt" /\ jobs'[job(r)'].status = "PENDING"
          /\ jobs'[job(r)'].retry_count = attempt'[r] - 1
          /\ jobs'[job(r)'].attempt_count =
               IF pc'[r] = "attempt" THEN attempt'[r] - 1 ELSE attempt'[r]
    <2> SUFFICES ASSUME InLoop(r)', call'[r].db
                 PROVE  LET row == jobs'[job(r)'] IN
                        /\ \/ row.status = "RUNNING"
                           \/ pc'[r] = "attempt" /\ row.status = "PENDING"
                        /\ row.retry_count = attempt'[r] - 1
                        /\ row.attempt_count =
                             IF pc'[r] = "attempt" THEN attempt'[r] - 1
                                                   ELSE attempt'[r]
      OBVIOUS
    <2>1. ASSUME NEW c \in Workload[r], UnknownConnector(r, c) PROVE FALSE
      BY <2>1 DEF UnknownConnector, InLoop
    <2>2. CASE PublishJobEvents(r) \/ PublishAndReturn(r)
      BY <2>2 DEF PublishJobEvents, PublishAndReturn, InLoop, TypeOK
    <2>3. CASE Fail(r) \/ Complete(r)
      BY <2>3, OwnRow
    <2>4. ASSUME NEW c \in Workload[r], Begin(r, c)
          PROVE  /\ jobs'[job(r)'] = created
                 /\ pc'[r] = "attempt" /\ attempt'[r] = 1
      BY <2>4, OwnRow DEF job
    <2>5. CASE StartAttempt(r)
      <3>1. /\ jobs'[job(r)'] = started(jobs[job(r)], attempt[r])
            /\ pc[r] = "attempt" /\ pc'[r] = "call" /\ attempt' = attempt
            /\ call' = call
        BY <2>5, OwnRow DEF job
      <3> QED
        BY <1>0, <3>1 DEF started, LargerOf, RowInvOf, InLoop, JobRow
    <2>6. CASE RecordRetry(r)
      <3>1. /\ jobs'[job(r)'] = retried(jobs[job(r)], attempt[r])
            /\ pc[r] = "call" /\ pc'[r] = "attempt" /\ attempt'[r] = attempt[r] + 1
            /\ call' = call
        BY <2>6, OwnRow DEF job
      <3> QED
        BY <1>0, <3>1 DEF retried, LargerOf, RowInvOf, InLoop, JobRow
    <2> QED
      BY <2>1, <2>2, <2>3, <2>4, <2>5, <2>6 DEF created
  <1> QED
    BY <1>3, <1>4 DEF RowInvOf

LEMMA RowStep == TypeOK /\ LoopInv /\ RowInv /\ [Next]_vars => RowInv'
  <1> SUFFICES ASSUME TypeOK, LoopInv, RowInv, [Next]_vars,
                      NEW q \in Requests
               PROVE  RowInvOf(q)'
    BY DEF RowInv, RowInvOf
  <1>1. RowInvOf(q)
    BY DEF RowInv, RowInvOf
  <1>2. CASE UNCHANGED vars
    BY <1>1, <1>2 DEF vars, RowInvOf, InLoop, job
  <1>3. ASSUME NEW r \in Requests,
               \/ \E c \in Workload[r] : UnknownConnector(r, c) \/ Begin(r, c)
               \/ StartAttempt(r) \/ RecordRetry(r) \/ Fail(r) \/ Complete(r)
               \/ PublishJobEvents(r) \/ PublishAndReturn(r)
        PROVE  RowInvOf(q)'
    <2>1. CASE q = r
      BY <1>3, <2>1, OwnRowStep
    <2>2. CASE q # r
      <3>1. /\ pc'[q] = pc[q] /\ calls'[q] = calls[q] /\ call'[q] = call[q]
            /\ attempt'[q] = attempt[q]
        BY <1>3, <2>2, OthersUntouched
      <3>2. \A k \in 1..MaxCalls[q] : jobs'[<<q, k>>] = jobs[<<q, k>>]
        <4> SUFFICES ASSUME NEW k \in 1..MaxCalls[q]
                     PROVE  jobs'[<<q, k>>] = jobs[<<q, k>>]
          OBVIOUS
        <4>1. PICK id \in JobIds : id = <<q, k>>
          BY JobIdsDiffer
        <4>2. id # <<r, calls'[r]>>
          BY <2>2, <4>1
        <4> QED
          BY <1>3, <4>1, <4>2, RowWritten
      <3>3. InLoop(q) => jobs'[job(q)] = jobs[job(q)]
        BY <3>2, OrchestratorAssumption DEF LoopInv, TypeOK, job
      <3> QED
        BY <1>1, <3>1, <3>2, <3>3 DEF RowInvOf, InLoop, job
    <2> QED BY <2>1, <2>2
  <1> QED
    BY StepCases, <1>2, <1>3

-----------------------------------------------------------------------------
(* Changing one row changes one entry of the abstract lifecycle. *)
LEMMA MappedUpdate ==
    ASSUME TypeOK, TypeOK', NEW id \in JobIds,
           \A j \in JobIds : j # id => jobs'[j] = jobs[j]
    PROVE  JobLifecycle' = [JobLifecycle EXCEPT ![id] =
              Lifecycle!Job(jobs'[id].status, jobs'[id].attempt_count,
                            jobs'[id].retry_count)]
  BY DEF JobLifecycle, Lifecycle!Job, TypeOK

(* Every step of a thread is a lifecycle step of one job, or none. *)
LEMMA Simulation ==
    TypeOK /\ LoopInv /\ RowInv /\ [Next]_vars /\ TypeOK'
        => [Lifecycle!Next]_JobLifecycle
  <1> SUFFICES ASSUME TypeOK, LoopInv, RowInv, [Next]_vars, TypeOK'
               PROVE  Lifecycle!Next \/ JobLifecycle' = JobLifecycle
    OBVIOUS
  <1>0. ASSUME jobs' = jobs PROVE JobLifecycle' = JobLifecycle
    BY <1>0 DEF JobLifecycle
  <1>1. ASSUME NEW id \in JobIds, jobs[id] = jobs'[id],
               \A j \in JobIds : j # id => jobs'[j] = jobs[j]
        PROVE  JobLifecycle' = JobLifecycle
    BY <1>1 DEF JobLifecycle
  <1>2. ASSUME NEW r \in Requests, NEW c \in Workload[r], Begin(r, c)
        PROVE  Lifecycle!Next \/ JobLifecycle' = JobLifecycle
    <2>1. /\ calls'[r] \in 1..MaxCalls[r]
          /\ jobs[<<r, calls'[r]>>] = AbsentJob
          /\ jobs'[<<r, calls'[r]>>] = IF c.db THEN created ELSE AbsentJob
      BY <1>2, OwnRow
    <2>2. PICK id \in JobIds : id = <<r, calls'[r]>>
      BY <2>1, JobIdsDiffer
    <2>3. \A j \in JobIds : j # id => jobs'[j] = jobs[j]
      BY <1>2, <2>2, RowWritten
    <2>4. CASE ~c.db
      BY <1>1, <2>1, <2>2, <2>3, <2>4
    <2>5. CASE c.db
      <3>1. Lifecycle!Create(id)
        <4>1. jobs[id] = AbsentJob /\ jobs'[id] = created
          BY <2>1, <2>2, <2>5
        <4>2. JobLifecycle[id].status = "ABSENT"
          BY <4>1 DEF JobLifecycle, AbsentJob
        <4>3. JobLifecycle' = [JobLifecycle EXCEPT ![id] =
                                 Lifecycle!Job("PENDING", 0, 0)]
          BY <2>3, <4>1, MappedUpdate DEF created
        <4> QED BY <4>2, <4>3 DEF Lifecycle!Create
      <3> QED BY <3>1 DEF Lifecycle!Next
    <2> QED BY <2>4, <2>5
  <1>3. ASSUME NEW r \in Requests,
               StartAttempt(r) \/ RecordRetry(r) \/ Fail(r) \/ Complete(r)
        PROVE  Lifecycle!Next \/ JobLifecycle' = JobLifecycle
    <2>1. InLoop(r) /\ calls' = calls
      BY <1>3, OwnRow DEF InLoop
    <2>2. PICK id \in JobIds : id = job(r)
      <3>1. calls[r] \in 1..MaxCalls[r]
        BY <2>1 DEF LoopInv, TypeOK
      <3> QED BY <3>1, JobIdsDiffer DEF job
    <2>3. \A j \in JobIds : j # id => jobs'[j] = jobs[j]
      BY <1>3, <2>1, <2>2, RowWritten DEF job
    <2>4. CASE ~call[r].db
      <3>1. jobs'[id] = jobs[id]
        BY <1>3, <2>2, <2>4, OwnRow
      <3> QED BY <1>1, <2>3, <3>1
    <2>5. CASE call[r].db
      <3>0. /\ \/ jobs[id].status = "RUNNING"
               \/ pc[r] = "attempt" /\ jobs[id].status = "PENDING"
            /\ jobs[id].retry_count = attempt[r] - 1
            /\ jobs[id].attempt_count =
                 IF pc[r] = "attempt" THEN attempt[r] - 1 ELSE attempt[r]
            /\ attempt[r] \in 1..MaxAttempts
            /\ jobs[id] \in JobRow
            /\ JobLifecycle[id] = [status |-> jobs[id].status,
                                   attempts |-> jobs[id].attempt_count,
                                   retries |-> jobs[id].retry_count]
        BY <2>1, <2>2, <2>5 DEF RowInv, LoopInv, TypeOK, JobLifecycle
      <3>1. CASE StartAttempt(r)
        <4>1. pc[r] = "attempt" /\ jobs'[id] = started(jobs[id], attempt[r])
          BY <2>2, <2>5, <3>1, OwnRow
        <4>2. Lifecycle!Attempt(id)
          BY <2>3, <3>0, <4>1, MappedUpdate, ConnectorsAssumption
             DEF Lifecycle!Attempt, Lifecycle!Job, started, LargerOf
        <4> QED BY <4>2 DEF Lifecycle!Next
      <3>2. CASE RecordRetry(r)
        <4>1. /\ pc[r] = "call" /\ jobs'[id] = retried(jobs[id], attempt[r])
              /\ attempt[r] < MaxAttempts
          BY <2>2, <2>5, <3>2, OwnRow
        <4>2. Lifecycle!Retry(id)
          BY <2>3, <3>0, <4>1, MappedUpdate, ConnectorsAssumption
             DEF Lifecycle!Retry, Lifecycle!Job, retried, LargerOf
        <4> QED BY <4>2 DEF Lifecycle!Next
      <3>3. CASE Fail(r) \/ Complete(r)
        <4>1. PICK b \in BOOLEAN, e \in BOOLEAN :
                /\ pc[r] = "call" /\ result'[r] \in ConnectorStatus
                /\ result'[r] = "RETRYABLE" => attempt[r] = MaxAttempts
                /\ jobs'[id] = ended(jobs[id], attempt[r], result'[r], b, e)
          BY <2>2, <2>5, <3>3, OwnRow
        <4>2. Lifecycle!Finish(id, result'[r])
          BY <2>3, <3>0, <4>1, MappedUpdate, ConnectorsAssumption
             DEF Lifecycle!Finish, Lifecycle!Job, ended, LargerOf
        <4> QED
          BY <4>1, <4>2 DEF Lifecycle!Next, Lifecycle!TerminalStatus, ConnectorStatus
      <3> QED BY <1>3, <3>1, <3>2, <3>3
    <2> QED BY <2>4, <2>5
  <1>4. ASSUME NEW r \in Requests, NEW c \in Workload[r], UnknownConnector(r, c)
        PROVE  jobs' = jobs
    BY <1>4 DEF UnknownConnector, rows
  <1>5. ASSUME NEW r \in Requests, PublishJobEvents(r) \/ PublishAndReturn(r)
        PROVE  jobs' = jobs
    BY <1>5 DEF PublishJobEvents, PublishAndReturn, rows
  <1>6. CASE UNCHANGED vars
    BY <1>0, <1>6 DEF vars
  <1> QED
    BY StepCases, <1>0, <1>2, <1>3, <1>4, <1>5, <1>6

(***************************************************************************)
(* ProvisioningOrchestrator implements ProvisioningJobs: seen through      *)
(* status, attempt_count and retry_count, a job row written by any         *)
(* interleaving of request threads is created once, attempted at most      *)
(* max_attempts times and ended once, RETRYABLE only after the last one.   *)
(***************************************************************************)
THEOREM JobsImplementLifecycle == Spec => JobsFollowLifecycle
  <1>1. Init => Lifecycle!Init
    BY DEF Init, Lifecycle!Init, Lifecycle!Job, JobLifecycle, AbsentJob
  <1>2. TypeOK /\ LoopInv /\ RowInv /\ [Next]_vars /\ TypeOK'
          => [Lifecycle!Next]_JobLifecycle
    BY Simulation
  <1>3. Spec => []RowInv
    <2>1. Spec => [](TypeOK /\ LoopInv /\ LoopComputesOutcome)
      BY ControlInvariant
    <2>2. Init => RowInv
      BY RowInit
    <2>3. TypeOK /\ LoopInv /\ RowInv /\ [Next]_vars => RowInv'
      BY RowStep
    <2> QED
      BY <2>1, <2>2, <2>3, PTL DEF Spec
  <1> QED
    BY <1>1, <1>2, <1>3, ControlInvariant, PTL
       DEF Spec, JobsFollowLifecycle, Lifecycle!Spec

-----------------------------------------------------------------------------
(***************************************************************************)
(* From here on: what the executions leave behind.  Counts and ranks are   *)
(* cardinalities of sets of positions; these lemmas say how they change    *)
(* when a sequence grows at its end, where every action writes.            *)
(***************************************************************************)
Count(h, type) == Cardinality(Rows(h, type))
Noted(log, action) == Cardinality(Entries(log, action))

AuditAction ==
    {"provisioning_job_created", "connector_invocation",
     "connector_retry_scheduled", "provisioning_retry_recorded",
     "connector_failure", "provisioning_job_failed", "connector_success",
     "connector_provisioning_completed", "provisioning_job_completed"}

AuditEntry == [action : AuditAction, result : {"succeeded", "denied"}]

LEMMA PlacesFinite ==
    ASSUME NEW n \in Nat, NEW S \in SUBSET (1..n)
    PROVE  IsFiniteSet(S) /\ \A k \in S : k \in Nat /\ 1 <= k /\ k <= n
  <1>1. IsFiniteSet(1..n) /\ S \subseteq 1..n
    BY FS_Interval
  <1>2. IsFiniteSet(S)
    BY <1>1, FS_Subset
  <1> QED
    BY <1>1, <1>2

LEMMA PlacesGrow ==
    ASSUME NEW n \in Nat, NEW S \in SUBSET (1..n)
    PROVE  /\ Cardinality(S) \in Nat
           /\ Cardinality(S \cup {n + 1}) = Cardinality(S) + 1
  <1>1. IsFiniteSet(S)
    BY PlacesFinite
  <1>2. n + 1 \notin S
    OBVIOUS
  <1> QED
    BY <1>1, <1>2, FS_CardinalityType, FS_AddElement

LEMMA CountGrows ==
    ASSUME NEW h \in Seq(HistoryRow), NEW a \in HistoryRow, NEW type
    PROVE  /\ Count(h, type) \in Nat
           /\ Count(Append(h, a), type)
                = IF a.event_type = type THEN Count(h, type) + 1 ELSE Count(h, type)
  <1>1. Rows(h, type) \in SUBSET (1..Len(h)) /\ Len(h) \in Nat
    BY DEF Rows
  <1>2. Rows(Append(h, a), type) = IF a.event_type = type
                                     THEN Rows(h, type) \cup {Len(h) + 1}
                                     ELSE Rows(h, type)
    BY DEF Rows
  <1> QED
    BY <1>1, <1>2, PlacesGrow DEF Count

LEMMA NotedGrows ==
    ASSUME NEW log \in Seq(AuditEntry), NEW a \in AuditEntry, NEW action
    PROVE  /\ Noted(log, action) \in Nat
           /\ Noted(Append(log, a), action)
                = IF a.action = action THEN Noted(log, action) + 1
                                       ELSE Noted(log, action)
  <1>1. Entries(log, action) \in SUBSET (1..Len(log)) /\ Len(log) \in Nat
    BY DEF Entries
  <1>2. Entries(Append(log, a), action) = IF a.action = action
                                            THEN Entries(log, action) \cup {Len(log) + 1}
                                            ELSE Entries(log, action)
    BY DEF Entries
  <1> QED
    BY <1>1, <1>2, PlacesGrow DEF Noted

LEMMA CountsOfNothing ==
    ASSUME NEW x
    PROVE  Count(<<>>, x) = 0 /\ Noted(<<>>, x) = 0
  <1>1. Rows(<<>>, x) = {} /\ Entries(<<>>, x) = {}
    BY DEF Rows, Entries
  <1> QED
    BY <1>1, FS_EmptySet DEF Count, Noted

(* Writing several entries is writing them one after the other. *)
LEMMA WrittenInTurn ==
    ASSUME NEW S, NEW s \in Seq(S), NEW a \in S, NEW b \in S, NEW c \in S
    PROVE  /\ s \o <<a, b>> = Append(Append(s, a), b)
           /\ s \o <<a, b, c>> = Append(Append(Append(s, a), b), c)
           /\ s \o <<a>> = Append(s, a)
  OBVIOUS

LEMMA LastOfAppend ==
    ASSUME NEW S, NEW s \in Seq(S), NEW a \in S
    PROVE  Last(Append(s, a)) = a /\ Append(s, a) # <<>> /\ Append(s, a) \in Seq(S)
  BY DEF Last

(* Ranks: the last place has the number of all, the others keep theirs. *)
LEMMA RankGrows ==
    ASSUME NEW n \in Nat, NEW S \in SUBSET (1..n)
    PROVE  /\ Rank(S \cup {n + 1}, n + 1) = Cardinality(S) + 1
           /\ \A i \in S : /\ Rank(S \cup {n + 1}, i) = Rank(S, i)
                           /\ Rank(S, i) \in 1..Cardinality(S)
  <1>1. Rank(S \cup {n + 1}, n + 1) = Cardinality(S) + 1
    <2>1. \A k \in S \cup {n + 1} : k <= n + 1
      BY PlacesFinite
    <2>2. {k \in S \cup {n + 1} : k <= n + 1} = S \cup {n + 1}
      BY <2>1
    <2> QED BY <2>2, PlacesGrow DEF Rank
  <1>2. ASSUME NEW i \in S
        PROVE  /\ Rank(S \cup {n + 1}, i) = Rank(S, i)
               /\ Rank(S, i) \in 1..Cardinality(S)
    <2>1. {k \in S \cup {n + 1} : k <= i} = {k \in S : k <= i}
      OBVIOUS
    <2>2. IsFiniteSet(S)
      BY PlacesFinite
    <2> DEFINE T == {k \in S : k <= i}
    <2>3. T \subseteq S /\ i \in T
      OBVIOUS
    <2>4. IsFiniteSet(T) /\ Cardinality(T) <= Cardinality(S)
      <3> HIDE DEF T
      <3> QED BY <2>2, <2>3, FS_Subset
    <2>5. Cardinality(T) \in Nat /\ Cardinality(T) # 0
      <3> HIDE DEF T
      <3> QED BY <2>3, <2>4, FS_EmptySet, FS_CardinalityType
    <2>6. Cardinality(T) \in 1..Cardinality(S)
      <3> HIDE DEF T
      <3>1. Cardinality(S) \in Nat
        BY <2>2, FS_CardinalityType
      <3> QED BY <2>4, <2>5, <3>1
    <2> QED
      BY <2>1, <2>6 DEF Rank
  <1> QED
    BY <1>1, <1>2

-----------------------------------------------------------------------------
(***************************************************************************)
(* What the row, the history and the audit log of one job say of each      *)
(* other.  RowStory adds to HistoryExplainsJob what keeps it: a row that   *)
(* is not completed has no terminal history row, exactly the statuses of a *)
(* connector end a job, and the n-th retry row is about attempt n.         *)
(***************************************************************************)
RetriesNumbered(h) ==
    \A i \in Rows(h, "retry_recorded") :
        h[i].attempt = Rank(Rows(h, "retry_recorded"), i)

StatusTold(h) ==
    IF h = <<>> THEN "ABSENT"
    ELSE IF Last(h).event_type \in {"connector_invocation", "retry_recorded"}
           THEN "RUNNING" ELSE Last(h).status

RowStory(row, h) ==
    /\ row.status = StatusTold(h)
    /\ row.attempt_count = Count(h, "connector_invocation")
    /\ row.retry_count = Count(h, "retry_recorded")
    /\ Count(h, "job_completed") + Count(h, "job_failed")
          = IF row.completed THEN 1 ELSE 0
    /\ row.last_error <=> /\ Count(h, "retry_recorded") + Count(h, "job_failed") > 0
                          /\ Count(h, "job_completed") = 0
    /\ row.completed => row.retryable = Last(h).retryable
    /\ row.completed <=> row.status \in ConnectorStatus

AuditStory(h, log) ==
    /\ Noted(log, "connector_invocation") = Count(h, "connector_invocation")
    /\ \A a \in {"connector_retry_scheduled", "provisioning_retry_recorded"} :
          Noted(log, a) = Count(h, "retry_recorded")
    /\ \A a \in {"connector_failure", "provisioning_job_failed"} :
          Noted(log, a) = Count(h, "job_failed")
    /\ \A a \in {"connector_success", "connector_provisioning_completed",
                  "provisioning_job_completed"} :
          Noted(log, a) = Count(h, "job_completed")

LEMMA NumberedGrows ==
    ASSUME NEW h \in Seq(HistoryRow), NEW a \in HistoryRow, RetriesNumbered(h),
           a.event_type = "retry_recorded" => a.attempt = Count(h, "retry_recorded") + 1
    PROVE  RetriesNumbered(Append(h, a))
  <1> DEFINE S == Rows(h, "retry_recorded")
             T == Rows(Append(h, a), "retry_recorded")
  <1>1. S \in SUBSET (1..Len(h)) /\ Len(h) \in Nat
    BY DEF Rows
  <1>2. T = IF a.event_type = "retry_recorded" THEN S \cup {Len(h) + 1} ELSE S
    BY DEF Rows
  <1>3. /\ \A i \in S : Append(h, a)[i] = h[i] /\ h[i].attempt = Rank(S, i)
        /\ Append(h, a)[Len(h) + 1] = a
    BY DEF Rows, RetriesNumbered
  <1>4. /\ Rank(S \cup {Len(h) + 1}, Len(h) + 1) = Cardinality(S) + 1
        /\ \A i \in S : Rank(S \cup {Len(h) + 1}, i) = Rank(S, i)
    <2> HIDE DEF S
    <2> QED BY <1>1, RankGrows
  <1>5. a.event_type = "retry_recorded" => a.attempt = Cardinality(S) + 1
    BY DEF Count
  <1>6. \A i \in T : Append(h, a)[i].attempt = Rank(T, i)
    <2> HIDE DEF S, T
    <2> QED BY <1>2, <1>3, <1>4, <1>5
  <1> QED
    BY <1>6 DEF RetriesNumbered

(* g has the rows of h, and one more of each type in S. *)
OneMoreOf(g, h, S) ==
    \A type : /\ Count(h, type) \in Nat
              /\ Count(g, type) = IF type \in S THEN Count(h, type) + 1
                                                ELSE Count(h, type)

Extended(g, h, a, b) ==
    /\ g \in Seq(HistoryRow) /\ g # <<>> /\ Last(g) = b
    /\ OneMoreOf(g, h, {a.event_type, b.event_type})

(* Two rows are appended, one after the other. *)
LEMMA TwoRows ==
    ASSUME NEW h \in Seq(HistoryRow), NEW a \in HistoryRow, NEW b \in HistoryRow,
           a.event_type # b.event_type,
           NEW f, f = Append(h, a), NEW g, g = Append(f, b)
    PROVE  f \in Seq(HistoryRow) /\ Extended(g, h, a, b)
  <1>2. f \in Seq(HistoryRow)
    BY LastOfAppend, Zenon
  <1>3. /\ Last(Append(f, b)) = b /\ Append(f, b) # <<>>
        /\ Append(f, b) \in Seq(HistoryRow)
    BY <1>2, LastOfAppend, Zenon
  <1>4. ASSUME NEW type
        PROVE  /\ Count(h, type) \in Nat
               /\ Count(g, type) = IF type \in {a.event_type, b.event_type}
                                     THEN Count(h, type) + 1 ELSE Count(h, type)
    <2>1. /\ Count(h, type) \in Nat
          /\ Count(f, type) = IF a.event_type = type THEN Count(h, type) + 1
                                                     ELSE Count(h, type)
      BY CountGrows
    <2>2. Count(g, type) = IF b.event_type = type THEN Count(f, type) + 1
                                                  ELSE Count(f, type)
      <3>1. ASSUME NEW x \in Seq(HistoryRow), x = f
            PROVE  Count(Append(x, b), type)
                     = IF b.event_type = type THEN Count(x, type) + 1 ELSE Count(x, type)
        BY CountGrows
      <3> QED BY <1>2, <3>1
    <2> QED BY <2>1, <2>2
  <1> QED
    BY <1>2, <1>3, <1>4 DEF OneMoreOf, Extended

LEMMA StoryOfNothing ==
    RowStory(AbsentJob, <<>>) /\ RetriesNumbered(<<>>)
  <1>1. RowStory(AbsentJob, <<>>)
    BY CountsOfNothing DEF RowStory, AbsentJob, StatusTold, ConnectorStatus
  <1>2. Rows(<<>>, "retry_recorded") = {}
    BY DEF Rows
  <1> QED
    BY <1>1, <1>2 DEF RetriesNumbered

(* create_job writes the first history row. *)
LEMMA StoryOfCreated ==
    ASSUME NEW a \in HistoryRow, a.event_type = "job_created", a.status = "PENDING",
           NEW h \in Seq(HistoryRow), h = <<>>, NEW g, g = Append(h, a)
    PROVE  /\ RowStory(created, g) /\ RetriesNumbered(g)
           /\ \A type : Count(g, type) = IF "job_created" = type THEN 1 ELSE 0
  <1>1. \A type : Count(g, type) = IF "job_created" = type THEN 1 ELSE 0
    <2> SUFFICES ASSUME NEW type
                 PROVE  Count(g, type) = IF "job_created" = type THEN 1 ELSE 0
      OBVIOUS
    <2>1. Count(Append(h, a), type)
            = IF a.event_type = type THEN Count(h, type) + 1 ELSE Count(h, type)
      BY CountGrows, ZenonT(30)
    <2>2. Count(h, type) = 0
      BY CountsOfNothing
    <2> QED BY <2>1, <2>2
  <1>2. Last(g) = a /\ g # <<>>
    BY LastOfAppend
  <1>3. RowStory(created, g)
    BY <1>1, <1>2 DEF RowStory, created, StatusTold, ConnectorStatus
  <1>4. RetriesNumbered(g)
    BY NumberedGrows, StoryOfNothing
  <1> QED
    BY <1>1, <1>3, <1>4

(* start_job and the invocation row. *)
LEMMA StoryOfStarted ==
    ASSUME NEW row \in JobRow, NEW h \in Seq(HistoryRow), NEW n \in Nat,
           RowStory(row, h), RetriesNumbered(h),
           row.status \in {"PENDING", "RUNNING"}, n = row.attempt_count + 1,
           NEW a \in HistoryRow, a.event_type = "job_started",
           NEW b \in HistoryRow, b.event_type = "connector_invocation",
           NEW f, f = Append(h, a), NEW g, g = Append(f, b)
    PROVE  /\ RowStory(started(row, n), g) /\ RetriesNumbered(g)
           /\ OneMoreOf(g, h, {"job_started", "connector_invocation"})
  <1>a. a.event_type # b.event_type
    OBVIOUS
  <1>0. f \in Seq(HistoryRow) /\ Extended(g, h, a, b)
    BY <1>a, TwoRows
  <1>b. g \in Seq(HistoryRow) /\ g # <<>> /\ Last(g) = b
    BY <1>0 DEF Extended
  <1>1. OneMoreOf(g, h, {"job_started", "connector_invocation"})
    BY <1>0 DEF Extended
  <1>3. RowStory(started(row, n), g)
    <2> DEFINE new == started(row, n)
    <2>1. /\ new.status = "RUNNING" /\ new.completed = row.completed
          /\ new.attempt_count = n /\ new.retry_count = row.retry_count
          /\ new.last_error = row.last_error
          /\ row.last_error \in BOOLEAN /\ row.completed \in BOOLEAN
      BY DEF started, LargerOf, JobRow, RowStory
    <2>2. ~row.completed /\ "RUNNING" \notin ConnectorStatus
      BY DEF RowStory, ConnectorStatus
    <2> HIDE DEF new
    <2>3. new.status = StatusTold(g)
      BY <1>b, <2>1 DEF StatusTold
    <2>4. /\ Count(g, "connector_invocation") = Count(h, "connector_invocation") + 1
          /\ Count(g, "retry_recorded") = Count(h, "retry_recorded")
          /\ Count(g, "job_completed") = Count(h, "job_completed")
          /\ Count(g, "job_failed") = Count(h, "job_failed")
          /\ Count(h, "retry_recorded") \in Nat /\ Count(h, "job_failed") \in Nat
      BY <1>1 DEF OneMoreOf
    <2>8. /\ new.attempt_count = Count(g, "connector_invocation")
          /\ new.retry_count = Count(g, "retry_recorded")
      BY <2>1, <2>2, <2>3, <2>4 DEF RowStory
    <2>9. Count(g, "job_completed") + Count(g, "job_failed")
            = IF new.completed THEN 1 ELSE 0
      BY <2>1, <2>2, <2>3, <2>4 DEF RowStory
    <2>10. new.last_error <=> /\ Count(g, "retry_recorded") + Count(g, "job_failed") > 0
                              /\ Count(g, "job_completed") = 0
      BY <2>1, <2>2, <2>3, <2>4 DEF RowStory
    <2>11. /\ new.completed => new.retryable = Last(g).retryable
           /\ new.completed <=> new.status \in ConnectorStatus
      BY <1>b, <2>1, <2>2, <2>3, <2>4 DEF RowStory
    <2> QED
      BY <2>3, <2>8, <2>9, <2>10, <2>11 DEF RowStory, new
  <1>4. RetriesNumbered(g)
    <2>1. RetriesNumbered(f)
      BY NumberedGrows
    <2> QED BY <1>0, <1>b, <2>1, NumberedGrows
  <1> QED
    BY <1>1, <1>3, <1>4

(* record_retry. *)
LEMMA StoryOfRetried ==
    ASSUME NEW row \in JobRow, NEW h \in Seq(HistoryRow), NEW n \in Nat,
           RowStory(row, h), RetriesNumbered(h),
           row.status = "RUNNING", n = row.attempt_count, n = row.retry_count + 1,
           NEW a \in HistoryRow, a.event_type = "retry_recorded", a.attempt = n,
           NEW g, g = Append(h, a)
    PROVE  /\ RowStory(retried(row, n), g) /\ RetriesNumbered(g)
           /\ OneMoreOf(g, h, {"retry_recorded"})
  <1>0. Last(g) = a /\ g # <<>>
    BY LastOfAppend
  <1>1. OneMoreOf(g, h, {"retry_recorded"})
    BY CountGrows DEF OneMoreOf
  <1>3. RowStory(retried(row, n), g)
    <2> DEFINE new == retried(row, n)
    <2>1. /\ new.status = "RUNNING" /\ new.completed = row.completed
          /\ new.attempt_count = row.attempt_count
          /\ new.retry_count = row.retry_count + 1 /\ new.last_error = TRUE
          /\ row.completed \in BOOLEAN
      BY DEF retried, LargerOf, JobRow
    <2>2. ~row.completed /\ "RUNNING" \notin ConnectorStatus
      BY DEF RowStory, ConnectorStatus
    <2>3. Count(h, "job_completed") = 0 /\ Count(h, "job_failed") = 0
      BY <1>1, <2>2 DEF RowStory, OneMoreOf
    <2> HIDE DEF new
    <2>5. new.status = StatusTold(g)
      BY <1>0, <2>1 DEF StatusTold
    <2>6. /\ Count(g, "retry_recorded") = Count(h, "retry_recorded") + 1
          /\ Count(g, "connector_invocation") = Count(h, "connector_invocation")
          /\ Count(g, "job_completed") = 0 /\ Count(g, "job_failed") = 0
          /\ Count(h, "retry_recorded") \in Nat
      BY <1>1, <2>3 DEF OneMoreOf
    <2>8. /\ new.attempt_count = Count(g, "connector_invocation")
          /\ new.retry_count = Count(g, "retry_recorded")
      BY <2>1, <2>2, <2>5, <2>6 DEF RowStory
    <2>9. Count(g, "job_completed") + Count(g, "job_failed")
            = IF new.completed THEN 1 ELSE 0
      BY <2>1, <2>2, <2>5, <2>6 DEF RowStory
    <2>10. new.last_error <=> /\ Count(g, "retry_recorded") + Count(g, "job_failed") > 0
                              /\ Count(g, "job_completed") = 0
      BY <2>1, <2>2, <2>5, <2>6 DEF RowStory
    <2>11. /\ new.completed => new.retryable = Last(g).retryable
           /\ new.completed <=> new.status \in ConnectorStatus
      BY <1>0, <2>1, <2>2, <2>5, <2>6 DEF RowStory
    <2> QED
      BY <2>5, <2>8, <2>9, <2>10, <2>11 DEF RowStory, new
  <1>4. RetriesNumbered(g)
    BY NumberedGrows DEF RowStory
  <1> QED
    BY <1>1, <1>3, <1>4

(* complete_job and fail_job. *)
LastType(error) == IF error THEN "job_failed" ELSE "job_completed"

EndedRows(g, h, last) == OneMoreOf(g, h, {"connector_result", last})

EndWrites(row, h, n, s, re, error, a, b, last, f, g) ==
    /\ row \in JobRow /\ h \in Seq(HistoryRow) /\ n \in Nat
    /\ RowStory(row, h) /\ RetriesNumbered(h)
    /\ row.status = "RUNNING" /\ n = row.attempt_count
    /\ s \in ConnectorStatus /\ re \in BOOLEAN /\ error \in BOOLEAN
    /\ a \in HistoryRow /\ a.event_type = "connector_result"
    /\ b \in HistoryRow /\ b.status = s /\ b.retryable = re
    /\ b.event_type = last /\ last = LastType(error)
    /\ f = Append(h, a) /\ g = Append(f, b)

LEMMA StoryOfEnded ==
    ASSUME NEW row, NEW h, NEW n, NEW s, NEW re, NEW error, NEW a, NEW b,
           NEW last, NEW f, NEW g,
           EndWrites(row, h, n, s, re, error, a, b, last, f, g)
    PROVE  /\ RowStory(ended(row, n, s, re, error), g) /\ RetriesNumbered(g)
           /\ EndedRows(g, h, last)
  <1> USE DEF EndWrites
  <1>a. a.event_type # b.event_type
    BY DEF LastType
  <1>0. f \in Seq(HistoryRow) /\ Extended(g, h, a, b)
    BY <1>a, TwoRows
  <1>b. g \in Seq(HistoryRow) /\ g # <<>> /\ Last(g) = b
    BY <1>0 DEF Extended
  <1>1. OneMoreOf(g, h, {"connector_result", last})
    BY <1>0 DEF Extended
  <1>3. RowStory(ended(row, n, s, re, error), g)
    <2> DEFINE new == ended(row, n, s, re, error)
    <2>1. /\ new.status = s /\ new.completed = TRUE /\ new.retryable = re
          /\ new.attempt_count = row.attempt_count
          /\ new.retry_count = row.retry_count
          /\ new.last_error = error
          /\ row.completed \in BOOLEAN
      BY DEF ended, LargerOf, JobRow
    <2>2. ~row.completed
      BY DEF RowStory, ConnectorStatus
    <2>3. Count(h, "job_completed") = 0 /\ Count(h, "job_failed") = 0
      BY <1>1, <2>2 DEF RowStory, OneMoreOf
    <2>6. IF error
            THEN Count(g, "job_completed") = 0 /\ Count(g, "job_failed") = 1
            ELSE Count(g, "job_completed") = 1 /\ Count(g, "job_failed") = 0
      BY <1>1, <2>3 DEF OneMoreOf, LastType
    <2>7. /\ Count(g, "connector_invocation") = Count(h, "connector_invocation")
          /\ Count(g, "retry_recorded") = Count(h, "retry_recorded")
          /\ Count(h, "retry_recorded") \in Nat
      BY <1>1 DEF OneMoreOf, LastType
    <2> HIDE DEF new
    <2>5. new.status = StatusTold(g)
      BY <1>b, <2>1 DEF StatusTold, LastType
    <2>8. /\ new.attempt_count = Count(g, "connector_invocation")
          /\ new.retry_count = Count(g, "retry_recorded")
      BY <1>b, <2>1, <2>5, <2>6, <2>7 DEF RowStory
    <2>9. Count(g, "job_completed") + Count(g, "job_failed")
            = IF new.completed THEN 1 ELSE 0
      BY <1>b, <2>1, <2>5, <2>6, <2>7 DEF RowStory
    <2>10. new.last_error <=> /\ Count(g, "retry_recorded") + Count(g, "job_failed") > 0
                              /\ Count(g, "job_completed") = 0
      BY <1>b, <2>1, <2>5, <2>6, <2>7 DEF RowStory
    <2>11. /\ new.completed => new.retryable = Last(g).retryable
           /\ new.completed <=> new.status \in ConnectorStatus
      BY <1>b, <2>1, <2>5, <2>6, <2>7 DEF RowStory
    <2> QED
      BY <2>5, <2>8, <2>9, <2>10, <2>11 DEF RowStory, new
  <1>4. RetriesNumbered(g)
    <2>1. RetriesNumbered(f)
      BY NumberedGrows
    <2> QED BY <1>0, <1>b, <2>1, NumberedGrows DEF LastType
  <1> QED
    BY <1>1, <1>3, <1>4 DEF EndedRows

-----------------------------------------------------------------------------
(* m has the entries of log, and one more of each action in S. *)
OneMoreNoted(m, log, S) ==
    /\ m \in Seq(AuditEntry) /\ m # <<>>
    /\ \A action : /\ Noted(log, action) \in Nat
                   /\ Noted(m, action) = IF action \in S THEN Noted(log, action) + 1
                                                         ELSE Noted(log, action)

LEMMA OneNoted ==
    ASSUME NEW log \in Seq(AuditEntry), NEW a \in AuditEntry,
           NEW m, m = Append(log, a)
    PROVE  OneMoreNoted(m, log, {a.action})
  <1>1. m \in Seq(AuditEntry) /\ m # <<>>
    BY LastOfAppend
  <1> QED
    BY <1>1, NotedGrows DEF OneMoreNoted

(* An entry of another kind is added. *)
LEMMA AnotherNoted ==
    ASSUME NEW log, NEW S, NEW k, OneMoreNoted(k, log, S),
           NEW b \in AuditEntry, b.action \notin S, NEW m, m = Append(k, b)
    PROVE  OneMoreNoted(m, log, S \cup {b.action})
  <1>0. k \in Seq(AuditEntry)
    BY DEF OneMoreNoted
  <1>1. OneMoreNoted(m, k, {b.action})
    BY <1>0, OneNoted
  <1> QED
    BY <1>1 DEF OneMoreNoted

LEMMA TwoNoted ==
    ASSUME NEW log \in Seq(AuditEntry), NEW a \in AuditEntry, NEW b \in AuditEntry,
           a.action # b.action, NEW m, m = log \o <<a, b>>
    PROVE  OneMoreNoted(m, log, {a.action, b.action})
  <1>1. PICK k : k = Append(log, a)
    OBVIOUS
  <1>2. m = Append(k, b)
    BY <1>1
  <1>3. OneMoreNoted(k, log, {a.action})
    BY <1>1, OneNoted
  <1>4. OneMoreNoted(m, log, {a.action} \cup {b.action})
    BY <1>2, <1>3, AnotherNoted
  <1>5. {a.action} \cup {b.action} = {a.action, b.action}
    OBVIOUS
  <1> QED
    BY <1>4, <1>5

LEMMA ThreeNoted ==
    ASSUME NEW log \in Seq(AuditEntry), NEW a \in AuditEntry, NEW b \in AuditEntry,
           NEW c \in AuditEntry, a.action # b.action, c.action \notin {a.action, b.action},
           NEW m, m = log \o <<a, b, c>>
    PROVE  OneMoreNoted(m, log, {a.action, b.action, c.action})
  <1>1. PICK k : k = log \o <<a, b>>
    OBVIOUS
  <1>2. m = Append(k, c)
    BY <1>1
  <1>3. OneMoreNoted(k, log, {a.action, b.action})
    BY <1>1, TwoNoted
  <1>4. OneMoreNoted(m, log, {a.action, b.action} \cup {c.action})
    BY <1>2, <1>3, AnotherNoted
  <1>5. {a.action, b.action} \cup {c.action} = {a.action, b.action, c.action}
    OBVIOUS
  <1> QED
    BY <1>4, <1>5

(* The entries of a step are those of the rows it writes. *)
LEMMA AuditStoryGrows ==
    ASSUME NEW h, NEW log, NEW g, NEW m, NEW S, NEW R, AuditStory(h, log),
           OneMoreOf(g, h, S), OneMoreNoted(m, log, R),
           \/ /\ S = {"job_started", "connector_invocation"}
              /\ R = {"connector_invocation"}
           \/ /\ S = {"retry_recorded"}
              /\ R = {"connector_retry_scheduled", "provisioning_retry_recorded"}
           \/ /\ S = {"connector_result", "job_failed"}
              /\ R = {"connector_failure", "provisioning_job_failed"}
           \/ /\ S = {"connector_result", "job_completed"}
              /\ R = {"connector_success", "connector_provisioning_completed",
                      "provisioning_job_completed"}
    PROVE  AuditStory(g, m)
  <1>1. Noted(m, "connector_invocation") = Count(g, "connector_invocation")
    BY DEF OneMoreOf, OneMoreNoted, AuditStory
  <1>2. ASSUME NEW a \in {"connector_retry_scheduled", "provisioning_retry_recorded"}
        PROVE  Noted(m, a) = Count(g, "retry_recorded")
    BY DEF OneMoreOf, OneMoreNoted, AuditStory
  <1>3. ASSUME NEW a \in {"connector_failure", "provisioning_job_failed"}
        PROVE  Noted(m, a) = Count(g, "job_failed")
    BY DEF OneMoreOf, OneMoreNoted, AuditStory
  <1>4. ASSUME NEW a \in {"connector_success", "connector_provisioning_completed",
                          "provisioning_job_completed"}
        PROVE  Noted(m, a) = Count(g, "job_completed")
    BY DEF OneMoreOf, OneMoreNoted, AuditStory
  <1> QED
    BY <1>1, <1>2, <1>3, <1>4 DEF AuditStory

(* The entry of create_job belongs to no row the story counts. *)
LEMMA AuditStoryCreated ==
    ASSUME NEW g, NEW a \in AuditEntry, a.action = "provisioning_job_created",
           \A type : Count(g, type) = IF "job_created" = type THEN 1 ELSE 0,
           NEW log \in Seq(AuditEntry), log = <<>>, NEW m, m = Append(log, a)
    PROVE  AuditStory(g, m) /\ m # <<>> /\ m \in Seq(AuditEntry)
  <1>1. OneMoreNoted(m, log, {a.action})
    BY OneNoted
  <1>2. \A action : Noted(log, action) = 0
    BY CountsOfNothing
  <1>3. \A action : action # "provisioning_job_created" => Noted(m, action) = 0
    BY <1>1, <1>2 DEF OneMoreNoted
  <1> QED
    BY <1>1, <1>3 DEF AuditStory, OneMoreNoted

-----------------------------------------------------------------------------
(***************************************************************************)
(* The inductive invariant of the records: every job's row, history and    *)
(* audit entries tell one story, jobs to come have none, and the running   *)
(* execution has audit entries exactly when it is an audited one.          *)
(***************************************************************************)
StoryOf(j) ==
    /\ RowStory(jobs[j], history[j])
    /\ RetriesNumbered(history[j])
    /\ audit[j] # <<>> => AuditStory(history[j], audit[j])

Unwritten(r) ==
    \A k \in 1..MaxCalls[r] : k > calls[r] =>
        history[<<r, k>>] = <<>> /\ audit[<<r, k>>] = <<>>

AuditRuns(r) == InLoop(r) => (audit[job(r)] # <<>> <=> Audited(call[r]))

StoryInv ==
    /\ audit \in [JobIds -> Seq(AuditEntry)]
    /\ \A j \in JobIds : StoryOf(j)
    /\ \A r \in Requests : Unwritten(r) /\ AuditRuns(r)

LEMMA StoryInit == Init => StoryInv
  <1> SUFFICES ASSUME Init PROVE StoryInv
    OBVIOUS
  <1>0. \A S : <<>> \in Seq(S)
    OBVIOUS
  <1>1. audit \in [JobIds -> Seq(AuditEntry)]
    BY <1>0 DEF Init
  <1>2. \A j \in JobIds : jobs[j] = AbsentJob /\ history[j] = <<>> /\ audit[j] = <<>>
    BY DEF Init
  <1>3. \A j \in JobIds : StoryOf(j)
    BY <1>2, StoryOfNothing DEF StoryOf
  <1>4. ASSUME NEW r \in Requests, NEW k \in 1..MaxCalls[r]
        PROVE  history[<<r, k>>] = <<>> /\ audit[<<r, k>>] = <<>>
    BY <1>2, JobIdsDiffer
  <1>5. \A r \in Requests : Unwritten(r) /\ AuditRuns(r)
    BY <1>4 DEF Unwritten, AuditRuns, InLoop, Init
  <1> QED
    BY <1>1, <1>3, <1>5 DEF StoryInv

(* What the audited steps append, and where. *)
LEMMA AuditWritten ==
    ASSUME audit \in [JobIds -> Seq(AuditEntry)], NEW r \in Requests,
           job(r) \in JobIds, NEW entries \in Seq(AuditEntry),
           RecordAudit(r, entries)
    PROVE  /\ audit' \in [JobIds -> Seq(AuditEntry)]
           /\ audit'[job(r)] = IF Audited(call[r]) THEN audit[job(r)] \o entries
                                                   ELSE audit[job(r)]
           /\ \A j \in JobIds : j # job(r) => audit'[j] = audit[j]
  <1>1. audit[job(r)] \o entries \in Seq(AuditEntry)
    OBVIOUS
  <1> QED
    BY <1>1 DEF RecordAudit

(* A step inside the loop, with the records of its job before and after. *)
LEMMA JobOfLoop ==
    ASSUME TypeOK, LoopInv, NEW r \in Requests, InLoop(r)
    PROVE  /\ job(r) \in JobIds /\ job(r) = <<r, calls[r]>>
           /\ calls[r] \in 1..MaxCalls[r] /\ attempt[r] \in 1..MaxAttempts
           /\ jobs[job(r)] \in JobRow /\ history[job(r)] \in Seq(HistoryRow)
           /\ call[r] \in Calls /\ Registered(call[r])
           /\ call[r].db \in BOOLEAN /\ call[r].audited \in BOOLEAN
  <1>1. calls[r] \in 1..MaxCalls[r]
    BY OrchestratorAssumption DEF TypeOK, LoopInv
  <1>2. job(r) \in JobIds /\ job(r) = <<r, calls[r]>>
    BY <1>1, JobIdsDiffer DEF job
  <1> QED
    BY <1>1, <1>2, RegisteredCall, ConnectorsAssumption DEF TypeOK, LoopInv

(***************************************************************************)
(* A step of r that writes the records of its own execution and keeps      *)
(* their story keeps the invariant, when it is the only job it writes.     *)
(***************************************************************************)
LEMMA StoryKept ==
    ASSUME TypeOK, StoryInv, NEW r \in Requests,
           NEW n \in 1..MaxCalls[r], n = calls'[r], n >= calls[r],
           \A q \in Requests : q # r =>
              /\ pc'[q] = pc[q] /\ calls'[q] = calls[q] /\ call'[q] = call[q],
           \A q \in Requests : q # r /\ InLoop(q) => job(q) \in JobIds,
           audit' \in [JobIds -> Seq(AuditEntry)],
           \A j \in JobIds : j # <<r, n>> =>
              jobs'[j] = jobs[j] /\ history'[j] = history[j] /\ audit'[j] = audit[j],
           StoryOf(<<r, n>>)', AuditRuns(r)'
    PROVE  StoryInv'
  <1>0. \A q \in Requests : Unwritten(q) /\ AuditRuns(q)
    BY DEF StoryInv
  <1>1. ASSUME NEW j \in JobIds
        PROVE  StoryOf(j)'
    <2>1. CASE j = <<r, n>>
      BY <2>1
    <2>2. CASE j # <<r, n>>
      BY <2>2 DEF StoryInv, StoryOf
    <2> QED BY <2>1, <2>2
  <1>2. ASSUME NEW q \in Requests
        PROVE  Unwritten(q)'
    <2> SUFFICES ASSUME NEW k \in 1..MaxCalls[q], k > calls'[q]
                 PROVE  history'[<<q, k>>] = <<>> /\ audit'[<<q, k>>] = <<>>
      BY DEF Unwritten
    <2>1. <<q, k>> \in JobIds /\ <<q, k>> # <<r, n>>
      BY JobIdsDiffer
    <2>2. k > calls[q]
      <3>0. k \in Int /\ calls[q] \in Nat
        BY OrchestratorAssumption DEF TypeOK
      <3>1. CASE q = r
        BY <3>0, <3>1
      <3>2. CASE q # r
        BY <3>0, <3>2
      <3> QED BY <3>1, <3>2
    <2>3. history[<<q, k>>] = <<>> /\ audit[<<q, k>>] = <<>>
      BY <1>0, <2>2 DEF Unwritten
    <2> QED BY <2>1, <2>3
  <1>3. ASSUME NEW q \in Requests, q # r
        PROVE  AuditRuns(q)'
    <2>1. InLoop(q)' <=> InLoop(q)
      BY <1>3 DEF InLoop
    <2>2. job(q)' = job(q) /\ call'[q] = call[q]
      BY <1>3 DEF job
    <2>3. InLoop(q) => audit'[job(q)] = audit[job(q)]
      <3>1. job(q) # <<r, n>>
        BY <1>3 DEF job
      <3> QED BY <1>3, <3>1
    <2> QED
      BY <1>0, <2>1, <2>2, <2>3 DEF AuditRuns
  <1> QED
    BY <1>1, <1>2, <1>3 DEF StoryInv

(* The row of the running job, for the lemmas above. *)
LEMMA RunningRow ==
    ASSUME TypeOK, LoopInv, RowInv, StoryInv, NEW r \in Requests, InLoop(r),
           call[r].db
    PROVE  /\ StoryOf(job(r))
           /\ jobs[job(r)].status \in {"PENDING", "RUNNING"}
           /\ pc[r] = "call" => jobs[job(r)].status = "RUNNING"
           /\ jobs[job(r)].retry_count = attempt[r] - 1
           /\ jobs[job(r)].attempt_count =
                IF pc[r] = "attempt" THEN attempt[r] - 1 ELSE attempt[r]
           /\ audit[job(r)] # <<>> <=> Audited(call[r])
           /\ audit[job(r)] \in Seq(AuditEntry)
  <1>1. job(r) \in JobIds
    BY JobOfLoop
  <1> QED
    BY <1>1 DEF RowInv, StoryInv, AuditRuns, InLoop

LEMMA BeginTells ==
    ASSUME TypeOK, LoopInv, RowInv, StoryInv, NEW r \in Requests,
           NEW c \in Workload[r], Begin(r, c), NEW id \in JobIds,
           id = <<r, calls[r] + 1>>, calls[r] + 1 \in 1..MaxCalls[r]
    PROVE  /\ audit' \in [JobIds -> Seq(AuditEntry)]
           /\ \A j \in JobIds : j # id =>
                history'[j] = history[j] /\ audit'[j] = audit[j]
           /\ StoryOf(id)'
           /\ audit'[id] # <<>> <=> Audited(c)
  <1> DEFINE a == Row("job_created", "PENDING", 0, FALSE)
             e == Entry("provisioning_job_created", "succeeded")
  <1>0. /\ c \in Calls /\ c.db \in BOOLEAN /\ c.audited \in BOOLEAN
    BY OrchestratorAssumption, RegisteredCall DEF Begin
  <1>1. a \in HistoryRow /\ a.event_type = "job_created" /\ a.status = "PENDING"
    BY DEF Row, HistoryRow, HistoryEventType, JobStatus
  <1>2. e \in AuditEntry /\ e.action = "provisioning_job_created"
    BY DEF Entry, AuditEntry, AuditAction
  <1> HIDE DEF a, e
  <1>3. /\ jobs[id] = AbsentJob /\ history[id] = <<>> /\ audit[id] = <<>>
        /\ history[id] \in Seq(HistoryRow) /\ audit[id] \in Seq(AuditEntry)
        /\ StoryOf(id)
    BY DEF RowInv, StoryInv, Unwritten, TypeOK
  <1>4. /\ jobs' = IF c.db THEN [jobs EXCEPT ![id] = created] ELSE jobs
        /\ history' = IF c.db THEN [history EXCEPT ![id] = Append(history[id], a)]
                              ELSE history
        /\ audit' = IF Audited(c) THEN [audit EXCEPT ![id] = Append(audit[id], e)]
                                  ELSE audit
    BY DEF Begin, a, e
  <1>5. Append(audit[id], e) \in Seq(AuditEntry)
    BY <1>2, <1>3
  <1>6. /\ audit' \in [JobIds -> Seq(AuditEntry)]
        /\ \A j \in JobIds : j # id =>
             history'[j] = history[j] /\ audit'[j] = audit[j]
    BY <1>4, <1>5 DEF StoryInv, TypeOK
  <1>7. CASE c.db
    <2>1. jobs'[id] = created /\ history'[id] = Append(history[id], a)
      BY <1>4, <1>7 DEF TypeOK
    <2>2. PICK g : g = Append(history[id], a)
      OBVIOUS
    <2>3. /\ RowStory(created, g) /\ RetriesNumbered(g)
          /\ \A type : Count(g, type) = IF "job_created" = type THEN 1 ELSE 0
      BY <1>1, <1>3, <2>2, StoryOfCreated
    <2>4. PICK m : m = Append(audit[id], e)
      OBVIOUS
    <2>5. AuditStory(g, m) /\ m # <<>>
      BY <1>2, <1>3, <2>3, <2>4, AuditStoryCreated
    <2>6. audit'[id] = IF Audited(c) THEN m ELSE <<>>
      BY <1>3, <1>4, <2>4 DEF StoryInv
    <2> QED
      BY <1>6, <2>1, <2>2, <2>3, <2>5, <2>6 DEF StoryOf
  <1>8. CASE ~c.db
    <2>1. jobs' = jobs /\ history' = history /\ audit' = audit /\ ~Audited(c)
      BY <1>4, <1>8 DEF Audited
    <2> QED
      BY <1>3, <1>6, <2>1 DEF StoryOf
  <1> QED
    BY <1>0, <1>7, <1>8

LEMMA StartTells ==
    ASSUME TypeOK, LoopInv, RowInv, StoryInv, NEW r \in Requests, StartAttempt(r),
           NEW j \in JobIds, j = job(r)
    PROVE  /\ audit' \in [JobIds -> Seq(AuditEntry)]
           /\ \A i \in JobIds : i # j =>
                history'[i] = history[i] /\ audit'[i] = audit[i]
           /\ StoryOf(j)'
           /\ audit'[j] # <<>> <=> Audited(call[r])
  <1> DEFINE a == Row("job_started", "RUNNING", attempt[r], FALSE)
             b == Row("connector_invocation", "RUNNING", attempt[r], FALSE)
             e == Entry("connector_invocation", "succeeded")
  <1>0. InLoop(r) /\ pc[r] = "attempt"
    BY DEF StartAttempt, InLoop
  <1>2. PICK n \in Nat : n = attempt[r]
    BY <1>0, JobOfLoop
  <1>3. /\ a \in HistoryRow /\ a.event_type = "job_started"
        /\ b \in HistoryRow /\ b.event_type = "connector_invocation"
    BY <1>2 DEF Row, HistoryRow, HistoryEventType, JobStatus
  <1>4. e \in AuditEntry /\ e.action = "connector_invocation"
    BY DEF Entry, AuditEntry, AuditAction
  <1> HIDE DEF a, b, e
  <1>5. /\ jobs[j] \in JobRow /\ history[j] \in Seq(HistoryRow)
        /\ audit[j] \in Seq(AuditEntry) /\ StoryOf(j)
        /\ call[r].db \in BOOLEAN /\ call[r].audited \in BOOLEAN
    BY <1>0, JobOfLoop DEF StoryInv
  <1>6. /\ jobs' = IF call[r].db THEN [jobs EXCEPT ![j] = started(jobs[j], n)] ELSE jobs
        /\ history' = IF call[r].db THEN [history EXCEPT ![j] = history[j] \o <<a, b>>]
                                    ELSE history
        /\ audit' = IF Audited(call[r]) THEN [audit EXCEPT ![j] = audit[j] \o <<e>>]
                                        ELSE audit
    BY <1>2 DEF StartAttempt, RecordAudit, a, b, e
  <1>7. audit[j] \o <<e>> \in Seq(AuditEntry)
    BY <1>4, <1>5
  <1>8. /\ audit' \in [JobIds -> Seq(AuditEntry)]
        /\ \A i \in JobIds : i # j => history'[i] = history[i] /\ audit'[i] = audit[i]
        /\ audit'[j] = IF Audited(call[r]) THEN audit[j] \o <<e>> ELSE audit[j]
    BY <1>6, <1>7 DEF StoryInv, TypeOK
  <1>9. audit[j] # <<>> <=> Audited(call[r])
    BY <1>0 DEF StoryInv, AuditRuns
  <1>10. CASE call[r].db
    <2>1. jobs'[j] = started(jobs[j], n) /\ history'[j] = history[j] \o <<a, b>>
      BY <1>6, <1>10 DEF TypeOK
    <2>2. PICK f : f = Append(history[j], a)
      OBVIOUS
    <2>3. PICK g : g = Append(f, b)
      OBVIOUS
    <2>b. history[j] \o <<a, b>> = g
      BY <1>3, <1>5, <2>2, <2>3, WrittenInTurn, SMTT(30)
    <2>4. history'[j] = g
      BY <2>1, <2>b
    <2>5. /\ RowStory(jobs[j], history[j]) /\ RetriesNumbered(history[j])
          /\ jobs[j].status \in {"PENDING", "RUNNING"} /\ n = jobs[j].attempt_count + 1
      BY <1>0, <1>2, <1>10, RunningRow DEF StoryOf
    <2>6. /\ RowStory(started(jobs[j], n), g) /\ RetriesNumbered(g)
          /\ OneMoreOf(g, history[j], {"job_started", "connector_invocation"})
      BY <1>3, <1>5, <2>2, <2>3, <2>5, StoryOfStarted
    <2>7. PICK m : m = Append(audit[j], e)
      OBVIOUS
    <2>8. OneMoreNoted(m, audit[j], {"connector_invocation"})
      BY <1>4, <1>5, <2>7, OneNoted
    <2>9. audit[j] # <<>> => AuditStory(g, m)
      BY <1>5, <2>6, <2>8, AuditStoryGrows DEF StoryOf
    <2>a. audit[j] \o <<e>> = m
      BY <1>4, <1>5, <2>7, WrittenInTurn
    <2>10. audit'[j] = IF Audited(call[r]) THEN m ELSE audit[j]
      BY <2>a, <1>4, <1>5, <1>8, <2>7
    <2>11. StoryOf(j)' /\ (audit'[j] # <<>> <=> Audited(call[r]))
      BY <1>9, <2>1, <2>4, <2>6, <2>8, <2>9, <2>10 DEF StoryOf, OneMoreNoted
    <2> QED
      BY <1>8, <2>11
  <1>11. CASE ~call[r].db
    <2>1. jobs' = jobs /\ history' = history /\ audit' = audit
      BY <1>6, <1>11 DEF Audited
    <2>2. StoryOf(j)'
      BY <1>5, <2>1 DEF StoryOf
    <2> QED
      BY <1>8, <1>9, <2>1, <2>2
  <1> QED
    BY <1>5, <1>10, <1>11

LEMMA RetryTells ==
    ASSUME TypeOK, LoopInv, RowInv, StoryInv, NEW r \in Requests, RecordRetry(r),
           NEW j \in JobIds, j = job(r)
    PROVE  /\ audit' \in [JobIds -> Seq(AuditEntry)]
           /\ \A i \in JobIds : i # j =>
                history'[i] = history[i] /\ audit'[i] = audit[i]
           /\ StoryOf(j)'
           /\ audit'[j] # <<>> <=> Audited(call[r])
  <1> DEFINE a == Row("retry_recorded", "RETRYABLE", attempt[r], TRUE)
             d == Entry("connector_retry_scheduled", "succeeded")
             e == Entry("provisioning_retry_recorded", "succeeded")
  <1>0. InLoop(r) /\ pc[r] = "call"
    BY DEF RecordRetry, InLoop
  <1>2. PICK n \in Nat : n = attempt[r]
    BY <1>0, JobOfLoop
  <1>3. /\ a \in HistoryRow /\ a.event_type = "retry_recorded" /\ a.attempt = n
    BY <1>2 DEF Row, HistoryRow, HistoryEventType, JobStatus, ConnectorStatus
  <1>4. /\ d \in AuditEntry /\ d.action = "connector_retry_scheduled"
        /\ e \in AuditEntry /\ e.action = "provisioning_retry_recorded"
    BY DEF Entry, AuditEntry, AuditAction
  <1> HIDE DEF a, d, e
  <1>5. /\ jobs[j] \in JobRow /\ history[j] \in Seq(HistoryRow)
        /\ audit[j] \in Seq(AuditEntry) /\ StoryOf(j)
        /\ call[r].db \in BOOLEAN /\ call[r].audited \in BOOLEAN
    BY <1>0, JobOfLoop DEF StoryInv
  <1>6. /\ jobs' = IF call[r].db THEN [jobs EXCEPT ![j] = retried(jobs[j], n)] ELSE jobs
        /\ history' = IF call[r].db THEN [history EXCEPT ![j] = Append(history[j], a)]
                                    ELSE history
        /\ audit' = IF Audited(call[r]) THEN [audit EXCEPT ![j] = audit[j] \o <<d, e>>]
                                        ELSE audit
    BY <1>2 DEF RecordRetry, RecordAudit, a, d, e
  <1>7. audit[j] \o <<d, e>> \in Seq(AuditEntry)
    BY <1>4, <1>5
  <1>8. /\ audit' \in [JobIds -> Seq(AuditEntry)]
        /\ \A i \in JobIds : i # j => history'[i] = history[i] /\ audit'[i] = audit[i]
        /\ audit'[j] = IF Audited(call[r]) THEN audit[j] \o <<d, e>> ELSE audit[j]
    BY <1>6, <1>7 DEF StoryInv, TypeOK
  <1>9. audit[j] # <<>> <=> Audited(call[r])
    BY <1>0 DEF StoryInv, AuditRuns
  <1>10. CASE call[r].db
    <2>1. jobs'[j] = retried(jobs[j], n) /\ history'[j] = Append(history[j], a)
      BY <1>6, <1>10 DEF TypeOK
    <2>2. PICK g : g = Append(history[j], a)
      OBVIOUS
    <2>3. /\ RowStory(jobs[j], history[j]) /\ RetriesNumbered(history[j])
          /\ jobs[j].status = "RUNNING" /\ n = jobs[j].attempt_count
          /\ n = jobs[j].retry_count + 1
      BY <1>0, <1>2, <1>10, RunningRow DEF StoryOf
    <2>4. /\ RowStory(retried(jobs[j], n), g) /\ RetriesNumbered(g)
          /\ OneMoreOf(g, history[j], {"retry_recorded"})
      BY <1>3, <1>5, <2>2, <2>3, StoryOfRetried
    <2>5. PICK m : m = audit[j] \o <<d, e>>
      OBVIOUS
    <2>6. OneMoreNoted(m, audit[j], {"connector_retry_scheduled", "provisioning_retry_recorded"})
      BY <1>4, <1>5, <2>5, TwoNoted
    <2>7. audit[j] # <<>> => AuditStory(g, m)
      BY <1>5, <2>4, <2>6, AuditStoryGrows DEF StoryOf
    <2>8. audit'[j] = IF Audited(call[r]) THEN m ELSE audit[j]
      BY <1>8, <2>5
    <2>9. StoryOf(j)' /\ (audit'[j] # <<>> <=> Audited(call[r]))
      BY <1>9, <2>1, <2>2, <2>4, <2>6, <2>7, <2>8 DEF StoryOf, OneMoreNoted
    <2> QED
      BY <1>8, <2>9
  <1>11. CASE ~call[r].db
    <2>1. jobs' = jobs /\ history' = history /\ audit' = audit
      BY <1>6, <1>11 DEF Audited
    <2>2. StoryOf(j)'
      BY <1>5, <2>1 DEF StoryOf
    <2> QED
      BY <1>8, <1>9, <2>1, <2>2
  <1> QED
    BY <1>5, <1>10, <1>11

(* What Fail and Complete write: the rows of EndJob and audit entries of   *)
(* the same kind, of which the code writes two or three.                   *)
EndWritten(r, j, s, re, error, last, entries, R) ==
    /\ j \in JobIds /\ j = job(r) /\ pc[r] = "call"
    /\ s \in ConnectorStatus /\ re \in BOOLEAN /\ error \in BOOLEAN
    /\ last = LastType(error) /\ EndJob(r, s, re, error, last)
    /\ entries \in Seq(AuditEntry) /\ RecordAudit(r, entries)
    /\ R = IF error THEN {"connector_failure", "provisioning_job_failed"}
           ELSE {"connector_success", "connector_provisioning_completed",
                 "provisioning_job_completed"}
    /\ OneMoreNoted(audit[j] \o entries, audit[j], R)

LEMMA EndTells ==
    ASSUME TypeOK, LoopInv, RowInv, StoryInv, NEW r \in Requests, NEW j, NEW s, NEW re,
           NEW error, NEW last, NEW entries, NEW R,
           EndWritten(r, j, s, re, error, last, entries, R)
    PROVE  /\ audit' \in [JobIds -> Seq(AuditEntry)]
           /\ \A i \in JobIds : i # j =>
                history'[i] = history[i] /\ audit'[i] = audit[i]
           /\ StoryOf(j)'
           /\ audit'[j] # <<>> <=> Audited(call[r])
  <1> DEFINE a == Row("connector_result", s, attempt[r], re)
             b == Row(last, s, attempt[r], re)
  <1> USE DEF EndWritten
  <1>0. InLoop(r)
    BY DEF InLoop
  <1>2. PICK n \in Nat : n = attempt[r]
    BY <1>0, JobOfLoop
  <1>3. /\ a \in HistoryRow /\ a.event_type = "connector_result"
        /\ b \in HistoryRow /\ b.event_type = last
        /\ b.status = s /\ b.retryable = re
    BY <1>2 DEF Row, HistoryRow, HistoryEventType, JobStatus, LastType
  <1> HIDE DEF a, b
  <1>5. /\ jobs[j] \in JobRow /\ history[j] \in Seq(HistoryRow)
        /\ audit[j] \in Seq(AuditEntry) /\ StoryOf(j)
        /\ call[r].db \in BOOLEAN /\ call[r].audited \in BOOLEAN
    BY <1>0, JobOfLoop DEF StoryInv
  <1>6. /\ jobs' = IF call[r].db THEN [jobs EXCEPT ![j] = ended(jobs[j], n, s, re, error)]
                                 ELSE jobs
        /\ history' = IF call[r].db THEN [history EXCEPT ![j] = history[j] \o <<a, b>>]
                                    ELSE history
    BY <1>2 DEF EndJob, a, b
  <1>8. /\ audit' \in [JobIds -> Seq(AuditEntry)]
        /\ audit'[j] = IF Audited(call[r]) THEN audit[j] \o entries ELSE audit[j]
        /\ \A i \in JobIds : i # j => audit'[i] = audit[i]
    BY AuditWritten DEF StoryInv
  <1>b. \A i \in JobIds : i # j => history'[i] = history[i]
    BY <1>6 DEF TypeOK
  <1>9. audit[j] # <<>> <=> Audited(call[r])
    BY <1>0 DEF StoryInv, AuditRuns
  <1>10. CASE call[r].db
    <2>1. jobs'[j] = ended(jobs[j], n, s, re, error) /\ history'[j] = history[j] \o <<a, b>>
      BY <1>6, <1>10 DEF TypeOK
    <2>2. PICK f : f = Append(history[j], a)
      OBVIOUS
    <2>3. PICK g : g = Append(f, b)
      OBVIOUS
    <2>b. history[j] \o <<a, b>> = g
      BY <1>3, <1>5, <2>2, <2>3, WrittenInTurn
    <2>4. history'[j] = g
      BY <2>1, <2>b
    <2>5. /\ RowStory(jobs[j], history[j]) /\ RetriesNumbered(history[j])
          /\ jobs[j].status = "RUNNING" /\ n = jobs[j].attempt_count
      BY <1>0, <1>2, <1>10, RunningRow DEF StoryOf
    <2>6. /\ RowStory(ended(jobs[j], n, s, re, error), g) /\ RetriesNumbered(g)
          /\ EndedRows(g, history[j], last)
      <3>1. EndWrites(jobs[j], history[j], n, s, re, error, a, b, last, f, g)
        BY <1>3, <1>5, <2>2, <2>3, <2>5 DEF EndWrites
      <3> QED BY <3>1, StoryOfEnded
    <2>7. PICK m : m = audit[j] \o entries
      OBVIOUS
    <2>8. OneMoreNoted(m, audit[j], R)
      BY <2>7
    <2>9. audit[j] # <<>> => AuditStory(g, m)
      <3>3. CASE error
        BY <1>5, <2>6, <2>8, <3>3, AuditStoryGrows DEF StoryOf, LastType, EndedRows
      <3>4. CASE ~error
        BY <1>5, <2>6, <2>8, <3>4, AuditStoryGrows DEF StoryOf, LastType, EndedRows
      <3> QED BY <3>3, <3>4
    <2>10. audit'[j] = IF Audited(call[r]) THEN m ELSE audit[j]
      BY <1>8, <2>7
    <2>11. StoryOf(j)' /\ (audit'[j] # <<>> <=> Audited(call[r]))
      BY <1>9, <2>1, <2>4, <2>6, <2>8, <2>9, <2>10 DEF StoryOf, OneMoreNoted
    <2> QED
      BY <1>8, <1>b, <2>11
  <1>11. CASE ~call[r].db
    <2>1. jobs' = jobs /\ history' = history /\ audit'[j] = audit[j]
      BY <1>6, <1>8, <1>11 DEF Audited
    <2>2. StoryOf(j)'
      BY <1>5, <2>1 DEF StoryOf
    <2> QED
      BY <1>8, <1>9, <2>1, <2>2
  <1> QED
    BY <1>5, <1>10, <1>11

(* A step that writes no rows keeps the stories. *)
LEMMA StoryUntouched ==
    ASSUME TypeOK, StoryInv, NEW r \in Requests,
           UNCHANGED <<jobs, history, audit>>,
           calls'[r] \in Nat, calls'[r] >= calls[r], ~InLoop(r)',
           \A q \in Requests : q # r =>
              /\ pc'[q] = pc[q] /\ calls'[q] = calls[q] /\ call'[q] = call[q]
    PROVE  StoryInv'
  <1>1. \A j \in JobIds : StoryOf(j)'
    BY DEF StoryInv, StoryOf
  <1>2. ASSUME NEW q \in Requests
        PROVE  Unwritten(q)'
    <2> SUFFICES ASSUME NEW k \in 1..MaxCalls[q], k > calls'[q]
                 PROVE  history'[<<q, k>>] = <<>> /\ audit'[<<q, k>>] = <<>>
      BY DEF Unwritten
    <2>1. k \in Int /\ calls[q] \in Nat
      BY OrchestratorAssumption DEF TypeOK
    <2>2. k > calls[q]
      <3>1. CASE q = r
        BY <2>1, <3>1
      <3>2. CASE q # r
        BY <2>1, <3>2
      <3> QED BY <3>1, <3>2
    <2> QED BY <2>2 DEF StoryInv, Unwritten
  <1>3. ASSUME NEW q \in Requests
        PROVE  AuditRuns(q)'
    <2>1. CASE q = r
      BY <2>1 DEF AuditRuns
    <2>2. CASE q # r
      <3>1. (InLoop(q)' <=> InLoop(q)) /\ job(q)' = job(q) /\ call'[q] = call[q]
        BY <2>2 DEF InLoop, job
      <3> QED BY <3>1 DEF StoryInv, AuditRuns
    <2> QED BY <2>1, <2>2
  <1> QED
    BY <1>1, <1>2, <1>3 DEF StoryInv

LEMMA StoryStep ==
    TypeOK /\ LoopInv /\ RowInv /\ StoryInv /\ [Next]_vars => StoryInv'
  <1> SUFFICES ASSUME TypeOK, LoopInv, RowInv, StoryInv, [Next]_vars
               PROVE  StoryInv'
    OBVIOUS
  <1>0. CASE UNCHANGED vars
    BY <1>0 DEF vars, StoryInv, StoryOf, Unwritten, AuditRuns, InLoop, job
  <1>1. ASSUME NEW r \in Requests,
               \/ \E c \in Workload[r] : UnknownConnector(r, c) \/ Begin(r, c)
               \/ StartAttempt(r) \/ RecordRetry(r) \/ Fail(r) \/ Complete(r)
               \/ PublishJobEvents(r) \/ PublishAndReturn(r)
        PROVE  StoryInv'
    <2>0. \A q \in Requests : q # r =>
            /\ pc'[q] = pc[q] /\ calls'[q] = calls[q] /\ call'[q] = call[q]
      BY <1>1, OthersUntouched
    <2>a. \A q \in Requests : InLoop(q) => job(q) \in JobIds
      BY JobOfLoop
    <2>1. ASSUME NEW c \in Workload[r], UnknownConnector(r, c) PROVE StoryInv'
      <3>1. /\ UNCHANGED <<jobs, history, audit>> /\ ~InLoop(r)'
            /\ calls'[r] \in Nat /\ calls'[r] >= calls[r]
        BY <2>1 DEF UnknownConnector, rows, InLoop, TypeOK
      <3> QED BY <2>0, <3>1, StoryUntouched
    <2>2. CASE PublishJobEvents(r) \/ PublishAndReturn(r)
      <3>1. /\ UNCHANGED <<jobs, history, audit>> /\ ~InLoop(r)'
            /\ calls'[r] \in Nat /\ calls'[r] >= calls[r]
        BY <2>2 DEF PublishJobEvents, PublishAndReturn, rows, InLoop, TypeOK
      <3> QED BY <2>0, <3>1, StoryUntouched
    <2>3. ASSUME NEW c \in Workload[r], Begin(r, c) PROVE StoryInv'
      <3>1. PICK n \in 1..MaxCalls[r] : n = calls[r] + 1 /\ n = calls'[r]
        <4>1. calls'[r] = calls[r] + 1 /\ calls[r] \in Nat /\ calls[r] < MaxCalls[r]
          BY <2>3 DEF Begin, TypeOK
        <4>2. calls[r] + 1 \in 1..MaxCalls[r]
          BY <4>1, OrchestratorAssumption
        <4> QED BY <4>1, <4>2
      <3>2. PICK id \in JobIds : id = <<r, n>>
        BY JobIdsDiffer
      <3>3. /\ audit' \in [JobIds -> Seq(AuditEntry)]
            /\ \A j \in JobIds : j # id =>
                 history'[j] = history[j] /\ audit'[j] = audit[j]
            /\ StoryOf(id)'
            /\ audit'[id] # <<>> <=> Audited(c)
        BY <2>3, <3>1, <3>2, BeginTells
      <3>4. \A j \in JobIds : j # id => jobs'[j] = jobs[j]
        BY <1>1, <3>1, <3>2, RowWritten
      <3>5. AuditRuns(r)'
        BY <2>3, <3>1, <3>2, <3>3 DEF AuditRuns, Begin, job, TypeOK
      <3>6. StoryOf(<<r, n>>)'
        BY <3>2, <3>3
      <3>7. n >= calls[r]
        BY <3>1 DEF TypeOK
      <3> QED
        BY <2>0, <2>a, <3>1, <3>2, <3>3, <3>4, <3>5, <3>6, <3>7, StoryKept
    <2>4. CASE StartAttempt(r) \/ RecordRetry(r) \/ Fail(r) \/ Complete(r)
      <3>0. InLoop(r) /\ calls' = calls /\ call' = call
        BY <2>4 DEF InLoop, StartAttempt, RecordRetry, Fail, Complete
      <3>1. PICK n \in 1..MaxCalls[r] : n = calls[r]
        BY <3>0, JobOfLoop
      <3>2. PICK id \in JobIds : id = <<r, n>> /\ id = job(r)
        BY <3>0, <3>1, JobOfLoop
      <3>3. /\ audit' \in [JobIds -> Seq(AuditEntry)]
            /\ \A j \in JobIds : j # id =>
                 history'[j] = history[j] /\ audit'[j] = audit[j]
            /\ StoryOf(id)'
            /\ audit'[id] # <<>> <=> Audited(call[r])
        <4>1. CASE StartAttempt(r)
          BY <3>2, <4>1, StartTells
        <4>2. CASE RecordRetry(r)
          BY <3>2, <4>2, RetryTells
        <4>3. CASE Fail(r)
          <5> DEFINE d == Entry("connector_failure", "denied")
                     e == Entry("provisioning_job_failed", "denied")
          <5>1. /\ d \in AuditEntry /\ d.action = "connector_failure"
                /\ e \in AuditEntry /\ e.action = "provisioning_job_failed"
            BY DEF Entry, AuditEntry, AuditAction
          <5>2. PICK s \in ConnectorStatus, re \in BOOLEAN :
                  EndJob(r, s, re, TRUE, "job_failed")
            BY <4>3 DEF Fail, FailedStatus, ConnectorStatus
          <5>3. pc[r] = "call" /\ RecordAudit(r, <<d, e>>)
            BY <4>3 DEF Fail
          <5> HIDE DEF d, e
          <5>4. <<d, e>> \in Seq(AuditEntry)
            BY <5>1
          <5>5. PICK R : R = {"connector_failure", "provisioning_job_failed"}
            OBVIOUS
          <5>6. OneMoreNoted(audit[id] \o <<d, e>>, audit[id], R)
            <6>1. PICK m : m = audit[id] \o <<d, e>>
              OBVIOUS
            <6>2. audit[id] \in Seq(AuditEntry)
              BY DEF StoryInv
            <6>3. OneMoreNoted(m, audit[id], {d.action, e.action})
              BY <5>1, <6>1, <6>2, TwoNoted
            <6> QED BY <5>1, <5>5, <6>1, <6>3
          <5>7. PICK last : last = "job_failed"
            OBVIOUS
          <5>8. EndWritten(r, id, s, re, TRUE, last, <<d, e>>, R)
            BY <3>2, <5>2, <5>3, <5>4, <5>5, <5>6, <5>7 DEF EndWritten, LastType
          <5> QED
            BY <5>8, EndTells
        <4>4. CASE Complete(r)
          <5> DEFINE c == Entry("connector_success", "succeeded")
                     d == Entry("connector_provisioning_completed", "succeeded")
                     e == Entry("provisioning_job_completed", "succeeded")
          <5>1. /\ c \in AuditEntry /\ c.action = "connector_success"
                /\ d \in AuditEntry /\ d.action = "connector_provisioning_completed"
                /\ e \in AuditEntry /\ e.action = "provisioning_job_completed"
            BY DEF Entry, AuditEntry, AuditAction
          <5>2. PICK s \in ConnectorStatus, re \in BOOLEAN :
                  EndJob(r, s, re, FALSE, "job_completed")
            <6>1. Answer(r) \in ConnectorStatus
              <7>1. call[r] \in Calls /\ Registered(call[r])
                    /\ attempts[r][KeyOf(call[r])] \in Nat
                BY <3>0, JobOfLoop, RegisteredCall DEF TypeOK
              <7> QED BY <4>4, <7>1, InvokeType
                      DEF Answer, Complete, Raises, ConnectorStatus
            <6> QED BY <4>4, <6>1 DEF Complete
          <5>3. pc[r] = "call" /\ RecordAudit(r, <<c, d, e>>)
            BY <4>4 DEF Complete
          <5> HIDE DEF c, d, e
          <5>4. <<c, d, e>> \in Seq(AuditEntry)
            BY <5>1
          <5>5. PICK R : R = {"connector_success", "connector_provisioning_completed",
                              "provisioning_job_completed"}
            OBVIOUS
          <5>6. OneMoreNoted(audit[id] \o <<c, d, e>>, audit[id], R)
            <6>1. PICK m : m = audit[id] \o <<c, d, e>>
              OBVIOUS
            <6>2. audit[id] \in Seq(AuditEntry)
              BY DEF StoryInv
            <6>3. OneMoreNoted(m, audit[id], {c.action, d.action, e.action})
              BY <5>1, <6>1, <6>2, ThreeNoted
            <6> QED BY <5>1, <5>5, <6>1, <6>3
          <5>7. PICK last : last = "job_completed"
            OBVIOUS
          <5>8. EndWritten(r, id, s, re, FALSE, last, <<c, d, e>>, R)
            BY <3>2, <5>2, <5>3, <5>4, <5>5, <5>6, <5>7 DEF EndWritten, LastType
          <5> QED
            BY <5>8, EndTells
        <4> QED BY <2>4, <4>1, <4>2, <4>3, <4>4
      <3>4. \A j \in JobIds : j # id => jobs'[j] = jobs[j]
        BY <1>1, <3>0, <3>1, <3>2, RowWritten
      <3>5. AuditRuns(r)'
        BY <3>0, <3>2, <3>3 DEF AuditRuns, job
      <3>6. StoryOf(<<r, n>>)'
        BY <3>2, <3>3
      <3>7. n >= calls[r] /\ n = calls'[r]
        BY <3>0, <3>1 DEF TypeOK
      <3> QED
        BY <2>0, <2>a, <3>1, <3>2, <3>3, <3>4, <3>5, <3>6, <3>7, StoryKept
    <2> QED
      BY <1>1, <2>1, <2>2, <2>3, <2>4
  <1> QED
    BY StepCases, <1>0, <1>1

-----------------------------------------------------------------------------
(***************************************************************************)
(* The delays.  2^n is the number of subsets of 1..n, so a larger exponent *)
(* gives at least as large a power: no induction is needed.                *)
(***************************************************************************)
LEMMA PowerOfTwo ==
    ASSUME NEW n \in Nat
    PROVE  /\ IsFiniteSet(SUBSET (1..n)) /\ Cardinality(SUBSET (1..n)) = 2^n
           /\ 2^n \in Nat
  <1>1. IsFiniteSet(1..n) /\ Cardinality(1..n) = n
    BY FS_Interval
  <1>2. IsFiniteSet(SUBSET (1..n)) /\ Cardinality(SUBSET (1..n)) = 2^Cardinality(1..n)
    BY <1>1, FS_SUBSET
  <1>3. Cardinality(SUBSET (1..n)) \in Nat
    BY <1>2, FS_CardinalityType
  <1> QED
    BY <1>1, <1>2, <1>3

LEMMA PowersGrow ==
    ASSUME NEW m \in Nat, NEW n \in Nat, m <= n
    PROVE  2^m <= 2^n
  <1>1. SUBSET (1..m) \subseteq SUBSET (1..n)
    OBVIOUS
  <1>2. Cardinality(SUBSET (1..m)) <= Cardinality(SUBSET (1..n))
    BY <1>1, PowerOfTwo, FS_Subset
  <1> QED
    BY <1>2, PowerOfTwo

LEMMA DelaysGrow ==
    ASSUME NEW m \in Nat, NEW n \in Nat, 1 <= m, m <= n
    PROVE  /\ NextDelay(m) <= MaxDelay /\ NextDelay(m) <= NextDelay(n)
           /\ NextDelay(1) = BaseDelay
  <1>0. m - 1 \in Nat /\ n - 1 \in Nat /\ m - 1 <= n - 1
    OBVIOUS
  <1>1. PICK a \in Nat : a = 2^(m - 1)
    BY <1>0, PowerOfTwo
  <1>2. PICK b \in Nat : b = 2^(n - 1)
    BY <1>0, PowerOfTwo
  <1>3. a <= b
    BY <1>0, <1>1, <1>2, PowersGrow
  <1>4. BaseDelay * a <= BaseDelay * b /\ BaseDelay * a \in Nat /\ BaseDelay * b \in Nat
    BY <1>3, ConnectorsAssumption
  <1>5. NextDelay(m) = IF BaseDelay * a < MaxDelay THEN BaseDelay * a ELSE MaxDelay
    BY <1>1 DEF NextDelay
  <1>6. NextDelay(n) = IF BaseDelay * b < MaxDelay THEN BaseDelay * b ELSE MaxDelay
    BY <1>2 DEF NextDelay
  <1>7. NextDelay(1) = BaseDelay
    <2>1. 2^(1 - 1) = 1
      OBVIOUS
    <2>2. BaseDelay * 1 = BaseDelay
      BY ConnectorsAssumption
    <2>3. NextDelay(1) = IF BaseDelay < MaxDelay THEN BaseDelay ELSE MaxDelay
      BY <2>1, <2>2 DEF NextDelay
    <2> QED
      BY <2>3, ConnectorsAssumption
  <1> QED
    BY <1>4, <1>5, <1>6, <1>7, ConnectorsAssumption

(* A later place has a larger rank, and the first one rank 1. *)
LEMMA RankOrder ==
    ASSUME NEW n \in Nat, NEW S \in SUBSET (1..n), NEW i \in S, NEW k \in S, i <= k
    PROVE  /\ Rank(S, i) \in Nat /\ Rank(S, i) >= 1
           /\ Rank(S, i) <= Rank(S, k)
  <1>0. IsFiniteSet(S) /\ \A x \in S : x \in Int
    BY PlacesFinite
  <1>1. Rank(S, i) \in Nat /\ Rank(S, i) >= 1
    <2>1. Rank(S, i) \in 1..Cardinality(S)
      BY RankGrows
    <2>2. Cardinality(S) \in Nat
      BY <1>0, FS_CardinalityType
    <2> QED BY <2>1, <2>2
  <1>2. \A x \in S : x <= i => x <= k
    BY <1>0
  <1> DEFINE T == {x \in S : x <= i}
             U == {x \in S : x <= k}
  <1>3. T \subseteq U /\ U \subseteq S
    BY <1>2
  <1> HIDE DEF T, U
  <1>4. Cardinality(T) <= Cardinality(U)
    BY <1>0, <1>3, FS_Subset
  <1> QED
    BY <1>1, <1>4 DEF Rank, T, U

LEMMA FirstRank ==
    ASSUME NEW n \in Nat, NEW S \in SUBSET (1..n), NEW i \in S,
           \A k \in S : i <= k
    PROVE  Rank(S, i) = 1
  <1>1. i \in Int /\ \A x \in S : x \in Int
    BY PlacesFinite
  <1>2. \A x \in S : x <= i => x = i
    BY <1>1
  <1>3. {x \in S : x <= i} = {i}
    BY <1>1, <1>2
  <1> QED
    BY <1>3, FS_Singleton DEF Rank

LEMMA BackoffFromRanks ==
    ASSUME NEW h \in Seq(HistoryRow), RetriesNumbered(h),
           NEW i \in Rows(h, "retry_recorded")
    PROVE  /\ NextDelay(h[i].attempt) <= MaxDelay
           /\ \A k \in Rows(h, "retry_recorded") :
                i <= k => NextDelay(h[i].attempt) <= NextDelay(h[k].attempt)
           /\ (\A k \in Rows(h, "retry_recorded") : i <= k)
                => NextDelay(h[i].attempt) = BaseDelay
  <1>1. PICK S : S = Rows(h, "retry_recorded")
    OBVIOUS
  <1>2. S \in SUBSET (1..Len(h)) /\ Len(h) \in Nat /\ i \in S
    BY <1>1 DEF Rows
  <1>3. \A k \in S : h[k].attempt = Rank(S, k)
    BY <1>1 DEF RetriesNumbered
  <1>4. ASSUME NEW k \in S
        PROVE  Rank(S, k) \in Nat /\ Rank(S, k) >= 1
    <2>1. k \in Int /\ k <= k
      BY <1>2
    <2> QED
      BY <1>2, <2>1, RankOrder
  <1>5. NextDelay(h[i].attempt) <= MaxDelay
    BY <1>2, <1>3, <1>4, DelaysGrow
  <1>6. ASSUME NEW k \in S, i <= k
        PROVE  NextDelay(h[i].attempt) <= NextDelay(h[k].attempt)
    <2>1. Rank(S, i) <= Rank(S, k)
      BY <1>2, <1>6, RankOrder
    <2> QED
      BY <1>2, <1>3, <1>4, <2>1, DelaysGrow
  <1>7. ASSUME \A k \in S : i <= k
        PROVE  NextDelay(h[i].attempt) = BaseDelay
    <2>1. Rank(S, i) = 1
      BY <1>2, <1>7, FirstRank
    <2>2. h[i].attempt = 1
      BY <1>2, <1>3, <2>1
    <2>3. 1 \in Nat /\ 1 <= 1
      OBVIOUS
    <2>4. NextDelay(1) = BaseDelay
      BY <2>3, DelaysGrow
    <2> QED
      BY <2>2, <2>4
  <1> QED
    BY <1>1, <1>5, <1>6, <1>7

LEMMA StoriesAgree == TypeOK /\ StoryInv => RecordsAgree
  <1> SUFFICES ASSUME TypeOK, StoryInv PROVE RecordsAgree
    OBVIOUS
  <1>1. ASSUME NEW j \in JobIds
        PROVE  /\ RowStory(jobs[j], history[j]) /\ RetriesNumbered(history[j])
               /\ audit[j] # <<>> => AuditStory(history[j], audit[j])
               /\ jobs[j] \in JobRow /\ history[j] \in Seq(HistoryRow)
    BY DEF StoryInv, StoryOf, TypeOK
  <1>2. HistoryExplainsJob
    <2> SUFFICES ASSUME NEW j \in JobIds
        PROVE  /\ jobs[j].status = ReplayedStatus(j)
               /\ jobs[j].attempt_count = CountRows(j, "connector_invocation")
               /\ jobs[j].retry_count = CountRows(j, "retry_recorded")
               /\ jobs[j].completed <=>
                    CountRows(j, "job_completed") + CountRows(j, "job_failed") = 1
               /\ jobs[j].last_error <=>
                    /\ CountRows(j, "retry_recorded") + CountRows(j, "job_failed") > 0
                    /\ CountRows(j, "job_completed") = 0
               /\ jobs[j].completed => jobs[j].retryable = Last(history[j]).retryable
      BY DEF HistoryExplainsJob
    <2>1. \A type : CountRows(j, type) = Count(history[j], type)
      BY DEF CountRows, Count
    <2>2. ReplayedStatus(j) = StatusTold(history[j])
      BY DEF ReplayedStatus, StatusTold
    <2>3. jobs[j].completed \in BOOLEAN
      BY <1>1 DEF JobRow
    <2> QED
      BY <1>1, <2>1, <2>2, <2>3 DEF RowStory
  <1>3. AuditAgreesWithHistory
    BY <1>1 DEF AuditAgreesWithHistory, AuditStory, CountRows, CountAudit, Count, Noted
  <1>4. BackoffIsMonotone
    BY <1>1, BackoffFromRanks DEF BackoffIsMonotone
  <1> QED
    BY <1>2, <1>3, <1>4 DEF RecordsAgree

LEMMA RowInvariant == Spec => [](TypeOK /\ LoopInv /\ RowInv)
  <1>1. Spec => [](TypeOK /\ LoopInv /\ LoopComputesOutcome)
    BY ControlInvariant
  <1>2. Init => RowInv
    BY RowInit
  <1>3. TypeOK /\ LoopInv /\ RowInv /\ [Next]_vars => RowInv'
    BY RowStep
  <1> QED
    BY <1>1, <1>2, <1>3, PTL DEF Spec

(***************************************************************************)
(* The job row, its immutable history, the backoff between its attempts    *)
(* and the audit log of every execution tell one story at every moment,    *)
(* for any connectors, retry policy, workload and number of threads.       *)
(***************************************************************************)
THEOREM RecordsTellOneStory == Spec => []RecordsAgree
  <1>1. Spec => [](TypeOK /\ LoopInv /\ RowInv)
    BY RowInvariant
  <1>2. Init => StoryInv
    BY StoryInit
  <1>3. TypeOK /\ LoopInv /\ RowInv /\ StoryInv /\ [Next]_vars => StoryInv'
    BY StoryStep
  <1>4. TypeOK /\ StoryInv => RecordsAgree
    BY StoriesAgree
  <1> QED
    BY <1>1, <1>2, <1>3, <1>4, PTL DEF Spec

-----------------------------------------------------------------------------
(***************************************************************************)
(* Job events.  A list of events tells a history of j when it holds one    *)
(* event of j per lifecycle row, in the rows' order.                       *)
(***************************************************************************)
DomainEventType ==
    {"ProvisioningJobCreated", "ProvisioningJobStarted",
     "ProvisioningRetryRecorded", "ProvisioningJobCompleted",
     "ProvisioningJobFailed", "ProvisioningStarted", "ConnectorCalled",
     "ConnectorRetryScheduled", "ConnectorFailed", "ProvisioningFailed",
     "ConnectorSucceeded", "ProvisioningCompleted"}

DomainEvent == [type : DomainEventType, job : JobIds, attempt : Nat]

Tells(p, h, j) ==
    /\ Len(p) = Cardinality(LifecycleRows(h))
    /\ \A n \in 1..Len(p) : p[n].job = j /\ p[n].type \in JobEventTypes
    /\ \A k \in LifecycleRows(h) :
          p[Rank(LifecycleRows(h), k)].type = EventOfRow[h[k].event_type]

NoJobEvents(p) == \A n \in 1..Len(p) : p[n].type \notin JobEventTypes

(***************************************************************************)
(* The inductive invariant of the streams: until its job is published, an  *)
(* execution holds in pending_events what its history tells, and nothing   *)
(* of its job is in the publisher; the other list holds no job event; and  *)
(* the jobs to come have no stream.                                        *)
(***************************************************************************)
Unpublished(r) ==
    /\ InLoop(r) \/ pc[r] = "publish_job" =>
         /\ JobStream(published, job(r)) = {}
         /\ call[r].db => Tells(pending[r], history[job(r)], job(r))
    /\ pc[r] = "publish_job" =>
         job(r) \in JobIds /\ call[r].db /\ jobs[job(r)].completed

NothingPublished(r) ==
    \A k \in 1..MaxCalls[r] : k > calls[r] => JobStream(published, <<r, k>>) = {}

WholeStream(j) ==
    JobStream(published, j) # {} =>
        /\ jobs[j].completed
        /\ StreamTells(published, JobStream(published, j), history[j])

StreamInv ==
    /\ published \in Seq(DomainEvent)
    /\ pending \in [Requests -> Seq(DomainEvent)]
    /\ events \in [Requests -> Seq(DomainEvent)]
    /\ \A r \in Requests :
          Unpublished(r) /\ NothingPublished(r) /\ NoJobEvents(events[r])
    /\ \A j \in JobIds : WholeStream(j)

(* The types of job events, and the lifecycle rows, written out. *)
LEMMA JobEvents ==
    /\ DOMAIN EventOfRow = {"job_created", "job_started", "retry_recorded",
                            "job_completed", "job_failed"}
    /\ JobEventTypes = {"ProvisioningJobCreated", "ProvisioningJobStarted",
                        "ProvisioningRetryRecorded", "ProvisioningJobCompleted",
                        "ProvisioningJobFailed"}
    /\ EventOfRow["job_created"] = "ProvisioningJobCreated"
    /\ EventOfRow["job_started"] = "ProvisioningJobStarted"
    /\ EventOfRow["retry_recorded"] = "ProvisioningRetryRecorded"
    /\ EventOfRow["job_completed"] = "ProvisioningJobCompleted"
    /\ EventOfRow["job_failed"] = "ProvisioningJobFailed"
  <1>1. DOMAIN EventOfRow = {"job_created", "job_started", "retry_recorded",
                             "job_completed", "job_failed"}
    BY DEF EventOfRow
  <1>2. /\ EventOfRow["job_created"] = "ProvisioningJobCreated"
        /\ EventOfRow["job_started"] = "ProvisioningJobStarted"
        /\ EventOfRow["retry_recorded"] = "ProvisioningRetryRecorded"
        /\ EventOfRow["job_completed"] = "ProvisioningJobCompleted"
        /\ EventOfRow["job_failed"] = "ProvisioningJobFailed"
    BY DEF EventOfRow
  <1> QED
    BY <1>1, <1>2 DEF JobEventTypes

(* A history grows by a lifecycle row or by another one. *)
LEMMA LifecycleGrows ==
    ASSUME NEW h \in Seq(HistoryRow), NEW a \in HistoryRow,
           NEW g, g = Append(h, a)
    PROVE  /\ LifecycleRows(h) \in SUBSET (1..Len(h)) /\ Len(h) \in Nat
           /\ a.event_type \in DOMAIN EventOfRow =>
                LifecycleRows(g) = LifecycleRows(h) \cup {Len(h) + 1}
           /\ a.event_type \notin DOMAIN EventOfRow =>
                LifecycleRows(g) = LifecycleRows(h)
           /\ \A k \in LifecycleRows(h) : g[k] = h[k]
           /\ g[Len(h) + 1] = a
  <1>1. /\ DOMAIN h = 1..Len(h) /\ Len(h) \in Nat
        /\ DOMAIN g = 1..(Len(h) + 1)
        /\ \A k \in 1..Len(h) : g[k] = h[k]
        /\ g[Len(h) + 1] = a
    OBVIOUS
  <1>2. \A k : k \in 1..(Len(h) + 1) <=> k \in 1..Len(h) \/ k = Len(h) + 1
    BY <1>1
  <1>3. Len(h) + 1 \notin 1..Len(h)
    BY <1>1
  <1>4. \A k : k \in LifecycleRows(h)
                 <=> k \in 1..Len(h) /\ h[k].event_type \in DOMAIN EventOfRow
    BY <1>1 DEF LifecycleRows
  <1>5. \A k : k \in LifecycleRows(g)
                 <=> k \in 1..(Len(h) + 1) /\ g[k].event_type \in DOMAIN EventOfRow
    BY <1>1 DEF LifecycleRows
  <1>6. a.event_type \in DOMAIN EventOfRow =>
          LifecycleRows(g) = LifecycleRows(h) \cup {Len(h) + 1}
    BY <1>1, <1>2, <1>4, <1>5
  <1>7. a.event_type \notin DOMAIN EventOfRow => LifecycleRows(g) = LifecycleRows(h)
    BY <1>1, <1>2, <1>4, <1>5
  <1> QED
    BY <1>1, <1>4, <1>6, <1>7

LEMMA TellsMore ==
    ASSUME NEW h \in Seq(HistoryRow), NEW a \in HistoryRow, NEW g, g = Append(h, a),
           NEW p \in Seq(DomainEvent), NEW j, Tells(p, h, j),
           a.event_type \in DOMAIN EventOfRow,
           NEW e \in DomainEvent, e.job = j, e.type = EventOfRow[a.event_type],
           NEW q, q = Append(p, e)
    PROVE  Tells(q, g, j) /\ q \in Seq(DomainEvent)
  <1>1. PICK S : S = LifecycleRows(h)
    OBVIOUS
  <1>2. PICK n \in Nat : n = Len(h)
    OBVIOUS
  <1>a. LifecycleRows(h) \in SUBSET (1..Len(h)) /\ g[Len(h) + 1] = a
    BY LifecycleGrows
  <1>b. LifecycleRows(g) = LifecycleRows(h) \cup {Len(h) + 1}
    BY LifecycleGrows
  <1>c. \A k \in LifecycleRows(h) : g[k] = h[k]
    BY LifecycleGrows
  <1>3. /\ S \in SUBSET (1..n) /\ LifecycleRows(g) = S \cup {n + 1}
        /\ \A k \in S : g[k] = h[k]
        /\ g[n + 1] = a
    BY <1>1, <1>2, <1>a, <1>b, <1>c
  <1>4. /\ q \in Seq(DomainEvent) /\ Len(q) = Len(p) + 1 /\ Len(p) \in Nat
        /\ \A k \in 1..Len(p) : q[k] = p[k]
        /\ q[Len(p) + 1] = e
    OBVIOUS
  <1>5. Len(p) = Cardinality(S)
    BY <1>1 DEF Tells
  <1>6. Len(q) = Cardinality(LifecycleRows(g))
    BY <1>3, <1>4, <1>5, PlacesGrow
  <1>7. e.type \in JobEventTypes
    BY DEF JobEventTypes
  <1>8. ASSUME NEW k \in 1..Len(q)
        PROVE  q[k].job = j /\ q[k].type \in JobEventTypes
    <2>1. CASE k \in 1..Len(p)
      BY <1>4, <2>1 DEF Tells
    <2>2. CASE k = Len(p) + 1
      BY <1>4, <1>7, <2>2
    <2> QED BY <1>4, <2>1, <2>2
  <1>9. ASSUME NEW k \in S \cup {n + 1}
        PROVE  q[Rank(S \cup {n + 1}, k)].type = EventOfRow[g[k].event_type]
    <2>1. CASE k \in S
      <3>1. Rank(S \cup {n + 1}, k) = Rank(S, k) /\ Rank(S, k) \in 1..Len(p)
        BY <1>3, <1>5, <2>1, RankGrows
      <3>2. p[Rank(S, k)].type = EventOfRow[h[k].event_type]
        BY <1>1, <2>1 DEF Tells
      <3> QED BY <1>3, <1>4, <2>1, <3>1, <3>2
    <2>2. CASE k = n + 1
      <3>1. Rank(S \cup {n + 1}, k) = Len(p) + 1
        BY <1>3, <1>5, <2>2, RankGrows
      <3> QED BY <1>3, <1>4, <2>2, <3>1
    <2> QED BY <2>1, <2>2
  <1> QED
    BY <1>3, <1>4, <1>6, <1>8, <1>9 DEF Tells

LEMMA TellsTheSame ==
    ASSUME NEW h \in Seq(HistoryRow), NEW a \in HistoryRow, NEW g, g = Append(h, a),
           NEW p, NEW j, Tells(p, h, j), a.event_type \notin DOMAIN EventOfRow
    PROVE  Tells(p, g, j)
  <1>1. LifecycleRows(g) = LifecycleRows(h)
    BY LifecycleGrows
  <1>2. \A k \in LifecycleRows(h) : g[k] = h[k]
    BY LifecycleGrows
  <1> QED
    BY <1>1, <1>2 DEF Tells

LEMMA TellsTheFirst ==
    ASSUME NEW h \in Seq(HistoryRow), h = <<>>, NEW j, NEW p, p = <<>>
    PROVE  Tells(p, h, j) /\ p \in Seq(DomainEvent)
  <1>1. LifecycleRows(h) = {} /\ Len(p) = 0
    BY DEF LifecycleRows
  <1>2. \A S : <<>> \in Seq(S)
    OBVIOUS
  <1> QED
    BY <1>1, <1>2, FS_EmptySet DEF Tells

LEMMA NoiseGrows ==
    ASSUME NEW p \in Seq(DomainEvent), NoJobEvents(p),
           NEW e \in DomainEvent, e.type \notin JobEventTypes,
           NEW q, q = Append(p, e)
    PROVE  NoJobEvents(q) /\ q \in Seq(DomainEvent)
  <1>1. /\ q \in Seq(DomainEvent) /\ Len(q) = Len(p) + 1 /\ Len(p) \in Nat
        /\ \A k \in 1..Len(p) : q[k] = p[k]
        /\ q[Len(p) + 1] = e
    OBVIOUS
  <1>2. \A k \in 1..Len(q) : k \in 1..Len(p) \/ k = Len(p) + 1
    BY <1>1
  <1> QED
    BY <1>1, <1>2 DEF NoJobEvents

(* Publishing a job's events, all of them at once, gives it a whole stream. *)
LEMMA PublishedAtOnce ==
    ASSUME NEW log \in Seq(DomainEvent), NEW p \in Seq(DomainEvent), NEW j, NEW h,
           Tells(p, h, j), JobStream(log, j) = {}, NEW m, m = log \o p
    PROVE  StreamTells(m, JobStream(m, j), h)
  <1>1. PICK n \in Nat : n = Len(log)
    OBVIOUS
  <1>2. PICK l \in Nat : l = Len(p)
    OBVIOUS
  <1>3. /\ DOMAIN m = 1..(n + l) /\ DOMAIN log = 1..n
        /\ \A i \in 1..n : m[i] = log[i]
        /\ \A i \in 1..l : m[n + i] = p[i]
    BY <1>1, <1>2
  <1>4. \A i \in 1..n : ~(m[i].job = j /\ m[i].type \in JobEventTypes)
    BY <1>3 DEF JobStream
  <1>5. ASSUME NEW i \in (n + 1)..(n + l)
        PROVE  i - n \in 1..l /\ m[i] = p[i - n]
    <2>1. i - n \in 1..l /\ i = n + (i - n)
      OBVIOUS
    <2> QED BY <1>3, <2>1
  <1>6. \A i \in 1..l : p[i].job = j /\ p[i].type \in JobEventTypes
    BY <1>2 DEF Tells
  <1>7. \A i \in (n + 1)..(n + l) : m[i].job = j /\ m[i].type \in JobEventTypes
    BY <1>5, <1>6
  <1>8. JobStream(m, j) = (n + 1)..(n + l)
    <2>1. \A i \in 1..(n + l) : i \in 1..n \/ i \in (n + 1)..(n + l)
      OBVIOUS
    <2>2. \A i \in (n + 1)..(n + l) : i \in 1..(n + l) /\ i \notin 1..n
      OBVIOUS
    <2> QED BY <1>3, <1>4, <1>7, <2>1, <2>2 DEF JobStream
  <1>9. Cardinality((n + 1)..(n + l)) = l
    BY FS_Interval
  <1>10. ASSUME NEW i \in (n + 1)..(n + l)
         PROVE  Rank((n + 1)..(n + l), i) = i - n
    <2>1. {k \in (n + 1)..(n + l) : k <= i} = (n + 1)..i
      OBVIOUS
    <2>2. Cardinality((n + 1)..i) = i - n
      BY FS_Interval
    <2> QED BY <2>1, <2>2 DEF Rank
  <1>11. ASSUME NEW i \in (n + 1)..(n + l), NEW k \in LifecycleRows(h),
                Rank((n + 1)..(n + l), i) = Rank(LifecycleRows(h), k)
         PROVE  m[i].type = EventOfRow[h[k].event_type]
    <2>1. Rank(LifecycleRows(h), k) = i - n
      BY <1>10, <1>11
    <2>2. p[Rank(LifecycleRows(h), k)].type = EventOfRow[h[k].event_type]
      BY DEF Tells
    <2> QED BY <1>5, <2>1, <2>2
  <1>12. Cardinality(LifecycleRows(h)) = l
    BY <1>2 DEF Tells
  <1>13. PICK S : S = (n + 1)..(n + l)
    OBVIOUS
  <1>14. /\ Cardinality(S) = Cardinality(LifecycleRows(h))
         /\ \A i \in S, k \in LifecycleRows(h) :
              Rank(S, i) = Rank(LifecycleRows(h), k)
                => m[i].type = EventOfRow[h[k].event_type]
    BY <1>9, <1>11, <1>12, <1>13
  <1>15. StreamTells(m, S, h)
    BY <1>14 DEF StreamTells
  <1> QED
    BY <1>8, <1>13, <1>15

(* Publishing anything else leaves the job's stream as it was. *)
NothingOf(p, j) ==
    \A i \in 1..Len(p) : p[i].job # j \/ p[i].type \notin JobEventTypes

Beside(m, log, p, j) ==
    /\ log \in Seq(DomainEvent) /\ p \in Seq(DomainEvent)
    /\ m = log \o p /\ NothingOf(p, j)

LEMMA PublishedBeside ==
    ASSUME NEW m, NEW log, NEW p, NEW j, Beside(m, log, p, j)
    PROVE  /\ JobStream(m, j) = JobStream(log, j)
           /\ \A i \in JobStream(log, j) : m[i] = log[i]
  <1>0. log \in Seq(DomainEvent) /\ p \in Seq(DomainEvent) /\ m = log \o p
    BY DEF Beside
  <1>1. PICK n \in Nat : n = Len(log)
    BY <1>0
  <1>2. PICK l \in Nat : l = Len(p)
    BY <1>0
  <1>3. /\ DOMAIN m = 1..(n + l) /\ DOMAIN log = 1..n
        /\ \A i \in 1..n : m[i] = log[i]
        /\ \A i \in 1..l : m[n + i] = p[i]
    BY <1>0, <1>1, <1>2
  <1>4. ASSUME NEW i \in (n + 1)..(n + l)
        PROVE  ~(m[i].job = j /\ m[i].type \in JobEventTypes)
    <2>1. i - n \in 1..l /\ i = n + (i - n)
      OBVIOUS
    <2> QED BY <1>2, <1>3, <2>1 DEF Beside, NothingOf
  <1>5. \A i \in 1..(n + l) : i \in 1..n \/ i \in (n + 1)..(n + l)
    OBVIOUS
  <1>6. \A i \in 1..n : i \in 1..(n + l)
    OBVIOUS
  <1> QED
    BY <1>3, <1>4, <1>5, <1>6 DEF JobStream

LEMMA StreamKept ==
    ASSUME NEW m, NEW log, NEW p, NEW j, NEW h, Beside(m, log, p, j),
           StreamTells(log, JobStream(log, j), h)
    PROVE  StreamTells(m, JobStream(m, j), h)
  <1>1. JobStream(m, j) = JobStream(log, j)
    BY PublishedBeside
  <1>2. \A i \in JobStream(log, j) : m[i] = log[i]
    BY PublishedBeside
  <1>3. PICK S : S = JobStream(log, j)
    OBVIOUS
  <1>a. StreamTells(log, S, h) /\ \A i \in S : m[i] = log[i]
    BY <1>2, <1>3
  <1>4. /\ Cardinality(S) = Cardinality(LifecycleRows(h))
        /\ \A i \in S, k \in LifecycleRows(h) :
             Rank(S, i) = Rank(LifecycleRows(h), k)
               => m[i].type = EventOfRow[h[k].event_type]
    BY <1>a DEF StreamTells
  <1>5. StreamTells(m, S, h)
    BY <1>4 DEF StreamTells
  <1> QED
    BY <1>1, <1>3, <1>5

LEMMA StreamInit == Init => StreamInv
  <1> SUFFICES ASSUME Init PROVE StreamInv
    OBVIOUS
  <1>0. \A S : <<>> \in Seq(S)
    OBVIOUS
  <1>1. /\ published \in Seq(DomainEvent)
        /\ pending \in [Requests -> Seq(DomainEvent)]
        /\ events \in [Requests -> Seq(DomainEvent)]
    BY <1>0 DEF Init
  <1>2. \A j : JobStream(published, j) = {}
    BY DEF Init, JobStream
  <1>3. \A r \in Requests : pc[r] = "idle" /\ events[r] = <<>>
    BY DEF Init
  <1>4. NoJobEvents(<<>>)
    BY DEF NoJobEvents
  <1> QED
    BY <1>1, <1>2, <1>3, <1>4
       DEF StreamInv, Unpublished, InLoop, NothingPublished, WholeStream

(***************************************************************************)
(* A step inside execute() that publishes nothing keeps the invariant when *)
(* it keeps the running job's list in step with its history.               *)
(***************************************************************************)
Quietly(r, id) ==
    /\ published' = published
    /\ pending' \in [Requests -> Seq(DomainEvent)]
    /\ events' \in [Requests -> Seq(DomainEvent)]
    /\ \A q \in Requests : q # r =>
         /\ pc'[q] = pc[q] /\ calls'[q] = calls[q] /\ call'[q] = call[q]
         /\ pending'[q] = pending[q] /\ events'[q] = events[q]
    /\ \A j \in JobIds : j # id => jobs'[j] = jobs[j] /\ history'[j] = history[j]
    /\ JobStream(published, id) = {}
    /\ calls'[r] \in Nat /\ calls'[r] >= calls[r] /\ id = <<r, calls'[r]>>
    /\ NoJobEvents(events'[r])

LEMMA StreamsFollow ==
    ASSUME TypeOK, LoopInv, StreamInv, NEW r \in Requests, NEW id \in JobIds,
           Quietly(r, id), Unpublished(r)'
    PROVE  StreamInv'
  <1>1. ASSUME NEW q \in Requests
        PROVE  NothingPublished(q)'
    <2> SUFFICES ASSUME NEW k \in 1..MaxCalls[q], k > calls'[q]
                 PROVE  JobStream(published, <<q, k>>) = {}
      BY DEF NothingPublished, Quietly
    <2>1. k > calls[q]
      <3>0. k \in Int /\ calls[q] \in Nat
        BY OrchestratorAssumption DEF TypeOK
      <3>1. CASE q = r
        BY <3>0, <3>1 DEF Quietly
      <3>2. CASE q # r
        BY <3>0, <3>2 DEF Quietly
      <3> QED BY <3>1, <3>2
    <2> QED
      BY <2>1 DEF StreamInv, NothingPublished
  <1>2. ASSUME NEW q \in Requests, q # r
        PROVE  Unpublished(q)'
    <2>0. Unpublished(q)
      BY DEF StreamInv
    <2>1. /\ pc'[q] = pc[q] /\ call'[q] = call[q] /\ pending'[q] = pending[q]
          /\ published' = published
      BY <1>2 DEF Quietly
    <2>2. (InLoop(q)' <=> InLoop(q)) /\ job(q)' = job(q)
      BY <1>2 DEF Quietly, InLoop, job
    <2>3. InLoop(q) \/ pc[q] = "publish_job" => job(q) \in JobIds
      BY <2>0, JobOfLoop DEF Unpublished
    <2>4. job(q) # id
      BY <1>2 DEF Quietly, job
    <2>5. PICK j : j = job(q)
      OBVIOUS
    <2>6. InLoop(q) \/ pc[q] = "publish_job" =>
            jobs'[j] = jobs[j] /\ history'[j] = history[j]
      BY <2>3, <2>4, <2>5 DEF Quietly
    <2>7. job(q)' = j
      BY <2>2, <2>5
    <2>8. InLoop(q) \/ pc[q] = "publish_job" =>
            /\ JobStream(published, j) = {}
            /\ call[q].db => Tells(pending[q], history[j], j)
      BY <2>0, <2>5 DEF Unpublished
    <2>9. pc[q] = "publish_job" => j \in JobIds /\ call[q].db /\ jobs[j].completed
      BY <2>0, <2>5 DEF Unpublished
    <2> QED
      BY <2>1, <2>2, <2>6, <2>7, <2>8, <2>9 DEF Unpublished
  <1>3. ASSUME NEW q \in Requests
        PROVE  NoJobEvents(events[q])'
    <2>1. CASE q = r
      BY <2>1 DEF Quietly
    <2>2. CASE q # r
      BY <2>2 DEF Quietly, StreamInv
    <2> QED BY <2>1, <2>2
  <1>4. ASSUME NEW j \in JobIds
        PROVE  WholeStream(j)'
    <2>1. CASE j = id
      BY <2>1 DEF Quietly, WholeStream
    <2>2. CASE j # id
      <3>1. jobs'[j] = jobs[j] /\ history'[j] = history[j] /\ published' = published
        BY <2>2 DEF Quietly
      <3>2. WholeStream(j)
        BY DEF StreamInv
      <3> QED BY <3>1, <3>2 DEF WholeStream
    <2> QED BY <2>1, <2>2
  <1>5. /\ published' \in Seq(DomainEvent)
        /\ pending' \in [Requests -> Seq(DomainEvent)]
        /\ events' \in [Requests -> Seq(DomainEvent)]
    BY DEF Quietly, StreamInv
  <1> QED
    BY <1>1, <1>2, <1>3, <1>4, <1>5 DEF StreamInv

(* The lists after a step that appends to one request's. *)
LEMMA EventIsTyped ==
    ASSUME NEW type \in DomainEventType, NEW j \in JobIds, NEW n \in Nat,
           NEW e, e = Event(type, j, n)
    PROVE  e \in DomainEvent /\ e.job = j /\ e.type = type
  BY DEF Event, DomainEvent

LEMMA ListUpdated ==
    ASSUME NEW f \in [Requests -> Seq(DomainEvent)], NEW r \in Requests,
           NEW s \in Seq(DomainEvent), NEW g, g = [f EXCEPT ![r] = s]
    PROVE  /\ g \in [Requests -> Seq(DomainEvent)] /\ g[r] = s
           /\ \A q \in Requests : q # r => g[q] = f[q]
  OBVIOUS

LEMMA BeginStreams ==
    ASSUME TypeOK, LoopInv, StoryInv, StreamInv, NEW r \in Requests,
           NEW c \in Workload[r], Begin(r, c), NEW id \in JobIds,
           id = <<r, calls[r] + 1>>, calls[r] + 1 \in 1..MaxCalls[r]
    PROVE  StreamInv'
  <1> DEFINE a == Row("job_created", "PENDING", 0, FALSE)
             e == Event("ProvisioningJobCreated", id, 0)
             x == Event("ProvisioningStarted", id, 0)
  <1>1. a \in HistoryRow /\ a.event_type = "job_created"
    BY DEF Row, HistoryRow, HistoryEventType, JobStatus
  <1>2. e \in DomainEvent /\ e.job = id /\ e.type = "ProvisioningJobCreated"
    BY EventIsTyped DEF DomainEventType
  <1>3. x \in DomainEvent /\ x.type = "ProvisioningStarted"
    BY EventIsTyped DEF DomainEventType
  <1> HIDE DEF a, e, x
  <1>0. PICK b : b = c.db
    OBVIOUS
  <1>4. /\ history' = IF b THEN [history EXCEPT ![id] = Append(history[id], a)]
                           ELSE history
        /\ jobs' = IF b THEN [jobs EXCEPT ![id] = created] ELSE jobs
        /\ pending' = [pending EXCEPT ![r] = IF b THEN <<e>> ELSE <<>>]
        /\ events' = [events EXCEPT ![r] = <<x>>]
        /\ published' = published
    BY <1>0 DEF Begin, a, e, x
  <1>5. /\ pc'[r] = "attempt" /\ call'[r] = c /\ calls'[r] = calls[r] + 1
        /\ calls[r] \in Nat
    BY DEF Begin, TypeOK
  <1>6. \A q \in Requests : q # r =>
          pc'[q] = pc[q] /\ calls'[q] = calls[q] /\ call'[q] = call[q]
    BY OthersUntouched
  <1>7. history[id] = <<>> /\ history[id] \in Seq(HistoryRow)
    BY DEF StoryInv, Unwritten, TypeOK
  <1>8. JobStream(published, id) = {}
    <2>1. PICK n \in 1..MaxCalls[r] : n = calls[r] + 1
      OBVIOUS
    <2>2. n > calls[r] /\ id = <<r, n>>
      BY <1>5, <2>1
    <2> QED
      BY <2>2 DEF StreamInv, NothingPublished
  <1>9. PICK p : p = <<>>
    OBVIOUS
  <1>10. PICK g : g = Append(history[id], a)
    OBVIOUS
  <1>11. Tells(p, history[id], id) /\ p \in Seq(DomainEvent)
    BY <1>7, <1>9, TellsTheFirst
  <1>12. PICK q : q = Append(p, e)
    OBVIOUS
  <1>13. a.event_type \in DOMAIN EventOfRow /\ e.type = EventOfRow[a.event_type]
    BY <1>1, <1>2, JobEvents
  <1>14. Tells(q, g, id) /\ q \in Seq(DomainEvent)
    BY <1>1, <1>2, <1>7, <1>10, <1>11, <1>12, <1>13, TellsMore
  <1>15. q = <<e>>
    BY <1>9, <1>12
  <1>16. NoJobEvents(p) /\ x.type \notin JobEventTypes
    BY <1>3, <1>9, JobEvents DEF NoJobEvents
  <1>17. PICK y : y = Append(p, x)
    OBVIOUS
  <1>18. NoJobEvents(y) /\ y \in Seq(DomainEvent)
    BY <1>3, <1>11, <1>16, <1>17, NoiseGrows
  <1>19. y = <<x>>
    BY <1>9, <1>17
  <1>20. PICK s : s = IF b THEN q ELSE p
    OBVIOUS
  <1>21. s \in Seq(DomainEvent)
    BY <1>11, <1>14, <1>20
  <1>22. pending' = [pending EXCEPT ![r] = s]
    BY <1>4, <1>9, <1>15, <1>20
  <1>23. events' = [events EXCEPT ![r] = y]
    BY <1>4, <1>19
  <1>24. /\ pending' \in [Requests -> Seq(DomainEvent)] /\ pending'[r] = s
         /\ \A z \in Requests : z # r => pending'[z] = pending[z]
    BY <1>21, <1>22, ListUpdated DEF StreamInv
  <1>25. /\ events' \in [Requests -> Seq(DomainEvent)] /\ events'[r] = y
         /\ \A z \in Requests : z # r => events'[z] = events[z]
    BY <1>18, <1>23, ListUpdated DEF StreamInv
  <1>26. \A j \in JobIds : j # id => jobs'[j] = jobs[j] /\ history'[j] = history[j]
    BY <1>4 DEF TypeOK
  <1>27. b => history'[id] = g
    BY <1>4, <1>10 DEF TypeOK
  <1>28. Quietly(r, id)
    BY <1>4, <1>5, <1>6, <1>8, <1>18, <1>24, <1>25, <1>26 DEF Quietly
  <1>29. job(r)' = id
    BY <1>5 DEF job
  <1>30. Unpublished(r)'
    BY <1>0, <1>4, <1>5, <1>8, <1>14, <1>20, <1>24, <1>27, <1>29 DEF Unpublished
  <1> QED
    BY <1>28, <1>30, StreamsFollow

LEMMA StartStreams ==
    ASSUME TypeOK, LoopInv, StreamInv, NEW r \in Requests, StartAttempt(r),
           NEW j \in JobIds, j = job(r)
    PROVE  StreamInv'
  <1> DEFINE a == Row("job_started", "RUNNING", attempt[r], FALSE)
             b == Row("connector_invocation", "RUNNING", attempt[r], FALSE)
             e == Event("ProvisioningJobStarted", j, 0)
             x == Event("ConnectorCalled", j, attempt[r])
  <1>0. InLoop(r) /\ pc[r] = "attempt" /\ attempt[r] \in Nat
    BY DEF StartAttempt, InLoop, TypeOK
  <1>1. /\ a \in HistoryRow /\ a.event_type = "job_started"
        /\ b \in HistoryRow /\ b.event_type = "connector_invocation"
    BY <1>0 DEF Row, HistoryRow, HistoryEventType, JobStatus
  <1>2. e \in DomainEvent /\ e.job = j /\ e.type = "ProvisioningJobStarted"
    BY EventIsTyped DEF DomainEventType
  <1>3. x \in DomainEvent /\ x.type = "ConnectorCalled"
    BY <1>0, EventIsTyped DEF DomainEventType
  <1>4. PICK d \in BOOLEAN : d = call[r].db
    BY <1>0, JobOfLoop
  <1>5. /\ history' = IF d THEN [history EXCEPT ![j] = history[j] \o <<a, b>>]
                           ELSE history
        /\ jobs' = IF d THEN [jobs EXCEPT ![j] = started(jobs[j], attempt[r])] ELSE jobs
        /\ pending' = IF d THEN [pending EXCEPT ![r] = Append(pending[r], e)] ELSE pending
        /\ events' = [events EXCEPT ![r] = Append(events[r], x)]
        /\ published' = published
    BY <1>4 DEF StartAttempt
  <1> HIDE DEF a, b, e, x
  <1>6. /\ pc'[r] = "call" /\ call' = call /\ calls' = calls
        /\ calls'[r] \in Nat /\ calls'[r] >= calls[r]
    <2>1. pc'[r] = "call" /\ call' = call /\ calls' = calls /\ calls[r] \in Nat
      BY DEF StartAttempt, TypeOK
    <2> QED BY <2>1
  <1>7. \A q \in Requests : q # r =>
          pc'[q] = pc[q] /\ calls'[q] = calls[q] /\ call'[q] = call[q]
    BY OthersUntouched
  <1>8. /\ JobStream(published, j) = {} /\ history[j] \in Seq(HistoryRow)
        /\ d => Tells(pending[r], history[j], j)
        /\ pending[r] \in Seq(DomainEvent) /\ events[r] \in Seq(DomainEvent)
        /\ NoJobEvents(events[r])
    BY <1>0, <1>4 DEF StreamInv, Unpublished, TypeOK
  <1>9. PICK f : f = Append(history[j], a)
    OBVIOUS
  <1>10. PICK g : g = Append(f, b)
    OBVIOUS
  <1>11. f \in Seq(HistoryRow) /\ history[j] \o <<a, b>> = g
    BY <1>1, <1>8, <1>9, <1>10, WrittenInTurn
  <1>12. PICK q : q = Append(pending[r], e)
    OBVIOUS
  <1>13. a.event_type \in DOMAIN EventOfRow /\ e.type = EventOfRow[a.event_type]
         /\ b.event_type \notin DOMAIN EventOfRow /\ x.type \notin JobEventTypes
    BY <1>1, <1>2, <1>3, JobEvents
  <1>14. d => Tells(q, f, j)
    BY <1>1, <1>2, <1>8, <1>9, <1>12, <1>13, TellsMore
  <1>15. d => Tells(q, g, j)
    BY <1>1, <1>10, <1>11, <1>13, <1>14, TellsTheSame
  <1>16. q \in Seq(DomainEvent)
    BY <1>2, <1>8, <1>12
  <1>17. PICK y : y = Append(events[r], x)
    OBVIOUS
  <1>18. NoJobEvents(y) /\ y \in Seq(DomainEvent)
    BY <1>3, <1>8, <1>13, <1>17, NoiseGrows
  <1>19. PICK s : s = IF d THEN q ELSE pending[r]
    OBVIOUS
  <1>20. s \in Seq(DomainEvent)
    BY <1>8, <1>16, <1>19
  <1>21. pending' = [pending EXCEPT ![r] = s]
    BY <1>5, <1>12, <1>19 DEF StreamInv
  <1>22. events' = [events EXCEPT ![r] = y]
    BY <1>5, <1>17
  <1>23. /\ pending' \in [Requests -> Seq(DomainEvent)] /\ pending'[r] = s
         /\ \A z \in Requests : z # r => pending'[z] = pending[z]
    BY <1>20, <1>21, ListUpdated DEF StreamInv
  <1>24. /\ events' \in [Requests -> Seq(DomainEvent)] /\ events'[r] = y
         /\ \A z \in Requests : z # r => events'[z] = events[z]
    BY <1>18, <1>22, ListUpdated DEF StreamInv
  <1>25. \A i \in JobIds : i # j => jobs'[i] = jobs[i] /\ history'[i] = history[i]
    BY <1>5 DEF TypeOK
  <1>26. d => history'[j] = g
    BY <1>5, <1>11 DEF TypeOK
  <1>27. job(r)' = j /\ j = <<r, calls'[r]>>
    BY <1>6 DEF job
  <1>28. Quietly(r, j)
    BY <1>5, <1>6, <1>7, <1>8, <1>18, <1>23, <1>24, <1>25, <1>27 DEF Quietly
  <1>29. Unpublished(r)'
    BY <1>4, <1>5, <1>6, <1>8, <1>15, <1>19, <1>23, <1>26, <1>27 DEF Unpublished
  <1> QED
    BY <1>28, <1>29, StreamsFollow

LEMMA RetryStreams ==
    ASSUME TypeOK, LoopInv, StreamInv, NEW r \in Requests, RecordRetry(r),
           NEW j \in JobIds, j = job(r)
    PROVE  StreamInv'
  <1> DEFINE a == Row("retry_recorded", "RETRYABLE", attempt[r], TRUE)
             e == Event("ProvisioningRetryRecorded", j, attempt[r])
             x == Event("ConnectorRetryScheduled", j, attempt[r])
  <1>0. InLoop(r) /\ attempt[r] \in Nat
    BY DEF RecordRetry, InLoop, TypeOK
  <1>1. a \in HistoryRow /\ a.event_type = "retry_recorded"
    BY <1>0 DEF Row, HistoryRow, HistoryEventType, JobStatus, ConnectorStatus
  <1>2. e \in DomainEvent /\ e.job = j /\ e.type = "ProvisioningRetryRecorded"
    BY <1>0, EventIsTyped DEF DomainEventType
  <1>3. x \in DomainEvent /\ x.type = "ConnectorRetryScheduled"
    BY <1>0, EventIsTyped DEF DomainEventType
  <1>4. PICK d \in BOOLEAN : d = call[r].db
    BY <1>0, JobOfLoop
  <1>5. /\ history' = IF d THEN [history EXCEPT ![j] = Append(history[j], a)]
                           ELSE history
        /\ jobs' = IF d THEN [jobs EXCEPT ![j] = retried(jobs[j], attempt[r])] ELSE jobs
        /\ pending' = IF d THEN [pending EXCEPT ![r] = Append(pending[r], e)] ELSE pending
        /\ events' = [events EXCEPT ![r] = Append(events[r], x)]
        /\ published' = published
    BY <1>4 DEF RecordRetry
  <1> HIDE DEF a, e, x
  <1>6. /\ pc'[r] = "attempt" /\ call' = call /\ calls' = calls
        /\ calls'[r] \in Nat /\ calls'[r] >= calls[r]
    <2>1. pc'[r] = "attempt" /\ call' = call /\ calls' = calls /\ calls[r] \in Nat
      BY DEF RecordRetry, TypeOK
    <2> QED BY <2>1
  <1>7. \A q \in Requests : q # r =>
          pc'[q] = pc[q] /\ calls'[q] = calls[q] /\ call'[q] = call[q]
    BY OthersUntouched
  <1>8. /\ JobStream(published, j) = {} /\ history[j] \in Seq(HistoryRow)
        /\ d => Tells(pending[r], history[j], j)
        /\ pending[r] \in Seq(DomainEvent) /\ events[r] \in Seq(DomainEvent)
        /\ NoJobEvents(events[r])
    BY <1>0, <1>4 DEF StreamInv, Unpublished, TypeOK
  <1>10. PICK g : g = Append(history[j], a)
    OBVIOUS
  <1>12. PICK q : q = Append(pending[r], e)
    OBVIOUS
  <1>13. a.event_type \in DOMAIN EventOfRow /\ e.type = EventOfRow[a.event_type]
         /\ x.type \notin JobEventTypes
    BY <1>1, <1>2, <1>3, JobEvents
  <1>15. d => Tells(q, g, j)
    BY <1>1, <1>2, <1>8, <1>10, <1>12, <1>13, TellsMore
  <1>16. q \in Seq(DomainEvent)
    BY <1>2, <1>8, <1>12
  <1>17. PICK y : y = Append(events[r], x)
    OBVIOUS
  <1>18. NoJobEvents(y) /\ y \in Seq(DomainEvent)
    BY <1>3, <1>8, <1>13, <1>17, NoiseGrows
  <1>19. PICK s : s = IF d THEN q ELSE pending[r]
    OBVIOUS
  <1>20. s \in Seq(DomainEvent)
    BY <1>8, <1>16, <1>19
  <1>21. pending' = [pending EXCEPT ![r] = s]
    BY <1>5, <1>12, <1>19 DEF StreamInv
  <1>22. events' = [events EXCEPT ![r] = y]
    BY <1>5, <1>17
  <1>23. /\ pending' \in [Requests -> Seq(DomainEvent)] /\ pending'[r] = s
         /\ \A z \in Requests : z # r => pending'[z] = pending[z]
    BY <1>20, <1>21, ListUpdated DEF StreamInv
  <1>24. /\ events' \in [Requests -> Seq(DomainEvent)] /\ events'[r] = y
         /\ \A z \in Requests : z # r => events'[z] = events[z]
    BY <1>18, <1>22, ListUpdated DEF StreamInv
  <1>25. \A i \in JobIds : i # j => jobs'[i] = jobs[i] /\ history'[i] = history[i]
    BY <1>5 DEF TypeOK
  <1>26. d => history'[j] = g
    BY <1>5, <1>10 DEF TypeOK
  <1>27. job(r)' = j /\ j = <<r, calls'[r]>>
    BY <1>6 DEF job
  <1>28. Quietly(r, j)
    BY <1>5, <1>6, <1>7, <1>8, <1>18, <1>23, <1>24, <1>25, <1>27 DEF Quietly
  <1>29. Unpublished(r)'
    BY <1>4, <1>5, <1>6, <1>8, <1>15, <1>19, <1>23, <1>26, <1>27 DEF Unpublished
  <1> QED
    BY <1>28, <1>29, StreamsFollow

(* complete_job and fail_job, and the two events of each outcome. *)
EndTold(r, j, s, re, error, last, e, x, y) ==
    /\ Fail(r) \/ Complete(r)
    /\ EndJob(r, s, re, error, last)
    /\ j \in JobIds /\ j = job(r)
    /\ s \in ConnectorStatus /\ re \in BOOLEAN
    /\ last \in {"job_failed", "job_completed"}
    /\ e \in DomainEvent /\ e.job = j /\ e.type = EventOfRow[last]
    /\ x \in DomainEvent /\ x.type \notin JobEventTypes
    /\ y \in DomainEvent /\ y.type \notin JobEventTypes
    /\ pending' = IF call[r].db THEN [pending EXCEPT ![r] = Append(@, e)] ELSE pending
    /\ events' = [events EXCEPT ![r] = @ \o <<x, y>>]

LEMMA EndStreams ==
    ASSUME TypeOK, LoopInv, StreamInv, NEW r \in Requests, NEW j, NEW s, NEW re,
           NEW error, NEW last, NEW e, NEW x, NEW y,
           EndTold(r, j, s, re, error, last, e, x, y)
    PROVE  StreamInv'
  <1> DEFINE a == Row("connector_result", s, attempt[r], re)
             b == Row(last, s, attempt[r], re)
             row == ended(jobs[j], attempt[r], s, re, error)
  <1>a. /\ Fail(r) \/ Complete(r)
        /\ EndJob(r, s, re, error, last)
        /\ j \in JobIds /\ j = job(r)
        /\ s \in ConnectorStatus /\ re \in BOOLEAN
        /\ last \in {"job_failed", "job_completed"}
        /\ e \in DomainEvent /\ e.job = j /\ e.type = EventOfRow[last]
        /\ x \in DomainEvent /\ x.type \notin JobEventTypes
        /\ y \in DomainEvent /\ y.type \notin JobEventTypes
    BY DEF EndTold
  <1>0. InLoop(r) /\ attempt[r] \in Nat /\ j \in JobIds
    <2>1. pc[r] = "call"
      BY <1>a DEF Fail, Complete
    <2>2. attempt[r] \in Nat
      BY DEF TypeOK
    <2> QED BY <1>a, <2>1, <2>2 DEF InLoop
  <1>1. /\ a \in HistoryRow /\ a.event_type = "connector_result"
        /\ b \in HistoryRow /\ b.event_type = last
    BY <1>0, <1>a DEF Row, HistoryRow, HistoryEventType, JobStatus
  <1>4. PICK d \in BOOLEAN : d = call[r].db
    BY <1>0, JobOfLoop
  <1>5. /\ history' = IF d THEN [history EXCEPT ![j] = history[j] \o <<a, b>>]
                           ELSE history
        /\ jobs' = IF d THEN [jobs EXCEPT ![j] = row] ELSE jobs
    BY <1>4, <1>a DEF EndJob
  <1>b. row.completed = TRUE
    BY DEF ended
  <1> HIDE DEF a, b, row
  <1>c. /\ pending' = IF d THEN [pending EXCEPT ![r] = Append(pending[r], e)] ELSE pending
        /\ events' = [events EXCEPT ![r] = events[r] \o <<x, y>>]
    BY <1>4 DEF EndTold
  <1>6. /\ published' = published /\ call' = call /\ calls' = calls
        /\ pc'[r] = IF d THEN "publish_job" ELSE "publish"
        /\ calls'[r] \in Nat /\ calls'[r] >= calls[r]
    <2>1. /\ published' = published /\ call' = call /\ calls' = calls /\ calls[r] \in Nat
          /\ pc'[r] = AfterEnd(call[r])
      BY <1>a DEF Fail, Complete, TypeOK
    <2> QED BY <1>4, <2>1 DEF AfterEnd
  <1>7. \A q \in Requests : q # r =>
          pc'[q] = pc[q] /\ calls'[q] = calls[q] /\ call'[q] = call[q]
    BY <1>a, OthersUntouched
  <1>8. /\ JobStream(published, j) = {} /\ history[j] \in Seq(HistoryRow)
        /\ d => Tells(pending[r], history[j], j)
        /\ pending[r] \in Seq(DomainEvent) /\ events[r] \in Seq(DomainEvent)
        /\ NoJobEvents(events[r])
    BY <1>0, <1>4, <1>a DEF StreamInv, Unpublished, TypeOK
  <1>9. PICK f : f = Append(history[j], a)
    OBVIOUS
  <1>10. PICK g : g = Append(f, b)
    OBVIOUS
  <1>11. f \in Seq(HistoryRow) /\ history[j] \o <<a, b>> = g
    BY <1>1, <1>8, <1>9, <1>10, WrittenInTurn
  <1>12. PICK q : q = Append(pending[r], e)
    OBVIOUS
  <1>13. a.event_type \notin DOMAIN EventOfRow /\ b.event_type \in DOMAIN EventOfRow
         /\ e.type = EventOfRow[b.event_type]
    BY <1>1, <1>a, JobEvents
  <1>14. d => Tells(pending[r], f, j)
    BY <1>1, <1>8, <1>9, <1>13, TellsTheSame
  <1>15. d => Tells(q, g, j)
    BY <1>1, <1>8, <1>10, <1>11, <1>12, <1>13, <1>14, <1>a, TellsMore
  <1>16. q \in Seq(DomainEvent)
    BY <1>8, <1>12, <1>a
  <1>17. PICK k : k = Append(events[r], x)
    OBVIOUS
  <1>d. NoJobEvents(k) /\ k \in Seq(DomainEvent)
    BY <1>8, <1>17, <1>a, NoiseGrows
  <1>e. PICK m : m = Append(k, y)
    OBVIOUS
  <1>18. NoJobEvents(m) /\ m \in Seq(DomainEvent)
    BY <1>d, <1>e, <1>a, NoiseGrows
  <1>f. events[r] \o <<x, y>> = m
    BY <1>8, <1>17, <1>e, <1>a, WrittenInTurn
  <1>19. PICK l : l = IF d THEN q ELSE pending[r]
    OBVIOUS
  <1>20. l \in Seq(DomainEvent)
    BY <1>8, <1>16, <1>19
  <1>21. pending' = [pending EXCEPT ![r] = l]
    BY <1>c, <1>12, <1>19 DEF StreamInv
  <1>22. events' = [events EXCEPT ![r] = m]
    BY <1>c, <1>f
  <1>23. /\ pending' \in [Requests -> Seq(DomainEvent)] /\ pending'[r] = l
         /\ \A z \in Requests : z # r => pending'[z] = pending[z]
    BY <1>20, <1>21, ListUpdated DEF StreamInv
  <1>24. /\ events' \in [Requests -> Seq(DomainEvent)] /\ events'[r] = m
         /\ \A z \in Requests : z # r => events'[z] = events[z]
    BY <1>18, <1>22, ListUpdated DEF StreamInv
  <1>25. \A i \in JobIds : i # j => jobs'[i] = jobs[i] /\ history'[i] = history[i]
    BY <1>5 DEF TypeOK
  <1>26. d => history'[j] = g /\ jobs'[j] = row
    BY <1>0, <1>5, <1>11 DEF TypeOK
  <1>27. job(r)' = j /\ j = <<r, calls'[r]>>
    BY <1>6, <1>a DEF job
  <1>28. Quietly(r, j)
    BY <1>6, <1>7, <1>8, <1>18, <1>23, <1>24, <1>25, <1>27 DEF Quietly
  <1>30. d => pending'[r] = q
    BY <1>19, <1>23
  <1>31. ~InLoop(r)' /\ (pc'[r] = "publish_job" => d)
    BY <1>6 DEF InLoop
  <1>29. Unpublished(r)'
    BY <1>0, <1>4, <1>6, <1>8, <1>15, <1>26, <1>27, <1>30, <1>31, <1>b DEF Unpublished
  <1> QED
    BY <1>0, <1>28, <1>29, StreamsFollow

(* Publishing: first what it leaves alone, then the two publishing steps. *)
Published(r, p) ==
    /\ published' = published \o p /\ p \in Seq(DomainEvent)
    /\ jobs' = jobs /\ history' = history
    /\ pending' \in [Requests -> Seq(DomainEvent)]
    /\ events' \in [Requests -> Seq(DomainEvent)]
    /\ NoJobEvents(events'[r]) /\ pc'[r] \in {"publish", "idle"}
    /\ calls' = calls /\ call' = call
    /\ \A q \in Requests : q # r =>
         pc'[q] = pc[q] /\ pending'[q] = pending[q] /\ events'[q] = events[q]

LEMMA BesideTheStream ==
    ASSUME StreamInv, NEW r \in Requests, NEW p, Published(r, p), NEW j, NothingOf(p, j)
    PROVE  /\ JobStream(published', j) = JobStream(published, j)
           /\ WholeStream(j) => WholeStream(j)'
  <1>1. PICK m : m = published'
    OBVIOUS
  <1>2. Beside(m, published, p, j)
    BY <1>1 DEF Beside, Published, StreamInv
  <1>3. JobStream(m, j) = JobStream(published, j)
    BY <1>2, PublishedBeside
  <1>4. PICK h : h = history[j]
    OBVIOUS
  <1>5. StreamTells(published, JobStream(published, j), h) => StreamTells(m, JobStream(m, j), h)
    BY <1>2, StreamKept
  <1>6. history'[j] = h /\ jobs'[j] = jobs[j]
    BY <1>4 DEF Published
  <1>7. WholeStream(j) => WholeStream(j)'
    BY <1>1, <1>3, <1>4, <1>5, <1>6 DEF WholeStream
  <1> QED
    BY <1>1, <1>3, <1>7

LEMMA OthersUnpublished ==
    ASSUME StreamInv, NEW r \in Requests, NEW p, Published(r, p),
           NEW q \in Requests, q # r, NothingOf(p, job(q))
    PROVE  Unpublished(q)'
  <1>0. Unpublished(q)
    BY DEF StreamInv
  <1>1. PICK j : j = job(q)
    OBVIOUS
  <1>2. JobStream(published', j) = JobStream(published, j)
    BY <1>1, BesideTheStream
  <1>3. job(q)' = j
    BY <1>1 DEF Published, job
  <1>4. /\ pc'[q] = pc[q] /\ pending'[q] = pending[q] /\ call'[q] = call[q]
        /\ jobs' = jobs /\ history' = history
    BY DEF Published
  <1>5. InLoop(q)' <=> InLoop(q)
    BY <1>4 DEF InLoop
  <1>6. InLoop(q) \/ pc[q] = "publish_job" =>
          /\ JobStream(published, j) = {}
          /\ call[q].db => Tells(pending[q], history[j], j)
    BY <1>0, <1>1 DEF Unpublished
  <1>7. pc[q] = "publish_job" => j \in JobIds /\ call[q].db /\ jobs[j].completed
    BY <1>0, <1>1 DEF Unpublished
  <1> QED
    BY <1>2, <1>3, <1>4, <1>5, <1>6, <1>7 DEF Unpublished

LEMMA PublishedStreams ==
    ASSUME StreamInv, NEW r \in Requests, NEW p, Published(r, p),
           \A j : j # job(r) => NothingOf(p, j),
           WholeStream(job(r)) => WholeStream(job(r))'
    PROVE  StreamInv'
  <1>1. ASSUME NEW q \in Requests
        PROVE  Unpublished(q)'
    <2>1. CASE q = r
      BY <2>1 DEF Published, Unpublished, InLoop
    <2>2. CASE q # r
      <3>1. job(q) # job(r)
        BY <2>2 DEF job
      <3> QED BY <2>2, <3>1, OthersUnpublished
    <2> QED BY <2>1, <2>2
  <1>2. ASSUME NEW q \in Requests
        PROVE  NothingPublished(q)'
    <2> SUFFICES ASSUME NEW k \in 1..MaxCalls[q], k > calls[q]
                 PROVE  JobStream(published', <<q, k>>) = {}
      BY DEF NothingPublished, Published
    <2>1. <<q, k>> # job(r)
      BY DEF job
    <2>2. JobStream(published', <<q, k>>) = JobStream(published, <<q, k>>)
      BY <2>1, BesideTheStream
    <2> QED
      BY <2>2 DEF StreamInv, NothingPublished
  <1>3. ASSUME NEW q \in Requests
        PROVE  NoJobEvents(events[q])'
    <2>1. CASE q = r
      BY <2>1 DEF Published
    <2>2. CASE q # r
      BY <2>2 DEF Published, StreamInv
    <2> QED BY <2>1, <2>2
  <1>4. ASSUME NEW j \in JobIds
        PROVE  WholeStream(j)'
    <2>0. WholeStream(j)
      BY DEF StreamInv
    <2>1. CASE j = job(r)
      <3>1. job(r)' = job(r)
        BY DEF Published, job
      <3> QED BY <2>0, <2>1, <3>1
    <2>2. CASE j # job(r)
      BY <2>0, <2>2, BesideTheStream
    <2> QED BY <2>1, <2>2
  <1>5. /\ published' \in Seq(DomainEvent)
        /\ pending' \in [Requests -> Seq(DomainEvent)]
        /\ events' \in [Requests -> Seq(DomainEvent)]
    BY DEF Published, StreamInv
  <1> QED
    BY <1>1, <1>2, <1>3, <1>4, <1>5 DEF StreamInv

LEMMA PublishJobStreams ==
    ASSUME TypeOK, StreamInv, NEW r \in Requests, PublishJobEvents(r)
    PROVE  StreamInv'
  <1>1. PICK p : p = pending[r]
    OBVIOUS
  <1>2. PICK j : j = job(r)
    OBVIOUS
  <1>3. /\ pc[r] = "publish_job" /\ published' = published \o p
        /\ pending' = [pending EXCEPT ![r] = <<>>] /\ pc' = [pc EXCEPT ![r] = "publish"]
        /\ jobs' = jobs /\ history' = history /\ events' = events
        /\ calls' = calls /\ call' = call
    BY <1>1 DEF PublishJobEvents, rows
  <1>4. /\ JobStream(published, j) = {} /\ Tells(p, history[j], j)
        /\ j \in JobIds /\ jobs[j].completed
    BY <1>1, <1>2, <1>3 DEF StreamInv, Unpublished
  <1>5. \A S : <<>> \in Seq(S)
    OBVIOUS
  <1>6. Published(r, p)
    <2>1. p \in Seq(DomainEvent) /\ pending' \in [Requests -> Seq(DomainEvent)]
      BY <1>1, <1>3, <1>5 DEF StreamInv
    <2>2. events' \in [Requests -> Seq(DomainEvent)] /\ NoJobEvents(events'[r])
      BY <1>3 DEF StreamInv
    <2>3. pc'[r] \in {"publish", "idle"}
      BY <1>3 DEF TypeOK
    <2>4. \A q \in Requests : q # r =>
            pc'[q] = pc[q] /\ pending'[q] = pending[q] /\ events'[q] = events[q]
      BY <1>3 DEF TypeOK, StreamInv
    <2> QED BY <1>3, <2>1, <2>2, <2>3, <2>4 DEF Published
  <1>7. \A i : i # j => NothingOf(p, i)
    BY <1>4 DEF Tells, NothingOf
  <1>8. WholeStream(j)'
    <2>1. PICK h : h = history[j]
      OBVIOUS
    <2>2. PICK m : m = published'
      OBVIOUS
    <2>3. m = published \o p /\ published \in Seq(DomainEvent) /\ p \in Seq(DomainEvent)
      BY <1>6, <2>2 DEF Published, StreamInv
    <2>4. StreamTells(m, JobStream(m, j), h)
      BY <1>4, <2>1, <2>3, PublishedAtOnce
    <2> QED
      BY <1>3, <1>4, <2>1, <2>2, <2>4 DEF WholeStream
  <1>9. job(r)' = j
    BY <1>2, <1>3 DEF job
  <1> QED
    BY <1>2, <1>6, <1>7, <1>8, <1>9, PublishedStreams

LEMMA PublishAndReturnStreams ==
    ASSUME TypeOK, StreamInv, NEW r \in Requests, PublishAndReturn(r)
    PROVE  StreamInv'
  <1>1. PICK p : p = events[r]
    OBVIOUS
  <1>3. /\ published' = published \o p
        /\ events' = [events EXCEPT ![r] = <<>>] /\ pc' = [pc EXCEPT ![r] = "idle"]
        /\ jobs' = jobs /\ history' = history /\ pending' = pending
        /\ calls' = calls /\ call' = call
    BY <1>1 DEF PublishAndReturn, rows
  <1>4. NoJobEvents(p)
    BY <1>1 DEF StreamInv
  <1>5. \A S : <<>> \in Seq(S)
    OBVIOUS
  <1>6. Published(r, p)
    <2>1. p \in Seq(DomainEvent) /\ pending' \in [Requests -> Seq(DomainEvent)]
      BY <1>1, <1>3 DEF StreamInv
    <2>2. events' \in [Requests -> Seq(DomainEvent)] /\ events'[r] = <<>>
      BY <1>3, <1>5 DEF StreamInv
    <2>3. NoJobEvents(events'[r])
      BY <2>2 DEF NoJobEvents
    <2>4. pc'[r] \in {"publish", "idle"}
      BY <1>3 DEF TypeOK
    <2>5. \A q \in Requests : q # r =>
            pc'[q] = pc[q] /\ pending'[q] = pending[q] /\ events'[q] = events[q]
      BY <1>3 DEF TypeOK, StreamInv
    <2> QED BY <1>3, <2>1, <2>2, <2>3, <2>4, <2>5 DEF Published
  <1>7. \A i : NothingOf(p, i)
    BY <1>4 DEF NoJobEvents, NothingOf
  <1>8. PICK j : j = job(r)
    OBVIOUS
  <1>9. WholeStream(j) => WholeStream(j)'
    BY <1>6, <1>7, BesideTheStream
  <1>10. job(r)' = j
    BY <1>3, <1>8 DEF job
  <1> QED
    BY <1>6, <1>7, <1>8, <1>9, <1>10, PublishedStreams

LEMMA UnknownStreams ==
    ASSUME TypeOK, StreamInv, NEW r \in Requests, NEW c, UnknownConnector(r, c)
    PROVE  StreamInv'
  <1>1. /\ pc[r] = "idle" /\ pc' = pc /\ published' = published /\ pending' = pending
        /\ events' = events /\ jobs' = jobs /\ history' = history
        /\ calls' = [calls EXCEPT ![r] = calls[r] + 1]
        /\ call' = [call EXCEPT ![r] = c]
    BY DEF UnknownConnector, rows
  <1>2. ASSUME NEW q \in Requests
        PROVE  Unpublished(q)' /\ NothingPublished(q)'
    <2>0. Unpublished(q) /\ NothingPublished(q)
      BY DEF StreamInv
    <2>1. Unpublished(q)'
      <3>1. CASE q = r
        BY <1>1, <3>1 DEF Unpublished, InLoop
      <3>2. CASE q # r
        <4>1. calls'[q] = calls[q] /\ call'[q] = call[q]
          BY <1>1, <3>2 DEF TypeOK
        <4> QED BY <1>1, <2>0, <4>1 DEF Unpublished, InLoop, job
      <3> QED BY <3>1, <3>2
    <2>2. ASSUME NEW k \in 1..MaxCalls[q], k > calls'[q]
          PROVE  k > calls[q]
      BY <1>1, <2>2, OrchestratorAssumption DEF TypeOK
    <2>3. NothingPublished(q)'
      BY <1>1, <2>0, <2>2 DEF NothingPublished
    <2> QED BY <2>1, <2>3
  <1>3. \A j \in JobIds : WholeStream(j)'
    BY <1>1 DEF StreamInv, WholeStream
  <1> QED
    BY <1>1, <1>2, <1>3 DEF StreamInv

LEMMA FailStreams ==
    ASSUME TypeOK, LoopInv, StreamInv, NEW r \in Requests, Fail(r),
           NEW j \in JobIds, j = job(r)
    PROVE  StreamInv'
  <1>0. pc[r] = "call" /\ InLoop(r) /\ attempt[r] \in Nat
    <2>1. pc[r] = "call"
      BY DEF Fail
    <2>2. attempt[r] \in Nat
      BY DEF TypeOK
    <2> QED BY <2>1, <2>2 DEF InLoop
  <1>1. PICK e : e = Event("ProvisioningJobFailed", j, 0)
    OBVIOUS
  <1>2. PICK x : x = Event("ConnectorFailed", j, attempt[r])
    OBVIOUS
  <1>3. PICK y : y = Event("ProvisioningFailed", j, 0)
    OBVIOUS
  <1>4. PICK s : s = FailedStatus(Answer(r))
    OBVIOUS
  <1>5. PICK re : re = (Answer(r) = "transient")
    OBVIOUS
  <1>6. PICK last : last = "job_failed"
    OBVIOUS
  <1>7. e \in DomainEvent /\ e.job = j /\ e.type = "ProvisioningJobFailed"
    BY <1>1, EventIsTyped DEF DomainEventType
  <1>8. x \in DomainEvent /\ x.type = "ConnectorFailed"
    BY <1>0, <1>2, EventIsTyped DEF DomainEventType
  <1>9. y \in DomainEvent /\ y.type = "ProvisioningFailed"
    BY <1>3, EventIsTyped DEF DomainEventType
  <1>10. s \in ConnectorStatus /\ re \in BOOLEAN
    BY <1>4, <1>5 DEF FailedStatus, ConnectorStatus
  <1>11. /\ EndJob(r, s, re, TRUE, last)
         /\ pending' = IF call[r].db THEN [pending EXCEPT ![r] = Append(@, e)] ELSE pending
         /\ events' = [events EXCEPT ![r] = @ \o <<x, y>>]
    BY <1>1, <1>2, <1>3, <1>4, <1>5, <1>6 DEF Fail
  <1>12. /\ e.type = EventOfRow[last] /\ x.type \notin JobEventTypes
         /\ y.type \notin JobEventTypes
    BY <1>6, <1>7, <1>8, <1>9, JobEvents
  <1>13. EndTold(r, j, s, re, TRUE, last, e, x, y)
    BY <1>6, <1>7, <1>8, <1>9, <1>10, <1>11, <1>12 DEF EndTold
  <1> QED
    BY <1>13, EndStreams

LEMMA CompleteStreams ==
    ASSUME TypeOK, LoopInv, StreamInv, NEW r \in Requests, Complete(r),
           NEW j \in JobIds, j = job(r)
    PROVE  StreamInv'
  <1>0. pc[r] = "call" /\ InLoop(r) /\ attempt[r] \in Nat
    <2>1. pc[r] = "call"
      BY DEF Complete
    <2>2. attempt[r] \in Nat
      BY DEF TypeOK
    <2> QED BY <2>1, <2>2 DEF InLoop
  <1>1. PICK e : e = Event("ProvisioningJobCompleted", j, 0)
    OBVIOUS
  <1>2. PICK x : x = Event("ConnectorSucceeded", j, attempt[r])
    OBVIOUS
  <1>3. PICK y : y = Event("ProvisioningCompleted", j, 0)
    OBVIOUS
  <1>4. PICK s : s = Answer(r)
    OBVIOUS
  <1>5. PICK last : last = "job_completed"
    OBVIOUS
  <1>7. e \in DomainEvent /\ e.job = j /\ e.type = "ProvisioningJobCompleted"
    BY <1>1, EventIsTyped DEF DomainEventType
  <1>8. x \in DomainEvent /\ x.type = "ConnectorSucceeded"
    BY <1>0, <1>2, EventIsTyped DEF DomainEventType
  <1>9. y \in DomainEvent /\ y.type = "ProvisioningCompleted"
    BY <1>3, EventIsTyped DEF DomainEventType
  <1>10. s \in ConnectorStatus
    <2>1. call[r] \in Calls /\ Registered(call[r])
          /\ attempts[r][KeyOf(call[r])] \in Nat
      BY <1>0, JobOfLoop, RegisteredCall DEF TypeOK
    <2> QED BY <1>4, <2>1, InvokeType DEF Complete, Answer, Raises, ConnectorStatus
  <1>11. /\ EndJob(r, s, FALSE, FALSE, last)
         /\ pending' = IF call[r].db THEN [pending EXCEPT ![r] = Append(@, e)] ELSE pending
         /\ events' = [events EXCEPT ![r] = @ \o <<x, y>>]
    BY <1>1, <1>2, <1>3, <1>4, <1>5 DEF Complete
  <1>12. /\ e.type = EventOfRow[last] /\ x.type \notin JobEventTypes
         /\ y.type \notin JobEventTypes
    BY <1>5, <1>7, <1>8, <1>9, JobEvents
  <1>13. EndTold(r, j, s, FALSE, FALSE, last, e, x, y)
    BY <1>5, <1>7, <1>8, <1>9, <1>10, <1>11, <1>12 DEF EndTold
  <1> QED
    BY <1>13, EndStreams

LEMMA StreamStep ==
    TypeOK /\ LoopInv /\ StoryInv /\ StreamInv /\ [Next]_vars => StreamInv'
  <1> SUFFICES ASSUME TypeOK, LoopInv, StoryInv, StreamInv, [Next]_vars
               PROVE  StreamInv'
    OBVIOUS
  <1>0. CASE UNCHANGED vars
    BY <1>0 DEF vars, rows, StreamInv, Unpublished, InLoop, job, NothingPublished,
                WholeStream
  <1>1. ASSUME NEW r \in Requests, NEW c \in Workload[r], Begin(r, c)
        PROVE  StreamInv'
    <2>1. calls[r] \in Nat /\ calls[r] < MaxCalls[r] /\ MaxCalls[r] \in Nat
      BY <1>1, OrchestratorAssumption DEF Begin, TypeOK
    <2>2. calls[r] + 1 \in 1..MaxCalls[r]
      BY <2>1
    <2>3. <<r, calls[r] + 1>> \in JobIds
      BY <2>2, JobIdsDiffer
    <2>4. PICK id \in JobIds : id = <<r, calls[r] + 1>>
      BY <2>3
    <2> QED BY <1>1, <2>2, <2>4, BeginStreams
  <1>2. ASSUME NEW r \in Requests,
               StartAttempt(r) \/ RecordRetry(r) \/ Fail(r) \/ Complete(r)
        PROVE  StreamInv'
    <2>1. InLoop(r)
      BY <1>2 DEF StartAttempt, RecordRetry, Fail, Complete, InLoop
    <2>2. PICK j \in JobIds : j = job(r)
      BY <2>1, JobOfLoop
    <2> QED
      BY <1>2, <2>2, StartStreams, RetryStreams, FailStreams, CompleteStreams
  <1> QED
    BY StepCases, <1>0, <1>1, <1>2, UnknownStreams, PublishJobStreams,
       PublishAndReturnStreams

(***************************************************************************)
(* However the threads interleave, the shared publisher holds for every    *)
(* job either nothing or one event per lifecycle row of its finished       *)
(* history, in the rows' order: no stream is torn, repeated or mixed up.   *)
(***************************************************************************)
THEOREM StreamsStayWhole == Spec => []StreamsAreWhole
  <1>1. Spec => [](TypeOK /\ LoopInv /\ RowInv)
    BY RowInvariant
  <1>2. Init => StoryInv /\ StreamInv
    BY StoryInit, StreamInit
  <1>3. TypeOK /\ LoopInv /\ RowInv /\ StoryInv /\ [Next]_vars => StoryInv'
    BY StoryStep
  <1>4. TypeOK /\ LoopInv /\ StoryInv /\ StreamInv /\ [Next]_vars => StreamInv'
    BY StreamStep
  <1>5. StreamInv => StreamsAreWhole
    BY DEF StreamInv, WholeStream, StreamsAreWhole
  <1> QED
    BY <1>1, <1>2, <1>3, <1>4, <1>5, PTL DEF Spec
=============================================================================
