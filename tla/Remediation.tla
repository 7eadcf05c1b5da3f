---------------------------- MODULE Remediation ----------------------------
(***************************************************************************)
(* Governance remediation (app/remediation): POST .../remediate creates    *)
(* one job per REVOKE decision of a completed campaign and executes it     *)
(* through the provisioning orchestrator.  The whole request is one        *)
(* transaction, committed at the end, while the calls it makes to target   *)
(* systems take effect at once.  Requests overlap, and a worker or its     *)
(* connection may die anywhere; clients then ask again.                    *)
(*                                                                         *)
(* An execution of the orchestrator is one step here: its outcome is       *)
(* Outcome of ConnectorFramework, which ProvisioningOrchestrator shows its *)
(* retry loop to compute.                                                  *)
(***************************************************************************)
EXTENDS ConnectorFramework, FiniteSets

CONSTANTS
    Workers,        \* request threads
    Campaigns,
    Items,          \* review item ids
    CampaignOf,     \* [Items -> Campaigns]
    Reviewed,       \* the decisions a campaign may be completed with
    ConnectorFor,   \* [Items -> Names or NoConnector], by application slug
    MaxRuns,        \* requests a worker handles (bound)
    CorrelationOf,  \* [Workers \X (1 .. MaxRuns) -> Correlations]
    MaxFaults,      \* crashes and decisions after completion (bound)
    NoConnector, NoJob

ASSUME RemediationAssumption ==
    /\ Items \subseteq Nat
    /\ CampaignOf \in [Items -> Campaigns]
    /\ Reviewed \subseteq [Items -> {"APPROVE", "REVOKE", "ABSTAIN"}]
    /\ ConnectorFor \in [Items -> Names \cup {NoConnector}]
    /\ NoConnector \notin Names
    /\ CorrelationOf \in [Workers \X (1 .. MaxRuns) -> Correlations]
    /\ "revoke_entitlement" \in Operations
    /\ MaxRuns \in Nat /\ MaxFaults \in Nat
    /\ NoJob \notin Nat

VARIABLES
    campaign,   \* [Campaigns -> status]
    decision,   \* [Items -> decision]
    rjobs,      \* committed remediation_jobs, one per review item
    pjobs,      \* committed provisioning_jobs
    nextId,     \* sequence of provisioning job ids
    revoked,    \* how often the target system revoked an item's access
    published,  \* items whose remediation events were published
    runs, crashes, late, response,
    pc, target, todo, result,  \* control state of a request
    draft, mine,               \* its uncommitted remediation and provisioning jobs
    attempts                   \* attempt counters of its connectors

committed == <<campaign, decision, late, rjobs, pjobs>>
vars == <<committed, nextId, revoked, published, runs, crashes, response, pc,
          target, todo, result, draft, mine, attempts>>

-----------------------------------------------------------------------------
Decisions == {"APPROVE", "REVOKE", "ABSTAIN"}

RemediationStatus == {"RUNNING", "COMPLETED", "FAILED", "SKIPPED"}

(* A remediation job row: its status and provisioning_job_id. *)
Absent == [status |-> "ABSENT", link |-> NoJob]
Job(status, link) == [status |-> status, link |-> link]

NoDrafts == [i \in Items |-> Absent]

Init ==
    /\ campaign = [c \in Campaigns |-> "ACTIVE"]
    /\ decision \in Reviewed
    /\ late = 0
    /\ rjobs = NoDrafts
    /\ pjobs = {}
    /\ nextId = 1
    /\ revoked = [i \in Items |-> 0]
    /\ published = {}
    /\ runs = [w \in Workers |-> 0]
    /\ crashes = 0
    /\ response = [w \in Workers |-> "none"]
    /\ pc = [w \in Workers |-> "idle"]
    /\ target \in [Workers -> Campaigns]
    /\ todo = [w \in Workers |-> {}]
    /\ result = [w \in Workers |-> "none"]
    /\ draft = [w \in Workers |-> NoDrafts]
    /\ mine = [w \in Workers |-> {}]
    /\ attempts = [w \in Workers |-> [k \in AttemptKeys |-> 0]]

(* Governance completes a campaign. *)
Close(c) ==
    /\ campaign[c] = "ACTIVE"
    /\ campaign' = [campaign EXCEPT ![c] = "COMPLETED"]
    /\ UNCHANGED <<decision, late, rjobs, pjobs, nextId, revoked, published,
                   runs, crashes, response, pc, target, todo, result, draft,
                   mine, attempts>>

(***************************************************************************)
(* A decision that was being recorded when the campaign was completed      *)
(* commits afterwards; CertificationCampaigns shows that it can            *)
(* (ClosedIsFinal).                                                *)
(***************************************************************************)
Redecide(i, d) ==
    /\ campaign[CampaignOf[i]] = "COMPLETED" /\ decision[i] # d
    /\ crashes + late < MaxFaults
    /\ late' = late + 1
    /\ decision' = [decision EXCEPT ![i] = d]
    /\ UNCHANGED <<campaign, rjobs, pjobs, nextId, revoked, published, runs,
                   crashes, response, pc, target, todo, result, draft, mine,
                   attempts>>

(* validate_campaign. *)
Ask(w) ==
    /\ pc[w] = "idle" /\ runs[w] < MaxRuns
    /\ runs' = [runs EXCEPT ![w] = @ + 1]

Refuse(w, c) ==
    /\ Ask(w)
    /\ campaign[c] # "COMPLETED"
    /\ response' = [response EXCEPT ![w] = "conflict"]
    /\ UNCHANGED <<committed, nextId, revoked, published, crashes, pc, target,
                   todo, result, draft, mine, attempts>>

(* Mutant: the filter on the decision dropped. *)
RemediableUnfiltered(c) == {i \in Items : CampaignOf[i] = c}

(* _remediable_review_items; the registry is built for this request. *)
Remediable(c) == {i \in Items : CampaignOf[i] = c /\ decision[i] = "REVOKE"}

Begin(w, c) ==
    /\ Ask(w)
    /\ campaign[c] = "COMPLETED"
    /\ target' = [target EXCEPT ![w] = c]
    /\ todo' = [todo EXCEPT ![w] = Remediable(c)]
    /\ draft' = [draft EXCEPT ![w] = NoDrafts]
    /\ mine' = [mine EXCEPT ![w] = {}]
    /\ attempts' = [attempts EXCEPT ![w] = [k \in AttemptKeys |-> 0]]
    /\ response' = [response EXCEPT ![w] = "none"]
    /\ pc' = [pc EXCEPT ![w] = "next"]
    /\ UNCHANGED <<committed, nextId, revoked, published, crashes, result>>

-----------------------------------------------------------------------------
(* Mutant: no ORDER BY, so two requests may see the items in either order. *)
CurrentUnordered(w) ==
    CHOOSE i \in todo[w] : \A j \in todo[w] : IF runs[w] = 1 THEN i <= j ELSE j <= i

(* The loop of execute_campaign takes the items in the order of their ids. *)
Current(w) == CHOOSE i \in todo[w] : \A j \in todo[w] : i <= j

Moved(w, step) ==
    /\ pc' = [pc EXCEPT ![w] = step]
    /\ UNCHANGED <<committed, published, runs, crashes, response, target>>

(* Mutant: the events of a rolled back request are published too. *)
AbortPublishing(w, answer) ==
    /\ pc' = [pc EXCEPT ![w] = "idle"]
    /\ response' = [response EXCEPT ![w] = answer]
    /\ published' = published \cup {i \in Items : draft[w][i] # Absent}
    /\ UNCHANGED <<committed, nextId, revoked, runs, crashes, target, todo,
                   result, draft, mine, attempts>>

(* The exception handlers of remediate_campaign roll back. *)
Abort(w, answer) ==
    /\ pc' = [pc EXCEPT ![w] = "idle"]
    /\ response' = [response EXCEPT ![w] = answer]
    /\ UNCHANGED <<committed, nextId, revoked, published, runs, crashes, target,
                   todo, result, draft, mine, attempts>>

(* _find_job_by_review_item sees committed jobs and the request's own. *)
HasJob(w, i) == rjobs[i] # Absent \/ draft[w][i] # Absent

SkipExisting(w) ==
    /\ pc[w] = "next" /\ todo[w] # {}
    /\ HasJob(w, Current(w))
    /\ todo' = [todo EXCEPT ![w] = @ \ {Current(w)}]
    /\ Moved(w, "next")
    /\ UNCHANGED <<nextId, revoked, result, draft, mine, attempts>>

NoExisting(w) ==
    /\ pc[w] = "next" /\ todo[w] # {}
    /\ ~HasJob(w, Current(w))
    /\ Moved(w, "create")
    /\ UNCHANGED <<nextId, revoked, todo, result, draft, mine, attempts>>

(* create_job looks again (prevent_duplicate_jobs) before it inserts. *)
PreventDuplicate(w) ==
    /\ pc[w] = "create"
    /\ IF HasJob(w, Current(w))
         THEN Abort(w, "conflict")
         ELSE /\ Moved(w, "insert")
              /\ UNCHANGED <<nextId, revoked, todo, result, draft, mine, attempts>>

(* Mutant: no unique constraint on review_item_id, nothing to wait for. *)
UnlockedInsert(w, i) == FALSE

(* The INSERT waits for another transaction's uncommitted row of the item. *)
Locked(w, i) ==
    \E v \in Workers \ {w} : pc[v] \notin {"idle", "publish"} /\ draft[v][i] # Absent

(* create_job flushes the row and start_job marks it RUNNING. *)
Insert(w) ==
    LET i == Current(w) IN
    /\ pc[w] = "insert"
    /\ ~Locked(w, i)
    /\ IF rjobs[i] # Absent
         THEN Abort(w, "error")
         ELSE /\ draft' = [draft EXCEPT ![w] =
                    [j \in Items |-> IF j = i THEN Job("RUNNING", NoJob) ELSE @[j]]]
              /\ Moved(w, "execute")
              /\ UNCHANGED <<nextId, revoked, todo, result, mine, attempts>>

(* The correlation id of the request context. *)
Correlation(w) == CorrelationOf[<<w, runs[w]>>]

CallFor(w, i) ==
    [connector |-> ConnectorFor[i], operation |-> "revoke_entitlement",
     payload |-> {"user_id", "entitlement"}, correlation |-> Correlation(w),
     db |-> TRUE, audited |-> TRUE]

(* Otherwise _operation_for_job or registry.get raises: no provisioning job. *)
Executable(w, i) ==
    ConnectorFor[i] \in Names /\ Registered(CallFor(w, i))

ExecuteRaises(w) ==
    /\ pc[w] = "execute"
    /\ ~Executable(w, Current(w))
    /\ result' = [result EXCEPT ![w] = "error"]
    /\ Moved(w, "settle")
    /\ UNCHANGED <<nextId, revoked, todo, draft, mine, attempts>>

Execute(w) ==
    LET i == Current(w)
        call == CallFor(w, i)
        outcome == Outcome(call, attempts[w][KeyOf(call)])
    IN
    /\ pc[w] = "execute"
    /\ Executable(w, i)
    /\ mine' = [mine EXCEPT ![w] =
                    @ \cup {[id |-> nextId, item |-> i, correlation |-> Correlation(w)]}]
    /\ nextId' = nextId + 1
    /\ attempts' = [attempts EXCEPT ![w] = [k \in AttemptKeys |->
                        IF Recorded(call) /\ k = KeyOf(call)
                          THEN @[k] + outcome.attempts ELSE @[k]]]
    /\ revoked' = IF outcome.status = "SUCCESS"
                    THEN [revoked EXCEPT ![i] = @ + 1] ELSE revoked
    /\ result' = [result EXCEPT ![w] = outcome.status]
    /\ Moved(w, "settle")
    /\ UNCHANGED <<todo, draft>>

(* _link_provisioning_job: the newest provisioning job of the correlation id. *)
Linkable(w) == {j \in pjobs \cup mine[w] : j.correlation = Correlation(w)}

(* Mutant: the oldest, the .desc() dropped. *)
Oldest(w) ==
    IF Linkable(w) = {} THEN NoJob
    ELSE (CHOOSE j \in Linkable(w) : \A k \in Linkable(w) : j.id <= k.id).id

Latest(w) ==
    IF Linkable(w) = {} THEN NoJob
    ELSE (CHOOSE j \in Linkable(w) : \A k \in Linkable(w) : k.id <= j.id).id

(* Mutants: no handler for exceptions; SUCCESS and SKIPPED swapped;         *)
(* everything that is not FAILED is complete.                              *)
FinalStatusUnhandled(answer) ==
    IF answer = "SUCCESS" THEN "COMPLETED"
    ELSE IF answer = "SKIPPED" THEN "SKIPPED"
    ELSE IF answer = "error" THEN "RUNNING" ELSE "FAILED"
FinalStatusSwapped(answer) ==
    IF answer = "SUCCESS" THEN "SKIPPED"
    ELSE IF answer = "SKIPPED" THEN "COMPLETED" ELSE "FAILED"
FinalStatusUnlessFailed(answer) ==
    IF answer \in {"FAILED", "error"} THEN "FAILED"
    ELSE IF answer = "SKIPPED" THEN "SKIPPED" ELSE "COMPLETED"

(* complete_job or fail_job, by the status of the result. *)
FinalStatus(answer) ==
    IF answer = "SUCCESS" THEN "COMPLETED"
    ELSE IF answer = "SKIPPED" THEN "SKIPPED"
    ELSE "FAILED"

Settle(w) ==
    LET i == Current(w) IN
    /\ pc[w] = "settle"
    /\ draft' = [draft EXCEPT ![w] =
            [j \in Items |-> IF j = i THEN Job(FinalStatus(result[w]), Latest(w))
                                      ELSE @[j]]]
    /\ todo' = [todo EXCEPT ![w] = @ \ {i}]
    /\ Moved(w, "next")
    /\ UNCHANGED <<nextId, revoked, result, mine, attempts>>

Commit(w) ==
    /\ pc[w] = "next" /\ todo[w] = {}
    /\ rjobs' = [i \in Items |-> IF draft[w][i] # Absent THEN draft[w][i] ELSE rjobs[i]]
    /\ pjobs' = pjobs \cup mine[w]
    /\ pc' = [pc EXCEPT ![w] = "publish"]
    /\ UNCHANGED <<campaign, decision, late, nextId, revoked, published, runs,
                   crashes, response, target, todo, result, draft, mine, attempts>>

Publish(w) ==
    /\ pc[w] = "publish"
    /\ published' = published \cup {i \in Items : draft[w][i] # Absent}
    /\ pc' = [pc EXCEPT ![w] = "idle"]
    /\ response' = [response EXCEPT ![w] = "ok"]
    /\ UNCHANGED <<committed, nextId, revoked, runs, crashes, target, todo,
                   result, draft, mine, attempts>>

(* The worker, or its connection, dies: an open transaction is rolled back. *)
Crash(w) ==
    /\ pc[w] # "idle" /\ crashes + late < MaxFaults
    /\ crashes' = crashes + 1
    /\ pc' = [pc EXCEPT ![w] = "idle"]
    /\ response' = [response EXCEPT ![w] = "lost"]
    /\ UNCHANGED <<committed, nextId, revoked, published, runs, target, todo,
                   result, draft, mine, attempts>>

Step(w) ==
    \/ SkipExisting(w) \/ NoExisting(w) \/ PreventDuplicate(w) \/ Insert(w)
    \/ ExecuteRaises(w) \/ Execute(w) \/ Settle(w) \/ Commit(w) \/ Publish(w)

Next ==
    \/ \E c \in Campaigns : Close(c)
    \/ \E i \in Items, d \in Decisions : Redecide(i, d)
    \/ \E w \in Workers : \/ \E c \in Campaigns : Refuse(w, c) \/ Begin(w, c)
                          \/ Step(w) \/ Crash(w)

Spec == Init /\ [][Next]_vars

(* A handler that was started keeps running until it answers or dies. *)
FairSpec == Spec /\ \A w \in Workers : WF_vars(Step(w))

-----------------------------------------------------------------------------
ProvisioningRow == [id : Nat, item : Items, correlation : Correlations]

JobRow == [status : RemediationStatus \cup {"ABSENT"}, link : Nat \cup {NoJob}]

(* The types of all variables; a committed job has ended. *)
TypeOK ==
    /\ campaign \in [Campaigns -> {"ACTIVE", "COMPLETED"}]
    /\ decision \in [Items -> Decisions]
    /\ rjobs \in [Items -> JobRow]
    /\ \A i \in Items : rjobs[i].status # "RUNNING"
    /\ pjobs \subseteq ProvisioningRow
    /\ nextId \in Nat
    /\ revoked \in [Items -> Nat]
    /\ published \subseteq Items
    /\ runs \in [Workers -> 0 .. MaxRuns]
    /\ crashes \in 0 .. MaxFaults /\ late \in 0 .. MaxFaults
    /\ response \in [Workers -> {"none", "ok", "conflict", "error", "lost"}]
    /\ pc \in [Workers -> {"idle", "next", "create", "insert", "execute",
                           "settle", "publish"}]
    /\ target \in [Workers -> Campaigns]
    /\ todo \in [Workers -> SUBSET Items]
    /\ result \in [Workers -> ConnectorStatus \cup {"none", "error"}]
    /\ draft \in [Workers -> [Items -> JobRow]]
    /\ mine \in [Workers -> SUBSET ProvisioningRow]
    /\ attempts \in [Workers -> [AttemptKeys -> Nat]]

(***************************************************************************)
(* A request that was answered with success left a job for exactly the     *)
(* REVOKE decisions of its campaign, also those that another request was   *)
(* working on (while no decision changed after completion).                *)
(***************************************************************************)
AnsweredMeansSettled ==
    late = 0 =>
      \A w \in Workers : response[w] = "ok" =>
        \A i \in Items : CampaignOf[i] = target[w] =>
            (rjobs[i] # Absent <=> decision[i] = "REVOKE")

(***************************************************************************)
(* A remediation job recorded as COMPLETED stands for access that the      *)
(* target system did revoke.                                               *)
(***************************************************************************)
CompletedMeansRevoked ==
    \A i \in Items : rjobs[i].status = "COMPLETED" => revoked[i] >= 1

(***************************************************************************)
(* However requests overlap, an item is revoked again only when a request  *)
(* was cut off between the connector call and the commit: by a crash, or   *)
(* by a late decision that makes two requests work on different items.     *)
(***************************************************************************)
RevokedAgainOnlyAfterLoss ==
    \A i \in Items : revoked[i] <= 1 + crashes + late

(***************************************************************************)
(* Without either, a call that took effect is on record once no request is *)
(* running: no request aborts after it called a connector.                 *)
(***************************************************************************)
EffectsAreRecorded ==
    (crashes = 0 /\ late = 0 /\ \A w \in Workers : pc[w] = "idle") =>
        \A i \in Items : revoked[i] > 0 => rjobs[i].status = "COMPLETED"

(***************************************************************************)
(* Remediation events are published for committed jobs only, and for all   *)
(* of them unless a worker died.                                           *)
(***************************************************************************)
EventsFollowCommit ==
    /\ \A i \in published : rjobs[i] # Absent
    /\ (crashes = 0 /\ \A w \in Workers : pc[w] = "idle") =>
          published = {i \in Items : rjobs[i] # Absent}

(* A committed remediation job is final: no later request rewrites it. *)
JobsAreFinal ==
    [][\A i \in Items : rjobs[i] # Absent => rjobs'[i] = rjobs[i]]_vars

LinkedRows(i) == {j \in pjobs : j.id = rjobs[i].link}

(***************************************************************************)
(* When every request has a correlation id of its own, a remediation job   *)
(* that the connector answered links to the provisioning job of its own    *)
(* review item.                                                            *)
(***************************************************************************)
AnsweredJobsLinkTheirOwn ==
    \A i \in Items : rjobs[i].status \in {"COMPLETED", "SKIPPED"} =>
        \E j \in LinkedRows(i) : j.item = i

(***************************************************************************)
(* What a request that is over leaves behind: it settled every decision,   *)
(* its links and its events are those of its jobs, and no call that took   *)
(* effect goes unrecorded.                                                 *)
(***************************************************************************)
OutcomesAreRecorded ==
    /\ AnsweredMeansSettled /\ AnsweredJobsLinkTheirOwn
    /\ EffectsAreRecorded /\ EventsFollowCommit

(***************************************************************************)
(* docs/remediation.md: "The resulting provisioning job is linked back     *)
(* through provisioning_job_id": whatever a job links to is its own.       *)
(***************************************************************************)
LinksAreOwn ==
    \A i \in Items : \A j \in LinkedRows(i) : j.item = i

(***************************************************************************)
(* Every request ends: requests wait for each other's rows in the order of *)
(* the item ids, so never in a circle.                                     *)
(***************************************************************************)
RequestsEnd ==
    \A w \in Workers : pc[w] # "idle" ~> pc[w] = "idle"
=============================================================================
