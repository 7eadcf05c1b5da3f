# AccessIQ in TLA+

AccessIQ is an identity-governance service: a FastAPI application over
PostgreSQL that keeps users, groups and access assignments, reviews access in
certification campaigns, and carries out revocations through connectors to
target systems. This directory models the parts of it that keep state and
follow a protocol, checks them with TLC on small instances and proves every
safety property of the passing runs with TLAPS, for every value of the
constants.

`PROJECT.json` lists the components, the runs, the mutants that show each
property to be sensitive to the code, the source lines behind every
definition, the hazards and the findings. This file explains them.

## How the system runs

The facts below shape every module; they come from `app/main.py`,
`app/database.py`, `app/dependencies.py` and the route modules.

* Route handlers are plain functions, so the server runs them in a thread
  pool: **requests overlap**.
* Every request has a SQLAlchemy session of its own (`autoflush=False`,
  PostgreSQL's READ COMMITTED): a statement sees what was committed when it
  started plus the session's own flushed writes. An UPDATE names only the
  columns whose value the session changed; no row has a version column and no
  SELECT locks. **What a request validated may have changed when it commits.**
  Unique and foreign keys are the only protection; an INSERT that collides
  with another transaction's uncommitted row waits for that transaction.
* Services flush, handlers commit once, at the end, and roll back on an error.
  Domain events are published after the commit, to an in-process list guarded
  by a lock.
* The connector registry and its connectors are built per request, so the
  attempt counters of the mock connectors live as long as one request.

## Inventory

| component (source) | state | operations | interacts with |
|---|---|---|---|
| connector framework (`app/connectors/{registry,base,mock,retry,results}.py`) | registered connectors; attempt counter per operation and correlation id | look up, dispatch, answer, decide about a retry, compute the delay | called by the orchestrator |
| provisioning orchestrator (`app/connectors/orchestrator.py`) | local loop variables, list of events | `execute` | drives job service, connectors, audit, event publisher |
| provisioning job service (`app/services/provisioning_job_service.py`) | `provisioning_jobs`, `provisioning_history`, pending events | create, start, record invocation, result and retry, complete, fail | called by the orchestrator |
| event publisher (`app/domain/publisher.py`) | one list per process | `publish`, `publish_all` | called by every service |
| access reviews (`app/governance`) | campaigns with five counters, review items, decisions | create, start, complete, cancel, record a decision | reads access assignments; read by remediation |
| remediation (`app/remediation`) | `remediation_jobs` | remediate a campaign | reads decisions, calls the orchestrator |
| grant and revoke (`app/main.py`) | `access_assignments`, audit rows | grant, revoke | policy engine, delegation, RBAC, audit |
| delegated administration (`app/delegation`) | role assignments with a scope and an expiry | assign, remove, authorise | called by grant and revoke |
| policy engine (`app/policy_engine.py`), RBAC (`app/rbac.py`, `app/roles.py`) | none | evaluate | called by handlers |
| SCIM users (`app/scim/provisioning.py`, `app/services/user_service.py`) | `users`, audit rows | create, replace, patch | sets `active` and `department`, which the policies read |
| enterprise profile and manager tree (`app/services/enterprise_user_service.py`) | `enterprise_user_profiles` | part of each user request: employee number, manager, department | read by the graph |
| SCIM groups (`app/scim/group_provisioning.py`, `app/services/group_service.py`) | `groups`, `group_members`, audit rows | create, replace, patch | read by the graph |
| authorization graph (`app/graph`) | one cached graph per process, behind a lock | load, refresh, invalidate, status; shortest path, manager chain | reads all the tables |
| release tracking (`app/releases`) | one row per release that started | record at start-up, read | none |
| AI assistant (`app/ai`) | conversation store | rank context, fit a token budget, call a provider | reads graph and tables |
| observability, health, seeding, frontend, deployment | no protocol | | |

What is hard here, in the order of importance:

1. **Check, then act.** Lifecycle transitions, duplicate checks, counters and
   the walk up the managers are read in one statement and written in a later
   one, with other requests in between.
2. **Effects outside the transaction.** Remediation calls target systems
   before it commits: a crash, a constraint violation or a lost connection
   rolls the records back but not the effects.
3. **Retry logic shared by several executions.** The connector counts attempts
   per correlation id, not per execution, so one execution's outcome depends
   on earlier ones of the request.
4. **Several records of one fact.** Job row, history, audit and events; item,
   decision and counters; membership, audit and events: they are written by
   separate calls and must tell the same story.
5. **Waiting.** Requests wait for each other's rows while holding their own.
6. **Stale copies.** The graph is cached, and is built from tables that change
   while it is read; a session keeps what it has loaded and writes only what
   differs from it.

What makes each component correct: a provisioning execution ends with the
outcome its connector and the retry policy determine, and every record of it
agrees; a campaign is closed once, with every item decided when it is
completed, and its tables agree; a remediation job that says COMPLETED stands
for access that was revoked, exactly the REVOKE decisions get a job, access is
not revoked twice without cause, and nothing committed is rewritten; an
assignment's grants and revocations balance in the audit log and only an
authorised caller makes them; the manager relation stays a tree and no user
changes without an audit entry; members of a group come and go as the events
and the audit log say; a graph is what the tables held while it was built, an
invalidation is never lost, and a search of it gives the right answer.

## Modules

| module | role |
|---|---|
| `ConnectorFramework` | constants and pure operators: registry, dispatch, mock connector, retry policy, and `Outcome`, the reference result of an execution |
| `ProvisioningOrchestrator` | `execute` with job service, audit and publisher, run by several request threads |
| `ProvisioningJobs` | abstract specification: what a provisioning job promises |
| `CertificationCampaigns` | campaigns, items, decisions and counters under overlapping transactions |
| `CertificationReview` | abstract specification: a review whose operations are atomic |
| `Remediation` | `remediate` under overlapping requests, crashes and late decisions; uses `Outcome` for an execution |
| `AccessPolicy` | pure operators: operator roles, scopes and roles of delegations, business policy |
| `AccessControl` | grant, revoke, and the assignment, removal and expiry of delegations under overlapping transactions |
| `ScimUserPayload` | pure operators: what a SCIM resource or a PATCH asks of a user |
| `ScimUsers` | create, replace and patch of users with their enterprise profiles under overlapping transactions |
| `ScimGroups` | create, replace and patch of groups with their members under overlapping transactions |
| `AuthorizationGraph` | pure operators: the nodes and edges of each row, the order of the reads |
| `GraphCache` | the cached graph, its lock, and builds that read while the tables change |
| `GraphQuery` | shortest path and manager chain over any graph |
| `MC*` | instances for TLC |
| `*Proofs` | theorems and proofs |

`Remediation` composes with two others. It takes one execution of the
orchestrator as one step whose result is `Outcome`; `RetryLoopCorrect` is the
theorem that justifies this. It lets a decision commit after the completion of
its campaign; in `CertificationCampaigns` this happens (see
`campaigns_closed`). `MCGraph` composes `GraphCache` and `GraphQuery`, which
meet in a graph that never changes once it is handed out.

### ConnectorFramework and ProvisioningOrchestrator

`Calls` are the arguments of `execute`: connector name (`Normal` strips and
lower-cases it), operation, payload keys, correlation id, whether a session
and audit users were given. `Invoke` is what the connector does with its
`recorded` attempts: SKIPPED when disabled, an error for a missing operation
or payload key, a transient or permanent failure by mode and
`failures_before_success`, else SUCCESS.

`execute` is cut at the points where another thread can observe it or where
control branches: `UnknownConnector`, `Begin` (lookup and `create_job`),
`StartAttempt` (head of the loop), the connector's answer with everything the
branch then writes (`RecordRetry`, `Fail`, `Complete`), `PublishJobEvents`,
`PublishAndReturn`. The variable `audit` holds the audit rows of each
execution, `history` the history rows; both are kept in insertion order.
Messages, durations, time stamps and the details of audit rows are left out.
The properties speak of positions in these sequences: `Rows(h, type)` and
`Entries(log, action)` are the places of the rows of a type and of the entries
of an action, `JobStream(log, j)` those of a job's events, `LifecycleRows(h)`
those of the rows that have an event, and `Rank(S, i)` is the number of places
up to `i`, so that two sequences correspond when equal ranks do.
The sleep between attempts is not performed by the code either (only recorded).

### CertificationCampaigns

A request is the sequence of its statements. `Refuse` and `Load` are the first
SELECTs and the checks on them; `Snapshot` is `generate_review_items`;
`Write` is the flush of a decision, with the row lock and the unique key that
order two decisions on one item; `CountTotal`, `CountCompleted` and
`CountDecisions` are the three SELECTs of `_recalculate_campaign_counts`, each
with its own view; `CommitLifecycle`, `CommitDecision` and `CommitFails` write
the rows, only the changed counters among them, and check the constraints;
`Publish` publishes and answers. `Grant` and `Revoke` are the environment: an
assignment appears, or disappears if no review item refers to it. Names are
model values with a spelling and a lower-case form, because the name check
ignores case and the constraint does not.

### Remediation

`Begin` validates the campaign and reads the REVOKE items; the loop then looks
for a job (`SkipExisting`, `NoExisting`), looks again in `create_job`
(`PreventDuplicate`), inserts (`Insert`, which waits for an uncommitted row of
the same item and fails on a committed one), executes (`Execute`,
`ExecuteRaises`) and settles (`Settle`, with the link to the provisioning
job); `Commit` and `Publish` end the request. `Crash` may happen anywhere
inside a request. `revoked` counts what target systems did, which no rollback
undoes. `REMOVE_GROUP_MEMBER` and `DISABLE_USER` jobs are not modelled:
`generate_review_items` only produces items of access assignments, for which
the action is always `REVOKE_ENTITLEMENT`.

### AccessPolicy and AccessControl

`AccessPolicy` holds what the code evaluates without writing: role aliases,
the scope and role matrix, the match of a scope with an entitlement, and the
two policy evaluations as conjunctions of their rules (their order only
decides the wording of the reason).

A request of `AccessControl` is again the sequence of its statements.
`Refuse` and `Load` are the role check, the 404 checks and, for delegations,
the checks before the write; a user's `active` flag is read here and not
again. `AuthorizeGlobally`, `AuthorizeDelegate` (the first match by id, with
its audit row still uncommitted) and `DenyUndelegated` are
`authorize_access_action`; `Deny` and `Allow` look the assignment up and
evaluate the policy; `WriteGrant`, `WriteRevoke`, `WriteAssign` and
`WriteRemove` are the flush, which waits for uncommitted rows of the same key
or id and fails on committed ones; the four `Commit` actions apply the rows
with their audit entries; `Publish` publishes; `Reread` is the read of the new
assignment that ends a grant. `Row` is a row of `audit_events`, `request` its
correlation id; only a `delegated_action_allowed` row (`AllowedRow`) names a
delegation, as the code's does in its reason, and the row of a grant or a
revocation names none. The history variable `ended` notes at which request a
delegation was removed or expired, so that the log can be compared with the
delegations of the time. The environment expires a delegation (`Expire`),
changes a user's `active` flag as SCIM does (`SetActive`) and starts a
campaign that refers to every assignment (`Review`), after which the foreign
key makes a revocation fail.

### ScimUserPayload and ScimUsers

`ScimUserPayload` turns a request into a *mutation*, a value or UNSET for each
attribute: `ResourceMutation` for POST and PUT, `PatchMutation` for the
operations of a PATCH in their order, and `Parses` for what is refused with
400. Attribute names are model values; a value is Malformed where a converter
would raise.

`ScimUsers` runs the requests. `Ask` parses; `Load` reads the user;
`CheckName` looks for another user of the name; `WriteUser` flushes the user;
`LoadProfile` and `InsertProfile` fetch or create the profile; `CheckNumber`,
`FindManager` and `Walk` (one SELECT per hop) are the checks of the employee
number and of the manager; `SetProfile` flushes the profile and the
department; `Commit` makes the rows and one audit entry per changed part
visible; `Publish` publishes. A refusal rolls back and audits the denial in a
transaction of its own (`Deny`). `loaded` and `had` are the rows as the
session read them, `draft` and `changed` the columns it wrote because they
differ. `Waits` says which transaction a flush waits for: the holder of the
row, of a unique key, or of a user that a foreign key refers to and whose name
(the referenced key) is being changed. Two requests can wait for each other;
`BreakDeadlock` is PostgreSQL's detector, which aborts one of them with 500;
`Fail` is any other statement or commit that fails, at any moment before the
commit, and the refresh after `Publish` may turn the answer into 500 although
all is done.
`overlapped` records whether a request was ever received while another was in
flight; promises that no lock protects are stated for histories without.

### ScimGroups

A PATCH is applied to the collection in the session's memory, one operation at
a time (`Rename`, `ChangeMembers`), and reaches the tables in one flush, in
the order SQLAlchemy gives it: the group row (`WriteGroup`), then the INSERTs
of new memberships (`InsertMember`), then the DELETEs (`DeleteMembers`); then
`Commit`, `Publish`, and the `Reread` that formats the answer. `kept` and
`fresh` are the memberships of the collection that are rows and those that are
not yet; a new one carries the operations that were left to do when it was
added and its place in the operation that added it, which order the INSERTs. An operation without a path that gives both a name and members only
renames: the code takes the first attribute it finds. `Fail` is a statement
that raises a database error; `BreakDeadlock` as above.

### AuthorizationGraph, GraphCache and GraphQuery

`EdgesOf` says what a row of each table contributes, `Reads` is the order of
the 24 reads of a build, all nodes before any edges; the connectors come from
the registry rather than from a SELECT. `AddEdges` drops an edge that lacks an
end. `GraphCache` is the cache: `LoadCached` answers from it, `BeginBuild`
takes the lock, which is held through all `Read`s until `Install` or until a
SELECT fails (`Fail`); `Invalidate` and `Status` take the same lock, so they
wait while another thread builds. `Change` commits a change of the tables
between any two steps. `since` and `floor` are history: the number of changes
before the first read of a graph, and before the last invalidation that a
request can know of.

`GraphQuery` is the breadth-first search of `shortest_path` (`BeginPath`,
`Pop`, `Visit` for one edge, `Visited`, `NotFound`) and the loop of
`find_manager_chain` (`BeginChain`, `Climb`), on any graph and with any order
of edges (`Position`). The other queries filter the edges of one node.

## Runs

Passing runs:

| run | what it shows |
|---|---|
| `orchestrator` | two threads, against every kind of connector and call: the loop ends with `Outcome`; history replays to the job row, audit and delays agree with it; a job's events reach the shared list as one ordered stream, after the job ended; the job rows implement `ProvisioningJobs`; `execute` returns |
| `campaigns_serial` | requests one at a time, three campaigns with clashing names and an unknown reviewer: counters equal the rows, the decision on record is the last one audited, and the handlers implement `CertificationReview`, in which no two names are alike |
| `campaigns_races` | five requests, two at a time, with access revoked in between: item and decision tables agree, `completed_items` never overstates, a completed campaign is decided, reviewed access is still held, requests are answered |
| `remediation` | two workers, two requests each, a crash or a late decision, items on a connector that fails for longer than one execution retries, on a disabled and on a missing one: COMPLETED means revoked, access is revoked again only after a request was cut off, a finished request left everything on record, committed jobs are final, requests end |
| `access_control` | two handlers, three requests: grants by an administrator and a delegate, revocations by a delegate, changes of delegations, one expiry, (de)activation or campaign meanwhile: every change that succeeded can be justified from the audit log and the delegations in force when the request was made, the log accounts for all access and all uses of delegations, a revocation removed what it found |
| `scim_users` | two clients, up to three of seven requests: cycles of managers of two and of three users, numbers that differ in case, departments, a rename of a user to whom another request refers, refusals by every check, any statement failing; audit entries however requests overlap, and an answer to all of them in spite of cycles and locks |
| `scim_groups` | two clients, up to three of twelve requests, one of which adds, removes and replaces members before any is stored, one database failure: names, events that tell the whole story, members that the audit log explains, and no membership removed by a request that had not read it |
| `graph` | two threads load, refresh, invalidate and ask for the status while a change commits between two reads, one of which may fail; and all searches of every graph of five nodes with up to seven edges, with cycles of managers |

Runs that end in a violation state what the documentation says and TLC shows
the code to do otherwise (`findings` quotes the lines):

| run | what happens |
|---|---|
| `campaigns_closed` | a start that loaded DRAFT commits after a cancellation: the cancelled campaign is ACTIVE again. In the same way a decision that saw an ACTIVE campaign may commit after the campaign was closed |
| `remediation_links` | a job that never reached a connector is linked to the provisioning job of the item before it |
| `delegation_reassign` | remove a delegation, assign it again, remove it again: the second inactive row violates the unique constraint, and the delegate keeps the authority |
| `scim_groups_replace` | a PUT that keeps a member of the group inserts the member's new row before it deletes the old one: the unique constraint fails and the answer is 500 |

**Bounds.** In `orchestrator` one thread makes two calls, so that an execution
meets counters left by an earlier one (with four failures before success a
connector fails through one whole execution of `MaxAttempts = 3` and recovers
in the next), and the other makes one. The delays (100, cap 150) reach the cap
at the second retry. `MaxRequests` of campaigns (4 and 5) covers create, start
and three more overlapping requests; the interactions are pairwise, so two
clients and two assignments suffice for each. In `campaigns_serial` a single
client makes the requests one after the other. `MaxRuns = 2` and
`MaxFaults = 1` let a request be cut off and be repeated by the same and by
the other worker. `access_control` starts with one assignment and three
delegations of one delegate, the first of which hides the second, so that
three requests by two clients reach every pair of overlapping changes with one
that prepares them; `MaxChanges = 1` puts one expiry, deactivation or campaign
anywhere between. `scim_users` and `scim_groups` have `MaxRequests = 3` for
the same reason, over three users and an id to be provisioned, and over three
groups and four users; `scim_groups_replace` needs a single request. In
`graph` three requests are one that fills the cache, one that uses or
invalidates it and one that comes after; `MaxChanges = 1` and
`MaxFailures = 1` put a change and a failure between any two reads. Cache and
searches share no variable, so each is explored while the other rests. Five
nodes and seven edges contain a cycle of managers off the path of a user,
edges in both directions, and two ways of different length.
All clients stop at these bounds, so the models stop by design and the
configurations switch the deadlock check off; that no request is left waiting
is checked as liveness instead (`ExecuteReturns`, `RequestsAreAnswered`,
`RequestsEnd`, `RequestsAreServed`, `AllEnds`).

**Scope of some properties.** `CompletedIsDecided` is checked while no access
is granted: two racing starts take the same snapshot then. If an assignment is
granted between the snapshots of two racing starts, the second adds an item
that a completion which has already counted does not see, and the campaign is
COMPLETED with a pending item: TLC finds this trace once `"grant"` is among
the `Kinds` of `campaigns_races`. `ReviewIsImplemented` and the `RecordsAgree`
of the campaigns are stated for requests that do not overlap: two overlapping
decisions each store counters that lack the other. `ManagersAcyclic`,
`DepartmentsAgree`, `EventsTellMembership` and, for names that differ in case
only, `NamesUnique` and `NumbersUnique` are likewise stated for histories in
which no two requests overlap: the checks behind them take no lock, and the
model shows overlapping requests close a cycle of managers, store numbers that
differ only in case, and publish in another order than they commit. What holds
however they overlap is in `ChangesAreAudited`, `OnlySeenMembersGo`,
`MembersAreExplained`, the exact halves of the uniqueness properties and the
liveness properties.

**What `access_control` does not promise.** Authorisation takes the first
matching delegation by id, so a weaker one hides a stronger one and the policy
then denies; a delegation removed between the authorisation and the commit
still justifies the change (the log names it), and so does one that ended
while the request was under way, but not one that had ended before; an expired delegation blocks
its own replacement until it is removed, because the duplicate check ignores
it and the unique key does not; two overlapping revocations of one assignment
are both recorded as succeeded, so the log may hold more revocations than
grants, never fewer; a deactivated administrator can still change delegations,
because only the grant and revoke policy looks at `active`. The model has all
of these; no document says otherwise, so no property forbids them.

**Fairness.** Weak fairness of the steps of each thread (`Step`, `Serve`,
`QueryStep`): a handler that was started and is not waiting for a row or for
the lock keeps running, because it runs in its own thread and makes no other
blocking call. `Fail` is no part of `Step`: no failure is assumed to happen.
`Step` of the SCIM modules includes PostgreSQL's deadlock
detector, which acts after `deadlock_timeout` on its own. The cache's lock
needs no strong fairness, because clients make finitely many requests: every
holder releases it and the last waiter gets it. Nothing is assumed about
clients (`Begin`, `Load`, `Ask`), crashes, failures, grants, revocations or
changes of the tables.

## Theorems

All are proved for every value of the constants allowed by the named
assumptions (`ConnectorsAssumption`, `OrchestratorAssumption`,
`CampaignsAssumption`, `RemediationAssumption`, `PolicyAssumption`,
`AccessAssumption`, `ScimUsersAssumption`, `ScimGroupsAssumption`,
`WorkloadAssumption`, `GraphCacheAssumption`), which TLC evaluates in the
runs; none bounds the number of threads, rows or requests. Every safety
property of a passing run is the statement of a theorem:

| module | theorem | property | from the invariant |
|---|---|---|---|
| `ProvisioningOrchestratorProofs` | `TypeCorrect` | `TypeOK` | |
| | `RetryLoopCorrect` | `LoopComputesOutcome` | `LoopInv` |
| | `JobsImplementLifecycle` | `JobsFollowLifecycle` | `RowInv` |
| | `RecordsTellOneStory` | `RecordsAgree` | `StoryInv` |
| | `StreamsStayWhole` | `StreamsAreWhole` | `StreamInv` |
| `CertificationCampaignsProofs` | `TypeCorrect` | | `Control` |
| | `DecisionsComplete` | `ItemsAgreeWithDecisions` | `Tables` |
| | `ReviewedAccessKept` | `ReviewedAccessIsHeld` | `Tables` |
| | `NeverOverstated` | `CountersNeverOverstate` | `Bounded` |
| | `CompletionIsDecided` (with `GrantsWait`), `CompletionIsDecidedWithoutGrants` | `CompletedIsDecided` | `Totals` |
| | `SerialReview` (with `OneAtATime`) | `ReviewIsImplemented` | `Serial` |
| | `RecordsStayInAgreement` (with `OneAtATime`) | `RecordsAgree` | `ExactCounts`, `DecisionsMatchAudit` |
| `RemediationProofs` | `TypeCorrect` | `TypeOK` | `Control` |
| | `CommittedJobsAreFinal` | `JobsAreFinal` | `RowsAreExclusive` |
| | `CompletedJobsAreEarned` | `CompletedMeansRevoked` | `SuccessIsEarned` |
| | `RevokedOncePerLoss` | `RevokedAgainOnlyAfterLoss` | `Ledgers` |
| | `WorkIsSettled`; `OutcomesStayRecorded` (with `OwnCorrelations`) | `OutcomesAreRecorded` | `SettledAll`, `EventsKept`, `LinksKept` |
| `AccessControlProofs` | `TypeCorrect` | `TypeOK` | `ControlInv`, `KeyInv` |
| | `AccessIsJustified` | `ChangesAreJustified` | `NumberInv`, `EndInv`, `AuthorityInv` |
| | `RevocationTakesEffect` | `RevokedIsGone` | `IdInv` |
| | `AuditStaysComplete` | `AuditIsComplete` | `NumberInv`, `GrantInv`, `PairedInv`, `BalanceInv`, `EventInv` |
| `ScimUsersProofs` | `TypeCorrect` | `TypeOK` | `Sound` |
| | `NoCycles` | `ManagersAcyclic` | `Serial` |
| | `DepartmentsStayTogether` | `DepartmentsAgree` | `Serial` |
| | `NumbersStayUnique` | `NumbersUnique` | `Exact`, `Folded` |
| | `ChangesAudited` | `ChangesAreAudited` | `NumbersOK` |
| `ScimGroupsProofs` | `TypeCorrect` | `TypeOK` | `Sound` |
| | `MembersStayExplained` | `MembersAreExplained` | `IInv` |
| | `NoUnreadMemberGoes` | `OnlySeenMembersGo` | `IInv` |
| | `NamesStayUnique` | `NamesUnique` | `NamesApart`, `Serial` |
| | `EventsTellAll` | `EventsTellMembership` | `Serial` |
| `GraphCacheProofs` | `TypeCorrect` | `CacheTypeOK` | |
| | `InvalidationHonoured` | `InvalidationIsHonoured` | `Fresh` |
| | `GraphOfTheTables` | `GraphIsOfTheTables` | `Drafted` |
| `GraphQueryProofs` | `TypeCorrect` | (`QueryTypeOK`) | |
| | `AnswersCorrect` | `AnswersAreRight` | `Seeking`, `InHand` |
| | `ShortestFound` | `PathsAreShortest` | `Layered` |

Why the invariants are needed:

* **Orchestrator.** `LoopInv`: inside the loop every earlier attempt of the
  execution was recorded by the connector and failed transiently, so the last
  answer determines `Outcome`. `RowInv` ties the row's counters to the loop's,
  so that every step maps to one of the abstract job or to a stutter.
  `StoryInv` says of every job what its row, history and audit entries say of
  each other, in terms of counts of places: a step writes known rows, so every
  count grows by a known number. It adds to the property that the n-th retry
  row is about attempt n, that an unfinished job has no terminal row, and
  that an execution to come has written nothing. The delays between attempts
  are then monotone because `2^n` is the number of subsets of `1..n`.
  `StreamInv` says that until the job of an execution is published,
  `pending_events` holds one event per lifecycle row, in order, the publisher
  holds none of its job events, and the execution's other list holds no job
  event at all; one `publish_all` then makes the stream whole, and whatever
  else is published leaves it alone.
* **Campaigns.** `Tables` relates items, decisions and assignments with what
  requests are about to write. `Bounded`: a computed count is at most what the
  rows will hold when it is written, because items are never un-decided.
  `Totals`: overlapping starts of one campaign take the same snapshot, the one
  that flushes first determines the items, and the others insert nothing or fail. This fails
  when access is granted in between, hence the hypothesis `GrantsWait`: no
  grant commits while a start is in flight (or `"grant" \notin Kinds`, as in
  the run). `Serial`: what a request validated, the name among it, is still
  true when it commits. `OneAtATime` says that there is one client, whose
  requests form any serial history.
* **Remediation.** `RowsAreExclusive`: a row is drafted by at most one running
  request, and never both drafted and committed. `SuccessIsEarned`: behind
  every draft and pending result with success is its effect. `Ledger` accounts
  for each revocation of an item: a committed job, a running request, or one
  of the requests that were lost; since overlapping requests work on subsets
  of the same plan, each loss can cost one repetition. `SettledAll` and
  `EventsKept` say what a request that answered left behind and hold for any
  correlation ids; the link of a job to the provisioning job of its own item
  (`LinksKept`) needs `OwnCorrelations`, that no two requests use the same
  correlation id: the code looks the newest provisioning job up by it.
* **Access control.** `ControlInv`: what the checks of a running request left
  behind. `KeyInv`: an id drawn for a delegation is used once, so a stored
  delegation never changes its key. `EndInv`: a delegation that is no longer in
  force ended at a request made by then, and an end once noted stays.
  `AuthorityInv`: a request past its authorisation has an authority, by a
  delegate exactly if one was found, which was in force when the request was
  made; one past its decision obeys the policy, and what is on record stays
  justified because keys and ends are kept. `IdInv`: assignment
  ids are unique and no request has met an id that another one is about to
  insert. For the audit log: a request writes its entries once (`NumberInv`),
  an authorisation by delegation and its outcome together (`PairedInv`), no two
  requests insert the same access (`GrantInv`), so grants and revocations
  balance with what is held (`BalanceInv`), and an event follows its decision
  (`EventInv`).
* **SCIM users.** `Sound`: users and profiles are never deleted, a profile
  being inserted has one session. `Serial`: while no requests overlap a
  session's snapshot is the table, and what the walk has passed (`Vetted`) is
  a set of users that has the new manager, is closed under managers and lacks
  the user, so that no set of users without an outside manager can arise;
  stating acyclicity over sets avoids paths. `NumbersOK`: the entry a commit
  adds was not in the log before. `Exact` and `Folded`: rows and commits under
  way have different numbers, and while nothing overlaps also numbers that
  differ when case is ignored.
* **SCIM groups.** `Sound` says of each session what it may rely on whatever
  the others do: the collection in memory comes from rows it has read, the
  events tell exactly how the collection differs from what was loaded
  (`ToldOK`), and names and memberships flushed but not committed are in
  nobody else's way (`NamesApart`, `MembersApart`). `Serial` adds, while
  nothing has overlapped, that a snapshot is the table and that what consumers
  of the events know of a group is what the tables hold, or will be when the
  session that is about to publish has done so.
* **Graph.** A build holds the lock; `Fresh`: a build under way and a valid
  cached graph began after the last invalidation; `Drafted`: a build holds the
  rows read so far that stay, and nothing but rows that have been there. For
  the searches, `Seeking` and `InHand`: every visited node is queued, in hand
  or done with, and then all its neighbours are visited, so an empty queue
  leaves a closed set without the target. `Layered`: the visited nodes have
  levels, which differ by at most one along an edge and by which the queue is
  sorted, so no walk to the target is shorter than the trail found; walks are
  functions on `1..n`, compared by induction on `n`.

Two facts serve several proofs. A finite set of places grows by one when a
sequence grows by one, and ranks do not change (`PlacesGrow`, `RankGrows`):
this replaces every recursive definition of counting or filtering. And a set of
natural numbers has a least element (`LeastNatural`, `LeastElement`, from the
well-foundedness of `<`), which gives induction without the library's
theorems over operators.

**Only model-checked.** The liveness properties `ExecuteReturns`,
`RequestsAreAnswered`, `RequestsEnd`, `RequestsAreServed` and `AllEnds`: their
proofs need ENABLED, which the provers do not support. Everything is proved of
the model: that a definition says what the code does is for the reader of
`map` to check, and TLC shows on small instances that no property is vacuous
(each has a mutant of the code that breaks it). Inductive invariants were
checked with TLC on the instances of the runs before they were proved.

## Not modelled

* Reads (listings, summaries, health, exports and evidence of the graph, SCIM
  lookups and schemas) and text (prompts, messages, logs, metrics): they change
  no shared state. The SCIM query language translates parameters into one
  SELECT, a pure function better left to tests.
* AI providers, deployment, configuration, seeding and the frontend: I/O
  without a protocol of this program. Ranking and the token budget are one
  pass over a list.
* Release tracking: one row per process start. `record_current_release` looks
  for the newest record that agrees in its fields and inserts if there is
  none; two replicas that start together may both insert, and
  `docs/releases.md` promises that a restart records nothing twice. It shares
  nothing with the components above and is listed as a hazard.
* Inside the modelled components: time stamps, correlation ids except where
  remediation looks jobs up by them, wording of reasons, JWTs, and retries of
  requests by clients (a retry is another request).

See `components` for every part and its reason.

## Plan

1. The properties of the pure operators, `ScimUserPayload` and `AccessPolicy`,
   as theorems of their own: that a resource and the PATCH that spells it out
   ask for the same mutation, and which delegations a stronger one subsumes.
2. One statement for several components: that an execution that `Remediation`
   takes as one step is what the orchestrator does, as a refinement rather
   than through `Outcome`.
3. The handlers of `/scim/v2` routes and the token checks as part of the
   requests, if authentication is to be modelled beyond the role of an
   operator.
