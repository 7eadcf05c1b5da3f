----------------------- MODULE CertificationCampaigns -----------------------
(***************************************************************************)
(* Access-review campaigns (app/governance): CampaignService and           *)
(* ReviewService as the route handlers run them.  Handlers run in a thread *)
(* pool, each with its own session, against PostgreSQL at READ COMMITTED:  *)
(* a statement sees what was committed before it plus the session's own    *)
(* writes, an UPDATE names only the columns the session changed, and no    *)
(* row carries a version.  A request is therefore the sequence of its      *)
(* statements: it loads and validates, reads what it needs, counts, and    *)
(* commits, and other requests run in between.                             *)
(***************************************************************************)
EXTENDS Integers, FiniteSets, Sequences

CONSTANTS
    Clients,         \* concurrent request threads
    Campaigns,       \* campaign ids, each with the name it is created under
    Assignments,     \* AccessAssignment ids
    Spelling,        \* [Campaigns -> name]
    Lower,           \* [name -> name], lower() of a name
    UnknownReviewer, \* campaigns whose creation names no existing user
    InitiallyHeld,   \* assignments granted before the first request
    Kinds,           \* the kinds of request clients make
    MaxRequests,     \* requests made in all (bound)
    None

Decisions == {"APPROVE", "REVOKE", "ABSTAIN"}

ASSUME CampaignsAssumption ==
    /\ InitiallyHeld \subseteq Assignments
    /\ Kinds \subseteq {"create", "start", "complete", "cancel", "decide",
                        "grant", "revoke"}
    /\ MaxRequests \in Nat
    /\ None \notin Decisions /\ None \notin Assignments
    /\ IsFiniteSet(Assignments)

VARIABLES
    status, stamps, counts,  \* certification_campaigns
    item,                    \* certification_review_items.status
    decision,                \* certification_decisions.decision
    assignment,              \* access_assignments
    audit,                   \* audit rows, in commit order
    published,               \* DomainEventPublisher._events
    asked,                   \* number of requests made
    pc, ask,                 \* control state and request of each thread
    loaded, seen,            \* counters and decision it loaded
    new, counted,            \* items it inserts, counters it computed
    response

campaignRows == <<status, stamps, counts>>
rows == <<campaignRows, item, decision, assignment, audit>>
local == <<ask, loaded, seen, new, counted>>
vars == <<rows, published, asked, pc, local, response>>

-----------------------------------------------------------------------------
CampaignStatus == {"DRAFT", "ACTIVE", "COMPLETED", "CANCELLED"}

(* Mutant: a cancelled campaign can be started again. *)
TransitionsReopening(current) ==
    CASE current = "DRAFT"     -> {"ACTIVE", "CANCELLED"}
      [] current = "ACTIVE"    -> {"COMPLETED", "CANCELLED"}
      [] current = "CANCELLED" -> {"ACTIVE"}
      [] OTHER                 -> {}

VALID_CAMPAIGN_TRANSITIONS(current) ==
    CASE current = "DRAFT"  -> {"ACTIVE", "CANCELLED"}
      [] current = "ACTIVE" -> {"COMPLETED", "CANCELLED"}
      [] OTHER              -> {}   \* COMPLETED and CANCELLED are terminal

Lifecycle == {"create", "start", "complete", "cancel"}

(* The status a lifecycle request asks for, and the column it stamps. *)
Target(kind) == CASE kind = "create"   -> "DRAFT"
                  [] kind = "start"    -> "ACTIVE"
                  [] kind = "complete" -> "COMPLETED"
                  [] OTHER             -> "CANCELLED"

Stamp(kind) == CASE kind = "create"   -> "created_at"
                 [] kind = "start"    -> "started_at"
                 [] kind = "complete" -> "completed_at"
                 [] OTHER             -> "cancelled_at"

Counters == {"total_items", "completed_items", "approval_count",
             "revocation_count", "abstain_count"}
CounterOf(d) == CASE d = "APPROVE" -> "approval_count"
                  [] d = "REVOKE"  -> "revocation_count"
                  [] OTHER         -> "abstain_count"
Zero == [k \in Counters |-> 0]

(* The requests a client can make. *)
Asks ==
    LET LifecycleAsks == [kind : Kinds \cap Lifecycle, campaign : Campaigns,
                          item : {None}, decision : {None}]
        DecisionAsks  == [kind : Kinds \cap {"decide"}, campaign : Campaigns,
                          item : Assignments, decision : Decisions]
    IN  LifecycleAsks \cup DecisionAsks

NoAsk == [kind |-> "none", campaign |-> None, item |-> None, decision |-> None]

Init ==
    /\ status = [c \in Campaigns |-> "ABSENT"]
    /\ stamps = [c \in Campaigns |-> {}]
    /\ counts = [c \in Campaigns |-> Zero]
    /\ item = [c \in Campaigns |-> [a \in Assignments |-> "ABSENT"]]
    /\ decision = [c \in Campaigns |-> [a \in Assignments |-> None]]
    /\ assignment = [a \in Assignments |->
                        IF a \in InitiallyHeld THEN "held" ELSE "never"]
    /\ audit = <<>> /\ published = <<>>
    /\ asked = 0
    /\ pc = [r \in Clients |-> "idle"]
    /\ ask = [r \in Clients |-> NoAsk]
    /\ loaded = [r \in Clients |-> Zero]
    /\ seen = [r \in Clients |-> None]
    /\ new = [r \in Clients |-> {}]
    /\ counted = [r \in Clients |-> Zero]
    /\ response = [r \in Clients |-> "none"]

-----------------------------------------------------------------------------
(***************************************************************************)
(* The first statements of a request and the checks made on what they      *)
(* return: the HTTP answer of an early return, or "ok".                    *)
(***************************************************************************)
Items(c) == {a \in Assignments : item[c][a] # "ABSENT"}

(* Mutant of CheckCreate: the name check is that of the constraint.        *)
CheckCreateExactly(q) ==
    IF \E c \in Campaigns : status[c] # "ABSENT" /\ Spelling[c] = Spelling[q.campaign]
      THEN "conflict"
    ELSE IF q.campaign \in UnknownReviewer THEN "not_found"
    ELSE "ok"

CheckCreate(q) ==
    IF \E c \in Campaigns : /\ status[c] # "ABSENT"
                            /\ Lower[Spelling[c]] = Lower[Spelling[q.campaign]]
      THEN "conflict"
    ELSE IF q.campaign \in UnknownReviewer THEN "not_found"
    ELSE "ok"

CheckTransition(q) ==
    IF status[q.campaign] = "ABSENT" THEN "not_found"
    ELSE IF Target(q.kind) \notin VALID_CAMPAIGN_TRANSITIONS(status[q.campaign])
      THEN "conflict"
    ELSE "ok"

CheckDecision(q) ==
    IF q.item \notin Items(q.campaign) THEN "not_found"
    ELSE IF status[q.campaign] # "ACTIVE" THEN "conflict"
    ELSE "ok"

Check(q) ==
    CASE q.kind = "create" -> CheckCreate(q)
      [] q.kind = "decide" -> CheckDecision(q)
      [] OTHER             -> CheckTransition(q)

(* An id is drawn from a sequence: no two requests create the same campaign. *)
FreshId(q) ==
    q.kind = "create" =>
        /\ status[q.campaign] = "ABSENT"
        /\ \A r \in Clients : ~(/\ pc[r] # "idle" /\ ask[r].kind = "create"
                                /\ ask[r].campaign = q.campaign)

Ask(r, q) ==
    /\ pc[r] = "idle" /\ asked < MaxRequests
    /\ FreshId(q)
    /\ asked' = asked + 1

Refuse(r, q) ==
    /\ Ask(r, q)
    /\ Check(q) # "ok"
    /\ response' = [response EXCEPT ![r] = Check(q)]
    /\ UNCHANGED <<rows, published, pc, local>>

(* Mutant of FirstStep: record_decision does not recalculate the counters. *)
FirstStepWithoutRecount(kind) ==
    CASE kind = "start"    -> "snapshot"
      [] kind = "complete" -> "total"
      [] OTHER             -> "commit"

(* Where a request goes once its checks have passed. *)
FirstStep(kind) ==
    CASE kind = "start"    -> "snapshot"
      [] kind = "complete" -> "total"
      [] kind = "decide"   -> "write"
      [] OTHER             -> "commit"

Load(r, q) ==
    /\ Ask(r, q)
    /\ Check(q) = "ok"
    /\ ask' = [ask EXCEPT ![r] = q]
    /\ loaded' = [loaded EXCEPT ![r] = counts[q.campaign]]
    /\ counted' = [counted EXCEPT ![r] = counts[q.campaign]]
    /\ seen' = [seen EXCEPT ![r] = IF q.kind = "decide"
                                     THEN decision[q.campaign][q.item] ELSE None]
    /\ new' = [new EXCEPT ![r] = {}]
    /\ pc' = [pc EXCEPT ![r] = FirstStep(q.kind)]
    /\ response' = [response EXCEPT ![r] = "none"]
    /\ UNCHANGED <<rows, published>>

(* A request that answers an error rolls its session back. *)
Abort(r, answer) ==
    /\ pc' = [pc EXCEPT ![r] = "idle"]
    /\ response' = [response EXCEPT ![r] = answer]
    /\ UNCHANGED <<rows, published, asked, local>>

Goto(r, step) ==
    /\ pc' = [pc EXCEPT ![r] = step]
    /\ UNCHANGED <<rows, published, asked, response>>

(* Mutant of Snapshot: generate_review_items does not recalculate. *)
SnapshotWithoutRecount(r) ==
    /\ pc[r] = "snapshot"
    /\ Goto(r, "commit")
    /\ new' = [new EXCEPT ![r] = IF Items(ask[r].campaign) # {} THEN {}
                    ELSE {a \in Assignments : assignment[a] = "held"}]
    /\ UNCHANGED <<ask, loaded, seen, counted>>

(***************************************************************************)
(* generate_review_items: nothing, not even a recount, when the campaign   *)
(* already has items; else one new item per current assignment.            *)
(***************************************************************************)
Snapshot(r) ==
    /\ pc[r] = "snapshot"
    /\ IF Items(ask[r].campaign) # {}
         THEN Goto(r, "commit") /\ UNCHANGED new
         ELSE /\ Goto(r, "total")
              /\ new' = [new EXCEPT ![r] =
                            {a \in Assignments : assignment[a] = "held"}]
    /\ UNCHANGED <<ask, loaded, seen, counted>>

(* Mutant of Writing: requests queue for the item before they lock it. *)
WritingEarly(r) ==
    /\ ask[r].kind = "decide"
    /\ pc[r] \in {"write", "total", "completed", "decisions", "commit"}

(***************************************************************************)
(* record_decision flushes the decision and the item: it waits for another *)
(* transaction that has written the same item, and its INSERT violates the *)
(* unique key if a decision has been committed since the item was loaded.  *)
(***************************************************************************)
Writing(r) ==
    ask[r].kind = "decide" /\ pc[r] \in {"total", "completed", "decisions", "commit"}

ItemLocked(r) ==
    \E s \in Clients \ {r} : /\ Writing(s)
                             /\ ask[s].campaign = ask[r].campaign
                             /\ ask[s].item = ask[r].item

Write(r) ==
    LET q == ask[r] IN
    /\ pc[r] = "write"
    /\ ~ItemLocked(r)
    /\ IF seen[r] = None /\ decision[q.campaign][q.item] # None
         THEN Abort(r, "error")
         ELSE Goto(r, "total") /\ UNCHANGED local

(* Mutants of the two below: the status filter of the count is missing; an *)
(* existing decision is not updated.                                       *)
CompletedSeenUnfiltered(r) == Items(ask[r].campaign)
DecisionAfterFirst(r) == IF seen[r] = None THEN ask[r].decision ELSE seen[r]

(***************************************************************************)
(* _recalculate_campaign_counts: three statements, each with a snapshot of *)
(* its own.  A session sees its own uncommitted items and decision.        *)
(***************************************************************************)
CompletedSeen(r) ==
    {a \in Items(ask[r].campaign) : \/ item[ask[r].campaign][a] = "COMPLETED"
                                    \/ ask[r].kind = "decide" /\ a = ask[r].item}

(* The value an unchanged attribute keeps is the database's, not the one loaded. *)
DecisionAfter(r) ==
    LET q == ask[r]
    IN  IF q.decision = seen[r] THEN decision[q.campaign][q.item] ELSE q.decision

DecidedSeen(r, d) ==
    {a \in Assignments :
        IF ask[r].kind = "decide" /\ a = ask[r].item THEN DecisionAfter(r) = d
        ELSE decision[ask[r].campaign][a] = d}

Recounted(r, counter, n) ==
    [k \in Counters |-> IF k = counter THEN n ELSE counted[r][k]]

Counting(r, here, there, values) ==
    /\ pc[r] = here
    /\ counted' = [counted EXCEPT ![r] = values]
    /\ Goto(r, there)
    /\ UNCHANGED <<ask, loaded, seen, new>>

CountTotal(r) ==
    Counting(r, "total", "completed",
        Recounted(r, "total_items", Cardinality(Items(ask[r].campaign) \cup new[r])))

CountCompleted(r) ==
    Counting(r, "completed", "decisions",
        Recounted(r, "completed_items", Cardinality(CompletedSeen(r))))

(* Mutant of Incomplete: one undecided item is tolerated. *)
IncompleteByTwo(r) ==
    /\ ask[r].kind = "complete"
    /\ counted[r]["completed_items"] + 1 < counted[r]["total_items"]

(* complete_campaign goes no further while an item is undecided. *)
Incomplete(r) ==
    /\ ask[r].kind = "complete"
    /\ counted[r]["completed_items"] < counted[r]["total_items"]

CountDecisions(r) ==
    /\ ~Incomplete(r)
    /\ Counting(r, "decisions", "commit",
        [k \in Counters |->
            IF \E d \in Decisions : CounterOf(d) = k
              THEN Cardinality(DecidedSeen(r,
                        CHOOSE d \in Decisions : CounterOf(d) = k))
              ELSE counted[r][k]])

RefuseIncomplete(r) ==
    /\ pc[r] = "decisions" /\ Incomplete(r)
    /\ Abort(r, "conflict")

-----------------------------------------------------------------------------
(* The constraints that can fail when the request's rows reach the database. *)
DuplicateItem(r)  == \E a \in new[r] : item[ask[r].campaign][a] # "ABSENT"
DanglingUnchecked(r) == FALSE   \* mutant of DanglingItem: no foreign key
DanglingItem(r)   == \E a \in new[r] : assignment[a] # "held"
DuplicateName(r)  ==
    /\ ask[r].kind = "create"
    /\ \E c \in Campaigns : /\ status[c] # "ABSENT"
                            /\ Spelling[c] = Spelling[ask[r].campaign]

Violation(r) == DuplicateItem(r) \/ DanglingItem(r) \/ DuplicateName(r)

CommitFails(r) ==
    /\ pc[r] = "commit" /\ Violation(r)
    /\ Abort(r, "error")

(* The audit row and the event of a request carry the same facts. *)
Entry(r) == [kind |-> ask[r].kind, campaign |-> ask[r].campaign,
             item |-> ask[r].item, decision |-> ask[r].decision,
             update |-> seen[r] # None]

(* Only the counters whose value differs from the loaded one are in the UPDATE. *)
WriteCounts(r) ==
    counts' = [counts EXCEPT ![ask[r].campaign] =
                [k \in Counters |-> IF counted[r][k] # loaded[r][k]
                                      THEN counted[r][k] ELSE @[k]]]

Commit(r) ==
    /\ pc[r] = "commit" /\ ~Violation(r)
    /\ WriteCounts(r)
    /\ audit' = Append(audit, Entry(r))
    /\ pc' = [pc EXCEPT ![r] = "publish"]
    /\ UNCHANGED <<assignment, published, asked, local, response>>

CommitLifecycle(r) ==
    LET q == ask[r] IN
    /\ q.kind \in Lifecycle
    /\ Commit(r)
    /\ status' = [status EXCEPT ![q.campaign] = Target(q.kind)]
    /\ stamps' = [stamps EXCEPT ![q.campaign] = @ \cup {Stamp(q.kind)}]
    /\ item' = [item EXCEPT ![q.campaign] =
                    [a \in Assignments |-> IF a \in new[r] THEN "PENDING" ELSE @[a]]]
    /\ UNCHANGED decision

(* Mutant of CommitDecision: the item's status is not set. *)
CommitDecisionOnly(r) ==
    LET q == ask[r] IN
    /\ q.kind = "decide"
    /\ Commit(r)
    /\ decision' = [decision EXCEPT ![q.campaign][q.item] = DecisionAfter(r)]
    /\ UNCHANGED <<status, stamps, item>>

CommitDecision(r) ==
    LET q == ask[r] IN
    /\ q.kind = "decide"
    /\ Commit(r)
    /\ item' = [item EXCEPT ![q.campaign][q.item] = "COMPLETED"]
    /\ decision' = [decision EXCEPT ![q.campaign][q.item] = DecisionAfter(r)]
    /\ UNCHANGED <<status, stamps>>

(* The handler publishes after its commit, and answers. *)
Publish(r) ==
    /\ pc[r] = "publish"
    /\ published' = Append(published, Entry(r))
    /\ pc' = [pc EXCEPT ![r] = "idle"]
    /\ response' = [response EXCEPT ![r] = "ok"]
    /\ UNCHANGED <<rows, asked, local>>

(***************************************************************************)
(* Access is granted and revoked by other handlers meanwhile (app/main.py);*)
(* a revocation fails while a review item refers to the assignment.        *)
(***************************************************************************)
Grant(a) ==
    /\ "grant" \in Kinds /\ assignment[a] = "never"
    /\ assignment' = [assignment EXCEPT ![a] = "held"]
    /\ UNCHANGED <<campaignRows, item, decision, audit, published, asked, pc,
                   local, response>>

Revoke(a) ==
    /\ "revoke" \in Kinds /\ assignment[a] = "held"
    /\ \A c \in Campaigns : item[c][a] = "ABSENT"
    /\ assignment' = [assignment EXCEPT ![a] = "revoked"]
    /\ UNCHANGED <<campaignRows, item, decision, audit, published, asked, pc,
                   local, response>>

Step(r) ==
    \/ Snapshot(r) \/ Write(r)
    \/ CountTotal(r) \/ CountCompleted(r) \/ CountDecisions(r)
    \/ RefuseIncomplete(r)
    \/ CommitFails(r) \/ CommitLifecycle(r) \/ CommitDecision(r)
    \/ Publish(r)

Next ==
    \/ \E r \in Clients : Step(r) \/ \E q \in Asks : Refuse(r, q) \/ Load(r, q)
    \/ \E a \in Assignments : Grant(a) \/ Revoke(a)

Spec == Init /\ [][Next]_vars

(* A handler thread that was started keeps running until it answers. *)
FairSpec == Spec /\ \A r \in Clients : WF_vars(Step(r))
-----------------------------------------------------------------------------
(* Types of the state; the sets are the value sets of the ORM columns. *)
TypeOK ==
    /\ status \in [Campaigns -> CampaignStatus \cup {"ABSENT"}]
    /\ stamps \in [Campaigns -> SUBSET {Stamp(k) : k \in Lifecycle}]
    /\ counts \in [Campaigns -> [Counters -> Nat]]
    /\ item \in [Campaigns -> [Assignments -> {"ABSENT", "PENDING", "COMPLETED"}]]
    /\ decision \in [Campaigns -> [Assignments -> Decisions \cup {None}]]
    /\ assignment \in [Assignments -> {"never", "held", "revoked"}]
    /\ asked \in 0..MaxRequests
    /\ pc \in [Clients -> {"idle", "snapshot", "write", "total", "completed",
                           "decisions", "commit", "publish"}]
    /\ ask \in [Clients -> Asks \cup {NoAsk}]
    /\ loaded \in [Clients -> [Counters -> Nat]]
    /\ counted \in [Clients -> [Counters -> Nat]]
    /\ seen \in [Clients -> Decisions \cup {None}]
    /\ new \in [Clients -> SUBSET Assignments]

(***************************************************************************)
(* The two tables record_decision writes never drift apart: an item is     *)
(* COMPLETED exactly when it has a decision, whatever requests overlap.    *)
(***************************************************************************)
ItemsAgreeWithDecisions ==
    \A c \in Campaigns, a \in Assignments :
        item[c][a] = "COMPLETED" <=> decision[c][a] # None

(***************************************************************************)
(* Access under review is still held: a revocation racing the snapshot of  *)
(* start_campaign makes one of the two fail.                               *)
(***************************************************************************)
ReviewedAccessIsHeld ==
    \A c \in Campaigns, a \in Assignments :
        item[c][a] # "ABSENT" => assignment[a] = "held"

(***************************************************************************)
(* Lost updates make completed_items lag behind the rows, but it never     *)
(* overstates: a campaign is never shown as further than it is.            *)
(***************************************************************************)
CompletedItems(c) == {a \in Assignments : item[c][a] = "COMPLETED"}

CountersNeverOverstate ==
    \A c \in Campaigns :
        counts[c]["completed_items"] <= Cardinality(CompletedItems(c))

(* Every stored counter equals what _recalculate_campaign_counts would compute. *)
CountersMatchRows ==
    \A c \in Campaigns :
        /\ counts[c]["total_items"] = Cardinality(Items(c))
        /\ counts[c]["completed_items"] = Cardinality(CompletedItems(c))
        /\ \A d \in Decisions :
              counts[c][CounterOf(d)]
                = Cardinality({a \in Assignments : decision[c][a] = d})

(***************************************************************************)
(* The guarantee of POST .../complete: a completed campaign has a decision *)
(* for every review item, as long as no access is granted between the      *)
(* snapshots of two racing starts.  It rests on total_items, which is the  *)
(* number of review items however many starts race.                        *)
(***************************************************************************)
CompletedIsDecided ==
    \A c \in Campaigns :
        /\ counts[c]["total_items"] = Cardinality(Items(c))
        /\ status[c] = "COMPLETED" => Items(c) = CompletedItems(c)

(* The decision on record is the last one audited. *)
AuditedDecisions(c, a) == {k \in DOMAIN audit : audit[k].campaign = c /\ audit[k].item = a}

DecisionsMatchAudit ==
    \A c \in Campaigns, a \in Assignments :
        LET own == AuditedDecisions(c, a)
        IN  IF own = {} THEN decision[c][a] = None
            ELSE \E last \in own : /\ \A k \in own : k <= last
                                   /\ decision[c][a] = audit[last].decision

(***************************************************************************)
(* When no requests overlap, the stored counters and the stored decisions  *)
(* are those the rows and the audit log add up to.                         *)
(***************************************************************************)
RecordsAgree == CountersMatchRows /\ DecisionsMatchAudit

(***************************************************************************)
(* docs/access_reviews.md: "Invalid transitions are rejected.  Completed   *)
(* and cancelled campaigns no longer accept decisions": a COMPLETED or     *)
(* CANCELLED campaign keeps its status and its decisions.                  *)
(***************************************************************************)
ClosedIsFinal ==
    [][\A c \in Campaigns : status[c] \in {"COMPLETED", "CANCELLED"} =>
            status'[c] = status[c] /\ decision'[c] = decision[c]]_vars

(* Requests that wait for a locked item never wait for each other in a circle. *)
RequestsAreAnswered ==
    \A r \in Clients : pc[r] # "idle" ~> pc[r] = "idle"

(***************************************************************************)
(* One request at a time, the handlers implement the abstract review.      *)
(***************************************************************************)
Verdict == [c \in Campaigns |-> [a \in Assignments |->
                IF item[c][a] = "COMPLETED" THEN decision[c][a] ELSE item[c][a]]]

NameInLower == [c \in Campaigns |-> Lower[Spelling[c]]]

Review == INSTANCE CertificationReview WITH
            phase <- status, verdict <- Verdict, Name <- NameInLower

ReviewIsImplemented == Review!Spec
=============================================================================
