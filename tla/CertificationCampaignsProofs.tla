-------------------- MODULE CertificationCampaignsProofs --------------------
(***************************************************************************)
(* Proofs about CertificationCampaigns, for any number of clients,         *)
(* campaigns, assignments and requests.                                    *)
(***************************************************************************)
EXTENDS CertificationCampaigns, FiniteSetTheorems, TLAPS

-----------------------------------------------------------------------------
(* What a request is made of. *)
LEMMA AskFields ==
    ASSUME NEW q \in Asks
    PROVE  /\ q.campaign \in Campaigns
           /\ q.kind \in Lifecycle \cup {"decide"}
           /\ q.kind \in Lifecycle => q.item = None /\ q.decision = None
           /\ q.kind = "decide" => q.item \in Assignments /\ q.decision \in Decisions
BY DEF Asks, Lifecycle

(* The sets the counting statements count are finite. *)
LEMMA CountIsNat ==
    ASSUME NEW S \in SUBSET Assignments
    PROVE  IsFiniteSet(S) /\ Cardinality(S) \in Nat
<1>1. IsFiniteSet(S)
  BY FS_Subset, CampaignsAssumption DEF CampaignsAssumption
<1> QED BY <1>1, FS_CardinalityType

(***************************************************************************)
(* Control: where a thread is tells what its request asks for.             *)
(***************************************************************************)
Control ==
    \A r \in Clients : pc[r] # "idle" =>
        /\ ask[r] \in Asks
        /\ pc[r] = "snapshot" => ask[r].kind = "start"
        /\ pc[r] = "write" => ask[r].kind = "decide"
        /\ new[r] # {} => ask[r].kind = "start"
        /\ pc[r] \in {"total", "completed", "decisions"} =>
              ask[r].kind \in {"start", "complete", "decide"}

(* The steps that change neither campaigns, items nor decisions. *)
Quiet(r) == \/ \E q \in Asks : Refuse(r, q) \/ Load(r, q)
            \/ Snapshot(r) \/ Write(r)
            \/ CountTotal(r) \/ CountCompleted(r) \/ CountDecisions(r)
            \/ RefuseIncomplete(r) \/ CommitFails(r) \/ Publish(r)

LEMMA StepCases ==
    ASSUME Next
    PROVE  \/ \E r \in Clients : Quiet(r) \/ CommitLifecycle(r) \/ CommitDecision(r)
           \/ \E a \in Assignments : Grant(a) \/ Revoke(a)
BY DEF Next, Step, Quiet

LEMMA QuietRows ==
    ASSUME NEW r \in Clients, Quiet(r)
    PROVE  UNCHANGED <<status, stamps, counts, item, decision, assignment, audit>>
<1>1. CASE \E q \in Asks : Refuse(r, q) \/ Load(r, q)
  BY <1>1 DEF Refuse, Load, rows, campaignRows
<1>2. CASE Snapshot(r) \/ Write(r)
  BY <1>2 DEF Snapshot, Write, Abort, Goto, rows, campaignRows
<1>3. CASE CountTotal(r) \/ CountCompleted(r) \/ CountDecisions(r)
  BY <1>3 DEF CountTotal, CountCompleted, CountDecisions, Counting, Goto, rows, campaignRows
<1>4. CASE RefuseIncomplete(r) \/ CommitFails(r) \/ Publish(r)
  BY <1>4 DEF RefuseIncomplete, CommitFails, Publish, Abort, rows, campaignRows
<1> QED BY <1>1, <1>2, <1>3, <1>4 DEF Quiet

(* What a step of request r does to the control state: r moves, others stay. *)
LEMMA CountedType ==
    ASSUME TypeOK, NEW r \in Clients
    PROVE  /\ Items(ask[r].campaign) \cup new[r] \in SUBSET Assignments
           /\ CompletedSeen(r) \in SUBSET Assignments
           /\ \A d : DecidedSeen(r, d) \in SUBSET Assignments
BY DEF TypeOK, Items, CompletedSeen, DecidedSeen

-----------------------------------------------------------------------------
LEMMA TypeInit == Init => TypeOK /\ Control
<1> SUFFICES ASSUME Init PROVE TypeOK /\ Control OBVIOUS
<1>1. Control BY DEF Init, Control
<1>2. Zero \in [Counters -> Nat] BY DEF Zero
<1>3. TypeOK
  BY <1>2, CampaignsAssumption DEF Init, TypeOK, CampaignsAssumption
<1> QED BY <1>1, <1>3

LEMMA TypeStep == TypeOK /\ Control /\ [Next]_vars => TypeOK' /\ Control'
<1> SUFFICES ASSUME TypeOK, Control, [Next]_vars PROVE TypeOK' /\ Control'
  OBVIOUS
<1>1. CASE UNCHANGED vars
  BY <1>1 DEF vars, rows, campaignRows, local, TypeOK, Control
<1>2. ASSUME NEW r \in Clients, NEW q \in Asks, Refuse(r, q)
      PROVE  TypeOK' /\ Control'
  BY <1>2, CampaignsAssumption
  DEF Refuse, Ask, rows, campaignRows, local, TypeOK, Control, CampaignsAssumption
<1>3. ASSUME NEW r \in Clients, NEW q \in Asks, Load(r, q)
      PROVE  TypeOK' /\ Control'
  <2>1. /\ q.campaign \in Campaigns
        /\ q.kind \in Lifecycle \cup {"decide"}
        /\ q.kind = "decide" => q.item \in Assignments
    BY AskFields
  <2>2. counts[q.campaign] \in [Counters -> Nat]
    BY <2>1 DEF TypeOK
  <2>3. (IF q.kind = "decide" THEN decision[q.campaign][q.item] ELSE None)
            \in Decisions \cup {None}
    BY <2>1 DEF TypeOK
  <2>4. FirstStep(q.kind) \in {"snapshot", "total", "write", "commit"}
    BY DEF FirstStep
  <2>5. asked' \in 0..MaxRequests
    BY <1>3, CampaignsAssumption DEF Load, Ask, TypeOK, CampaignsAssumption
  <2>6. TypeOK'
    BY <1>3, <2>2, <2>3, <2>4, <2>5 DEF Load, rows, campaignRows, TypeOK
  <2>7. Control'
    <3>1. /\ FirstStep(q.kind) = "snapshot" => q.kind = "start"
          /\ FirstStep(q.kind) = "write" => q.kind = "decide"
          /\ FirstStep(q.kind) = "total" => q.kind = "complete"
      BY DEF FirstStep
    <3> QED BY <1>3, <2>4, <3>1 DEF Load, Control, TypeOK
  <2> QED BY <2>6, <2>7
<1>4. ASSUME NEW r \in Clients, Snapshot(r)
      PROVE  TypeOK' /\ Control'
  <2>1. PICK step \in {"commit", "total"} : Goto(r, step)
    BY <1>4 DEF Snapshot
  <2>2. new' \in [Clients -> SUBSET Assignments]
    <3> DEFINE held == {a \in Assignments : assignment[a] = "held"}
    <3>1. held \in SUBSET Assignments OBVIOUS
    <3>2. new' = new \/ new' = [new EXCEPT ![r] = held]
      BY <1>4 DEF Snapshot
    <3> HIDE DEF held
    <3> QED BY <3>1, <3>2 DEF TypeOK
  <2>3. /\ pc[r] = "snapshot" /\ pc' = [pc EXCEPT ![r] = step]
        /\ UNCHANGED <<ask, loaded, seen, counted>>
        /\ \A s \in Clients \ {r} : new'[s] = new[s]
    BY <1>4, <2>1 DEF Snapshot, Goto, TypeOK
  <2>4. TypeOK'
    BY <2>1, <2>2, <2>3 DEF Goto, rows, campaignRows, TypeOK
  <2>5. Control'
    BY <2>3 DEF TypeOK, Control
  <2> QED BY <2>4, <2>5
<1>5. ASSUME NEW r \in Clients, Write(r)
      PROVE  TypeOK' /\ Control'
  <2>1. CASE Abort(r, "error")
    <3>1. TypeOK'
      BY <2>1 DEF Abort, rows, campaignRows, local, TypeOK
    <3>2. Control'
      BY <2>1 DEF Abort, local, TypeOK, Control
    <3> QED BY <3>1, <3>2
  <2>2. CASE Goto(r, "total") /\ UNCHANGED local
    <3>1. TypeOK'
      BY <2>2 DEF Goto, rows, campaignRows, local, TypeOK
    <3>2. /\ pc[r] = "write" /\ pc' = [pc EXCEPT ![r] = "total"]
          /\ UNCHANGED <<ask, new>>
      BY <1>5, <2>2 DEF Write, Goto, local
    <3>3. Control'
      BY <3>2 DEF TypeOK, Control
    <3> QED BY <3>1, <3>3
  <2> QED BY <1>5, <2>1, <2>2 DEF Write
<1>6. ASSUME NEW r \in Clients, NEW here, NEW there, NEW values \in [Counters -> Nat],
             Counting(r, here, there, values),
             <<here, there>> \in {<<"total", "completed">>, <<"completed", "decisions">>,
                                  <<"decisions", "commit">>}
      PROVE  TypeOK' /\ Control'
  <2>1. here \in {"total", "completed", "decisions"} /\
        there \in {"completed", "decisions", "commit"}
    BY <1>6
  <2>2. TypeOK'
    BY <1>6, <2>1 DEF Counting, Goto, rows, campaignRows, TypeOK
  <2>3. Control'
    BY <1>6, <2>1 DEF Counting, Goto, TypeOK, Control
  <2> QED BY <2>2, <2>3
<1>7. ASSUME NEW r \in Clients, CountTotal(r)
      PROVE  TypeOK' /\ Control'
  <2>1. Recounted(r, "total_items", Cardinality(Items(ask[r].campaign) \cup new[r]))
            \in [Counters -> Nat]
    BY CountedType, CountIsNat DEF Recounted, TypeOK
  <2> QED BY <1>6, <1>7, <2>1 DEF CountTotal
<1>8. ASSUME NEW r \in Clients, CountCompleted(r)
      PROVE  TypeOK' /\ Control'
  <2>1. Recounted(r, "completed_items", Cardinality(CompletedSeen(r)))
            \in [Counters -> Nat]
    BY CountedType, CountIsNat DEF Recounted, TypeOK
  <2> QED BY <1>6, <1>8, <2>1 DEF CountCompleted
<1>9. ASSUME NEW r \in Clients, CountDecisions(r)
      PROVE  TypeOK' /\ Control'
  <2> DEFINE values == [k \in Counters |->
                IF \E d \in Decisions : CounterOf(d) = k
                  THEN Cardinality(DecidedSeen(r,
                            CHOOSE d \in Decisions : CounterOf(d) = k))
                  ELSE counted[r][k]]
  <2>1. \A d : Cardinality(DecidedSeen(r, d)) \in Nat
    BY CountedType, CountIsNat
  <2>2. values \in [Counters -> Nat]
    BY <2>1 DEF TypeOK
  <2>3. Counting(r, "decisions", "commit", values)
    BY <1>9 DEF CountDecisions
  <2> HIDE DEF values
  <2> QED BY <1>6, <2>2, <2>3
<1>10. ASSUME NEW r \in Clients, RefuseIncomplete(r) \/ CommitFails(r)
       PROVE  TypeOK' /\ Control'
  BY <1>10 DEF RefuseIncomplete, CommitFails, Abort, rows, campaignRows, local, TypeOK, Control
<1>11. ASSUME NEW r \in Clients, Publish(r)
       PROVE  TypeOK' /\ Control'
  BY <1>11 DEF Publish, rows, campaignRows, local, TypeOK, Control
<1>12. ASSUME NEW r \in Clients, Commit(r)
       PROVE  /\ Control'
              /\ counts' \in [Campaigns -> [Counters -> Nat]]
              /\ pc' \in [Clients -> {"idle", "snapshot", "write", "total", "completed",
                                      "decisions", "commit", "publish"}]
              /\ UNCHANGED <<assignment, asked, ask, loaded, counted, seen, new>>
  <2>1. UNCHANGED <<assignment, asked, ask, loaded, counted, seen, new>>
    BY <1>12 DEF Commit, local
  <2>2. Control'
    BY <1>12, <2>1 DEF Commit, TypeOK, Control
  <2>3. counts' \in [Campaigns -> [Counters -> Nat]]
    <3> DEFINE c == ask[r].campaign
               written == [k \in Counters |-> IF counted[r][k] # loaded[r][k]
                                THEN counted[r][k] ELSE counts[c][k]]
    <3>1. c \in Campaigns BY <1>12, AskFields DEF Commit, Control
    <3>2. written \in [Counters -> Nat] BY <3>1 DEF TypeOK
    <3>3. counts' = [counts EXCEPT ![c] = written]
      BY <1>12 DEF Commit, WriteCounts
    <3> HIDE DEF c, written
    <3> QED BY <3>1, <3>2, <3>3 DEF TypeOK
  <2>4. pc' \in [Clients -> {"idle", "snapshot", "write", "total", "completed",
                              "decisions", "commit", "publish"}]
    BY <1>12 DEF Commit, TypeOK
  <2> QED BY <2>1, <2>2, <2>3, <2>4
<1>13. ASSUME NEW r \in Clients, CommitLifecycle(r)
       PROVE  TypeOK' /\ Control'
  <2>1. Commit(r) BY <1>13 DEF CommitLifecycle
  <2>2. ask[r].kind \in Lifecycle BY <1>13 DEF CommitLifecycle
  <2>3. Target(ask[r].kind) \in CampaignStatus BY DEF Target, CampaignStatus
  <2>4. status' \in [Campaigns -> CampaignStatus \cup {"ABSENT"}]
    BY <1>13, <2>3 DEF CommitLifecycle, TypeOK
  <2>5. stamps' \in [Campaigns -> SUBSET {Stamp(k) : k \in Lifecycle}]
    BY <1>13, <2>2 DEF CommitLifecycle, TypeOK
  <2>6. item' \in [Campaigns -> [Assignments -> {"ABSENT", "PENDING", "COMPLETED"}]]
    BY <1>13 DEF CommitLifecycle, TypeOK
  <2>7. decision' = decision BY <1>13 DEF CommitLifecycle
  <2> QED BY <1>12, <2>1, <2>4, <2>5, <2>6, <2>7 DEF TypeOK
<1>14. ASSUME NEW r \in Clients, CommitDecision(r)
       PROVE  TypeOK' /\ Control'
  <2>1. Commit(r) /\ ask[r].kind = "decide" BY <1>14 DEF CommitDecision
  <2>2. ask[r] \in Asks BY <2>1 DEF Commit, Control
  <2>3. ask[r].campaign \in Campaigns /\ ask[r].item \in Assignments
           /\ ask[r].decision \in Decisions
    BY <2>1, <2>2, AskFields
  <2>4. DecisionAfter(r) \in Decisions \cup {None}
    BY <2>3 DEF DecisionAfter, TypeOK
  <2>5. decision' \in [Campaigns -> [Assignments -> Decisions \cup {None}]]
    BY <1>14, <2>3, <2>4 DEF CommitDecision, TypeOK
  <2>6. item' \in [Campaigns -> [Assignments -> {"ABSENT", "PENDING", "COMPLETED"}]]
    BY <1>14, <2>3 DEF CommitDecision, TypeOK
  <2>7. UNCHANGED <<status, stamps>> BY <1>14 DEF CommitDecision
  <2> QED BY <1>12, <2>1, <2>5, <2>6, <2>7 DEF TypeOK
<1>15. ASSUME NEW a \in Assignments, Grant(a) \/ Revoke(a)
       PROVE  TypeOK' /\ Control'
  BY <1>15 DEF Grant, Revoke, campaignRows, local, TypeOK, Control
<1> QED
  BY <1>1, <1>2, <1>3, <1>4, <1>5, <1>7, <1>8, <1>9, <1>10, <1>11, <1>13, <1>14, <1>15
  DEF Next, Step

(***************************************************************************)
(* Types are invariant: in particular no counter ever becomes negative and *)
(* no request is made beyond the bound.                                    *)
(***************************************************************************)
THEOREM TypeCorrect == Spec => []TypeOK
<1>1. TypeOK /\ Control /\ [Next]_vars => (TypeOK /\ Control)'
  BY TypeStep
<1> QED BY <1>1, TypeInit, PTL DEF Spec

-----------------------------------------------------------------------------
(***************************************************************************)
(* The tables under overlapping requests.  A decision request refers to an *)
(* existing item, and what it loaded as decided is still decided when it   *)
(* commits: without this record_decision could leave an item COMPLETED     *)
(* with no decision.                                                       *)
(***************************************************************************)
Deciding(r) == pc[r] # "idle" /\ ask[r].kind = "decide"

PendingDecision ==
    \A r \in Clients : Deciding(r) =>
        /\ item[ask[r].campaign][ask[r].item] # "ABSENT"
        /\ seen[r] # None => decision[ask[r].campaign][ask[r].item] # None

Tables == ItemsAgreeWithDecisions /\ ReviewedAccessIsHeld /\ PendingDecision

(* Except when it loads, a request keeps what it asked for and what it saw. *)
LEMMA QuietControl ==
    ASSUME TypeOK, NEW r \in Clients, Quiet(r)
    PROVE  \/ \E q \in Asks : Load(r, q)
           \/ /\ UNCHANGED <<ask, seen>>
              /\ \A s \in Clients : pc'[s] # "idle" => pc[s] # "idle"
<1>1. CASE \E q \in Asks : Refuse(r, q) \/ Load(r, q)
  BY <1>1 DEF Refuse, local
<1>2. CASE Snapshot(r) \/ Write(r)
  BY <1>2 DEF Snapshot, Write, Abort, Goto, local, TypeOK
<1>3. CASE CountTotal(r) \/ CountCompleted(r) \/ CountDecisions(r)
  BY <1>3 DEF CountTotal, CountCompleted, CountDecisions, Counting, Goto, TypeOK
<1>4. CASE RefuseIncomplete(r) \/ CommitFails(r) \/ Publish(r)
  BY <1>4 DEF RefuseIncomplete, CommitFails, Publish, Abort, local, TypeOK
<1> QED BY <1>1, <1>2, <1>3, <1>4 DEF Quiet

(* A committing request keeps its locals and moves on to publish. *)
LEMMA CommitControl ==
    ASSUME TypeOK, Control, NEW r \in Clients, Commit(r)
    PROVE  /\ UNCHANGED <<ask, seen, new, counted, assignment>>
           /\ \A s \in Clients : pc'[s] # "idle" => pc[s] # "idle"
           /\ pc[r] = "commit" /\ pc' = [pc EXCEPT ![r] = "publish"]
           /\ ask[r] \in Asks /\ ask[r].campaign \in Campaigns
<1>1. ask[r] \in Asks BY DEF Commit, Control
<1> QED BY <1>1, AskFields DEF Commit, local, TypeOK

(* The items and decisions a committing request leaves behind. *)
LEMMA LifecycleRows ==
    ASSUME TypeOK, Control, NEW r \in Clients, CommitLifecycle(r)
    PROVE  /\ Commit(r) /\ UNCHANGED decision
           /\ \A a \in new[r] : /\ item[ask[r].campaign][a] = "ABSENT"
                                /\ assignment[a] = "held"
           /\ \A c \in Campaigns, a \in Assignments :
                 item'[c][a] = IF c = ask[r].campaign /\ a \in new[r]
                                 THEN "PENDING" ELSE item[c][a]
<1>1. Commit(r) /\ UNCHANGED decision BY DEF CommitLifecycle
<1>2. \A a \in new[r] : item[ask[r].campaign][a] = "ABSENT" /\ assignment[a] = "held"
  BY <1>1 DEF Commit, Violation, DuplicateItem, DanglingItem
<1>3. item' = [item EXCEPT ![ask[r].campaign] =
                [a \in Assignments |->
                    IF a \in new[r] THEN "PENDING" ELSE item[ask[r].campaign][a]]]
  BY DEF CommitLifecycle
<1>4. ask[r].campaign \in Campaigns BY <1>1, CommitControl
<1>5. \A c \in Campaigns, a \in Assignments :
          item'[c][a] = IF c = ask[r].campaign /\ a \in new[r]
                          THEN "PENDING" ELSE item[c][a]
  BY <1>3, <1>4 DEF TypeOK
<1> QED BY <1>1, <1>2, <1>5

LEMMA DecisionRows ==
    ASSUME TypeOK, Control, Tables, NEW r \in Clients, CommitDecision(r)
    PROVE  /\ Commit(r) /\ UNCHANGED <<status, stamps>>
           /\ ask[r].item \in Assignments
           /\ item[ask[r].campaign][ask[r].item] # "ABSENT"
           /\ DecisionAfter(r) \in Decisions
           /\ item' = [item EXCEPT ![ask[r].campaign][ask[r].item] = "COMPLETED"]
           /\ decision' = [decision EXCEPT ![ask[r].campaign][ask[r].item] =
                                                DecisionAfter(r)]
<1>1. Commit(r) /\ ask[r].kind = "decide" BY DEF CommitDecision
<1>2. /\ ask[r] \in Asks /\ ask[r].campaign \in Campaigns
      /\ ask[r].item \in Assignments /\ ask[r].decision \in Decisions
  BY <1>1, CommitControl, AskFields
<1>3. Deciding(r) BY <1>1 DEF Commit, Deciding
<1>4. DecisionAfter(r) \in Decisions
  <2>1. CASE ask[r].decision # seen[r]
    BY <2>1, <1>2 DEF DecisionAfter
  <2>2. CASE ask[r].decision = seen[r]
    <3>1. seen[r] # None BY <2>2, <1>2, CampaignsAssumption DEF CampaignsAssumption
    <3>2. decision[ask[r].campaign][ask[r].item] # None
      BY <3>1, <1>3 DEF Tables, PendingDecision
    <3>3. decision[ask[r].campaign][ask[r].item] \in Decisions
      BY <3>2, <1>2 DEF TypeOK
    <3> QED BY <2>2, <3>3 DEF DecisionAfter
  <2> QED BY <2>1, <2>2
<1>5. item[ask[r].campaign][ask[r].item] # "ABSENT"
  BY <1>3 DEF Tables, PendingDecision
<1> QED BY <1>1, <1>2, <1>4, <1>5 DEF CommitDecision

LEMMA TablesInit == Init => Tables
<1> SUFFICES ASSUME Init PROVE Tables OBVIOUS
<1>1. ItemsAgreeWithDecisions BY DEF Init, ItemsAgreeWithDecisions
<1>2. ReviewedAccessIsHeld BY DEF Init, ReviewedAccessIsHeld
<1>3. PendingDecision BY DEF Init, PendingDecision, Deciding
<1> QED BY <1>1, <1>2, <1>3 DEF Tables

LEMMA TablesStep == TypeOK /\ Control /\ Tables /\ [Next]_vars => Tables'
<1> SUFFICES ASSUME TypeOK, Control, Tables, [Next]_vars PROVE Tables' OBVIOUS
<1>1. CASE UNCHANGED vars
  BY <1>1 DEF vars, rows, campaignRows, local, Tables, ItemsAgreeWithDecisions,
              ReviewedAccessIsHeld, PendingDecision, Deciding
<1>2. ASSUME NEW r \in Clients, Quiet(r) PROVE Tables'
  <2>1. UNCHANGED <<item, decision, assignment>> BY <1>2, QuietRows
  <2>2. (ItemsAgreeWithDecisions /\ ReviewedAccessIsHeld)'
    BY <2>1 DEF Tables, ItemsAgreeWithDecisions, ReviewedAccessIsHeld
  <2>3. PendingDecision'
    <3>1. CASE \E q \in Asks : Load(r, q)
      <4>1. PICK q \in Asks : Load(r, q) BY <3>1
      <4>2. /\ ask' = [ask EXCEPT ![r] = q]
            /\ seen' = [seen EXCEPT ![r] = IF q.kind = "decide"
                            THEN decision[q.campaign][q.item] ELSE None]
            /\ \A s \in Clients \ {r} : pc'[s] = pc[s]
        BY <4>1 DEF Load, TypeOK
      <4>3. q.kind = "decide" => item[q.campaign][q.item] # "ABSENT"
        BY <4>1 DEF Load, Check, CheckDecision, Items
      <4> QED BY <2>1, <4>2, <4>3 DEF PendingDecision, Deciding, Tables, TypeOK
    <3>2. CASE /\ UNCHANGED <<ask, seen>>
               /\ \A s \in Clients : pc'[s] # "idle" => pc[s] # "idle"
      BY <2>1, <3>2 DEF PendingDecision, Deciding, Tables
    <3> QED BY <1>2, <3>1, <3>2, QuietControl
  <2> QED BY <2>2, <2>3 DEF Tables
<1>3. ASSUME NEW r \in Clients, CommitLifecycle(r) PROVE Tables'
  <2>1. /\ UNCHANGED <<ask, seen, assignment, decision>>
        /\ \A s \in Clients : pc'[s] # "idle" => pc[s] # "idle"
    BY <1>3, LifecycleRows, CommitControl
  <2>2. ItemsAgreeWithDecisions'
    BY <1>3, <2>1, LifecycleRows DEF Tables, ItemsAgreeWithDecisions
  <2>3. ReviewedAccessIsHeld'
    BY <1>3, <2>1, LifecycleRows DEF Tables, ReviewedAccessIsHeld
  <2>4. \A c \in Campaigns, a \in Assignments :
            item[c][a] # "ABSENT" => item'[c][a] # "ABSENT"
    BY <1>3, LifecycleRows
  <2>5. PendingDecision'
    <3> SUFFICES ASSUME NEW s \in Clients, Deciding(s)'
                 PROVE  /\ item'[ask[s].campaign][ask[s].item] # "ABSENT"
                        /\ seen[s] # None => decision[ask[s].campaign][ask[s].item] # None
      BY <2>1 DEF PendingDecision
    <3>1. Deciding(s) BY <2>1 DEF Deciding
    <3>2. ask[s].campaign \in Campaigns /\ ask[s].item \in Assignments
      BY <3>1, AskFields DEF Deciding, Control
    <3> QED BY <2>4, <3>1, <3>2 DEF Tables, PendingDecision
  <2> QED BY <2>2, <2>3, <2>5 DEF Tables
<1>4. ASSUME NEW r \in Clients, CommitDecision(r) PROVE Tables'
  <2> DEFINE c0 == ask[r].campaign
             a0 == ask[r].item
  <2>1. Commit(r) BY <1>4, DecisionRows
  <2>2. /\ UNCHANGED <<ask, seen, assignment>>
        /\ \A s \in Clients : pc'[s] # "idle" => pc[s] # "idle"
        /\ c0 \in Campaigns
    BY <2>1, CommitControl
  <2>3. /\ a0 \in Assignments /\ item[c0][a0] # "ABSENT"
        /\ DecisionAfter(r) \in Decisions
        /\ item' = [item EXCEPT ![c0][a0] = "COMPLETED"]
        /\ decision' = [decision EXCEPT ![c0][a0] = DecisionAfter(r)]
    BY <1>4, DecisionRows
  <2> HIDE DEF c0, a0
  <2>4. \A c \in Campaigns, a \in Assignments :
           /\ item'[c][a] = IF c = c0 /\ a = a0 THEN "COMPLETED" ELSE item[c][a]
           /\ decision'[c][a] = IF c = c0 /\ a = a0 THEN DecisionAfter(r)
                                                  ELSE decision[c][a]
    BY <2>2, <2>3 DEF TypeOK
  <2>5. DecisionAfter(r) # None
    BY <2>3, CampaignsAssumption DEF CampaignsAssumption
  <2>6. ItemsAgreeWithDecisions'
    BY <2>4, <2>5 DEF Tables, ItemsAgreeWithDecisions
  <2>7. ReviewedAccessIsHeld'
    BY <2>2, <2>3, <2>4 DEF Tables, ReviewedAccessIsHeld
  <2>8. PendingDecision'
    <3> SUFFICES ASSUME NEW s \in Clients, Deciding(s)'
                 PROVE  /\ item'[ask[s].campaign][ask[s].item] # "ABSENT"
                        /\ seen[s] # None => decision'[ask[s].campaign][ask[s].item] # None
      BY <2>2 DEF PendingDecision
    <3>1. Deciding(s) BY <2>2 DEF Deciding
    <3>2. ask[s].campaign \in Campaigns /\ ask[s].item \in Assignments
      BY <3>1, AskFields DEF Deciding, Control
    <3> QED BY <2>4, <2>5, <3>1, <3>2 DEF Tables, PendingDecision
  <2> QED BY <2>6, <2>7, <2>8 DEF Tables
<1>5. ASSUME NEW a \in Assignments, Grant(a) \/ Revoke(a) PROVE Tables'
  <2>1. UNCHANGED <<item, decision, pc, ask, seen>>
    BY <1>5 DEF Grant, Revoke, local
  <2>2. ReviewedAccessIsHeld'
    BY <1>5, <2>1 DEF Grant, Revoke, TypeOK, Tables, ReviewedAccessIsHeld
  <2> QED BY <2>1, <2>2 DEF Tables, ItemsAgreeWithDecisions, PendingDecision, Deciding
<1> QED BY <1>1, <1>2, <1>3, <1>4, <1>5, StepCases

(***************************************************************************)
(* However many requests overlap, an item is COMPLETED exactly when it has *)
(* a decision, and access under review is still held.                      *)
(***************************************************************************)
LEMMA TablesInvariant == Spec => [](TypeOK /\ Control /\ Tables)
<1>1. TypeOK /\ Control /\ Tables /\ [Next]_vars => (TypeOK /\ Control /\ Tables)'
  BY TypeStep, TablesStep
<1> QED BY <1>1, TypeInit, TablesInit, PTL DEF Spec

THEOREM DecisionsComplete == Spec => []ItemsAgreeWithDecisions
<1>1. Tables => ItemsAgreeWithDecisions BY DEF Tables
<1> QED BY <1>1, TablesInvariant, PTL

(* A revocation of access never wins against a campaign that reviews it. *)
THEOREM ReviewedAccessKept == Spec => []ReviewedAccessIsHeld
<1>1. Tables => ReviewedAccessIsHeld BY DEF Tables
<1> QED BY <1>1, TablesInvariant, PTL

-----------------------------------------------------------------------------
(***************************************************************************)
(* Requests that do not overlap.  Then what a request validated when it    *)
(* loaded still holds when it commits, and complete_campaign's counters    *)
(* are exact: this is the inductive invariant behind the refinement.       *)
(***************************************************************************)
OneAtATime == \A r, s \in Clients : r = s

NameFree(c) ==
    \A d \in Campaigns : status[d] # "ABSENT" => Lower[Spelling[d]] # Lower[Spelling[c]]

Validated(r) ==
    LET c == ask[r].campaign IN
    /\ ask[r].kind = "create" => status[c] = "ABSENT" /\ NameFree(c)
    /\ ask[r].kind = "start" => status[c] = "DRAFT"
    /\ ask[r].kind \in {"complete", "decide"} => status[c] = "ACTIVE"
    /\ ask[r].kind = "cancel" => status[c] \in {"DRAFT", "ACTIVE"}

CountedFor(r) ==
    LET c == ask[r].campaign IN
    ask[r].kind = "complete" =>
        /\ pc[r] \in {"completed", "decisions", "commit"} =>
              counted[r]["total_items"] = Cardinality(Items(c))
        /\ pc[r] \in {"decisions", "commit"} =>
              counted[r]["completed_items"] = Cardinality(CompletedItems(c))
        /\ pc[r] = "commit" =>
              counted[r]["completed_items"] >= counted[r]["total_items"]

ItemsFollowStart ==
    \A c \in Campaigns : status[c] \in {"ABSENT", "DRAFT"} =>
        \A a \in Assignments : item[c][a] = "ABSENT"

Serial ==
    /\ ItemsFollowStart
    /\ \A r \in Clients : pc[r] \notin {"idle", "publish"} =>
          Validated(r) /\ CountedFor(r)

LEMMA Targets ==
    /\ Target("create") = "DRAFT" /\ Target("start") = "ACTIVE"
    /\ Target("complete") = "COMPLETED" /\ Target("cancel") = "CANCELLED"
BY DEF Target

LEMMA Transitions ==
    ASSUME NEW s, NEW t, t \in VALID_CAMPAIGN_TRANSITIONS(s)
    PROVE  \/ s = "DRAFT" /\ t \in {"ACTIVE", "CANCELLED"}
           \/ s = "ACTIVE" /\ t \in {"COMPLETED", "CANCELLED"}
BY DEF VALID_CAMPAIGN_TRANSITIONS

(* What the checks on loading establish. *)
LEMMA LoadValidates ==
    ASSUME NEW q \in Asks, FreshId(q), Check(q) = "ok"
    PROVE  /\ q.kind = "create" => status[q.campaign] = "ABSENT" /\ NameFree(q.campaign)
           /\ q.kind = "start" => status[q.campaign] = "DRAFT"
           /\ q.kind \in {"complete", "decide"} => status[q.campaign] = "ACTIVE"
           /\ q.kind = "cancel" => status[q.campaign] \in {"DRAFT", "ACTIVE"}
<1>1. q.kind = "create" => status[q.campaign] = "ABSENT" /\ NameFree(q.campaign)
  BY DEF FreshId, Check, CheckCreate, NameFree
<1>2. q.kind = "decide" => status[q.campaign] = "ACTIVE"
  BY DEF Check, CheckDecision
<1>3. ASSUME q.kind \in {"start", "complete", "cancel"}
      PROVE  Target(q.kind) \in VALID_CAMPAIGN_TRANSITIONS(status[q.campaign])
  BY <1>3 DEF Check, CheckTransition
<1>4. q.kind \in {"start", "complete", "cancel"} =>
          \/ status[q.campaign] = "DRAFT" /\ Target(q.kind) \in {"ACTIVE", "CANCELLED"}
          \/ status[q.campaign] = "ACTIVE" /\ Target(q.kind) \in {"COMPLETED", "CANCELLED"}
  BY <1>3, Transitions
<1> QED BY <1>1, <1>2, <1>4, Targets

(* A recount of a complete request, which inserts nothing, is exact. *)
LEMMA ExactCount ==
    ASSUME TypeOK, Control, NEW r \in Clients, pc[r] # "idle", ask[r].kind = "complete"
    PROVE  /\ Items(ask[r].campaign) \cup new[r] = Items(ask[r].campaign)
           /\ CompletedSeen(r) = CompletedItems(ask[r].campaign)
<1>1. new[r] = {} BY DEF Control
<1>2. CompletedSeen(r) = CompletedItems(ask[r].campaign)
  BY DEF CompletedSeen, CompletedItems, Items
<1> QED BY <1>1, <1>2

LEMMA SerialInit == Init => Serial
BY DEF Init, Serial, ItemsFollowStart

(* A step that leaves the rows alone and only moves request r. *)
LEMMA SerialMove ==
    ASSUME Serial, UNCHANGED <<status, item, ask, counted>>,
           \A s \in Clients : pc'[s] \in {"idle", "publish", pc[s]}
    PROVE  Serial'
<1>1. ItemsFollowStart' BY DEF Serial, ItemsFollowStart
<1>2. \A c : Items(c)' = Items(c) /\ CompletedItems(c)' = CompletedItems(c)
  BY DEF Items, CompletedItems
<1>3. ASSUME NEW r \in Clients, pc'[r] \notin {"idle", "publish"}
      PROVE  Validated(r)' /\ CountedFor(r)'
  <2>1. pc'[r] = pc[r] /\ Validated(r) /\ CountedFor(r) BY <1>3 DEF Serial
  <2>2. Validated(r)' BY <2>1 DEF Validated, NameFree
  <2>3. CountedFor(r)' BY <1>2, <2>1 DEF CountedFor
  <2> QED BY <2>2, <2>3
<1> QED BY <1>1, <1>3 DEF Serial

LEMMA SerialStep ==
    OneAtATime /\ TypeOK /\ Control /\ Tables /\ Serial /\ [Next]_vars => Serial'
<1> SUFFICES ASSUME OneAtATime, TypeOK, Control, Tables, Serial, [Next]_vars
             PROVE  Serial'
  OBVIOUS
<1>1. CASE UNCHANGED vars
  BY <1>1, SerialMove DEF vars, rows, campaignRows, local
<1>2. ASSUME NEW r \in Clients, NEW q \in Asks, Refuse(r, q) PROVE Serial'
  BY <1>2, SerialMove DEF Refuse, rows, campaignRows, local
<1>3. ASSUME NEW r \in Clients, NEW q \in Asks, Load(r, q) PROVE Serial'
  <2>1. /\ UNCHANGED <<status, item>> /\ ask' = [ask EXCEPT ![r] = q]
        /\ pc' = [pc EXCEPT ![r] = FirstStep(q.kind)]
        /\ FreshId(q) /\ Check(q) = "ok"
    BY <1>3 DEF Load, Ask, rows, campaignRows
  <2>2. \A s \in Clients : s = r BY DEF OneAtATime
  <2>3. ask'[r] = q /\ pc'[r] = FirstStep(q.kind) BY <2>1 DEF TypeOK
  <2>4. Validated(r)' BY <2>1, <2>3, LoadValidates DEF Validated, NameFree
  <2>5. FirstStep(q.kind) \in {"snapshot", "total", "write", "commit"}
        /\ (q.kind = "complete" => FirstStep(q.kind) = "total")
    BY DEF FirstStep
  <2>6. CountedFor(r)' BY <2>3, <2>5 DEF CountedFor
  <2> QED BY <2>1, <2>2, <2>4, <2>6 DEF Serial, ItemsFollowStart
<1>4. ASSUME NEW r \in Clients, pc[r] \notin {"idle", "publish"},
             UNCHANGED <<status, item, ask>>, CountedFor(r)'
      PROVE  Serial'
  <2>1. \A s \in Clients : s = r BY DEF OneAtATime
  <2>2. Validated(r)' BY <1>4 DEF Serial, Validated, NameFree
  <2> QED BY <1>4, <2>1, <2>2 DEF Serial, ItemsFollowStart
<1>5. ASSUME NEW r \in Clients, Snapshot(r) \/ Write(r) PROVE Serial'
  <2>1. pc[r] \in {"snapshot", "write"} /\ ask[r].kind # "complete"
    BY <1>5 DEF Snapshot, Write, Control
  <2>2. UNCHANGED <<status, item, ask>>
    BY <1>5 DEF Snapshot, Write, Abort, Goto, rows, campaignRows, local
  <2>3. CountedFor(r)' BY <2>1, <2>2 DEF CountedFor
  <2> QED BY <1>4, <2>1, <2>2, <2>3
<1>6. ASSUME NEW r \in Clients, CountTotal(r) PROVE Serial'
  <2>1. /\ pc[r] = "total" /\ pc' = [pc EXCEPT ![r] = "completed"]
        /\ UNCHANGED <<status, item, ask>>
        /\ counted' = [counted EXCEPT ![r] = Recounted(r, "total_items",
                            Cardinality(Items(ask[r].campaign) \cup new[r]))]
    BY <1>6 DEF CountTotal, Counting, Goto, rows, campaignRows
  <2>2. counted'[r]["total_items"] = Cardinality(Items(ask[r].campaign) \cup new[r])
    BY <2>1 DEF TypeOK, Recounted, Counters
  <2>3. pc'[r] = "completed" BY <2>1 DEF TypeOK
  <2>4. CountedFor(r)'
    BY <2>1, <2>2, <2>3, ExactCount DEF CountedFor, Items
  <2> QED BY <1>4, <2>1, <2>4
<1>7. ASSUME NEW r \in Clients, CountCompleted(r) PROVE Serial'
  <2>1. /\ pc[r] = "completed" /\ pc' = [pc EXCEPT ![r] = "decisions"]
        /\ UNCHANGED <<status, item, ask>>
        /\ counted' = [counted EXCEPT ![r] = Recounted(r, "completed_items",
                                            Cardinality(CompletedSeen(r)))]
    BY <1>7 DEF CountCompleted, Counting, Goto, rows, campaignRows
  <2>2. /\ counted'[r]["completed_items"] = Cardinality(CompletedSeen(r))
        /\ counted'[r]["total_items"] = counted[r]["total_items"]
    BY <2>1 DEF TypeOK, Recounted, Counters
  <2>3. pc'[r] = "decisions" BY <2>1 DEF TypeOK
  <2>4. CountedFor(r) BY <2>1 DEF Serial
  <2>5. CountedFor(r)'
    BY <2>1, <2>2, <2>3, <2>4, ExactCount DEF CountedFor, Items, CompletedItems
  <2> QED BY <1>4, <2>1, <2>5
<1>8. ASSUME NEW r \in Clients, CountDecisions(r) PROVE Serial'
  <2>1. /\ pc[r] = "decisions" /\ pc' = [pc EXCEPT ![r] = "commit"]
        /\ UNCHANGED <<status, item, ask>> /\ ~Incomplete(r)
    BY <1>8 DEF CountDecisions, Counting, Goto, rows, campaignRows
  <2>2. /\ counted'[r]["completed_items"] = counted[r]["completed_items"]
        /\ counted'[r]["total_items"] = counted[r]["total_items"]
    <3>1. \A d \in Decisions : CounterOf(d) \notin {"completed_items", "total_items"}
      BY DEF CounterOf
    <3> QED BY <1>8, <3>1 DEF CountDecisions, Counting, TypeOK, Counters
  <2>3. pc'[r] = "commit" BY <2>1 DEF TypeOK
  <2>4. CountedFor(r) BY <2>1 DEF Serial
  <2>5. counted[r]["completed_items"] \in Nat /\ counted[r]["total_items"] \in Nat
    BY DEF TypeOK, Counters
  <2>6. CountedFor(r)'
    BY <2>1, <2>2, <2>3, <2>4, <2>5 DEF CountedFor, Items, CompletedItems, Incomplete
  <2> QED BY <1>4, <2>1, <2>6
<1>9. ASSUME NEW r \in Clients, RefuseIncomplete(r) \/ CommitFails(r) \/ Publish(r)
      PROVE  Serial'
  BY <1>9, SerialMove DEF RefuseIncomplete, CommitFails, Publish, Abort, rows, campaignRows,
                          local, TypeOK
<1>10. ASSUME NEW r \in Clients, CommitLifecycle(r) PROVE Serial'
  <2>1. Commit(r) /\ ask[r].kind \in Lifecycle
        /\ status' = [status EXCEPT ![ask[r].campaign] = Target(ask[r].kind)]
    BY <1>10 DEF CommitLifecycle
  <2>2. \A s \in Clients : pc'[s] = "publish"
    BY <2>1, CommitControl DEF OneAtATime, TypeOK
  <2>3. Validated(r) BY <2>1 DEF Commit, Serial
  <2>4. ask[r].kind \notin {"start"} => new[r] = {}
    BY <2>1 DEF Commit, Control
  <2>5. ItemsFollowStart'
    <3> SUFFICES ASSUME NEW c \in Campaigns, status'[c] \in {"ABSENT", "DRAFT"},
                        NEW a \in Assignments
                 PROVE  item'[c][a] = "ABSENT"
      BY DEF ItemsFollowStart
    <3>1. CASE c # ask[r].campaign
      BY <1>10, <2>1, <3>1, LifecycleRows DEF Serial, ItemsFollowStart, TypeOK
    <3>2. CASE c = ask[r].campaign
      <4>1. Target(ask[r].kind) \in {"ABSENT", "DRAFT"}
        BY <2>1, <3>2 DEF TypeOK
      <4>2. ask[r].kind = "create" BY <2>1, <4>1, Targets DEF Lifecycle
      <4>3. item[c][a] = "ABSENT"
        BY <2>3, <3>2, <4>2 DEF Validated, Serial, ItemsFollowStart
      <4> QED BY <1>10, <2>4, <4>2, <4>3, LifecycleRows
    <3> QED BY <3>1, <3>2
  <2> QED BY <2>2, <2>5 DEF Serial
<1>11. ASSUME NEW r \in Clients, CommitDecision(r) PROVE Serial'
  <2>1. Commit(r) /\ ask[r].kind = "decide" /\ UNCHANGED status
    BY <1>11 DEF CommitDecision
  <2>2. \A s \in Clients : pc'[s] = "publish"
    BY <2>1, CommitControl DEF OneAtATime, TypeOK
  <2>3. status[ask[r].campaign] = "ACTIVE" BY <2>1 DEF Commit, Serial, Validated
  <2>4. \A c \in Campaigns : c # ask[r].campaign => item'[c] = item[c]
    BY <1>11, DecisionRows DEF TypeOK
  <2>5. ItemsFollowStart'
    BY <2>1, <2>3, <2>4 DEF Serial, ItemsFollowStart
  <2> QED BY <2>2, <2>5 DEF Serial
<1>12. ASSUME NEW a \in Assignments, Grant(a) \/ Revoke(a) PROVE Serial'
  BY <1>12, SerialMove DEF Grant, Revoke, campaignRows, local
<1> QED
  BY <1>1, <1>2, <1>3, <1>5, <1>6, <1>7, <1>8, <1>9, <1>10, <1>11, <1>12 DEF Next, Step

(* Every item of a campaign about to be completed has been decided. *)
LEMMA CompleteIsDecided ==
    ASSUME TypeOK, Control, Serial, NEW r \in Clients, pc[r] = "commit",
           ask[r].kind = "complete"
    PROVE  \A a \in Assignments : item[ask[r].campaign][a] # "PENDING"
<1> DEFINE c == ask[r].campaign
<1>1. CountedFor(r) BY DEF Serial
<1>2. Cardinality(CompletedItems(c)) >= Cardinality(Items(c))
  BY <1>1 DEF CountedFor
<1>3. /\ CompletedItems(c) \in SUBSET Items(c)
      /\ Items(c) \in SUBSET Assignments
  BY DEF CompletedItems, Items
<1>4. IsFiniteSet(Items(c)) /\ Cardinality(Items(c)) \in Nat
  BY <1>3, CountIsNat
<1>5. Cardinality(CompletedItems(c)) <= Cardinality(Items(c))
      /\ Cardinality(CompletedItems(c)) \in Nat
  BY <1>3, <1>4, FS_Subset, FS_CardinalityType
<1>6. Items(c) = CompletedItems(c)
  BY <1>2, <1>3, <1>4, <1>5, FS_Subset
<1> QED BY <1>6 DEF Items, CompletedItems

LEMMA ReviewInit == Init => Review!Init
BY DEF Init, Review!Init, Verdict

LEMMA ReviewStep ==
    OneAtATime /\ TypeOK /\ Control /\ Tables /\ Serial /\ [Next]_vars
        => [Review!Next]_<<status, Verdict>>
<1> SUFFICES ASSUME OneAtATime, TypeOK, Control, Tables, Serial, [Next]_vars
             PROVE  [Review!Next]_<<status, Verdict>>
  OBVIOUS
<1>1. ASSUME UNCHANGED <<status, item, decision>>
      PROVE  UNCHANGED <<status, Verdict>>
  BY <1>1 DEF Verdict
<1>2. CASE UNCHANGED vars
  BY <1>1, <1>2 DEF vars, rows, campaignRows
<1>3. ASSUME NEW r \in Clients, Quiet(r) PROVE UNCHANGED <<status, Verdict>>
  BY <1>1, <1>3, QuietRows
<1>4. ASSUME NEW r \in Clients, CommitLifecycle(r) PROVE Review!Next
  <2> DEFINE c == ask[r].campaign
  <2>1. /\ Commit(r) /\ ask[r].kind \in Lifecycle
        /\ status' = [status EXCEPT ![c] = Target(ask[r].kind)]
    BY <1>4 DEF CommitLifecycle
  <2>2. c \in Campaigns /\ pc[r] = "commit" BY <2>1, CommitControl
  <2>3. Validated(r) BY <2>2 DEF Serial
  <2>4. ask[r].kind # "start" => UNCHANGED Verdict
    <3> SUFFICES ASSUME ask[r].kind # "start" PROVE UNCHANGED Verdict OBVIOUS
    <3>1. new[r] = {} BY <2>2 DEF Control
    <3>2. \A d \in Campaigns, a \in Assignments : item'[d][a] = item[d][a]
      BY <1>4, <3>1, LifecycleRows
    <3>3. UNCHANGED decision BY <1>4, LifecycleRows
    <3> QED BY <3>2, <3>3 DEF Verdict
  <2>5. CASE ask[r].kind = "create"
    <3>1. Review!Create(c)
      BY <2>1, <2>2, <2>3, <2>4, <2>5, Targets
      DEF Review!Create, Review!Move, Validated, NameFree, NameInLower
    <3> QED BY <2>2, <3>1 DEF Review!Next
  <2>6. CASE ask[r].kind = "start"
    <3>1. Review!Move(c, {"DRAFT"}, "ACTIVE")
      BY <2>1, <2>3, <2>6, Targets DEF Review!Move, Validated
    <3>2. \A a \in Assignments : item[c][a] = "ABSENT"
      BY <2>2, <2>3, <2>6 DEF Validated, Serial, ItemsFollowStart
    <3>3. \A d \in Campaigns, a \in Assignments :
             item'[d][a] = IF d = c /\ a \in new[r] THEN "PENDING" ELSE item[d][a]
      BY <1>4, LifecycleRows
    <3>4. UNCHANGED decision BY <1>4, LifecycleRows
    <3> DEFINE opened == [a \in Assignments |->
                            IF a \in new[r] THEN "PENDING" ELSE "ABSENT"]
    <3>5. \A d \in Campaigns : Verdict'[d] = IF d = c THEN opened ELSE Verdict[d]
      BY <3>2, <3>3, <3>4 DEF Verdict
    <3>6. Verdict' = [Verdict EXCEPT ![c] = opened]
      BY <3>5 DEF Verdict
    <3>7. Review!Start(c, new[r]) BY <3>1, <3>6 DEF Review!Start
    <3>8. new[r] \in SUBSET Assignments BY DEF TypeOK
    <3> QED BY <2>2, <3>7, <3>8 DEF Review!Next
  <2>7. CASE ask[r].kind = "complete"
    <3>1. \A a \in Assignments : item[c][a] # "PENDING"
      BY <2>2, <2>7, CompleteIsDecided
    <3>2. \A a \in Assignments : Verdict[c][a] # "PENDING"
      <4> SUFFICES ASSUME NEW a \in Assignments PROVE Verdict[c][a] # "PENDING" OBVIOUS
      <4>1. Verdict[c][a] = IF item[c][a] = "COMPLETED" THEN decision[c][a] ELSE item[c][a]
        BY <2>2 DEF Verdict
      <4>2. item[c][a] = "COMPLETED" => decision[c][a] \in Decisions
        BY <2>2 DEF Tables, ItemsAgreeWithDecisions, TypeOK
      <4> QED BY <3>1, <4>1, <4>2 DEF Decisions
    <3>3. Review!Complete(c)
      BY <2>1, <2>3, <2>4, <2>7, <3>2, Targets
      DEF Review!Complete, Review!Move, Validated
    <3> QED BY <2>2, <3>3 DEF Review!Next
  <2>8. CASE ask[r].kind = "cancel"
    <3>1. Review!Cancel(c)
      BY <2>1, <2>3, <2>4, <2>8, Targets DEF Review!Cancel, Review!Move, Validated
    <3> QED BY <2>2, <3>1 DEF Review!Next
  <2> QED BY <2>1, <2>5, <2>6, <2>7, <2>8 DEF Lifecycle
<1>5. ASSUME NEW r \in Clients, CommitDecision(r) PROVE Review!Next
  <2> DEFINE c == ask[r].campaign
             a0 == ask[r].item
             d0 == DecisionAfter(r)
  <2>1. Commit(r) /\ UNCHANGED status /\ ask[r].kind = "decide"
    BY <1>5, DecisionRows DEF CommitDecision
  <2>2. c \in Campaigns /\ pc[r] = "commit" BY <2>1, CommitControl
  <2>3. status[c] = "ACTIVE" BY <2>1, <2>2 DEF Serial, Validated
  <2>4. /\ a0 \in Assignments /\ item[c][a0] # "ABSENT" /\ d0 \in Decisions
        /\ item' = [item EXCEPT ![c][a0] = "COMPLETED"]
        /\ decision' = [decision EXCEPT ![c][a0] = d0]
    BY <1>5, DecisionRows
  <2> HIDE DEF c, a0, d0
  <2>5. \A d \in Campaigns, a \in Assignments :
           /\ item'[d][a] = IF d = c /\ a = a0 THEN "COMPLETED" ELSE item[d][a]
           /\ decision'[d][a] = IF d = c /\ a = a0 THEN d0 ELSE decision[d][a]
    BY <2>2, <2>4 DEF TypeOK
  <2>6. Verdict' = [Verdict EXCEPT ![c][a0] = d0]
    <3> DEFINE row == [a \in Assignments |-> IF a = a0 THEN d0 ELSE Verdict[c][a]]
    <3>1. \A d \in Campaigns : Verdict'[d] = IF d = c THEN row ELSE Verdict[d]
      BY <2>2, <2>4, <2>5 DEF Verdict
    <3>2. row = [Verdict[c] EXCEPT ![a0] = d0] BY <2>2, <2>4 DEF Verdict
    <3>3. Verdict' = [Verdict EXCEPT ![c] = row] BY <2>2, <3>1 DEF Verdict
    <3> HIDE DEF row
    <3> QED BY <3>2, <3>3
  <2>7. Verdict[c][a0] # "ABSENT"
    <3>1. Verdict[c][a0] = IF item[c][a0] = "COMPLETED" THEN decision[c][a0] ELSE item[c][a0]
      BY <2>2, <2>4 DEF Verdict
    <3>2. item[c][a0] = "COMPLETED" => decision[c][a0] \in Decisions
      BY <2>2, <2>4 DEF Tables, ItemsAgreeWithDecisions, TypeOK
    <3> QED BY <2>4, <3>1, <3>2 DEF Decisions
  <2>8. Review!Decide(c, a0, d0)
    BY <2>1, <2>3, <2>6, <2>7 DEF Review!Decide
  <2> QED BY <2>2, <2>4, <2>8 DEF Review!Next, Review!Decided, Decisions
<1>6. ASSUME NEW a \in Assignments, Grant(a) \/ Revoke(a)
      PROVE  UNCHANGED <<status, Verdict>>
  BY <1>1, <1>6 DEF Grant, Revoke, campaignRows
<1> QED BY <1>1, <1>2, <1>3, <1>4, <1>5, <1>6, StepCases

(***************************************************************************)
(* As long as requests do not overlap, the campaigns implement the         *)
(* abstract review: transitions are valid, a closed campaign changes       *)
(* neither its status nor its decisions, and a completed one has decided   *)
(* every item, whatever access is granted and revoked meanwhile.           *)
(***************************************************************************)
THEOREM SerialReview == OneAtATime => (Spec => ReviewIsImplemented)
<1> SUFFICES ASSUME OneAtATime PROVE Spec => ReviewIsImplemented OBVIOUS
<1> DEFINE Inv == TypeOK /\ Control /\ Tables /\ Serial
<1>1. Init => Inv BY TypeInit, TablesInit, SerialInit
<1>2. Inv /\ [Next]_vars => Inv' BY TypeStep, TablesStep, SerialStep
<1>3. Inv /\ [Next]_vars => [Review!Next]_<<status, Verdict>> BY ReviewStep
<1> QED BY <1>1, <1>2, <1>3, ReviewInit, PTL DEF Spec, ReviewIsImplemented, Review!Spec

-----------------------------------------------------------------------------
(***************************************************************************)
(* Overlapping requests lose updates of completed_items but never make it  *)
(* overstate.  What a request has counted is bounded by what will be       *)
(* completed once it has committed, and that only grows.                   *)
(***************************************************************************)
WithOwn(r) ==
    CompletedItems(ask[r].campaign)
        \cup (IF ask[r].kind = "decide" THEN {ask[r].item} ELSE {})

CountIsBounded(r) ==
    pc[r] # "idle" => counted[r]["completed_items"] <= Cardinality(WithOwn(r))

Bounded == CountersNeverOverstate /\ \A r \in Clients : CountIsBounded(r)

LEMMA SubsetCount ==
    ASSUME NEW T \in SUBSET Assignments, NEW S \in SUBSET T
    PROVE  Cardinality(S) <= Cardinality(T) /\ Cardinality(S) \in Nat
           /\ Cardinality(T) \in Nat
BY CountIsNat, FS_Subset

LEMMA WithOwnType ==
    ASSUME NEW r \in Clients, Control, pc[r] # "idle"
    PROVE  WithOwn(r) \in SUBSET Assignments
<1>1. ask[r] \in Asks BY DEF Control
<1> QED BY <1>1, AskFields DEF WithOwn, CompletedItems

(* Completed items stay completed. *)
LEMMA CompletedGrow ==
    ASSUME TypeOK, Control, Tables, [Next]_vars, NEW c \in Campaigns
    PROVE  CompletedItems(c) \subseteq CompletedItems(c)'
<1>1. CASE UNCHANGED item BY <1>1 DEF CompletedItems
<1>2. ASSUME NEW r \in Clients, CommitLifecycle(r)
      PROVE  CompletedItems(c) \subseteq CompletedItems(c)'
  BY <1>2, LifecycleRows DEF CompletedItems
<1>3. ASSUME NEW r \in Clients, CommitDecision(r)
      PROVE  CompletedItems(c) \subseteq CompletedItems(c)'
  <2>1. item' = [item EXCEPT ![ask[r].campaign][ask[r].item] = "COMPLETED"]
    BY <1>3, DecisionRows
  <2> QED BY <2>1 DEF CompletedItems, TypeOK
<1> QED
  BY <1>1, <1>2, <1>3, StepCases, QuietRows
  DEF vars, rows, campaignRows, Grant, Revoke

(* Requests that keep their request and their count stay bounded. *)
LEMMA BoundedKeeps ==
    ASSUME TypeOK, Control, Tables, [Next]_vars, TypeOK', Control', NEW s \in Clients,
           CountIsBounded(s), pc'[s] # "idle" => pc[s] # "idle",
           pc'[s] # "idle" => ask'[s] = ask[s],
           pc'[s] # "idle" =>
               counted'[s]["completed_items"] = counted[s]["completed_items"]
    PROVE  CountIsBounded(s)'
<1> SUFFICES ASSUME pc'[s] # "idle"
             PROVE  counted'[s]["completed_items"] <= Cardinality(WithOwn(s)')
  BY DEF CountIsBounded
<1>1. ask[s].campaign \in Campaigns BY AskFields DEF Control
<1>2. WithOwn(s) \subseteq WithOwn(s)'
  <2>1. CompletedItems(ask[s].campaign) \subseteq CompletedItems(ask[s].campaign)'
    BY <1>1, CompletedGrow
  <2> QED BY <2>1 DEF WithOwn, CompletedItems
<1>3. WithOwn(s)' \in SUBSET Assignments
  <2>1. ask'[s] \in Asks BY DEF Control
  <2> QED BY <2>1, AskFields DEF WithOwn, CompletedItems
<1>4. counted[s]["completed_items"] \in Nat BY DEF TypeOK, Counters
<1> QED BY <1>2, <1>3, <1>4, SubsetCount DEF CountIsBounded

LEMMA BoundedInit == Init => Bounded
<1> SUFFICES ASSUME Init PROVE Bounded OBVIOUS
<1>1. \A r \in Clients : CountIsBounded(r) BY DEF Init, CountIsBounded
<1>2. ASSUME NEW c \in Campaigns
      PROVE  counts[c]["completed_items"] <= Cardinality(CompletedItems(c))
  <2>1. counts[c]["completed_items"] = 0 BY DEF Init, Zero, Counters
  <2>2. CompletedItems(c) \in SUBSET Assignments BY DEF CompletedItems
  <2> QED BY <2>1, <2>2, CountIsNat
<1> QED BY <1>1, <1>2 DEF Bounded, CountersNeverOverstate

LEMMA BoundedStep ==
    TypeOK /\ Control /\ Tables /\ Bounded /\ [Next]_vars => Bounded'
<1> SUFFICES ASSUME TypeOK, Control, Tables, Bounded, [Next]_vars PROVE Bounded'
  OBVIOUS
<1> USE TypeStep
<1>1. CASE UNCHANGED vars
  BY <1>1 DEF vars, rows, campaignRows, local, Bounded, CountersNeverOverstate,
              CountIsBounded, WithOwn, CompletedItems
<1>2. ASSUME UNCHANGED <<counts, item>> PROVE CountersNeverOverstate'
  BY <1>2 DEF Bounded, CountersNeverOverstate, CompletedItems
<1>3. ASSUME NEW r \in Clients, Quiet(r) PROVE Bounded'
  <2>1. UNCHANGED <<counts, item>> BY <1>3, QuietRows
  <2>2. ASSUME NEW s \in Clients PROVE CountIsBounded(s)'
    <3>1. CASE \E q \in Asks : Load(r, q)
      <4>1. PICK q \in Asks : Load(r, q) BY <3>1
      <4>2. /\ ask' = [ask EXCEPT ![r] = q]
            /\ counted' = [counted EXCEPT ![r] = counts[q.campaign]]
            /\ \A t \in Clients \ {r} : pc'[t] = pc[t]
        BY <4>1 DEF Load, TypeOK
      <4>3. CASE s # r
        BY <2>2, <4>2, <4>3, BoundedKeeps DEF Bounded, TypeOK
      <4>4. CASE s = r
        <5>1. q.campaign \in Campaigns BY AskFields
        <5>2. counts[q.campaign]["completed_items"] <= Cardinality(CompletedItems(q.campaign))
              /\ counts[q.campaign]["completed_items"] \in Nat
          BY <5>1 DEF Bounded, CountersNeverOverstate, TypeOK, Counters
        <5>3. ask'[r] = q /\ counted'[r] = counts[q.campaign] BY <4>2 DEF TypeOK
        <5>4. /\ CompletedItems(q.campaign) \subseteq WithOwn(r)'
              /\ WithOwn(r)' \in SUBSET Assignments
          BY <2>1, <5>3, AskFields DEF WithOwn, CompletedItems
        <5> QED BY <4>4, <5>2, <5>3, <5>4, SubsetCount DEF CountIsBounded
      <4> QED BY <4>3, <4>4
    <3>2. CASE CountCompleted(r)
      <4>1. /\ pc[r] = "completed" /\ UNCHANGED ask
            /\ counted' = [counted EXCEPT ![r] = Recounted(r, "completed_items",
                                            Cardinality(CompletedSeen(r)))]
            /\ \A t \in Clients \ {r} : pc'[t] = pc[t]
        BY <3>2 DEF CountCompleted, Counting, Goto, TypeOK
      <4>2. CASE s # r
        BY <2>2, <4>1, <4>2, BoundedKeeps DEF Bounded, TypeOK
      <4>3. CASE s = r
        <5>1. counted'[r]["completed_items"] = Cardinality(CompletedSeen(r))
          BY <4>1 DEF TypeOK, Recounted, Counters
        <5>2. WithOwn(r) \in SUBSET Assignments BY <4>1, WithOwnType
        <5>3. CompletedSeen(r) \subseteq WithOwn(r)
          BY DEF CompletedSeen, WithOwn, CompletedItems, Items
        <5>4. WithOwn(r)' = WithOwn(r)
          BY <2>1, <4>1 DEF WithOwn, CompletedItems
        <5> QED BY <4>3, <5>1, <5>2, <5>3, <5>4, SubsetCount DEF CountIsBounded
      <4> QED BY <4>2, <4>3
    <3>3. CASE /\ ~(\E q \in Asks : Load(r, q)) /\ ~CountCompleted(r)
      <4>1. /\ UNCHANGED ask
            /\ \A t \in Clients : pc'[t] # "idle" => pc[t] # "idle"
        BY <1>3, <3>3, QuietControl
      <4>2. counted'[s]["completed_items"] = counted[s]["completed_items"]
        <5>1. CASE CountTotal(r)
          BY <5>1 DEF CountTotal, Counting, Recounted, TypeOK, Counters
        <5>2. CASE CountDecisions(r)
          <6>1. \A d \in Decisions : CounterOf(d) # "completed_items"
            BY DEF CounterOf
          <6> QED BY <5>2, <6>1 DEF CountDecisions, Counting, TypeOK, Counters
        <5>3. CASE \/ \E q \in Asks : Refuse(r, q)
                   \/ Snapshot(r) \/ Write(r) \/ RefuseIncomplete(r)
                   \/ CommitFails(r) \/ Publish(r)
          BY <5>3 DEF Refuse, Snapshot, Write, Goto, RefuseIncomplete, CommitFails,
                      Publish, Abort, local
        <5> QED BY <1>3, <3>3, <5>1, <5>2, <5>3 DEF Quiet
      <4> QED BY <2>2, <4>1, <4>2, BoundedKeeps DEF Bounded
    <3> QED BY <3>1, <3>2, <3>3
  <2> QED BY <1>2, <2>1, <2>2 DEF Bounded
<1>4. ASSUME NEW r \in Clients, Commit(r),
             CompletedItems(ask[r].campaign)' = WithOwn(r)
      PROVE  Bounded'
  <2> DEFINE c0 == ask[r].campaign
  <2>1. /\ UNCHANGED <<ask, counted>> /\ c0 \in Campaigns /\ pc[r] = "commit"
        /\ \A s \in Clients : pc'[s] # "idle" => pc[s] # "idle"
    BY <1>4, CommitControl
  <2>2. \A s \in Clients : CountIsBounded(s)'
    BY <2>1, BoundedKeeps DEF Bounded
  <2>3. ASSUME NEW c \in Campaigns
        PROVE  counts'[c]["completed_items"] <= Cardinality(CompletedItems(c)')
    <3>1. counts' = [counts EXCEPT ![c0] = [k \in Counters |->
                        IF counted[r][k] # loaded[r][k] THEN counted[r][k]
                                                        ELSE counts[c0][k]]]
      BY <1>4 DEF Commit, WriteCounts
    <3>2. CompletedItems(c) \subseteq CompletedItems(c)' BY CompletedGrow
    <3>3. CompletedItems(c)' \in SUBSET Assignments BY DEF CompletedItems
    <3>4. counts[c]["completed_items"] <= Cardinality(CompletedItems(c)')
          /\ Cardinality(CompletedItems(c)') \in Nat
      <4>1. counts[c]["completed_items"] \in Nat
            /\ counts[c]["completed_items"] <= Cardinality(CompletedItems(c))
        BY DEF Bounded, CountersNeverOverstate, TypeOK, Counters
      <4> QED BY <3>2, <3>3, <4>1, SubsetCount
    <3>5. CASE c # c0
      BY <3>1, <3>4, <3>5 DEF TypeOK
    <3>6. CASE c = c0
      <4>1. counted[r]["completed_items"] <= Cardinality(WithOwn(r))
        BY <2>1 DEF Bounded, CountIsBounded
      <4>2. counts'[c]["completed_items"] \in
                {counted[r]["completed_items"], counts[c]["completed_items"]}
        BY <2>1, <3>1, <3>6 DEF TypeOK, Counters
      <4>3. CompletedItems(c)' = WithOwn(r)
        BY <1>4, <2>1, <3>6 DEF CompletedItems
      <4> QED BY <3>4, <4>1, <4>2, <4>3
    <3> QED BY <3>5, <3>6
  <2> QED BY <2>2, <2>3 DEF Bounded, CountersNeverOverstate
<1>5. ASSUME NEW r \in Clients, CommitLifecycle(r) PROVE Bounded'
  <2>1. Commit(r) /\ ask[r].kind \in Lifecycle BY <1>5 DEF CommitLifecycle
  <2>2. ask[r].campaign \in Campaigns /\ UNCHANGED ask BY <2>1, CommitControl
  <2>3. CompletedItems(ask[r].campaign)' = CompletedItems(ask[r].campaign)
    BY <1>5, <2>2, LifecycleRows DEF CompletedItems
  <2>4. ask[r].kind # "decide" BY <2>1 DEF Lifecycle
  <2>5. WithOwn(r) = CompletedItems(ask[r].campaign) BY <2>4 DEF WithOwn
  <2> QED BY <1>4, <2>1, <2>3, <2>5
<1>6. ASSUME NEW r \in Clients, CommitDecision(r) PROVE Bounded'
  <2>1. Commit(r) /\ ask[r].kind = "decide" BY <1>6 DEF CommitDecision
  <2>2. ask[r].campaign \in Campaigns /\ UNCHANGED ask BY <2>1, CommitControl
  <2>3. /\ ask[r].item \in Assignments
        /\ item' = [item EXCEPT ![ask[r].campaign][ask[r].item] = "COMPLETED"]
    BY <1>6, DecisionRows
  <2>4. CompletedItems(ask[r].campaign)' = WithOwn(r)
    BY <2>1, <2>2, <2>3 DEF CompletedItems, WithOwn, TypeOK
  <2> QED BY <1>4, <2>1, <2>4
<1>7. ASSUME NEW a \in Assignments, Grant(a) \/ Revoke(a) PROVE Bounded'
  <2>1. UNCHANGED <<counts, item, pc, ask, counted>>
    BY <1>7 DEF Grant, Revoke, campaignRows, local
  <2> QED BY <2>1 DEF Bounded, CountersNeverOverstate, CountIsBounded, WithOwn,
                      CompletedItems
<1> QED BY <1>1, <1>3, <1>5, <1>6, <1>7, StepCases

(***************************************************************************)
(* completed_items never exceeds the number of completed review items,     *)
(* however many requests overlap and whichever updates are lost.           *)
(***************************************************************************)
THEOREM NeverOverstated == Spec => []CountersNeverOverstate
<1> DEFINE Inv == TypeOK /\ Control /\ Tables /\ Bounded
<1>1. Init => Inv BY TypeInit, TablesInit, BoundedInit
<1>2. Inv /\ [Next]_vars => Inv' BY TypeStep, TablesStep, BoundedStep
<1>3. Inv => CountersNeverOverstate BY DEF Bounded
<1> QED BY <1>1, <1>2, <1>3, PTL DEF Spec

-----------------------------------------------------------------------------
(***************************************************************************)
(* The promise of POST .../complete under overlapping requests.  It rests  *)
(* on total_items: of the starts that race for a campaign only one inserts *)
(* review items, since all of them snapshot the access held and none of    *)
(* what is under review can be revoked; the others insert nothing or fail. *)
(* Access granted while a start is in flight would break this: it may be   *)
(* in the second snapshot only.                                            *)
(***************************************************************************)
InFlight(r) == pc[r] \notin {"idle", "publish"}
Starting(r) == InFlight(r) /\ ask[r].kind = "start"
Started(c) == "started_at" \in stamps[c]
Held == {a \in Assignments : assignment[a] = "held"}

GrantsWait == [][\A a \in Assignments : Grant(a) => \A r \in Clients : ~Starting(r)]_vars

(* A campaign is being created by one request, before anything else.       *)
Fresh ==
    \A r \in Clients : InFlight(r) =>
        IF ask[r].kind = "create"
          THEN /\ status[ask[r].campaign] = "ABSENT"
               /\ \A s \in Clients \ {r} :
                     InFlight(s) /\ ask[s].kind = "create"
                       => ask[s].campaign # ask[r].campaign
          ELSE status[ask[r].campaign] # "ABSENT"

(* The items of a campaign are those of its first start.                   *)
CampaignTotals(c) ==
    /\ status[c] \in {"ABSENT", "DRAFT"} => ~Started(c)
    /\ status[c] \in {"ACTIVE", "COMPLETED"} => Started(c)
    /\ ~Started(c) => Items(c) = {}
    /\ counts[c]["total_items"] = Cardinality(Items(c))
    /\ status[c] = "COMPLETED" => Items(c) = CompletedItems(c)

(* The commit will violate a constraint, whatever happens before it.       *)
Doomed(r) == DuplicateItem(r) \/ DanglingItem(r)

LoadedTotal(r) == loaded[r]["total_items"]
CountedTotal(r) == counted[r]["total_items"]

StartTotals(r) ==
    LET c == ask[r].campaign IN
    /\ ~Started(c) => LoadedTotal(r) = 0 /\ (pc[r] # "snapshot" => Held \subseteq new[r])
    /\ Started(c) => new[r] = {} \/ Doomed(r)
    /\ Started(c) /\ Items(c) = {} => Held = {}
    /\ pc[r] = "snapshot" => new[r] = {}
    /\ pc[r] \in {"snapshot", "total"} => CountedTotal(r) = LoadedTotal(r)
    /\ \/ Doomed(r)
       \/ pc[r] \in {"snapshot", "total"}
       \/ new[r] = {} /\ CountedTotal(r) = LoadedTotal(r)
       \/ CountedTotal(r) = Cardinality(Items(c) \cup new[r])

ReviewTotals(r) ==
    LET c == ask[r].campaign IN
    /\ Started(c)
    /\ LoadedTotal(r) = Cardinality(Items(c)) /\ CountedTotal(r) = Cardinality(Items(c))
    /\ ask[r].kind = "complete" /\ pc[r] = "commit" => Items(c) = CompletedItems(c)

RequestTotals(r) ==
    InFlight(r) =>
        /\ ask[r].kind = "start" => StartTotals(r)
        /\ ask[r].kind \in {"complete", "decide"} => ReviewTotals(r)
        /\ ask[r].kind \in {"create", "cancel"} => CountedTotal(r) = LoadedTotal(r)

Totals ==
    /\ Fresh
    /\ \A c \in Campaigns : CampaignTotals(c)
    /\ \A r \in Clients : RequestTotals(r)

(* What in-flight requests keep while they move, and what they start with. *)
Kept(s) ==
    InFlight(s)' => /\ InFlight(s) /\ pc'[s] = pc[s] /\ ask'[s] = ask[s]
                    /\ new'[s] = new[s] /\ loaded'[s] = loaded[s]
                    /\ counted'[s] = counted[s]

LEMMA QuietKeeps ==
    ASSUME TypeOK, NEW r \in Clients, Quiet(r), NEW s \in Clients, s # r
    PROVE  Kept(s)
<1>1. CASE \E q \in Asks : Refuse(r, q) \/ Load(r, q)
  BY <1>1 DEF Refuse, Load, local, Kept, InFlight, TypeOK
<1>2. CASE Snapshot(r) \/ Write(r)
  BY <1>2 DEF Snapshot, Write, Abort, Goto, local, Kept, InFlight, TypeOK
<1>3. CASE CountTotal(r) \/ CountCompleted(r) \/ CountDecisions(r)
  BY <1>3 DEF CountTotal, CountCompleted, CountDecisions, Counting, Goto, Kept, InFlight,
              TypeOK
<1>4. CASE RefuseIncomplete(r) \/ CommitFails(r) \/ Publish(r)
  BY <1>4 DEF RefuseIncomplete, CommitFails, Publish, Abort, local, Kept, InFlight, TypeOK
<1> QED BY <1>1, <1>2, <1>3, <1>4 DEF Quiet

LEMMA CommitKeeps ==
    ASSUME TypeOK, NEW r \in Clients, Commit(r), NEW s \in Clients
    PROVE  Kept(s) /\ (s = r => ~InFlight(s)') /\ InFlight(r)
BY DEF Commit, local, Kept, InFlight, TypeOK

(* The steps by which a request advances without changing a row.           *)
LEMMA QuietAdvances ==
    ASSUME TypeOK, NEW r \in Clients, Quiet(r), InFlight(r)'
    PROVE  \/ \E q \in Asks : Load(r, q)
           \/ Kept(r)
           \/ /\ Snapshot(r) \/ Write(r) \/ CountTotal(r) \/ CountCompleted(r)
                             \/ CountDecisions(r)
              /\ InFlight(r) /\ UNCHANGED <<ask, loaded>>
<1>1. CASE \E q \in Asks : Refuse(r, q)
  BY <1>1 DEF Refuse, local, Kept, InFlight
<1>2. CASE RefuseIncomplete(r) \/ CommitFails(r) \/ Publish(r)
  BY <1>2 DEF RefuseIncomplete, CommitFails, Publish, Abort, InFlight, TypeOK
<1>3. CASE Snapshot(r) \/ Write(r)
  BY <1>3 DEF Snapshot, Write, Abort, Goto, local, InFlight, TypeOK
<1>4. CASE CountTotal(r) \/ CountCompleted(r) \/ CountDecisions(r)
  BY <1>4 DEF CountTotal, CountCompleted, CountDecisions, Counting, Goto, InFlight
<1>5. CASE \E q \in Asks : Load(r, q)
  BY <1>5
<1> QED BY <1>1, <1>2, <1>3, <1>4, <1>5 DEF Quiet

LEMMA FreshStep ==
    ASSUME TypeOK, Control, Fresh, [Next]_vars
    PROVE  Fresh'
<1>1. ASSUME UNCHANGED status,
             \A s \in Clients : InFlight(s)' => InFlight(s) /\ ask'[s] = ask[s]
      PROVE  Fresh'
  BY <1>1 DEF Fresh
<1>2. CASE UNCHANGED vars
  BY <1>1, <1>2 DEF vars, rows, campaignRows, local, InFlight
<1>3. ASSUME NEW r \in Clients, NEW q \in Asks, Load(r, q) PROVE Fresh'
  <2>1. /\ UNCHANGED status /\ ask' = [ask EXCEPT ![r] = q] /\ FreshId(q) /\ Check(q) = "ok"
        /\ \A s \in Clients \ {r} : pc'[s] = pc[s] /\ ask'[s] = ask[s]
        /\ ask'[r] = q
    BY <1>3 DEF Load, Ask, rows, campaignRows, TypeOK
  <2>2. IF q.kind = "create" THEN status[q.campaign] = "ABSENT"
                             ELSE status[q.campaign] # "ABSENT"
    <3>1. q.kind \in {"create", "start", "complete", "cancel", "decide"}
      BY AskFields DEF Lifecycle
    <3> QED BY <2>1, <3>1, LoadValidates
  <2>3. q.kind = "create" =>
          \A s \in Clients : InFlight(s) /\ ask[s].kind = "create"
                                => ask[s].campaign # q.campaign
    BY <2>1 DEF FreshId, InFlight
  <2> QED BY <2>1, <2>2, <2>3 DEF Fresh, InFlight
<1>4. ASSUME NEW r \in Clients, Quiet(r), ~(\E q \in Asks : Load(r, q)) PROVE Fresh'
  <2>1. UNCHANGED status BY <1>4, QuietRows
  <2>2. ASSUME NEW s \in Clients, InFlight(s)' PROVE InFlight(s) /\ ask'[s] = ask[s]
    BY <1>4, <2>2, QuietKeeps, QuietAdvances DEF Kept
  <2> QED BY <1>1, <2>1, <2>2
<1>5. ASSUME NEW r \in Clients, CommitLifecycle(r) PROVE Fresh'
  <2>1. /\ Commit(r) /\ ask[r].kind \in Lifecycle
        /\ status' = [status EXCEPT ![ask[r].campaign] = Target(ask[r].kind)]
    BY <1>5 DEF CommitLifecycle
  <2>2. Target(ask[r].kind) # "ABSENT" BY <2>1, Targets DEF Lifecycle
  <2>3. ask[r].campaign \in Campaigns BY <2>1, CommitControl
  <2>4. \A s \in Clients : /\ InFlight(s)' => InFlight(s) /\ ask'[s] = ask[s] /\ s # r
                           /\ InFlight(r)
    BY <2>1, CommitKeeps DEF Kept
  <2>5. ASSUME NEW s \in Clients, InFlight(s)', ask[s].kind = "create"
        PROVE  ask[s].campaign # ask[r].campaign
    BY <2>4, <2>5 DEF Fresh
  <2>6. \A c : status'[c] \in {status[c], Target(ask[r].kind)}
               /\ (c # ask[r].campaign => status'[c] = status[c])
    BY <2>1, <2>3 DEF TypeOK
  <2> QED BY <2>2, <2>4, <2>5, <2>6 DEF Fresh
<1>6. ASSUME NEW r \in Clients, CommitDecision(r) PROVE Fresh'
  <2>1. Commit(r) /\ UNCHANGED status BY <1>6 DEF CommitDecision
  <2> QED BY <1>1, <2>1, CommitKeeps DEF Kept
<1>7. ASSUME NEW a \in Assignments, Grant(a) \/ Revoke(a) PROVE Fresh'
  BY <1>1, <1>7 DEF Grant, Revoke, campaignRows, local, InFlight
<1> QED BY <1>2, <1>3, <1>4, <1>5, <1>6, <1>7, StepCases

-----------------------------------------------------------------------------
(* Items are never deleted, and access is granted by Grant alone.          *)
LEMMA ItemsGrow ==
    ASSUME TypeOK, Control, Tables, [Next]_vars
    PROVE  /\ \A c \in Campaigns, a \in Assignments :
                 item[c][a] # "ABSENT" => item'[c][a] # "ABSENT"
           /\ \A a \in Assignments :
                 assignment[a] # "held" /\ assignment'[a] = "held" => \E b \in Assignments : Grant(b)
<1>1. CASE UNCHANGED <<item, assignment>> BY <1>1
<1>2. ASSUME NEW r \in Clients, CommitLifecycle(r)
      PROVE  /\ UNCHANGED assignment
             /\ \A c \in Campaigns, a \in Assignments :
                   item[c][a] # "ABSENT" => item'[c][a] # "ABSENT"
  BY <1>2, LifecycleRows, CommitControl
<1>3. ASSUME NEW r \in Clients, CommitDecision(r)
      PROVE  /\ UNCHANGED assignment
             /\ \A c \in Campaigns, a \in Assignments :
                   item[c][a] # "ABSENT" => item'[c][a] # "ABSENT"
  <2>1. /\ item' = [item EXCEPT ![ask[r].campaign][ask[r].item] = "COMPLETED"]
        /\ UNCHANGED assignment
    BY <1>3, DecisionRows, CommitControl
  <2> QED BY <2>1 DEF TypeOK
<1>4. ASSUME NEW b \in Assignments, Grant(b) PROVE UNCHANGED item
  BY <1>4 DEF Grant
<1>5. ASSUME NEW b \in Assignments, Revoke(b)
      PROVE  /\ UNCHANGED item
             /\ \A a \in Assignments : assignment[a] # "held" => assignment'[a] # "held"
  BY <1>5 DEF Revoke, TypeOK
<1>6. CASE \E r \in Clients : Quiet(r)
  BY <1>1, <1>6, QuietRows
<1>7. CASE UNCHANGED vars
  BY <1>1, <1>7 DEF vars, rows
<1> QED BY <1>2, <1>3, <1>4, <1>5, <1>6, <1>7, StepCases

(* A commit that is doomed stays so.                                       *)
LEMMA DoomedKeeps ==
    ASSUME TypeOK, Control, Tables, [Next]_vars, NEW s \in Clients, InFlight(s), Doomed(s),
           ask'[s] = ask[s], new'[s] = new[s],
           \A a \in Assignments : Grant(a) => ~Starting(s)
    PROVE  Doomed(s)'
<1>1. /\ ask[s].campaign \in Campaigns /\ new[s] \in SUBSET Assignments
      /\ new[s] # {} => Starting(s)
  BY AskFields DEF Control, InFlight, Starting, TypeOK
<1>2. PICK a \in new[s] : item[ask[s].campaign][a] # "ABSENT" \/ assignment[a] # "held"
  BY DEF Doomed, DuplicateItem, DanglingItem
<1>3. a \in Assignments /\ Starting(s) BY <1>1, <1>2
<1>4. item'[ask[s].campaign][a] # "ABSENT" \/ assignment'[a] # "held"
  BY <1>1, <1>2, <1>3, ItemsGrow
<1> QED BY <1>2, <1>4 DEF Doomed, DuplicateItem, DanglingItem

(* A request whose campaign keeps its items, and that does not move itself.*)
LEMMA SessionKeeps ==
    ASSUME TypeOK, NEW s \in Clients, Kept(s), RequestTotals(s),
           InFlight(s) /\ Doomed(s) /\ ask'[s] = ask[s] /\ new'[s] = new[s] => Doomed(s)',
           Starting(s) => Held' \subseteq Held,
           NEW c, InFlight(s) => ask[s].campaign = c,
           Items(c)' = Items(c), Started(c)' <=> Started(c),
           Items(c) = CompletedItems(c) => Items(c) = CompletedItems(c)'
    PROVE  RequestTotals(s)'
<1> SUFFICES ASSUME InFlight(s)' PROVE RequestTotals(s)' BY DEF RequestTotals
<1>1. /\ InFlight(s) /\ pc'[s] = pc[s] /\ ask'[s] = ask[s] /\ new'[s] = new[s]
      /\ LoadedTotal(s)' = LoadedTotal(s) /\ CountedTotal(s)' = CountedTotal(s)
      /\ ask[s].campaign = c /\ ask'[s].campaign = c
  BY DEF Kept, LoadedTotal, CountedTotal
<1>2. ASSUME ask[s].kind = "start" PROVE StartTotals(s)'
  <2>1. StartTotals(s) /\ Held' \subseteq Held
    BY <1>1, <1>2 DEF RequestTotals, Starting
  <2>2. Doomed(s) => Doomed(s)' BY <1>1
  <2>3. /\ ~Started(c)' => LoadedTotal(s)' = 0 /\ (pc'[s] # "snapshot" => Held' \subseteq new'[s])
        /\ Started(c)' => new'[s] = {} \/ Doomed(s)'
        /\ Started(c)' /\ Items(c)' = {} => Held' = {}
    BY <1>1, <2>1, <2>2 DEF StartTotals
  <2>4. /\ pc'[s] = "snapshot" => new'[s] = {}
        /\ pc'[s] \in {"snapshot", "total"} => CountedTotal(s)' = LoadedTotal(s)'
        /\ \/ Doomed(s)'
           \/ pc'[s] \in {"snapshot", "total"}
           \/ new'[s] = {} /\ CountedTotal(s)' = LoadedTotal(s)'
           \/ CountedTotal(s)' = Cardinality(Items(c)' \cup new'[s])
    BY <1>1, <2>1, <2>2 DEF StartTotals
  <2>5. Items(ask[s].campaign)' = Items(c)' /\ (Started(ask[s].campaign)' <=> Started(c)')
    BY <1>1 DEF Items, Started
  <2> QED BY <2>3, <2>4, <2>5 DEF StartTotals
<1>3. ASSUME ask[s].kind \in {"complete", "decide"} PROVE ReviewTotals(s)'
  <2>1. ReviewTotals(s) BY <1>1, <1>3 DEF RequestTotals
  <2>2. /\ Items(ask[s].campaign)' = Items(c)' /\ (Started(ask[s].campaign)' <=> Started(c)')
        /\ CompletedItems(ask[s].campaign)' = CompletedItems(c)'
    BY <1>1 DEF Items, Started, CompletedItems
  <2> QED BY <1>1, <2>1, <2>2 DEF ReviewTotals
<1> QED BY <1>1, <1>2, <1>3 DEF RequestTotals

(* What a request starts with: the campaign as its checks found it.        *)
LEMMA LoadTotals ==
    ASSUME TypeOK, Totals, NEW r \in Clients, NEW q \in Asks, Load(r, q)
    PROVE  RequestTotals(r)'
<1> DEFINE c == q.campaign
<1>1. /\ FreshId(q) /\ Check(q) = "ok" /\ ask'[r] = q /\ new'[r] = {}
      /\ loaded'[r] = counts[c] /\ counted'[r] = counts[c] /\ pc'[r] = FirstStep(q.kind)
      /\ UNCHANGED <<stamps, item>>
  BY DEF Load, Ask, rows, campaignRows, TypeOK
<1>2. c \in Campaigns BY AskFields
<1>3. CampaignTotals(c) BY <1>2 DEF Totals
<1>4. /\ LoadedTotal(r)' = counts[c]["total_items"]
      /\ CountedTotal(r)' = counts[c]["total_items"]
      /\ Items(ask[r].campaign)' = Items(c) /\ (Started(ask[r].campaign)' <=> Started(c))
  BY <1>1 DEF LoadedTotal, CountedTotal, Items, Started
<1>5. ASSUME q.kind = "start" PROVE StartTotals(r)'
  <2>1. status[c] = "DRAFT" BY <1>1, <1>5, LoadValidates
  <2>2. ~Started(c) /\ Items(c) = {} BY <1>3, <2>1 DEF CampaignTotals
  <2>3. counts[c]["total_items"] = 0
    BY <1>3, <2>2, FS_EmptySet DEF CampaignTotals
  <2>4. pc'[r] = "snapshot" BY <1>1, <1>5 DEF FirstStep
  <2> QED BY <1>1, <1>4, <2>2, <2>3, <2>4 DEF StartTotals
<1>6. ASSUME q.kind \in {"complete", "decide"} PROVE ReviewTotals(r)'
  <2>1. status[c] = "ACTIVE" BY <1>1, <1>6, LoadValidates
  <2>2. Started(c) /\ counts[c]["total_items"] = Cardinality(Items(c))
    BY <1>3, <2>1 DEF CampaignTotals
  <2>3. ~(q.kind = "complete" /\ pc'[r] = "commit") BY <1>1 DEF FirstStep
  <2> QED BY <1>1, <1>4, <2>2, <2>3 DEF ReviewTotals
<1> QED BY <1>1, <1>4, <1>5, <1>6 DEF RequestTotals

(* generate_review_items takes all the access held, or finds items and     *)
(* inserts nothing.                                                        *)
LEMMA SnapshotTotals ==
    ASSUME TypeOK, Control, Totals, NEW r \in Clients, Snapshot(r)
    PROVE  RequestTotals(r)'
<1> DEFINE c == ask[r].campaign
<1>1. /\ pc[r] = "snapshot" /\ UNCHANGED <<stamps, item, assignment, ask>>
      /\ LoadedTotal(r)' = LoadedTotal(r) /\ CountedTotal(r)' = CountedTotal(r)
  BY DEF Snapshot, Goto, rows, campaignRows, LoadedTotal, CountedTotal
<1>2. ask[r].kind = "start" /\ c \in Campaigns /\ InFlight(r)
  BY <1>1, AskFields DEF Control, InFlight
<1>3. StartTotals(r) /\ CampaignTotals(c)
  BY <1>2 DEF Totals, RequestTotals
<1>4. /\ Items(ask[r].campaign)' = Items(c) /\ (Started(ask[r].campaign)' <=> Started(c))
      /\ Held' = Held
  BY <1>1 DEF Items, Started, Held
<1>5. CASE Items(c) # {}
  <2>1. pc'[r] = "commit" /\ new'[r] = new[r]
    BY <1>5 DEF Snapshot, Goto, TypeOK
  <2>2. Started(c) BY <1>3, <1>5 DEF CampaignTotals
  <2>3. new[r] = {} /\ CountedTotal(r) = LoadedTotal(r) BY <1>1, <1>3 DEF StartTotals
  <2>4. StartTotals(r)' BY <1>1, <1>4, <1>5, <2>1, <2>2, <2>3 DEF StartTotals
  <2> QED BY <1>1, <1>2, <2>4 DEF RequestTotals
<1>6. CASE Items(c) = {}
  <2>1. pc'[r] = "total" /\ new'[r] = Held
    BY <1>6 DEF Snapshot, Goto, TypeOK, Held
  <2>2. Started(c) => Held = {} BY <1>3, <1>6 DEF StartTotals
  <2>3. ~Started(c) => LoadedTotal(r) = 0 BY <1>3 DEF StartTotals
  <2>4. CountedTotal(r) = LoadedTotal(r) BY <1>1, <1>3 DEF StartTotals
  <2>5. StartTotals(r)' BY <1>1, <1>4, <2>1, <2>2, <2>3, <2>4 DEF StartTotals
  <2> QED BY <1>1, <1>2, <2>5 DEF RequestTotals
<1> QED BY <1>5, <1>6

LEMMA WriteTotals ==
    ASSUME TypeOK, Control, Totals, NEW r \in Clients, Write(r), InFlight(r)'
    PROVE  RequestTotals(r)'
<1>1. /\ pc[r] = "write" /\ pc'[r] # "commit" /\ UNCHANGED <<stamps, item, ask>>
      /\ LoadedTotal(r)' = LoadedTotal(r) /\ CountedTotal(r)' = CountedTotal(r)
  BY DEF Write, Abort, Goto, rows, campaignRows, local, LoadedTotal, CountedTotal, TypeOK
<1>2. ask[r].kind = "decide" /\ InFlight(r)
  BY <1>1 DEF Control, InFlight
<1>3. ReviewTotals(r) BY <1>2 DEF Totals, RequestTotals
<1>4. /\ Items(ask[r].campaign)' = Items(ask[r].campaign)
      /\ (Started(ask[r].campaign)' <=> Started(ask[r].campaign))
  BY <1>1 DEF Items, Started
<1>5. ReviewTotals(r)' BY <1>1, <1>2, <1>3, <1>4 DEF ReviewTotals
<1> QED BY <1>1, <1>2, <1>5 DEF RequestTotals

(* A counting statement counts the campaign's items and those to insert;   *)
(* the other counting statements leave the total alone.                    *)
LEMMA CountTotalTotals ==
    ASSUME TypeOK, Control, Totals, NEW r \in Clients, CountTotal(r)
    PROVE  RequestTotals(r)'
<1> DEFINE c == ask[r].campaign
<1>1. /\ pc[r] = "total" /\ UNCHANGED <<stamps, item, assignment, ask, new, loaded>>
      /\ counted' = [counted EXCEPT ![r] = Recounted(r, "total_items",
                                        Cardinality(Items(c) \cup new[r]))]
      /\ pc'[r] = "completed"
  BY DEF CountTotal, Counting, Goto, rows, campaignRows, TypeOK
<1>2. CountedTotal(r)' = Cardinality(Items(c) \cup new[r]) /\ LoadedTotal(r)' = LoadedTotal(r)
  BY <1>1 DEF CountedTotal, LoadedTotal, Recounted, Counters, TypeOK
<1>3. /\ InFlight(r) /\ ask[r].kind \in {"start", "complete", "decide"}
      /\ new[r] # {} => ask[r].kind = "start"
  BY <1>1 DEF Control, InFlight
<1>4. /\ Items(ask[r].campaign)' = Items(c) /\ (Started(ask[r].campaign)' <=> Started(c))
      /\ Held' = Held /\ (Doomed(r)' <=> Doomed(r))
  BY <1>1 DEF Items, Started, Held, Doomed, DuplicateItem, DanglingItem
<1>5. CASE ask[r].kind = "start"
  <2>1. StartTotals(r) BY <1>3, <1>5 DEF Totals, RequestTotals
  <2>2. StartTotals(r)' BY <1>1, <1>2, <1>4, <2>1 DEF StartTotals
  <2> QED BY <1>1, <1>5, <2>2 DEF RequestTotals
<1>6. CASE ask[r].kind \in {"complete", "decide"}
  <2>1. ReviewTotals(r) /\ Items(c) \cup new[r] = Items(c)
    BY <1>3, <1>6 DEF Totals, RequestTotals
  <2>2. ReviewTotals(r)' BY <1>1, <1>2, <1>4, <2>1 DEF ReviewTotals
  <2> QED BY <1>1, <1>6, <2>2 DEF RequestTotals
<1> QED BY <1>3, <1>5, <1>6

LEMMA LaterCounts ==
    ASSUME TypeOK, Control, Totals, NEW r \in Clients, CountCompleted(r) \/ CountDecisions(r),
           ask[r].kind = "complete" /\ pc'[r] = "commit" =>
                Items(ask[r].campaign) = CompletedItems(ask[r].campaign)
    PROVE  RequestTotals(r)'
<1> DEFINE c == ask[r].campaign
<1>1. /\ pc[r] \in {"completed", "decisions"} /\ UNCHANGED <<stamps, item, assignment, ask, new, loaded>>
      /\ pc'[r] \in {"decisions", "commit"}
  BY DEF CountCompleted, CountDecisions, Counting, Goto, rows, campaignRows, TypeOK
<1>2. CountedTotal(r)' = CountedTotal(r) /\ LoadedTotal(r)' = LoadedTotal(r)
  <2>1. \A d \in Decisions : CounterOf(d) # "total_items" BY DEF CounterOf
  <2>2. CountCompleted(r) => CountedTotal(r)' = CountedTotal(r)
    BY DEF CountCompleted, Counting, CountedTotal, Recounted, Counters, TypeOK
  <2>3. CountDecisions(r) => CountedTotal(r)' = CountedTotal(r)
    BY <2>1 DEF CountDecisions, Counting, CountedTotal, Counters, TypeOK
  <2> QED BY <1>1, <2>2, <2>3 DEF LoadedTotal
<1>3. InFlight(r) /\ ask[r].kind \in {"start", "complete", "decide"}
  BY <1>1 DEF Control, InFlight
<1>4. /\ Items(ask[r].campaign)' = Items(c) /\ (Started(ask[r].campaign)' <=> Started(c))
      /\ CompletedItems(ask[r].campaign)' = CompletedItems(c)
      /\ Held' = Held /\ (Doomed(r)' <=> Doomed(r))
  BY <1>1 DEF Items, CompletedItems, Started, Held, Doomed, DuplicateItem, DanglingItem
<1>5. CASE ask[r].kind = "start"
  <2>1. StartTotals(r) BY <1>3, <1>5 DEF Totals, RequestTotals
  <2>2. StartTotals(r)' BY <1>1, <1>2, <1>4, <2>1 DEF StartTotals
  <2> QED BY <1>1, <1>5, <2>2 DEF RequestTotals
<1>6. CASE ask[r].kind \in {"complete", "decide"}
  <2>1. ReviewTotals(r) BY <1>3, <1>6 DEF Totals, RequestTotals
  <2>2. ReviewTotals(r)' BY <1>1, <1>2, <1>4, <2>1 DEF ReviewTotals
  <2> QED BY <1>1, <1>6, <2>2 DEF RequestTotals
<1> QED BY <1>3, <1>5, <1>6

(* complete_campaign goes on to commit with every item decided: what it    *)
(* counted as completed is no more than what is, and no less than all.     *)
LEMMA PassedMeansDecided ==
    ASSUME TypeOK, Control, Totals, Bounded, NEW r \in Clients, CountDecisions(r),
           ask[r].kind = "complete"
    PROVE  Items(ask[r].campaign) = CompletedItems(ask[r].campaign)
<1> DEFINE c == ask[r].campaign
<1>1. pc[r] = "decisions" /\ ~Incomplete(r) /\ InFlight(r)
  BY DEF CountDecisions, Counting, InFlight
<1>2. CountedTotal(r) = Cardinality(Items(c))
  BY <1>1 DEF Totals, RequestTotals, ReviewTotals
<1>3. counted[r]["completed_items"] <= Cardinality(CompletedItems(c))
  <2>1. WithOwn(r) = CompletedItems(c) BY DEF WithOwn
  <2> QED BY <1>1, <2>1 DEF Bounded, CountIsBounded
<1>4. counted[r]["completed_items"] \in Nat /\ counted[r]["total_items"] \in Nat
  BY DEF TypeOK, Counters
<1>5. ~(counted[r]["completed_items"] < counted[r]["total_items"])
  BY <1>1 DEF Incomplete
<1>6. CompletedItems(c) \in SUBSET Items(c) /\ Items(c) \in SUBSET Assignments
  BY DEF CompletedItems, Items
<1>7. /\ Cardinality(CompletedItems(c)) \in Nat /\ Cardinality(Items(c)) \in Nat
      /\ Cardinality(CompletedItems(c)) <= Cardinality(Items(c))
  BY <1>6, SubsetCount
<1>8. Cardinality(CompletedItems(c)) = Cardinality(Items(c))
  BY <1>2, <1>3, <1>4, <1>5, <1>7 DEF CountedTotal
<1> QED BY <1>6, <1>8, CountIsNat, FS_Subset

LEMMA QuietTotals ==
    ASSUME TypeOK, Control, Tables, Totals, Bounded, [Next]_vars, NEW r \in Clients, Quiet(r),
           \A a \in Assignments : Grant(a) => \A s \in Clients : ~Starting(s)
    PROVE  /\ \A c \in Campaigns : CampaignTotals(c)'
           /\ \A s \in Clients : RequestTotals(s)'
<1>1. UNCHANGED <<status, stamps, counts, item, decision, assignment>> BY QuietRows
<1>2. /\ Held' = Held
      /\ \A c : /\ Items(c)' = Items(c) /\ (Started(c)' <=> Started(c))
                /\ CompletedItems(c)' = CompletedItems(c)
  BY <1>1 DEF Held, Items, Started, CompletedItems
<1>3. ASSUME NEW c \in Campaigns PROVE CampaignTotals(c)'
  <2>1. CampaignTotals(c) BY DEF Totals
  <2> QED BY <1>1, <1>2, <2>1 DEF CampaignTotals
<1>4. ASSUME NEW s \in Clients, Kept(s) PROVE RequestTotals(s)'
  <2>1. PICK c : c = ask[s].campaign OBVIOUS
  <2>2. RequestTotals(s) BY DEF Totals
  <2>3. InFlight(s) /\ Doomed(s) /\ ask'[s] = ask[s] /\ new'[s] = new[s] => Doomed(s)'
    BY DoomedKeeps
  <2> QED BY <1>2, <1>4, <2>1, <2>2, <2>3, SessionKeeps
<1>5. ASSUME InFlight(r)' PROVE RequestTotals(r)'
  <2>1. CASE \E q \in Asks : Load(r, q) BY <2>1, LoadTotals
  <2>2. CASE Kept(r) BY <1>4, <2>2
  <2>3. CASE Snapshot(r) BY <2>3, SnapshotTotals
  <2>4. CASE Write(r) BY <1>5, <2>4, WriteTotals
  <2>5. CASE CountTotal(r) BY <2>5, CountTotalTotals
  <2>6. CASE CountCompleted(r)
    <3>1. pc'[r] # "commit" BY <2>6 DEF CountCompleted, Counting, Goto, TypeOK
    <3> QED BY <2>6, <3>1, LaterCounts
  <2>7. CASE CountDecisions(r) BY <2>7, LaterCounts, PassedMeansDecided
  <2> QED BY <1>5, <2>1, <2>2, <2>3, <2>4, <2>5, <2>6, <2>7, QuietAdvances
<1>6. ASSUME NEW s \in Clients PROVE RequestTotals(s)'
  <2>1. CASE s # r BY <1>4, <2>1, QuietKeeps
  <2>2. CASE s = r /\ ~InFlight(r)' BY <2>2 DEF RequestTotals
  <2>3. CASE s = r /\ InFlight(r)' BY <1>5, <2>3
  <2> QED BY <2>1, <2>2, <2>3
<1> QED BY <1>3, <1>6

-----------------------------------------------------------------------------
(* The total a commit leaves: written only when it differs from the loaded.*)
LEMMA CommittedTotal ==
    ASSUME TypeOK, Control, NEW r \in Clients, Commit(r), NEW c \in Campaigns
    PROVE  counts'[c]["total_items"] =
               IF c = ask[r].campaign /\ CountedTotal(r) # LoadedTotal(r)
                 THEN CountedTotal(r) ELSE counts[c]["total_items"]
<1>1. counts' = [counts EXCEPT ![ask[r].campaign] =
                    [k \in Counters |-> IF counted[r][k] # loaded[r][k]
                                          THEN counted[r][k]
                                          ELSE counts[ask[r].campaign][k]]]
  BY DEF Commit, WriteCounts
<1>2. "total_items" \in Counters BY DEF Counters
<1> QED BY <1>1, <1>2 DEF TypeOK, CountedTotal, LoadedTotal

(* A start commits all of its campaign's items or none.                    *)
LEMMA StartCommits ==
    ASSUME TypeOK, Control, Totals, NEW r \in Clients, Commit(r), ask[r].kind = "start"
    PROVE  /\ ~Doomed(r) /\ new[r] \subseteq Held
           /\ Started(ask[r].campaign) => new[r] = {}
           /\ ~Started(ask[r].campaign) => Held = new[r] /\ Items(ask[r].campaign) = {}
           /\ (IF CountedTotal(r) # LoadedTotal(r)
                 THEN CountedTotal(r) ELSE counts[ask[r].campaign]["total_items"])
                = Cardinality(Items(ask[r].campaign) \cup new[r])
<1> DEFINE c == ask[r].campaign
<1>1. /\ pc[r] = "commit" /\ InFlight(r) /\ ~Doomed(r) /\ new[r] \in SUBSET Assignments
      /\ c \in Campaigns
  BY CommitControl DEF Commit, Violation, Doomed, InFlight, TypeOK
<1>2. StartTotals(r) /\ CampaignTotals(c)
  BY <1>1 DEF Totals, RequestTotals
<1>3. new[r] \subseteq Held BY <1>1 DEF Doomed, DanglingItem, Held
<1>4. Started(c) => new[r] = {} BY <1>1, <1>2 DEF StartTotals
<1>5. ~Started(c) => Held = new[r] /\ Items(c) = {} /\ LoadedTotal(r) = 0
  BY <1>1, <1>2, <1>3 DEF StartTotals, CampaignTotals
<1>6. counts[c]["total_items"] = Cardinality(Items(c)) BY <1>2 DEF CampaignTotals
<1>7. \/ new[r] = {} /\ CountedTotal(r) = LoadedTotal(r)
      \/ CountedTotal(r) = Cardinality(Items(c) \cup new[r])
  BY <1>1, <1>2 DEF StartTotals
<1>8. CASE new[r] = {} BY <1>1, <1>3, <1>4, <1>5, <1>6, <1>7, <1>8
<1>9. CASE new[r] # {}
  <2>1. ~Started(c) BY <1>4, <1>9
  <2>2. CountedTotal(r) = Cardinality(Items(c) \cup new[r]) BY <1>7, <1>9
  <2>3. Cardinality(Items(c)) = 0 BY <1>5, <2>1, FS_EmptySet
  <2> QED BY <1>1, <1>3, <1>5, <1>6, <2>1, <2>2, <2>3
<1> QED BY <1>8, <1>9

(* What the commit of a lifecycle request does to its campaign.            *)
LEMMA LifecycleTotals ==
    ASSUME TypeOK, Control, Tables, Totals, NEW r \in Clients, CommitLifecycle(r)
    PROVE  \A c \in Campaigns : CampaignTotals(c)'
<1> DEFINE d == ask[r].campaign
<1>1. /\ Commit(r) /\ ask[r].kind \in Lifecycle /\ UNCHANGED decision
      /\ status' = [status EXCEPT ![d] = Target(ask[r].kind)]
      /\ stamps' = [stamps EXCEPT ![d] = stamps[d] \cup {Stamp(ask[r].kind)}]
  BY DEF CommitLifecycle
<1>2. /\ d \in Campaigns /\ InFlight(r) /\ pc[r] = "commit"
      /\ new[r] \in SUBSET Assignments
      /\ new[r] # {} => ask[r].kind = "start"
  BY <1>1, CommitControl DEF InFlight, Control, TypeOK
<1>3. \A c \in Campaigns :
        /\ Items(c)' = IF c = d THEN Items(c) \cup new[r] ELSE Items(c)
        /\ CompletedItems(c)' = CompletedItems(c)
  BY <1>2, LifecycleRows DEF Items, CompletedItems
<1>4. \A c \in Campaigns : Started(c)' <=> Started(c) \/ (c = d /\ ask[r].kind = "start")
  <2>1. ask[r].kind \in Lifecycle => (Stamp(ask[r].kind) = "started_at" <=> ask[r].kind = "start")
    BY DEF Stamp, Lifecycle
  <2> QED BY <1>1, <1>2, <2>1 DEF Started, TypeOK
<1>5. \A c \in Campaigns : CampaignTotals(c) BY DEF Totals
<1>6. RequestTotals(r) BY DEF Totals
<1> SUFFICES ASSUME NEW c \in Campaigns PROVE CampaignTotals(c)' OBVIOUS
<1>7. CASE c # d
  <2>1. status'[c] = status[c] /\ counts'[c]["total_items"] = counts[c]["total_items"]
    BY <1>1, <1>7, CommittedTotal DEF TypeOK
  <2> QED BY <1>3, <1>4, <1>5, <1>7, <2>1 DEF CampaignTotals
<1>8. CASE c = d /\ ask[r].kind = "start"
  <2>1. status'[c] = "ACTIVE" BY <1>1, <1>2, <1>8, Targets DEF TypeOK
  <2>2. counts'[c]["total_items"] = Cardinality(Items(c)')
    BY <1>1, <1>2, <1>3, <1>8, StartCommits, CommittedTotal
  <2> QED BY <1>3, <1>4, <1>8, <2>1, <2>2 DEF CampaignTotals
<1>9. CASE c = d /\ ask[r].kind # "start"
  <2>1. ask[r].kind \in {"create", "complete", "cancel"} BY <1>1, <1>9 DEF Lifecycle
  <2>2. CountedTotal(r) = LoadedTotal(r)
    BY <1>2, <1>6, <2>1 DEF RequestTotals, ReviewTotals
  <2>3. counts'[c]["total_items"] = counts[c]["total_items"]
    BY <1>1, <2>2, CommittedTotal
  <2>4. Items(c)' = Items(c) /\ (Started(c)' <=> Started(c))
        /\ CompletedItems(c)' = CompletedItems(c)
    BY <1>2, <1>3, <1>4, <1>9
  <2>5. CampaignTotals(c) BY <1>5
  <2>6. CASE ask[r].kind = "create"
    <3>1. status[c] = "ABSENT" BY <1>2, <1>9, <2>6 DEF Totals, Fresh
    <3>2. status'[c] = "DRAFT" BY <1>1, <1>2, <1>9, <2>6, Targets DEF TypeOK
    <3> QED BY <2>3, <2>4, <2>5, <3>1, <3>2 DEF CampaignTotals
  <2>7. CASE ask[r].kind = "cancel"
    <3>1. status'[c] = "CANCELLED" BY <1>1, <1>2, <1>9, <2>7, Targets DEF TypeOK
    <3> QED BY <2>3, <2>4, <2>5, <3>1 DEF CampaignTotals
  <2>8. CASE ask[r].kind = "complete"
    <3>1. status'[c] = "COMPLETED" BY <1>1, <1>2, <1>9, <2>8, Targets DEF TypeOK
    <3>2. Started(c) /\ Items(c) = CompletedItems(c)
      BY <1>2, <1>6, <1>9, <2>8 DEF RequestTotals, ReviewTotals
    <3> QED BY <2>3, <2>4, <2>5, <3>1, <3>2 DEF CampaignTotals
  <2> QED BY <2>1, <2>6, <2>7, <2>8
<1> QED BY <1>7, <1>8, <1>9

(* The start that inserts the items leaves the other starts of the same    *)
(* campaign nothing to insert, or rows that violate a constraint.          *)
LEMMA RacingStart ==
    ASSUME TypeOK, Control, Tables, Totals, NEW r \in Clients, CommitLifecycle(r),
           ask[r].kind = "start", ~Started(ask[r].campaign),
           NEW s \in Clients, Kept(s), InFlight(s)', ask[s].campaign = ask[r].campaign,
           ask[s].kind = "start"
    PROVE  StartTotals(s)'
<1>1. Commit(r) BY DEF CommitLifecycle
<1>0. PICK d \in Campaigns : d = ask[r].campaign BY <1>1, CommitControl
<1>2. /\ pc[r] = "commit" /\ new[r] \in SUBSET Assignments
      /\ UNCHANGED assignment
  BY <1>1, CommitControl DEF TypeOK
<1>3. new[r] = Held /\ Items(d) = {} BY <1>0, <1>1, StartCommits
<1>4. /\ InFlight(s) /\ pc'[s] = pc[s] /\ ask'[s] = ask[s] /\ new'[s] = new[s]
      /\ LoadedTotal(s)' = LoadedTotal(s) /\ CountedTotal(s)' = CountedTotal(s)
      /\ new[s] \in SUBSET Assignments
  BY DEF Kept, LoadedTotal, CountedTotal, TypeOK
<1>5. StartTotals(s) BY <1>4 DEF Totals, RequestTotals
<1>6. /\ LoadedTotal(s) = 0 /\ (pc[s] # "snapshot" => Held \subseteq new[s])
      /\ pc[s] = "snapshot" => new[s] = {}
      /\ pc[s] \in {"snapshot", "total"} => CountedTotal(s) = LoadedTotal(s)
      /\ \/ Doomed(s)
         \/ pc[s] \in {"snapshot", "total"}
         \/ new[s] = {} /\ CountedTotal(s) = LoadedTotal(s)
         \/ CountedTotal(s) = Cardinality(Items(d) \cup new[s])
  BY <1>0, <1>5 DEF StartTotals
<1>7. /\ Held' = Held
      /\ Items(d)' = Held
      /\ \A a \in new[r] : item'[d][a] # "ABSENT"
  BY <1>0, <1>1, <1>2, <1>3, LifecycleRows DEF Held, Items
<1>8. Started(d)'
  <2>1. stamps' = [stamps EXCEPT ![d] = stamps[d] \cup {Stamp("start")}]
    BY <1>0 DEF CommitLifecycle
  <2> QED BY <2>1 DEF Started, Stamp, TypeOK
<1>9. new[s] = {} \/ Doomed(s)'
  <2> SUFFICES ASSUME new[s] # {} PROVE Doomed(s)' OBVIOUS
  <2>1. Held \subseteq new[s] BY <1>6
  <2>2. CASE \E a \in new[s] : assignment[a] # "held"
    BY <1>0, <1>2, <1>4, <2>2 DEF Doomed, DanglingItem
  <2>3. CASE \A a \in new[s] : assignment[a] = "held"
    <3>1. PICK a \in new[s] : a \in Held BY <1>4, <2>3 DEF Held
    <3>2. item'[d][a] # "ABSENT" BY <1>3, <1>7, <3>1
    <3> QED BY <1>0, <1>4, <3>1, <3>2 DEF Doomed, DuplicateItem
  <2> QED BY <2>2, <2>3
<1>10. Items(ask[s].campaign)' = Items(d)' /\ (Started(ask[s].campaign)' <=> Started(d)')
  BY <1>0, <1>4 DEF Items, Started
<1>11. \/ Doomed(s)'
       \/ pc[s] \in {"snapshot", "total"}
       \/ new[s] = {} /\ CountedTotal(s) = LoadedTotal(s)
  <2>1. CASE Doomed(s) /\ new[s] # {} BY <1>9, <2>1
  <2>2. CASE Doomed(s) /\ new[s] = {} BY <2>2 DEF Doomed, DuplicateItem, DanglingItem
  <2>3. CASE CountedTotal(s) = Cardinality(Items(d) \cup new[s]) /\ new[s] = {}
    BY <1>3, <1>6, <2>3, FS_EmptySet
  <2> QED BY <1>6, <1>9, <2>1, <2>2, <2>3
<1> QED BY <1>4, <1>6, <1>7, <1>8, <1>9, <1>10, <1>11 DEF StartTotals

LEMMA LifecycleRequests ==
    ASSUME TypeOK, Control, Tables, Totals, NEW r \in Clients, CommitLifecycle(r), [Next]_vars,
           \A a \in Assignments : Grant(a) => \A s \in Clients : ~Starting(s)
    PROVE  \A s \in Clients : RequestTotals(s)'
<1> SUFFICES ASSUME NEW s \in Clients, InFlight(s)' PROVE RequestTotals(s)'
  BY DEF RequestTotals
<1> DEFINE d == ask[r].campaign
<1>1. /\ Commit(r) /\ ask[r].kind \in Lifecycle
      /\ status' = [status EXCEPT ![d] = Target(ask[r].kind)]
      /\ stamps' = [stamps EXCEPT ![d] = stamps[d] \cup {Stamp(ask[r].kind)}]
  BY DEF CommitLifecycle
<1>2. /\ d \in Campaigns /\ UNCHANGED assignment
      /\ new[r] \in SUBSET Assignments
      /\ new[r] # {} => ask[r].kind = "start"
  BY <1>1, CommitControl DEF Control, TypeOK
<1>3. /\ Kept(s) /\ InFlight(s) /\ ask[s].campaign \in Campaigns
      /\ ask'[s] = ask[s] /\ LoadedTotal(s)' = LoadedTotal(s) /\ CountedTotal(s)' = CountedTotal(s)
  <2>1. Kept(s) BY <1>1, CommitKeeps
  <2>2. ask[s] \in Asks BY <2>1 DEF Kept, Control, InFlight
  <2> QED BY <2>1, <2>2, AskFields DEF Kept, LoadedTotal, CountedTotal
<1>4. RequestTotals(s) BY DEF Totals
<1>5. Held' = Held BY <1>2 DEF Held
<1>6. \A c \in Campaigns :
        /\ Items(c)' = IF c = d THEN Items(c) \cup new[r] ELSE Items(c)
        /\ CompletedItems(c)' = CompletedItems(c)
  BY <1>2, LifecycleRows DEF Items, CompletedItems
<1>7. \A c \in Campaigns : Started(c)' <=> Started(c) \/ (c = d /\ ask[r].kind = "start")
  <2>1. ask[r].kind \in Lifecycle => (Stamp(ask[r].kind) = "started_at" <=> ask[r].kind = "start")
    BY DEF Stamp, Lifecycle
  <2> QED BY <1>1, <1>2, <2>1 DEF Started, TypeOK
<1>8. CASE ~(ask[r].kind = "start" /\ ~Started(d) /\ ask[s].campaign = d)
  <2>1. PICK c \in Campaigns : c = ask[s].campaign BY <1>3
  <2>2. ask[r].kind = "start" /\ Started(d) => new[r] = {}
    BY <1>1, StartCommits
  <2>3. Items(c)' = Items(c) /\ (Started(c)' <=> Started(c))
        /\ CompletedItems(c)' = CompletedItems(c)
    BY <1>2, <1>6, <1>7, <1>8, <2>1, <2>2
  <2>4. InFlight(s) /\ Doomed(s) /\ ask'[s] = ask[s] /\ new'[s] = new[s] => Doomed(s)'
    BY DoomedKeeps
  <2> QED BY <1>3, <1>4, <1>5, <2>1, <2>3, <2>4, SessionKeeps
<1>9. CASE ask[r].kind = "start" /\ ~Started(d) /\ ask[s].campaign = d
  <2>1. ask[s].kind \notin {"complete", "decide"}
    BY <1>3, <1>4, <1>9 DEF RequestTotals, ReviewTotals
  <2>2. ask[s].kind = "start" => StartTotals(s)'
    BY <1>3, <1>9, RacingStart
  <2>3. ask[s].kind \in {"create", "cancel"} => CountedTotal(s) = LoadedTotal(s)
    BY <1>3, <1>4 DEF RequestTotals
  <2> QED BY <1>3, <2>1, <2>2, <2>3 DEF RequestTotals
<1> QED BY <1>8, <1>9

(* A decision completes an item the campaign already has.                  *)
LEMMA DecisionTotals ==
    ASSUME TypeOK, Control, Tables, Totals, NEW r \in Clients, CommitDecision(r), [Next]_vars,
           \A a \in Assignments : Grant(a) => \A s \in Clients : ~Starting(s)
    PROVE  /\ \A c \in Campaigns : CampaignTotals(c)'
           /\ \A s \in Clients : RequestTotals(s)'
<1>1. /\ Commit(r) /\ ask[r].kind = "decide" /\ UNCHANGED <<status, stamps, assignment>>
      /\ InFlight(r)
      /\ ask[r].campaign \in Campaigns /\ ask[r].item \in Assignments
      /\ item[ask[r].campaign][ask[r].item] # "ABSENT"
      /\ item' = [item EXCEPT ![ask[r].campaign][ask[r].item] = "COMPLETED"]
  BY DecisionRows, CommitControl, CommitKeeps DEF CommitDecision
<1>2. \A c \in Campaigns, a \in Assignments :
        item'[c][a] = IF c = ask[r].campaign /\ a = ask[r].item THEN "COMPLETED" ELSE item[c][a]
  BY <1>1 DEF TypeOK
<1>3. /\ Held' = Held
      /\ \A c \in Campaigns :
            /\ Items(c)' = Items(c) /\ (Started(c)' <=> Started(c))
            /\ CompletedItems(c) \subseteq CompletedItems(c)'
            /\ CompletedItems(c)' \subseteq Items(c)
  BY <1>1, <1>2 DEF Held, Items, Started, CompletedItems
<1>4. CountedTotal(r) = LoadedTotal(r)
  BY <1>1 DEF Totals, RequestTotals, ReviewTotals
<1>5. ASSUME NEW c \in Campaigns PROVE CampaignTotals(c)'
  <2>1. CampaignTotals(c) BY DEF Totals
  <2>2. counts'[c]["total_items"] = counts[c]["total_items"]
    BY <1>1, <1>4, CommittedTotal
  <2>3. Items(c) = CompletedItems(c) => Items(c) = CompletedItems(c)' BY <1>3
  <2> QED BY <1>1, <1>3, <2>1, <2>2, <2>3 DEF CampaignTotals
<1>6. ASSUME NEW s \in Clients, InFlight(s)' PROVE RequestTotals(s)'
  <2>1. Kept(s) BY <1>1, CommitKeeps
  <2>2. ask[s].campaign \in Campaigns
    BY <1>6, <2>1, AskFields DEF Kept, Control, InFlight
  <2>3. PICK c \in Campaigns : c = ask[s].campaign BY <2>2
  <2>4. Items(c) = CompletedItems(c) => Items(c) = CompletedItems(c)' BY <1>3
  <2>5. InFlight(s) /\ Doomed(s) /\ ask'[s] = ask[s] /\ new'[s] = new[s] => Doomed(s)'
    BY DoomedKeeps
  <2>6. RequestTotals(s) BY DEF Totals
  <2> QED BY <1>3, <2>1, <2>3, <2>4, <2>5, <2>6, SessionKeeps
<1> QED BY <1>5, <1>6 DEF RequestTotals

LEMMA TotalsInit == Init => Totals
<1> SUFFICES ASSUME Init PROVE Totals OBVIOUS
<1>1. Fresh /\ \A r \in Clients : RequestTotals(r)
  BY DEF Init, Fresh, RequestTotals, InFlight
<1>2. ASSUME NEW c \in Campaigns PROVE CampaignTotals(c)
  <2>1. /\ status[c] = "ABSENT" /\ ~Started(c) /\ Items(c) = {}
        /\ counts[c]["total_items"] = 0
    BY DEF Init, Started, Items, Zero, Counters
  <2> QED BY <2>1, FS_EmptySet DEF CampaignTotals
<1> QED BY <1>1, <1>2 DEF Totals

LEMMA TotalsStep ==
    ASSUME TypeOK, Control, Tables, Bounded, Totals, [Next]_vars,
           \A a \in Assignments : Grant(a) => \A s \in Clients : ~Starting(s)
    PROVE  Totals'
<1>1. Fresh' BY FreshStep DEF Totals
<1>2. ASSUME UNCHANGED <<status, stamps, counts, item, pc, ask, new, loaded, counted>>,
             (\E s \in Clients : Starting(s)) => Held' \subseteq Held
      PROVE  Totals'
  <2>1. \A c : /\ Items(c)' = Items(c) /\ (Started(c)' <=> Started(c))
               /\ CompletedItems(c)' = CompletedItems(c)
    BY <1>2 DEF Items, Started, CompletedItems
  <2>2. ASSUME NEW c \in Campaigns PROVE CampaignTotals(c)'
    <3>1. CampaignTotals(c) BY DEF Totals
    <3> QED BY <1>2, <2>1, <3>1 DEF CampaignTotals
  <2>3. ASSUME NEW s \in Clients PROVE RequestTotals(s)'
    <3>1. Kept(s) BY <1>2 DEF Kept, InFlight
    <3>2. PICK c : c = ask[s].campaign OBVIOUS
    <3>3. RequestTotals(s) BY DEF Totals
    <3>4. InFlight(s) /\ Doomed(s) /\ ask'[s] = ask[s] /\ new'[s] = new[s] => Doomed(s)'
      BY DoomedKeeps
    <3> QED BY <1>2, <2>1, <3>1, <3>2, <3>3, <3>4, SessionKeeps
  <2> QED BY <1>1, <2>2, <2>3 DEF Totals
<1>3. CASE UNCHANGED vars
  BY <1>2, <1>3 DEF vars, rows, campaignRows, local, Held
<1>4. ASSUME NEW r \in Clients, Quiet(r) PROVE Totals'
  BY <1>1, <1>4, QuietTotals DEF Totals
<1>5. ASSUME NEW r \in Clients, CommitLifecycle(r) PROVE Totals'
  BY <1>1, <1>5, LifecycleTotals, LifecycleRequests DEF Totals
<1>6. ASSUME NEW r \in Clients, CommitDecision(r) PROVE Totals'
  BY <1>1, <1>6, DecisionTotals DEF Totals
<1>7. ASSUME NEW a \in Assignments, Grant(a) PROVE Totals'
  <2>1. UNCHANGED <<status, stamps, counts, item, pc, ask, new, loaded, counted>>
    BY <1>7 DEF Grant, campaignRows, local
  <2>2. ~(\E s \in Clients : Starting(s)) BY <1>7
  <2> QED BY <1>2, <2>1, <2>2
<1>8. ASSUME NEW a \in Assignments, Revoke(a) PROVE Totals'
  <2>1. UNCHANGED <<status, stamps, counts, item, pc, ask, new, loaded, counted>>
    BY <1>8 DEF Revoke, campaignRows, local
  <2>2. Held' \subseteq Held BY <1>8 DEF Revoke, Held, TypeOK
  <2> QED BY <1>2, <2>1, <2>2
<1> QED BY <1>3, <1>4, <1>5, <1>6, <1>7, <1>8, StepCases

(***************************************************************************)
(* A completed campaign has a decision for every one of its review items,  *)
(* and total_items is their number, however many requests overlap: the     *)
(* guarantee of complete_campaign and of the count it checks, provided no  *)
(* access is granted while a start of a campaign is in flight.             *)
(***************************************************************************)
THEOREM CompletionIsDecided == Spec /\ GrantsWait => []CompletedIsDecided
<1> DEFINE Inv == TypeOK /\ Control /\ Tables /\ Bounded /\ Totals
           Waits == \A a \in Assignments : Grant(a) => \A r \in Clients : ~Starting(r)
<1>1. Init => Inv BY TypeInit, TablesInit, BoundedInit, TotalsInit
<1>2. Inv /\ [Next]_vars /\ [Waits]_vars => Inv'
  <2> SUFFICES ASSUME Inv, [Next]_vars, [Waits]_vars PROVE Inv' OBVIOUS
  <2>1. ASSUME UNCHANGED vars, NEW a \in Assignments, Grant(a) PROVE FALSE
    <3>1. assignment[a] = "never" /\ assignment'[a] = "held"
      BY <2>1 DEF Grant, TypeOK
    <3> QED BY <2>1, <3>1 DEF vars, rows
  <2>2. Waits BY <2>1
  <2> QED BY <2>2, TypeStep, TablesStep, BoundedStep, TotalsStep
<1>3. Inv => CompletedIsDecided
  <2>1. ASSUME Totals, NEW c \in Campaigns
        PROVE  /\ counts[c]["total_items"] = Cardinality(Items(c))
               /\ status[c] = "COMPLETED" => Items(c) = CompletedItems(c)
    BY <2>1 DEF Totals, CampaignTotals
  <2> QED BY <2>1 DEF CompletedIsDecided
<1>4. GrantsWait <=> [][Waits]_vars BY DEF GrantsWait
<1> QED BY <1>1, <1>2, <1>3, <1>4, PTL DEF Spec

(***************************************************************************)
(* In particular while access is only reviewed and revoked, not granted.   *)
(***************************************************************************)
THEOREM CompletionIsDecidedWithoutGrants ==
    "grant" \notin Kinds => (Spec => []CompletedIsDecided)
<1> SUFFICES ASSUME "grant" \notin Kinds PROVE Spec => []CompletedIsDecided OBVIOUS
<1> DEFINE Waits == \A a \in Assignments : Grant(a) => \A r \in Clients : ~Starting(r)
<1>1. [Next]_vars => [Waits]_vars BY DEF Grant
<1>2. Spec => [][Waits]_vars BY <1>1, PTL DEF Spec
<1>3. Spec => GrantsWait BY <1>2 DEF GrantsWait
<1> QED BY <1>3, CompletionIsDecided, PTL

-----------------------------------------------------------------------------
(***************************************************************************)
(* The records of requests that do not overlap: what a request has counted *)
(* is what the rows will add up to when it has committed, and the decision *)
(* it saw is the one on record.                                            *)
(***************************************************************************)
CountsToWrite(r) ==
    LET c == ask[r].campaign IN
    /\ loaded[r] = counts[c]
    /\ ask[r].kind = "decide" => seen[r] = decision[c][ask[r].item]
    /\ pc[r] \in {"completed", "decisions", "commit"} =>
          counted[r]["total_items"] = Cardinality(Items(c) \cup new[r])
    /\ pc[r] \in {"decisions", "commit"} =>
          counted[r]["completed_items"] = Cardinality(CompletedSeen(r))
    /\ pc[r] = "commit" =>
          \A d \in Decisions : counted[r][CounterOf(d)] = Cardinality(DecidedSeen(r, d))

ExactCounts ==
    /\ CountersMatchRows
    /\ \A r \in Clients : InFlight(r) => CountsToWrite(r)

AuditIsLog == audit \in Seq([kind : Lifecycle \cup {"decide"}, campaign : Campaigns,
                             item : Assignments \cup {None},
                             decision : Decisions \cup {None}, update : BOOLEAN])

(* A request that has just loaded would write what it has read.            *)
LEMMA LoadCounts ==
    ASSUME TypeOK, CountersMatchRows, NEW r \in Clients, NEW q \in Asks, Load(r, q)
    PROVE  CountsToWrite(r)'
<1>0. PICK c \in Campaigns : c = q.campaign BY AskFields
<1>1. /\ FreshId(q) /\ Check(q) = "ok" /\ ask'[r] = q /\ new'[r] = {}
      /\ loaded'[r] = counts[c] /\ counted'[r] = counts[c] /\ pc'[r] = FirstStep(q.kind)
      /\ seen'[r] = IF q.kind = "decide" THEN decision[c][q.item] ELSE None
      /\ UNCHANGED <<counts, item, decision>>
  BY <1>0 DEF Load, Ask, rows, campaignRows, TypeOK
<1>2. /\ Items(ask[r].campaign)' = Items(c)
      /\ q.kind # "decide" => CompletedSeen(r)' = CompletedItems(c)
      /\ q.kind # "decide" =>
            \A d \in Decisions : DecidedSeen(r, d)' = {a \in Assignments : decision[c][a] = d}
  BY <1>0, <1>1 DEF Items, CompletedSeen, CompletedItems, DecidedSeen
<1>3. /\ counts[c]["total_items"] = Cardinality(Items(c))
      /\ counts[c]["completed_items"] = Cardinality(CompletedItems(c))
      /\ \A d \in Decisions :
            counts[c][CounterOf(d)] = Cardinality({a \in Assignments : decision[c][a] = d})
  BY DEF CountersMatchRows
<1>4. /\ pc'[r] \notin {"completed", "decisions"}
      /\ pc'[r] = "commit" => q.kind # "decide"
  BY <1>1 DEF FirstStep
<1>5. Items(ask[r].campaign)' \cup new'[r] = Items(c) BY <1>1, <1>2
<1>6. /\ loaded'[r] = counts'[ask'[r].campaign]
      /\ ask'[r].kind = "decide" => seen'[r] = decision'[ask'[r].campaign][ask'[r].item]
  BY <1>0, <1>1
<1>7. pc'[r] = "commit" =>
        /\ counted'[r]["total_items"] = Cardinality(Items(ask[r].campaign)' \cup new'[r])
        /\ counted'[r]["completed_items"] = Cardinality(CompletedSeen(r)')
        /\ \A d \in Decisions : counted'[r][CounterOf(d)] = Cardinality(DecidedSeen(r, d)')
  BY <1>1, <1>2, <1>3, <1>4, <1>5
<1> QED BY <1>4, <1>6, <1>7 DEF CountsToWrite

(* The three counting statements.                                          *)
LEMMA CountingCounts ==
    ASSUME TypeOK, Control, NEW r \in Clients, CountsToWrite(r),
           CountTotal(r) \/ CountCompleted(r) \/ CountDecisions(r)
    PROVE  CountsToWrite(r)'
<1>1. /\ UNCHANGED <<counts, item, decision, ask, new, loaded, seen>>
      /\ pc[r] \in {"total", "completed", "decisions"}
  BY DEF CountTotal, CountCompleted, CountDecisions, Counting, Goto, rows, campaignRows
<1>2. /\ Items(ask[r].campaign)' = Items(ask[r].campaign)
      /\ CompletedSeen(r)' = CompletedSeen(r)
      /\ \A d \in Decisions : DecidedSeen(r, d)' = DecidedSeen(r, d)
  BY <1>1 DEF Items, CompletedSeen, DecidedSeen, DecisionAfter
<1>3. /\ loaded'[r] = counts'[ask'[r].campaign]
      /\ ask'[r].kind = "decide" => seen'[r] = decision'[ask'[r].campaign][ask'[r].item]
  BY <1>1 DEF CountsToWrite
<1>4. CASE CountTotal(r)
  <2>1. pc'[r] = "completed"
        /\ counted'[r]["total_items"] = Cardinality(Items(ask[r].campaign) \cup new[r])
    BY <1>4 DEF CountTotal, Counting, Goto, Recounted, Counters, TypeOK
  <2> QED BY <1>1, <1>2, <1>3, <2>1 DEF CountsToWrite
<1>5. CASE CountCompleted(r)
  <2>1. /\ pc[r] = "completed" /\ pc'[r] = "decisions"
        /\ counted'[r]["total_items"] = counted[r]["total_items"]
        /\ counted'[r]["completed_items"] = Cardinality(CompletedSeen(r))
    BY <1>5 DEF CountCompleted, Counting, Goto, Recounted, Counters, TypeOK
  <2> QED BY <1>1, <1>2, <1>3, <2>1 DEF CountsToWrite
<1>6. CASE CountDecisions(r)
  <2>1. \A d \in Decisions : /\ CounterOf(d) \in Counters
                             /\ CounterOf(d) \notin {"completed_items", "total_items"}
                             /\ \A e \in Decisions : CounterOf(e) = CounterOf(d) => e = d
    BY DEF CounterOf, Counters, Decisions
  <2>2. /\ pc[r] = "decisions" /\ pc'[r] = "commit"
        /\ counted' = [counted EXCEPT ![r] =
              [k \in Counters |->
                  IF \E d \in Decisions : CounterOf(d) = k
                    THEN Cardinality(DecidedSeen(r,
                              CHOOSE d \in Decisions : CounterOf(d) = k))
                    ELSE counted[r][k]]]
    BY <1>6 DEF CountDecisions, Counting, Goto, TypeOK
  <2>3. /\ counted'[r]["completed_items"] = counted[r]["completed_items"]
        /\ counted'[r]["total_items"] = counted[r]["total_items"]
    BY <2>1, <2>2 DEF TypeOK, Counters
  <2>4. ASSUME NEW d \in Decisions
        PROVE  counted'[r][CounterOf(d)] = Cardinality(DecidedSeen(r, d))
    <3>1. (CHOOSE e \in Decisions : CounterOf(e) = CounterOf(d)) = d BY <2>1
    <3> QED BY <2>1, <2>2, <3>1 DEF TypeOK
  <2> QED BY <1>1, <1>2, <1>3, <2>2, <2>3, <2>4 DEF CountsToWrite
<1> QED BY <1>4, <1>5, <1>6

(* The counters a commit stores are those it computed.                     *)
LEMMA CommittedCounts ==
    ASSUME TypeOK, Control, NEW r \in Clients, Commit(r), CountsToWrite(r), NEW c \in Campaigns
    PROVE  counts'[c] = IF c = ask[r].campaign THEN counted[r] ELSE counts[c]
<1>1. counts' = [counts EXCEPT ![ask[r].campaign] =
                    [k \in Counters |-> IF counted[r][k] # loaded[r][k]
                                          THEN counted[r][k]
                                          ELSE counts[ask[r].campaign][k]]]
  BY DEF Commit, WriteCounts
<1>2. loaded[r] = counts[ask[r].campaign] BY DEF CountsToWrite
<1>3. [k \in Counters |-> IF counted[r][k] # loaded[r][k]
                            THEN counted[r][k] ELSE counts[ask[r].campaign][k]]
        = counted[r]
  BY <1>2 DEF TypeOK
<1> QED BY <1>1, <1>3 DEF TypeOK

LEMMA LifecycleCounts ==
    ASSUME TypeOK, Control, CountersMatchRows, NEW r \in Clients, CountsToWrite(r),
           CommitLifecycle(r)
    PROVE  CountersMatchRows'
<1>1. /\ Commit(r) /\ pc[r] = "commit" /\ UNCHANGED decision /\ new[r] \in SUBSET Assignments
      /\ ask[r].kind # "decide"
  BY LifecycleRows, CommitControl DEF CommitLifecycle, Lifecycle, TypeOK
<1>0. PICK d \in Campaigns : d = ask[r].campaign BY <1>1, CommitControl
<1>2. \A c \in Campaigns :
        /\ Items(c)' = IF c = d THEN Items(c) \cup new[r] ELSE Items(c)
        /\ CompletedItems(c)' = CompletedItems(c)
  BY <1>0, <1>1, LifecycleRows DEF Items, CompletedItems
<1>3. /\ counted[r]["total_items"] = Cardinality(Items(d) \cup new[r])
      /\ counted[r]["completed_items"] = Cardinality(CompletedSeen(r))
      /\ \A e \in Decisions : counted[r][CounterOf(e)] = Cardinality(DecidedSeen(r, e))
  BY <1>0, <1>1 DEF CountsToWrite
<1>4. /\ CompletedSeen(r) = CompletedItems(d)
      /\ \A e \in Decisions : DecidedSeen(r, e) = {a \in Assignments : decision[d][a] = e}
  BY <1>0, <1>1 DEF CompletedSeen, CompletedItems, Items, DecidedSeen
<1> SUFFICES ASSUME NEW c \in Campaigns
             PROVE  /\ counts'[c]["total_items"] = Cardinality(Items(c)')
                    /\ counts'[c]["completed_items"] = Cardinality(CompletedItems(c)')
                    /\ \A e \in Decisions : counts'[c][CounterOf(e)] =
                            Cardinality({a \in Assignments : decision'[c][a] = e})
  BY DEF CountersMatchRows
<1>5. CASE c = d
  <2>1. counts'[c] = counted[r] BY <1>0, <1>1, <1>5, CommittedCounts
  <2> QED BY <1>1, <1>2, <1>3, <1>4, <1>5, <2>1
<1>6. CASE c # d
  <2>1. counts'[c] = counts[c] BY <1>0, <1>1, <1>6, CommittedCounts
  <2> QED BY <1>1, <1>2, <1>6, <2>1 DEF CountersMatchRows
<1> QED BY <1>5, <1>6

LEMMA DecisionCounts ==
    ASSUME TypeOK, Control, Tables, CountersMatchRows, NEW r \in Clients, CountsToWrite(r),
           CommitDecision(r)
    PROVE  CountersMatchRows'
<1>1. /\ Commit(r) /\ pc[r] = "commit" /\ ask[r].kind = "decide" /\ new[r] = {}
      /\ ask[r].item \in Assignments
      /\ item[ask[r].campaign][ask[r].item] # "ABSENT"
      /\ item' = [item EXCEPT ![ask[r].campaign][ask[r].item] = "COMPLETED"]
      /\ decision' = [decision EXCEPT ![ask[r].campaign][ask[r].item] = DecisionAfter(r)]
  BY DecisionRows DEF CommitDecision, Commit, Control
<1>0. PICK d \in Campaigns : d = ask[r].campaign BY <1>1, CommitControl
<1>2. PICK b \in Assignments : b = ask[r].item BY <1>1
<1>3. \A c \in Campaigns, a \in Assignments :
        /\ item'[c][a] = IF c = d /\ a = b THEN "COMPLETED" ELSE item[c][a]
        /\ decision'[c][a] = IF c = d /\ a = b THEN DecisionAfter(r) ELSE decision[c][a]
  BY <1>0, <1>1, <1>2 DEF TypeOK
<1>4. /\ counted[r]["total_items"] = Cardinality(Items(d) \cup new[r])
      /\ counted[r]["completed_items"] = Cardinality(CompletedSeen(r))
      /\ \A e \in Decisions : counted[r][CounterOf(e)] = Cardinality(DecidedSeen(r, e))
  BY <1>0, <1>1 DEF CountsToWrite
<1>5. /\ Items(d)' = Items(d) \cup new[r]
      /\ CompletedItems(d)' = CompletedSeen(r)
      /\ \A e \in Decisions : {a \in Assignments : decision'[d][a] = e} = DecidedSeen(r, e)
  BY <1>0, <1>1, <1>2, <1>3 DEF Items, CompletedItems, CompletedSeen, DecidedSeen
<1>6. \A c \in Campaigns : c # d =>
        /\ Items(c)' = Items(c) /\ CompletedItems(c)' = CompletedItems(c)
        /\ \A e \in Decisions : {a \in Assignments : decision'[c][a] = e}
                                  = {a \in Assignments : decision[c][a] = e}
  BY <1>3 DEF Items, CompletedItems
<1> SUFFICES ASSUME NEW c \in Campaigns
             PROVE  /\ counts'[c]["total_items"] = Cardinality(Items(c)')
                    /\ counts'[c]["completed_items"] = Cardinality(CompletedItems(c)')
                    /\ \A e \in Decisions : counts'[c][CounterOf(e)] =
                            Cardinality({a \in Assignments : decision'[c][a] = e})
  BY DEF CountersMatchRows
<1>7. CASE c = d
  <2>1. counts'[c] = counted[r] BY <1>0, <1>1, <1>7, CommittedCounts
  <2> QED BY <1>4, <1>5, <1>7, <2>1
<1>8. CASE c # d
  <2>1. counts'[c] = counts[c] BY <1>0, <1>1, <1>8, CommittedCounts
  <2> QED BY <1>6, <1>8, <2>1 DEF CountersMatchRows
<1> QED BY <1>7, <1>8

(* What a commit appends to the audit log.                                 *)
LEMMA AuditGrows ==
    ASSUME TypeOK, Control, AuditIsLog, NEW r \in Clients, Commit(r)
    PROVE  /\ AuditIsLog'
           /\ Len(audit) \in Nat /\ DOMAIN audit = 1..Len(audit)
           /\ DOMAIN audit' = 1..(Len(audit) + 1)
           /\ \A k \in 1..Len(audit) : audit'[k] = audit[k]
           /\ audit'[Len(audit) + 1] = Entry(r)
           /\ Entry(r).campaign = ask[r].campaign /\ Entry(r).item = ask[r].item
           /\ Entry(r).decision = ask[r].decision
           /\ ask[r] \in Asks
<1>1. audit' = Append(audit, Entry(r)) /\ ask[r] \in Asks
  BY CommitControl DEF Commit
<1>2. Entry(r) \in [kind : Lifecycle \cup {"decide"}, campaign : Campaigns,
                    item : Assignments \cup {None},
                    decision : Decisions \cup {None}, update : BOOLEAN]
  BY <1>1, AskFields DEF Entry
<1>3. Entry(r).campaign = ask[r].campaign /\ Entry(r).item = ask[r].item
      /\ Entry(r).decision = ask[r].decision
  BY DEF Entry
<1> HIDE DEF Entry
<1> QED BY <1>1, <1>2, <1>3 DEF AuditIsLog

LEMMA LifecycleAudit ==
    ASSUME TypeOK, Control, AuditIsLog, DecisionsMatchAudit, NEW r \in Clients,
           CommitLifecycle(r)
    PROVE  DecisionsMatchAudit'
<1>1. Commit(r) /\ UNCHANGED decision /\ ask[r].kind \in Lifecycle
  BY DEF CommitLifecycle
<1>2. Entry(r).item = None
  BY <1>1, AuditGrows, AskFields
<1>3. \A k \in 1..Len(audit) : audit'[k] = audit[k]
  BY <1>1, AuditGrows
<1>4. ASSUME NEW c \in Campaigns, NEW a \in Assignments
      PROVE  AuditedDecisions(c, a)' = AuditedDecisions(c, a)
  <2>1. a # None BY CampaignsAssumption DEF CampaignsAssumption
  <2> QED BY <1>1, <1>2, <1>3, <2>1, AuditGrows DEF AuditedDecisions
<1>5. \A c, a : AuditedDecisions(c, a) \subseteq 1..Len(audit)
  BY <1>1, AuditGrows DEF AuditedDecisions
<1> QED BY <1>1, <1>3, <1>4, <1>5 DEF DecisionsMatchAudit

LEMMA DecisionAudit ==
    ASSUME TypeOK, Control, Tables, AuditIsLog, DecisionsMatchAudit, NEW r \in Clients,
           CountsToWrite(r), CommitDecision(r)
    PROVE  DecisionsMatchAudit'
<1>1. /\ Commit(r) /\ ask[r].kind = "decide" /\ ask[r].item \in Assignments
      /\ decision' = [decision EXCEPT ![ask[r].campaign][ask[r].item] = DecisionAfter(r)]
  BY DecisionRows DEF CommitDecision
<1>0. PICK d \in Campaigns : d = ask[r].campaign BY <1>1, CommitControl
<1>2. PICK b \in Assignments : b = ask[r].item BY <1>1
<1>3. DecisionAfter(r) = ask[r].decision
  BY <1>1 DEF CountsToWrite, DecisionAfter
<1>4. PICK n \in Nat : n = Len(audit) BY <1>1, AuditGrows
<1>5. /\ DOMAIN audit = 1..n /\ DOMAIN audit' = 1..(n + 1)
      /\ \A k \in 1..n : audit'[k] = audit[k]
      /\ audit'[n + 1].campaign = d /\ audit'[n + 1].item = b
      /\ audit'[n + 1].decision = ask[r].decision
  BY <1>0, <1>1, <1>2, <1>4, AuditGrows
<1>6. \A c \in Campaigns, a \in Assignments :
        decision'[c][a] = IF c = d /\ a = b THEN ask[r].decision ELSE decision[c][a]
  BY <1>0, <1>1, <1>2, <1>3 DEF TypeOK
<1> SUFFICES ASSUME NEW c \in Campaigns, NEW a \in Assignments
             PROVE  LET own == AuditedDecisions(c, a)'
                    IN  IF own = {} THEN decision'[c][a] = None
                        ELSE \E last \in own : /\ \A k \in own : k <= last
                                               /\ decision'[c][a] = audit'[last].decision
  BY DEF DecisionsMatchAudit
<1>7. CASE c = d /\ a = b
  <2>1. n + 1 \in AuditedDecisions(c, a)' BY <1>5, <1>7 DEF AuditedDecisions
  <2>2. \A k \in AuditedDecisions(c, a)' : k <= n + 1
    BY <1>5 DEF AuditedDecisions
  <2> QED BY <1>5, <1>6, <1>7, <2>1, <2>2
<1>8. CASE ~(c = d /\ a = b)
  <2>1. AuditedDecisions(c, a)' = AuditedDecisions(c, a)
    BY <1>5, <1>8 DEF AuditedDecisions
  <2>2. AuditedDecisions(c, a) \subseteq 1..n BY <1>5 DEF AuditedDecisions
  <2> QED BY <1>5, <1>6, <1>8, <2>1, <2>2 DEF DecisionsMatchAudit
<1> QED BY <1>7, <1>8

LEMMA RecordsStep ==
    ASSUME OneAtATime, TypeOK, Control, Tables, Serial, ExactCounts, AuditIsLog,
           DecisionsMatchAudit, [Next]_vars
    PROVE  ExactCounts' /\ AuditIsLog' /\ DecisionsMatchAudit'
<1>1. ASSUME UNCHANGED <<counts, item, decision, audit>>,
             \A r \in Clients : InFlight(r)' => CountsToWrite(r)'
      PROVE  ExactCounts' /\ AuditIsLog' /\ DecisionsMatchAudit'
  <2>1. CountersMatchRows'
    BY <1>1 DEF ExactCounts, CountersMatchRows, Items, CompletedItems
  <2>2. AuditIsLog' /\ DecisionsMatchAudit'
    BY <1>1 DEF AuditIsLog, DecisionsMatchAudit, AuditedDecisions
  <2> QED BY <1>1, <2>1, <2>2 DEF ExactCounts
<1>2. ASSUME UNCHANGED <<counts, item, decision, audit, pc, local>>
      PROVE  ExactCounts' /\ AuditIsLog' /\ DecisionsMatchAudit'
  <2>1. ASSUME NEW r \in Clients, InFlight(r)' PROVE CountsToWrite(r)'
    <3>1. InFlight(r) /\ CountsToWrite(r) BY <1>2, <2>1 DEF InFlight, ExactCounts
    <3> QED BY <1>2, <3>1 DEF CountsToWrite, Items, CompletedSeen, DecidedSeen,
                              DecisionAfter, local
  <2> QED BY <1>1, <1>2, <2>1
<1>3. CASE UNCHANGED vars BY <1>2, <1>3 DEF vars, rows, campaignRows
<1>4. ASSUME NEW a \in Assignments, Grant(a) \/ Revoke(a)
      PROVE  ExactCounts' /\ AuditIsLog' /\ DecisionsMatchAudit'
  BY <1>2, <1>4 DEF Grant, Revoke, campaignRows
<1>5. ASSUME NEW r \in Clients, Quiet(r)
      PROVE  ExactCounts' /\ AuditIsLog' /\ DecisionsMatchAudit'
  <2>1. UNCHANGED <<status, stamps, counts, item, decision, audit>>
    BY <1>5, QuietRows
  <2>2. \A s \in Clients : s = r BY DEF OneAtATime
  <2>3. ASSUME NEW q \in Asks, Load(r, q) PROVE CountsToWrite(r)'
    BY <2>3, LoadCounts DEF ExactCounts
  <2>4. ASSUME NEW q \in Asks, Refuse(r, q)
        PROVE  ExactCounts' /\ AuditIsLog' /\ DecisionsMatchAudit'
    BY <1>2, <2>1, <2>4 DEF Refuse
  <2>5. ASSUME RefuseIncomplete(r) \/ CommitFails(r) \/ Publish(r) PROVE ~InFlight(r)'
    BY <2>5 DEF RefuseIncomplete, CommitFails, Publish, Abort, InFlight, TypeOK
  <2>6. ASSUME CountTotal(r) \/ CountCompleted(r) \/ CountDecisions(r)
        PROVE  CountsToWrite(r)'
    <3>1. InFlight(r)
      BY <2>6 DEF CountTotal, CountCompleted, CountDecisions, Counting, InFlight
    <3> QED BY <2>6, <3>1, CountingCounts DEF ExactCounts
  <2>7. ASSUME Snapshot(r) PROVE CountsToWrite(r)'
    <3>1. /\ pc[r] = "snapshot" /\ InFlight(r) /\ ask[r].kind = "start"
          /\ ask[r].campaign \in Campaigns
      BY <2>7, AskFields DEF Snapshot, InFlight, Control
    <3>2. status[ask[r].campaign] = "DRAFT"
      BY <3>1 DEF InFlight, Serial, Validated
    <3>3. Items(ask[r].campaign) = {}
      BY <3>1, <3>2 DEF Serial, ItemsFollowStart, Items
    <3>4. pc'[r] = "total" /\ UNCHANGED <<ask, loaded>>
      BY <2>7, <3>3 DEF Snapshot, Goto, TypeOK
    <3>5. CountsToWrite(r) BY <3>1 DEF ExactCounts
    <3> QED BY <2>1, <3>1, <3>4, <3>5 DEF CountsToWrite
  <2>8. ASSUME Write(r), InFlight(r)' PROVE CountsToWrite(r)'
    <3>1. /\ pc[r] = "write" /\ pc'[r] = "total" /\ UNCHANGED local
      BY <2>8 DEF Write, Abort, Goto, InFlight, TypeOK
    <3>2. CountsToWrite(r) BY <3>1 DEF ExactCounts, InFlight
    <3> QED BY <2>1, <3>1, <3>2 DEF CountsToWrite, local
  <2> QED
    BY <1>1, <1>5, <2>1, <2>2, <2>3, <2>4, <2>5, <2>6, <2>7, <2>8 DEF Quiet
<1>6. ASSUME NEW r \in Clients, CommitLifecycle(r) \/ CommitDecision(r)
      PROVE  ExactCounts' /\ AuditIsLog' /\ DecisionsMatchAudit'
  <2>1. Commit(r) /\ CountsToWrite(r)
    BY <1>6, CommitKeeps DEF CommitLifecycle, CommitDecision, ExactCounts
  <2>2. \A s \in Clients : ~InFlight(s)'
    BY <2>1, CommitKeeps DEF OneAtATime
  <2>3. CountersMatchRows' /\ DecisionsMatchAudit'
    BY <1>6, <2>1, LifecycleCounts, DecisionCounts, LifecycleAudit, DecisionAudit
    DEF ExactCounts
  <2>4. AuditIsLog' BY <2>1, AuditGrows
  <2> QED BY <2>2, <2>3, <2>4 DEF ExactCounts
<1> QED BY <1>3, <1>4, <1>5, <1>6, StepCases

(***************************************************************************)
(* While no two requests overlap, every counter of a campaign is what      *)
(* _recalculate_campaign_counts would compute, and every stored decision   *)
(* is the last one audited, whatever is granted or revoked meanwhile.      *)
(***************************************************************************)
THEOREM RecordsStayInAgreement == OneAtATime => (Spec => []RecordsAgree)
<1> SUFFICES ASSUME OneAtATime PROVE Spec => []RecordsAgree OBVIOUS
<1> DEFINE Inv == /\ TypeOK /\ Control /\ Tables /\ Serial
                  /\ ExactCounts /\ AuditIsLog /\ DecisionsMatchAudit
<1>1. Init => Inv
  <2> SUFFICES ASSUME Init PROVE ExactCounts /\ AuditIsLog /\ DecisionsMatchAudit
    BY TypeInit, TablesInit, SerialInit
  <2>1. ASSUME NEW c \in Campaigns
        PROVE  /\ Items(c) = {} /\ CompletedItems(c) = {}
               /\ \A d \in Decisions : {a \in Assignments : decision[c][a] = d} = {}
               /\ \A k \in Counters : counts[c][k] = 0
    BY CampaignsAssumption DEF Init, Items, CompletedItems, Zero, CampaignsAssumption
  <2>2. "total_items" \in Counters /\ "completed_items" \in Counters
        /\ \A d \in Decisions : CounterOf(d) \in Counters
    BY DEF Counters, CounterOf
  <2>3. CountersMatchRows BY <2>1, <2>2, FS_EmptySet DEF CountersMatchRows
  <2>4. \A r \in Clients : ~InFlight(r) BY DEF Init, InFlight
  <2>5. AuditIsLog /\ DecisionsMatchAudit
    BY DEF Init, AuditIsLog, DecisionsMatchAudit, AuditedDecisions
  <2> QED BY <2>3, <2>4, <2>5 DEF ExactCounts
<1>2. Inv /\ [Next]_vars => Inv'
  BY TypeStep, TablesStep, SerialStep, RecordsStep
<1>3. Inv => RecordsAgree BY DEF ExactCounts, RecordsAgree
<1> QED BY <1>1, <1>2, <1>3, PTL DEF Spec
=============================================================================
