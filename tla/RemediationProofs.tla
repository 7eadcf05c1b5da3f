------------------------- MODULE RemediationProofs -------------------------
(***************************************************************************)
(* Remediation, for any number of workers, campaigns, items, connectors    *)
(* and faults: types, that a COMPLETED job stands for revoked access, that *)
(* committed jobs are final, that access is revoked again only once per    *)
(* loss, and what a request that is over leaves behind.                    *)
(***************************************************************************)
EXTENDS Remediation, FiniteSetTheorems, WellFoundedInduction, TLAPS

(* A nonempty set of naturals has a least element. *)
LEMMA LeastElement ==
    ASSUME NEW S, S \subseteq Nat, S # {}
    PROVE  \E x \in S : \A y \in S : x <= y
  <1>1. \E x \in S : \A y \in S : <<y, x>> \notin OpToRel(<, Nat)
    <2> HIDE DEF OpToRel
    <2> QED BY NatLessThanWellFounded, WFMin
  <1>2. PICK x \in S : \A y \in S : <<y, x>> \notin OpToRel(<, Nat)
    BY <1>1
  <1>3. ASSUME NEW y \in S PROVE x <= y
    <2>1. <<y, x>> \notin OpToRel(<, Nat) BY <1>2
    <2>2. ~(y < x) BY <2>1 DEF OpToRel
    <2> QED BY <2>2
  <1> QED BY <1>3

InTransaction(w) == pc[w] \notin {"idle", "publish"}

(***************************************************************************)
(* The inductive invariant.  A request in the middle of an item has one,   *)
(* only that item's row is RUNNING, provisioning ids are below the         *)
(* sequence, a request in a transaction is alone with its rows, and a row  *)
(* or a result that says SUCCESS was earned by a call.                     *)
(***************************************************************************)
HasCurrent ==
    \A w \in Workers :
        pc[w] \in {"create", "insert", "execute", "settle"} => todo[w] # {}

CurrentIsRunning ==
    \A w \in Workers : pc[w] \in {"execute", "settle"} =>
        draft[w][Current(w)].status = "RUNNING"

OnlyCurrentIsRunning ==
    \A w \in Workers : InTransaction(w) =>
        \A i \in Items : draft[w][i].status = "RUNNING" =>
            pc[w] \in {"execute", "settle"} /\ i = Current(w)

IdsAreBelow ==
    /\ \A j \in pjobs : j.id < nextId
    /\ \A w \in Workers : \A j \in mine[w] : j.id < nextId

RunningIsCounted == \A w \in Workers : pc[w] # "idle" => runs[w] >= 1

FaultsAreBounded == crashes + late <= MaxFaults

RowsAreExclusive ==
    \A w \in Workers : InTransaction(w) =>
        \A i \in Items : draft[w][i] # Absent =>
            /\ rjobs[i] = Absent
            /\ \A v \in Workers \ {w} : InTransaction(v) => draft[v][i] = Absent

SuccessIsEarned ==
    /\ \A i \in Items : rjobs[i].status = "COMPLETED" => revoked[i] >= 1
    /\ \A w \in Workers : \A i \in Items :
          draft[w][i].status = "COMPLETED" => revoked[i] >= 1
    /\ \A w \in Workers : (pc[w] = "settle" /\ result[w] = "SUCCESS") =>
          revoked[Current(w)] >= 1

Control == HasCurrent /\ CurrentIsRunning /\ OnlyCurrentIsRunning
             /\ IdsAreBelow /\ RunningIsCounted /\ FaultsAreBounded

LEMMA CurrentInTodo ==
    ASSUME TypeOK, NEW w \in Workers, todo[w] # {}
    PROVE  Current(w) \in todo[w] /\ Current(w) \in Items
  <1>1. todo[w] \subseteq Items BY DEF TypeOK
  <1>2. todo[w] \subseteq Nat BY <1>1, RemediationAssumption
  <1>3. \E i \in todo[w] : \A j \in todo[w] : i <= j
    BY <1>2, LeastElement
  <1> QED BY <1>1, <1>3 DEF Current

(* The row Latest links to is one of those it may link to. *)
LEMMA LatestType ==
    ASSUME TypeOK, IdsAreBelow, NEW w \in Workers
    PROVE  Latest(w) \in Nat \cup {NoJob}
  <1>1. CASE Linkable(w) = {} BY <1>1 DEF Latest
  <1>2. CASE Linkable(w) # {}
    <2>1. \A j \in Linkable(w) : j.id \in Nat /\ j.id < nextId
      BY DEF Linkable, TypeOK, IdsAreBelow, ProvisioningRow
    <2> DEFINE Gaps == {nextId - j.id : j \in Linkable(w)}
    <2>2. Gaps \subseteq Nat
      <3> SUFFICES ASSUME NEW j \in Linkable(w) PROVE nextId - j.id \in Nat
        OBVIOUS
      <3> QED BY <2>1 DEF TypeOK
    <2>3. Gaps # {} BY <1>2
    <2>4. PICK g \in Gaps : \A h \in Gaps : g <= h
      <3> HIDE DEF Gaps
      <3> QED BY <2>2, <2>3, LeastElement
    <2>5. PICK j \in Linkable(w) : g = nextId - j.id BY <2>4
    <2>6. ASSUME NEW k \in Linkable(w) PROVE k.id <= j.id
      <3>1. nextId - j.id <= nextId - k.id BY <2>4, <2>5
      <3> QED BY <3>1, <2>1 DEF TypeOK
    <2>7. \E m \in Linkable(w) : \A k \in Linkable(w) : k.id <= m.id
      BY <2>6
    <2>8. (CHOOSE m \in Linkable(w) : \A k \in Linkable(w) : k.id <= m.id)
             \in Linkable(w)
      BY <2>7
    <2> QED BY <1>2, <2>8, <2>1 DEF Latest
  <1> QED BY <1>1, <1>2

LEMMA CallIsKeyed ==
    ASSUME TypeOK, RunningIsCounted, NEW w \in Workers, pc[w] # "idle",
           NEW i \in Items, Executable(w, i)
    PROVE  /\ ConnectorOf(CallFor(w, i)) \in Connectors
           /\ Correlation(w) \in Correlations
           /\ KeyOf(CallFor(w, i)) \in AttemptKeys
  <1>1. runs[w] \in 1 .. MaxRuns BY DEF TypeOK, RunningIsCounted
  <1>2. Correlation(w) \in Correlations
    <2>1. <<w, runs[w]>> \in Workers \X (1 .. MaxRuns) BY <1>1
    <2> QED BY <2>1, RemediationAssumption DEF Correlation
  <1>3. ConnectorOf(CallFor(w, i)) \in Connectors
    BY DEF Executable, Registered, ConnectorOf
  <1>4. CallFor(w, i).operation = "revoke_entitlement"
          /\ CallFor(w, i).correlation = Correlation(w)
    BY DEF CallFor
  <1> QED BY <1>2, <1>3, <1>4, RemediationAssumption DEF KeyOf, AttemptKeys

LEMMA OutcomeType ==
    ASSUME NEW call, ConnectorOf(call) \in Connectors, NEW n \in Nat
    PROVE  /\ Outcome(call, n).status \in ConnectorStatus
           /\ Outcome(call, n).attempts \in Nat
  <1>1. Failures[ConnectorOf(call)] \in Nat BY ConnectorsAssumption
  <1> DEFINE f == Failures[ConnectorOf(call)]
             flaky == IF n < f THEN f - n ELSE 0
  <1>2. flaky \in Nat BY <1>1
  <1>3. MaxAttempts \in Nat BY ConnectorsAssumption
  <1> QED BY <1>1, <1>2, <1>3 DEF Outcome, ConnectorStatus

-----------------------------------------------------------------------------
LEMMA InitIsTyped == Init => TypeOK /\ Control
  <1> SUFFICES ASSUME Init PROVE TypeOK /\ Control
    OBVIOUS
  <1>1. TypeOK
    BY RemediationAssumption
       DEF Init, TypeOK, NoDrafts, Absent, JobRow, Decisions
  <1>2. HasCurrent /\ CurrentIsRunning /\ OnlyCurrentIsRunning
    BY DEF Init, HasCurrent, CurrentIsRunning, OnlyCurrentIsRunning, InTransaction
  <1>3. IdsAreBelow /\ RunningIsCounted /\ FaultsAreBounded
    BY RemediationAssumption
       DEF Init, IdsAreBelow, RunningIsCounted, FaultsAreBounded
  <1> QED BY <1>1, <1>2, <1>3 DEF Control

LEMMA SameCurrent ==
    ASSUME NEW v \in Workers, todo'[v] = todo[v]
    PROVE  Current(v)' = Current(v)
  BY DEF Current

(* What a step of w leaves alone of the other requests. *)
OthersUnchanged(w) ==
    \A v \in Workers \ {w} :
        /\ pc'[v] = pc[v] /\ draft'[v] = draft[v] /\ mine'[v] = mine[v]
        /\ runs'[v] = runs[v] /\ todo'[v] = todo[v]

LEMMA SkipTyped ==
    ASSUME TypeOK, Control, NEW w \in Workers, SkipExisting(w)
    PROVE  TypeOK' /\ Control'
  <1>1. TypeOK'
    BY DEF SkipExisting, Moved, committed, TypeOK
  <1>2. HasCurrent' /\ CurrentIsRunning' /\ OnlyCurrentIsRunning'
    BY DEF SkipExisting, Moved, committed, TypeOK, Control, HasCurrent,
           CurrentIsRunning, OnlyCurrentIsRunning, Current, InTransaction
  <1>3. RunningIsCounted' /\ FaultsAreBounded' /\ IdsAreBelow'
    BY DEF SkipExisting, Moved, committed, TypeOK, Control, RunningIsCounted,
           FaultsAreBounded, IdsAreBelow
  <1> QED BY <1>1, <1>2, <1>3 DEF Control

(* The steps that change no row: looking, and answering without a commit. *)
LEMMA MoveTyped ==
    ASSUME TypeOK, Control, NEW w \in Workers,
           NoExisting(w) \/ PreventDuplicate(w) \/ ExecuteRaises(w) \/ Publish(w)
    PROVE  TypeOK' /\ Control'
  <1>1. TypeOK'
    BY DEF NoExisting, PreventDuplicate, ExecuteRaises, Publish, Abort, Moved,
           committed, TypeOK
  <1>2. /\ todo' = todo /\ draft' = draft
        /\ \A v \in Workers \ {w} : pc'[v] = pc[v]
        /\ \/ pc[w] = "next" /\ pc'[w] = "create" /\ todo[w] # {}
           \/ pc[w] = "create" /\ pc'[w] = "insert"
           \/ pc[w] = "execute" /\ pc'[w] = "settle"
           \/ pc'[w] = "idle"
    BY DEF NoExisting, PreventDuplicate, ExecuteRaises, Publish, Abort, Moved,
           committed, TypeOK
  <1>a. \A v \in Workers : Current(v)' = Current(v) BY <1>2, SameCurrent
  <1>b. HasCurrent' BY <1>2 DEF Control, HasCurrent
  <1>c. CurrentIsRunning' BY <1>2, <1>a DEF Control, CurrentIsRunning
  <1>d. OnlyCurrentIsRunning'
    BY <1>2, <1>a DEF Control, OnlyCurrentIsRunning, InTransaction
  <1>3. RunningIsCounted' /\ FaultsAreBounded' /\ IdsAreBelow'
    BY DEF NoExisting, PreventDuplicate, ExecuteRaises, Publish, Abort, Moved,
           committed, TypeOK, Control, RunningIsCounted, FaultsAreBounded,
           IdsAreBelow
  <1> QED BY <1>1, <1>b, <1>c, <1>d, <1>3 DEF Control

LEMMA InsertTyped ==
    ASSUME TypeOK, Control, NEW w \in Workers, Insert(w)
    PROVE  TypeOK' /\ Control'
  <1>1. CASE Abort(w, "error")
    BY <1>1 DEF Insert, Abort, committed, TypeOK, Control, HasCurrent,
        CurrentIsRunning, OnlyCurrentIsRunning, Current, InTransaction,
        RunningIsCounted, FaultsAreBounded, IdsAreBelow
  <1>2. CASE ~Abort(w, "error")
    <2> DEFINE row == [j \in Items |-> IF j = Current(w) THEN Job("RUNNING", NoJob)
                                       ELSE draft[w][j]]
    <2>1. /\ draft' = [draft EXCEPT ![w] = row]
          /\ pc[w] = "insert" /\ pc' = [pc EXCEPT ![w] = "execute"]
          /\ UNCHANGED <<campaign, decision, late, rjobs, pjobs, nextId, revoked,
                         published, runs, crashes, response, target, todo,
                         result, mine, attempts>>
      BY <1>2 DEF Insert, Moved, committed, TypeOK
    <2>2. Current(w) \in Items
      BY <2>1, CurrentInTodo DEF Control, HasCurrent
    <2>3. row \in [Items -> JobRow]
      BY DEF TypeOK, JobRow, RemediationStatus, Job
    <2>4. row[Current(w)].status = "RUNNING" BY <2>2 DEF Job
    <2>5. \A i \in Items : i # Current(w) => row[i] = draft[w][i]
      OBVIOUS
    <2> HIDE DEF row
    <2>6. TypeOK' BY <2>1, <2>3 DEF TypeOK
    <2>7. draft'[w] = row /\ \A v \in Workers \ {w} : draft'[v] = draft[v]
      BY <2>1 DEF TypeOK
    <2>a. /\ pc'[w] = "execute" /\ \A v \in Workers \ {w} : pc'[v] = pc[v]
          /\ \A v \in Workers : Current(v)' = Current(v)
      BY <2>1, SameCurrent DEF TypeOK
    <2>8. HasCurrent' /\ CurrentIsRunning'
      BY <2>1, <2>4, <2>7, <2>a DEF Control, HasCurrent, CurrentIsRunning
    <2>9. OnlyCurrentIsRunning'
      BY <2>1, <2>5, <2>7, <2>a DEF Control, OnlyCurrentIsRunning, InTransaction
    <2>10. RunningIsCounted' /\ FaultsAreBounded' /\ IdsAreBelow'
      BY <2>1 DEF TypeOK, Control, RunningIsCounted, FaultsAreBounded, IdsAreBelow
    <2> QED BY <2>6, <2>8, <2>9, <2>10 DEF Control
  <1> QED BY <1>1, <1>2

LEMMA ExecuteTyped ==
    ASSUME TypeOK, Control, NEW w \in Workers, Execute(w)
    PROVE  TypeOK' /\ Control'
  <1> DEFINE i == Current(w)
             call == CallFor(w, i)
             outcome == Outcome(call, attempts[w][KeyOf(call)])
             row == [id |-> nextId, item |-> i, correlation |-> Correlation(w)]
             counts == [k \in AttemptKeys |->
                          IF Recorded(call) /\ k = KeyOf(call)
                            THEN attempts[w][k] + outcome.attempts
                            ELSE attempts[w][k]]
  <1>1. pc[w] = "execute" /\ i \in Items
    BY CurrentInTodo DEF Execute, Control, HasCurrent
  <1>2. /\ Correlation(w) \in Correlations
        /\ KeyOf(call) \in AttemptKeys /\ ConnectorOf(call) \in Connectors
    BY <1>1, CallIsKeyed DEF Execute, Control
  <1>3. outcome.status \in ConnectorStatus /\ outcome.attempts \in Nat
    <2>1. attempts[w][KeyOf(call)] \in Nat BY <1>2 DEF TypeOK
    <2> QED BY <2>1, <1>2, OutcomeType
  <1>4. row \in ProvisioningRow /\ row.id = nextId
    BY <1>1, <1>2 DEF ProvisioningRow, TypeOK
  <1>5. counts \in [AttemptKeys -> Nat]
    BY <1>3 DEF TypeOK
  <1>6. /\ mine' = [mine EXCEPT ![w] = mine[w] \cup {row}]
        /\ attempts' = [attempts EXCEPT ![w] = counts]
        /\ result' = [result EXCEPT ![w] = outcome.status]
        /\ revoked' = [revoked EXCEPT ![i] = revoked[i] + 1] \/ revoked' = revoked
        /\ nextId' = nextId + 1
        /\ pc' = [pc EXCEPT ![w] = "settle"]
        /\ UNCHANGED <<campaign, decision, late, rjobs, pjobs, published, runs,
                       crashes, response, target, todo, draft>>
    BY DEF Execute, Moved, committed, TypeOK
  <1> HIDE DEF i, call, outcome, row, counts
  <1>7. TypeOK'
    <2>1. mine[w] \cup {row} \in SUBSET ProvisioningRow BY <1>4 DEF TypeOK
    <2>2. mine' \in [Workers -> SUBSET ProvisioningRow]
      BY <1>6, <2>1 DEF TypeOK
    <2>3. revoked' \in [Items -> Nat]
      <3>1. revoked \in [Items -> Nat] BY DEF TypeOK
      <3>2. \A k \in Items : revoked[k] + 1 \in Nat BY <3>1
      <3>3. revoked' = [revoked EXCEPT ![i] = revoked[i] + 1] \/ revoked' = revoked
        BY <1>6
      <3> QED BY <1>1, <3>1, <3>2, <3>3
    <2>4. attempts' \in [Workers -> [AttemptKeys -> Nat]]
      BY <1>5, <1>6 DEF TypeOK
    <2>5. /\ result' \in [Workers -> ConnectorStatus \cup {"none", "error"}]
          /\ pc' \in [Workers -> {"idle", "next", "create", "insert", "execute",
                                  "settle", "publish"}]
          /\ nextId' \in Nat
      BY <1>3, <1>6 DEF TypeOK
    <2> QED BY <1>6, <2>2, <2>3, <2>4, <2>5 DEF TypeOK
  <1>8. HasCurrent' /\ CurrentIsRunning' /\ OnlyCurrentIsRunning'
    BY <1>1, <1>6
       DEF TypeOK, Control, HasCurrent, CurrentIsRunning, OnlyCurrentIsRunning,
           Current, InTransaction
  <1>9. RunningIsCounted' /\ FaultsAreBounded'
    BY <1>1, <1>6 DEF TypeOK, Control, RunningIsCounted, FaultsAreBounded
  <1>10. IdsAreBelow'
    <2>1. \A j \in ProvisioningRow : j.id \in Nat BY DEF ProvisioningRow
    <2>2. \A j \in pjobs : j.id < nextId'
      BY <1>6, <2>1 DEF TypeOK, Control, IdsAreBelow
    <2>3. \A v \in Workers : \A j \in mine'[v] : j.id < nextId'
      BY <1>4, <1>6, <2>1 DEF TypeOK, Control, IdsAreBelow
    <2> QED BY <1>6, <2>2, <2>3 DEF IdsAreBelow
  <1> QED BY <1>7, <1>8, <1>9, <1>10 DEF Control

LEMMA SettleTyped ==
    ASSUME TypeOK, Control, NEW w \in Workers, Settle(w)
    PROVE  TypeOK' /\ Control'
  <1> DEFINE i == Current(w)
             row == [j \in Items |-> IF j = i THEN Job(FinalStatus(result[w]), Latest(w))
                                              ELSE draft[w][j]]
  <1>1. pc[w] = "settle" /\ i \in Items
    BY CurrentInTodo DEF Settle, Control, HasCurrent
  <1>2. /\ draft' = [draft EXCEPT ![w] = row]
        /\ todo' = [todo EXCEPT ![w] = todo[w] \ {i}]
        /\ pc' = [pc EXCEPT ![w] = "next"]
        /\ UNCHANGED <<campaign, decision, late, rjobs, pjobs, published, runs,
                       crashes, response, target, nextId, revoked, result, mine,
                       attempts>>
    BY DEF Settle, Moved, committed, TypeOK
  <1>3. Latest(w) \in Nat \cup {NoJob} BY LatestType DEF Control
  <1>4. row \in [Items -> JobRow]
    BY <1>3 DEF TypeOK, JobRow, RemediationStatus, Job, FinalStatus
  <1>5. \A j \in Items : row[j].status # "RUNNING"
    BY <1>1 DEF Control, OnlyCurrentIsRunning, InTransaction, Job, FinalStatus
  <1> HIDE DEF i, row
  <1>6. TypeOK'
    BY <1>2, <1>4 DEF TypeOK
  <1>7. draft'[w] = row /\ \A v \in Workers \ {w} : draft'[v] = draft[v]
    BY <1>2 DEF TypeOK
  <1>8. HasCurrent' /\ CurrentIsRunning' /\ OnlyCurrentIsRunning'
    BY <1>2, <1>5, <1>7
       DEF TypeOK, Control, HasCurrent, CurrentIsRunning, OnlyCurrentIsRunning,
           Current, InTransaction
  <1>9. RunningIsCounted' /\ FaultsAreBounded' /\ IdsAreBelow'
    BY <1>1, <1>2
       DEF TypeOK, Control, RunningIsCounted, FaultsAreBounded, IdsAreBelow
  <1> QED BY <1>6, <1>8, <1>9 DEF Control

LEMMA CommitTyped ==
    ASSUME TypeOK, Control, NEW w \in Workers, Commit(w)
    PROVE  TypeOK' /\ Control'
  <1>1. \A i \in Items : draft[w][i].status # "RUNNING"
    BY DEF Commit, Control, OnlyCurrentIsRunning, InTransaction
  <1>2. TypeOK'
    BY <1>1 DEF Commit, TypeOK
  <1>3. HasCurrent' /\ CurrentIsRunning' /\ OnlyCurrentIsRunning'
    BY DEF Commit, TypeOK, Control, HasCurrent, CurrentIsRunning,
           OnlyCurrentIsRunning, Current, InTransaction
  <1>4. RunningIsCounted' /\ FaultsAreBounded' /\ IdsAreBelow'
    BY DEF Commit, TypeOK, Control, RunningIsCounted, FaultsAreBounded, IdsAreBelow
  <1> QED BY <1>2, <1>3, <1>4 DEF Control

(* Every step keeps the types and the control invariant. *)
LEMMA TypedStep ==
    TypeOK /\ Control /\ [Next]_vars => TypeOK' /\ Control'
  <1> SUFFICES ASSUME TypeOK, Control, [Next]_vars PROVE TypeOK' /\ Control'
    OBVIOUS
  <1> USE DEF Control
  <1>1. ASSUME NEW c \in Campaigns, Close(c) PROVE TypeOK' /\ Control'
    BY <1>1
       DEF Close, TypeOK, HasCurrent, CurrentIsRunning, OnlyCurrentIsRunning,
           IdsAreBelow, RunningIsCounted, FaultsAreBounded, Current, InTransaction
  <1>2. ASSUME NEW i \in Items, NEW d \in Decisions, Redecide(i, d)
        PROVE  TypeOK' /\ Control'
    BY <1>2, RemediationAssumption
       DEF Redecide, TypeOK, HasCurrent, CurrentIsRunning, OnlyCurrentIsRunning,
           IdsAreBelow, RunningIsCounted, FaultsAreBounded, Current, InTransaction
  <1>3. ASSUME NEW w \in Workers, NEW c \in Campaigns, Refuse(w, c)
        PROVE  TypeOK' /\ Control'
    BY <1>3, RemediationAssumption
       DEF Refuse, Ask, committed, TypeOK, HasCurrent, CurrentIsRunning,
           OnlyCurrentIsRunning, IdsAreBelow, RunningIsCounted, FaultsAreBounded,
           Current, InTransaction
  <1>4. ASSUME NEW w \in Workers, NEW c \in Campaigns, Begin(w, c)
        PROVE  TypeOK' /\ Control'
    <2>1. TypeOK'
      BY <1>4, RemediationAssumption
         DEF Begin, Ask, committed, TypeOK, Remediable, NoDrafts, Absent, JobRow
    <2>2. /\ pc' = [pc EXCEPT ![w] = "next"]
          /\ \A i \in Items : draft'[w][i].status = "ABSENT"
          /\ mine'[w] = {} /\ runs'[w] = runs[w] + 1
      BY <1>4 DEF Begin, Ask, TypeOK, NoDrafts, Absent
    <2>3. OthersUnchanged(w)
      BY <1>4 DEF OthersUnchanged, Begin, Ask, TypeOK
    <2>a. \A v \in Workers \ {w} : Current(v)' = Current(v)
      BY <2>3, SameCurrent DEF OthersUnchanged
    <2>b. pc'[w] = "next" BY <2>2 DEF TypeOK
    <2>4. HasCurrent' /\ CurrentIsRunning' /\ OnlyCurrentIsRunning'
      BY <2>2, <2>3, <2>a, <2>b
         DEF OthersUnchanged, HasCurrent, CurrentIsRunning, OnlyCurrentIsRunning,
             InTransaction
    <2>5. RunningIsCounted' /\ FaultsAreBounded'
      BY <1>4, <2>2, <2>3
         DEF OthersUnchanged, Begin, committed, TypeOK, RunningIsCounted, FaultsAreBounded
    <2>6. IdsAreBelow'
      BY <1>4, <2>2, <2>3 DEF OthersUnchanged, Begin, committed, TypeOK, IdsAreBelow
    <2> QED BY <2>1, <2>4, <2>5, <2>6
  <1>5. ASSUME NEW w \in Workers, Step(w) PROVE TypeOK' /\ Control'
    BY <1>5, SkipTyped, MoveTyped, InsertTyped, ExecuteTyped, SettleTyped,
       CommitTyped DEF Step
  <1>6. ASSUME NEW w \in Workers, Crash(w) PROVE TypeOK' /\ Control'
    BY <1>6, RemediationAssumption
       DEF Crash, committed, TypeOK, HasCurrent, CurrentIsRunning,
           OnlyCurrentIsRunning, IdsAreBelow, RunningIsCounted, FaultsAreBounded,
           Current, InTransaction
  <1>7. CASE UNCHANGED vars
    BY <1>7
       DEF vars, committed, TypeOK, HasCurrent, CurrentIsRunning,
           OnlyCurrentIsRunning, IdsAreBelow, RunningIsCounted, FaultsAreBounded,
           Current, InTransaction
  <1> QED BY <1>1, <1>2, <1>3, <1>4, <1>5, <1>6, <1>7 DEF Next

-----------------------------------------------------------------------------
LEMMA TypedAlways == Spec => [](TypeOK /\ Control)
  <1>1. Init => TypeOK /\ Control BY InitIsTyped
  <1>2. (TypeOK /\ Control) /\ [Next]_vars => (TypeOK /\ Control)'
    BY TypedStep
  <1> QED BY <1>1, <1>2, PTL DEF Spec

(***************************************************************************)
(* TypeOK: in particular, a committed job has ended, and its link is a     *)
(* provisioning job id or none.                                            *)
(***************************************************************************)
THEOREM TypeCorrect == Spec => []TypeOK
  BY TypedAlways, PTL

(***************************************************************************)
(* A request in its transaction is alone with its rows: the unique         *)
(* constraint makes an INSERT wait for, and then fail on, another's row.   *)
(***************************************************************************)
LEMMA ExclusiveStep ==
    TypeOK /\ Control /\ RowsAreExclusive /\ [Next]_vars => RowsAreExclusive'
  <1> SUFFICES ASSUME TypeOK, Control, RowsAreExclusive, [Next]_vars
               PROVE  RowsAreExclusive'
    OBVIOUS
  <1> USE DEF RowsAreExclusive, InTransaction
  <1>1. CASE UNCHANGED <<pc, draft, rjobs>>
    BY <1>1
  <1>2. ASSUME NEW w \in Workers, NEW c \in Campaigns, Begin(w, c)
        PROVE  RowsAreExclusive'
    <2>1. \A i \in Items : draft'[w][i] = Absent
      BY <1>2 DEF Begin, TypeOK, NoDrafts
    <2>2. \A v \in Workers \ {w} : pc'[v] = pc[v] /\ draft'[v] = draft[v]
      BY <1>2 DEF Begin, TypeOK
    <2>3. rjobs' = rjobs BY <1>2 DEF Begin, committed
    <2> QED BY <2>1, <2>2, <2>3
  <1>3. ASSUME NEW w \in Workers, draft' = draft, rjobs' = rjobs,
               \A v \in Workers \ {w} : pc'[v] = pc[v],
               pc[w] \in {"idle", "publish"} => pc'[w] \in {"idle", "publish"}
        PROVE  RowsAreExclusive'
    BY <1>3
  <1>4. ASSUME NEW w \in Workers, Insert(w) PROVE RowsAreExclusive'
    <2>1. CASE Abort(w, "error")
      <3>1. /\ draft' = draft /\ rjobs' = rjobs /\ pc'[w] = "idle"
            /\ \A v \in Workers \ {w} : pc'[v] = pc[v]
        BY <2>1 DEF Abort, committed, TypeOK
      <3> QED BY <1>3, <3>1
    <2>2. CASE ~Abort(w, "error")
      <3>1. /\ ~Locked(w, Current(w)) /\ rjobs[Current(w)] = Absent
            /\ rjobs' = rjobs /\ pc[w] = "insert" /\ pc'[w] = "execute"
            /\ \A v \in Workers \ {w} : pc'[v] = pc[v] /\ draft'[v] = draft[v]
            /\ \A i \in Items : i # Current(w) => draft'[w][i] = draft[w][i]
        BY <1>4, <2>2 DEF Insert, Moved, committed, TypeOK
      <3>2. \A v \in Workers \ {w} : pc[v] \notin {"idle", "publish"} =>
                draft[v][Current(w)] = Absent
        BY <3>1 DEF Locked
      <3> QED BY <3>1, <3>2
    <2> QED BY <2>1, <2>2
  <1>5. ASSUME NEW w \in Workers, Settle(w) PROVE RowsAreExclusive'
    <2>1. /\ rjobs' = rjobs /\ pc[w] = "settle" /\ pc'[w] = "next"
          /\ \A v \in Workers \ {w} : pc'[v] = pc[v] /\ draft'[v] = draft[v]
          /\ \A i \in Items : i # Current(w) => draft'[w][i] = draft[w][i]
      BY <1>5 DEF Settle, Moved, committed, TypeOK
    <2>2. draft[w][Current(w)] # Absent
      BY <2>1 DEF Control, CurrentIsRunning, Absent
    <2> QED BY <2>1, <2>2
  <1>6. ASSUME NEW w \in Workers, Commit(w) PROVE RowsAreExclusive'
    <2>1. /\ pc[w] = "next" /\ pc'[w] = "publish" /\ draft' = draft
          /\ \A v \in Workers \ {w} : pc'[v] = pc[v]
          /\ \A i \in Items : rjobs'[i] = IF draft[w][i] # Absent
                                         THEN draft[w][i] ELSE rjobs[i]
      BY <1>6 DEF Commit, TypeOK
    <2> QED BY <2>1
  <1>7. ASSUME NEW w \in Workers,
               \/ SkipExisting(w) \/ NoExisting(w) \/ PreventDuplicate(w)
               \/ ExecuteRaises(w) \/ Execute(w) \/ Publish(w) \/ Crash(w)
        PROVE  RowsAreExclusive'
    <2>1. /\ draft' = draft /\ rjobs' = rjobs
          /\ \A v \in Workers \ {w} : pc'[v] = pc[v]
          /\ pc[w] \in {"idle", "publish"} => pc'[w] \in {"idle", "publish"}
      BY <1>7
         DEF SkipExisting, NoExisting, PreventDuplicate, ExecuteRaises, Execute,
             Publish, Crash, Abort, Moved, committed, TypeOK
    <2> QED BY <1>3, <2>1
  <1>8. ASSUME NEW c \in Campaigns, Close(c) PROVE RowsAreExclusive'
    BY <1>1, <1>8 DEF Close
  <1>9. ASSUME NEW i \in Items, NEW d \in Decisions, Redecide(i, d)
        PROVE  RowsAreExclusive'
    BY <1>1, <1>9 DEF Redecide
  <1>10. ASSUME NEW w \in Workers, NEW c \in Campaigns, Refuse(w, c)
         PROVE  RowsAreExclusive'
    BY <1>1, <1>10 DEF Refuse, committed
  <1>11. CASE UNCHANGED vars BY <1>1, <1>11 DEF vars, committed
  <1> QED
    BY <1>2, <1>4, <1>5, <1>6, <1>7, <1>8, <1>9, <1>10, <1>11 DEF Next, Step

LEMMA ExclusiveAlways == Spec => []RowsAreExclusive
  <1>1. Init => RowsAreExclusive
    BY DEF Init, RowsAreExclusive, InTransaction
  <1>2. TypeOK /\ Control /\ RowsAreExclusive /\ [Next]_vars => RowsAreExclusive'
    BY ExclusiveStep
  <1> QED BY <1>1, <1>2, TypedAlways, PTL DEF Spec

(***************************************************************************)
(* JobsAreFinal, from the exclusive rows: a COMMIT writes only rows that   *)
(* were absent.                                                            *)
(***************************************************************************)
THEOREM CommittedJobsAreFinal == Spec => JobsAreFinal
  <1>1. TypeOK /\ RowsAreExclusive /\ [Next]_vars =>
            [\A i \in Items : rjobs[i] # Absent => rjobs'[i] = rjobs[i]]_vars
    <2> SUFFICES ASSUME TypeOK, RowsAreExclusive, Next, NEW i \in Items,
                        rjobs[i] # Absent
                 PROVE  rjobs'[i] = rjobs[i]
      OBVIOUS
    <2>1. ASSUME NEW w \in Workers, Commit(w) PROVE rjobs'[i] = rjobs[i]
      <3>1. draft[w][i] = Absent
        BY <2>1 DEF Commit, RowsAreExclusive, InTransaction
      <3> QED BY <2>1, <3>1 DEF Commit
    <2>2. CASE ~\E w \in Workers : Commit(w)
      BY <2>2
         DEF Next, Step, Close, Redecide, Refuse, Begin, SkipExisting, NoExisting,
             PreventDuplicate, Insert, ExecuteRaises, Execute, Settle, Publish,
             Crash, Abort, Moved, committed
    <2> QED BY <2>1, <2>2
  <1> QED BY <1>1, TypedAlways, ExclusiveAlways, PTL DEF Spec, JobsAreFinal

-----------------------------------------------------------------------------
(* Every recorded success, committed or not, was earned by a call. *)
LEMMA EarnedStep ==
    TypeOK /\ Control /\ SuccessIsEarned /\ [Next]_vars => SuccessIsEarned'
  <1> SUFFICES ASSUME TypeOK, Control, SuccessIsEarned, [Next]_vars
               PROVE  SuccessIsEarned'
    OBVIOUS
  <1> USE DEF SuccessIsEarned
  <1>1. ASSUME UNCHANGED <<rjobs, draft, revoked, result, todo>>,
               \A v \in Workers : pc'[v] = pc[v] \/ pc'[v] # "settle"
        PROVE  SuccessIsEarned'
    BY <1>1, SameCurrent
  <1>2. ASSUME NEW w \in Workers, NEW c \in Campaigns, Begin(w, c)
        PROVE  SuccessIsEarned'
    <2>1. /\ UNCHANGED <<rjobs, revoked, result>> /\ pc'[w] = "next"
          /\ \A i \in Items : draft'[w][i].status = "ABSENT"
          /\ \A v \in Workers \ {w} : pc'[v] = pc[v] /\ draft'[v] = draft[v]
                                      /\ todo'[v] = todo[v]
      BY <1>2 DEF Begin, committed, TypeOK, NoDrafts, Absent
    <2>2. \A v \in Workers \ {w} : Current(v)' = Current(v)
      BY <2>1, SameCurrent
    <2> QED BY <2>1, <2>2
  <1>3. ASSUME NEW w \in Workers, SkipExisting(w) PROVE SuccessIsEarned'
    <2>1. /\ UNCHANGED <<rjobs, revoked, result, draft>> /\ pc'[w] = "next"
          /\ \A v \in Workers \ {w} : pc'[v] = pc[v] /\ todo'[v] = todo[v]
      BY <1>3 DEF SkipExisting, Moved, committed, TypeOK
    <2>2. \A v \in Workers \ {w} : Current(v)' = Current(v)
      BY <2>1, SameCurrent
    <2> QED BY <2>1, <2>2
  <1>4. ASSUME NEW w \in Workers, Insert(w) PROVE SuccessIsEarned'
    <2>1. CASE Abort(w, "error")
      BY <1>1, <2>1 DEF Abort, committed, TypeOK
    <2>2. CASE ~Abort(w, "error")
      <3>1. /\ UNCHANGED <<rjobs, revoked, result, todo>> /\ pc'[w] = "execute"
            /\ \A v \in Workers \ {w} : pc'[v] = pc[v] /\ draft'[v] = draft[v]
            /\ \A i \in Items : draft'[w][i].status = "COMPLETED" =>
                   draft[w][i].status = "COMPLETED"
        BY <1>4, <2>2 DEF Insert, Moved, committed, TypeOK, Job
      <3>2. \A v \in Workers : Current(v)' = Current(v) BY <3>1, SameCurrent
      <3> QED BY <3>1, <3>2
    <2> QED BY <2>1, <2>2
  <1>5. ASSUME NEW w \in Workers, ExecuteRaises(w) PROVE SuccessIsEarned'
    <2>1. /\ UNCHANGED <<rjobs, revoked, draft, todo>> /\ result'[w] = "error"
          /\ \A v \in Workers \ {w} : pc'[v] = pc[v] /\ result'[v] = result[v]
      BY <1>5 DEF ExecuteRaises, Moved, committed, TypeOK
    <2>2. \A v \in Workers : Current(v)' = Current(v) BY <2>1, SameCurrent
    <2> QED BY <2>1, <2>2
  <1>6. ASSUME NEW w \in Workers, Execute(w) PROVE SuccessIsEarned'
    <2>1. Current(w) \in Items
      BY <1>6, CurrentInTodo DEF Execute, Control, HasCurrent
    <2>2. /\ UNCHANGED <<rjobs, draft, todo>>
          /\ \A v \in Workers \ {w} : pc'[v] = pc[v] /\ result'[v] = result[v]
          /\ result'[w] = "SUCCESS" =>
                 revoked' = [revoked EXCEPT ![Current(w)] = @ + 1]
          /\ result'[w] # "SUCCESS" => revoked' = revoked
      BY <1>6 DEF Execute, Moved, committed, TypeOK
    <2>3. /\ \A i \in Items : revoked'[i] >= revoked[i] /\ revoked[i] \in Nat
                              /\ revoked'[i] \in Nat
          /\ result'[w] = "SUCCESS" => revoked'[Current(w)] >= 1
      BY <2>1, <2>2 DEF TypeOK
    <2>4. \A v \in Workers : Current(v)' = Current(v) BY <2>2, SameCurrent
    <2>5. \A v \in Workers : pc[v] = "settle" => Current(v) \in Items
      BY CurrentInTodo DEF Control, HasCurrent
    <2>6. \A i \in Items : revoked[i] >= 1 => revoked'[i] >= 1
      BY <2>3
    <2> QED BY <2>2, <2>3, <2>4, <2>5, <2>6
  <1>7. ASSUME NEW w \in Workers, Settle(w) PROVE SuccessIsEarned'
    <2>1. /\ UNCHANGED <<rjobs, revoked, result>> /\ pc[w] = "settle"
          /\ pc'[w] = "next"
          /\ \A v \in Workers \ {w} : pc'[v] = pc[v] /\ draft'[v] = draft[v]
                                      /\ todo'[v] = todo[v]
          /\ \A i \in Items : i # Current(w) => draft'[w][i] = draft[w][i]
          /\ Current(w) \in Items =>
                draft'[w][Current(w)].status = FinalStatus(result[w])
      BY <1>7 DEF Settle, Moved, committed, TypeOK, Job
    <2>2. \A v \in Workers \ {w} : Current(v)' = Current(v)
      BY <2>1, SameCurrent
    <2>3. FinalStatus(result[w]) = "COMPLETED" => result[w] = "SUCCESS"
      BY DEF FinalStatus
    <2> QED BY <2>1, <2>2, <2>3
  <1>8. ASSUME NEW w \in Workers, Commit(w) PROVE SuccessIsEarned'
    <2>1. /\ UNCHANGED <<revoked, result, draft, todo>> /\ pc'[w] = "publish"
          /\ \A v \in Workers \ {w} : pc'[v] = pc[v]
          /\ \A i \in Items : rjobs'[i] = draft[w][i] \/ rjobs'[i] = rjobs[i]
      BY <1>8 DEF Commit, TypeOK
    <2>2. \A v \in Workers : Current(v)' = Current(v) BY <2>1, SameCurrent
    <2> QED BY <2>1, <2>2
  <1>9. ASSUME NEW w \in Workers,
               \/ NoExisting(w) \/ PreventDuplicate(w) \/ Publish(w) \/ Crash(w)
        PROVE  SuccessIsEarned'
    <2>1. /\ UNCHANGED <<rjobs, draft, revoked, result, todo>>
          /\ \A v \in Workers : pc'[v] = pc[v] \/ pc'[v] # "settle"
      BY <1>9
         DEF NoExisting, PreventDuplicate, Publish, Crash, Abort, Moved,
             committed, TypeOK
    <2> QED BY <1>1, <2>1
  <1>10. ASSUME NEW c \in Campaigns, Close(c) PROVE SuccessIsEarned'
    BY <1>1, <1>10 DEF Close
  <1>11. ASSUME NEW i \in Items, NEW d \in Decisions, Redecide(i, d)
         PROVE  SuccessIsEarned'
    BY <1>1, <1>11 DEF Redecide
  <1>12. ASSUME NEW w \in Workers, NEW c \in Campaigns, Refuse(w, c)
         PROVE  SuccessIsEarned'
    BY <1>1, <1>12 DEF Refuse, committed
  <1>13. CASE UNCHANGED vars BY <1>1, <1>13 DEF vars, committed
  <1> QED
    BY <1>2, <1>3, <1>4, <1>5, <1>6, <1>7, <1>8, <1>9, <1>10, <1>11, <1>12, <1>13
       DEF Next, Step

(***************************************************************************)
(* CompletedMeansRevoked: no crash, overlap or late decision makes the     *)
(* database claim a revocation that the target system did not perform.     *)
(***************************************************************************)
THEOREM CompletedJobsAreEarned == Spec => []CompletedMeansRevoked
  <1>1. Init => SuccessIsEarned
    BY DEF Init, SuccessIsEarned, NoDrafts, Absent
  <1>2. TypeOK /\ Control /\ SuccessIsEarned /\ [Next]_vars => SuccessIsEarned'
    BY EarnedStep
  <1>3. SuccessIsEarned => CompletedMeansRevoked
    BY DEF SuccessIsEarned, CompletedMeansRevoked
  <1> QED BY <1>1, <1>2, <1>3, TypedAlways, PTL DEF Spec

-----------------------------------------------------------------------------
(***************************************************************************)
(* How often access can be revoked again.  A call that took effect is      *)
(* accounted for by its committed job, or by the request that will commit  *)
(* it.  It is lost when that request dies, which counts as a crash, or     *)
(* when the request finds the job of a later item taken by another request *)
(* and rolls back.  The other request must have passed the item without    *)
(* taking it, so it works on a plan without the item; once it commits      *)
(* nothing is left of that plan.  A plan is a set of decisions that some   *)
(* request loaded or would load now, less the items that have a job: only  *)
(* a late decision adds one.  The inductive invariant therefore counts the *)
(* plans without the item along with the revocations.                      *)
(***************************************************************************)
Taken(w) == {i \in Items : draft[w][i] # Absent}

JobItems == {i \in Items : rjobs[i] # Absent}

Plan(w) == (todo[w] \cup Taken(w)) \ JobItems

Plans(c) == {Plan(w) : w \in {v \in Workers : InTransaction(v) /\ target[v] = c}}
                \cup {Remediable(c) \ JobItems}

PlansWithout(i) == {P \in Plans(CampaignOf[i]) : P # {} /\ i \notin P}

(* The request will find the job of its item taken, and roll back.         *)
Doomed(w) == pc[w] \in {"create", "insert"} /\ rjobs[Current(w)] # Absent

Called(w, i) == \/ draft[w][i].status = "COMPLETED"
                \/ pc[w] = "settle" /\ result[w] = "SUCCESS" /\ Current(w) = i

Accounted(i) == \/ rjobs[i].status = "COMPLETED"
                \/ \E w \in Workers : InTransaction(w) /\ ~Doomed(w) /\ Called(w, i)

Account(i) == IF Accounted(i) THEN 1 ELSE 0

Ledger(i) ==
    IF i \in JobItems THEN revoked[i] <= crashes + late + Account(i)
    ELSE /\ IsFiniteSet(PlansWithout(i))
         /\ \/ /\ revoked[i] = 0 /\ \A P \in Plans(CampaignOf[i]) : i \notin P
               /\ Cardinality(PlansWithout(i)) <= late + 1
            \/ revoked[i] + Cardinality(PlansWithout(i)) <= crashes + late + Account(i)

(* A request works on its own campaign, and has not taken the item it is   *)
(* about to insert.                                                        *)
OwnCampaign ==
    \A w \in Workers : InTransaction(w) =>
        \A i \in todo[w] \cup Taken(w) : CampaignOf[i] = target[w]

NotTakenYet ==
    \A w \in Workers : pc[w] \in {"create", "insert"} => draft[w][Current(w)] = Absent

Working == TypeOK /\ Control /\ RowsAreExclusive /\ OwnCampaign /\ NotTakenYet

Ledgers == \A i \in Items : Ledger(i)

(* The plans left when the items K get a job are at most as many.          *)
LEMMA PlansLess ==
    ASSUME NEW S, IsFiniteSet(S), NEW K, NEW T, T \subseteq {P \ K : P \in S}
    PROVE  IsFiniteSet(T) /\ Cardinality(T) <= Cardinality(S) /\ Cardinality(T) \in Nat
           /\ Cardinality(S) \in Nat
<1> DEFINE f == [P \in S |-> P \ K]
           R == {P \ K : P \in S}
<1>1. f \in Surjection(S, R) BY DEF Surjection
<1>2. IsFiniteSet(R) /\ Cardinality(R) <= Cardinality(S)
  BY <1>1, FS_Surjection
<1>3. T \in SUBSET R OBVIOUS
<1> HIDE DEF R
<1>4. IsFiniteSet(T) /\ Cardinality(T) <= Cardinality(R) BY <1>2, <1>3, FS_Subset
<1> QED BY <1>2, <1>4, FS_CardinalityType

LEMMA AccountIsBit == \A i : Account(i) \in {0, 1} /\ (Account(i) = 1 <=> Accounted(i))
BY DEF Account

LEMMA Numbers ==
    ASSUME TypeOK, NEW i \in Items
    PROVE  revoked[i] \in Nat /\ crashes \in Nat /\ late \in Nat /\ revoked \in [Items -> Nat]
BY RemediationAssumption DEF TypeOK

(* A call is made for an item the request has taken.                       *)
LEMMA CalledIsTaken ==
    ASSUME TypeOK, Control, NEW w \in Workers, InTransaction(w), NEW i \in Items, Called(w, i)
    PROVE  draft[w][i] # Absent
BY DEF Control, CurrentIsRunning, Called, Absent

(* Nobody but its owner accounts for an item that is taken, and nobody at  *)
(* all for one that has just been taken.                                   *)
LEMMA TakenAlone ==
    ASSUME Working, NEW w \in Workers, InTransaction(w), NEW i \in Items, draft[w][i] # Absent
    PROVE  /\ rjobs[i] = Absent
           /\ \A v \in Workers : InTransaction(v) /\ Called(v, i) => v = w
           /\ Accounted(i) => ~Doomed(w) /\ Called(w, i)
<1>1. rjobs[i] = Absent BY DEF Working, RowsAreExclusive
<1>2. ASSUME NEW v \in Workers, InTransaction(v), Called(v, i) PROVE v = w
  <2>1. draft[v][i] # Absent BY <1>2, CalledIsTaken DEF Working
  <2> QED BY <1>2, <2>1 DEF Working, RowsAreExclusive
<1>3. rjobs[i].status # "COMPLETED" BY <1>1 DEF Absent
<1> QED BY <1>1, <1>2, <1>3 DEF Accounted

(* A step that adds no plan, revokes nothing and loses no call.            *)
LEMMA LedgerKeeps ==
    ASSUME TypeOK, TypeOK', NEW i \in Items, Ledger(i), rjobs' = rjobs,
           Plans(CampaignOf[i])' \subseteq Plans(CampaignOf[i]), revoked'[i] = revoked[i],
           late' = late,
           \/ crashes' = crashes /\ (Accounted(i) => Accounted(i)')
           \/ crashes' = crashes + 1
    PROVE  Ledger(i)'
<1>1. /\ revoked[i] \in Nat /\ crashes \in Nat /\ late \in Nat /\ crashes' \in Nat
      /\ Account(i) \in {0, 1} /\ Account(i)' \in {0, 1}
      /\ crashes + Account(i) <= crashes' + Account(i)'
      /\ crashes <= crashes'
  <2>1. Account(i)' \in {0, 1} /\ (Account(i)' = 1 <=> Accounted(i)')
    BY DEF Account
  <2> QED BY <2>1, AccountIsBit, RemediationAssumption DEF TypeOK
<1>2. JobItems' = JobItems BY DEF JobItems
<1>3. CASE i \in JobItems BY <1>1, <1>2, <1>3 DEF Ledger
<1>4. CASE i \notin JobItems
  <2>1. PlansWithout(i)' \in SUBSET PlansWithout(i) BY DEF PlansWithout
  <2>2. IsFiniteSet(PlansWithout(i)) BY <1>4 DEF Ledger
  <2>3. /\ IsFiniteSet(PlansWithout(i)')
        /\ Cardinality(PlansWithout(i)') <= Cardinality(PlansWithout(i))
        /\ Cardinality(PlansWithout(i)') \in Nat /\ Cardinality(PlansWithout(i)) \in Nat
    BY <2>1, <2>2, FS_Subset, FS_CardinalityType
  <2>4. CASE /\ revoked[i] = 0 /\ \A P \in Plans(CampaignOf[i]) : i \notin P
             /\ Cardinality(PlansWithout(i)) <= late + 1
    <3>1. revoked'[i] = 0 /\ \A P \in Plans(CampaignOf[i])' : i \notin P BY <2>4
    <3>2. Cardinality(PlansWithout(i)') <= late' + 1 BY <1>1, <2>3, <2>4
    <3> QED BY <1>2, <1>4, <2>3, <3>1, <3>2 DEF Ledger
  <2>5. CASE revoked[i] + Cardinality(PlansWithout(i)) <= crashes + late + Account(i)
    <3>1. revoked'[i] + Cardinality(PlansWithout(i)') <= crashes' + late' + Account(i)'
      BY <1>1, <2>3, <2>5
    <3> QED BY <1>2, <1>4, <2>3, <3>1 DEF Ledger
  <2> QED BY <1>4, <2>4, <2>5 DEF Ledger
<1> QED BY <1>3, <1>4

(* Requests keep their plans until they commit.                            *)
LEMMA PlansKept ==
    ASSUME UNCHANGED <<decision, rjobs>>, NEW c,
           \A v \in Workers : InTransaction(v)' =>
               \/ InTransaction(v) /\ target'[v] = target[v] /\ Plan(v)' = Plan(v)
               \/ Plan(v)' = Remediable(target'[v]) \ JobItems
    PROVE  Plans(c)' \subseteq Plans(c)
<1>1. Remediable(c)' = Remediable(c) /\ JobItems' = JobItems
  BY DEF Remediable, JobItems
<1>2. ASSUME NEW v \in Workers, InTransaction(v)', target'[v] = c
      PROVE  Plan(v)' \in Plans(c)
  BY <1>2 DEF Plans
<1> QED BY <1>1, <1>2 DEF Plans

(* The steps of a request that do not commit keep its plan.                *)
LEMMA PlanKept ==
    ASSUME Working, NEW w \in Workers,
           \/ SkipExisting(w) \/ NoExisting(w) \/ PreventDuplicate(w) \/ Insert(w)
           \/ ExecuteRaises(w) \/ Execute(w) \/ Settle(w)
    PROVE  /\ InTransaction(w)' => InTransaction(w) /\ Plan(w)' = Plan(w)
           /\ \A v \in Workers \ {w} :
                 /\ Plan(v)' = Plan(v) /\ (InTransaction(v)' <=> InTransaction(v))
                 /\ (Doomed(v)' <=> Doomed(v))
                 /\ \A i : Called(v, i)' <=> Called(v, i)
           /\ UNCHANGED <<decision, rjobs, target, late, crashes>>
<1>1. /\ UNCHANGED <<decision, rjobs, target, late, crashes>> /\ InTransaction(w)
      /\ \A v \in Workers \ {w} : /\ pc'[v] = pc[v] /\ todo'[v] = todo[v]
                                  /\ draft'[v] = draft[v] /\ result'[v] = result[v]
  BY DEF SkipExisting, NoExisting, PreventDuplicate, Insert, ExecuteRaises, Execute, Settle,
         Abort, Moved, committed, InTransaction, Working, TypeOK
<1>2. \A v \in Workers \ {w} : /\ Plan(v)' = Plan(v) /\ (InTransaction(v)' <=> InTransaction(v))
  BY <1>1 DEF Plan, Taken, JobItems, InTransaction
<1>3. \A v \in Workers \ {w} : (Doomed(v)' <=> Doomed(v))
  BY <1>1, SameCurrent DEF Doomed
<1>4. \A v \in Workers \ {w} : \A i : Called(v, i)' <=> Called(v, i)
  BY <1>1, SameCurrent DEF Called
<1>5. ASSUME InTransaction(w)' PROVE Plan(w)' = Plan(w)
  <2>1. JobItems' = JobItems BY <1>1 DEF JobItems
  <2>2. CASE UNCHANGED <<todo, draft>> BY <2>1, <2>2 DEF Plan, Taken
  <2>3. CASE SkipExisting(w)
    <3>1. /\ todo'[w] = todo[w] \ {Current(w)} /\ draft' = draft /\ HasJob(w, Current(w))
          /\ Current(w) \in Items
      BY <2>3, CurrentInTodo DEF SkipExisting, Working, TypeOK
    <3>2. Current(w) \in JobItems \cup Taken(w)
      BY <3>1 DEF HasJob, JobItems, Taken
    <3> QED BY <2>1, <3>1, <3>2 DEF Plan, Taken
  <2>4. CASE Insert(w) /\ ~(UNCHANGED <<todo, draft>>)
    <3>1. Current(w) \in todo[w] /\ Current(w) \in Items
      BY <2>4, CurrentInTodo DEF Insert, Working, Control, HasCurrent
    <3>2. draft' = [draft EXCEPT ![w] = [j \in Items |-> IF j = Current(w)
                                            THEN Job("RUNNING", NoJob) ELSE draft[w][j]]]
          /\ todo' = todo
      BY <2>4 DEF Insert, Abort
    <3>3. Job("RUNNING", NoJob) # Absent BY DEF Job, Absent
    <3>4. Taken(w)' = Taken(w) \cup {Current(w)}
      BY <3>1, <3>2, <3>3 DEF Taken, Working, TypeOK
    <3> QED BY <2>1, <3>1, <3>2, <3>4 DEF Plan
  <2>5. CASE Settle(w)
    <3>1. Current(w) \in todo[w] /\ Current(w) \in Items /\ Current(w) \in Taken(w)
      BY <2>5, CurrentInTodo
      DEF Settle, Working, Control, HasCurrent, CurrentIsRunning, Taken, Absent
    <3>2. draft' = [draft EXCEPT ![w] = [j \in Items |-> IF j = Current(w)
                            THEN Job(FinalStatus(result[w]), Latest(w)) ELSE draft[w][j]]]
          /\ todo'[w] = todo[w] \ {Current(w)}
      BY <2>5 DEF Settle, Working, TypeOK
    <3>3. Job(FinalStatus(result[w]), Latest(w)) # Absent BY DEF Job, Absent, FinalStatus
    <3>4. Taken(w)' = Taken(w)
      BY <3>1, <3>2, <3>3 DEF Taken, Working, TypeOK
    <3> QED BY <2>1, <3>1, <3>2, <3>4 DEF Plan
  <2>6. CASE NoExisting(w) \/ PreventDuplicate(w) \/ ExecuteRaises(w) \/ Execute(w)
    <3>1. UNCHANGED <<todo, draft>>
      BY <2>6 DEF NoExisting, PreventDuplicate, ExecuteRaises, Execute, Abort
    <3> QED BY <2>2, <3>1
  <2> QED BY <2>2, <2>3, <2>4, <2>5, <2>6
<1> QED BY <1>1, <1>2, <1>3, <1>4, <1>5

(* These steps lose no call that took effect.                              *)
LEMMA AccountKept ==
    ASSUME Working, NEW w \in Workers, NEW i \in Items, Accounted(i),
           \/ SkipExisting(w) \/ NoExisting(w) \/ PreventDuplicate(w) \/ Insert(w)
           \/ ExecuteRaises(w) \/ Execute(w) \/ Settle(w)
    PROVE  Accounted(i)'
<1>1. rjobs' = rjobs BY PlanKept
<1>2. CASE rjobs[i].status = "COMPLETED" BY <1>1, <1>2 DEF Accounted
<1>3. ASSUME NEW v \in Workers \ {w}, InTransaction(v), ~Doomed(v), Called(v, i)
      PROVE  Accounted(i)'
  <2>1. InTransaction(v)' /\ ~Doomed(v)' /\ Called(v, i)' BY <1>3, PlanKept
  <2> QED BY <2>1 DEF Accounted
<1>4. ASSUME InTransaction(w), ~Doomed(w), Called(w, i)
      PROVE  InTransaction(w)' /\ ~Doomed(w)' /\ Called(w, i)'
  <2>1. draft[w][i] # Absent BY <1>4, CalledIsTaken DEF Working
  <2>2. CASE SkipExisting(w)
    <3>1. pc[w] = "next" /\ pc'[w] = "next" /\ draft' = draft
      BY <2>2 DEF SkipExisting, Moved, Working, TypeOK
    <3> QED BY <1>4, <3>1 DEF InTransaction, Doomed, Called
  <2>3. CASE NoExisting(w)
    <3>1. /\ pc[w] = "next" /\ pc'[w] = "create" /\ UNCHANGED <<draft, todo>>
          /\ rjobs[Current(w)] = Absent
      BY <2>3 DEF NoExisting, Moved, HasJob, Working, TypeOK
    <3>2. Current(w)' = Current(w) BY <3>1, SameCurrent
    <3> QED BY <1>1, <1>4, <3>1, <3>2 DEF InTransaction, Doomed, Called
  <2>4. CASE PreventDuplicate(w) \/ Insert(w)
    <3>1. pc[w] \in {"create", "insert"} BY <2>4 DEF PreventDuplicate, Insert
    <3>2. rjobs[Current(w)] = Absent /\ draft[w][Current(w)] = Absent
      BY <1>4, <3>1 DEF Doomed, Working, NotTakenYet
    <3>3. ~HasJob(w, Current(w)) BY <3>2 DEF HasJob
    <3>4. /\ todo' = todo
          /\ \/ pc'[w] = "insert" /\ draft' = draft
             \/ /\ pc'[w] = "execute"
                /\ \A k \in Items : k # Current(w) => draft'[w][k] = draft[w][k]
      BY <2>4, <3>2, <3>3 DEF PreventDuplicate, Insert, Moved, Working, TypeOK
    <3>5. Current(w)' = Current(w) BY <3>4, SameCurrent
    <3>6. i # Current(w) /\ draft[w][i].status = "COMPLETED"
      BY <1>4, <2>1, <3>1, <3>2 DEF Called
    <3> QED BY <1>1, <3>2, <3>4, <3>5, <3>6 DEF InTransaction, Doomed, Called
  <2>5. CASE ExecuteRaises(w) \/ Execute(w)
    <3>1. pc[w] = "execute" /\ pc'[w] = "settle" /\ draft' = draft
      BY <2>5 DEF ExecuteRaises, Execute, Moved, Working, TypeOK
    <3> QED BY <1>4, <3>1 DEF InTransaction, Doomed, Called
  <2>6. CASE Settle(w)
    <3>1. /\ pc[w] = "settle" /\ pc'[w] = "next"
          /\ \A k \in Items : draft'[w][k] = IF k = Current(w)
                 THEN Job(FinalStatus(result[w]), Latest(w)) ELSE draft[w][k]
      BY <2>6 DEF Settle, Moved, Working, TypeOK
    <3>2. draft[w][Current(w)].status = "RUNNING"
      BY <3>1 DEF Working, Control, CurrentIsRunning
    <3>3. FinalStatus("SUCCESS") = "COMPLETED" BY DEF FinalStatus
    <3>4. draft'[w][i].status = "COMPLETED"
      BY <1>4, <3>1, <3>2, <3>3 DEF Called, Job
    <3> QED BY <3>1, <3>4 DEF InTransaction, Doomed, Called
  <2> QED BY <2>2, <2>3, <2>4, <2>5, <2>6
<1> QED BY <1>2, <1>3, <1>4 DEF Accounted

(* A call that takes effect is accounted for by the request that made it.  *)
LEMMA CallCounts ==
    ASSUME Working, TypeOK', NEW w \in Workers, Execute(w), NEW i \in Items, Ledger(i)
    PROVE  Ledger(i)'
<1> DEFINE k == Current(w)
<1>1. /\ pc[w] = "execute" /\ InTransaction(w) /\ k \in todo[w] /\ k \in Items
      /\ draft[w][k].status = "RUNNING" /\ draft[w][k] # Absent
  BY CurrentInTodo
  DEF Execute, InTransaction, Working, Control, HasCurrent, CurrentIsRunning, Absent
<1>2. /\ UNCHANGED <<decision, rjobs, target, late, crashes, todo, draft>>
      /\ pc'[w] = "settle"
      /\ \/ revoked' = revoked
         \/ revoked' = [revoked EXCEPT ![k] = revoked[k] + 1] /\ result'[w] = "SUCCESS"
  BY DEF Execute, Moved, committed, Working, TypeOK
<1>3. Plans(CampaignOf[i])' \subseteq Plans(CampaignOf[i])
  BY PlanKept, PlansKept
<1>4. Accounted(i) => Accounted(i)' BY AccountKept
<1>5. CASE revoked'[i] = revoked[i]
  BY <1>2, <1>3, <1>4, <1>5, LedgerKeeps DEF Working
<1>6. CASE revoked'[i] # revoked[i]
  <2>1. i = k /\ revoked'[i] = revoked[i] + 1 /\ result'[w] = "SUCCESS"
    BY <1>1, <1>2, <1>6, Numbers DEF Working
  <2>2. rjobs[i] = Absent /\ ~Accounted(i)
    <3>1. rjobs[i] = Absent /\ (Accounted(i) => Called(w, i)) BY <1>1, <2>1, TakenAlone
    <3>2. ~Called(w, i) BY <1>1, <2>1 DEF Called
    <3> QED BY <3>1, <3>2
  <2>3. Accounted(i)'
    <3>1. Current(w)' = i BY <1>2, <2>1, SameCurrent
    <3>2. InTransaction(w)' /\ ~Doomed(w)' /\ Called(w, i)'
      BY <1>2, <2>1, <3>1 DEF InTransaction, Doomed, Called
    <3> QED BY <3>2 DEF Accounted
  <2>4. Account(i) = 0 /\ Account(i)' = 1
    BY <2>2, <2>3 DEF Account
  <2>5. i \notin JobItems /\ i \notin JobItems' BY <1>2, <2>2 DEF JobItems
  <2>6. i \in Plan(w) /\ Plan(w) \in Plans(CampaignOf[i])
    <3>1. i \in todo[w] /\ CampaignOf[i] = target[w]
      BY <1>1, <2>1 DEF Working, OwnCampaign
    <3>2. Plan(w) \in Plans(CampaignOf[i]) BY <1>1, <3>1 DEF Plans
    <3> QED BY <2>5, <3>1, <3>2 DEF Plan
  <2>7. /\ IsFiniteSet(PlansWithout(i))
        /\ revoked[i] + Cardinality(PlansWithout(i)) <= crashes + late + Account(i)
    BY <2>5, <2>6 DEF Ledger
  <2>8. PlansWithout(i)' \in SUBSET PlansWithout(i) BY <1>3 DEF PlansWithout
  <2>9. /\ IsFiniteSet(PlansWithout(i)')
        /\ Cardinality(PlansWithout(i)') <= Cardinality(PlansWithout(i))
        /\ Cardinality(PlansWithout(i)') \in Nat /\ Cardinality(PlansWithout(i)) \in Nat
    BY <2>7, <2>8, FS_Subset, FS_CardinalityType
  <2>10. revoked[i] \in Nat /\ crashes \in Nat /\ late \in Nat
    BY Numbers DEF Working
  <2>11. revoked'[i] + Cardinality(PlansWithout(i)') <= crashes' + late' + Account(i)'
    BY <1>2, <2>1, <2>4, <2>7, <2>9, <2>10
  <2> QED BY <2>5, <2>9, <2>11 DEF Ledger
<1> QED BY <1>5, <1>6

(* A commit ends its plan.  It may take the item another request is about  *)
(* to insert; what that request has called is lost, but then the committed *)
(* plan was one without the items called.                                  *)
LEMMA CommitLedger ==
    ASSUME Working, NEW v \in Workers, Commit(v), NEW i \in Items, Ledger(i)
    PROVE  Ledger(i)'
<1> DEFINE K == Taken(v)
<1>1. /\ pc[v] = "next" /\ todo[v] = {} /\ InTransaction(v) /\ pc'[v] = "publish"
      /\ UNCHANGED <<decision, late, crashes, revoked, target, todo, result, draft>>
      /\ \A u \in Workers \ {v} : pc'[u] = pc[u]
      /\ \A j \in Items : rjobs'[j] = IF j \in K THEN draft[v][j] ELSE rjobs[j]
  BY DEF Commit, Taken, InTransaction, Working, TypeOK
<1>2. JobItems' = JobItems \cup K /\ K \cap JobItems = {} /\ Plan(v) = K
  <2>1. K \cap JobItems = {}
    BY <1>1 DEF Taken, JobItems, Working, RowsAreExclusive
  <2>2. JobItems' = JobItems \cup K BY <1>1 DEF JobItems, Taken
  <2> QED BY <1>1, <2>1, <2>2 DEF Plan
<1>3. \A u \in Workers \ {v} : /\ Current(u)' = Current(u)
                               /\ (InTransaction(u)' <=> InTransaction(u))
                               /\ (Called(u, i)' <=> Called(u, i))
                               /\ Plan(u)' = Plan(u) \ K
  <2>1. \A u \in Workers : Current(u)' = Current(u) BY <1>1, SameCurrent
  <2>2. \A u \in Workers : Taken(u)' = Taken(u) BY <1>1 DEF Taken
  <2> QED BY <1>1, <1>2, <2>1, <2>2 DEF InTransaction, Called, Plan
<1>4. ~InTransaction(v)' BY <1>1 DEF InTransaction
<1>5. revoked[i] \in Nat /\ crashes \in Nat /\ late \in Nat
      /\ Account(i) \in {0, 1} /\ Account(i)' \in {0, 1}
  BY Numbers DEF Working, Account
<1>6. ASSUME i \in JobItems'
      PROVE  Accounted(i) => Accounted(i)'
  <2> SUFFICES ASSUME Accounted(i) PROVE Accounted(i)' OBVIOUS
  <2>1. CASE i \in K
    <3>1. draft[v][i] # Absent BY <2>1 DEF Taken
    <3>2. Called(v, i) BY <1>1, <3>1, TakenAlone
    <3>3. draft[v][i].status = "COMPLETED" BY <1>1, <3>2 DEF Called
    <3> QED BY <1>1, <2>1, <3>3 DEF Accounted
  <2>2. CASE i \notin K
    <3>1. rjobs[i] # Absent /\ rjobs'[i] = rjobs[i]
      BY <1>1, <1>2, <1>6, <2>2 DEF JobItems
    <3>2. ~(\E u \in Workers : InTransaction(u) /\ Called(u, i))
      BY <3>1, CalledIsTaken DEF Working, RowsAreExclusive
    <3> QED BY <3>1, <3>2 DEF Accounted
  <2> QED BY <2>1, <2>2
<1>7. CASE i \in JobItems
  <2>1. Accounted(i) => Accounted(i)' BY <1>2, <1>6, <1>7
  <2>2. Account(i) <= Account(i)' BY <2>1 DEF Account
  <2> QED BY <1>1, <1>2, <1>5, <1>7, <2>2 DEF Ledger
<1>8. CASE i \in K
  <2>1. i \notin JobItems /\ i \in JobItems' BY <1>2, <1>8
  <2>2. CampaignOf[i] = target[v] BY <1>1, <1>8 DEF Working, OwnCampaign
  <2>3. Plan(v) \in Plans(CampaignOf[i]) BY <1>1, <2>2 DEF Plans
  <2>4. /\ IsFiniteSet(PlansWithout(i))
        /\ revoked[i] + Cardinality(PlansWithout(i)) <= crashes + late + Account(i)
    BY <1>2, <1>8, <2>1, <2>3 DEF Ledger
  <2>5. Account(i) <= Account(i)' BY <1>6, <2>1 DEF Account
  <2>6. Cardinality(PlansWithout(i)) \in Nat BY <2>4, FS_CardinalityType
  <2>7. revoked'[i] <= crashes' + late' + Account(i)'
    BY <1>1, <1>5, <2>4, <2>5, <2>6
  <2> QED BY <2>1, <2>7 DEF Ledger
<1>9. CASE i \notin JobItems /\ i \notin K
  <2>1. i \notin JobItems' BY <1>2, <1>9
  <2>2. Plans(CampaignOf[i])' \subseteq {P \ K : P \in Plans(CampaignOf[i])}
    <3>1. ASSUME NEW u \in Workers, InTransaction(u)', target'[u] = CampaignOf[i]
          PROVE  \E P \in Plans(CampaignOf[i]) : Plan(u)' = P \ K
      <4>1. u # v BY <1>4, <3>1
      <4>2. Plan(u) \in Plans(CampaignOf[i])
        BY <1>1, <1>3, <3>1, <4>1 DEF Plans
      <4> QED BY <1>3, <4>1, <4>2
    <3>2. (Remediable(CampaignOf[i]) \ JobItems)' = (Remediable(CampaignOf[i]) \ JobItems) \ K
      BY <1>1, <1>2 DEF Remediable
    <3>3. Remediable(CampaignOf[i]) \ JobItems \in Plans(CampaignOf[i]) BY DEF Plans
    <3> QED BY <3>1, <3>2, <3>3 DEF Plans
  <2>3. PlansWithout(i)' \subseteq {P \ K : P \in PlansWithout(i) \ {K}}
    <3> SUFFICES ASSUME NEW Q \in Plans(CampaignOf[i])', Q # {}, i \notin Q
                 PROVE  Q \in {P \ K : P \in PlansWithout(i) \ {K}}
      BY DEF PlansWithout
    <3>1. PICK P \in Plans(CampaignOf[i]) : Q = P \ K BY <2>2
    <3>2. P # K /\ P # {} /\ i \notin P BY <1>9, <3>1
    <3>3. P \in PlansWithout(i) \ {K} BY <3>1, <3>2 DEF PlansWithout
    <3> QED BY <3>1, <3>3
  <2>4. IsFiniteSet(PlansWithout(i)) BY <1>9 DEF Ledger
  <2>5. /\ IsFiniteSet(PlansWithout(i) \ {K})
        /\ Cardinality(PlansWithout(i) \ {K}) =
              IF K \in PlansWithout(i) THEN Cardinality(PlansWithout(i)) - 1
                                       ELSE Cardinality(PlansWithout(i))
    BY <2>4, FS_RemoveElement
  <2>6. /\ IsFiniteSet(PlansWithout(i)')
        /\ Cardinality(PlansWithout(i)') <= Cardinality(PlansWithout(i) \ {K})
        /\ Cardinality(PlansWithout(i)') \in Nat
        /\ Cardinality(PlansWithout(i) \ {K}) \in Nat
    <3> HIDE DEF K
    <3> QED BY <2>3, <2>5, PlansLess
  <2>7. Cardinality(PlansWithout(i)) \in Nat BY <2>4, FS_CardinalityType
  <2>8. Accounted(i) /\ ~Accounted(i)' => K \in PlansWithout(i)
    <3> SUFFICES ASSUME Accounted(i), ~Accounted(i)' PROVE K \in PlansWithout(i)
      OBVIOUS
    <3>1. rjobs'[i] = rjobs[i] BY <1>1, <1>9
    <3>2. PICK u \in Workers : InTransaction(u) /\ ~Doomed(u) /\ Called(u, i)
      BY <3>1 DEF Accounted
    <3>3. draft[u][i] # Absent BY <3>2, CalledIsTaken DEF Working
    <3>4. u # v BY <1>9, <3>3 DEF Taken
    <3>5. Doomed(u)' BY <1>3, <3>2, <3>4 DEF Accounted
    <3>6. /\ pc[u] \in {"create", "insert"} /\ rjobs[Current(u)] = Absent
          /\ rjobs'[Current(u)] # Absent
      BY <1>1, <1>3, <3>2, <3>4, <3>5 DEF Doomed
    <3>7. Current(u) \in todo[u] /\ Current(u) \in Items
      BY <3>6, CurrentInTodo DEF Working, Control, HasCurrent
    <3>8. Current(u) \in K BY <1>1, <3>6, <3>7
    <3>9. /\ CampaignOf[Current(u)] = target[u] /\ CampaignOf[i] = target[u]
          /\ CampaignOf[Current(u)] = target[v]
      BY <1>1, <3>2, <3>3, <3>7, <3>8 DEF Working, OwnCampaign, Taken
    <3>10. K \in Plans(CampaignOf[i])
      BY <1>1, <1>2, <3>9 DEF Plans
    <3> QED BY <1>9, <3>8, <3>10 DEF PlansWithout
  <2>9. CASE revoked[i] = 0 /\ (\A P \in Plans(CampaignOf[i]) : i \notin P)
             /\ Cardinality(PlansWithout(i)) <= late + 1
    <3>1. \A P \in Plans(CampaignOf[i])' : i \notin P BY <2>2, <2>9
    <3>2. Cardinality(PlansWithout(i)') <= late' + 1
      BY <1>1, <1>5, <2>5, <2>6, <2>7, <2>9
    <3> QED BY <1>1, <2>1, <2>6, <2>9, <3>1, <3>2 DEF Ledger
  <2>10. CASE revoked[i] + Cardinality(PlansWithout(i)) <= crashes + late + Account(i)
    <3>1. \/ Account(i) <= Account(i)'
          \/ Account(i) = 1 /\ Account(i)' = 0 /\ K \in PlansWithout(i)
      BY <2>8 DEF Account
    <3>2. revoked'[i] + Cardinality(PlansWithout(i)') <= crashes' + late' + Account(i)'
      BY <1>1, <1>5, <2>5, <2>6, <2>7, <2>10, <3>1
    <3> QED BY <2>1, <2>6, <3>2 DEF Ledger
  <2> QED BY <1>9, <2>9, <2>10 DEF Ledger
<1> QED BY <1>7, <1>8, <1>9

(* A late decision adds one plan.                                          *)
LEMMA RedecideLedger ==
    ASSUME Working, NEW k \in Items, NEW d \in Decisions, Redecide(k, d),
           NEW i \in Items, Ledger(i)
    PROVE  Ledger(i)'
<1> DEFINE New == Remediable(CampaignOf[i])' \ JobItems
<1>1. /\ UNCHANGED <<rjobs, revoked, crashes, pc, target, todo, result, draft>>
      /\ late' = late + 1
  BY DEF Redecide
<1>2. JobItems' = JobItems /\ Account(i)' = Account(i)
  <2>1. \A w \in Workers : Current(w)' = Current(w) BY <1>1, SameCurrent
  <2>2. Accounted(i)' <=> Accounted(i)
    BY <1>1, <2>1 DEF Accounted, InTransaction, Doomed, Called
  <2> QED BY <1>1, <2>2 DEF JobItems, Account
<1>3. Plans(CampaignOf[i])' \subseteq Plans(CampaignOf[i]) \cup {New}
  BY <1>1, <1>2 DEF Plans, Plan, Taken, InTransaction
<1>4. revoked[i] \in Nat /\ crashes \in Nat /\ late \in Nat /\ Account(i) \in {0, 1}
  BY Numbers DEF Working, Account
<1> HIDE DEF New
<1>5. CASE i \in JobItems BY <1>1, <1>2, <1>4, <1>5 DEF Ledger
<1>6. CASE i \notin JobItems
  <2>1. IsFiniteSet(PlansWithout(i)) BY <1>6 DEF Ledger
  <2>2. /\ IsFiniteSet(PlansWithout(i) \cup {New})
        /\ Cardinality(PlansWithout(i) \cup {New}) <= Cardinality(PlansWithout(i)) + 1
        /\ Cardinality(PlansWithout(i)) \in Nat
    BY <2>1, FS_AddElement, FS_CardinalityType
  <2>3. PlansWithout(i)' \in SUBSET (PlansWithout(i) \cup {New})
    BY <1>3 DEF PlansWithout
  <2>4. /\ IsFiniteSet(PlansWithout(i)') /\ Cardinality(PlansWithout(i)') \in Nat
        /\ Cardinality(PlansWithout(i)') <= Cardinality(PlansWithout(i)) + 1
    <3>1. /\ IsFiniteSet(PlansWithout(i)')
          /\ Cardinality(PlansWithout(i)') <= Cardinality(PlansWithout(i) \cup {New})
      BY <2>2, <2>3, FS_Subset
    <3> QED BY <2>2, <3>1, FS_CardinalityType
  <2>5. CASE revoked[i] = 0 /\ (\A P \in Plans(CampaignOf[i]) : i \notin P)
             /\ Cardinality(PlansWithout(i)) <= late + 1
    <3>1. CASE i \notin New
      <4>1. \A P \in Plans(CampaignOf[i])' : i \notin P BY <1>3, <2>5, <3>1
      <4>2. Cardinality(PlansWithout(i)') <= late' + 1 BY <1>1, <1>4, <2>2, <2>4, <2>5
      <4> QED BY <1>1, <1>2, <1>6, <2>4, <2>5, <4>1, <4>2 DEF Ledger
    <3>2. CASE i \in New
      <4>1. PlansWithout(i)' \in SUBSET PlansWithout(i) BY <1>3, <3>2 DEF PlansWithout
      <4>2. Cardinality(PlansWithout(i)') <= Cardinality(PlansWithout(i))
        BY <2>1, <4>1, FS_Subset
      <4>3. revoked'[i] + Cardinality(PlansWithout(i)') <= crashes' + late' + Account(i)'
        BY <1>1, <1>2, <1>4, <2>2, <2>4, <2>5, <4>2
      <4> QED BY <1>2, <1>6, <2>4, <4>3 DEF Ledger
    <3> QED BY <3>1, <3>2
  <2>6. CASE revoked[i] + Cardinality(PlansWithout(i)) <= crashes + late + Account(i)
    <3>1. revoked'[i] + Cardinality(PlansWithout(i)') <= crashes' + late' + Account(i)'
      BY <1>1, <1>2, <1>4, <2>2, <2>4, <2>6
    <3> QED BY <1>2, <1>6, <2>4, <3>1 DEF Ledger
  <2> QED BY <1>6, <2>5, <2>6 DEF Ledger
<1> QED BY <1>5, <1>6

(* The other steps.                                                        *)
LEMMA BeginLedger ==
    ASSUME Working, TypeOK', NEW w \in Workers, NEW c \in Campaigns, Begin(w, c),
           NEW i \in Items, Ledger(i)
    PROVE  Ledger(i)'
<1>1. /\ UNCHANGED <<decision, rjobs, revoked, crashes, late>>
      /\ pc[w] = "idle" /\ target'[w] = c /\ todo'[w] = Remediable(c)
      /\ \A j \in Items : draft'[w][j] = Absent
      /\ \A v \in Workers \ {w} : /\ pc'[v] = pc[v] /\ target'[v] = target[v]
                                  /\ todo'[v] = todo[v] /\ draft'[v] = draft[v]
                                  /\ result'[v] = result[v]
  BY DEF Begin, Ask, committed, NoDrafts, Working, TypeOK
<1>2. /\ JobItems' = JobItems /\ Plan(w)' = Remediable(target'[w]) \ JobItems
      /\ \A v \in Workers \ {w} : /\ Plan(v)' = Plan(v) /\ Current(v)' = Current(v)
  BY <1>1, SameCurrent DEF Plan, Taken, JobItems
<1>3. Plans(CampaignOf[i])' \subseteq Plans(CampaignOf[i])
  BY <1>1, <1>2, PlansKept DEF InTransaction
<1>4. Accounted(i) => Accounted(i)'
  BY <1>1, <1>2 DEF Accounted, InTransaction, Doomed, Called
<1> QED BY <1>1, <1>3, <1>4, LedgerKeeps DEF Working

LEMMA CrashLedger ==
    ASSUME Working, TypeOK', NEW w \in Workers, Crash(w) \/ Publish(w),
           NEW i \in Items, Ledger(i)
    PROVE  Ledger(i)'
<1>1. /\ UNCHANGED <<decision, rjobs, revoked, late, target, todo, draft, result>>
      /\ pc'[w] = "idle" /\ \A v \in Workers \ {w} : pc'[v] = pc[v]
      /\ \/ crashes' = crashes + 1
         \/ crashes' = crashes /\ pc[w] = "publish"
  BY DEF Crash, Publish, committed, Working, TypeOK
<1>2. \A v \in Workers : Plan(v)' = Plan(v) /\ Current(v)' = Current(v)
  BY <1>1, SameCurrent DEF Plan, Taken, JobItems
<1>3. Plans(CampaignOf[i])' \subseteq Plans(CampaignOf[i])
  BY <1>1, <1>2, PlansKept DEF InTransaction
<1>4. pc[w] = "publish" => (Accounted(i) => Accounted(i)')
  BY <1>1, <1>2 DEF Accounted, InTransaction, Doomed, Called
<1> QED BY <1>1, <1>3, <1>4, LedgerKeeps DEF Working

LEMMA StepLedger ==
    ASSUME Working, TypeOK', NEW w \in Workers, Step(w), NEW i \in Items, Ledger(i)
    PROVE  Ledger(i)'
<1>1. ASSUME SkipExisting(w) \/ NoExisting(w) \/ PreventDuplicate(w) \/ Insert(w)
               \/ ExecuteRaises(w) \/ Settle(w)
      PROVE  Ledger(i)'
  <2>1. revoked' = revoked
    BY <1>1 DEF SkipExisting, NoExisting, PreventDuplicate, Insert, ExecuteRaises, Settle, Abort
  <2>2. Accounted(i) => Accounted(i)' BY <1>1, AccountKept
  <2>3. Plans(CampaignOf[i])' \subseteq Plans(CampaignOf[i])
    BY <1>1, PlanKept, PlansKept
  <2>4. UNCHANGED <<rjobs, late, crashes>> BY <1>1, PlanKept
  <2> QED BY <2>1, <2>2, <2>3, <2>4, LedgerKeeps DEF Working
<1> QED BY <1>1, CallCounts, CommitLedger, CrashLedger DEF Step

LEMMA LedgerStep ==
    ASSUME Working, TypeOK', Ledgers, [Next]_vars
    PROVE  Ledgers'
<1> SUFFICES ASSUME NEW i \in Items PROVE Ledger(i)' BY DEF Ledgers
<1>1. Ledger(i) BY DEF Ledgers
<1>2. ASSUME UNCHANGED <<decision, rjobs, revoked, late, crashes, pc, target, todo, draft,
                         result>>
      PROVE  Ledger(i)'
  <2>1. \A v \in Workers : Plan(v)' = Plan(v) /\ Current(v)' = Current(v)
    BY <1>2, SameCurrent DEF Plan, Taken, JobItems
  <2>2. Plans(CampaignOf[i])' \subseteq Plans(CampaignOf[i])
    BY <1>2, <2>1, PlansKept DEF InTransaction
  <2>3. Accounted(i) => Accounted(i)'
    BY <1>2, <2>1 DEF Accounted, InTransaction, Doomed, Called
  <2> QED BY <1>1, <1>2, <2>2, <2>3, LedgerKeeps DEF Working
<1>3. CASE UNCHANGED vars BY <1>2, <1>3 DEF vars, committed
<1>4. ASSUME NEW c \in Campaigns, Close(c) PROVE Ledger(i)'
  BY <1>2, <1>4 DEF Close
<1>5. ASSUME NEW w \in Workers, NEW c \in Campaigns, Refuse(w, c) PROVE Ledger(i)'
  BY <1>2, <1>5 DEF Refuse, committed
<1>6. ASSUME NEW k \in Items, NEW d \in Decisions, Redecide(k, d) PROVE Ledger(i)'
  BY <1>1, <1>6, RedecideLedger
<1>7. ASSUME NEW w \in Workers, NEW c \in Campaigns, Begin(w, c) PROVE Ledger(i)'
  BY <1>1, <1>7, BeginLedger
<1>8. ASSUME NEW w \in Workers, Step(w) PROVE Ledger(i)' BY <1>1, <1>8, StepLedger
<1>9. ASSUME NEW w \in Workers, Crash(w) PROVE Ledger(i)' BY <1>1, <1>9, CrashLedger
<1> QED BY <1>3, <1>4, <1>5, <1>6, <1>7, <1>8, <1>9 DEF Next

(* A request takes only items of its campaign, and looks before it inserts.*)
LEMMA OwnStep ==
    ASSUME Working, TypeOK', Control', [Next]_vars
    PROVE  OwnCampaign' /\ NotTakenYet'
<1> USE DEF OwnCampaign, NotTakenYet
<1>1. ASSUME UNCHANGED <<pc, target, todo, draft>> PROVE OwnCampaign' /\ NotTakenYet'
  <2>1. \A v \in Workers : Current(v)' = Current(v) /\ Taken(v)' = Taken(v)
    BY <1>1, SameCurrent DEF Taken
  <2> QED BY <1>1, <2>1 DEF Working, InTransaction
<1>2. ASSUME NEW w \in Workers,
             \A v \in Workers \ {w} : /\ pc'[v] = pc[v] /\ target'[v] = target[v]
                                      /\ todo'[v] = todo[v] /\ draft'[v] = draft[v],
             InTransaction(w)' =>
                \A i \in todo'[w] \cup Taken(w)' : CampaignOf[i] = target'[w],
             pc'[w] \in {"create", "insert"} => draft'[w][Current(w)'] = Absent
      PROVE  OwnCampaign' /\ NotTakenYet'
  <2>1. \A v \in Workers \ {w} : Current(v)' = Current(v) /\ Taken(v)' = Taken(v)
    BY <1>2, SameCurrent DEF Taken
  <2>2. \A v \in Workers \ {w} : InTransaction(v)' <=> InTransaction(v)
    BY <1>2 DEF InTransaction
  <2>3. OwnCampaign'
    <3> SUFFICES ASSUME NEW v \in Workers, InTransaction(v)', NEW i \in todo'[v] \cup Taken(v)'
                 PROVE  CampaignOf[i] = target'[v]
      OBVIOUS
    <3> QED BY <1>2, <2>1, <2>2 DEF Working
  <2>4. NotTakenYet' BY <1>2, <2>1 DEF Working
  <2> QED BY <2>3, <2>4
<1>3. CASE UNCHANGED vars BY <1>1, <1>3 DEF vars
<1>4. ASSUME NEW c \in Campaigns, Close(c) PROVE OwnCampaign' /\ NotTakenYet'
  BY <1>1, <1>4 DEF Close
<1>5. ASSUME NEW w \in Workers, NEW c \in Campaigns, Refuse(w, c)
      PROVE  OwnCampaign' /\ NotTakenYet'
  BY <1>1, <1>5 DEF Refuse
<1>6. ASSUME NEW k \in Items, NEW d \in Decisions, Redecide(k, d)
      PROVE  OwnCampaign' /\ NotTakenYet'
  BY <1>1, <1>6 DEF Redecide
<1>7. ASSUME NEW w \in Workers, NEW c \in Campaigns, Begin(w, c)
      PROVE  OwnCampaign' /\ NotTakenYet'
  <2>1. /\ pc'[w] = "next" /\ target'[w] = c /\ todo'[w] = Remediable(c)
        /\ \A j \in Items : draft'[w][j] = Absent
        /\ \A v \in Workers \ {w} : /\ pc'[v] = pc[v] /\ target'[v] = target[v]
                                    /\ todo'[v] = todo[v] /\ draft'[v] = draft[v]
    BY <1>7 DEF Begin, Ask, NoDrafts, Working, TypeOK
  <2>2. \A i \in todo'[w] \cup Taken(w)' : CampaignOf[i] = target'[w]
    BY <2>1 DEF Remediable, Taken
  <2> QED BY <1>2, <2>1, <2>2
<1>8. ASSUME NEW w \in Workers, Step(w) \/ Crash(w) PROVE OwnCampaign' /\ NotTakenYet'
  <2>1. /\ target' = target
        /\ \A v \in Workers \ {w} : /\ pc'[v] = pc[v]
                                    /\ todo'[v] = todo[v] /\ draft'[v] = draft[v]
        /\ todo'[w] \subseteq todo[w]
    BY <1>8
    DEF Step, SkipExisting, NoExisting, PreventDuplicate, Insert, ExecuteRaises, Execute,
        Settle, Commit, Publish, Crash, Abort, Moved, committed, Working, TypeOK
  <2>2. InTransaction(w)' => InTransaction(w)
    BY <1>8
    DEF Step, SkipExisting, NoExisting, PreventDuplicate, Insert, ExecuteRaises, Execute,
        Settle, Commit, Publish, Crash, Abort, Moved, InTransaction, Working, TypeOK
  <2>3. InTransaction(w) =>
          \A i \in Items : draft'[w][i] # Absent => draft[w][i] # Absent \/ i \in todo[w]
    <3>1. pc[w] \in {"insert", "settle"} => Current(w) \in todo[w]
      BY CurrentInTodo DEF Working, Control, HasCurrent
    <3>2. ASSUME NEW i \in Items, draft'[w][i] # draft[w][i]
          PROVE  pc[w] \in {"insert", "settle"} /\ i = Current(w)
      BY <1>8, <3>2
      DEF Step, SkipExisting, NoExisting, PreventDuplicate, Insert, ExecuteRaises, Execute,
          Settle, Commit, Publish, Crash, Abort, Working, TypeOK
    <3> QED BY <3>1, <3>2
  <2>4. InTransaction(w)' => \A i \in todo'[w] \cup Taken(w)' : CampaignOf[i] = target'[w]
    BY <2>1, <2>2, <2>3 DEF Taken, Working
  <2>5. pc'[w] \in {"create", "insert"} => draft'[w][Current(w)'] = Absent
    <3> SUFFICES ASSUME pc'[w] \in {"create", "insert"}
                 PROVE  draft'[w][Current(w)'] = Absent
      OBVIOUS
    <3>1. /\ UNCHANGED <<draft, todo>>
          /\ \/ NoExisting(w)
             \/ pc[w] = "create"
      BY <1>8
      DEF Step, SkipExisting, NoExisting, PreventDuplicate, Insert, ExecuteRaises, Execute,
          Settle, Commit, Publish, Crash, Abort, Moved, Working, TypeOK
    <3>2. Current(w)' = Current(w) BY <3>1, SameCurrent
    <3> QED BY <3>1, <3>2 DEF NoExisting, HasJob, Working
  <2> QED BY <1>2, <2>1, <2>4, <2>5
<1> QED BY <1>3, <1>4, <1>5, <1>6, <1>7, <1>8 DEF Next

LEMMA LedgerAlways == Spec => [](Working /\ Ledgers)
<1>1. Init => OwnCampaign /\ NotTakenYet
  BY DEF Init, OwnCampaign, NotTakenYet, InTransaction
<1>2. Init => Ledgers
  <2> SUFFICES ASSUME Init, NEW i \in Items PROVE Ledger(i) BY DEF Ledgers
  <2> DEFINE Now == Remediable(CampaignOf[i]) \ JobItems
  <2>1. revoked[i] = 0 /\ i \notin JobItems /\ late = 0 /\ crashes = 0
    BY DEF Init, JobItems, NoDrafts
  <2>2. \A P \in Plans(CampaignOf[i]) : P = Now BY DEF Init, Plans, InTransaction
  <2>3. PlansWithout(i) \in SUBSET {Now} BY <2>2 DEF PlansWithout
  <2> HIDE DEF Now
  <2>4. IsFiniteSet({Now}) /\ Cardinality({Now}) = 1 BY FS_Singleton
  <2>5. IsFiniteSet(PlansWithout(i)) /\ Cardinality(PlansWithout(i)) <= 1
        /\ Cardinality(PlansWithout(i)) \in Nat
    BY <2>3, <2>4, FS_Subset, FS_CardinalityType
  <2>6. Account(i) \in {0, 1} BY DEF Account
  <2>7. CASE i \notin Now
    <3>1. \A P \in Plans(CampaignOf[i]) : i \notin P BY <2>2, <2>7
    <3> QED BY <2>1, <2>5, <3>1 DEF Ledger
  <2>8. CASE i \in Now
    <3>1. PlansWithout(i) = {} BY <2>2, <2>8 DEF PlansWithout
    <3>2. Cardinality(PlansWithout(i)) = 0 BY <3>1, FS_EmptySet
    <3> QED BY <2>1, <2>5, <2>6, <3>2 DEF Ledger
  <2> QED BY <2>7, <2>8
<1>3. TypeOK /\ Control /\ RowsAreExclusive /\ TypeOK' /\ Control'
        /\ OwnCampaign /\ NotTakenYet /\ Ledgers /\ [Next]_vars
        => OwnCampaign' /\ NotTakenYet' /\ Ledgers'
  BY OwnStep, LedgerStep DEF Working
<1>4. TypeOK /\ Control /\ RowsAreExclusive /\ OwnCampaign /\ NotTakenYet => Working
  BY DEF Working
<1> QED BY <1>1, <1>2, <1>3, <1>4, TypedAlways, ExclusiveAlways, PTL DEF Spec

(***************************************************************************)
(* RevokedAgainOnlyAfterLoss: the target system revokes an item's access   *)
(* again only after a crash or a late decision, once for each of them,     *)
(* however many requests overlap.                                          *)
(***************************************************************************)
THEOREM RevokedOncePerLoss == Spec => []RevokedAgainOnlyAfterLoss
<1>1. Working /\ Ledgers => RevokedAgainOnlyAfterLoss
  <2> SUFFICES ASSUME Working, Ledgers, NEW i \in Items
               PROVE  revoked[i] <= 1 + crashes + late
    BY DEF RevokedAgainOnlyAfterLoss
  <2>1. revoked[i] \in Nat /\ crashes \in Nat /\ late \in Nat /\ Account(i) \in {0, 1}
    BY Numbers DEF Working, Account
  <2>2. Ledger(i) BY DEF Ledgers
  <2>3. IsFiniteSet(PlansWithout(i)) => Cardinality(PlansWithout(i)) \in Nat
    BY FS_CardinalityType
  <2>4. \/ revoked[i] = 0
        \/ revoked[i] <= crashes + late + Account(i)
    BY <2>1, <2>2, <2>3 DEF Ledger
  <2> QED BY <2>1, <2>4
<1> QED BY <1>1, LedgerAlways, PTL

-----------------------------------------------------------------------------
(***************************************************************************)
(* What requests leave behind.  While no decision changes after a campaign *)
(* was completed, all requests work on the same plan: the REVOKE decisions *)
(* that have no job yet.                                                   *)
(***************************************************************************)
SettledAll ==
    late = 0 =>
      /\ \A i \in JobItems : decision[i] = "REVOKE"
      /\ \A w \in Workers : InTransaction(w) =>
            Plan(w) = Remediable(target[w]) \ JobItems
      /\ \A w \in Workers : pc[w] = "publish" \/ response[w] = "ok" =>
            Remediable(target[w]) \subseteq JobItems

(* Jobs are committed before their events are published.                   *)
EventsKept ==
    /\ published \subseteq JobItems
    /\ \A w \in Workers : pc[w] = "publish" => Taken(w) \subseteq JobItems
    /\ crashes = 0 => \A i \in JobItems :
          i \in published \/ \E w \in Workers : pc[w] = "publish" /\ i \in Taken(w)

(* Every request has a correlation id of its own.                          *)
OwnCorrelations ==
    \A p, q \in Workers \X (1 .. MaxRuns) : CorrelationOf[p] = CorrelationOf[q] => p = q

Answered == {"COMPLETED", "SKIPPED"}

(* The newest provisioning job of a request is that of its current item,   *)
(* and the jobs it answered link to their own.                             *)
LinkedWork(w) ==
    /\ \A j \in mine[w] : j.correlation = Correlation(w)
    /\ \A i \in Items : draft[w][i].status \in Answered =>
          \E j \in mine[w] : j.id = draft[w][i].link /\ j.item = i
    /\ pc[w] = "settle" /\ result[w] # "error" =>
          \E j \in mine[w] : /\ j.item = Current(w)
                             /\ \A k \in mine[w] \ {j} : k.id < j.id

(* No committed provisioning job has the correlation id of a request that  *)
(* is still in its transaction.                                            *)
LinksKept ==
    /\ \A j \in pjobs : \E w \in Workers, r \in 1 .. MaxRuns :
          /\ j.correlation = CorrelationOf[<<w, r>>]
          /\ r <= runs[w] /\ (InTransaction(w) => r < runs[w])
    /\ \A w \in Workers : InTransaction(w) => LinkedWork(w)
    /\ \A i \in Items : rjobs[i].status \in Answered =>
          \E j \in pjobs : j.id = rjobs[i].link /\ j.item = i

(* What a commit does to the plans.                                        *)
LEMMA CommitPlans ==
    ASSUME Working, NEW v \in Workers, Commit(v)
    PROVE  /\ InTransaction(v) /\ ~InTransaction(v)' /\ pc'[v] = "publish"
           /\ UNCHANGED <<decision, late, crashes, published, response, runs, target, draft,
                          todo, result, mine>>
           /\ JobItems' = JobItems \cup Taken(v) /\ Taken(v) \cap JobItems = {}
           /\ Plan(v) = Taken(v)
           /\ pjobs' = pjobs \cup mine[v]
           /\ \A j \in Items : rjobs'[j] = IF j \in Taken(v) THEN draft[v][j] ELSE rjobs[j]
           /\ \A u \in Workers : Taken(u)' = Taken(u)
           /\ \A u \in Workers \ {v} : /\ pc'[u] = pc[u]
                                       /\ (InTransaction(u)' <=> InTransaction(u))
                                       /\ Plan(u)' = Plan(u) \ Taken(v)
<1>1. /\ pc[v] = "next" /\ todo[v] = {} /\ InTransaction(v) /\ pc'[v] = "publish"
      /\ UNCHANGED <<decision, late, crashes, published, response, runs, target, draft, todo,
                     result, mine>>
      /\ pjobs' = pjobs \cup mine[v]
      /\ \A u \in Workers \ {v} : pc'[u] = pc[u]
      /\ \A j \in Items : rjobs'[j] = IF j \in Taken(v) THEN draft[v][j] ELSE rjobs[j]
  BY DEF Commit, Taken, InTransaction, Working, TypeOK
<1>2. Taken(v) \cap JobItems = {}
  BY <1>1 DEF Taken, JobItems, Working, RowsAreExclusive
<1>3. JobItems' = JobItems \cup Taken(v) BY <1>1 DEF JobItems, Taken
<1>4. \A u \in Workers : Taken(u)' = Taken(u) BY <1>1 DEF Taken
<1>5. \A u \in Workers \ {v} : /\ (InTransaction(u)' <=> InTransaction(u))
                               /\ Plan(u)' = Plan(u) \ Taken(v)
  BY <1>1, <1>3, <1>4 DEF InTransaction, Plan
<1>6. Plan(v) = Taken(v) BY <1>1, <1>2 DEF Plan
<1>7. ~InTransaction(v)' BY <1>1 DEF InTransaction
<1> QED BY <1>1, <1>2, <1>3, <1>4, <1>5, <1>6, <1>7

LEMMA SettledStep ==
    ASSUME Working, SettledAll, [Next]_vars
    PROVE  SettledAll'
<1> SUFFICES ASSUME late' = 0 PROVE SettledAll' BY DEF SettledAll
<1>1. late \in Nat BY RemediationAssumption DEF Working, TypeOK
<1>2. late = 0 /\ decision' = decision
  BY <1>1
  DEF Next, Close, Redecide, Refuse, Begin, Step, SkipExisting, NoExisting, PreventDuplicate,
      Insert, ExecuteRaises, Execute, Settle, Commit, Publish, Crash, Abort, Moved, committed,
      vars
<1>3. \A c : Remediable(c)' = Remediable(c) BY <1>2 DEF Remediable
<1>4. ASSUME rjobs' = rjobs,
             \A w \in Workers : InTransaction(w)' =>
                \/ Plan(w)' = Remediable(target'[w]) \ JobItems
                \/ InTransaction(w) /\ Plan(w)' = Plan(w) /\ target'[w] = target[w],
             \A w \in Workers : pc'[w] = "publish" \/ response'[w] = "ok" =>
                (pc[w] = "publish" \/ response[w] = "ok") /\ target'[w] = target[w]
      PROVE  SettledAll'
  <2>1. JobItems' = JobItems BY <1>4 DEF JobItems
  <2>2. \A i \in JobItems' : decision'[i] = "REVOKE" BY <1>2, <2>1 DEF SettledAll
  <2>3. \A w \in Workers : InTransaction(w)' =>
            Plan(w)' = Remediable(target'[w]) \ JobItems'
    BY <1>2, <1>4, <2>1 DEF SettledAll
  <2>4. \A w \in Workers : pc'[w] = "publish" \/ response'[w] = "ok" =>
            Remediable(target'[w]) \subseteq JobItems'
    BY <1>2, <1>4, <2>1 DEF SettledAll
  <2>5. \A w \in Workers : Remediable(target[w])' = Remediable(target'[w])
    BY <1>2 DEF Remediable
  <2> QED BY <2>2, <2>3, <2>4, <2>5 DEF SettledAll
<1>5. ASSUME UNCHANGED <<rjobs, todo, draft, pc, target>>,
             \A w \in Workers : response'[w] = "ok" => response[w] = "ok"
      PROVE  SettledAll'
  <2>1. \A w \in Workers : Plan(w)' = Plan(w) /\ (InTransaction(w)' <=> InTransaction(w))
    BY <1>5 DEF Plan, Taken, JobItems, InTransaction
  <2> QED BY <1>4, <1>5, <2>1
<1>6. CASE UNCHANGED vars BY <1>5, <1>6 DEF vars, committed
<1>7. ASSUME NEW c \in Campaigns, Close(c) PROVE SettledAll'
  BY <1>5, <1>7 DEF Close
<1>8. ASSUME NEW w \in Workers, NEW c \in Campaigns, Refuse(w, c) PROVE SettledAll'
  BY <1>5, <1>8 DEF Refuse, committed, Working, TypeOK
<1>9. ASSUME NEW k \in Items, NEW d \in Decisions, Redecide(k, d) PROVE SettledAll'
  BY <1>1, <1>2, <1>9 DEF Redecide
<1>10. ASSUME NEW w \in Workers, NEW c \in Campaigns, Begin(w, c) PROVE SettledAll'
  <2>1. /\ rjobs' = rjobs /\ target'[w] = c /\ todo'[w] = Remediable(c)
        /\ pc'[w] = "next" /\ response'[w] = "none"
        /\ \A j \in Items : draft'[w][j] = Absent
        /\ \A v \in Workers \ {w} : /\ pc'[v] = pc[v] /\ target'[v] = target[v]
                                    /\ todo'[v] = todo[v] /\ draft'[v] = draft[v]
                                    /\ response'[v] = response[v]
    BY <1>10 DEF Begin, Ask, committed, NoDrafts, Working, TypeOK
  <2>2. /\ Plan(w)' = Remediable(target'[w]) \ JobItems
        /\ \A v \in Workers \ {w} : /\ Plan(v)' = Plan(v)
                                    /\ (InTransaction(v)' <=> InTransaction(v))
    BY <2>1 DEF Plan, Taken, JobItems, InTransaction
  <2> QED BY <1>4, <2>1, <2>2
<1>11. ASSUME NEW w \in Workers,
              \/ SkipExisting(w) \/ NoExisting(w) \/ PreventDuplicate(w) \/ Insert(w)
              \/ ExecuteRaises(w) \/ Execute(w) \/ Settle(w)
       PROVE  SettledAll'
  <2>1. \A v \in Workers : pc'[v] = "publish" \/ response'[v] = "ok" =>
            pc[v] = "publish" \/ response[v] = "ok"
    BY <1>11
    DEF SkipExisting, NoExisting, PreventDuplicate, Insert, ExecuteRaises, Execute, Settle,
        Abort, Moved, Working, TypeOK
  <2> QED BY <1>4, <1>11, <2>1, PlanKept
<1>12. ASSUME NEW w \in Workers, Publish(w) \/ Crash(w) PROVE SettledAll'
  <2>1. /\ UNCHANGED <<rjobs, todo, draft, target>>
        /\ pc'[w] = "idle" /\ (response'[w] = "ok" => pc[w] = "publish")
        /\ \A v \in Workers \ {w} : pc'[v] = pc[v] /\ response'[v] = response[v]
    BY <1>12 DEF Publish, Crash, committed, Working, TypeOK
  <2>2. \A v \in Workers : Plan(v)' = Plan(v) BY <2>1 DEF Plan, Taken, JobItems
  <2>3. \A v \in Workers : InTransaction(v)' => InTransaction(v) BY <2>1 DEF InTransaction
  <2> QED BY <1>4, <2>1, <2>2, <2>3
<1>13. ASSUME NEW v \in Workers, Commit(v) PROVE SettledAll'
  <2>1. /\ target' = target /\ response' = response /\ pc'[v] = "publish"
        /\ ~InTransaction(v)' /\ JobItems' = JobItems \cup Taken(v)
        /\ \A w \in Workers \ {v} : /\ pc'[w] = pc[w] /\ Plan(w)' = Plan(w) \ Taken(v)
                                    /\ (InTransaction(w)' <=> InTransaction(w))
        /\ Taken(v) = Remediable(target[v]) \ JobItems
    BY <1>2, <1>13, CommitPlans DEF SettledAll
  <2>2. \A i \in JobItems' : decision'[i] = "REVOKE"
    BY <1>2, <2>1 DEF SettledAll, Remediable
  <2>3. \A w \in Workers : InTransaction(w)' =>
            Plan(w)' = Remediable(target'[w]) \ JobItems'
    BY <1>2, <2>1 DEF SettledAll
  <2>4. \A w \in Workers : pc'[w] = "publish" \/ response'[w] = "ok" =>
            Remediable(target'[w]) \subseteq JobItems'
    BY <1>2, <2>1 DEF SettledAll
  <2>5. \A w \in Workers : Remediable(target[w])' = Remediable(target'[w])
    BY <1>2 DEF Remediable
  <2> QED BY <2>2, <2>3, <2>4, <2>5 DEF SettledAll
<1> QED BY <1>6, <1>7, <1>8, <1>9, <1>10, <1>11, <1>12, <1>13 DEF Next, Step

LEMMA EventsStep ==
    ASSUME Working, EventsKept, [Next]_vars
    PROVE  EventsKept'
<1>1. crashes \in Nat BY RemediationAssumption DEF Working, TypeOK
<1>2. ASSUME UNCHANGED <<rjobs, published, crashes>>,
             \A w \in Workers : (pc'[w] = "publish" <=> pc[w] = "publish")
                                /\ (pc[w] = "publish" => draft'[w] = draft[w])
      PROVE  EventsKept'
  <2>1. JobItems' = JobItems BY <1>2 DEF JobItems
  <2>2. \A w \in Workers : pc[w] = "publish" => Taken(w)' = Taken(w) BY <1>2 DEF Taken
  <2> QED BY <1>2, <2>1, <2>2 DEF EventsKept
<1>3. CASE UNCHANGED vars BY <1>2, <1>3 DEF vars, committed
<1>4. ASSUME NEW c \in Campaigns, Close(c) PROVE EventsKept'
  BY <1>2, <1>4 DEF Close
<1>5. ASSUME NEW w \in Workers, NEW c \in Campaigns, Refuse(w, c) PROVE EventsKept'
  BY <1>2, <1>5 DEF Refuse, committed
<1>6. ASSUME NEW k \in Items, NEW d \in Decisions, Redecide(k, d) PROVE EventsKept'
  BY <1>2, <1>6 DEF Redecide
<1>7. ASSUME NEW w \in Workers, NEW c \in Campaigns, Begin(w, c) PROVE EventsKept'
  BY <1>2, <1>7 DEF Begin, Ask, committed, Working, TypeOK
<1>8. ASSUME NEW w \in Workers,
              \/ SkipExisting(w) \/ NoExisting(w) \/ PreventDuplicate(w) \/ Insert(w)
              \/ ExecuteRaises(w) \/ Execute(w) \/ Settle(w)
       PROVE  EventsKept'
  <2>1. /\ UNCHANGED <<rjobs, published, crashes>> /\ pc[w] # "publish" /\ pc'[w] # "publish"
        /\ \A v \in Workers \ {w} : pc'[v] = pc[v] /\ draft'[v] = draft[v]
    BY <1>8
    DEF SkipExisting, NoExisting, PreventDuplicate, Insert, ExecuteRaises, Execute, Settle,
        Abort, Moved, committed, Working, TypeOK
  <2> QED BY <1>2, <2>1
<1>9. ASSUME NEW w \in Workers, Publish(w) PROVE EventsKept'
  <2>1. /\ UNCHANGED <<rjobs, draft, crashes>> /\ pc[w] = "publish" /\ pc'[w] = "idle"
        /\ published' = published \cup Taken(w)
        /\ \A v \in Workers \ {w} : pc'[v] = pc[v]
    BY <1>9 DEF Publish, Taken, committed, Working, TypeOK
  <2>2. JobItems' = JobItems /\ \A v \in Workers : Taken(v)' = Taken(v)
    BY <2>1 DEF JobItems, Taken
  <2> QED BY <2>1, <2>2 DEF EventsKept
<1>10. ASSUME NEW w \in Workers, Crash(w) PROVE EventsKept'
  <2>1. /\ UNCHANGED <<rjobs, draft, published>> /\ pc'[w] = "idle" /\ crashes' = crashes + 1
        /\ \A v \in Workers \ {w} : pc'[v] = pc[v]
    BY <1>10 DEF Crash, committed, Working, TypeOK
  <2>2. JobItems' = JobItems /\ \A v \in Workers : Taken(v)' = Taken(v)
    BY <2>1 DEF JobItems, Taken
  <2>3. crashes' # 0 BY <1>1, <2>1
  <2> QED BY <2>1, <2>2, <2>3 DEF EventsKept
<1>11. ASSUME NEW v \in Workers, Commit(v) PROVE EventsKept'
  <2>1. pc[v] # "publish" BY <1>11 DEF Commit
  <2> QED BY <1>11, <2>1, CommitPlans DEF EventsKept
<1> QED BY <1>3, <1>4, <1>5, <1>6, <1>7, <1>8, <1>9, <1>10, <1>11 DEF Next, Step

(* A request may link to its own provisioning jobs only, and links to the  *)
(* newest of them.                                                         *)
LEMMA LinksToOwn ==
    ASSUME OwnCorrelations, Working, LinksKept, NEW w \in Workers, InTransaction(w),
           NEW j \in mine[w], \A k \in mine[w] \ {j} : k.id < j.id
    PROVE  Latest(w) = j.id
<1>1. runs[w] \in 1 .. MaxRuns
  BY RemediationAssumption DEF Working, Control, RunningIsCounted, InTransaction, TypeOK
<1>2. ASSUME NEW k \in pjobs, k.correlation = Correlation(w) PROVE FALSE
  <2>1. PICK v \in Workers, r \in 1 .. MaxRuns :
              /\ k.correlation = CorrelationOf[<<v, r>>]
              /\ r <= runs[v] /\ (InTransaction(v) => r < runs[v])
    BY DEF LinksKept
  <2>2. CorrelationOf[<<v, r>>] = CorrelationOf[<<w, runs[w]>>] BY <1>2, <2>1 DEF Correlation
  <2>3. <<v, r>> = <<w, runs[w]>> BY <1>1, <2>2 DEF OwnCorrelations
  <2>4. v = w /\ r = runs[w] BY <2>3
  <2> QED BY <1>1, <2>1, <2>4
<1>3. Linkable(w) = mine[w] BY <1>2 DEF Linkable, LinksKept, LinkedWork
<1>4. \A k \in mine[w] : k.id \in Nat /\ k.id <= j.id
  <2>1. mine[w] \subseteq ProvisioningRow BY DEF Working, TypeOK
  <2>2. \A k \in ProvisioningRow : k.id \in Nat BY DEF ProvisioningRow
  <2>3. \A k \in mine[w] : k.id \in Nat BY <2>1, <2>2
  <2>4. \A k \in mine[w] : k = j \/ k.id < j.id OBVIOUS
  <2> QED BY <2>3, <2>4
<1> DEFINE Newest == CHOOSE k \in mine[w] : \A l \in mine[w] : l.id <= k.id
<1>5. Newest \in mine[w] /\ \A l \in mine[w] : l.id <= Newest.id BY <1>4
<1>6. Latest(w) = Newest.id BY <1>3 DEF Latest
<1> HIDE DEF Newest
<1>7. Newest.id <= j.id /\ j.id <= Newest.id /\ Newest.id \in Nat /\ j.id \in Nat
  BY <1>4, <1>5
<1> QED BY <1>6, <1>7

LEMMA LinkedWorkKept ==
    ASSUME NEW v \in Workers, LinkedWork(v), pc'[v] = pc[v], todo'[v] = todo[v],
           draft'[v] = draft[v], mine'[v] = mine[v], result'[v] = result[v],
           runs'[v] = runs[v]
    PROVE  LinkedWork(v)'
<1>1. Current(v)' = Current(v) BY SameCurrent
<1> QED BY <1>1 DEF LinkedWork, Correlation

LEMMA LinksStep ==
    ASSUME OwnCorrelations, Working, LinksKept, TypeOK', [Next]_vars
    PROVE  LinksKept'
<1>1. ASSUME UNCHANGED <<pjobs, rjobs>>,
             \A w \in Workers : InTransaction(w)' => LinkedWork(w)',
             \A w \in Workers : \/ runs'[w] = runs[w] /\ (InTransaction(w)' => InTransaction(w))
                                \/ runs'[w] = runs[w] + 1
      PROVE  LinksKept'
  <2>1. ASSUME NEW j \in pjobs'
        PROVE  \E w \in Workers, r \in 1 .. MaxRuns :
                  /\ j.correlation = CorrelationOf[<<w, r>>]
                  /\ r <= runs'[w] /\ (InTransaction(w)' => r < runs'[w])
    <3>1. PICK w \in Workers, r \in 1 .. MaxRuns :
              /\ j.correlation = CorrelationOf[<<w, r>>]
              /\ r <= runs[w] /\ (InTransaction(w) => r < runs[w])
      BY <1>1, <2>1 DEF LinksKept
    <3>2. runs[w] \in Nat /\ r \in Nat BY RemediationAssumption DEF Working, TypeOK
    <3>3. r <= runs'[w] /\ (InTransaction(w)' => r < runs'[w]) BY <1>1, <3>1, <3>2
    <3> QED BY <3>1, <3>3
  <2>2. \A i \in Items : rjobs'[i].status \in Answered =>
            \E j \in pjobs' : j.id = rjobs'[i].link /\ j.item = i
    BY <1>1 DEF LinksKept
  <2> QED BY <1>1, <2>1, <2>2 DEF LinksKept
<1>2. ASSUME UNCHANGED <<pjobs, rjobs>>, NEW w \in Workers,
             \A v \in Workers \ {w} :
                /\ pc'[v] = pc[v] /\ todo'[v] = todo[v] /\ draft'[v] = draft[v]
                /\ mine'[v] = mine[v] /\ result'[v] = result[v] /\ runs'[v] = runs[v],
             \/ runs'[w] = runs[w] /\ (InTransaction(w)' => InTransaction(w))
             \/ runs'[w] = runs[w] + 1,
             InTransaction(w)' => LinkedWork(w)'
      PROVE  LinksKept'
  <2>1. \A v \in Workers \ {w} : InTransaction(v)' <=> InTransaction(v)
    BY <1>2 DEF InTransaction
  <2>2. \A v \in Workers \ {w} : InTransaction(v)' => LinkedWork(v)'
    BY <1>2, <2>1, LinkedWorkKept DEF LinksKept
  <2> QED BY <1>1, <1>2, <2>1, <2>2
<1>3. ASSUME UNCHANGED <<pjobs, rjobs, pc, todo, draft, mine, result, runs>> PROVE LinksKept'
  <2>1. \A v \in Workers : InTransaction(v)' <=> InTransaction(v)
    BY <1>3 DEF InTransaction
  <2>2. \A v \in Workers : InTransaction(v)' => LinkedWork(v)'
    BY <1>3, <2>1, LinkedWorkKept DEF LinksKept
  <2> QED BY <1>1, <1>3, <2>1, <2>2
<1>4. CASE UNCHANGED vars BY <1>3, <1>4 DEF vars, committed
<1>5. ASSUME NEW c \in Campaigns, Close(c) PROVE LinksKept'
  BY <1>3, <1>5 DEF Close
<1>6. ASSUME NEW k \in Items, NEW d \in Decisions, Redecide(k, d) PROVE LinksKept'
  BY <1>3, <1>6 DEF Redecide
<1>7. ASSUME NEW w \in Workers, NEW c \in Campaigns, Refuse(w, c) PROVE LinksKept'
  <2>1. /\ UNCHANGED <<pjobs, rjobs>> /\ runs'[w] = runs[w] + 1 /\ ~InTransaction(w)'
        /\ \A v \in Workers \ {w} :
              /\ pc'[v] = pc[v] /\ todo'[v] = todo[v] /\ draft'[v] = draft[v]
              /\ mine'[v] = mine[v] /\ result'[v] = result[v] /\ runs'[v] = runs[v]
    BY <1>7 DEF Refuse, Ask, committed, InTransaction, Working, TypeOK
  <2> QED BY <1>2, <2>1
<1>8. ASSUME NEW w \in Workers, NEW c \in Campaigns, Begin(w, c) PROVE LinksKept'
  <2>1. /\ UNCHANGED <<pjobs, rjobs>> /\ runs'[w] = runs[w] + 1
        /\ pc'[w] = "next" /\ mine'[w] = {} /\ draft'[w] = NoDrafts
        /\ \A v \in Workers \ {w} :
              /\ pc'[v] = pc[v] /\ todo'[v] = todo[v] /\ draft'[v] = draft[v]
              /\ mine'[v] = mine[v] /\ result'[v] = result[v] /\ runs'[v] = runs[v]
    BY <1>8 DEF Begin, Ask, committed, Working, TypeOK
  <2>2. LinkedWork(w)' BY <2>1 DEF LinkedWork, Answered, NoDrafts, Absent
  <2> QED BY <1>2, <2>1, <2>2
<1>9. ASSUME NEW w \in Workers, Publish(w) \/ Crash(w) PROVE LinksKept'
  <2>1. /\ UNCHANGED <<pjobs, rjobs, runs>> /\ ~InTransaction(w)'
        /\ \A v \in Workers \ {w} :
              /\ pc'[v] = pc[v] /\ todo'[v] = todo[v] /\ draft'[v] = draft[v]
              /\ mine'[v] = mine[v] /\ result'[v] = result[v] /\ runs'[v] = runs[v]
    BY <1>9 DEF Publish, Crash, committed, InTransaction, Working, TypeOK
  <2> QED BY <1>2, <2>1
<1>10. ASSUME NEW w \in Workers,
              \/ SkipExisting(w) \/ NoExisting(w) \/ PreventDuplicate(w) \/ Insert(w)
              \/ ExecuteRaises(w) \/ Execute(w) \/ Settle(w)
       PROVE  LinksKept'
  <2>1. /\ UNCHANGED <<pjobs, rjobs, runs>> /\ InTransaction(w)
        /\ \A v \in Workers \ {w} :
              /\ pc'[v] = pc[v] /\ todo'[v] = todo[v] /\ draft'[v] = draft[v]
              /\ mine'[v] = mine[v] /\ result'[v] = result[v] /\ runs'[v] = runs[v]
    BY <1>10
    DEF SkipExisting, NoExisting, PreventDuplicate, Insert, ExecuteRaises, Execute, Settle,
        Abort, Moved, committed, InTransaction, Working, TypeOK
  <2>2. LinkedWork(w) BY <2>1 DEF LinksKept
  <2>3. Correlation(w)' = Correlation(w) BY <2>1 DEF Correlation
  <2>4. CASE UNCHANGED <<draft, mine>> /\ (pc'[w] # "settle" \/ result'[w] = "error")
    BY <1>2, <2>1, <2>2, <2>3, <2>4 DEF LinkedWork
  <2>5. CASE SkipExisting(w) \/ NoExisting(w) \/ PreventDuplicate(w)
    BY <2>4, <2>5
    DEF SkipExisting, NoExisting, PreventDuplicate, Abort, Moved, Working, TypeOK
  <2>6. CASE ExecuteRaises(w)
    BY <2>4, <2>6 DEF ExecuteRaises, Moved, Working, TypeOK
  <2>7. CASE Insert(w)
    <3>1. CASE rjobs[Current(w)] # Absent
      BY <2>4, <2>7, <3>1 DEF Insert, Abort, Working, TypeOK
    <3>2. CASE rjobs[Current(w)] = Absent
      <4>1. /\ pc'[w] = "execute" /\ mine' = mine
            /\ \A i \in Items : draft'[w][i] = draft[w][i] \/ draft'[w][i] = Job("RUNNING", NoJob)
        BY <2>7, <3>2 DEF Insert, Moved, Working, TypeOK
      <4>2. LinkedWork(w)'
        BY <2>2, <2>3, <4>1 DEF LinkedWork, Answered, Job
      <4> QED BY <1>2, <2>1, <4>2
    <3> QED BY <3>1, <3>2
  <2>8. CASE Execute(w)
    <3> DEFINE row == [id |-> nextId, item |-> Current(w), correlation |-> Correlation(w)]
    <3>1. /\ UNCHANGED <<draft, todo>> /\ mine'[w] = mine[w] \cup {row}
      BY <2>8 DEF Execute, Moved, Working, TypeOK
    <3>2. Current(w)' = Current(w) BY <3>1, SameCurrent
    <3>3. \A k \in mine[w] : k.id < nextId BY DEF Working, Control, IdsAreBelow
    <3>4. row \in mine'[w] /\ row.item = Current(w) /\ row.id = nextId
          /\ row.correlation = Correlation(w)
      BY <3>1
    <3>5. \A k \in mine'[w] \ {row} : k.id < row.id BY <3>1, <3>3
    <3>6. \A k \in mine'[w] : k.correlation = Correlation(w)
      BY <2>2, <3>1, <3>4 DEF LinkedWork
    <3>7. \A i \in Items : draft'[w][i].status \in Answered =>
              \E j \in mine'[w] : j.id = draft'[w][i].link /\ j.item = i
      BY <2>2, <3>1 DEF LinkedWork
    <3> HIDE DEF row
    <3>8. LinkedWork(w)'
      BY <2>3, <3>2, <3>4, <3>5, <3>6, <3>7 DEF LinkedWork
    <3> QED BY <1>2, <2>1, <3>8
  <2>9. CASE Settle(w)
    <3>1. /\ pc[w] = "settle" /\ pc'[w] = "next" /\ mine' = mine
          /\ \A i \in Items : draft'[w][i] =
                IF i = Current(w) THEN Job(FinalStatus(result[w]), Latest(w)) ELSE draft[w][i]
      BY <2>9 DEF Settle, Moved, Working, TypeOK
    <3>2. ASSUME NEW i \in Items, draft'[w][i].status \in Answered
          PROVE  \E j \in mine[w] : j.id = draft'[w][i].link /\ j.item = i
      <4>1. CASE i # Current(w) BY <2>2, <3>1, <3>2, <4>1 DEF LinkedWork
      <4>2. CASE i = Current(w)
        <5>1. draft'[w][i] = Job(FinalStatus(result[w]), Latest(w)) BY <3>1, <4>2
        <5>2. FinalStatus(result[w]) \in Answered /\ draft'[w][i].link = Latest(w)
          BY <3>2, <5>1 DEF Job
        <5>3. result[w] # "error" BY <5>2 DEF FinalStatus, Answered
        <5>4. PICK j \in mine[w] : /\ j.item = Current(w)
                                   /\ \A k \in mine[w] \ {j} : k.id < j.id
          BY <2>2, <3>1, <5>3 DEF LinkedWork
        <5>5. Latest(w) = j.id BY <2>1, <5>4, LinksToOwn
        <5> QED BY <4>2, <5>2, <5>4, <5>5
      <4> QED BY <4>1, <4>2
    <3>3. LinkedWork(w)' BY <2>2, <2>3, <3>1, <3>2 DEF LinkedWork
    <3> QED BY <1>2, <2>1, <3>3
  <2> QED BY <1>10, <2>5, <2>6, <2>7, <2>8, <2>9
<1>11. ASSUME NEW v \in Workers, Commit(v) PROVE LinksKept'
  <2>1. /\ InTransaction(v) /\ ~InTransaction(v)'
        /\ UNCHANGED <<runs, draft, todo, result, mine>> /\ pjobs' = pjobs \cup mine[v]
        /\ \A j \in Items : rjobs'[j] = IF j \in Taken(v) THEN draft[v][j] ELSE rjobs[j]
        /\ \A u \in Workers \ {v} : pc'[u] = pc[u] /\ (InTransaction(u)' <=> InTransaction(u))
    BY <1>11, CommitPlans
  <2>2. LinkedWork(v) BY <2>1 DEF LinksKept
  <2>3. runs[v] \in 1 .. MaxRuns
    BY <2>1, RemediationAssumption
    DEF Working, Control, RunningIsCounted, InTransaction, TypeOK
  <2>4. ASSUME NEW j \in pjobs'
        PROVE  \E w \in Workers, r \in 1 .. MaxRuns :
                  /\ j.correlation = CorrelationOf[<<w, r>>]
                  /\ r <= runs'[w] /\ (InTransaction(w)' => r < runs'[w])
    <3>1. CASE j \in mine[v]
      <4>1. j.correlation = CorrelationOf[<<v, runs[v]>>]
        BY <2>2, <3>1 DEF LinkedWork, Correlation
      <4>2. runs[v] <= runs'[v] /\ (InTransaction(v)' => runs[v] < runs'[v]) BY <2>1, <2>3
      <4> QED BY <2>3, <4>1, <4>2
    <3>2. CASE j \in pjobs
      <4>1. PICK w \in Workers, r \in 1 .. MaxRuns :
                /\ j.correlation = CorrelationOf[<<w, r>>]
                /\ r <= runs[w] /\ (InTransaction(w) => r < runs[w])
        BY <3>2 DEF LinksKept
      <4>2. r <= runs'[w] /\ (InTransaction(w)' => r < runs'[w]) BY <2>1, <4>1
      <4> QED BY <4>1, <4>2
    <3> QED BY <2>1, <2>4, <3>1, <3>2
  <2>5. \A u \in Workers : InTransaction(u)' => LinkedWork(u)'
    BY <2>1, LinkedWorkKept DEF LinksKept
  <2>6. \A i \in Items : rjobs'[i].status \in Answered =>
            \E j \in pjobs' : j.id = rjobs'[i].link /\ j.item = i
    BY <2>1, <2>2 DEF LinksKept, LinkedWork
  <2> QED BY <2>4, <2>5, <2>6 DEF LinksKept
<1> QED BY <1>4, <1>5, <1>6, <1>7, <1>8, <1>9, <1>10, <1>11 DEF Next, Step

(***************************************************************************)
(* AnsweredMeansSettled, EffectsAreRecorded and EventsFollowCommit: a      *)
(* request that answers "ok" has settled exactly the REVOKE decisions of   *)
(* its campaign, without a crash or a late decision no call goes           *)
(* unrecorded, and events are published for committed jobs, all of them    *)
(* unless a worker died.                                                   *)
(***************************************************************************)
THEOREM WorkIsSettled ==
    Spec => [](AnsweredMeansSettled /\ EffectsAreRecorded /\ EventsFollowCommit)
<1>1. Init => SettledAll /\ EventsKept
  BY DEF Init, SettledAll, EventsKept, JobItems, Taken, NoDrafts, InTransaction
<1>2. Working /\ SettledAll /\ EventsKept /\ [Next]_vars => SettledAll' /\ EventsKept'
  BY SettledStep, EventsStep
<1>3. Working /\ SettledAll => AnsweredMeansSettled
  <2> SUFFICES ASSUME Working, SettledAll, late = 0, NEW w \in Workers, response[w] = "ok",
                      NEW i \in Items, CampaignOf[i] = target[w]
               PROVE  rjobs[i] # Absent <=> decision[i] = "REVOKE"
    BY DEF AnsweredMeansSettled
  <2> QED BY DEF SettledAll, JobItems, Remediable
<1>4. Working /\ Ledgers => EffectsAreRecorded
  <2> SUFFICES ASSUME Working, Ledgers, crashes = 0, late = 0,
                      \A w \in Workers : pc[w] = "idle",
                      NEW i \in Items, revoked[i] > 0
               PROVE  rjobs[i].status = "COMPLETED"
    BY DEF EffectsAreRecorded
  <2>1. Accounted(i) <=> rjobs[i].status = "COMPLETED" BY DEF Accounted, InTransaction
  <2>2. revoked[i] \in Nat /\ Account(i) \in {0, 1} BY Numbers DEF Working, Account
  <2>3. IsFiniteSet(PlansWithout(i)) => Cardinality(PlansWithout(i)) \in Nat
    BY FS_CardinalityType
  <2>4. Ledger(i) BY DEF Ledgers
  <2>5. revoked[i] <= Account(i) BY <2>2, <2>3, <2>4 DEF Ledger
  <2> QED BY <2>1, <2>2, <2>5 DEF Account
<1>5. EventsKept /\ TypeOK => EventsFollowCommit
  BY DEF EventsKept, EventsFollowCommit, JobItems, TypeOK
<1>6. Working => TypeOK BY DEF Working
<1> QED BY <1>1, <1>2, <1>3, <1>4, <1>5, <1>6, LedgerAlways, PTL DEF Spec

(***************************************************************************)
(* OutcomesAreRecorded: when every request has a correlation id of its     *)
(* own, an answered job links to its own provisioning job as well.         *)
(***************************************************************************)
THEOREM OutcomesStayRecorded == OwnCorrelations => (Spec => []OutcomesAreRecorded)
<1> SUFFICES ASSUME OwnCorrelations PROVE Spec => []OutcomesAreRecorded
  OBVIOUS
<1>1. Init => LinksKept
  BY DEF Init, LinksKept, NoDrafts, Absent, Answered, InTransaction
<1>2. Working /\ Working' /\ LinksKept /\ [Next]_vars => LinksKept'
  BY LinksStep DEF Working
<1>3. LinksKept => AnsweredJobsLinkTheirOwn
  BY DEF LinksKept, Answered, AnsweredJobsLinkTheirOwn, LinkedRows
<1>4. AnsweredMeansSettled /\ EffectsAreRecorded /\ EventsFollowCommit
        /\ AnsweredJobsLinkTheirOwn => OutcomesAreRecorded
  BY DEF OutcomesAreRecorded
<1> QED BY <1>1, <1>2, <1>3, <1>4, WorkIsSettled, LedgerAlways, PTL DEF Spec
=============================================================================
