--------------------------- MODULE ScimUsersProofs ---------------------------
(***************************************************************************)
(* Proofs about ScimUsers for any users, values, requests and number of    *)
(* overlapping requests.                                                   *)
(***************************************************************************)
EXTENDS ScimUsers, TLAPS

(* A request moves by a step of its own or when a statement of it fails;   *)
(* a failure and a deadlock end it alike.                                  *)
Moves(r) == Step(r) \/ Fail(r)
Aborts(r) == Fail(r) \/ BreakDeadlock(r)

(* The transaction is open: the user row has been flushed.                 *)
Open == {"profile", "insert", "number", "manager", "walk", "set", "commit"}

(***************************************************************************)
(* What a session may rely on, whatever the others do: rows are never      *)
(* deleted, and the profile it writes is there or is its own.              *)
(***************************************************************************)
SessionOK(t) ==
    /\ t.pc # "idle" => t.ask \in Workload
    /\ t.pc = "load" => t.ask.kind # "create"
    /\ t.pc \in {"name", "user"} \cup Open =>
          /\ t.loaded = None <=> t.ask.kind = "create"
          /\ t.loaded = None => \A a \in Core : t.want[a] \in Value
          /\ t.loaded # None => t.target \in Users /\ users[t.target] # None
    /\ t.pc \in Open =>
          /\ t.target \in Users
          /\ t.loaded = None => \A a \in Columns : t.draft[a] \in Value
    /\ t.pc \in {"number", "manager", "walk", "set"} =>
          t.creates \/ profiles[t.target] # None
    /\ t.pc = "commit" /\ t.changed # Unwritten =>
          t.creates \/ profiles[t.target] # None
    /\ t.pc \notin {"commit", "publish"} => t.changed = Unwritten
    /\ t.pc \in {"idle", "load", "name", "user", "profile", "insert", "deny"} => ~t.creates
    /\ t.pc \in {"walk", "set"} => t.want["manager"] \in Users \cup {None, UNSET}
    /\ t.pc = "walk" => t.cur \in Users

(* A profile is being inserted by one session, and is not there yet.       *)
Inserts(t) == t.creates /\ t.pc # "publish"

InsertedOnce ==
    \A r \in Clients : Inserts(tx[r]) =>
        /\ tx[r].target \in Users /\ profiles[tx[r].target] = None
        /\ \A s \in Clients : Inserts(tx[s]) /\ tx[s].target = tx[r].target => s = r

Sound ==
    tx \in [Clients -> Sessions] /\ (\A r \in Clients : SessionOK(tx[r])) /\ InsertedOnce

IInv == TypeOK /\ Sound

(***************************************************************************)
(* What holds in addition while requests are made one at a time.  Vetted   *)
(* is what the walk establishes: a set of users that has the new manager,  *)
(* is closed under managers and lacks the user.                            *)
(***************************************************************************)
Vetted(m, u) ==
    \E S \in SUBSET Users :
        m \in S /\ u \notin S /\ \A v \in S : ManagerOf(v) \in S \cup {None}

WalkOK(t) ==
    /\ t.pc = "walk" =>
          /\ t.seen \subseteq Users /\ t.cur \in t.seen /\ t.want["manager"] \in t.seen
          /\ t.target \notin t.seen
          /\ \A v \in t.seen \ {t.cur} : ManagerOf(v) \in t.seen
    /\ t.pc = "set" /\ t.want["manager"] \in Users => Vetted(t.want["manager"], t.target)
    /\ t.pc = "commit" /\ t.changed["manager"] \in Users =>
          Vetted(t.changed["manager"], t.target)

(* What the session has loaded is what the tables hold.                    *)
SnapshotOK(t) ==
    /\ t.pc \in {"name", "user"} \cup Open /\ t.loaded # None => t.loaded = users[t.target]
    /\ t.pc \in Open /\ t.loaded = None => users[t.target] = None
    /\ t.pc = "insert" => t.had = None
    /\ t.pc \in {"number", "manager", "walk", "set"} =>
          t.had = IF t.creates THEN None ELSE profiles[t.target]
    /\ t.pc \in Open \ {"commit"} =>
          t.draft["department"] = IF t.loaded = None THEN Default ELSE UNSET
    /\ t.pc = "commit" =>
          LET old == IF t.loaded = None THEN Default ELSE t.loaded["department"]
              new == IF t.draft["department"] = UNSET THEN old ELSE t.draft["department"]
          IN  /\ t.changed["department"] \in Value => new = t.changed["department"]
              /\ t.changed["department"] = UNSET => new = old

Alone == \A r, s \in Clients : Busy(r) /\ Busy(s) => r = s

ProfilesHaveUsers ==
    \A u \in Users : /\ profiles[u] # None => users[u] # None
                     /\ users[u] # None => u \in drawn

TargetsDrawn == \A r \in Clients : tx[r].pc \in Open => tx[r].target \in drawn

Serial ==
    ~overlapped =>
        /\ Alone /\ TargetsDrawn /\ Acyclic /\ DepartmentsAgree /\ ProfilesHaveUsers
        /\ \A r \in Clients : WalkOK(tx[r]) /\ SnapshotOK(tx[r])

-----------------------------------------------------------------------------
(* What parsing yields: a mutation, and for a POST a complete user.        *)
LEMMA ParsedType == ASSUME NEW q \in Workload, Parsed[q] # None
                    PROVE  Parsed[q] \in Mutation
BY ScimUsersAssumption

LEMMA CreationIsComplete ==
    ASSUME NEW q \in Workload, Parsed[q] # None, q.kind = "create"
    PROVE  \A a \in Core : Parsed[q][a] \in Value
<1>1. q \in Asks
    BY ScimUsersAssumption
<1>2. ResourceParses(q.resource) /\ Parsed[q] = ResourceMutation(q.resource)
    BY DEF Parsed, Parses, Wanted
<1>3. ASSUME NEW a \in Core PROVE Parsed[q][a] \in Value
    <2>1. /\ q.resource \in [Attributes -> Value \cup {None, UNSET, Malformed}]
          /\ a \in Attributes
        BY <1>1 DEF Asks, Attributes
    <2>2. Parsable(a, q.resource[a]) /\ (a # "active" => q.resource[a] # UNSET)
        BY <1>2, <2>1 DEF ResourceParses, Core, Attributes
    <2>3. q.resource[a] \in Value \cup {UNSET}
        BY <2>1, <2>2 DEF Parsable
    <2> QED BY <1>2, <2>1, <2>2, <2>3, ScimUsersAssumption DEF ResourceMutation
<1> QED BY <1>3

LEMMA Blank == /\ Untouched \in Mutation
               /\ Unchanged \in Drafts
               /\ Unwritten \in ProfileDrafts
<1>1. Untouched \in Mutation
    BY ScimUsersAssumption DEF Untouched, Mutation
<1>2. Unchanged \in Drafts
    BY DEF Unchanged, Drafts
<1>3. Unwritten \in ProfileDrafts
    BY DEF Unwritten, ProfileDrafts, Enterprise
<1> QED BY <1>1, <1>2, <1>3

LEMMA IdleType == Idle \in Sessions /\ SessionOK(Idle) /\ ~Inserts(Idle)
BY Blank DEF Idle, Sessions, SessionOK, Open, Inserts

(* A session stays one when one of its fields gets a value of its type.     *)
Labels == {"idle", "name", "load", "user", "profile", "insert", "number", "manager",
           "walk", "set", "commit", "publish", "deny"}

LEMMA FieldUpdates ==
    ASSUME NEW t \in Sessions
    PROVE  /\ \A v \in Labels : [t EXCEPT !.pc = v] \in Sessions
           /\ \A v \in Workload \cup {None} : [t EXCEPT !.ask = v] \in Sessions
           /\ \A v \in Nat : [t EXCEPT !.number = v] \in Sessions
           /\ \A v \in Mutation : [t EXCEPT !.want = v] \in Sessions
           /\ \A v \in Users \cup {None} : [t EXCEPT !.target = v] \in Sessions
           /\ \A v \in UserRow \cup {None} : [t EXCEPT !.loaded = v] \in Sessions
           /\ \A v \in Profile \cup {None} : [t EXCEPT !.had = v] \in Sessions
           /\ \A v \in BOOLEAN : [t EXCEPT !.creates = v] \in Sessions
           /\ \A v \in Drafts : [t EXCEPT !.draft = v] \in Sessions
           /\ \A v \in ProfileDrafts : [t EXCEPT !.changed = v] \in Sessions
           /\ \A v \in Users \cup {None} : [t EXCEPT !.cur = v] \in Sessions
           /\ \A v \in SUBSET Users : [t EXCEPT !.seen = v] \in Sessions
           /\ \A v \in {"failure", "enterprise_failure"} :
                 [t EXCEPT !.action = v] \in Sessions
           /\ \A v \in Users \cup {None} : [t EXCEPT !.blame = v] \in Sessions
           /\ \A v \in {"none", "ok", "400", "404", "409", "500"} :
                 [t EXCEPT !.response = v] \in Sessions
<1>1. \A v \in Labels : [t EXCEPT !.pc = v] \in Sessions
    BY DEF Sessions, Labels
<1>2. \A v \in Workload \cup {None} : [t EXCEPT !.ask = v] \in Sessions
    BY DEF Sessions
<1>3. \A v \in Nat : [t EXCEPT !.number = v] \in Sessions
    BY DEF Sessions
<1>4. \A v \in Mutation : [t EXCEPT !.want = v] \in Sessions
    BY DEF Sessions
<1>5. \A v \in Users \cup {None} : [t EXCEPT !.target = v] \in Sessions
    BY DEF Sessions
<1>6. \A v \in UserRow \cup {None} : [t EXCEPT !.loaded = v] \in Sessions
    BY DEF Sessions
<1>7. \A v \in Profile \cup {None} : [t EXCEPT !.had = v] \in Sessions
    BY DEF Sessions
<1>8. \A v \in BOOLEAN : [t EXCEPT !.creates = v] \in Sessions
    BY DEF Sessions
<1>9. \A v \in Drafts : [t EXCEPT !.draft = v] \in Sessions
    BY DEF Sessions
<1>10. \A v \in ProfileDrafts : [t EXCEPT !.changed = v] \in Sessions
    BY DEF Sessions
<1>11. \A v \in Users \cup {None} : [t EXCEPT !.cur = v] \in Sessions
    BY DEF Sessions
<1>12. \A v \in SUBSET Users : [t EXCEPT !.seen = v] \in Sessions
    BY DEF Sessions
<1>13. \A v \in {"failure", "enterprise_failure"} : [t EXCEPT !.action = v] \in Sessions
    BY DEF Sessions
<1>14. \A v \in Users \cup {None} : [t EXCEPT !.blame = v] \in Sessions
    BY DEF Sessions
<1>15. \A v \in {"none", "ok", "400", "404", "409", "500"} : [t EXCEPT !.response = v] \in Sessions
    BY DEF Sessions
<1> QED BY <1>1, <1>2, <1>3, <1>4, <1>5, <1>6, <1>7,
          <1>8, <1>9, <1>10, <1>11, <1>12, <1>13, <1>14, <1>15

(* A step that writes no row and inserts no profile.                       *)
LEMMA Quiet ==
    ASSUME IInv, NEW r \in Clients, NEW t \in Sessions, Update(r, t),
           UNCHANGED <<users, profiles>>, SessionOK(t),
           Inserts(t) => Inserts(tx[r]) /\ t.target = tx[r].target
    PROVE  Sound'
<1>1. /\ tx \in [Clients -> Sessions]
      /\ tx' = [tx EXCEPT ![r] = t]
    BY DEF IInv, TypeOK, Update
<1>2. tx' \in [Clients -> Sessions]
    BY <1>1
<1>3. tx'[r] = t /\ \A s \in Clients : s # r => tx'[s] = tx[s]
    BY <1>1
<1>4. ASSUME NEW s \in Clients PROVE SessionOK(tx[s])'
    <2>1. SessionOK(tx'[s])
        BY <1>3 DEF IInv, Sound
    <2> QED BY <2>1 DEF SessionOK
<1>5. InsertedOnce'
    BY <1>3 DEF IInv, Sound, InsertedOnce, Inserts
<1> QED BY <1>2, <1>4, <1>5 DEF Sound

LEMMA RefuseKeeps ==
    ASSUME IInv, NEW r \in Clients, tx[r].ask \in Workload,
           NEW status \in {"400", "404", "409"},
           NEW act \in {"failure", "enterprise_failure"}, NEW u \in Users \cup {None},
           Refuse(r, status, act, u), UNCHANGED <<users, profiles>>
    PROVE  Sound'
<1> DEFINE t == [Idle EXCEPT !.pc = "deny", !.ask = tx[r].ask, !.number = tx[r].number,
                             !.action = act, !.blame = u, !.response = status]
<1>1. tx[r].number \in Nat
    BY DEF IInv, TypeOK, Sessions
<1>2. t \in Sessions
    <2> DEFINE t1 == [Idle EXCEPT !.pc = "deny"]
               t2 == [t1 EXCEPT !.ask = tx[r].ask]
               t3 == [t2 EXCEPT !.number = tx[r].number]
               t4 == [t3 EXCEPT !.action = act]
               t5 == [t4 EXCEPT !.blame = u]
               t6 == [t5 EXCEPT !.response = status]
    <2>1. t1 \in Sessions
        BY IdleType, FieldUpdates DEF Labels
    <2>2. t2 \in Sessions
        <3> HIDE DEF t1
        <3> QED BY <2>1, FieldUpdates
    <2>3. t3 \in Sessions
        <3> HIDE DEF t2
        <3> QED BY <1>1, <2>2, FieldUpdates
    <2>4. t4 \in Sessions
        <3> HIDE DEF t3
        <3> QED BY <2>3, FieldUpdates
    <2>5. t5 \in Sessions
        <3> HIDE DEF t4
        <3> QED BY <2>4, FieldUpdates
    <2>6. t6 \in Sessions
        <3> HIDE DEF t5
        <3> QED BY <2>5, FieldUpdates
    <2>7. t = t6
        OBVIOUS
    <2> QED BY <2>6, <2>7
<1>3. SessionOK(t) /\ ~Inserts(t)
    BY IdleType DEF SessionOK, Inserts, Idle, Open
<1>4. Update(r, t)
    BY DEF Refuse
<1> QED BY <1>2, <1>3, <1>4, Quiet

LEMMA ResetKeeps ==
    ASSUME IInv, NEW r \in Clients,
           NEW status \in {"none", "ok", "400", "404", "409", "500"},
           Update(r, [Idle EXCEPT !.response = status]), UNCHANGED <<users, profiles>>
    PROVE  Sound'
<1> DEFINE t == [Idle EXCEPT !.response = status]
<1>1. t \in Sessions
    BY IdleType, FieldUpdates
<1>2. SessionOK(t) /\ ~Inserts(t)
    BY IdleType DEF SessionOK, Inserts, Idle, Open
<1> QED BY <1>1, <1>2, Quiet

(* A step that touches its session only.                                   *)
LEMMA Local == ASSUME IInv, Sound', UNCHANGED <<rows, published, asked, overlapped>>
               PROVE  IInv'
BY DEF IInv, TypeOK, Sound, rows

LEMMA SessionFacts ==
    ASSUME IInv, NEW r \in Clients
    PROVE  /\ tx[r] \in Sessions /\ SessionOK(tx[r])
           /\ ~At(r, "idle") => tx[r].ask \in Workload
           /\ \A u \in Users : /\ users[u] \in UserRow \cup {None}
                               /\ profiles[u] \in Profile \cup {None}
                               /\ ManagerOf(u) \in Users \cup {None}
BY DEF IInv, TypeOK, Sound, SessionOK, At, ManagerOf, Profile

LEMMA AskKeeps ==
    ASSUME IInv, NEW r \in Clients, NEW q \in Workload, Ask(r, q)
    PROVE  IInv'
<1> DEFINE want == IF q.kind # "patch" /\ Parsed[q] # None THEN Parsed[q] ELSE Untouched
           label == IF q.kind # "patch" /\ Parsed[q] = None THEN "deny"
                    ELSE IF q.kind = "create" THEN "name" ELSE "load"
           t == [Idle EXCEPT !.ask = q, !.number = asked + 1, !.pc = label,
                             !.want = want, !.action = "failure", !.response = "400"]
<1>1. want \in Mutation
    BY ParsedType, IdleType DEF Sessions, Idle
<1>2. t \in Sessions
    <2> DEFINE t1 == [Idle EXCEPT !.ask = q]
               t2 == [t1 EXCEPT !.number = asked + 1]
               t3 == [t2 EXCEPT !.pc = label]
               t4 == [t3 EXCEPT !.want = want]
               t5 == [t4 EXCEPT !.action = "failure"]
               t6 == [t5 EXCEPT !.response = "400"]
    <2>1. t1 \in Sessions
        BY IdleType, FieldUpdates
    <2>2. t2 \in Sessions
        <3>1. asked + 1 \in Nat
            BY DEF IInv, TypeOK
        <3> HIDE DEF t1
        <3> QED BY <2>1, <3>1, FieldUpdates
    <2>3. t3 \in Sessions
        <3>1. label \in Labels
            BY DEF Labels
        <3> HIDE DEF t2, label
        <3> QED BY <2>2, <3>1, FieldUpdates
    <2>4. t4 \in Sessions
        <3> HIDE DEF t3, want
        <3> QED BY <1>1, <2>3, FieldUpdates
    <2>5. t5 \in Sessions
        <3> HIDE DEF t4
        <3> QED BY <2>4, FieldUpdates
    <2>6. t6 \in Sessions
        <3> HIDE DEF t5
        <3> QED BY <2>5, FieldUpdates
    <2>7. t = t6
        BY Zenon
    <2> QED BY <2>6, <2>7
<1>3. label = "name" => q.kind = "create" /\ \A a \in Core : want[a] \in Value
    BY CreationIsComplete
<1>4. SessionOK(t) /\ ~Inserts(t)
    BY <1>3, IdleType DEF SessionOK, Inserts, Idle, Open
<1>5. Update(r, t) /\ UNCHANGED <<users, profiles, drawn, audit, published>>
    BY DEF Ask, rows
<1>6. Sound'
    BY <1>2, <1>4, <1>5, Quiet
<1>7. asked' \in Nat /\ overlapped' \in BOOLEAN
    BY DEF Ask, IInv, TypeOK
<1> QED BY <1>5, <1>6, <1>7 DEF IInv, TypeOK, Sound

LEMMA LoadKeeps == ASSUME IInv, NEW r \in Clients, Load(r) PROVE IInv'
<1> DEFINE q == tx[r].ask
           label == IF Parsed[q]["userName"] = UNSET THEN "user" ELSE "name"
           t == [tx[r] EXCEPT !.target = q.target, !.loaded = users[q.target],
                              !.want = Parsed[q], !.pc = label]
<1>1. tx[r] \in Sessions /\ SessionOK(tx[r]) /\ q \in Workload /\ tx[r].pc = "load"
    BY SessionFacts DEF Load, At
<1>2. UNCHANGED <<users, profiles>>
    BY DEF Load, rows
<1>3. ASSUME Refuse(r, "404", "failure", None) PROVE Sound'
    BY <1>1, <1>2, <1>3, RefuseKeeps
<1>4. ASSUME Refuse(r, "400", "failure", q.target) PROVE Sound'
    BY <1>1, <1>2, <1>4, RefuseKeeps, ScimUsersAssumption
<1>5. ASSUME Exists(q.target), Parsed[q] # None, Update(r, t) PROVE Sound'
    <2>1. q.target \in Users /\ users[q.target] \in UserRow /\ users[q.target] # None
        BY <1>5, SessionFacts, ScimUsersAssumption DEF Exists
    <2>2. t \in Sessions
        <3> DEFINE t1 == [tx[r] EXCEPT !.target = q.target]
                   t2 == [t1 EXCEPT !.loaded = users[q.target]]
                   t3 == [t2 EXCEPT !.want = Parsed[q]]
                   t4 == [t3 EXCEPT !.pc = label]
        <3>1. t1 \in Sessions
            BY <1>1, <2>1, FieldUpdates
        <3>2. t2 \in Sessions
            <4> HIDE DEF t1
            <4> QED BY <2>1, <3>1, FieldUpdates
        <3>3. t3 \in Sessions
            <4>1. Parsed[q] \in Mutation
                BY <1>1, <1>5, ParsedType
            <4> HIDE DEF t2
            <4> QED BY <3>2, <4>1, FieldUpdates
        <3>4. t4 \in Sessions
            <4>1. label \in Labels
                BY DEF Labels
            <4> HIDE DEF t3, label
            <4> QED BY <3>3, <4>1, FieldUpdates
        <3>5. t = t4
            BY Zenon
        <3> QED BY <3>4, <3>5
    <2>3. t.pc \in {"user", "name"} /\ t.ask = q /\ t.loaded = users[q.target]
          /\ t.target = q.target /\ t.creates = tx[r].creates /\ t.changed = tx[r].changed
        BY <1>1 DEF Sessions
    <2>4. SessionOK(t) /\ ~Inserts(t)
        BY <1>1, <2>1, <2>3 DEF SessionOK, Inserts, Open
    <2> QED BY <1>2, <1>5, <2>2, <2>4, Quiet
<1>6. Sound'
    BY <1>3, <1>4, <1>5 DEF Load
<1> QED BY <1>6, Local DEF Load

LEMMA CheckNameKeeps == ASSUME IInv, NEW r \in Clients, CheckName(r) PROVE IInv'
<1> DEFINE t == [tx[r] EXCEPT !.pc = "user"]
<1>1. tx[r] \in Sessions /\ SessionOK(tx[r]) /\ tx[r].ask \in Workload /\ tx[r].pc = "name"
    BY SessionFacts DEF CheckName, At
<1>2. UNCHANGED <<users, profiles>>
    BY DEF CheckName, rows
<1>3. ASSUME NEW u \in Users, Refuse(r, "409", "failure", u) PROVE Sound'
    BY <1>1, <1>2, <1>3, RefuseKeeps
<1>4. ASSUME Goto(r, "user") PROVE Sound'
    <2>1. t \in Sessions
        BY <1>1, FieldUpdates DEF Labels
    <2>2. SessionOK(t) /\ ~Inserts(t)
        BY <1>1 DEF SessionOK, Inserts, Open, Sessions
    <2> QED BY <1>2, <1>4, <2>1, <2>2, Quiet DEF Goto
<1>5. Sound'
    BY <1>3, <1>4 DEF CheckName
<1> QED BY <1>5, Local DEF CheckName

LEMMA UserDraftType ==
    ASSUME IInv, NEW r \in Clients, At(r, "user")
    PROVE  /\ UserDraft(r) \in Drafts
           /\ tx[r].loaded = None => \A a \in Columns : UserDraft(r)[a] \in Value
<1> DEFINE d == UserDraft(r)
<1>1. /\ tx[r] \in Sessions /\ SessionOK(tx[r]) /\ tx[r].want \in Mutation
      /\ tx[r].loaded \in UserRow \cup {None}
    BY SessionFacts DEF Sessions
<1>2. tx[r].loaded = None <=> tx[r].ask.kind = "create"
    BY <1>1 DEF SessionOK, At
<1>3. CASE tx[r].loaded = None
    <2>1. \A a \in Core : tx[r].want[a] \in Value
        BY <1>1, <1>3 DEF SessionOK, At
    <2>2. d = [a \in Columns |-> IF a = "department" THEN Default ELSE tx[r].want[a]]
        BY <1>2, <1>3 DEF UserDraft, Want
    <2>3. \A a \in Columns : d[a] \in Value
        BY <2>1, <2>2, ScimUsersAssumption DEF Columns
    <2> QED BY <2>2, <2>3 DEF Drafts
<1>4. CASE tx[r].loaded # None
    <2>1. tx[r].loaded \in [Columns -> Value]
        BY <1>1, <1>4 DEF UserRow
    <2>2. \A a \in Core : tx[r].want[a] \in Value \cup {UNSET, UserName}
        BY <1>1, ScimUsersAssumption DEF Mutation, Core, Enterprise, Attributes
    <2>3. \A a \in Core : tx[r].want[a] # UNSET => CoreValue(r, a) \in Value
        BY <2>1, <2>2 DEF CoreValue, Want, Columns, Core
    <2>4. d = [a \in Columns |->
                 IF a = "department" \/ tx[r].want[a] = UNSET
                    \/ CoreValue(r, a) = tx[r].loaded[a]
                 THEN UNSET ELSE CoreValue(r, a)]
        BY <1>2, <1>4, Zenon DEF UserDraft, Want
    <2>5. \A a \in Columns : a # "department" => a \in Core
        BY DEF Columns
    <2>6. ASSUME NEW a \in Columns PROVE d[a] \in Value \cup {UNSET}
        BY <2>3, <2>4, <2>5
    <2> HIDE DEF d
    <2>7. d \in [Columns -> Value \cup {UNSET}]
        BY <2>4, <2>6
    <2> QED BY <1>4, <2>7 DEF Drafts, d
<1> QED BY <1>3, <1>4

LEMMA WriteUserKeeps == ASSUME IInv, NEW r \in Clients, WriteUser(r) PROVE IInv'
<1> DEFINE d == UserDraft(r)
           label == AfterUser(r)
           T(u) == [tx[r] EXCEPT !.pc = label, !.draft = d, !.target = u]
           t == [tx[r] EXCEPT !.pc = label, !.draft = d]
<1>1. tx[r] \in Sessions /\ SessionOK(tx[r]) /\ tx[r].ask \in Workload /\ tx[r].pc = "user"
    BY SessionFacts DEF WriteUser, At
<1>2. UNCHANGED <<users, profiles>>
    BY DEF WriteUser
<1>3. /\ d \in Drafts /\ (tx[r].loaded = None => \A a \in Columns : d[a] \in Value)
      /\ label \in {"commit", "profile"} /\ label \in Labels
    BY UserDraftType DEF WriteUser, AfterUser, Labels
<1> HIDE DEF d, label
<1>4. t \in Sessions
    <2> DEFINE t1 == [tx[r] EXCEPT !.pc = label]
               t2 == [t1 EXCEPT !.draft = d]
    <2>1. t1 \in Sessions
        BY <1>1, <1>3, FieldUpdates
    <2>2. t2 \in Sessions
        <3> HIDE DEF t1
        <3> QED BY <1>3, <2>1, FieldUpdates
    <2>3. t = t2
        BY Zenon
    <2> QED BY <2>2, <2>3
<1>5. /\ t.pc = label /\ t.draft = d /\ t.ask = tx[r].ask /\ t.loaded = tx[r].loaded
      /\ t.want = tx[r].want /\ t.target = tx[r].target
      /\ t.creates = tx[r].creates /\ t.changed = tx[r].changed
    BY <1>1 DEF Sessions
<1>6. ASSUME NEW u \in Users, tx[r].loaded = None, Update(r, T(u)) PROVE Sound'
    <2>1. T(u) = [t EXCEPT !.target = u]
        BY Zenon
    <2>2. T(u) \in Sessions
        <3> HIDE DEF t
        <3> QED BY <1>4, <2>1, FieldUpdates
    <2>3. /\ T(u).pc = label /\ T(u).draft = d /\ T(u).ask = tx[r].ask
          /\ T(u).loaded = tx[r].loaded /\ T(u).want = tx[r].want /\ T(u).target = u
          /\ T(u).creates = tx[r].creates /\ T(u).changed = tx[r].changed
        BY <1>1 DEF Sessions
    <2> HIDE DEF T, t
    <2>4. SessionOK(T(u)) /\ ~Inserts(T(u))
        BY <1>1, <1>3, <1>6, <2>3 DEF SessionOK, Inserts, Open
    <2> QED BY <1>2, <1>6, <2>2, <2>4, Quiet
<1>7. ASSUME tx[r].loaded # None, Update(r, t) PROVE Sound'
    <2> HIDE DEF t
    <2>1. SessionOK(t) /\ ~Inserts(t)
        BY <1>1, <1>3, <1>5, <1>7 DEF SessionOK, Inserts, Open
    <2> QED BY <1>2, <1>4, <1>7, <2>1, Quiet
<1>8. ASSUME Abort(r) PROVE Sound'
    BY <1>2, <1>8, ResetKeeps DEF Abort
<1>9. Sound'
    BY <1>6, <1>7, <1>8 DEF WriteUser, d, label
<1>10. drawn' \in SUBSET Users
    BY DEF WriteUser, IInv, TypeOK
<1> QED BY <1>9, <1>10 DEF WriteUser, IInv, TypeOK, Sound

LEMMA LoadProfileKeeps == ASSUME IInv, NEW r \in Clients, LoadProfile(r) PROVE IInv'
<1> DEFINE had == IF tx[r].loaded = None THEN None ELSE profiles[tx[r].target]
           label == IF had # None THEN "number"
                    ELSE IF \A a \in Desired(r) : Want(r)[a] = None THEN "commit"
                    ELSE "insert"
           t == [tx[r] EXCEPT !.had = had, !.pc = label]
<1>1. /\ tx[r] \in Sessions /\ SessionOK(tx[r]) /\ tx[r].ask \in Workload
      /\ tx[r].pc = "profile" /\ tx[r].target \in Users
    BY SessionFacts DEF LoadProfile, At, SessionOK, Open
<1>2. UNCHANGED <<users, profiles>>
    BY DEF LoadProfile, rows
<1>3. /\ had \in Profile \cup {None} /\ label \in Labels
      /\ label \in {"number", "commit", "insert"}
      /\ label = "number" => profiles[tx[r].target] # None
    BY <1>1, SessionFacts DEF Labels
<1> HIDE DEF had, label
<1>4. t \in Sessions
    <2> DEFINE t1 == [tx[r] EXCEPT !.had = had]
               t2 == [t1 EXCEPT !.pc = label]
    <2>1. t1 \in Sessions
        BY <1>1, <1>3, FieldUpdates
    <2>2. t2 \in Sessions
        <3> HIDE DEF t1
        <3> QED BY <1>3, <2>1, FieldUpdates
    <2>3. t = t2
        BY Zenon
    <2> QED BY <2>2, <2>3
<1>5. /\ t.pc = label /\ t.ask = tx[r].ask /\ t.loaded = tx[r].loaded
      /\ t.want = tx[r].want /\ t.target = tx[r].target /\ t.draft = tx[r].draft
      /\ t.creates = tx[r].creates /\ t.changed = tx[r].changed
    BY <1>1 DEF Sessions
<1>6. Update(r, t)
    BY Zenon DEF LoadProfile, had, label
<1> HIDE DEF t
<1>7. SessionOK(t) /\ ~Inserts(t)
    BY <1>1, <1>3, <1>5 DEF SessionOK, Inserts, Open
<1>8. Sound'
    BY <1>2, <1>4, <1>6, <1>7, Quiet
<1> QED BY <1>8, Local DEF LoadProfile

(* The insert waits for another session's insert of the same profile.      *)
LEMMA InsertProfileKeeps == ASSUME IInv, NEW r \in Clients, InsertProfile(r) PROVE IInv'
<1> DEFINE t == [tx[r] EXCEPT !.pc = "number", !.creates = TRUE]
<1>1. /\ tx[r] \in Sessions /\ SessionOK(tx[r]) /\ tx[r].ask \in Workload
      /\ tx[r].pc = "insert" /\ tx[r].target \in Users
    BY SessionFacts DEF InsertProfile, At, SessionOK, Open
<1>2. UNCHANGED <<users, profiles>>
    BY DEF InsertProfile, rows
<1>3. ASSUME Abort(r) PROVE Sound'
    BY <1>2, <1>3, ResetKeeps DEF Abort
<1>4. ASSUME profiles[tx[r].target] = None, Update(r, t) PROVE Sound'
    <2>1. t \in Sessions
        <3> DEFINE t1 == [tx[r] EXCEPT !.pc = "number"]
                   t2 == [t1 EXCEPT !.creates = TRUE]
        <3>1. t1 \in Sessions
            BY <1>1, FieldUpdates DEF Labels
        <3>2. t2 \in Sessions
            <4> HIDE DEF t1
            <4> QED BY <3>1, FieldUpdates
        <3>3. t = t2
            BY Zenon
        <3> QED BY <3>2, <3>3
    <2>2. /\ t.pc = "number" /\ t.ask = tx[r].ask /\ t.loaded = tx[r].loaded
          /\ t.want = tx[r].want /\ t.target = tx[r].target /\ t.draft = tx[r].draft
          /\ t.creates /\ t.changed = tx[r].changed
        BY <1>1 DEF Sessions
    <2> HIDE DEF t
    <2>3. SessionOK(t)
        BY <1>1, <2>2 DEF SessionOK, Open
    <2>4. /\ tx \in [Clients -> Sessions] /\ tx' = [tx EXCEPT ![r] = t]
          /\ tx' \in [Clients -> Sessions]
        BY <1>4, <2>1 DEF IInv, TypeOK, Update
    <2>5. tx'[r] = t /\ \A s \in Clients : s # r => tx'[s] = tx[s]
        BY <2>4
    <2>6. ASSUME NEW s \in Clients PROVE SessionOK(tx[s])'
        <3>1. SessionOK(tx'[s])
            BY <2>3, <2>5 DEF IInv, Sound
        <3> QED BY <1>2, <3>1 DEF SessionOK
    <2>7. ASSUME NEW s \in Clients, s # r, Inserts(tx[s])
          PROVE  tx[s].target # tx[r].target
        <3>1. s \in Others(r) /\ s \notin Waits(r)
            BY <2>7 DEF Inserts, Others, At, InsertProfile, Granted
        <3>2. ~WaitsAtInsert(r, s)
            BY <1>1, <3>1 DEF Waits, At
        <3> QED BY <2>7, <3>2 DEF WaitsAtInsert, Inserts
    <2>8. InsertedOnce'
        BY <1>1, <1>2, <1>4, <2>2, <2>5, <2>7 DEF IInv, Sound, InsertedOnce, Inserts
    <2> QED BY <2>4, <2>6, <2>8 DEF Sound
<1>5. Sound'
    BY <1>3, <1>4 DEF InsertProfile
<1> QED BY <1>5, Local DEF InsertProfile

(* Moving on to another statement.                                         *)
LEMMA GotoKeeps ==
    ASSUME IInv, NEW r \in Clients, NEW label \in Labels, Goto(r, label),
           SessionOK([tx[r] EXCEPT !.pc = label]), label # "publish",
           tx[r].pc # "publish", UNCHANGED <<users, profiles>>
    PROVE  Sound'
<1> DEFINE t == [tx[r] EXCEPT !.pc = label]
<1>1. tx[r] \in Sessions
    BY SessionFacts
<1>2. t \in Sessions
    BY <1>1, FieldUpdates
<1>3. Inserts(t) => Inserts(tx[r]) /\ t.target = tx[r].target
    BY <1>1 DEF Inserts, Sessions
<1> QED BY <1>2, <1>3, Quiet DEF Goto

LEMMA CheckNumberKeeps == ASSUME IInv, NEW r \in Clients, CheckNumber(r) PROVE IInv'
<1> DEFINE label == IF Want(r)["manager"] \in {UNSET, None} THEN "set" ELSE "manager"
           t == [tx[r] EXCEPT !.pc = label]
<1>1. /\ tx[r] \in Sessions /\ SessionOK(tx[r]) /\ tx[r].ask \in Workload
      /\ tx[r].pc = "number"
    BY SessionFacts DEF CheckNumber, At
<1>2. UNCHANGED <<users, profiles>>
    BY DEF CheckNumber, rows
<1>3. ASSUME NEW u \in Users, Refuse(r, "409", "enterprise_failure", u) PROVE Sound'
    BY <1>1, <1>2, <1>3, RefuseKeeps
<1>4. ASSUME Goto(r, label) PROVE Sound'
    <2>1. label \in {"set", "manager"} /\ label \in Labels
          /\ (label = "set" => tx[r].want["manager"] \in {UNSET, None})
        BY DEF Labels, Want
    <2> HIDE DEF label
    <2>2. SessionOK(t)
        BY <1>1, <2>1 DEF SessionOK, Open, Sessions
    <2> QED BY <1>1, <1>2, <1>4, <2>1, <2>2, GotoKeeps
<1>5. \A u \in Matches(r) : u \in Users
    BY DEF Matches
<1>6. Sound'
    BY <1>3, <1>4, <1>5 DEF CheckNumber
<1> QED BY <1>6, Local DEF CheckNumber

(* The refusals of the validation of a manager.                            *)
LEMMA ManagerRefused ==
    ASSUME IInv, NEW r \in Clients, tx[r].pc \in Open,
           Refuse(r, "400", "enterprise_failure", Culprit(r)), UNCHANGED <<users, profiles>>
    PROVE  Sound'
<1>1. tx[r].ask \in Workload /\ Culprit(r) \in Users \cup {None}
    BY SessionFacts DEF SessionOK, Open, At, Culprit
<1> QED BY <1>1, RefuseKeeps

LEMMA FindManagerKeeps == ASSUME IInv, NEW r \in Clients, FindManager(r) PROVE IInv'
<1> DEFINE m == Want(r)["manager"]
           t == [tx[r] EXCEPT !.pc = "walk", !.cur = m, !.seen = {m}]
<1>1. /\ tx[r] \in Sessions /\ SessionOK(tx[r]) /\ tx[r].ask \in Workload
      /\ tx[r].pc = "manager"
    BY SessionFacts DEF FindManager, At
<1>2. UNCHANGED <<users, profiles>>
    BY DEF FindManager, rows
<1>3. ASSUME Refuse(r, "400", "enterprise_failure", Culprit(r)) PROVE Sound'
    BY <1>1, <1>2, <1>3, ManagerRefused DEF Open
<1>4. ASSUME Exists(m), Update(r, t) PROVE Sound'
    <2>1. m \in Users /\ m = tx[r].want["manager"]
        BY <1>4 DEF Exists, Want
    <2> HIDE DEF m
    <2>2. t \in Sessions
        <3> DEFINE t1 == [tx[r] EXCEPT !.pc = "walk"]
                   t2 == [t1 EXCEPT !.cur = m]
                   t3 == [t2 EXCEPT !.seen = {m}]
        <3>1. t1 \in Sessions
            BY <1>1, FieldUpdates DEF Labels
        <3>2. t2 \in Sessions
            <4> HIDE DEF t1
            <4> QED BY <2>1, <3>1, FieldUpdates
        <3>3. t3 \in Sessions
            <4> HIDE DEF t2
            <4> QED BY <2>1, <3>2, FieldUpdates
        <3>4. t = t3
            BY Zenon
        <3> QED BY <3>3, <3>4
    <2>3. /\ t.pc = "walk" /\ t.cur = m /\ t.ask = tx[r].ask /\ t.loaded = tx[r].loaded
          /\ t.want = tx[r].want /\ t.target = tx[r].target /\ t.draft = tx[r].draft
          /\ t.creates = tx[r].creates /\ t.changed = tx[r].changed
        BY <1>1 DEF Sessions
    <2> HIDE DEF t
    <2>4. SessionOK(t)
        BY <1>1, <2>1, <2>3 DEF SessionOK, Open
    <2>5. Inserts(t) => Inserts(tx[r]) /\ t.target = tx[r].target
        BY <1>1, <2>3 DEF Inserts
    <2> QED BY <1>2, <1>4, <2>2, <2>4, <2>5, Quiet
<1>5. Sound'
    BY <1>3, <1>4 DEF FindManager
<1> QED BY <1>5, Local DEF FindManager

LEMMA WalkKeeps == ASSUME IInv, NEW r \in Clients, Walk(r) PROVE IInv'
<1> DEFINE next == ManagerOf(tx[r].cur)
           t == [tx[r] EXCEPT !.cur = next, !.seen = @ \cup {next}]
<1>1. /\ tx[r] \in Sessions /\ SessionOK(tx[r]) /\ tx[r].ask \in Workload
      /\ tx[r].pc = "walk" /\ tx[r].cur \in Users /\ tx[r].seen \in SUBSET Users
    BY SessionFacts DEF Walk, At, SessionOK, Sessions
<1>2. UNCHANGED <<users, profiles>>
    BY DEF Walk, rows
<1>3. ASSUME Refuse(r, "400", "enterprise_failure", Culprit(r)) PROVE Sound'
    BY <1>1, <1>2, <1>3, ManagerRefused DEF Open
<1>4. ASSUME Goto(r, "set") PROVE Sound'
    <2>1. SessionOK([tx[r] EXCEPT !.pc = "set"])
        BY <1>1 DEF SessionOK, Open, Sessions
    <2> QED BY <1>1, <1>2, <1>4, <2>1, GotoKeeps DEF Labels
<1>5. ASSUME next # None, Update(r, t) PROVE Sound'
    <2>1. next \in Users /\ tx[r].seen \cup {next} \in SUBSET Users
        BY <1>1, <1>5, SessionFacts
    <2> HIDE DEF next
    <2>2. t \in Sessions
        <3> DEFINE t1 == [tx[r] EXCEPT !.cur = next]
                   t2 == [t1 EXCEPT !.seen = tx[r].seen \cup {next}]
        <3>1. t1 \in Sessions
            BY <1>1, <2>1, FieldUpdates
        <3>2. t2 \in Sessions
            <4> HIDE DEF t1
            <4> QED BY <2>1, <3>1, FieldUpdates
        <3>3. t = t2
            BY <1>1 DEF Sessions
        <3> QED BY <3>2, <3>3
    <2>3. /\ t.pc = "walk" /\ t.cur = next /\ t.ask = tx[r].ask /\ t.loaded = tx[r].loaded
          /\ t.want = tx[r].want /\ t.target = tx[r].target /\ t.draft = tx[r].draft
          /\ t.creates = tx[r].creates /\ t.changed = tx[r].changed
        BY <1>1 DEF Sessions
    <2> HIDE DEF t
    <2>4. SessionOK(t)
        BY <1>1, <2>1, <2>3 DEF SessionOK, Open
    <2>5. Inserts(t) => Inserts(tx[r]) /\ t.target = tx[r].target
        BY <1>1, <2>3 DEF Inserts
    <2> QED BY <1>2, <1>5, <2>2, <2>4, <2>5, Quiet
<1>6. Sound'
    BY <1>3, <1>4, <1>5 DEF Walk
<1> QED BY <1>6, Local DEF Walk

LEMMA ProfileDraftType ==
    ASSUME IInv, NEW r \in Clients, At(r, "set")
    PROVE  /\ ProfileDraft(r) \in ProfileDrafts
           /\ DepartmentDraft(r) \in Value \cup {UNSET}
           /\ tx[r].loaded = None => DepartmentDraft(r) \in Value
<1> DEFINE d == ProfileDraft(r)
<1>1. /\ tx[r] \in Sessions /\ SessionOK(tx[r]) /\ tx[r].want \in Mutation
      /\ tx[r].draft \in [Columns -> Value \cup {UNSET}]
      /\ tx[r].want["manager"] \in Users \cup {None, UNSET}
    BY SessionFacts DEF Sessions, Drafts, SessionOK, At
<1>2. \A a \in Enterprise : tx[r].want[a] \in Value \cup {None, UNSET}
    BY <1>1, ScimUsersAssumption DEF Mutation, Enterprise, Attributes
<1>3. d = [a \in Enterprise |-> IF a \in Desired(r) /\ tx[r].want[a] # Had(r)[a]
                               THEN tx[r].want[a] ELSE UNSET]
    BY Zenon DEF ProfileDraft, Want
<1>4. d \in [Enterprise -> Value \cup {None, UNSET}]
      /\ \A a \in Enterprise : d[a] \in {tx[r].want[a], UNSET}
    BY <1>2, <1>3
<1> HIDE DEF d
<1>5. "manager" \in Enterprise /\ "department" \in Enterprise /\ "department" \in Columns
    BY DEF Enterprise, Columns
<1>6. d \in ProfileDrafts
    BY <1>1, <1>4, <1>5 DEF ProfileDrafts
<1>7. DepartmentDraft(r) \in Value \cup {tx[r].draft["department"]}
    <2>1. d["department"] \in Value \cup {None, UNSET}
        BY <1>4, <1>5
    <2> QED BY <2>1, ScimUsersAssumption DEF DepartmentDraft, d
<1>8. tx[r].loaded = None => tx[r].draft["department"] \in Value
    BY <1>1, <1>5 DEF SessionOK, At, Open
<1> QED BY <1>1, <1>5, <1>6, <1>7, <1>8 DEF d

LEMMA SetProfileKeeps == ASSUME IInv, NEW r \in Clients, SetProfile(r) PROVE IInv'
<1> DEFINE d == ProfileDraft(r)
           e == [tx[r].draft EXCEPT !["department"] = DepartmentDraft(r)]
           t == [tx[r] EXCEPT !.pc = "commit", !.changed = d,
                              !.draft = [@ EXCEPT !["department"] = DepartmentDraft(r)]]
<1>1. /\ tx[r] \in Sessions /\ SessionOK(tx[r]) /\ tx[r].ask \in Workload
      /\ tx[r].pc = "set"
    BY SessionFacts DEF SetProfile, At
<1>2. UNCHANGED <<users, profiles>>
    BY DEF SetProfile, rows
<1>3. /\ d \in ProfileDrafts /\ e \in Drafts
      /\ (tx[r].loaded = None => \A a \in Columns : e[a] \in Value)
    <2>1. tx[r].draft \in [Columns -> Value \cup {UNSET}]
        BY <1>1 DEF Sessions, Drafts
    <2>2. tx[r].loaded = None => \A a \in Columns : tx[r].draft[a] \in Value
        BY <1>1 DEF SessionOK, Open
    <2>3. /\ DepartmentDraft(r) \in Value \cup {UNSET}
          /\ tx[r].loaded = None => DepartmentDraft(r) \in Value
          /\ d \in ProfileDrafts
        BY ProfileDraftType DEF SetProfile
    <2> QED BY <2>1, <2>2, <2>3 DEF Drafts
<1>4. ASSUME Abort(r) PROVE Sound'
    BY <1>2, <1>4, ResetKeeps DEF Abort
<1>5. ASSUME Update(r, t) PROVE Sound'
    <2> HIDE DEF d, e
    <2>1. t \in Sessions
        <3> DEFINE t1 == [tx[r] EXCEPT !.pc = "commit"]
                   t2 == [t1 EXCEPT !.changed = d]
                   t3 == [t2 EXCEPT !.draft = e]
        <3>1. t1 \in Sessions
            BY <1>1, FieldUpdates DEF Labels
        <3>2. t2 \in Sessions
            <4> HIDE DEF t1
            <4> QED BY <1>3, <3>1, FieldUpdates
        <3>3. t3 \in Sessions
            <4> HIDE DEF t2
            <4> QED BY <1>3, <3>2, FieldUpdates
        <3>4. t = t3
            BY <1>1 DEF Sessions, e
        <3> QED BY <3>3, <3>4
    <2>2. /\ t.pc = "commit" /\ t.changed = d /\ t.draft = e
          /\ t.ask = tx[r].ask /\ t.loaded = tx[r].loaded
          /\ t.want = tx[r].want /\ t.target = tx[r].target /\ t.creates = tx[r].creates
        BY <1>1 DEF Sessions, e
    <2> HIDE DEF t
    <2>3. SessionOK(t)
        BY <1>1, <1>3, <2>2 DEF SessionOK, Open
    <2>4. Inserts(t) => Inserts(tx[r]) /\ t.target = tx[r].target
        BY <1>1, <2>2 DEF Inserts
    <2> QED BY <1>2, <1>5, <2>1, <2>3, <2>4, Quiet
<1>6. Sound'
    BY <1>4, <1>5 DEF SetProfile
<1> QED BY <1>6, Local DEF SetProfile

LEMMA PublishKeeps == ASSUME IInv, NEW r \in Clients, Publish(r) PROVE IInv'
<1>1. Sound'
    BY ResetKeeps DEF Publish, rows
<1>2. tx[r].number \in Nat
    BY SessionFacts DEF Sessions
<1>3. \A p \in published' : p.number \in Nat
    BY <1>2 DEF Publish, IInv, TypeOK
<1> QED BY <1>1, <1>3 DEF Publish, rows, IInv, TypeOK, Sound

LEMMA DenyKeeps == ASSUME IInv, NEW r \in Clients, Deny(r) PROVE IInv'
<1>1. /\ tx[r].number \in Nat /\ tx[r].blame \in Users \cup {None}
      /\ tx[r].action \in {"none", "failure", "enterprise_failure"}
      /\ tx[r].response \in {"none", "ok", "400", "404", "409", "500"}
    BY SessionFacts DEF Sessions
<1>2. Sound'
    BY <1>1, ResetKeeps DEF Deny
<1>3. \A e \in audit' : e \in Entries
    BY <1>1 DEF Deny, Entries, IInv, TypeOK
<1> QED BY <1>2, <1>3 DEF Deny, IInv, TypeOK, Sound

LEMMA AbortsKeep ==
    ASSUME IInv, NEW r \in Clients, Aborts(r) PROVE IInv'
<1>1. Sound'
    BY ResetKeeps DEF Aborts, Fail, BreakDeadlock, Abort, rows
<1> QED BY <1>1, Local DEF Aborts, Fail, BreakDeadlock

(* The rows a commit writes.                                               *)
LEMMA CommittedRows ==
    ASSUME IInv, NEW r \in Clients, Commit(r)
    PROVE  LET u == tx[r].target IN
           /\ u \in Users
           /\ users' = [users EXCEPT ![u] = Written(@, tx[r].draft)]
           /\ Written(users[u], tx[r].draft) \in UserRow
           /\ Changes(r) = {} <=> tx[r].changed = Unwritten
           /\ IF ~tx[r].creates /\ Changes(r) = {} THEN profiles' = profiles
              ELSE LET p == Written(IF tx[r].creates THEN NoProfile ELSE profiles[u],
                                    tx[r].changed)
                   IN  /\ profiles' = [profiles EXCEPT ![u] = p] /\ p \in Profile
                       /\ tx[r].creates <=> profiles[u] = None
<1> DEFINE u == tx[r].target
           old == IF tx[r].creates THEN NoProfile ELSE profiles[u]
           p == Written(old, tx[r].changed)
<1>1. /\ tx[r] \in Sessions /\ SessionOK(tx[r]) /\ tx[r].pc = "commit" /\ u \in Users
      /\ tx[r].draft \in [Columns -> Value \cup {UNSET}]
      /\ tx[r].changed \in ProfileDrafts
      /\ users[u] \in UserRow \cup {None} /\ profiles[u] \in Profile \cup {None}
    BY SessionFacts DEF Commit, At, SessionOK, Open, Sessions, Drafts
<1>2. Written(users[u], tx[r].draft) \in UserRow
    <2>1. tx[r].loaded # None => users[u] \in [Columns -> Value]
        BY <1>1 DEF SessionOK, Open, UserRow
    <2>2. tx[r].loaded = None => \A a \in Columns : tx[r].draft[a] \in Value
        BY <1>1 DEF SessionOK, Open
    <2>3. DOMAIN tx[r].draft = Columns
        BY <1>1
    <2>4. ASSUME NEW a \in Columns
          PROVE  (IF tx[r].draft[a] = UNSET THEN users[u][a] ELSE tx[r].draft[a]) \in Value
        BY <1>1, <2>1, <2>2, ScimUsersAssumption
    <2> QED BY <2>3, <2>4 DEF Written, UserRow
<1>3. Changes(r) = {} <=> tx[r].changed = Unwritten
    <2>1. tx[r].changed = [a \in Enterprise |-> tx[r].changed[a]]
        BY <1>1 DEF ProfileDrafts
    <2> QED BY <2>1 DEF Changes, Unwritten
<1>4. ASSUME tx[r].creates \/ Changes(r) # {}
      PROVE  p \in Profile /\ (tx[r].creates <=> profiles[u] = None)
    <2>1. tx[r].creates <=> profiles[u] = None
        BY <1>1, <1>3, <1>4 DEF SessionOK, IInv, Sound, InsertedOnce, Inserts
    <2>2. old \in [Enterprise -> Value \cup {None}] /\ old["manager"] \in Users \cup {None}
        BY <1>1, <2>1 DEF Profile, NoProfile, Enterprise
    <2>3. /\ tx[r].changed \in [Enterprise -> Value \cup {None, UNSET}]
          /\ tx[r].changed["manager"] \in Users \cup {None, UNSET}
        BY <1>1 DEF ProfileDrafts
    <2> HIDE DEF old
    <2>4. p = [a \in Enterprise |-> IF tx[r].changed[a] = UNSET THEN old[a]
                                   ELSE tx[r].changed[a]]
        BY <2>3 DEF Written
    <2>5. p \in [Enterprise -> Value \cup {None}]
        BY <2>2, <2>3, <2>4
    <2>6. "manager" \in Enterprise
        BY DEF Enterprise
    <2>7. p["manager"] \in Users \cup {None}
        BY <2>2, <2>3, <2>4, <2>6
    <2> QED BY <2>1, <2>5, <2>7 DEF Profile
<1> QED BY <1>1, <1>2, <1>3, <1>4 DEF Commit

LEMMA CommitKeeps == ASSUME IInv, NEW r \in Clients, Commit(r) PROVE IInv'
<1> DEFINE u == tx[r].target
           t == [tx[r] EXCEPT !.pc = "publish"]
<1>1. /\ tx[r] \in Sessions /\ SessionOK(tx[r]) /\ tx[r].ask \in Workload
      /\ tx[r].pc = "commit"
    BY SessionFacts DEF Commit, At
<1>2. /\ u \in Users
      /\ users' \in [Users -> UserRow \cup {None}] /\ profiles' \in [Users -> Profile \cup {None}]
      /\ \A v \in Users : /\ users[v] # None => users'[v] # None
                          /\ profiles[v] # None => profiles'[v] # None
                          /\ v # u => profiles'[v] = profiles[v]
      /\ ~tx[r].creates /\ profiles[u] = None => profiles' = profiles
    BY CommittedRows, ScimUsersAssumption DEF IInv, TypeOK
<1>3. t \in Sessions /\ SessionOK(t) /\ ~Inserts(t)
    <2>1. t \in Sessions
        BY <1>1, FieldUpdates DEF Labels
    <2>2. t.pc = "publish" /\ t.ask = tx[r].ask
        BY <1>1 DEF Sessions
    <2> HIDE DEF t
    <2> QED BY <1>1, <2>1, <2>2 DEF SessionOK, Inserts, Open
<1>4. /\ tx \in [Clients -> Sessions] /\ tx' = [tx EXCEPT ![r] = t]
      /\ tx' \in [Clients -> Sessions]
    BY <1>3 DEF IInv, TypeOK, Commit, Goto, Update
<1>5. tx'[r] = t /\ \A s \in Clients : s # r => tx'[s] = tx[s]
    BY <1>4
<1> HIDE DEF t
<1>6. ASSUME NEW s \in Clients PROVE SessionOK(tx[s])'
    <2>1. CASE s = r
        BY <1>2, <1>3, <1>5, <2>1, ScimUsersAssumption DEF SessionOK, Open
    <2>2. CASE s # r
        <3>1. tx'[s] = tx[s] /\ SessionOK(tx[s]) /\ tx[s] \in Sessions
            BY <1>5, <2>2, SessionFacts
        <3> QED BY <1>2, <3>1 DEF SessionOK, Open, Sessions
    <2> QED BY <2>1, <2>2
<1>7. InsertedOnce'
    <2>1. ASSUME NEW s \in Clients, Inserts(tx[s])'
          PROVE  /\ s # r /\ Inserts(tx[s]) /\ tx'[s].target = tx[s].target
                 /\ tx[s].target \in Users
                 /\ profiles'[tx[s].target] = None
        <3>1. s # r /\ Inserts(tx[s]) /\ tx'[s] = tx[s]
            BY <1>3, <1>5, <2>1 DEF Inserts
        <3>2. /\ tx[s].target \in Users /\ profiles[tx[s].target] = None
              /\ tx[r].creates => tx[s].target # u
            BY <1>1, <3>1 DEF IInv, Sound, InsertedOnce, Inserts
        <3> QED BY <1>2, <3>1, <3>2
    <2> QED BY <2>1 DEF IInv, Sound, InsertedOnce
<1>8. \A e \in audit' : e \in Entries
    <2>1. Entry(r) \in Entries
        <3>1. tx[r].number \in Nat /\ Changes(r) \in SUBSET Enterprise
            BY <1>1 DEF Changes, Sessions
        <3>2. UserAction(r) \in {"create", "update", "deactivate"}
            BY DEF UserAction
        <3> QED BY <1>2, <3>1, <3>2 DEF Entry, Entries
    <2> QED BY <2>1 DEF Commit, IInv, TypeOK
<1> QED BY <1>2, <1>4, <1>6, <1>7, <1>8 DEF Commit, IInv, TypeOK, Sound

-----------------------------------------------------------------------------
LEMMA InitIInv == Init => IInv
<1> SUFFICES ASSUME Init PROVE IInv
    OBVIOUS
<1>1. tx \in [Clients -> Sessions] /\ \A r \in Clients : SessionOK(tx[r]) /\ ~Inserts(tx[r])
    BY IdleType DEF Init
<1>2. TypeOK
    BY <1>1, ScimUsersAssumption DEF Init, TypeOK
<1> QED BY <1>1, <1>2 DEF IInv, Sound, InsertedOnce

LEMMA NextIInv == IInv /\ [Next]_vars => IInv'
<1> SUFFICES ASSUME IInv, [Next]_vars PROVE IInv'
    OBVIOUS
<1>1. ASSUME NEW r \in Clients, NEW q \in Workload, Ask(r, q) PROVE IInv'
    BY <1>1, AskKeeps
<1>2. ASSUME NEW r \in Clients, Moves(r) PROVE IInv'
    BY <1>2, LoadKeeps, CheckNameKeeps, WriteUserKeeps, LoadProfileKeeps,
       InsertProfileKeeps, CheckNumberKeeps, FindManagerKeeps, WalkKeeps,
       SetProfileKeeps, CommitKeeps, PublishKeeps, DenyKeeps, AbortsKeep
    DEF Moves, Step, Aborts
<1>3. CASE UNCHANGED vars
    BY <1>3 DEF vars, IInv, TypeOK, Sound, SessionOK, InsertedOnce, Inserts
<1> QED BY <1>1, <1>2, <1>3 DEF Next, Moves

LEMMA IInvHolds == Spec => []IInv
BY InitIInv, NextIInv, PTL DEF Spec

(***************************************************************************)
(* Whatever requests overlap, the tables hold rows of their types: no      *)
(* update is applied to a row that is not there.                           *)
(***************************************************************************)
THEOREM TypeCorrect == Spec => []TypeOK
<1>1. IInv => TypeOK
    BY DEF IInv
<1> QED BY <1>1, IInvHolds, PTL

-----------------------------------------------------------------------------
LEMMA QuietSerial ==
    ASSUME IInv, Serial, ~overlapped, NEW r \in Clients, NEW t \in Sessions,
           Update(r, t), UNCHANGED <<users, profiles>>,
           Busy(r) \/ t.pc = "idle", drawn \subseteq drawn', WalkOK(t), SnapshotOK(t),
           t.pc \in Open => t.target \in drawn'
    PROVE  Serial'
<1>1. /\ Alone /\ TargetsDrawn /\ Acyclic /\ DepartmentsAgree /\ ProfilesHaveUsers
      /\ \A s \in Clients : WalkOK(tx[s]) /\ SnapshotOK(tx[s])
    BY DEF Serial
<1>2. tx'[r] = t /\ \A s \in Clients : s # r => tx'[s] = tx[s]
    BY DEF IInv, TypeOK, Update
<1>3. Alone'
    BY <1>1, <1>2 DEF Alone, Busy, At
<1>4. Acyclic' /\ (\A v \in Users : ManagerOf(v)' = ManagerOf(v))
    BY <1>1 DEF Acyclic, ManagerOf
<1>5. DepartmentsAgree' /\ ProfilesHaveUsers'
    BY <1>1 DEF DepartmentsAgree, ProfilesHaveUsers
<1>6. ASSUME NEW s \in Clients PROVE WalkOK(tx[s])'
    <2>1. WalkOK(tx'[s])
        BY <1>1, <1>2
    <2>2. tx'[s] \in Sessions
        BY <1>2 DEF IInv, TypeOK
    <2> QED BY <1>4, <2>1, <2>2 DEF WalkOK, Vetted
<1>7. ASSUME NEW s \in Clients PROVE SnapshotOK(tx[s])'
    <2>1. SnapshotOK(tx'[s])
        BY <1>1, <1>2
    <2> QED BY <2>1 DEF SnapshotOK
<1>8. TargetsDrawn'
    BY <1>1, <1>2 DEF TargetsDrawn
<1> QED BY <1>3, <1>4, <1>5, <1>6, <1>7, <1>8 DEF Serial

(* A session that has ended, or been refused.                              *)
LEMMA OverSerial ==
    ASSUME IInv, Serial, ~overlapped, NEW r \in Clients, NEW t \in Sessions,
           Update(r, t), UNCHANGED <<users, profiles>>, drawn \subseteq drawn',
           \/ t.pc = "idle"
           \/ Busy(r) /\ t.pc = "deny"
    PROVE  Serial'
<1>1. WalkOK(t) /\ SnapshotOK(t) /\ t.pc \notin Open
    BY DEF WalkOK, SnapshotOK, Open
<1> QED BY <1>1, QuietSerial

LEMMA ResetSerial ==
    ASSUME IInv, Serial, ~overlapped, NEW r \in Clients,
           NEW status \in {"none", "ok", "400", "404", "409", "500"},
           Update(r, [Idle EXCEPT !.response = status]), UNCHANGED <<users, profiles>>,
           drawn \subseteq drawn'
    PROVE  Serial'
<1> DEFINE t == [Idle EXCEPT !.response = status]
<1>1. t.pc = "idle"
    BY DEF Idle
<1>2. t \in Sessions
    BY IdleType, FieldUpdates
<1> QED BY <1>1, <1>2, OverSerial

LEMMA RefuseSerial ==
    ASSUME IInv, Serial, ~overlapped, NEW r \in Clients, Busy(r), tx[r].ask \in Workload,
           NEW status \in {"400", "404", "409"},
           NEW act \in {"failure", "enterprise_failure"}, NEW u \in Users \cup {None},
           Refuse(r, status, act, u), UNCHANGED <<users, profiles, drawn>>
    PROVE  Serial'
<1> DEFINE t == [Idle EXCEPT !.pc = "deny", !.ask = tx[r].ask, !.number = tx[r].number,
                             !.action = act, !.blame = u, !.response = status]
<1>1. t.pc = "deny" /\ Update(r, t)
    BY DEF Idle, Refuse
<1>2. tx'[r] = t /\ Sound'
    BY <1>1, RefuseKeeps DEF IInv, TypeOK, Update
<1>3. t \in Sessions
    BY <1>2 DEF Sound
<1> HIDE DEF t
<1> QED BY <1>1, <1>3, OverSerial

(* Of the requests, only the one in hand has a session.                    *)
LEMMA AskSerial ==
    ASSUME IInv, Serial, NEW r \in Clients, NEW q \in Workload, Ask(r, q)
    PROVE  Serial'
<1> SUFFICES ASSUME ~overlapped' PROVE Serial'
    BY DEF Serial
<1>1. /\ ~overlapped /\ UNCHANGED <<users, profiles, drawn>>
      /\ \A s \in Clients : s # r => ~Busy(s)
      /\ \A s \in Clients : s # r => tx'[s] = tx[s]
    BY DEF Ask, Update, IInv, TypeOK, rows
<1>2. /\ tx'[r].pc \in {"deny", "name", "load"} /\ tx'[r].loaded = None
      /\ tx'[r].changed = Unwritten
    BY DEF Ask, Update, IInv, TypeOK, Idle
<1>3. Acyclic' /\ (\A v \in Users : ManagerOf(v)' = ManagerOf(v))
    BY <1>1 DEF Serial, Acyclic, ManagerOf
<1>4. DepartmentsAgree' /\ ProfilesHaveUsers'
    BY <1>1 DEF Serial, DepartmentsAgree, ProfilesHaveUsers
<1>5. Alone'
    BY <1>1 DEF Alone, Busy, At
<1>6. ASSUME NEW s \in Clients PROVE (WalkOK(tx[s]) /\ SnapshotOK(tx[s]))'
    <2>1. tx'[s].pc \in {"idle", "deny", "name", "load"} /\ (s = r => tx'[s].loaded = None)
        BY <1>1, <1>2 DEF Busy, At
    <2>2. s # r => tx'[s].pc = "idle"
        BY <1>1 DEF Busy, At
    <2> QED BY <2>1, <2>2 DEF WalkOK, SnapshotOK, Open
<1>7. TargetsDrawn'
    BY <1>1, <1>2 DEF TargetsDrawn, Busy, At, Open
<1> QED BY <1>3, <1>4, <1>5, <1>6, <1>7 DEF Serial

(* What the one request in hand relies on.                                 *)
LEMMA SerialFacts ==
    ASSUME IInv, Serial, ~overlapped, NEW r \in Clients
    PROVE  /\ tx[r] \in Sessions /\ SessionOK(tx[r])
           /\ WalkOK(tx[r]) /\ SnapshotOK(tx[r])
           /\ Alone /\ Acyclic /\ DepartmentsAgree /\ ProfilesHaveUsers
           /\ tx[r].pc \in Open => tx[r].target \in drawn
BY SessionFacts DEF Serial, TargetsDrawn

LEMMA GotoSerial ==
    ASSUME IInv, Serial, ~overlapped, NEW r \in Clients, NEW label \in Labels,
           Goto(r, label), Busy(r), UNCHANGED <<users, profiles, drawn>>,
           WalkOK([tx[r] EXCEPT !.pc = label]), SnapshotOK([tx[r] EXCEPT !.pc = label]),
           label \in Open => tx[r].target \in drawn
    PROVE  Serial'
<1> DEFINE t == [tx[r] EXCEPT !.pc = label]
<1>1. t \in Sessions
    BY SessionFacts, FieldUpdates
<1>2. t.pc = label /\ t.target = tx[r].target
    BY SessionFacts DEF Sessions
<1> HIDE DEF t
<1>3. Update(r, t) /\ WalkOK(t) /\ SnapshotOK(t) /\ (t.pc \in Open => t.target \in drawn')
    BY <1>2 DEF Goto, t
<1> QED BY <1>1, <1>2, <1>3, QuietSerial

LEMMA LoadSerial ==
    ASSUME IInv, Serial, ~overlapped, NEW r \in Clients, Load(r) PROVE Serial'
<1> DEFINE q == tx[r].ask
           label == IF Parsed[q]["userName"] = UNSET THEN "user" ELSE "name"
           t == [tx[r] EXCEPT !.target = q.target, !.loaded = users[q.target],
                              !.want = Parsed[q], !.pc = label]
<1>1. tx[r] \in Sessions /\ SessionOK(tx[r]) /\ q \in Workload /\ tx[r].pc = "load" /\ Busy(r)
    BY SessionFacts DEF Load, At, Busy
<1>2. UNCHANGED <<users, profiles, drawn>>
    BY DEF Load, rows
<1>3. ASSUME Refuse(r, "404", "failure", None) PROVE Serial'
    BY <1>1, <1>2, <1>3, RefuseSerial
<1>4. ASSUME Refuse(r, "400", "failure", q.target) PROVE Serial'
    BY <1>1, <1>2, <1>4, RefuseSerial, ScimUsersAssumption
<1>5. ASSUME Exists(q.target), Parsed[q] # None, Update(r, t) PROVE Serial'
    <2>1. /\ t.pc \in {"user", "name"} /\ t.loaded = users[t.target]
        BY <1>1 DEF Sessions
    <2>2. WalkOK(t) /\ SnapshotOK(t) /\ t.pc \notin Open
        <3> HIDE DEF t
        <3> QED BY <2>1 DEF WalkOK, SnapshotOK, Open
    <2>3. tx'[r] = t /\ IInv'
        BY <1>5, LoadKeeps DEF IInv, TypeOK, Update
    <2>4. t \in Sessions
        BY <2>3 DEF IInv, TypeOK
    <2> HIDE DEF t
    <2> QED BY <1>1, <1>2, <1>5, <2>2, <2>4, QuietSerial
<1> QED BY <1>3, <1>4, <1>5 DEF Load

LEMMA CheckNameSerial ==
    ASSUME IInv, Serial, ~overlapped, NEW r \in Clients, CheckName(r) PROVE Serial'
<1>1. /\ tx[r] \in Sessions /\ SessionOK(tx[r]) /\ tx[r].ask \in Workload
      /\ tx[r].pc = "name" /\ Busy(r) /\ SnapshotOK(tx[r])
    BY SerialFacts, SessionFacts DEF CheckName, At, Busy
<1>2. UNCHANGED <<users, profiles, drawn>>
    BY DEF CheckName, rows
<1>3. ASSUME NEW u \in Users, Refuse(r, "409", "failure", u) PROVE Serial'
    BY <1>1, <1>2, <1>3, RefuseSerial
<1>4. ASSUME Goto(r, "user") PROVE Serial'
    <2> DEFINE t == [tx[r] EXCEPT !.pc = "user"]
    <2>1. WalkOK(t) /\ SnapshotOK(t)
        BY <1>1 DEF WalkOK, SnapshotOK, Open, Sessions
    <2> QED BY <1>1, <1>2, <1>4, <2>1, GotoSerial DEF Open, Labels
<1> QED BY <1>3, <1>4 DEF CheckName

LEMMA WriteUserSerial ==
    ASSUME IInv, Serial, ~overlapped, NEW r \in Clients, WriteUser(r) PROVE Serial'
<1> DEFINE d == UserDraft(r)
           label == AfterUser(r)
           T(u) == [tx[r] EXCEPT !.pc = label, !.draft = d, !.target = u]
           t == [tx[r] EXCEPT !.pc = label, !.draft = d]
<1>1. /\ tx[r] \in Sessions /\ SessionOK(tx[r]) /\ tx[r].ask \in Workload
      /\ tx[r].pc = "user" /\ Busy(r) /\ SnapshotOK(tx[r]) /\ ProfilesHaveUsers
      /\ tx[r].changed = Unwritten
    BY SerialFacts, SessionFacts DEF WriteUser, At, Busy, SessionOK
<1>2. UNCHANGED <<users, profiles>> /\ drawn \subseteq drawn'
    BY DEF WriteUser
<1>3. /\ d["department"] = IF tx[r].loaded = None THEN Default ELSE UNSET
      /\ label \in {"commit", "profile"}
    <2>1. tx[r].loaded = None <=> tx[r].ask.kind = "create"
        BY <1>1 DEF SessionOK
    <2> QED BY <2>1 DEF UserDraft, AfterUser, Columns
<1>4. Unwritten["manager"] = UNSET /\ Unwritten["department"] = UNSET
      /\ UNSET \notin Users /\ UNSET \notin Value
    BY ScimUsersAssumption DEF Unwritten, Enterprise
<1>5. IInv'
    BY WriteUserKeeps
<1> HIDE DEF d, label
<1>6. ASSUME NEW u \in Users \ drawn, drawn' = drawn \cup {u}, tx[r].loaded = None,
             Update(r, T(u))
      PROVE  Serial'
    <2>1. /\ T(u).pc = label /\ T(u).draft = d /\ T(u).target = u
          /\ T(u).loaded = None /\ T(u).changed = Unwritten
        BY <1>1, <1>6 DEF Sessions
    <2>2. T(u) \in Sessions
        BY <1>5, <1>6 DEF IInv, TypeOK, Update
    <2> HIDE DEF T
    <2>3. users[u] = None /\ Default # UNSET
        BY <1>1, <1>4, ScimUsersAssumption DEF ProfilesHaveUsers
    <2>4. WalkOK(T(u))
        BY <1>3, <1>4, <2>1 DEF WalkOK
    <2>5. SnapshotOK(T(u))
        BY <1>3, <1>4, <1>6, <2>1, <2>3 DEF SnapshotOK, Open
    <2> QED BY <1>1, <1>2, <1>6, <2>1, <2>2, <2>4, <2>5, QuietSerial
<1>7. ASSUME tx[r].loaded # None, Update(r, t) PROVE Serial'
    <2>1. /\ t.pc = label /\ t.draft = d /\ t.target = tx[r].target
          /\ t.loaded = tx[r].loaded /\ t.changed = Unwritten
        BY <1>1 DEF Sessions
    <2>2. t \in Sessions
        BY <1>5, <1>7 DEF IInv, TypeOK, Update
    <2>3. t.target \in drawn /\ tx[r].loaded = users[tx[r].target]
        BY <1>1, <1>7, <2>1 DEF SessionOK, SnapshotOK, ProfilesHaveUsers
    <2> HIDE DEF t
    <2>4. WalkOK(t) /\ SnapshotOK(t)
        BY <1>3, <1>4, <1>7, <2>1, <2>3 DEF WalkOK, SnapshotOK, Open
    <2> QED BY <1>1, <1>2, <1>7, <2>1, <2>2, <2>3, <2>4, QuietSerial
<1>8. ASSUME Abort(r) PROVE Serial'
    BY <1>2, <1>8, ResetSerial DEF Abort
<1> QED BY <1>6, <1>7, <1>8 DEF WriteUser, d, label

LEMMA LoadProfileSerial ==
    ASSUME IInv, Serial, ~overlapped, NEW r \in Clients, LoadProfile(r) PROVE Serial'
<1> DEFINE had == IF tx[r].loaded = None THEN None ELSE profiles[tx[r].target]
           label == IF had # None THEN "number"
                    ELSE IF \A a \in Desired(r) : Want(r)[a] = None THEN "commit"
                    ELSE "insert"
           t == [tx[r] EXCEPT !.had = had, !.pc = label]
<1>1. /\ tx[r] \in Sessions /\ SessionOK(tx[r]) /\ tx[r].pc = "profile" /\ Busy(r)
      /\ SnapshotOK(tx[r]) /\ tx[r].target \in drawn /\ ~tx[r].creates
      /\ tx[r].changed = Unwritten
    BY SerialFacts DEF LoadProfile, At, Busy, SessionOK, Open
<1>2. UNCHANGED <<users, profiles, drawn>>
    BY DEF LoadProfile, rows
<1>3. /\ label \in {"number", "commit", "insert"}
      /\ label = "number" => had = profiles[tx[r].target]
      /\ label = "insert" => had = None
    OBVIOUS
<1>4. Update(r, t)
    BY Zenon DEF LoadProfile
<1>5. Unwritten["manager"] = UNSET /\ Unwritten["department"] = UNSET
      /\ UNSET \notin Users /\ UNSET \notin Value
    BY ScimUsersAssumption DEF Unwritten, Enterprise
<1> HIDE DEF had, label
<1>6. /\ t.pc = label /\ t.had = had /\ t.loaded = tx[r].loaded /\ t.draft = tx[r].draft
      /\ t.target = tx[r].target /\ t.creates = tx[r].creates /\ t.changed = tx[r].changed
    BY <1>1 DEF Sessions
<1>7. t \in Sessions
    BY <1>4, LoadProfileKeeps DEF IInv, TypeOK, Update
<1> HIDE DEF t
<1>8. WalkOK(t)
    BY <1>1, <1>3, <1>5, <1>6 DEF WalkOK
<1>9. SnapshotOK(t)
    BY <1>1, <1>3, <1>5, <1>6 DEF SnapshotOK, Open
<1> QED BY <1>1, <1>2, <1>4, <1>6, <1>7, <1>8, <1>9, QuietSerial

LEMMA InsertProfileSerial ==
    ASSUME IInv, Serial, ~overlapped, NEW r \in Clients, InsertProfile(r) PROVE Serial'
<1> DEFINE t == [tx[r] EXCEPT !.pc = "number", !.creates = TRUE]
<1>1. /\ tx[r] \in Sessions /\ tx[r].pc = "insert" /\ Busy(r)
      /\ SnapshotOK(tx[r]) /\ tx[r].target \in drawn
    BY SerialFacts DEF InsertProfile, At, Busy, Open
<1>2. UNCHANGED <<users, profiles, drawn>>
    BY DEF InsertProfile, rows
<1>3. ASSUME Abort(r) PROVE Serial'
    BY <1>2, <1>3, ResetSerial DEF Abort
<1>4. ASSUME Update(r, t) PROVE Serial'
    <2>1. /\ t.pc = "number" /\ t.had = tx[r].had /\ t.loaded = tx[r].loaded /\ t.creates
          /\ t.target = tx[r].target /\ t.draft = tx[r].draft
        BY <1>1 DEF Sessions
    <2>2. t \in Sessions
        BY <1>4, InsertProfileKeeps DEF IInv, TypeOK, Update
    <2> HIDE DEF t
    <2>3. WalkOK(t) /\ SnapshotOK(t)
        BY <1>1, <2>1 DEF WalkOK, SnapshotOK, Open
    <2> QED BY <1>1, <1>2, <1>4, <2>1, <2>2, <2>3, QuietSerial
<1> QED BY <1>3, <1>4 DEF InsertProfile

LEMMA CheckNumberSerial ==
    ASSUME IInv, Serial, ~overlapped, NEW r \in Clients, CheckNumber(r) PROVE Serial'
<1> DEFINE label == IF Want(r)["manager"] \in {UNSET, None} THEN "set" ELSE "manager"
           t == [tx[r] EXCEPT !.pc = label]
<1>1. /\ tx[r] \in Sessions /\ tx[r].ask \in Workload /\ tx[r].pc = "number" /\ Busy(r)
      /\ SnapshotOK(tx[r]) /\ tx[r].target \in drawn
    BY SerialFacts, SessionFacts DEF CheckNumber, At, Busy, Open
<1>2. UNCHANGED <<users, profiles, drawn>>
    BY DEF CheckNumber, rows
<1>3. ASSUME NEW u \in Users, Refuse(r, "409", "enterprise_failure", u) PROVE Serial'
    BY <1>1, <1>2, <1>3, RefuseSerial
<1>4. ASSUME Goto(r, label) PROVE Serial'
    <2>1. label \in {"set", "manager"} /\ label \in Labels
          /\ (label = "set" => tx[r].want["manager"] \notin Users)
        BY ScimUsersAssumption DEF Labels, Want
    <2> HIDE DEF label
    <2>2. WalkOK(t)
        BY <1>1, <2>1 DEF WalkOK, Sessions
    <2>3. SnapshotOK(t)
        BY <1>1, <2>1 DEF SnapshotOK, Open, Sessions
    <2> QED BY <1>1, <1>2, <1>4, <2>1, <2>2, <2>3, GotoSerial
<1>5. \A u \in Matches(r) : u \in Users
    BY DEF Matches
<1> QED BY <1>3, <1>4, <1>5 DEF CheckNumber

LEMMA ManagerRefusedSerial ==
    ASSUME IInv, Serial, ~overlapped, NEW r \in Clients, tx[r].pc \in Open,
           Refuse(r, "400", "enterprise_failure", Culprit(r)),
           UNCHANGED <<users, profiles, drawn>>
    PROVE  Serial'
<1>1. tx[r].ask \in Workload /\ Culprit(r) \in Users \cup {None} /\ Busy(r)
    BY SessionFacts DEF SessionOK, Open, At, Culprit, Busy
<1> QED BY <1>1, RefuseSerial

LEMMA FindManagerSerial ==
    ASSUME IInv, Serial, ~overlapped, NEW r \in Clients, FindManager(r) PROVE Serial'
<1> DEFINE m == Want(r)["manager"]
           t == [tx[r] EXCEPT !.pc = "walk", !.cur = m, !.seen = {m}]
<1>1. /\ tx[r] \in Sessions /\ tx[r].pc = "manager" /\ Busy(r)
      /\ SnapshotOK(tx[r]) /\ tx[r].target \in drawn
    BY SerialFacts DEF FindManager, At, Busy, Open
<1>2. UNCHANGED <<users, profiles, drawn>>
    BY DEF FindManager, rows
<1>3. ASSUME Refuse(r, "400", "enterprise_failure", Culprit(r)) PROVE Serial'
    BY <1>1, <1>2, <1>3, ManagerRefusedSerial DEF Open
<1>4. ASSUME Exists(m), m # tx[r].target, Update(r, t) PROVE Serial'
    <2>1. m \in Users /\ m = tx[r].want["manager"]
        BY <1>4 DEF Exists, Want
    <2>2. /\ t.pc = "walk" /\ t.cur = m /\ t.seen = {m} /\ t.want = tx[r].want
          /\ t.had = tx[r].had /\ t.loaded = tx[r].loaded /\ t.creates = tx[r].creates
          /\ t.target = tx[r].target /\ t.draft = tx[r].draft
        BY <1>1 DEF Sessions
    <2>3. t \in Sessions
        BY <1>4, FindManagerKeeps DEF IInv, TypeOK, Update
    <2> HIDE DEF t, m
    <2>4. WalkOK(t)
        BY <1>4, <2>1, <2>2 DEF WalkOK
    <2>5. SnapshotOK(t)
        BY <1>1, <2>2 DEF SnapshotOK, Open
    <2> QED BY <1>1, <1>2, <1>4, <2>2, <2>3, <2>4, <2>5, QuietSerial
<1> QED BY <1>3, <1>4 DEF FindManager

(* Where the walk ends without coming to the user, it has vetted the       *)
(* manager.                                                                *)
LEMMA WalkSerial ==
    ASSUME IInv, Serial, ~overlapped, NEW r \in Clients, Walk(r) PROVE Serial'
<1> DEFINE next == ManagerOf(tx[r].cur)
           t == [tx[r] EXCEPT !.cur = next, !.seen = @ \cup {next}]
           s == [tx[r] EXCEPT !.pc = "set"]
<1>1. /\ tx[r] \in Sessions /\ tx[r].pc = "walk" /\ Busy(r) /\ WalkOK(tx[r])
      /\ SnapshotOK(tx[r]) /\ tx[r].target \in drawn /\ tx[r].cur \in Users
      /\ next \in Users \cup {None}
    BY SerialFacts, SessionFacts DEF Walk, At, Busy, Open, SessionOK
<1>2. UNCHANGED <<users, profiles, drawn>>
    BY DEF Walk, rows
<1>3. /\ tx[r].seen \subseteq Users /\ tx[r].cur \in tx[r].seen
      /\ tx[r].want["manager"] \in tx[r].seen /\ tx[r].target \notin tx[r].seen
      /\ \A v \in tx[r].seen \ {tx[r].cur} : ManagerOf(v) \in tx[r].seen
    BY <1>1 DEF WalkOK
<1>4. ASSUME Refuse(r, "400", "enterprise_failure", Culprit(r)) PROVE Serial'
    BY <1>1, <1>2, <1>4, ManagerRefusedSerial DEF Open
<1>5. ASSUME next = None \/ next \in tx[r].seen, Goto(r, "set") PROVE Serial'
    <2>1. \A v \in tx[r].seen : ManagerOf(v) \in tx[r].seen \cup {None}
        BY <1>3, <1>5
    <2>2. Vetted(tx[r].want["manager"], tx[r].target)
        BY <1>3, <2>1 DEF Vetted
    <2>3. /\ s.pc = "set" /\ s.want = tx[r].want
          /\ s.had = tx[r].had /\ s.loaded = tx[r].loaded /\ s.creates = tx[r].creates
          /\ s.target = tx[r].target /\ s.draft = tx[r].draft
        BY <1>1 DEF Sessions
    <2> HIDE DEF s
    <2>4. WalkOK(s)
        BY <2>2, <2>3 DEF WalkOK
    <2>5. SnapshotOK(s)
        BY <1>1, <2>3 DEF SnapshotOK, Open
    <2> QED BY <1>1, <1>2, <1>5, <2>4, <2>5, GotoSerial DEF Labels, s
<1>6. ASSUME next # tx[r].target, next # None, Update(r, t) PROVE Serial'
    <2>1. /\ t.pc = "walk" /\ t.cur = next /\ t.seen = tx[r].seen \cup {next}
          /\ t.want = tx[r].want
          /\ t.had = tx[r].had /\ t.loaded = tx[r].loaded /\ t.creates = tx[r].creates
          /\ t.target = tx[r].target /\ t.draft = tx[r].draft
        BY <1>1 DEF Sessions
    <2>2. t \in Sessions
        BY <1>6, WalkKeeps DEF IInv, TypeOK, Update
    <2>3. \A v \in t.seen \ {t.cur} : ManagerOf(v) \in t.seen
        BY <1>3, <2>1
    <2> HIDE DEF t, next
    <2>4. WalkOK(t)
        BY <1>1, <1>3, <1>6, <2>1, <2>3 DEF WalkOK
    <2>5. SnapshotOK(t)
        BY <1>1, <2>1 DEF SnapshotOK, Open
    <2> QED BY <1>1, <1>2, <1>6, <2>1, <2>2, <2>4, <2>5, QuietSerial
<1> QED BY <1>4, <1>5, <1>6 DEF Walk

LEMMA SetProfileSerial ==
    ASSUME IInv, Serial, ~overlapped, NEW r \in Clients, SetProfile(r) PROVE Serial'
<1> DEFINE d == ProfileDraft(r)
           t == [tx[r] EXCEPT !.pc = "commit", !.changed = d,
                              !.draft = [@ EXCEPT !["department"] = DepartmentDraft(r)]]
<1>1. /\ tx[r] \in Sessions /\ tx[r].pc = "set" /\ Busy(r) /\ WalkOK(tx[r])
      /\ SnapshotOK(tx[r]) /\ tx[r].target \in drawn
      /\ tx[r].draft \in [Columns -> Value \cup {UNSET}]
    BY SerialFacts DEF SetProfile, At, Busy, Open, Sessions, Drafts
<1>2. UNCHANGED <<users, profiles, drawn>>
    BY DEF SetProfile, rows
<1>3. ASSUME Abort(r) PROVE Serial'
    BY <1>2, <1>3, ResetSerial DEF Abort
<1>4. ASSUME Update(r, t) PROVE Serial'
    <2>1. /\ t.pc = "commit" /\ t.changed = d /\ t.loaded = tx[r].loaded
          /\ t.target = tx[r].target /\ t.draft["department"] = DepartmentDraft(r)
        BY <1>1 DEF Sessions, Columns
    <2>2. t \in Sessions
        BY <1>4, SetProfileKeeps DEF IInv, TypeOK, Update
    <2>3. d["manager"] \in {tx[r].want["manager"], UNSET}
        BY DEF ProfileDraft, Want, Enterprise
    <2>4. UNSET \notin Users /\ UNSET \notin Value /\ None \notin Value /\ Default # UNSET
        BY ScimUsersAssumption
    <2>5. /\ tx[r].draft["department"] = IF tx[r].loaded = None THEN Default ELSE UNSET
          /\ tx[r].loaded # None => tx[r].loaded["department"] # UNSET
          /\ tx[r].loaded # None => tx[r].loaded = users[tx[r].target]
          /\ tx[r].loaded = None => users[tx[r].target] = None
        BY <1>1, <2>4 DEF SnapshotOK, Open, Sessions, UserRow, Columns
    <2> HIDE DEF t
    <2>6. WalkOK(t)
        BY <1>1, <2>1, <2>3, <2>4 DEF WalkOK
    <2>7. LET old == IF tx[r].loaded = None THEN Default ELSE tx[r].loaded["department"]
              new == IF DepartmentDraft(r) = UNSET THEN old ELSE DepartmentDraft(r)
          IN  /\ d["department"] \in Value => new = d["department"]
              /\ d["department"] = UNSET => new = old
        BY <2>4, <2>5 DEF DepartmentDraft
    <2> HIDE DEF d
    <2>8. SnapshotOK(t)
        BY <2>1, <2>5, <2>7 DEF SnapshotOK, Open
    <2> QED BY <1>1, <1>2, <1>4, <2>1, <2>2, <2>6, <2>8, QuietSerial
<1> QED BY <1>3, <1>4 DEF SetProfile

(* No cycle comes about by giving a user a manager from a set that is      *)
(* closed under managers and lacks the user.                               *)
LEMMA VettedIsAcyclic ==
    ASSUME Acyclic, NEW u \in Users, NEW m \in Users \cup {None}, None \notin Users,
           m \in Users => Vetted(m, u),
           ManagerOf(u)' = m, \A v \in Users \ {u} : ManagerOf(v)' = ManagerOf(v)
    PROVE  Acyclic'
<1> SUFFICES ASSUME NEW S \in SUBSET Users, S # {}
             PROVE  \E v \in S : ManagerOf(v)' \notin S
    BY DEF Acyclic
<1>1. CASE u \notin S \/ m \notin S
    <2>1. PICK v \in S : ManagerOf(v) \notin S
        BY DEF Acyclic
    <2> QED BY <1>1, <2>1
<1>2. CASE u \in S /\ m \in S
    <2>1. PICK V \in SUBSET Users :
             m \in V /\ u \notin V /\ \A v \in V : ManagerOf(v) \in V \cup {None}
        BY <1>2 DEF Vetted
    <2>2. PICK v \in S \cap V : ManagerOf(v) \notin S \cap V
        BY <1>2, <2>1 DEF Acyclic
    <2>3. v # u /\ ManagerOf(v) \notin S
        BY <2>1, <2>2
    <2> QED BY <2>2, <2>3
<1> QED BY <1>1, <1>2

LEMMA CommitSerial ==
    ASSUME IInv, Serial, ~overlapped, NEW r \in Clients, Commit(r) PROVE Serial'
<1>0. PICK u \in Users : u = tx[r].target
    BY CommittedRows
<1> DEFINE c == tx[r].changed
           d == tx[r].draft
           old == IF tx[r].creates THEN NoProfile ELSE profiles[u]
           p == Written(old, c)
<1>1. /\ tx[r] \in Sessions /\ tx[r].pc = "commit" /\ Busy(r) /\ WalkOK(tx[r])
      /\ SnapshotOK(tx[r]) /\ SessionOK(tx[r]) /\ u \in drawn
      /\ Alone /\ Acyclic /\ DepartmentsAgree /\ ProfilesHaveUsers
    BY <1>0, SerialFacts DEF Commit, At, Busy, Open
<1>2. /\ users' = [users EXCEPT ![u] = Written(@, d)] /\ Written(users[u], d) \in UserRow
      /\ Changes(r) = {} <=> c = Unwritten
      /\ ~tx[r].creates /\ Changes(r) = {} => profiles' = profiles
      /\ tx[r].creates \/ Changes(r) # {} =>
            /\ profiles' = [profiles EXCEPT ![u] = p] /\ p \in Profile
            /\ tx[r].creates <=> profiles[u] = None
    BY <1>0, CommittedRows
<1>3. /\ c \in [Enterprise -> Value \cup {None, UNSET}] /\ d \in [Columns -> Value \cup {UNSET}]
      /\ c["manager"] \in Users \cup {None, UNSET}
      /\ "manager" \in Enterprise /\ "department" \in Enterprise /\ "department" \in Columns
    BY <1>1 DEF Sessions, Drafts, ProfileDrafts, Enterprise, Columns
<1>4. p = [a \in Enterprise |-> IF c[a] = UNSET THEN old[a] ELSE c[a]]
    BY <1>3 DEF Written
<1>5. /\ UNSET \notin Users /\ UNSET \notin Value /\ None \notin Value /\ None \notin Users
      /\ UNSET # None /\ None \notin UserRow /\ None \notin Profile
    BY ScimUsersAssumption
<1>6. \A s \in Clients : /\ s # r => tx'[s] = tx[s] /\ tx[s].pc = "idle"
                         /\ s = r => tx'[s].pc = "publish"
    BY <1>1 DEF Commit, Goto, Update, IInv, TypeOK, Alone, Busy, At, Sessions
<1>7. Acyclic'
    <2>1. \A v \in Users \ {u} : ManagerOf(v)' = ManagerOf(v)
        BY <1>2 DEF ManagerOf, IInv, TypeOK
    <2>2. CASE c["manager"] = UNSET
        <3>1. ManagerOf(u)' = ManagerOf(u)
            <4>1. CASE ~tx[r].creates /\ Changes(r) = {}
                BY <1>2, <4>1 DEF ManagerOf
            <4>2. CASE tx[r].creates \/ Changes(r) # {}
                <5>1. profiles'[u] = p /\ p # None
                    BY <1>2, <1>5, <4>2 DEF IInv, TypeOK
                <5>2. p["manager"] = old["manager"]
                    BY <1>3, <1>4, <2>2
                <5>3. ManagerOf(u) = old["manager"]
                    BY <1>2, <1>3, <4>2 DEF ManagerOf, NoProfile
                <5> QED BY <5>1, <5>2, <5>3 DEF ManagerOf
            <4> QED BY <4>1, <4>2
        <3> QED BY <1>1, <2>1, <3>1 DEF Acyclic
    <2>3. CASE c["manager"] # UNSET
        <3>1. Changes(r) # {}
            BY <1>3, <2>3 DEF Changes
        <3>2. profiles'[u] = p /\ p # None
            BY <1>2, <1>5, <3>1 DEF IInv, TypeOK
        <3>3. p["manager"] = c["manager"] /\ c["manager"] \in Users \cup {None}
            BY <1>3, <1>4, <2>3
        <3>4. ManagerOf(u)' = c["manager"]
            BY <3>2, <3>3 DEF ManagerOf
        <3>5. c["manager"] \in Users => Vetted(c["manager"], u)
            BY <1>0, <1>1 DEF WalkOK
        <3> HIDE DEF c
        <3> QED BY <1>1, <1>2, <1>5, <2>1, <3>3, <3>4, <3>5, VettedIsAcyclic
    <2> QED BY <2>2, <2>3
<1>8. DepartmentsAgree'
    <2> SUFFICES ASSUME ~overlapped', NEW v \in Users,
                        profiles'[v] # None, profiles'[v]["department"] # None
                 PROVE  users'[v]["department"] = profiles'[v]["department"]
        BY DEF DepartmentsAgree
    <2>1. CASE v # u
        BY <1>1, <1>2, <2>1 DEF DepartmentsAgree, IInv, TypeOK
    <2>2. CASE v = u
        <3> DEFINE was == IF tx[r].loaded = None THEN Default ELSE tx[r].loaded["department"]
                   new == IF d["department"] = UNSET THEN was ELSE d["department"]
        <3>1. /\ c["department"] \in Value => new = c["department"]
              /\ c["department"] = UNSET => new = was
              /\ tx[r].loaded # None => tx[r].loaded = users[u]
              /\ tx[r].loaded = None => users[u] = None
            BY <1>0, <1>1 DEF SnapshotOK, Open
        <3>2. users'[u]["department"] = new
            <4>1. users'[u] = Written(users[u], d)
                BY <1>2 DEF IInv, TypeOK
            <4>2. users'[u]["department"] = IF d["department"] = UNSET
                                            THEN users[u]["department"] ELSE d["department"]
                BY <1>3, <4>1 DEF Written
            <4>3. tx[r].loaded = None => d["department"] # UNSET
                BY <1>1, <1>3, <1>5 DEF SessionOK, Open
            <4> QED BY <3>1, <4>2, <4>3
        <3>3. profiles[u] # None => tx[r].loaded # None
            BY <1>1, <3>1 DEF ProfilesHaveUsers
        <3>4. profiles[u] # None /\ profiles[u]["department"] # None
                => was = profiles[u]["department"]
            BY <1>1, <1>2, <3>1, <3>3 DEF DepartmentsAgree
        <3> HIDE DEF was, new
        <3>5. CASE ~tx[r].creates /\ Changes(r) = {}
            <4>1. c["department"] = UNSET /\ profiles'[u] = profiles[u]
                BY <1>2, <1>3, <3>5 DEF Unwritten
            <4> QED BY <2>2, <3>1, <3>2, <3>4, <4>1
        <3>6. CASE tx[r].creates \/ Changes(r) # {}
            <4>1. /\ profiles'[u] = p /\ (tx[r].creates <=> profiles[u] = None)
                  /\ p["department"] = IF c["department"] = UNSET THEN old["department"]
                                       ELSE c["department"]
                BY <1>2, <1>3, <1>4, <3>6 DEF IInv, TypeOK
            <4>2. CASE c["department"] = UNSET
                <5>1. p["department"] = old["department"] /\ ~tx[r].creates
                    BY <1>3, <2>2, <4>1, <4>2 DEF NoProfile
                <5> QED BY <2>2, <3>1, <3>2, <3>4, <4>1, <4>2, <5>1
            <4>3. CASE c["department"] # UNSET
                BY <1>3, <2>2, <3>1, <3>2, <4>1, <4>3
            <4> QED BY <4>2, <4>3
        <3> QED BY <3>5, <3>6
    <2> QED BY <2>1, <2>2
<1>9. ProfilesHaveUsers'
    <2>1. users'[u] # None /\ u \in drawn'
        BY <1>1, <1>2, <1>5 DEF Commit, IInv, TypeOK
    <2>2. \A v \in Users \ {u} : users'[v] = users[v] /\ profiles'[v] = profiles[v]
        BY <1>2 DEF IInv, TypeOK
    <2>3. drawn' = drawn
        BY DEF Commit
    <2> QED BY <1>1, <2>1, <2>2, <2>3 DEF ProfilesHaveUsers
<1>10. Alone' /\ TargetsDrawn'
    BY <1>6 DEF Alone, TargetsDrawn, Busy, At, Open
<1>11. \A s \in Clients : (WalkOK(tx[s]) /\ SnapshotOK(tx[s]))'
    <2>1. \A s \in Clients : tx'[s].pc \in {"idle", "publish"}
        BY <1>6
    <2> QED BY <2>1 DEF WalkOK, SnapshotOK, Open
<1> QED BY <1>7, <1>8, <1>9, <1>10, <1>11 DEF Serial

LEMMA EndSerial ==
    ASSUME IInv, Serial, ~overlapped, NEW r \in Clients,
           Publish(r) \/ Deny(r) \/ Aborts(r)
    PROVE  Serial'
<1>1. tx[r].response \in {"none", "ok", "400", "404", "409", "500"}
    BY SessionFacts DEF Sessions
<1>2. CASE Publish(r)
    BY <1>2, ResetSerial DEF Publish, rows
<1>3. CASE Deny(r)
    BY <1>1, <1>3, ResetSerial DEF Deny
<1>4. CASE Aborts(r)
    BY <1>4, ResetSerial DEF Aborts, Fail, BreakDeadlock, Abort, rows
<1> QED BY <1>2, <1>3, <1>4

LEMMA InitSerial == Init => Serial
<1> SUFFICES ASSUME Init PROVE Serial
    OBVIOUS
<1>1. Alone /\ TargetsDrawn /\ \A r \in Clients : WalkOK(tx[r]) /\ SnapshotOK(tx[r])
    BY DEF Init, Alone, TargetsDrawn, WalkOK, SnapshotOK, Idle, Busy, At, Open
<1>2. Acyclic
    BY ScimUsersAssumption DEF Init, Acyclic, ManagerOf
<1>3. DepartmentsAgree
    BY ScimUsersAssumption DEF Init, DepartmentsAgree
<1>4. ProfilesHaveUsers
    BY ScimUsersAssumption DEF Init, ProfilesHaveUsers
<1> QED BY <1>1, <1>2, <1>3, <1>4 DEF Serial

LEMMA NextSerial == IInv /\ Serial /\ [Next]_vars => Serial'
<1> SUFFICES ASSUME IInv, Serial, [Next]_vars PROVE Serial'
    OBVIOUS
<1>1. ASSUME NEW r \in Clients, NEW q \in Workload, Ask(r, q) PROVE Serial'
    BY <1>1, AskSerial
<1>2. ASSUME NEW r \in Clients, Moves(r) PROVE Serial'
    <2>1. CASE ~overlapped
        BY <1>2, <2>1, LoadSerial, CheckNameSerial, WriteUserSerial, LoadProfileSerial,
           InsertProfileSerial, CheckNumberSerial, FindManagerSerial, WalkSerial,
           SetProfileSerial, CommitSerial, EndSerial DEF Moves, Step, Aborts
    <2>2. overlapped' = overlapped
        BY <1>2 DEF Moves, Step, Load, CheckName, WriteUser, LoadProfile, InsertProfile,
           CheckNumber, FindManager, Walk, SetProfile, Commit, Publish, Deny,
           Aborts, Fail, BreakDeadlock
    <2> QED BY <2>1, <2>2 DEF Serial
<1>3. CASE UNCHANGED vars
    <2>1. UNCHANGED <<users, profiles, drawn, overlapped, tx>>
        BY <1>3 DEF vars
    <2>2. \A v \in Users : ManagerOf(v)' = ManagerOf(v)
        BY <2>1 DEF ManagerOf
    <2>3. Acyclic <=> Acyclic'
        BY <2>2 DEF Acyclic
    <2>4. \A r \in Clients : WalkOK(tx[r]) => WalkOK(tx[r])'
        BY <2>1 DEF WalkOK, Vetted, ManagerOf
    <2>5. \A r \in Clients : SnapshotOK(tx[r]) => SnapshotOK(tx[r])'
        BY <2>1 DEF SnapshotOK
    <2> QED BY <2>1, <2>3, <2>4, <2>5
            DEF Serial, Alone, TargetsDrawn, DepartmentsAgree, ProfilesHaveUsers, Busy, At
<1> QED BY <1>1, <1>2, <1>3 DEF Next, Moves

LEMMA SerialHolds == Spec => []Serial
<1>1. Init /\ [][Next]_vars /\ []IInv => []Serial
    BY InitSerial, NextSerial, PTL
<1> QED BY <1>1, IInvHolds, PTL DEF Spec

(***************************************************************************)
(* As long as requests do not overlap, no user manages themselves, however *)
(* many users there are and whatever the requests: the walk of             *)
(* validate_manager is enough.                                             *)
(***************************************************************************)
THEOREM NoCycles == Spec => []ManagersAcyclic
<1>1. Serial => ManagersAcyclic
    BY DEF Serial, ManagersAcyclic
<1> QED BY <1>1, SerialHolds, PTL

(***************************************************************************)
(* As long as requests do not overlap, the user's department is that of    *)
(* their profile.                                                          *)
(***************************************************************************)
THEOREM DepartmentsStayTogether == Spec => []DepartmentsAgree
<1>1. Serial => DepartmentsAgree
    BY DEF Serial, DepartmentsAgree
<1> QED BY <1>1, SerialHolds, PTL

-----------------------------------------------------------------------------
(* The entry a commit adds is one that was not there: requests have        *)
(* numbers of their own.                                                   *)
NumbersOK ==
    /\ \A e \in audit : e.number <= asked
    /\ \A r \in Clients : Busy(r) =>
          /\ tx[r].number <= asked
          /\ ~At(r, "publish") => \A e \in audit : e.number # tx[r].number
          /\ \A s \in Clients : Busy(s) /\ tx[s].number = tx[r].number => s = r

(* Until it is over, a request keeps its number.                           *)
Kept(r) == /\ \A s \in Clients : s # r => tx'[s] = tx[s]
           /\ tx'[r].pc # "idle" => tx'[r].number = tx[r].number

LEMMA KeptByMoves ==
    ASSUME IInv, NEW r \in Clients
    PROVE  /\ \A label \in Labels : Goto(r, label) => Kept(r)
           /\ \A status, act, user : Refuse(r, status, act, user) => Kept(r)
           /\ Abort(r) => Kept(r)
           /\ \A t : Update(r, t) /\ t.number = tx[r].number => Kept(r)
<1>1. tx \in [Clients -> Sessions] /\ tx[r] \in Sessions
    BY DEF IInv, TypeOK
<1>2. \A t : Update(r, t) /\ t.number = tx[r].number => Kept(r)
    BY <1>1 DEF Update, Kept
<1>3. ASSUME NEW label \in Labels, Goto(r, label) PROVE Kept(r)
    BY <1>1, <1>2, <1>3 DEF Goto, Sessions
<1>4. ASSUME NEW status, NEW act, NEW user, Refuse(r, status, act, user) PROVE Kept(r)
    BY <1>1, <1>2, <1>4 DEF Refuse, Idle
<1>5. ASSUME Abort(r) PROVE Kept(r)
    BY <1>1, <1>5 DEF Abort, Idle, Update, Kept
<1> QED BY <1>2, <1>3, <1>4, <1>5

LEMMA NumberKept ==
    ASSUME IInv, NEW r \in Clients, Moves(r)
    PROVE  /\ asked' = asked /\ \A s \in Clients : s # r => tx'[s] = tx[s]
           /\ tx'[r].pc # "idle" => tx'[r].number = tx[r].number
           /\ tx'[r].pc # "idle" => Busy(r) /\ ~At(r, "publish")
<1>1. tx \in [Clients -> Sessions] /\ tx[r] \in Sessions
    BY DEF IInv, TypeOK
<1>2. ASSUME Load(r) PROVE Kept(r)
    <2>1. ASSUME Update(r, [tx[r] EXCEPT !.target = tx[r].ask.target,
                    !.loaded = users[tx[r].ask.target], !.want = Parsed[tx[r].ask],
                    !.pc = IF Parsed[tx[r].ask]["userName"] = UNSET THEN "user" ELSE "name"])
          PROVE  Kept(r)
        BY <1>1, <2>1, KeptByMoves DEF Sessions
    <2> QED BY <1>2, <2>1, KeptByMoves DEF Load
<1>3. ASSUME CheckName(r) PROVE Kept(r)
    BY <1>3, KeptByMoves DEF CheckName, Labels
<1>4. ASSUME WriteUser(r) PROVE Kept(r)
    <2> DEFINE t(u) == [tx[r] EXCEPT !.pc = AfterUser(r), !.draft = UserDraft(r), !.target = u]
               s == [tx[r] EXCEPT !.pc = AfterUser(r), !.draft = UserDraft(r)]
    <2>1. s.number = tx[r].number /\ \A u : t(u).number = tx[r].number
        BY <1>1 DEF Sessions
    <2>2. (\E u : Update(r, t(u))) \/ Update(r, s) \/ Abort(r)
        BY <1>4 DEF WriteUser
    <2> HIDE DEF t, s
    <2> QED BY <2>1, <2>2, KeptByMoves
<1>5. ASSUME LoadProfile(r) PROVE Kept(r)
    <2>1. PICK had, label : Update(r, [tx[r] EXCEPT !.had = had, !.pc = label])
        BY <1>5, Zenon DEF LoadProfile
    <2> QED BY <1>1, <2>1, KeptByMoves DEF Sessions
<1>6. ASSUME InsertProfile(r) PROVE Kept(r)
    <2>1. [tx[r] EXCEPT !.pc = "number", !.creates = TRUE].number = tx[r].number
        BY <1>1 DEF Sessions
    <2> QED BY <1>6, <2>1, KeptByMoves DEF InsertProfile
<1>7. ASSUME CheckNumber(r) PROVE Kept(r)
    BY <1>7, KeptByMoves DEF CheckNumber, Labels
<1>8. ASSUME FindManager(r) PROVE Kept(r)
    <2>1. \A m : [tx[r] EXCEPT !.pc = "walk", !.cur = m, !.seen = {m}].number = tx[r].number
        BY <1>1 DEF Sessions
    <2> QED BY <1>8, <2>1, KeptByMoves DEF FindManager
<1>9. ASSUME Walk(r) PROVE Kept(r)
    <2>1. \A next : [tx[r] EXCEPT !.cur = next, !.seen = @ \cup {next}].number = tx[r].number
        BY <1>1 DEF Sessions
    <2> QED BY <1>9, <2>1, KeptByMoves DEF Walk, Labels
<1>10. ASSUME SetProfile(r) PROVE Kept(r)
    <2>1. \A d, e : [tx[r] EXCEPT !.pc = "commit", !.changed = d,
                        !.draft = [@ EXCEPT !["department"] = e]].number = tx[r].number
        BY <1>1 DEF Sessions
    <2> QED BY <1>10, <2>1, KeptByMoves DEF SetProfile
<1>11. ASSUME Commit(r) PROVE Kept(r)
    BY <1>11, KeptByMoves DEF Commit, Labels
<1>12. ASSUME Publish(r) \/ Deny(r) \/ Aborts(r) PROVE Kept(r)
    BY <1>1, <1>12, KeptByMoves
       DEF Publish, Deny, Aborts, Fail, BreakDeadlock, Update, Idle, Kept
<1>13. Kept(r)
    BY <1>2, <1>3, <1>4, <1>5, <1>6, <1>7, <1>8, <1>9, <1>10, <1>11, <1>12
    DEF Moves, Step, Aborts
<1>14. asked' = asked
    BY DEF Moves, Step, Load, CheckName, WriteUser, LoadProfile, InsertProfile,
           CheckNumber, FindManager, Walk, SetProfile, Commit, Publish, Deny,
           Aborts, Fail, BreakDeadlock
<1>15. tx'[r].pc # "idle" => Busy(r) /\ ~At(r, "publish")
    <2>1. ASSUME Publish(r) \/ Deny(r) \/ Aborts(r) PROVE tx'[r].pc = "idle"
        BY <1>1, <2>1 DEF Publish, Deny, Aborts, Fail, BreakDeadlock, Update, Abort, Idle
    <2> QED BY <2>1 DEF Moves, Step, Aborts, Load, CheckName, WriteUser, LoadProfile,
               InsertProfile, CheckNumber, FindManager, Walk, SetProfile, Commit, Busy, At
<1> QED BY <1>13, <1>14, <1>15 DEF Kept

(* Only a commit and a denial write the audit log.                         *)
LEMMA AuditWrites ==
    ASSUME NEW r \in Clients, Moves(r)
    PROVE  \/ audit' = audit
           \/ /\ Commit(r) \/ Deny(r)
              /\ \E e : audit' = audit \cup {e} /\ e.number = tx[r].number
<1>1. CASE Commit(r)
    BY <1>1 DEF Commit, Entry
<1>2. CASE Deny(r)
    <2>1. PICK e : /\ e = [number |-> tx[r].number, user |-> tx[r].blame,
                           user_action |-> tx[r].action, changes |-> {},
                           result |-> "denied"]
                   /\ audit' = audit \cup {e}
        BY <1>2 DEF Deny
    <2>2. e.number = tx[r].number
        BY <2>1
    <2> QED BY <1>2, <2>1, <2>2
<1>3. CASE ~Commit(r) /\ ~Deny(r)
    BY <1>3 DEF Moves, Step, Load, CheckName, WriteUser, LoadProfile, InsertProfile,
           CheckNumber, FindManager, Walk, SetProfile, Publish, Aborts, Fail,
       BreakDeadlock, rows
<1> QED BY <1>1, <1>2, <1>3

LEMMA NextNumbers == IInv /\ NumbersOK /\ [Next]_vars => NumbersOK'
<1> SUFFICES ASSUME IInv, NumbersOK, [Next]_vars PROVE NumbersOK'
    OBVIOUS
<1>1. /\ asked \in Nat /\ tx \in [Clients -> Sessions]
      /\ \A r \in Clients : tx[r].number \in Nat
      /\ \A e \in audit : e.number \in Nat
    BY DEF IInv, TypeOK, Sessions, Entries
<1>2. ASSUME NEW r \in Clients, NEW q \in Workload, Ask(r, q) PROVE NumbersOK'
    <2>1. /\ asked' = asked + 1 /\ audit' = audit /\ tx'[r].number = asked + 1
          /\ \A s \in Clients : s # r => tx'[s] = tx[s]
        BY <1>1, <1>2 DEF Ask, Update, Idle, rows
    <2>2. \A e \in audit' : e.number <= asked' /\ e.number # asked + 1
        BY <1>1, <2>1 DEF NumbersOK
    <2>3. \A s \in Clients \ {r} : Busy(s)' => tx'[s].number <= asked
        BY <1>1, <2>1 DEF NumbersOK, Busy, At
    <2> QED BY <1>1, <2>1, <2>2, <2>3 DEF NumbersOK, Busy, At
<1>3. ASSUME NEW r \in Clients, Moves(r) PROVE NumbersOK'
    <2>1. /\ asked' = asked /\ \A s \in Clients : s # r => tx'[s] = tx[s]
          /\ tx'[r].pc # "idle" => tx'[r].number = tx[r].number
          /\ tx'[r].pc # "idle" => Busy(r) /\ ~At(r, "publish")
        BY <1>3, NumberKept
    <2>2. CASE audit' = audit
        BY <2>1, <2>2 DEF NumbersOK, Busy, At
    <2>3. CASE Commit(r) \/ Deny(r)
        <3>1. PICK e : audit' \in {audit, audit \cup {e}} /\ e.number = tx[r].number
            BY <1>3, <2>3, AuditWrites DEF Commit, Deny, Entry
        <3>2. Busy(r) /\ tx'[r].pc \in {"idle", "publish"}
            BY <1>1, <2>3 DEF Commit, Deny, Goto, Update, Busy, At, Idle, Sessions
        <3> QED BY <2>1, <3>1, <3>2 DEF NumbersOK, Busy, At
    <2> QED BY <1>3, <2>2, <2>3, AuditWrites
<1>4. CASE UNCHANGED vars
    BY <1>4 DEF vars, NumbersOK, Busy, At
<1> QED BY <1>2, <1>3, <1>4 DEF Next, Moves

LEMMA InitNumbers == Init => NumbersOK
BY DEF Init, NumbersOK, Busy, At, Idle

(***************************************************************************)
(* However many requests overlap, profiles and user rows change only with  *)
(* a new audit entry for the user that names the attributes changed.       *)
(***************************************************************************)
THEOREM ChangesAudited == Spec => ChangesAreAudited
<1> DEFINE Audited ==
      \A u \in Users :
         /\ \A a \in Enterprise :
              LET was == IF profiles[u]  = None THEN None ELSE profiles[u][a]
                  is  == IF profiles'[u] = None THEN None ELSE profiles'[u][a]
              IN  was # is => \E e \in audit' \ audit :
                                 e.user = u /\ a \in e.changes /\ e.result = "succeeded"
         /\ users[u] # users'[u] =>
              \E e \in audit' \ audit : e.user = u /\ e.result = "succeeded"
<1>1. ASSUME IInv, NumbersOK, NEW r \in Clients, Commit(r) PROVE Audited
    <2>0. PICK w \in Users : w = tx[r].target
        BY <1>1, CommittedRows
    <2>1. /\ Entry(r) \in audit' \ audit /\ Entry(r).user = w
          /\ Entry(r).changes = Changes(r) /\ Entry(r).result = "succeeded"
        BY <1>1, <2>0 DEF Commit, Entry, NumbersOK, Busy, At
    <2>2. /\ users' = [users EXCEPT ![w] = Written(@, tx[r].draft)]
          /\ Changes(r) = {} <=> tx[r].changed = Unwritten
          /\ ~tx[r].creates /\ Changes(r) = {} => profiles' = profiles
          /\ tx[r].creates \/ Changes(r) # {} =>
                /\ profiles' = [profiles EXCEPT ![w] = Written(
                      IF tx[r].creates THEN NoProfile ELSE profiles[w], tx[r].changed)]
                /\ tx[r].creates <=> profiles[w] = None
        BY <1>1, <2>0, CommittedRows
    <2>3. \A u \in Users \ {w} : users'[u] = users[u] /\ profiles'[u] = profiles[u]
        BY <1>1, <2>2 DEF IInv, TypeOK
    <2>4. ASSUME NEW a \in Enterprise, tx[r].changed[a] = UNSET,
                 tx[r].creates \/ Changes(r) # {}
          PROVE  (IF profiles[w] = None THEN None ELSE profiles[w][a])
                   = (IF profiles'[w] = None THEN None ELSE profiles'[w][a])
        <3>1. DOMAIN tx[r].changed = Enterprise
            BY <1>1, SessionFacts DEF Sessions, ProfileDrafts
        <3>2. profiles'[w] = [b \in Enterprise |-> IF tx[r].changed[b] = UNSET
                                THEN (IF tx[r].creates THEN NoProfile ELSE profiles[w])[b]
                                ELSE tx[r].changed[b]]
            BY <1>1, <2>2, <2>4, <3>1 DEF Written, IInv, TypeOK
        <3>3. profiles'[w][a] = (IF tx[r].creates THEN NoProfile ELSE profiles[w])[a]
            BY <2>4, <3>2
        <3>4. profiles'[w] # None
            BY <1>1, <2>0, <2>2, <2>4, CommittedRows, ScimUsersAssumption DEF IInv, TypeOK
        <3> QED BY <2>2, <2>4, <3>3, <3>4 DEF NoProfile
    <2>5. ASSUME NEW a \in Enterprise, a \notin Changes(r)
          PROVE  (IF profiles[w] = None THEN None ELSE profiles[w][a])
                   = (IF profiles'[w] = None THEN None ELSE profiles'[w][a])
        <3>1. tx[r].changed[a] = UNSET
            BY <2>5 DEF Changes
        <3> QED BY <2>2, <2>4, <3>1
    <2> QED BY <2>1, <2>3, <2>5
<1>2. ASSUME IInv, NumbersOK, NEW r \in Clients, Moves(r), ~Commit(r) PROVE Audited
    <2>1. UNCHANGED <<users, profiles>>
        BY <1>2 DEF Moves, Step, Load, CheckName, WriteUser, LoadProfile, InsertProfile,
           CheckNumber, FindManager, Walk, SetProfile, Publish, Deny, Aborts,
           Fail, BreakDeadlock, rows
    <2> QED BY <2>1
<1>3. IInv /\ NumbersOK /\ [Next]_vars => [Audited]_vars
    <2> SUFFICES ASSUME IInv, NumbersOK, Next PROVE Audited
        OBVIOUS
    <2>1. ASSUME NEW r \in Clients, NEW q \in Workload, Ask(r, q) PROVE Audited
        <3>1. UNCHANGED <<users, profiles>>
            BY <2>1 DEF Ask, rows
        <3> QED BY <3>1
    <2> QED BY <1>1, <1>2, <2>1 DEF Next, Moves
<1> HIDE DEF Audited
<1>4. Init /\ [][Next]_vars /\ []IInv => []NumbersOK
    BY InitNumbers, NextNumbers, PTL
<1>5. Spec => [][Audited]_vars
    BY <1>3, <1>4, IInvHolds, PTL DEF Spec
<1> QED BY <1>5 DEF ChangesAreAudited, Audited

-----------------------------------------------------------------------------
(***************************************************************************)
(* What makes employee numbers unique.  A number about to be committed is  *)
(* in no other row and in no other commit: its index entry has been locked *)
(* since the constraint was checked.  While requests are made one at a     *)
(* time, one that has passed the check of _ensure_employee_number_available*)
(* is in no other row ignoring case either.                                *)
(***************************************************************************)
Number(u) == profiles[u]["employeeNumber"]
NewNumber(r) == tx[r].changed["employeeNumber"]
WantedNumber(r) == tx[r].want["employeeNumber"]

Free(n, u) == \A v \in Numbered \ {u} : Number(v) # n
FreeIgnoringCase(n, u) == \A v \in Numbered \ {u} : Lower[Number(v)] # Lower[n]

Commits(r) == At(r, "commit") /\ NewNumber(r) \in Value
Checked(r) == tx[r].pc \in {"manager", "walk", "set"} /\ WantedNumber(r) \in Value

RowsDistinct == \A u \in Numbered : Free(Number(u), u)
CommitsDistinct ==
    \A r \in Clients : Commits(r) =>
        /\ Free(NewNumber(r), tx[r].target)
        /\ \A s \in Clients \ {r} : At(s, "commit") => NewNumber(s) # NewNumber(r)

RowsDiffer == \A u \in Numbered : FreeIgnoringCase(Number(u), u)
ChecksHold ==
    \A r \in Clients :
        /\ Checked(r) => FreeIgnoringCase(WantedNumber(r), tx[r].target)
        /\ Commits(r) => FreeIgnoringCase(NewNumber(r), tx[r].target)

Exact == RowsDistinct /\ CommitsDistinct
Folded == ~overlapped => RowsDiffer /\ ChecksHold

(* A step that neither checks a number nor takes one to its commit.        *)
Indifferent(r) ==
    /\ profiles' = profiles
    /\ \A s \in Clients : s # r => tx'[s] = tx[s]
    /\ tx'[r].pc = "commit" => tx'[r].changed = Unwritten
    /\ tx'[r].pc \in {"manager", "walk", "set"} =>
          /\ tx[r].pc \in {"manager", "walk"}
          /\ tx'[r].want = tx[r].want /\ tx'[r].target = tx[r].target

LEMMA IndifferentKeeps ==
    ASSUME IInv, NEW r \in Clients, Indifferent(r), overlapped => overlapped'
    PROVE  (Exact => Exact') /\ (Folded => Folded')
<1>1. UNSET \notin Value /\ Unwritten["employeeNumber"] = UNSET
    BY ScimUsersAssumption DEF Unwritten, Enterprise
<1>2. Numbered' = Numbered /\ \A u \in Users : Number(u)' = Number(u)
    BY DEF Indifferent, Numbered, Number
<1>3. \A n, u : /\ Free(n, u)' <=> Free(n, u)
                /\ FreeIgnoringCase(n, u)' <=> FreeIgnoringCase(n, u)
    BY <1>2 DEF Free, FreeIgnoringCase, Numbered
<1>4. ASSUME NEW s \in Clients, Commits(s)'
      PROVE  s # r /\ Commits(s) /\ tx'[s] = tx[s] /\ NewNumber(s)' = NewNumber(s)
    BY <1>1, <1>4 DEF Indifferent, Commits, At, NewNumber
<1>5. ASSUME NEW s \in Clients, Checked(s)'
      PROVE  Checked(s) /\ WantedNumber(s)' = WantedNumber(s) /\ tx'[s].target = tx[s].target
    BY <1>5 DEF Indifferent, Checked, WantedNumber
<1>6. ASSUME Exact PROVE Exact'
    <2>1. RowsDistinct'
        BY <1>2, <1>6 DEF Exact, RowsDistinct, Free, Numbered
    <2>2. ASSUME NEW s \in Clients, Commits(s)'
          PROVE  /\ Free(NewNumber(s), tx[s].target)'
                 /\ \A q \in Clients \ {s} : At(q, "commit")' => NewNumber(q)' # NewNumber(s)'
        <3>1. s # r /\ Commits(s) /\ tx'[s] = tx[s] /\ NewNumber(s)' = NewNumber(s)
            BY <1>4, <2>2
        <3>2. Free(NewNumber(s), tx[s].target)'
            BY <1>2, <1>6, <3>1 DEF Exact, CommitsDistinct, Free, Numbered
        <3>3. \A q \in Clients \ {s} : At(q, "commit")' => NewNumber(q)' # NewNumber(s)'
            BY <1>1, <1>6, <3>1
               DEF Exact, CommitsDistinct, Indifferent, Commits, At, NewNumber
        <3> QED BY <3>2, <3>3
    <2> QED BY <2>1, <2>2 DEF Exact, CommitsDistinct
<1>7. ASSUME Folded PROVE Folded'
    <2> SUFFICES ASSUME ~overlapped' PROVE (RowsDiffer /\ ChecksHold)'
        BY DEF Folded
    <2>1. RowsDiffer /\ ChecksHold
        BY <1>7 DEF Folded
    <2>2. RowsDiffer'
        BY <1>2, <2>1 DEF RowsDiffer, FreeIgnoringCase, Numbered
    <2>3. ASSUME NEW s \in Clients, Checked(s)'
          PROVE  FreeIgnoringCase(WantedNumber(s), tx[s].target)'
        BY <1>2, <1>5, <2>1, <2>3 DEF ChecksHold, FreeIgnoringCase, Numbered
    <2>4. ASSUME NEW s \in Clients, Commits(s)'
          PROVE  FreeIgnoringCase(NewNumber(s), tx[s].target)'
        BY <1>2, <1>4, <2>1, <2>4 DEF ChecksHold, FreeIgnoringCase, Numbered
    <2> QED BY <2>2, <2>3, <2>4 DEF ChecksHold
<1> QED BY <1>6, <1>7

(* The moves that are indifferent.                                         *)
LEMMA IndifferentMoves ==
    ASSUME IInv, NEW r \in Clients, profiles' = profiles
    PROVE  /\ \A status, act, user : Refuse(r, status, act, user) => Indifferent(r)
           /\ \A t : Update(r, t) /\ t.pc \in {"idle", "deny"} => Indifferent(r)
           /\ \A t : /\ Update(r, t) /\ t.changed = tx[r].changed
                     /\ tx[r].pc \notin {"commit", "publish"}
                     /\ t.pc \in {"manager", "walk", "set"} =>
                           /\ tx[r].pc \in {"manager", "walk"}
                           /\ t.want = tx[r].want /\ t.target = tx[r].target
                     => Indifferent(r)
<1>1. /\ tx \in [Clients -> Sessions]
      /\ tx[r].pc \notin {"commit", "publish"} => tx[r].changed = Unwritten
    BY SessionFacts DEF IInv, TypeOK, SessionOK
<1>2. ASSUME NEW t, Update(r, t), t.pc \in {"idle", "deny"} PROVE Indifferent(r)
    BY <1>1, <1>2 DEF Update, Indifferent
<1>3. ASSUME NEW status, NEW act, NEW user, Refuse(r, status, act, user) PROVE Indifferent(r)
    BY <1>2, <1>3 DEF Refuse, Idle
<1>4. ASSUME NEW t, Update(r, t), t.changed = tx[r].changed,
             tx[r].pc \notin {"commit", "publish"},
             t.pc \in {"manager", "walk", "set"} =>
                /\ tx[r].pc \in {"manager", "walk"}
                /\ t.want = tx[r].want /\ t.target = tx[r].target
      PROVE  Indifferent(r)
    BY <1>1, <1>4 DEF Update, Indifferent
<1> QED BY <1>2, <1>3, <1>4

LEMMA IndifferentSteps ==
    ASSUME IInv, NEW r \in Clients, Moves(r), ~CheckNumber(r), ~SetProfile(r), ~Commit(r)
    PROVE  Indifferent(r)
<1>1. tx[r] \in Sessions /\ profiles' = profiles
    BY SessionFacts DEF Moves, Step, Load, CheckName, WriteUser, LoadProfile, InsertProfile,
       FindManager, Walk, Publish, Deny, Aborts, Fail, BreakDeadlock, rows
<1>2. ASSUME Load(r) PROVE Indifferent(r)
    <2> DEFINE q == tx[r].ask
               label == IF Parsed[q]["userName"] = UNSET THEN "user" ELSE "name"
               t == [tx[r] EXCEPT !.target = q.target, !.loaded = users[q.target],
                                  !.want = Parsed[q], !.pc = label]
    <2>1. t.changed = tx[r].changed /\ t.pc \in {"user", "name"} /\ tx[r].pc = "load"
        BY <1>1, <1>2 DEF Sessions, Load, At
    <2>2. Update(r, t) \/ \E status, act, user : Refuse(r, status, act, user)
        BY <1>2, Zenon DEF Load
    <2> HIDE DEF t
    <2> QED BY <1>1, <2>1, <2>2, IndifferentMoves
<1>3. ASSUME CheckName(r) PROVE Indifferent(r)
    <2> DEFINE t == [tx[r] EXCEPT !.pc = "user"]
    <2>1. t.changed = tx[r].changed /\ t.pc = "user" /\ tx[r].pc = "name"
        BY <1>1, <1>3 DEF Sessions, CheckName, At
    <2>2. Update(r, t) \/ \E status, act, user : Refuse(r, status, act, user)
        BY <1>3, Zenon DEF CheckName, Goto
    <2> HIDE DEF t
    <2> QED BY <1>1, <2>1, <2>2, IndifferentMoves
<1>4. ASSUME WriteUser(r) PROVE Indifferent(r)
    <2> DEFINE T(u) == [tx[r] EXCEPT !.pc = AfterUser(r), !.draft = UserDraft(r), !.target = u]
               t == [tx[r] EXCEPT !.pc = AfterUser(r), !.draft = UserDraft(r)]
               idle == [Idle EXCEPT !.response = "500"]
    <2>1. /\ t.changed = tx[r].changed /\ t.pc \in {"commit", "profile"}
          /\ \A u : T(u).changed = tx[r].changed /\ T(u).pc \in {"commit", "profile"}
          /\ tx[r].pc = "user" /\ idle.pc = "idle"
        BY <1>1, <1>4 DEF Sessions, WriteUser, At, AfterUser, Idle
    <2>2. (\E u : Update(r, T(u))) \/ Update(r, t) \/ Update(r, idle)
        BY <1>4 DEF WriteUser, Abort
    <2> HIDE DEF t, T, idle
    <2> QED BY <1>1, <2>1, <2>2, IndifferentMoves
<1>5. ASSUME LoadProfile(r) PROVE Indifferent(r)
    <2> DEFINE t(had, label) == [tx[r] EXCEPT !.had = had, !.pc = label]
    <2>1. /\ \A had, label : t(had, label).changed = tx[r].changed
                             /\ t(had, label).pc = label
          /\ tx[r].pc = "profile"
        BY <1>1, <1>5 DEF Sessions, LoadProfile, At
    <2>2. PICK had, label : Update(r, t(had, label)) /\ label \in {"number", "commit", "insert"}
        BY <1>5 DEF LoadProfile
    <2> HIDE DEF t
    <2> QED BY <1>1, <2>1, <2>2, IndifferentMoves
<1>6. ASSUME InsertProfile(r) PROVE Indifferent(r)
    <2> DEFINE t == [tx[r] EXCEPT !.pc = "number", !.creates = TRUE]
               idle == [Idle EXCEPT !.response = "500"]
    <2>1. t.changed = tx[r].changed /\ t.pc = "number" /\ tx[r].pc = "insert" /\ idle.pc = "idle"
        BY <1>1, <1>6 DEF Sessions, InsertProfile, At, Idle
    <2>2. Update(r, t) \/ Update(r, idle)
        BY <1>6, Zenon DEF InsertProfile, Abort
    <2> HIDE DEF t, idle
    <2> QED BY <1>1, <2>1, <2>2, IndifferentMoves
<1>7. ASSUME FindManager(r) PROVE Indifferent(r)
    <2> DEFINE m == Want(r)["manager"]
               t == [tx[r] EXCEPT !.pc = "walk", !.cur = m, !.seen = {m}]
    <2>1. /\ t.changed = tx[r].changed /\ t.pc = "walk" /\ tx[r].pc = "manager"
          /\ t.want = tx[r].want /\ t.target = tx[r].target
        BY <1>1, <1>7 DEF Sessions, FindManager, At
    <2>2. Update(r, t) \/ \E status, act, user : Refuse(r, status, act, user)
        BY <1>7, Zenon DEF FindManager
    <2> HIDE DEF t
    <2> QED BY <1>1, <2>1, <2>2, IndifferentMoves
<1>8. ASSUME Walk(r) PROVE Indifferent(r)
    <2> DEFINE next == ManagerOf(tx[r].cur)
               t == [tx[r] EXCEPT !.cur = next, !.seen = @ \cup {next}]
               s == [tx[r] EXCEPT !.pc = "set"]
    <2>1. /\ t.changed = tx[r].changed /\ t.pc = "walk" /\ tx[r].pc = "walk"
          /\ t.want = tx[r].want /\ t.target = tx[r].target
          /\ s.changed = tx[r].changed /\ s.pc = "set"
          /\ s.want = tx[r].want /\ s.target = tx[r].target
        BY <1>1, <1>8 DEF Sessions, Walk, At
    <2>2. Update(r, t) \/ Update(r, s) \/ \E status, act, user : Refuse(r, status, act, user)
        BY <1>8, Zenon DEF Walk, Goto
    <2> HIDE DEF t, s
    <2> QED BY <1>1, <2>1, <2>2, IndifferentMoves
<1>9. ASSUME Publish(r) \/ Deny(r) \/ Aborts(r) PROVE Indifferent(r)
    <2> DEFINE t(status) == [Idle EXCEPT !.response = status]
    <2>1. \A status : t(status).pc = "idle"
        BY DEF Idle
    <2>2. \E status : Update(r, t(status))
        BY <1>9 DEF Publish, Deny, Aborts, Fail, BreakDeadlock, Abort
    <2> HIDE DEF t
    <2> QED BY <1>1, <2>1, <2>2, IndifferentMoves
<1> QED BY <1>2, <1>3, <1>4, <1>5, <1>6, <1>7, <1>8, <1>9 DEF Moves, Step, Aborts

LEMMA AskDistinct ==
    ASSUME IInv, Exact, Folded, NEW r \in Clients, NEW q \in Workload, Ask(r, q)
    PROVE  Exact' /\ Folded'
<1>1. /\ profiles' = profiles /\ (overlapped => overlapped')
      /\ \A s \in Clients : s # r => tx'[s] = tx[s]
      /\ tx'[r].pc \in {"deny", "name", "load"}
    BY DEF Ask, Update, IInv, TypeOK, rows
<1>2. Indifferent(r)
    BY <1>1 DEF Indifferent
<1> QED BY <1>1, <1>2, IndifferentKeeps

(* A number passes the check of the others: at most the user's own row     *)
(* matches it, whichever row the query returns.                            *)
LEMMA CheckNumberDistinct ==
    ASSUME IInv, Exact, Folded, NEW r \in Clients, CheckNumber(r)
    PROVE  Exact' /\ Folded'
<1> DEFINE label == IF Want(r)["manager"] \in {UNSET, None} THEN "set" ELSE "manager"
           t == [tx[r] EXCEPT !.pc = label]
<1>1. /\ tx[r] \in Sessions /\ SessionOK(tx[r]) /\ tx[r].pc = "number"
      /\ profiles' = profiles /\ overlapped' = overlapped
    BY SessionFacts DEF CheckNumber, At, rows
<1>2. ASSUME NEW u \in Users, Refuse(r, "409", "enterprise_failure", u)
      PROVE  Exact' /\ Folded'
    BY <1>1, <1>2, IndifferentMoves, IndifferentKeeps
<1>3. ASSUME Goto(r, label),
             \/ Want(r)["employeeNumber"] \in {UNSET, None}
             \/ Matches(r) = {} \/ tx[r].target \in Matches(r)
      PROVE  Exact' /\ Folded'
    <2>1. /\ t.pc \in {"set", "manager"} /\ t.want = tx[r].want /\ t.target = tx[r].target
          /\ t.changed = tx[r].changed
        BY <1>1 DEF Sessions
    <2>2. tx'[r] = t /\ \A s \in Clients : s # r => tx'[s] = tx[s]
        BY <1>3 DEF Goto, Update, IInv, TypeOK
    <2> HIDE DEF t, label
    <2>3. Numbered' = Numbered /\ \A u \in Users : Number(u)' = Number(u)
        BY <1>1 DEF Numbered, Number
    <2>4. Exact'
        <3>1. RowsDistinct'
            BY <2>3 DEF Exact, RowsDistinct, Free, Numbered
        <3>2. \A s \in Clients : At(s, "commit")' => s # r /\ tx'[s] = tx[s]
            BY <2>1, <2>2 DEF At
        <3>3. CommitsDistinct'
            BY <2>3, <3>2 DEF Exact, CommitsDistinct, Commits, Free, Numbered, At, NewNumber
        <3> QED BY <3>1, <3>3 DEF Exact
    <2>5. Folded'
        <3> SUFFICES ASSUME ~overlapped' PROVE (RowsDiffer /\ ChecksHold)'
            BY DEF Folded
        <3>1. RowsDiffer /\ ChecksHold
            BY <1>1 DEF Folded
        <3>2. RowsDiffer'
            BY <2>3, <3>1 DEF RowsDiffer, FreeIgnoringCase, Numbered
        <3>3. ASSUME NEW s \in Clients, s # r
              PROVE  /\ Checked(s)' => FreeIgnoringCase(WantedNumber(s), tx[s].target)'
                     /\ Commits(s)' => FreeIgnoringCase(NewNumber(s), tx[s].target)'
            BY <2>2, <2>3, <3>1, <3>3 DEF ChecksHold, Checked, Commits, WantedNumber,
               NewNumber, FreeIgnoringCase, Numbered, At
        <3>4. ASSUME Checked(r)', NEW v \in Numbered \ {tx[r].target}
              PROVE  Lower[Number(v)] # Lower[tx[r].want["employeeNumber"]]
            <4>1. Want(r)["employeeNumber"] \in Value
                  /\ Want(r)["employeeNumber"] = tx[r].want["employeeNumber"]
                BY <2>1, <2>2, <3>4 DEF Checked, WantedNumber, Want
            <4>2. Want(r)["employeeNumber"] \notin {UNSET, None}
                BY <4>1, ScimUsersAssumption
            <4>3. v \notin Matches(r)
                <5> SUFFICES ASSUME v \in Matches(r) PROVE FALSE
                    OBVIOUS
                <5>1. tx[r].target \in Matches(r)
                    BY <1>3, <4>2
                <5>2. /\ tx[r].target \in Numbered
                      /\ Lower[Number(v)] = Lower[Number(tx[r].target)]
                    BY <5>1 DEF Matches, Numbered, Number
                <5> QED BY <3>1, <5>2 DEF RowsDiffer, FreeIgnoringCase
            <4> QED BY <4>1, <4>3 DEF Matches, Numbered, Number
        <3>5. Checked(r)' => FreeIgnoringCase(WantedNumber(r), tx[r].target)'
            <4>1. WantedNumber(r)' = tx[r].want["employeeNumber"] /\ tx'[r].target = tx[r].target
                BY <2>1, <2>2 DEF WantedNumber
            <4> QED BY <2>3, <3>4, <4>1 DEF FreeIgnoringCase, Numbered
        <3>6. ~Commits(r)'
            BY <2>1, <2>2 DEF Commits, At
        <3> QED BY <3>2, <3>3, <3>5, <3>6 DEF ChecksHold
    <2> QED BY <2>4, <2>5
<1>4. \A u \in Matches(r) : u \in Users
    BY DEF Matches
<1> QED BY <1>2, <1>3, <1>4 DEF CheckNumber

(* The update of the profile takes the entry of its number in the index of *)
(* the constraint: it is free, and nobody else is about to have it.        *)
LEMMA SetProfileDistinct ==
    ASSUME IInv, Exact, Folded, NEW r \in Clients, SetProfile(r)
    PROVE  Exact' /\ Folded'
<1> DEFINE d == ProfileDraft(r)
           n == d["employeeNumber"]
           t == [tx[r] EXCEPT !.pc = "commit", !.changed = d,
                              !.draft = [@ EXCEPT !["department"] = DepartmentDraft(r)]]
           idle == [Idle EXCEPT !.response = "500"]
<1>1. /\ tx[r] \in Sessions /\ tx[r].pc = "set"
      /\ profiles' = profiles /\ overlapped' = overlapped
    BY SessionFacts DEF SetProfile, At, rows
<1>2. ASSUME Abort(r) PROVE Exact' /\ Folded'
    <2>1. idle.pc = "idle" /\ Update(r, idle)
        BY <1>2 DEF Idle, Abort
    <2> HIDE DEF idle
    <2> QED BY <1>1, <2>1, IndifferentMoves, IndifferentKeeps
<1>3. ASSUME Update(r, t), n \in Value => ~NumberTaken(r, n) PROVE Exact' /\ Folded'
    <2>1. t.pc = "commit" /\ t.changed = d /\ t.target = tx[r].target
        BY <1>1 DEF Sessions
    <2>2. tx'[r] = t /\ \A s \in Clients : s # r => tx'[s] = tx[s]
        BY <1>3 DEF Update, IInv, TypeOK
    <2>3. n \in {tx[r].want["employeeNumber"], UNSET} /\ UNSET \notin Value
        BY ScimUsersAssumption DEF ProfileDraft, Want, Enterprise
    <2>4. ASSUME n \in Value, NEW s \in Clients \ {r}, At(s, "commit")
          PROVE  NewNumber(s) # n
        <3>1. s \in Others(r) /\ s \notin Waits(r)
            BY <2>4 DEF Others, At, SetProfile, Granted
        <3>2. ~WaitsAtSet(r, s)
            BY <1>1, <3>1 DEF Waits, At
        <3> QED BY <2>4, <3>2 DEF WaitsAtSet, ClaimsNumber, NewNumber
    <2>5. n \in Value => Free(n, tx[r].target)
        BY <1>3 DEF NumberTaken, Free, Number, Numbered
    <2> HIDE DEF t, d
    <2>6. Numbered' = Numbered /\ \A u \in Users : Number(u)' = Number(u)
        BY <1>1 DEF Numbered, Number
    <2>7. /\ NewNumber(r)' = n /\ tx'[r].target = tx[r].target
          /\ (Commits(r)' <=> n \in Value) /\ ~Checked(r)'
        BY <2>1, <2>2 DEF NewNumber, Commits, Checked, At
    <2>8. \A s \in Clients \ {r} : /\ NewNumber(s)' = NewNumber(s)
                                   /\ WantedNumber(s)' = WantedNumber(s)
                                   /\ tx'[s].target = tx[s].target
                                   /\ At(s, "commit")' <=> At(s, "commit")
                                   /\ Commits(s)' <=> Commits(s)
                                   /\ Checked(s)' <=> Checked(s)
        BY <2>2 DEF NewNumber, WantedNumber, At, Commits, Checked
    <2>9. Exact'
        <3>1. RowsDistinct'
            BY <2>6 DEF Exact, RowsDistinct, Free, Numbered
        <3>2. ASSUME NEW s \in Clients, Commits(s)'
              PROVE  Free(NewNumber(s), tx[s].target)'
            <4>1. CASE s = r
                BY <2>5, <2>6, <2>7, <3>2, <4>1 DEF Free, Numbered
            <4>2. CASE s # r
                <5>1. Free(NewNumber(s), tx[s].target)
                    BY <2>8, <3>2, <4>2 DEF Exact, CommitsDistinct
                <5> QED BY <2>6, <2>8, <4>2, <5>1 DEF Free, Numbered
            <4> QED BY <4>1, <4>2
        <3>3. ASSUME NEW s \in Clients, Commits(s)', NEW q \in Clients \ {s}, At(q, "commit")'
              PROVE  NewNumber(q)' # NewNumber(s)'
            BY <2>4, <2>7, <2>8, <3>3 DEF Exact, CommitsDistinct, Commits
        <3> QED BY <3>1, <3>2, <3>3 DEF Exact, CommitsDistinct
    <2>10. Folded'
        <3> SUFFICES ASSUME ~overlapped' PROVE (RowsDiffer /\ ChecksHold)'
            BY DEF Folded
        <3>1. RowsDiffer /\ ChecksHold
            BY <1>1 DEF Folded
        <3>2. RowsDiffer'
            BY <2>6, <3>1 DEF RowsDiffer, FreeIgnoringCase, Numbered
        <3>3. ASSUME NEW s \in Clients, s # r
              PROVE  /\ Checked(s)' => FreeIgnoringCase(WantedNumber(s), tx[s].target)'
                     /\ Commits(s)' => FreeIgnoringCase(NewNumber(s), tx[s].target)'
            BY <2>6, <2>8, <3>1, <3>3 DEF ChecksHold, FreeIgnoringCase, Numbered
        <3>4. n \in Value => FreeIgnoringCase(n, tx[r].target)
            BY <1>1, <2>3, <3>1 DEF ChecksHold, Checked, WantedNumber
        <3>5. Commits(r)' => FreeIgnoringCase(NewNumber(r), tx[r].target)'
            BY <2>6, <2>7, <3>4 DEF FreeIgnoringCase, Numbered
        <3> QED BY <2>7, <3>2, <3>3, <3>5 DEF ChecksHold
    <2> QED BY <2>9, <2>10
<1> QED BY <1>2, <1>3 DEF SetProfile

(* The number of the row a commit has written: the new one or the old one. *)
LEMMA CommittedNumber ==
    ASSUME IInv, NEW r \in Clients, Commit(r), NEW u \in Users, u = tx[r].target
    PROVE  /\ \A v \in Users \ {u} : profiles'[v] = profiles[v]
           /\ u \in Numbered' =>
                 \/ u \in Numbered /\ Number(u)' = Number(u)
                 \/ Commits(r) /\ Number(u)' = NewNumber(r)
<1> DEFINE c == tx[r].changed
           old == IF tx[r].creates THEN NoProfile ELSE profiles[u]
<1>1. /\ ~tx[r].creates /\ Changes(r) = {} => profiles' = profiles
      /\ tx[r].creates \/ Changes(r) # {} =>
            profiles' = [profiles EXCEPT ![u] = Written(old, c)]
                /\ (tx[r].creates <=> profiles[u] = None)
      /\ At(r, "commit") /\ profiles \in [Users -> Profile \cup {None}]
    BY CommittedRows DEF Commit, IInv, TypeOK
<1>2. /\ c \in [Enterprise -> Value \cup {None, UNSET}] /\ "employeeNumber" \in Enterprise
      /\ None \notin Value /\ UNSET \notin Value
    BY SessionFacts, ScimUsersAssumption DEF Sessions, ProfileDrafts, Enterprise
<1>3. \A v \in Users \ {u} : profiles'[v] = profiles[v]
    BY <1>1
<1>4. ASSUME tx[r].creates \/ Changes(r) # {}, u \in Numbered'
      PROVE  \/ u \in Numbered /\ Number(u)' = Number(u)
             \/ Commits(r) /\ Number(u)' = NewNumber(r)
    <2>1. Number(u)' = IF c["employeeNumber"] = UNSET THEN old["employeeNumber"]
                       ELSE c["employeeNumber"]
        BY <1>1, <1>2, <1>4 DEF Number, Written
    <2>2. Number(u)' # None
        BY <1>4 DEF Numbered, Number
    <2>3. NoProfile["employeeNumber"] = None
        BY <1>2 DEF NoProfile
    <2> QED BY <1>1, <1>2, <1>4, <2>1, <2>2, <2>3 DEF Commits, NewNumber, Numbered, Number
<1>5. ASSUME ~tx[r].creates /\ Changes(r) = {}, u \in Numbered'
      PROVE  u \in Numbered /\ Number(u)' = Number(u)
    BY <1>1, <1>5 DEF Numbered, Number
<1> QED BY <1>3, <1>4, <1>5

LEMMA CommitDistinct ==
    ASSUME IInv, Serial, Exact, Folded, NEW r \in Clients, Commit(r)
    PROVE  Exact' /\ Folded'
<1>1. PICK u \in Users : u = tx[r].target
    BY CommittedRows
<1>2. /\ \A v \in Users \ {u} : (v \in Numbered' <=> v \in Numbered) /\ Number(v)' = Number(v)
      /\ u \in Numbered' =>
            \/ u \in Numbered /\ Number(u)' = Number(u)
            \/ Commits(r) /\ Number(u)' = NewNumber(r)
      /\ Numbered \subseteq Users /\ Numbered' \subseteq Users
    BY <1>1, CommittedNumber DEF Numbered, Number
<1>3. /\ tx[r] \in Sessions /\ tx[r].pc = "commit" /\ overlapped' = overlapped
      /\ tx'[r].pc = "publish" /\ \A s \in Clients : s # r => tx'[s] = tx[s]
    BY SessionFacts DEF Commit, At, Goto, Update, IInv, TypeOK, Sessions
<1>4. /\ ~Commits(r)' /\ ~Checked(r)'
      /\ \A s \in Clients \ {r} : /\ NewNumber(s)' = NewNumber(s)
                                  /\ WantedNumber(s)' = WantedNumber(s)
                                  /\ tx'[s].target = tx[s].target
                                  /\ At(s, "commit")' <=> At(s, "commit")
                                  /\ Commits(s)' <=> Commits(s)
                                  /\ Checked(s)' <=> Checked(s)
    BY <1>3 DEF NewNumber, WantedNumber, At, Commits, Checked
<1>5. Exact'
    <2>1. RowsDistinct'
        <3> SUFFICES ASSUME NEW v \in Numbered', NEW w \in Numbered', v # w
                     PROVE  Number(v)' # Number(w)'
            BY DEF RowsDistinct, Free
        <3>1. Commits(r) => \A x \in Numbered \ {u} : Number(x) # NewNumber(r)
            BY <1>1 DEF Exact, CommitsDistinct, Free
        <3>2. \A x, y \in Numbered : x # y => Number(x) # Number(y)
            BY DEF Exact, RowsDistinct, Free
        <3> QED BY <1>2, <3>1, <3>2
    <2>2. ASSUME NEW s \in Clients, Commits(s)'
          PROVE  /\ Free(NewNumber(s), tx[s].target)'
                 /\ \A q \in Clients \ {s} : At(q, "commit")' => NewNumber(q)' # NewNumber(s)'
        <3>1. s # r /\ Commits(s)
            BY <1>4, <2>2
        <3>2. /\ \A x \in Numbered \ {tx[s].target} : Number(x) # NewNumber(s)
              /\ NewNumber(r) # NewNumber(s)
            BY <1>3, <3>1 DEF Exact, CommitsDistinct, Free, At
        <3>3. Free(NewNumber(s), tx[s].target)'
            BY <1>2, <1>4, <3>1, <3>2 DEF Free
        <3>4. \A q \in Clients \ {s} : At(q, "commit")' => q # r
            BY <1>3 DEF At
        <3> QED BY <1>4, <3>1, <3>3, <3>4 DEF Exact, CommitsDistinct
    <2> QED BY <2>1, <2>2 DEF Exact, CommitsDistinct
<1>6. ASSUME ~overlapped PROVE (RowsDiffer /\ ChecksHold)'
    <2>1. RowsDiffer /\ ChecksHold /\ Alone
        BY <1>6, SerialFacts DEF Folded
    <2>2. \A s \in Clients : ~Commits(s)' /\ ~Checked(s)'
        BY <1>3, <1>4, <2>1 DEF Alone, Busy, At, Commits, Checked
    <2>3. RowsDiffer'
        <3> SUFFICES ASSUME NEW v \in Numbered', NEW w \in Numbered', v # w
                     PROVE  Lower[Number(v)'] # Lower[Number(w)']
            BY DEF RowsDiffer, FreeIgnoringCase
        <3>1. Commits(r) => \A x \in Numbered \ {u} : Lower[Number(x)] # Lower[NewNumber(r)]
            BY <1>1, <2>1 DEF ChecksHold, FreeIgnoringCase
        <3>2. \A x, y \in Numbered : x # y => Lower[Number(x)] # Lower[Number(y)]
            BY <2>1 DEF RowsDiffer, FreeIgnoringCase
        <3> QED BY <1>2, <3>1, <3>2
    <2> QED BY <2>2, <2>3 DEF ChecksHold
<1> QED BY <1>3, <1>5, <1>6 DEF Folded

LEMMA NextDistinct ==
    IInv /\ Serial /\ Exact /\ Folded /\ [Next]_vars => Exact' /\ Folded'
<1> SUFFICES ASSUME IInv, Serial, Exact, Folded, [Next]_vars PROVE Exact' /\ Folded'
    OBVIOUS
<1>1. ASSUME NEW r \in Clients, NEW q \in Workload, Ask(r, q) PROVE Exact' /\ Folded'
    BY <1>1, AskDistinct
<1>2. ASSUME NEW r \in Clients, Moves(r) PROVE Exact' /\ Folded'
    <2>1. overlapped' = overlapped
        BY <1>2 DEF Moves, Step, Load, CheckName, WriteUser, LoadProfile, InsertProfile,
           CheckNumber, FindManager, Walk, SetProfile, Commit, Publish, Deny,
           Aborts, Fail, BreakDeadlock
    <2>2. CASE ~CheckNumber(r) /\ ~SetProfile(r) /\ ~Commit(r)
        BY <1>2, <2>1, <2>2, IndifferentSteps, IndifferentKeeps
    <2> QED BY <2>2, CheckNumberDistinct, SetProfileDistinct, CommitDistinct
<1>3. CASE UNCHANGED vars
    <2>1. UNCHANGED <<profiles, overlapped, tx>>
        BY <1>3 DEF vars
    <2>2. Numbered' = Numbered /\ \A u : Number(u)' = Number(u)
        BY <2>1 DEF Numbered, Number
    <2>3. Exact'
        BY <2>1, <2>2 DEF Exact, RowsDistinct, CommitsDistinct, Free, Commits, At, NewNumber
    <2>4. Folded'
        BY <2>1, <2>2 DEF Folded, RowsDiffer, ChecksHold, FreeIgnoringCase, Commits, Checked,
           At, NewNumber, WantedNumber
    <2> QED BY <2>3, <2>4
<1> QED BY <1>1, <1>2, <1>3 DEF Next, Moves

LEMMA InitDistinct == Init => Exact /\ Folded
<1> SUFFICES ASSUME Init PROVE Exact /\ Folded
    OBVIOUS
<1>1. \A r \in Clients : tx[r].pc = "idle"
    BY DEF Init, Idle
<1>2. \A u, v \in Numbered : u # v => Lower[Number(u)] # Lower[Number(v)]
    BY ScimUsersAssumption DEF Init, Numbered, Number
<1>3. RowsDistinct /\ RowsDiffer
    BY <1>2 DEF RowsDistinct, RowsDiffer, Free, FreeIgnoringCase
<1> QED BY <1>1, <1>3 DEF Exact, Folded, CommitsDistinct, ChecksHold, Commits, Checked, At

(***************************************************************************)
(* However many requests overlap, no two profiles hold the same employee   *)
(* number; and as long as none do, no two hold numbers that differ in case *)
(* only.                                                                   *)
(***************************************************************************)
THEOREM NumbersStayUnique == Spec => []NumbersUnique
<1>1. Init /\ [][Next]_vars /\ []IInv /\ []Serial => [](Exact /\ Folded)
    BY InitDistinct, NextDistinct, PTL
<1>2. Exact /\ Folded => NumbersUnique
    BY DEF Exact, Folded, RowsDistinct, RowsDiffer, Free, FreeIgnoringCase, Number,
       NumbersUnique
<1> QED BY <1>1, <1>2, IInvHolds, SerialHolds, PTL DEF Spec
=============================================================================
