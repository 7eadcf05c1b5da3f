------------------------------ MODULE ScimGroups ------------------------------
(***************************************************************************)
(* Provisioning of groups and their members over SCIM                      *)
(* (app/scim/group_provisioning.py, app/services/group_service.py).  A     *)
(* request changes the group in the memory of its session; the flush at    *)
(* its end writes the difference to what was loaded: the group row, then   *)
(* the new members one by one, then the deletions, as SQLAlchemy orders    *)
(* them.  Statements run at READ COMMITTED.                                *)
(***************************************************************************)
EXTENDS Naturals, Sequences, FiniteSets, SequencesExt

CONSTANTS
    Clients,         \* concurrent request threads
    Groups,          \* group ids
    Users,           \* ids of the users there are
    Strangers,       \* ids of no user
    Names,           \* display names
    Lower,           \* [Names -> the name in lower case]
    None,            \* NULL, no row
    Malformed,       \* a value the parser rejects
    InitialGroups,   \* [Groups -> name or None]
    InitialMembers,  \* SUBSET Groups \X Users
    Workload,        \* the requests clients make, as they are sent
    MaxRequests,     \* requests made in all (bound)
    MaxFailures      \* statements the database fails (bound)

Ids == Users \cup Strangers

Sent(a) == IF a = "displayName" THEN Names \cup {Malformed}
           ELSE Seq(Ids \cup {Malformed}) \cup {Malformed}

Resources == [kind : {"create", "replace"}, group : Groups \cup {None},
              name : Sent("displayName"), members : Sent("members")]

ASSUME ScimGroupsAssumption ==
    /\ Users \cap Strangers = {} /\ None \notin Groups \cup Names /\ None \notin Workload
    /\ Lower \in [Names -> Names]
    /\ InitialGroups \in [Groups -> Names \cup {None}]
    /\ \A g, h \in {k \in Groups : InitialGroups[k] # None} :
          Lower[InitialGroups[g]] = Lower[InitialGroups[h]] => g = h
    /\ \A m \in InitialMembers : m \in Groups \X Users /\ InitialGroups[m[1]] # None
    /\ MaxRequests \in Nat /\ MaxFailures \in Nat

-----------------------------------------------------------------------------
(* A raw PATCH operation sets the attribute its path names or, without a   *)
(* path, one of those of its value: members only if there is no name.      *)
Fields(o) == IF o.path = "none" THEN o.value ELSE [a \in {o.path} |-> o.value]

Attribute(o) ==
    CASE "displayName" \in DOMAIN Fields(o) -> "displayName"
      [] o.path = "filter"                  -> "filter"
      [] OTHER                              -> "members"

MembersParse(v) == v # Malformed /\ \A i \in DOMAIN v : v[i] # Malformed

(* Mutant: the value is not looked at. *)
OperationParsesUnread(o) ==
    LET a == Attribute(o) IN
    /\ o.op \in {"add", "replace", "remove"} /\ a \in DOMAIN Fields(o)
    /\ o.path = "none" => o.op # "remove"
    /\ IF a = "displayName" THEN o.op # "remove" ELSE MembersParse(Fields(o)[a])

OperationParses(o) ==
    LET a == Attribute(o) IN
    /\ o.op \in {"add", "replace", "remove"} /\ a \in DOMAIN Fields(o)
    /\ o.path = "none" => o.op # "remove"
    /\ IF a = "displayName" THEN o.op # "remove" /\ Fields(o)[a] # Malformed
       ELSE MembersParse(Fields(o)[a]) /\ (a = "filter" => o.op = "remove")

Operation(o) ==
    LET a == Attribute(o)
    IN  [op |-> o.op, path |-> IF a = "filter" THEN "members" ELSE a,
         value |-> Fields(o)[a]]

ASSUME WorkloadAssumption ==
    \A q \in Workload :
        IF q.kind # "patch" THEN q \in Resources
        ELSE /\ q.operations \in Seq(ToSet(q.operations))
             /\ \A i \in DOMAIN q.operations :
                    LET o == q.operations[i] IN
                    \A a \in DOMAIN Fields(o) : Fields(o)[a] \in Sent(a)

Parses(q) ==
    IF q.kind = "patch"
      THEN q.operations # <<>> /\ \A i \in DOMAIN q.operations : OperationParses(q.operations[i])
      ELSE q.name # Malformed /\ MembersParse(q.members)

(* What there is to do: POST and PUT set the name and then the members.    *)
Plan(q) ==
    IF q.kind = "patch" THEN [i \in DOMAIN q.operations |-> Operation(q.operations[i])]
    ELSE <<[op |-> "replace", path |-> "displayName", value |-> q.name],
           [op |-> "replace", path |-> "members", value |-> q.members]>>

(* Mutant: the last operation names the action. *)
PatchActionOfLast(plan) ==
    IF plan[Len(plan)].path = "displayName" THEN "rename"
    ELSE CASE plan[Len(plan)].op = "replace" -> "members_replace"
           [] plan[Len(plan)].op = "add"     -> "member_add"
           [] OTHER                          -> "member_remove"

(* _audit_action_for_patch.                                                *)
PatchAction(plan) ==
    LET on(op) == \E i \in DOMAIN plan : plan[i].path = "members" /\ plan[i].op = op
    IN  CASE on("replace") -> "members_replace"
          [] ~on("replace") /\ on("add") -> "member_add"
          [] ~on("replace") /\ ~on("add") /\ on("remove") -> "member_remove"
          [] OTHER -> "rename"

-----------------------------------------------------------------------------
VARIABLES
    groups,      \* groups: [Groups -> display name or None]
    members,     \* group_members: rows [group, user, by], by the request that inserted it
    audit,       \* audit_events
    published,   \* <<group, event>> pairs, in the order they were published
    asked,       \* requests made so far
    failed,      \* statements that have failed so far
    overlapped,  \* some request was received while another was in flight
    tx           \* [Clients -> the request in hand and its session]

vars == <<groups, members, audit, published, asked, failed, overlapped, tx>>

MemberRow == [group : Groups, user : Users, by : Nat]
NewMember == [turn : Nat, place : Nat, user : Users]

(* base and rows are the group's name and members as they were loaded,     *)
(* name, kept and fresh what they are in memory, the new members with the  *)
(* operations that were left to do and their place in the one that added   *)
(* them; wrote, put and cut what the flush has written of the group row,   *)
(* the new and the old members.                                            *)
Idle == [pc |-> "idle", ask |-> None, number |-> 0, todo |-> <<>>, group |-> None,
         base |-> None, name |-> None, loaded |-> FALSE, rows |-> {}, kept |-> {},
         fresh |-> {}, events |-> <<>>, wrote |-> FALSE, put |-> {}, cut |-> FALSE,
         response |-> "none"]

Init ==
    /\ groups = InitialGroups
    /\ members = {[group |-> m[1], user |-> m[2], by |-> 0] : m \in InitialMembers}
    /\ audit = {} /\ published = <<>>
    /\ asked = 0 /\ failed = 0 /\ overlapped = FALSE
    /\ tx = [r \in Clients |-> Idle]

Rows(g) == {m \in members : m.group = g}
UsersIn(rows) == {m.user : m \in rows}
Present(t) == UsersIn(t.kept) \cup UsersIn(t.fresh)
Dropped(t) == t.rows \ t.kept

(* The new member that was added first.                                    *)
Soonest(t) ==
    {m \in t.fresh :
        \A n \in t.fresh : m.turn > n.turn \/ (m.turn = n.turn /\ m.place <= n.place)}

At(r, label) == tx[r].pc = label
Update(r, t) == tx' = [tx EXCEPT ![r] = t]
Refuse(r, status) ==
    Update(r, [Idle EXCEPT !.pc = "deny", !.number = tx[r].number, !.response = status])
Abort(r) == Update(r, [Idle EXCEPT !.number = tx[r].number, !.response = "500"])

(* What comes after an operation, and after a statement of the flush.      *)
Onward(t) == [t EXCEPT !.pc = IF t.todo = <<>> THEN "write" ELSE "work"]
Flush(t) == [t EXCEPT !.pc = IF t.fresh # {} THEN "insert"
                             ELSE IF Dropped(t) # {} /\ ~t.cut THEN "delete"
                             ELSE "commit"]

-----------------------------------------------------------------------------
(* Row and index locks.  The display name is a key: while it is changed no *)
(* member row can be written that refers to the group, and the reverse.    *)
Others(r) == {s \in Clients \ {r} : tx[s].pc \notin {"publish", "reread"} /\ tx[s].group # None}
Same(r, s) == tx[s].group = tx[r].group

WaitsAtWrite(r, s) ==
    /\ tx[r].name # tx[r].base
    /\ \/ tx[s].wrote /\ (tx[r].name \in {tx[s].name, tx[s].base} \/ Same(r, s))
       \/ Same(r, s) /\ tx[s].put # {}

WaitsAtInsert(r, s) ==
    /\ Same(r, s)
    /\ \/ tx[s].wrote
       \/ \E m \in Soonest(tx[r]) :
             m.user \in tx[s].put \cup IF tx[s].cut THEN UsersIn(Dropped(tx[s])) ELSE {}

WaitsAtDelete(r, s) ==
    Same(r, s) /\ tx[s].cut /\ Dropped(tx[r]) \cap Dropped(tx[s]) # {}

Waits(r) ==
    {s \in Others(r) : CASE At(r, "write")  -> WaitsAtWrite(r, s)
                         [] At(r, "insert") -> WaitsAtInsert(r, s)
                         [] At(r, "delete") -> WaitsAtDelete(r, s)
                         [] OTHER           -> FALSE}

Granted(r) == Waits(r) = {}

(* The requests of a cycle of waits.                                       *)
Deadlocked(r) ==
    \E cycle \in SUBSET Clients :
       /\ r \in cycle
       /\ \A s \in cycle : Waits(s) \cap cycle # {}
       /\ \A part \in SUBSET cycle \ {{}, cycle} : \E s \in part : Waits(s) \cap part = {}

-----------------------------------------------------------------------------
Busy(r) == ~At(r, "idle")

(* Requests that are to insert a group (bound: Groups has an id for each). *)
Creating == {s \in Clients : Busy(s) /\ tx[s].ask # None /\ tx[s].ask.kind = "create"
                             /\ tx[s].group = None}
FreeIds == {g \in Groups : groups[g] = None /\ \A s \in Clients : tx[s].group # g}

Ask(r, q) ==
    /\ At(r, "idle") /\ asked < MaxRequests
    /\ q.kind = "create" => Cardinality(FreeIds) > Cardinality(Creating)
    /\ asked' = asked + 1
    /\ overlapped' = (overlapped \/ \E s \in Clients \ {r} : Busy(s))
    /\ Update(r, IF ~Parses(q)
                 THEN [Idle EXCEPT !.pc = "deny", !.number = asked + 1, !.response = "400"]
                 ELSE [Idle EXCEPT !.pc = IF q.kind = "create" THEN "work" ELSE "load",
                                   !.ask = q, !.number = asked + 1, !.todo = Plan(q),
                                   !.loaded = (q.kind = "create")])
    /\ UNCHANGED <<groups, members, audit, published, failed>>

(* find_group.                                                             *)
Load(r) ==
    LET g == tx[r].ask.group IN
    /\ At(r, "load")
    /\ IF g \notin Groups \/ groups[g] = None THEN Refuse(r, "404")
       ELSE Update(r, [tx[r] EXCEPT !.pc = "work", !.group = g, !.base = groups[g],
                                    !.name = groups[g]])
    /\ UNCHANGED <<groups, members, audit, published, asked, failed, overlapped>>

(* check_duplicate_group ignores case and looks at one match; its mutant   *)
(* compares as the constraint does.                                        *)
NamesakesExactly(n) == {g \in Groups : groups[g] = n}
Namesakes(n) == {g \in Groups : groups[g] # None /\ Lower[groups[g]] = Lower[n]}

Rename(r) ==
    LET t == tx[r]
        n == Head(t.todo).value
        renamed == [t EXCEPT
            !.todo = Tail(@), !.name = n,
            !.events = IF t.ask.kind = "create" \/ n = t.name THEN @
                       ELSE Append(@, [type |-> "GroupUpdated", value |-> n])]
    IN
    /\ At(r, "work") /\ Head(t.todo).path = "displayName"
    /\ IF (t.ask.kind = "patch" /\ n = t.name) \/ Namesakes(n) = {}
         THEN Update(r, Onward(renamed))
         ELSE \E g \in Namesakes(n) : IF g = t.group THEN Update(r, Onward(renamed))
                                      ELSE Refuse(r, "409")
    /\ UNCHANGED <<groups, members, audit, published, asked, failed, overlapped>>

-----------------------------------------------------------------------------
(* The operations on the members in memory: of the ids vs, the i-th cannot *)
(* be added, or removed.                                                   *)
Earlier(vs, i) == {vs[j] : j \in 1..(i - 1)}

CannotAdd(t, vs, i) == vs[i] \notin Users \/ vs[i] \in Present(t) \cup Earlier(vs, i)
CannotRemove(t, vs, i) == vs[i] \notin Present(t) \ Earlier(vs, i)

Bad(t, o) ==
    {i \in DOMAIN o.value : \/ o.op = "add" /\ CannotAdd(t, o.value, i)
                            \/ o.op = "remove" /\ CannotRemove(t, o.value, i)}

(* The first id that is no user, or no member, or one already, is what an  *)
(* operation complains of; _replace_members complains of duplicates before *)
(* it looks for users.                                                     *)
Complaint(t, o) ==
    IF o.op = "replace"
      THEN IF ~IsInjective(o.value) THEN "409"
           ELSE IF ToSet(o.value) \subseteq Users THEN "none" ELSE "400"
      ELSE IF Bad(t, o) = {} THEN "none"
           ELSE IF \E i \in Bad(t, o) :
                      /\ \A j \in Bad(t, o) : i <= j
                      /\ o.op = "remove" \/ o.value[i] \notin Users
             THEN "400" ELSE "409"

Added(t, o) ==
    {[turn |-> Len(t.todo), place |-> i, user |-> o.value[i]] : i \in DOMAIN o.value}

Without(rows, o) == {m \in rows : m.user \notin ToSet(o.value)}

(* Mutants: a member that is replaced stays in memory, a stored one or one *)
(* that is yet to be stored.                                               *)
AppliedKeeping(t, o) ==
    CASE o.op = "replace" -> [t EXCEPT !.fresh = Added(t, o)]
      [] o.op = "add"     -> [t EXCEPT !.fresh = @ \cup Added(t, o)]
      [] o.op = "remove"  -> [t EXCEPT !.kept = Without(@, o)]

AppliedPiling(t, o) ==
    CASE o.op = "replace" -> [t EXCEPT !.kept = {}, !.fresh = @ \cup Added(t, o)]
      [] o.op = "add"     -> [t EXCEPT !.fresh = @ \cup Added(t, o)]
      [] o.op = "remove"  -> [t EXCEPT !.kept = Without(@, o), !.fresh = Without(@, o)]

Applied(t, o) ==
    CASE o.op = "replace" -> [t EXCEPT !.kept = {}, !.fresh = Added(t, o)]
      [] o.op = "add"     -> [t EXCEPT !.fresh = @ \cup Added(t, o)]
      [] o.op = "remove"  -> [t EXCEPT !.kept = Without(@, o), !.fresh = Without(@, o)]

Announced(t, o) ==
    CASE o.op = "replace" ->
           IF t.ask.kind = "create" /\ o.value = <<>> THEN <<>>
           ELSE <<[type |-> "GroupMembershipReplaced", users |-> ToSet(o.value)]>>
      [] o.op = "add" ->
           [i \in DOMAIN o.value |-> [type |-> "GroupMembershipAdded", value |-> o.value[i]]]
      [] o.op = "remove" ->
           [i \in DOMAIN o.value |-> [type |-> "GroupMembershipRemoved", value |-> o.value[i]]]

(* The first use of group.memberships loads the rows there are now.        *)
ChangeMembers(r) ==
    LET o == Head(tx[r].todo)
        loaded == IF tx[r].loaded THEN tx[r]
                  ELSE [tx[r] EXCEPT !.loaded = TRUE, !.rows = Rows(tx[r].group),
                                     !.kept = Rows(tx[r].group)]
    IN
    /\ At(r, "work") /\ o.path = "members"
    /\ IF Complaint(loaded, o) # "none" THEN Refuse(r, Complaint(loaded, o))
       ELSE Update(r, Onward([Applied(loaded, o) EXCEPT
                                 !.todo = Tail(@), !.events = @ \o Announced(loaded, o)]))
    /\ UNCHANGED <<groups, members, audit, published, asked, failed, overlapped>>

-----------------------------------------------------------------------------
NameTaken(r) == \E g \in Groups \ {tx[r].group} : groups[g] = tx[r].name

(* INSERT or, if the name differs, UPDATE of the group.                    *)
WriteGroup(r) ==
    LET t == tx[r] IN
    /\ At(r, "write") /\ Granted(r)
    /\ IF t.name # t.base /\ NameTaken(r) THEN Abort(r)
       ELSE IF t.ask.kind # "create"
         THEN Update(r, Flush([t EXCEPT !.wrote = (t.name # t.base)]))
         ELSE \E g \in FreeIds : Update(r, Flush([t EXCEPT !.wrote = TRUE, !.group = g]))
    /\ UNCHANGED <<groups, members, audit, published, asked, failed, overlapped>>

(* uq_group_members_group_user: a row that is yet to be deleted counts.    *)
InsertMember(r) ==
    /\ At(r, "insert") /\ Granted(r)
    /\ \E m \in Soonest(tx[r]) :
          IF m.user \in UsersIn(Rows(tx[r].group)) THEN Abort(r)
          ELSE Update(r, Flush([tx[r] EXCEPT !.fresh = @ \ {m}, !.put = @ \cup {m.user}]))
    /\ UNCHANGED <<groups, members, audit, published, asked, failed, overlapped>>

(* Rows that are gone by now only cause a warning.                         *)
DeleteMembers(r) ==
    /\ At(r, "delete") /\ Granted(r)
    /\ Update(r, Flush([tx[r] EXCEPT !.cut = TRUE]))
    /\ UNCHANGED <<groups, members, audit, published, asked, failed, overlapped>>

AuditAction(t) == CASE t.ask.kind = "create"  -> "create"
                    [] t.ask.kind = "replace" -> "update"
                    [] OTHER                  -> PatchAction(Plan(t.ask))

NewRows(t) == {[group |-> t.group, user |-> u, by |-> t.number] : u \in t.put}

(* Mutant of Commit: the deletions match the rows by group. *)
CommitWholeGroup(r) ==
    LET t == tx[r] IN
    /\ At(r, "commit")
    /\ groups' = IF t.wrote THEN [groups EXCEPT ![t.group] = t.name] ELSE groups
    /\ members' = (IF Dropped(t) = {} THEN members ELSE members \ Rows(t.group)) \cup NewRows(t)
    /\ audit' = audit \cup {[number |-> t.number, action |-> AuditAction(t),
                             result |-> "succeeded"]}
    /\ Update(r, [t EXCEPT !.pc = "publish"])
    /\ UNCHANGED <<published, asked, failed, overlapped>>

Commit(r) ==
    LET t == tx[r] IN
    /\ At(r, "commit")
    /\ groups' = IF t.wrote THEN [groups EXCEPT ![t.group] = t.name] ELSE groups
    /\ members' = (members \ Dropped(t)) \cup NewRows(t)
    /\ audit' = audit \cup {[number |-> t.number, action |-> AuditAction(t),
                             result |-> "succeeded"]}
    /\ Update(r, [t EXCEPT !.pc = "publish"])
    /\ UNCHANGED <<published, asked, failed, overlapped>>

Events(t) ==
    (IF t.ask.kind = "create" THEN <<[type |-> "GroupCreated", value |-> t.name]>> ELSE <<>>)
      \o t.events

Publish(r) ==
    /\ At(r, "publish")
    /\ published' = published \o [i \in DOMAIN Events(tx[r]) |-> <<tx[r].group, Events(tx[r])[i]>>]
    /\ Update(r, [tx[r] EXCEPT !.pc = "reread"])
    /\ UNCHANGED <<groups, members, audit, asked, failed, overlapped>>

(* refresh, which can fail although all is done.                           *)
Reread(r) ==
    /\ At(r, "reread")
    /\ Update(r, [Idle EXCEPT !.number = tx[r].number, !.response = "ok"])
    /\ UNCHANGED <<groups, members, audit, published, asked, failed, overlapped>>

Deny(r) ==
    /\ At(r, "deny")
    /\ audit' = audit \cup {[number |-> tx[r].number, action |-> "failure", result |-> "denied"]}
    /\ Update(r, [Idle EXCEPT !.number = tx[r].number, !.response = tx[r].response])
    /\ UNCHANGED <<groups, members, published, asked, failed, overlapped>>

(* A statement or the commit fails: what is not committed is rolled back.  *)
Fail(r) ==
    /\ Busy(r) /\ ~At(r, "publish") /\ failed < MaxFailures
    /\ failed' = failed + 1
    /\ Abort(r)
    /\ UNCHANGED <<groups, members, audit, published, asked, overlapped>>

(* PostgreSQL breaks a cycle of waits by failing one of its statements.    *)
BreakDeadlock(r) ==
    /\ Deadlocked(r)
    /\ Abort(r)
    /\ UNCHANGED <<groups, members, audit, published, asked, failed, overlapped>>

Step(r) ==
    \/ Load(r) \/ Rename(r) \/ ChangeMembers(r)
    \/ WriteGroup(r) \/ InsertMember(r) \/ DeleteMembers(r)
    \/ Commit(r) \/ Publish(r) \/ Reread(r) \/ Deny(r) \/ BreakDeadlock(r)

Next == \E r \in Clients : Step(r) \/ Fail(r) \/ \E q \in Workload : Ask(r, q)

Spec == Init /\ [][Next]_vars
-----------------------------------------------------------------------------
EventRow ==
    [type : {"GroupCreated", "GroupUpdated"}, value : Names]
      \cup [type : {"GroupMembershipAdded", "GroupMembershipRemoved"}, value : Users]
      \cup [type : {"GroupMembershipReplaced"}, users : SUBSET Users]

Entries ==
    [number : Nat, result : {"succeeded", "denied"},
     action : {"create", "update", "rename", "member_add", "member_remove",
               "members_replace", "failure"}]

Operations ==
    [op : {"add", "replace"}, path : {"displayName"}, value : Names]
      \cup [op : {"add", "replace", "remove"}, path : {"members"}, value : Seq(Ids)]

Sessions ==
    [pc : {"idle", "load", "work", "write", "insert", "delete", "commit", "publish",
           "reread", "deny"},
     ask : Workload \cup {None}, number : Nat, todo : Seq(Operations),
     group : Groups \cup {None}, base : Names \cup {None}, name : Names \cup {None},
     loaded : BOOLEAN, rows : SUBSET MemberRow, kept : SUBSET MemberRow, fresh : SUBSET NewMember,
     events : Seq(EventRow), wrote : BOOLEAN, put : SUBSET Users, cut : BOOLEAN,
     response : {"none", "ok", "400", "404", "409", "500"}]

(* The tables hold rows of their types and every session what it may hold. *)
TypeOK ==
    /\ groups \in [Groups -> Names \cup {None}]
    /\ members \in SUBSET MemberRow
    /\ audit \in SUBSET Entries
    /\ published \in Seq(Groups \X EventRow)
    /\ asked \in Nat /\ failed \in Nat
    /\ overlapped \in BOOLEAN
    /\ tx \in [Clients -> Sessions]

(***************************************************************************)
(* What a subscriber knows that applies the events in the order of         *)
(* publication: the last one that concerns it names a group, and tells     *)
(* whether a user is a member.                                             *)
(***************************************************************************)
IsName(e) == e.type \in {"GroupCreated", "GroupUpdated"}

Concerns(e, u) ==
    \/ e.type = "GroupMembershipReplaced"
    \/ e.type \in {"GroupMembershipAdded", "GroupMembershipRemoved"} /\ e.value = u

Includes(e, u) == IF e.type = "GroupMembershipReplaced" THEN u \in e.users
                  ELSE e.type = "GroupMembershipAdded"

Latest(S) == {i \in S : \A j \in S : j <= i}

NamesHeard(g) == {i \in DOMAIN published : published[i][1] = g /\ IsName(published[i][2])}
MembersHeard(g, u) ==
    {i \in DOMAIN published : published[i][1] = g /\ Concerns(published[i][2], u)}

KnownAs(g, n) == IF NamesHeard(g) = {} THEN n = InitialGroups[g]
                 ELSE \E i \in Latest(NamesHeard(g)) : published[i][2].value = n
KnownMember(g, u) == IF MembersHeard(g, u) = {} THEN <<g, u>> \in InitialMembers
                     ELSE \E i \in Latest(MembersHeard(g, u)) : Includes(published[i][2], u)

(***************************************************************************)
(* The events published tell the whole story: whoever applies them in      *)
(* order ends up with the names and the members of the tables, whatever    *)
(* requests were refused or failed in between.  Requests that overlap      *)
(* publish in another order than they commit and replace what they have    *)
(* not seen: nothing is promised for them.                                 *)
(***************************************************************************)
EventsTellMembership ==
    ~overlapped /\ (\A r \in Clients : tx[r].pc \in {"idle", "reread"}) =>
        \A g \in Groups :
           /\ KnownAs(g, groups[g])
           /\ \A u \in Users : KnownMember(g, u) <=> u \in UsersIn(Rows(g))

(***************************************************************************)
(* "SCIM Group displayName must be unique": exactly always, by the         *)
(* constraint, and ignoring case, by check_duplicate_group, as long as no  *)
(* two requests overlap.  A user is a member of a group once.              *)
(***************************************************************************)
NamesUnique ==
    /\ \A g, h \in {k \in Groups : groups[k] # None} :
         g # h => groups[g] # groups[h] /\ (Lower[groups[g]] = Lower[groups[h]] => overlapped)
    /\ \A m, n \in members : m.group = n.group /\ m.user = n.user => m = n

(***************************************************************************)
(* The audit trail explains the members: every member was added by a       *)
(* request that is on record as having succeeded in a change that can add  *)
(* members, and nothing a refused or failed request did is left.           *)
(***************************************************************************)
MembersAreExplained ==
    \A m \in members : m.by # 0 =>
        \E e \in audit :
            /\ e.number = m.by /\ e.result = "succeeded"
            /\ e.action \in {"create", "update", "member_add", "members_replace"}

(***************************************************************************)
(* However requests overlap, a member is removed only by a request that    *)
(* had read this very membership: one added meanwhile is not lost.         *)
(***************************************************************************)
OnlySeenMembersGo ==
    [][\A m \in members \ members' :
         \E r \in Clients : At(r, "commit") /\ m \in tx[r].rows]_vars

(***************************************************************************)
(* docs/scim.md: "PUT /Groups/{id} replaces displayName and the            *)
(* membership set": a request that overlaps no other is answered with 500  *)
(* only if the database failed.                                            *)
(***************************************************************************)
ReplacementIsServed ==
    \A r \in Clients : tx[r].response = "500" => overlapped \/ failed > 0
=============================================================================
