-------------------------- MODULE ScimGroupsProofs --------------------------
(***************************************************************************)
(* Proofs about ScimGroups for any groups, users, names, workload of       *)
(* requests and number of requests that overlap.                           *)
(***************************************************************************)
EXTENDS ScimGroups, TLAPS

Flushing == {"insert", "delete", "commit"}
Done == {"publish", "reread"}
Open == {"work", "write"} \cup Flushing

(* What the events es tell of the members and of the name of a group.      *)
Silent(es, u) == \A i \in DOMAIN es : ~Concerns(es[i], u)
Tells(es, u) ==
    {i \in DOMAIN es : Concerns(es[i], u) /\ \A j \in DOMAIN es : Concerns(es[j], u) => j <= i}
TellsIn(es, u) == \E i \in Tells(es, u) : Includes(es[i], u)
TellsOut(es, u) == \E i \in Tells(es, u) : ~Includes(es[i], u)

Nameless(es) == \A i \in DOMAIN es : ~IsName(es[i])
Calls(es, n) ==
    \E i \in DOMAIN es : /\ IsName(es[i]) /\ es[i].value = n
                         /\ \A j \in DOMAIN es : IsName(es[j]) => j <= i

-----------------------------------------------------------------------------
(* What a session may rely on, whatever the others do.                     *)
InHand(t) == Present(t) \cup t.put

CanAdd(q) ==
    \/ q.kind \in {"create", "replace"}
    \/ \E i \in DOMAIN Plan(q) : Plan(q)[i].path = "members" /\ Plan(q)[i].op \in {"add", "replace"}

PlanOK(t) ==
    t.pc \notin {"idle", "deny"} =>
       /\ t.ask \in Workload /\ Parses(t.ask)
       /\ \A i \in DOMAIN t.todo : \E j \in DOMAIN Plan(t.ask) : t.todo[i] = Plan(t.ask)[j]
       /\ t.pc \in {"load", "work"} => t.todo # <<>>
       /\ t.pc = "load" => t.ask.kind # "create" /\ ~t.loaded /\ t.events = <<>>
       /\ t.fresh # {} \/ t.put # {} => CanAdd(t.ask)

CreateOK(t) ==
    t.pc \notin {"idle", "deny"} /\ t.ask.kind = "create" =>
       /\ t.pc # "load" /\ t.loaded /\ t.base = None /\ t.rows = {} /\ t.kept = {}
       /\ t.pc \in {"work", "write"} => t.group = None
       /\ t.pc = "work" =>
             /\ t.todo \in {Plan(t.ask), Tail(Plan(t.ask))}
             /\ t.fresh = {} /\ t.events = <<>>
             /\ t.todo # Plan(t.ask) => t.name \in Names

ChangeOK(t) ==
    t.pc \in Open \cup Done /\ t.ask.kind # "create" =>
       /\ t.group \in Groups /\ groups[t.group] # None
       /\ t.base \in Names /\ t.name \in Names

FlushOK(t) ==
    /\ t.pc \in {"idle", "deny", "load", "work", "write"} => t.put = {} /\ ~t.wrote /\ ~t.cut
    /\ t.pc \in {"write"} \cup Flushing \cup Done => t.name \in Names
    /\ t.pc \in Flushing \cup Done => t.group \in Groups /\ (t.wrote <=> t.name # t.base)
    /\ t.pc = "insert" => t.fresh # {}
    /\ t.pc \in {"delete", "commit"} \cup Done => t.fresh = {}

MemoryOK(t) ==
    /\ t.kept \subseteq t.rows /\ \A m \in t.rows : m.group = t.group
    /\ ~t.loaded => t.rows = {} /\ t.fresh = {} /\ t.put = {} /\ \A u \in Users : Silent(t.events, u)

(* The events tell how what is in hand differs from what was loaded.       *)
ToldOK(t) ==
    /\ \A u \in Users :
          \/ TellsIn(t.events, u) /\ u \in InHand(t)
          \/ TellsOut(t.events, u) /\ u \notin InHand(t)
          \/ Silent(t.events, u) /\ (u \in InHand(t) <=> u \in UsersIn(t.rows))
    /\ \/ Calls(t.events, t.name)
       \/ Nameless(t.events) /\ (t.name = t.base \/ t.ask.kind = "create")

SessionOK(t) ==
    PlanOK(t) /\ CreateOK(t) /\ ChangeOK(t) /\ FlushOK(t) /\ MemoryOK(t) /\ ToldOK(t)

-----------------------------------------------------------------------------
(* The constraints, with what is flushed and not committed yet.            *)
NamesApart ==
    /\ \A g, h \in Groups : groups[g] # None /\ groups[g] = groups[h] => g = h
    /\ \A r \in Clients : tx[r].pc \in Flushing /\ tx[r].wrote =>
         /\ \A g \in Groups : groups[g] = tx[r].name => g = tx[r].group
         /\ \A s \in Clients : tx[s].pc \in Flushing /\ tx[s].wrote /\ tx[s].name = tx[r].name
                                  => s = r

MembersApart ==
    /\ \A m, n \in members : m.group = n.group /\ m.user = n.user => m = n
    /\ \A r \in Clients : tx[r].pc \in Flushing =>
         /\ tx[r].put \cap UsersIn(Rows(tx[r].group)) = {}
         /\ \A s \in Clients : tx[s].pc \in Flushing /\ tx[s].group = tx[r].group
                                  /\ tx[s].put \cap tx[r].put # {} => s = r

MembersOfGroups == \A m \in members : groups[m.group] # None

Sound ==
    /\ tx \in [Clients -> Sessions] /\ (\A r \in Clients : SessionOK(tx[r]))
    /\ NamesApart /\ MembersApart /\ MembersOfGroups

IInv == TypeOK /\ Sound /\ MembersAreExplained

-----------------------------------------------------------------------------
(* What holds in addition while requests are made one at a time.           *)
Alone == \A r, s \in Clients : Busy(r) /\ Busy(s) => r = s

SnapshotOK(t) ==
    t.pc \in Open =>
       /\ t.group \in Groups => groups[t.group] = t.base
       /\ t.group \in Groups /\ t.loaded => t.rows = Rows(t.group)
       /\ t.name = t.base \/ Namesakes(t.name) \subseteq {t.group}

FoldedApart ==
    \A g, h \in Groups : groups[g] # None /\ groups[h] # None /\ Lower[groups[g]] = Lower[groups[h]] => g = h

Known(g) ==
    /\ KnownAs(g, groups[g])
    /\ \A u \in Users : KnownMember(g, u) <=> u \in UsersIn(Rows(g))

(* What will be known of the group when the session has published.         *)
ToBeKnown(t) ==
    LET es == Events(t) IN
    /\ Calls(es, groups[t.group]) \/ (Nameless(es) /\ KnownAs(t.group, groups[t.group]))
    /\ \A u \in Users :
          \/ TellsIn(es, u) /\ u \in UsersIn(Rows(t.group))
          \/ TellsOut(es, u) /\ u \notin UsersIn(Rows(t.group))
          \/ Silent(es, u) /\ (KnownMember(t.group, u) <=> u \in UsersIn(Rows(t.group)))

Publishes(r, g) == At(r, "publish") /\ tx[r].group = g

AllKnown ==
    /\ \A g \in Groups : (\A r \in Clients : ~Publishes(r, g)) => Known(g)
    /\ \A r \in Clients : At(r, "publish") => ToBeKnown(tx[r])

Serial ==
    ~overlapped => /\ Alone /\ FoldedApart /\ AllKnown
                   /\ \A r \in Clients : SnapshotOK(tx[r])
-----------------------------------------------------------------------------
(* A sequence that avoids a value is one of the other values.              *)
LEMMA Avoids ==
    ASSUME NEW S, NEW x, NEW s \in Seq(S \cup {x}), \A i \in DOMAIN s : s[i] # x
    PROVE  s \in Seq(S)
<1>1. PICK n \in Nat : s \in [1..n -> S \cup {x}]
    BY DEF Seq
<1>2. s \in [1..n -> S]
    BY <1>1
<1> QED BY <1>2 DEF Seq

LEMMA TailParts ==
    ASSUME NEW S, NEW s \in Seq(S), s # <<>>
    PROVE  /\ Head(s) \in S /\ Head(s) = s[1] /\ Tail(s) \in Seq(S)
           /\ 1 \in DOMAIN s
           /\ \A i \in DOMAIN Tail(s) : i + 1 \in DOMAIN s /\ Tail(s)[i] = s[i + 1]
OBVIOUS

(* Every request is one of three kinds, and what it asks for is an         *)
(* operation or more on the name or the members.                           *)
LEMMA OperationTyped ==
    ASSUME NEW o, OperationParses(o), \A a \in DOMAIN Fields(o) : Fields(o)[a] \in Sent(a)
    PROVE  Operation(o) \in Operations
<1> DEFINE a == Attribute(o)
           v == Fields(o)[a]
<1>1. /\ o.op \in {"add", "replace", "remove"} /\ a \in DOMAIN Fields(o) /\ v \in Sent(a)
      /\ IF a = "displayName" THEN o.op # "remove" /\ v # Malformed
         ELSE MembersParse(v) /\ (a = "filter" => o.op = "remove")
    BY DEF OperationParses
<1>2. a \in {"displayName", "filter", "members"}
    BY DEF Attribute
<1>3. Operation(o) = [op |-> o.op, path |-> IF a = "filter" THEN "members" ELSE a, value |-> v]
    BY DEF Operation
<1>4. CASE a = "displayName"
    <2>1. v \in Names
        BY <1>1, <1>4 DEF Sent
    <2> QED BY <1>1, <1>3, <1>4, <2>1 DEF Operations
<1>5. CASE a # "displayName"
    <2>1. v \in Seq(Ids \cup {Malformed}) /\ \A i \in DOMAIN v : v[i] # Malformed
        BY <1>1, <1>5 DEF Sent, MembersParse
    <2>2. v \in Seq(Ids)
        BY <2>1, Avoids
    <2> QED BY <1>1, <1>2, <1>3, <1>5, <2>2 DEF Operations
<1> QED BY <1>4, <1>5

LEMMA PlanTyped ==
    ASSUME NEW q \in Workload, Parses(q)
    PROVE  /\ Plan(q) \in Seq(Operations) /\ Plan(q) # <<>>
           /\ q.kind \in {"create", "replace", "patch"}
           /\ q.kind # "patch" =>
                 \E n \in Names, s \in Seq(Ids) :
                    Plan(q) = <<[op |-> "replace", path |-> "displayName", value |-> n],
                                [op |-> "replace", path |-> "members", value |-> s]>>
<1>1. CASE q.kind = "patch"
    <2> DEFINE os == q.operations
    <2>1. /\ os \in Seq(ToSet(os)) /\ os # <<>>
          /\ \A i \in DOMAIN os : OperationParses(os[i])
          /\ \A i \in DOMAIN os : \A a \in DOMAIN Fields(os[i]) : Fields(os[i])[a] \in Sent(a)
        BY <1>1, WorkloadAssumption DEF Parses
    <2>2. Plan(q) = [i \in DOMAIN os |-> Operation(os[i])]
        BY <1>1 DEF Plan
    <2>3. \A i \in DOMAIN os : Operation(os[i]) \in Operations
        BY <2>1, OperationTyped
    <2>4. PICK n \in Nat : DOMAIN os = 1..n /\ n # 0
        BY <2>1
    <2>5. Plan(q) \in [1..n -> Operations]
        BY <2>2, <2>3, <2>4
    <2>6. Plan(q) \in Seq(Operations) /\ 1 \in DOMAIN Plan(q)
        BY <2>4, <2>5 DEF Seq
    <2>7. DOMAIN <<>> = {}
        OBVIOUS
    <2> QED BY <1>1, <2>6, <2>7
<1>2. CASE q.kind # "patch"
    <2>1. /\ q \in Resources /\ q.name # Malformed /\ MembersParse(q.members)
        BY <1>2, WorkloadAssumption DEF Parses
    <2>2. /\ q.kind \in {"create", "replace"} /\ q.name \in Names
          /\ q.members \in Seq(Ids \cup {Malformed}) /\ \A i \in DOMAIN q.members : q.members[i] # Malformed
        BY <2>1 DEF Resources, Sent, MembersParse
    <2>3. q.members \in Seq(Ids)
        BY <2>2, Avoids
    <2> DEFINE o1 == [op |-> "replace", path |-> "displayName", value |-> q.name]
               o2 == [op |-> "replace", path |-> "members", value |-> q.members]
    <2>4. Plan(q) = <<o1, o2>>
        BY <1>2 DEF Plan
    <2>5. o1 \in Operations /\ o2 \in Operations
        BY <2>2, <2>3 DEF Operations
    <2>6. <<o1, o2>> \in Seq(Operations) /\ <<o1, o2>> # <<>>
        BY <2>5
    <2> QED BY <1>2, <2>2, <2>3, <2>4, <2>6
<1> QED BY <1>1, <1>2

(* What the code can do with an operation of each path.                    *)
LEMMA OperationParts ==
    ASSUME NEW o \in Operations
    PROVE  /\ o.path \in {"displayName", "members"} /\ o.op \in {"add", "replace", "remove"}
           /\ o.path = "displayName" => o.value \in Names
           /\ o.path = "members" => o.value \in Seq(Ids)
BY DEF Operations
-----------------------------------------------------------------------------
(* The last event of two lots is the last one of the second or, if none    *)
(* there is about the user, of the first.                                  *)
LEMMA Joined ==
    ASSUME NEW S, NEW a \in Seq(S), NEW b \in Seq(S)
    PROVE  /\ a \o b \in Seq(S) /\ Len(a) \in Nat /\ Len(b) \in Nat
           /\ DOMAIN a = 1..Len(a) /\ DOMAIN b = 1..Len(b)
           /\ DOMAIN (a \o b) = 1..(Len(a) + Len(b))
           /\ \A i \in DOMAIN a : (a \o b)[i] = a[i]
           /\ \A i \in DOMAIN b : (a \o b)[Len(a) + i] = b[i]
           /\ \A i \in 1..(Len(a) + Len(b)) : i \in DOMAIN a \/ (i - Len(a)) \in DOMAIN b
OBVIOUS

LEMMA JoinedTells ==
    ASSUME NEW S, NEW a \in Seq(S), NEW b \in Seq(S), NEW u
    PROVE  /\ TellsIn(b, u) => TellsIn(a \o b, u)
           /\ TellsOut(b, u) => TellsOut(a \o b, u)
           /\ Silent(b, u) /\ TellsIn(a, u) => TellsIn(a \o b, u)
           /\ Silent(b, u) /\ TellsOut(a, u) => TellsOut(a \o b, u)
           /\ Silent(b, u) /\ Silent(a, u) => Silent(a \o b, u)
<1> DEFINE c == a \o b
           n == Len(a)
<1>1. /\ n \in Nat /\ Len(b) \in Nat /\ DOMAIN a = 1..n /\ DOMAIN b = 1..Len(b)
      /\ DOMAIN c = 1..(n + Len(b))
      /\ \A i \in DOMAIN a : c[i] = a[i]
      /\ \A i \in DOMAIN b : c[n + i] = b[i]
      /\ \A i \in DOMAIN c : i \in DOMAIN a \/ (i - n) \in DOMAIN b
    BY Joined
<1> HIDE DEF c, n
<1>2. \A i \in Tells(b, u) : n + i \in Tells(c, u) /\ c[n + i] = b[i]
    <2>1. SUFFICES ASSUME NEW i \in Tells(b, u) PROVE n + i \in Tells(c, u) /\ c[n + i] = b[i]
        OBVIOUS
    <2>2. i \in DOMAIN b /\ Concerns(b[i], u) /\ \A j \in DOMAIN b : Concerns(b[j], u) => j <= i
        BY <2>1 DEF Tells
    <2>3. n + i \in DOMAIN c /\ c[n + i] = b[i]
        BY <1>1, <2>2
    <2>4. ASSUME NEW j \in DOMAIN c, Concerns(c[j], u) PROVE j <= n + i
        <3>1. CASE j \in DOMAIN a
            BY <1>1, <2>2, <3>1
        <3>2. CASE j - n \in DOMAIN b
            <4>1. n + (j - n) = j
                BY <1>1
            <4>2. Concerns(b[j - n], u)
                BY <1>1, <2>4, <3>2, <4>1
            <4> QED BY <1>1, <2>2, <3>2, <4>2
        <3> QED BY <1>1, <3>1, <3>2
    <2> QED BY <2>2, <2>3, <2>4 DEF Tells
<1>3. ASSUME Silent(b, u), NEW j \in DOMAIN c, Concerns(c[j], u) PROVE j \in DOMAIN a /\ c[j] = a[j]
    <2>1. CASE j - n \in DOMAIN b
        <3>1. n + (j - n) = j
            BY <1>1
        <3> QED BY <1>1, <1>3, <2>1, <3>1 DEF Silent
    <2> QED BY <1>1, <2>1
<1>4. ASSUME Silent(b, u), NEW i \in Tells(a, u) PROVE i \in Tells(c, u) /\ c[i] = a[i]
    <2>1. i \in DOMAIN a /\ Concerns(a[i], u) /\ \A j \in DOMAIN a : Concerns(a[j], u) => j <= i
        BY <1>4 DEF Tells
    <2>2. i \in DOMAIN c /\ c[i] = a[i]
        BY <1>1, <2>1
    <2>3. \A j \in DOMAIN c : Concerns(c[j], u) => j <= i
        BY <1>3, <1>4, <2>1
    <2> QED BY <2>1, <2>2, <2>3 DEF Tells
<1>5. ASSUME Silent(b, u), Silent(a, u) PROVE Silent(c, u)
    BY <1>3, <1>5 DEF Silent
<1> QED BY <1>2, <1>4, <1>5 DEF TellsIn, TellsOut, c

LEMMA JoinedCalls ==
    ASSUME NEW S, NEW a \in Seq(S), NEW b \in Seq(S), NEW n
    PROVE  /\ Calls(b, n) => Calls(a \o b, n)
           /\ Nameless(b) /\ Calls(a, n) => Calls(a \o b, n)
           /\ Nameless(b) /\ Nameless(a) => Nameless(a \o b)
<1> DEFINE c == a \o b
           k == Len(a)
<1>1. /\ k \in Nat /\ Len(b) \in Nat /\ DOMAIN a = 1..k /\ DOMAIN b = 1..Len(b)
      /\ DOMAIN c = 1..(k + Len(b))
      /\ \A i \in DOMAIN a : c[i] = a[i]
      /\ \A i \in DOMAIN b : c[k + i] = b[i]
      /\ \A i \in DOMAIN c : i \in DOMAIN a \/ (i - k) \in DOMAIN b
    BY Joined
<1> HIDE DEF c, k
<1>0. \A j \in DOMAIN c : IsName(c[j]) => (j \in DOMAIN a /\ c[j] = a[j]) \/
                                           (j - k \in DOMAIN b /\ IsName(b[j - k]))
    <2>1. \A j \in DOMAIN c : k + (j - k) = j
        BY <1>1
    <2> QED BY <1>1, <2>1
<1>2. ASSUME Calls(b, n) PROVE Calls(c, n)
    <2>1. PICK i \in DOMAIN b : /\ IsName(b[i]) /\ b[i].value = n
                                /\ \A j \in DOMAIN b : IsName(b[j]) => j <= i
        BY <1>2 DEF Calls
    <2>2. k + i \in DOMAIN c /\ c[k + i] = b[i]
        BY <1>1, <2>1
    <2>3. ASSUME NEW j \in DOMAIN c, IsName(c[j]) PROVE j <= k + i
        <3>1. CASE j \in DOMAIN a
            BY <1>1, <2>1, <3>1
        <3>2. CASE j - k \in DOMAIN b /\ IsName(b[j - k])
            BY <1>1, <2>1, <3>2
        <3> QED BY <1>0, <2>3, <3>1, <3>2
    <2> QED BY <2>1, <2>2, <2>3 DEF Calls
<1>3. ASSUME Nameless(b), Calls(a, n) PROVE Calls(c, n)
    <2>1. PICK i \in DOMAIN a : /\ IsName(a[i]) /\ a[i].value = n
                                /\ \A j \in DOMAIN a : IsName(a[j]) => j <= i
        BY <1>3 DEF Calls
    <2>2. i \in DOMAIN c /\ c[i] = a[i]
        BY <1>1, <2>1
    <2>3. \A j \in DOMAIN c : IsName(c[j]) => j <= i
        BY <1>0, <1>3, <2>1 DEF Nameless
    <2> QED BY <2>1, <2>2, <2>3 DEF Calls
<1>4. ASSUME Nameless(b), Nameless(a) PROVE Nameless(c)
    BY <1>0, <1>4 DEF Nameless
<1> QED BY <1>2, <1>3, <1>4 DEF c
-----------------------------------------------------------------------------
(* An operation that nothing is wrong with names users, each of them once, *)
(* and its events say what it does to the members in memory.               *)
LEMMA Uncomplained ==
    ASSUME NEW t \in Sessions, NEW o \in Operations, o.path = "members", Complaint(t, o) = "none"
    PROVE  /\ ToSet(o.value) \subseteq Users
           /\ o.op = "remove" => ToSet(o.value) \subseteq Present(t)
           /\ o.op # "replace" => \A i, j \in DOMAIN o.value : o.value[i] = o.value[j] => i = j
<1> DEFINE vs == o.value
<1>1. vs \in Seq(Ids) /\ o.op \in {"add", "replace", "remove"}
    BY OperationParts
<1>2. Present(t) \subseteq Users
    BY DEF Present, UsersIn, Sessions, MemberRow, NewMember
<1>3. CASE o.op = "replace"
    BY <1>3 DEF Complaint
<1>4. CASE o.op # "replace"
    <2>1. Bad(t, o) = {}
        BY <1>4 DEF Complaint
    <2>2. ASSUME NEW i \in DOMAIN vs
          PROVE  /\ vs[i] \in Users /\ vs[i] \notin Earlier(vs, i)
                 /\ o.op = "remove" => vs[i] \in Present(t)
        BY <1>1, <1>2, <1>4, <2>1, <2>2 DEF Bad, CannotAdd, CannotRemove
    <2>3. ASSUME NEW i \in DOMAIN vs, NEW j \in DOMAIN vs, vs[i] = vs[j] PROVE i = j
        <3>1. i \in Nat /\ j \in Nat /\ 1 <= i /\ 1 <= j
            BY <1>1
        <3>2. ~(i < j) /\ ~(j < i)
            BY <2>2, <2>3, <3>1 DEF Earlier
        <3> QED BY <3>1, <3>2
    <2> QED BY <1>4, <2>2, <2>3 DEF ToSet
<1> QED BY <1>3, <1>4

LEMMA Announcement ==
    ASSUME NEW t \in Sessions, NEW o \in Operations, o.path = "members", Complaint(t, o) = "none"
    PROVE  /\ Announced(t, o) \in Seq(EventRow) /\ Nameless(Announced(t, o))
           /\ t.ask.kind = "create" /\ o.op = "replace" /\ o.value = <<>> => Announced(t, o) = <<>>
           /\ \A u \in Users :
                 /\ o.op = "replace" /\ ~(t.ask.kind = "create" /\ o.value = <<>>) =>
                       IF u \in ToSet(o.value) THEN TellsIn(Announced(t, o), u)
                       ELSE TellsOut(Announced(t, o), u)
                 /\ o.op = "add" => IF u \in ToSet(o.value) THEN TellsIn(Announced(t, o), u)
                                    ELSE Silent(Announced(t, o), u)
                 /\ o.op = "remove" => IF u \in ToSet(o.value) THEN TellsOut(Announced(t, o), u)
                                       ELSE Silent(Announced(t, o), u)
<1> DEFINE vs == o.value
           a == Announced(t, o)
<1>1. /\ vs \in Seq(Ids) /\ o.op \in {"add", "replace", "remove"}
      /\ ToSet(vs) \subseteq Users
      /\ o.op # "replace" => \A i, j \in DOMAIN vs : vs[i] = vs[j] => i = j
    BY OperationParts, Uncomplained
<1>2. PICK n \in Nat : DOMAIN vs = 1..n
    BY <1>1
<1>3. \A i \in DOMAIN vs : vs[i] \in Users
    BY <1>1 DEF ToSet
<1>4. CASE o.op = "replace" /\ t.ask.kind = "create" /\ vs = <<>>
    <2>1. a = <<>>
        BY <1>4 DEF Announced
    <2> QED BY <1>4, <2>1 DEF Nameless
<1>5. CASE o.op = "replace" /\ ~(t.ask.kind = "create" /\ vs = <<>>)
    <2> DEFINE e == [type |-> "GroupMembershipReplaced", users |-> ToSet(vs)]
    <2>1. a = <<e>>
        BY <1>5 DEF Announced
    <2>2. e \in EventRow /\ ~IsName(e)
        BY <1>1 DEF EventRow, IsName
    <2>3. \A u : Concerns(e, u) /\ (Includes(e, u) <=> u \in ToSet(vs))
        BY DEF Concerns, Includes
    <2> HIDE DEF e
    <2>4. a \in Seq(EventRow) /\ Nameless(a)
        BY <2>1, <2>2 DEF Nameless
    <2>5. \A u : 1 \in Tells(a, u) /\ a[1] = e
        BY <2>1, <2>3 DEF Tells
    <2> QED BY <1>5, <2>3, <2>4, <2>5 DEF TellsIn, TellsOut
<1>6. CASE o.op = "add"
    <2>1. a = [i \in DOMAIN vs |-> [type |-> "GroupMembershipAdded", value |-> vs[i]]]
        BY <1>6 DEF Announced
    <2>2. \A i \in DOMAIN vs : /\ a[i] \in EventRow /\ ~IsName(a[i])
                               /\ \A u : Concerns(a[i], u) <=> u = vs[i]
                               /\ \A u : Includes(a[i], u)
        BY <2>1, <1>3 DEF EventRow, IsName, Concerns, Includes
    <2>3. DOMAIN a = DOMAIN vs /\ a \in [1..n -> EventRow]
        BY <1>2, <2>1, <2>2
    <2> HIDE DEF a
    <2>4. a \in Seq(EventRow) /\ Nameless(a)
        BY <2>2, <2>3 DEF Nameless, Seq
    <2>5. ASSUME NEW u \in Users, u \in ToSet(vs) PROVE TellsIn(a, u)
        <3>1. PICK i \in DOMAIN vs : vs[i] = u
            BY <2>5 DEF ToSet
        <3>2. i \in Tells(a, u)
            BY <1>1, <1>2, <1>6, <2>2, <2>3, <3>1 DEF Tells
        <3> QED BY <2>2, <3>2 DEF TellsIn
    <2>6. ASSUME NEW u \in Users, u \notin ToSet(vs) PROVE Silent(a, u)
        BY <2>2, <2>3, <2>6 DEF Silent, ToSet
    <2> QED BY <1>6, <2>4, <2>5, <2>6 DEF a
<1>7. CASE o.op = "remove"
    <2>1. a = [i \in DOMAIN vs |-> [type |-> "GroupMembershipRemoved", value |-> vs[i]]]
        BY <1>7 DEF Announced
    <2>2. \A i \in DOMAIN vs : /\ a[i] \in EventRow /\ ~IsName(a[i])
                               /\ \A u : Concerns(a[i], u) <=> u = vs[i]
                               /\ \A u : ~Includes(a[i], u)
        BY <2>1, <1>3 DEF EventRow, IsName, Concerns, Includes
    <2>3. DOMAIN a = DOMAIN vs /\ a \in [1..n -> EventRow]
        BY <1>2, <2>1, <2>2
    <2> HIDE DEF a
    <2>4. a \in Seq(EventRow) /\ Nameless(a)
        BY <2>2, <2>3 DEF Nameless, Seq
    <2>5. ASSUME NEW u \in Users, u \in ToSet(vs) PROVE TellsOut(a, u)
        <3>1. PICK i \in DOMAIN vs : vs[i] = u
            BY <2>5 DEF ToSet
        <3>2. i \in Tells(a, u)
            BY <1>1, <1>2, <1>7, <2>2, <2>3, <3>1 DEF Tells
        <3> QED BY <2>2, <3>2 DEF TellsOut
    <2>6. ASSUME NEW u \in Users, u \notin ToSet(vs) PROVE Silent(a, u)
        BY <2>2, <2>3, <2>6 DEF Silent, ToSet
    <2> QED BY <1>7, <2>4, <2>5, <2>6 DEF a
<1> QED BY <1>1, <1>4, <1>5, <1>6, <1>7

HandAfter(t, o) == CASE o.op = "replace" -> ToSet(o.value)
                     [] o.op = "add"     -> Present(t) \cup ToSet(o.value)
                     [] o.op = "remove"  -> Present(t) \ ToSet(o.value)

LEMMA Application ==
    ASSUME NEW t \in Sessions, NEW o \in Operations, o.path = "members", Complaint(t, o) = "none"
    PROVE  LET z == Applied(t, o) IN
           /\ z = [t EXCEPT !.kept = z.kept, !.fresh = z.fresh]
           /\ z.kept \in SUBSET MemberRow /\ z.fresh \in SUBSET NewMember /\ z.kept \subseteq t.kept
           /\ z.fresh # {} => t.fresh # {} \/ o.op \in {"add", "replace"}
           /\ UsersIn(z.kept) \cup UsersIn(z.fresh) = HandAfter(t, o)
<1> DEFINE vs == o.value
           z == Applied(t, o)
<1>1. /\ vs \in Seq(Ids) /\ o.op \in {"add", "replace", "remove"} /\ ToSet(vs) \subseteq Users
    BY OperationParts, Uncomplained
<1>2. t.kept \in SUBSET MemberRow /\ t.fresh \in SUBSET NewMember /\ Len(t.todo) \in Nat
    BY DEF Sessions
<1>3. Added(t, o) \in SUBSET NewMember /\ UsersIn(Added(t, o)) = ToSet(vs)
    <2>1. \A i \in DOMAIN vs : i \in Nat /\ vs[i] \in Users
        BY <1>1 DEF ToSet
    <2>2. Added(t, o) = {[turn |-> Len(t.todo), place |-> i, user |-> vs[i]] : i \in DOMAIN vs}
        BY DEF Added
    <2>3. \A i \in DOMAIN vs :
             LET m == [turn |-> Len(t.todo), place |-> i, user |-> vs[i]]
             IN  m \in NewMember /\ m.user = vs[i]
        BY <1>2, <2>1 DEF NewMember
    <2>4. Added(t, o) \in SUBSET NewMember
        BY <2>2, <2>3
    <2>5. UsersIn(Added(t, o)) = {vs[i] : i \in DOMAIN vs}
        <3>1. ASSUME NEW m \in Added(t, o) PROVE m.user \in {vs[i] : i \in DOMAIN vs}
            BY <2>2, <2>3
        <3>2. ASSUME NEW i \in DOMAIN vs PROVE vs[i] \in {m.user : m \in Added(t, o)}
            <4>1. PICK m : m = [turn |-> Len(t.todo), place |-> i, user |-> vs[i]]
                OBVIOUS
            <4> QED BY <2>2, <4>1
        <3> QED BY <3>1, <3>2 DEF UsersIn
    <2> QED BY <2>4, <2>5 DEF ToSet
<1>4. \A rows : UsersIn(Without(rows, o)) = UsersIn(rows) \ ToSet(vs) /\ Without(rows, o) \subseteq rows
    BY DEF Without, UsersIn
<1>5. CASE o.op = "replace"
    <2>1. z = [t EXCEPT !.kept = {}, !.fresh = Added(t, o)]
        BY <1>5 DEF Applied
    <2>2. z.kept = {} /\ z.fresh = Added(t, o)
        BY <2>1 DEF Sessions
    <2>3. z = [t EXCEPT !.kept = z.kept, !.fresh = z.fresh]
        BY <2>1, <2>2
    <2>4. UsersIn({}) = {}
        BY DEF UsersIn
    <2> QED BY <1>3, <1>5, <2>2, <2>3, <2>4 DEF HandAfter
<1>6. CASE o.op = "add"
    <2>1. z = [t EXCEPT !.fresh = t.fresh \cup Added(t, o)]
        BY <1>6 DEF Applied
    <2>2. z.kept = t.kept /\ z.fresh = t.fresh \cup Added(t, o)
        BY <2>1 DEF Sessions
    <2>3. z = [t EXCEPT !.kept = z.kept, !.fresh = z.fresh]
        BY <2>1, <2>2 DEF Sessions
    <2>4. UsersIn(t.fresh \cup Added(t, o)) = UsersIn(t.fresh) \cup ToSet(vs)
        BY <1>3 DEF UsersIn
    <2> QED BY <1>2, <1>3, <1>6, <2>2, <2>3, <2>4 DEF Present, HandAfter
<1>7. CASE o.op = "remove"
    <2>1. z = [t EXCEPT !.kept = Without(t.kept, o), !.fresh = Without(t.fresh, o)]
        BY <1>7 DEF Applied
    <2>2. z.kept = Without(t.kept, o) /\ z.fresh = Without(t.fresh, o)
        BY <2>1 DEF Sessions
    <2>3. z = [t EXCEPT !.kept = z.kept, !.fresh = z.fresh]
        BY <2>1, <2>2
    <2> QED BY <1>2, <1>4, <1>7, <2>2, <2>3 DEF Present, HandAfter
<1> QED BY <1>1, <1>5, <1>6, <1>7
-----------------------------------------------------------------------------
(* A session that is over, refused or not, is as good as none.             *)
Statuses == {"none", "ok", "400", "404", "409", "500"}

LEMMA Nothing == /\ <<>> \in Seq(EventRow) /\ Nameless(<<>>) /\ \A u : Silent(<<>>, u)
                 /\ UsersIn({}) = {}
BY DEF Nameless, Silent, UsersIn

LEMMA FieldUpdates ==
    ASSUME NEW t \in Sessions
    PROVE  /\ \A v \in {"idle", "load", "work", "write", "insert", "delete", "commit", "publish",
                       "reread", "deny"} : [t EXCEPT !.pc = v] \in Sessions
           /\ \A v \in Workload \cup {None} : [t EXCEPT !.ask = v] \in Sessions
           /\ \A v \in Nat : [t EXCEPT !.number = v] \in Sessions
           /\ \A v \in Seq(Operations) : [t EXCEPT !.todo = v] \in Sessions
           /\ \A v \in Groups \cup {None} : [t EXCEPT !.group = v] \in Sessions
           /\ \A v \in Names \cup {None} : [t EXCEPT !.base = v] \in Sessions
           /\ \A v \in Names \cup {None} : [t EXCEPT !.name = v] \in Sessions
           /\ \A v \in BOOLEAN : [t EXCEPT !.loaded = v] \in Sessions
           /\ \A v \in SUBSET MemberRow : [t EXCEPT !.rows = v] \in Sessions
           /\ \A v \in SUBSET MemberRow : [t EXCEPT !.kept = v] \in Sessions
           /\ \A v \in SUBSET NewMember : [t EXCEPT !.fresh = v] \in Sessions
           /\ \A v \in Seq(EventRow) : [t EXCEPT !.events = v] \in Sessions
           /\ \A v \in BOOLEAN : [t EXCEPT !.wrote = v] \in Sessions
           /\ \A v \in SUBSET Users : [t EXCEPT !.put = v] \in Sessions
           /\ \A v \in BOOLEAN : [t EXCEPT !.cut = v] \in Sessions
           /\ \A v \in Statuses : [t EXCEPT !.response = v] \in Sessions
<1>1. \A v \in {"idle", "load", "work", "write", "insert", "delete", "commit", "publish",
                       "reread", "deny"} : [t EXCEPT !.pc = v] \in Sessions
    BY DEF Sessions
<1>2. \A v \in Workload \cup {None} : [t EXCEPT !.ask = v] \in Sessions
    BY DEF Sessions
<1>3. \A v \in Nat : [t EXCEPT !.number = v] \in Sessions
    BY DEF Sessions
<1>4. \A v \in Seq(Operations) : [t EXCEPT !.todo = v] \in Sessions
    BY DEF Sessions
<1>5. \A v \in Groups \cup {None} : [t EXCEPT !.group = v] \in Sessions
    BY DEF Sessions
<1>6. \A v \in Names \cup {None} : [t EXCEPT !.base = v] \in Sessions
    BY DEF Sessions
<1>7. \A v \in Names \cup {None} : [t EXCEPT !.name = v] \in Sessions
    BY DEF Sessions
<1>8. \A v \in BOOLEAN : [t EXCEPT !.loaded = v] \in Sessions
    BY DEF Sessions
<1>9. \A v \in SUBSET MemberRow : [t EXCEPT !.rows = v] \in Sessions
    BY DEF Sessions
<1>10. \A v \in SUBSET MemberRow : [t EXCEPT !.kept = v] \in Sessions
    BY DEF Sessions
<1>11. \A v \in SUBSET NewMember : [t EXCEPT !.fresh = v] \in Sessions
    BY DEF Sessions
<1>12. \A v \in Seq(EventRow) : [t EXCEPT !.events = v] \in Sessions
    BY DEF Sessions
<1>13. \A v \in BOOLEAN : [t EXCEPT !.wrote = v] \in Sessions
    BY DEF Sessions
<1>14. \A v \in SUBSET Users : [t EXCEPT !.put = v] \in Sessions
    BY DEF Sessions
<1>15. \A v \in BOOLEAN : [t EXCEPT !.cut = v] \in Sessions
    BY DEF Sessions
<1>16. \A v \in Statuses : [t EXCEPT !.response = v] \in Sessions
    BY DEF Sessions, Statuses
<1> QED BY <1>1, <1>2, <1>3, <1>4, <1>5, <1>6, <1>7, <1>8,
          <1>9, <1>10, <1>11, <1>12, <1>13, <1>14, <1>15, <1>16

LEMMA IdleType == Idle \in Sessions
<1>1. /\ <<>> \in Seq(Operations) /\ <<>> \in Seq(EventRow)
      /\ FALSE \in BOOLEAN /\ None \in Workload \cup {None}
      /\ None \in Groups \cup {None} /\ None \in Names \cup {None}
      /\ {} \in SUBSET MemberRow /\ {} \in SUBSET NewMember /\ {} \in SUBSET Users
    OBVIOUS
<1> QED BY <1>1 DEF Idle, Sessions

LEMMA ClosedOK ==
    ASSUME NEW n \in Nat, NEW w \in {"idle", "deny"}, NEW status \in Statuses
    PROVE  LET t == [Idle EXCEPT !.pc = w, !.number = n, !.response = status]
           IN  t \in Sessions /\ SessionOK(t) /\ t.pc = w
<1> DEFINE t1 == [Idle EXCEPT !.pc = w]
           t2 == [t1 EXCEPT !.number = n]
           t  == [t2 EXCEPT !.response = status]
<1>1. t = [Idle EXCEPT !.pc = w, !.number = n, !.response = status]
    OBVIOUS
<1>2. /\ t.pc = w /\ t.ask = None /\ t.group = None
      /\ t.base = None /\ t.name = None /\ t.loaded = FALSE /\ t.rows = {} /\ t.kept = {}
      /\ t.fresh = {} /\ t.events = <<>> /\ t.wrote = FALSE /\ t.put = {} /\ t.cut = FALSE
    BY DEF Idle
<1>3. t \in Sessions
    <2>1. t1 \in Sessions
        BY IdleType, FieldUpdates
    <2>2. t2 \in Sessions
        <3> HIDE DEF t1
        <3> QED BY <2>1, FieldUpdates
    <2> HIDE DEF t2
    <2> QED BY <2>2, FieldUpdates
<1> HIDE DEF t
<1>4. PlanOK(t) /\ CreateOK(t) /\ ChangeOK(t)
    BY <1>2 DEF PlanOK, CreateOK, ChangeOK, Open, Done, Flushing
<1>5. FlushOK(t)
    BY <1>2 DEF FlushOK, Open, Done, Flushing
<1>6. MemoryOK(t)
    BY <1>2, Nothing DEF MemoryOK
<1>7. ToldOK(t)
    BY <1>2, Nothing DEF ToldOK, InHand, Present
<1>8. SessionOK(t)
    BY <1>4, <1>5, <1>6, <1>7 DEF SessionOK
<1> QED BY <1>1, <1>2, <1>3, <1>8

(* Neither is it flushing, so that it constrains no other session.         *)
Steps(r, t) == t \in Sessions /\ SessionOK(t) /\ tx' = [tx EXCEPT ![r] = t]

LEMMA RefuseOK ==
    ASSUME IInv, NEW r \in Clients, NEW status \in Statuses, Refuse(r, status)
    PROVE  \E t : Steps(r, t) /\ t.pc = "deny"
<1>1. tx[r].number \in Nat
    BY DEF IInv, Sound, Sessions
<1>2. PICK t : t = [Idle EXCEPT !.pc = "deny", !.number = tx[r].number, !.response = status]
    OBVIOUS
<1>3. tx' = [tx EXCEPT ![r] = t]
    BY <1>2 DEF Refuse, Update
<1>4. t \in Sessions /\ SessionOK(t) /\ t.pc = "deny"
    BY <1>1, <1>2, ClosedOK
<1> QED BY <1>3, <1>4 DEF Steps

LEMMA AbortOK ==
    ASSUME IInv, NEW r \in Clients, Abort(r)
    PROVE  \E t : Steps(r, t) /\ t.pc = "idle"
<1>1. tx[r].number \in Nat
    BY DEF IInv, Sound, Sessions
<1>2. PICK t : t = [Idle EXCEPT !.pc = "idle", !.number = tx[r].number, !.response = "500"]
    OBVIOUS
<1>3. [Idle EXCEPT !.number = tx[r].number, !.response = "500"] = t
    <2>1. [Idle EXCEPT !.pc = "idle"] = Idle
        <3>1. Idle.pc = "idle"
            BY DEF Idle
        <3> QED BY <3>1, IdleType DEF Sessions
    <2>2. [[Idle EXCEPT !.pc = "idle"] EXCEPT !.number = tx[r].number, !.response = "500"] = t
        BY <1>2
    <2> QED BY <2>1, <2>2
<1>4. tx' = [tx EXCEPT ![r] = t]
    BY <1>3 DEF Abort, Update
<1>5. t \in Sessions /\ SessionOK(t) /\ t.pc = "idle"
    BY <1>1, <1>2, ClosedOK DEF Statuses
<1> QED BY <1>4, <1>5 DEF Steps

(* What remains of a plan after its first operation.                       *)
LEMMA PlanGoesOn ==
    ASSUME NEW t \in Sessions, SessionOK(t), t.pc = "work"
    PROVE  /\ t.ask \in Workload /\ Parses(t.ask) /\ t.ask.kind \in {"create", "replace", "patch"}
           /\ Head(t.todo) \in Operations /\ Tail(t.todo) \in Seq(Operations)
           /\ \E j \in DOMAIN Plan(t.ask) : Head(t.todo) = Plan(t.ask)[j]
           /\ \A i \in DOMAIN Tail(t.todo) : \E j \in DOMAIN Plan(t.ask) : Tail(t.todo)[i] = Plan(t.ask)[j]
           /\ t.ask.kind = "create" => IF Head(t.todo).path = "displayName"
                                       THEN Tail(t.todo) = Tail(Plan(t.ask)) /\ Tail(t.todo) # <<>>
                                       ELSE Tail(t.todo) = <<>> /\ t.name \in Names
                                              /\ Head(t.todo).op = "replace"
<1>1. /\ t.ask \in Workload /\ Parses(t.ask) /\ t.todo # <<>> /\ t.todo \in Seq(Operations)
      /\ \A i \in DOMAIN t.todo : \E j \in DOMAIN Plan(t.ask) : t.todo[i] = Plan(t.ask)[j]
    BY DEF SessionOK, PlanOK, Sessions
<1>2. t.ask.kind \in {"create", "replace", "patch"}
    BY <1>1, PlanTyped
<1>3. /\ Head(t.todo) \in Operations /\ Head(t.todo) = t.todo[1] /\ Tail(t.todo) \in Seq(Operations)
      /\ 1 \in DOMAIN t.todo
      /\ \A i \in DOMAIN Tail(t.todo) : i + 1 \in DOMAIN t.todo /\ Tail(t.todo)[i] = t.todo[i + 1]
    BY <1>1, TailParts
<1>4. ASSUME t.ask.kind = "create"
      PROVE  IF Head(t.todo).path = "displayName"
               THEN Tail(t.todo) = Tail(Plan(t.ask)) /\ Tail(t.todo) # <<>>
               ELSE Tail(t.todo) = <<>> /\ t.name \in Names /\ Head(t.todo).op = "replace"
    <2>1. PICK n \in Names, s \in Seq(Ids) :
             Plan(t.ask) = <<[op |-> "replace", path |-> "displayName", value |-> n],
                             [op |-> "replace", path |-> "members", value |-> s]>>
        BY <1>1, <1>4, PlanTyped
    <2> DEFINE o1 == [op |-> "replace", path |-> "displayName", value |-> n]
               o2 == [op |-> "replace", path |-> "members", value |-> s]
    <2>2. o1.path = "displayName" /\ o2.path = "members" /\ o2.op = "replace"
        OBVIOUS
    <2>3. /\ t.todo = <<o1, o2>> \/ t.todo = Tail(<<o1, o2>>)
          /\ t.todo # <<o1, o2>> => t.name \in Names
        BY <1>4, <2>1 DEF SessionOK, CreateOK
    <2> HIDE DEF o1, o2
    <2>4. /\ Tail(<<o1, o2>>) = <<o2>> /\ Head(<<o1, o2>>) = o1 /\ Head(<<o2>>) = o2
          /\ Tail(<<o2>>) = <<>> /\ <<o2>> # <<>>
        OBVIOUS
    <2>5. Plan(t.ask) = <<o1, o2>>
        BY <2>1 DEF o1, o2
    <2> QED BY <2>2, <2>3, <2>4, <2>5
<1>5. \E j \in DOMAIN Plan(t.ask) : Head(t.todo) = Plan(t.ask)[j]
    BY <1>1, <1>3
<1>6. \A i \in DOMAIN Tail(t.todo) : \E j \in DOMAIN Plan(t.ask) : Tail(t.todo)[i] = Plan(t.ask)[j]
    BY <1>1, <1>3
<1> QED BY <1>1, <1>2, <1>3, <1>4, <1>5, <1>6
-----------------------------------------------------------------------------
(* What each step makes of the session that takes it.                      *)
LEMMA InHandUsers == ASSUME NEW t \in Sessions
                     PROVE  InHand(t) \subseteq Users /\ UsersIn(t.rows) \subseteq Users
BY DEF InHand, Present, UsersIn, Sessions, MemberRow, NewMember

LEMMA LoadSteps ==
    ASSUME IInv, NEW r \in Clients, Load(r)
    PROVE  \E t : Steps(r, t) /\ t.pc \in {"deny", "work"} /\
              (t.pc = "work" => /\ t.group \in Groups /\ t.base = groups[t.group]
                                /\ t.name = t.base /\ ~t.loaded)
<1> DEFINE s == tx[r]
           g == s.ask.group
<1>1. s \in Sessions /\ SessionOK(s) /\ s.pc = "load"
    BY DEF IInv, Sound, Load, At
<1>2. CASE g \notin Groups \/ groups[g] = None
    BY <1>2, RefuseOK DEF Load, Statuses
<1>3. CASE g \in Groups /\ groups[g] # None
    <2>1. groups[g] \in Names
        BY <1>3 DEF IInv, TypeOK
    <2> DEFINE t1 == [s EXCEPT !.pc = "work"]
               t2 == [t1 EXCEPT !.group = g]
               t3 == [t2 EXCEPT !.base = groups[g]]
    <2>2. PICK t : t = [t3 EXCEPT !.name = groups[g]]
        OBVIOUS
    <2>3. t \in Sessions
        <3>1. t1 \in Sessions
            BY <1>1, FieldUpdates
        <3>2. t2 \in Sessions
            <4> HIDE DEF t1
            <4> QED BY <1>3, <3>1, FieldUpdates
        <3>3. t3 \in Sessions
            <4> HIDE DEF t2
            <4> QED BY <2>1, <3>2, FieldUpdates
        <3> HIDE DEF t3
        <3> QED BY <2>1, <2>2, <3>3, FieldUpdates
    <2>4. tx' = [tx EXCEPT ![r] = t]
        BY <1>3, <2>2 DEF Load, Update
    <2>5. /\ t.pc = "work" /\ t.ask = s.ask /\ t.todo = s.todo /\ t.group = g /\ t.base = groups[g]
          /\ t.name = groups[g] /\ t.loaded = s.loaded /\ t.rows = s.rows /\ t.kept = s.kept
          /\ t.fresh = s.fresh /\ t.events = s.events /\ t.wrote = s.wrote /\ t.put = s.put
          /\ t.cut = s.cut
        BY <1>1, <2>2 DEF Sessions
    <2> HIDE DEF t3
    <2>6. /\ ~s.loaded /\ s.ask.kind # "create" /\ s.events = <<>> /\ s.rows = {} /\ s.fresh = {}
          /\ s.put = {} /\ ~s.wrote /\ ~s.cut /\ s.kept = {}
        BY <1>1 DEF SessionOK, PlanOK, MemoryOK, FlushOK
    <2>7. PlanOK(t)
        BY <1>1, <2>5 DEF SessionOK, PlanOK
    <2>8. CreateOK(t) /\ ChangeOK(t)
        BY <1>3, <2>1, <2>5, <2>6 DEF CreateOK, ChangeOK
    <2>9. FlushOK(t)
        BY <2>5, <2>6 DEF FlushOK, Flushing, Done
    <2>10. MemoryOK(t)
        BY <2>5, <2>6, Nothing DEF MemoryOK
    <2>11. ToldOK(t)
        BY <2>5, <2>6, Nothing DEF ToldOK, InHand, Present
    <2>12. SessionOK(t)
        BY <2>7, <2>8, <2>9, <2>10, <2>11 DEF SessionOK
    <2>13. ~t.loaded /\ t.group \in Groups /\ t.base = groups[t.group] /\ t.name = t.base
        BY <1>3, <2>5, <2>6
    <2> QED BY <2>3, <2>4, <2>5, <2>12, <2>13 DEF Steps
<1> QED BY <1>2, <1>3

LEMMA RenameSteps ==
    ASSUME IInv, NEW r \in Clients, Rename(r)
    PROVE  \E t : Steps(r, t) /\ t.pc \in {"deny", "work", "write"} /\
              (t.pc # "deny" =>
                 /\ t.ask = tx[r].ask /\ t.group = tx[r].group /\ t.base = tx[r].base
                 /\ t.loaded = tx[r].loaded /\ t.rows = tx[r].rows
                 /\ \/ t.name = tx[r].name \/ Namesakes(t.name) = {}
                    \/ t.group \in Namesakes(t.name))
<1> DEFINE s == tx[r]
           n == Head(s.todo).value
           e == [type |-> "GroupUpdated", value |-> n]
           es == IF s.ask.kind = "create" \/ n = s.name THEN s.events ELSE Append(s.events, e)
           label == IF Tail(s.todo) = <<>> THEN "write" ELSE "work"
           t1 == [s EXCEPT !.todo = Tail(s.todo)]
           t2 == [t1 EXCEPT !.name = n]
           t3 == [t2 EXCEPT !.events = es]
           t4 == [t3 EXCEPT !.pc = label]
<1>1. /\ s \in Sessions /\ SessionOK(s) /\ s.pc = "work" /\ Head(s.todo).path = "displayName"
    BY DEF IInv, Sound, Rename, At
<1>2. /\ s.ask \in Workload /\ Parses(s.ask) /\ s.ask.kind \in {"create", "replace", "patch"}
      /\ Head(s.todo) \in Operations /\ Tail(s.todo) \in Seq(Operations)
      /\ \A i \in DOMAIN Tail(s.todo) : \E j \in DOMAIN Plan(s.ask) : Tail(s.todo)[i] = Plan(s.ask)[j]
      /\ s.ask.kind = "create" => Tail(s.todo) = Tail(Plan(s.ask)) /\ Tail(s.todo) # <<>>
    BY <1>1, PlanGoesOn
<1>3. n \in Names
    BY <1>1, <1>2, OperationParts
<1>4. s.events \in Seq(EventRow) /\ <<e>> \in Seq(EventRow) /\ es \in Seq(EventRow)
      /\ (es = s.events \/ es = s.events \o <<e>>)
    <2>1. e \in EventRow
        BY <1>3 DEF EventRow
    <2>2. s.events \in Seq(EventRow)
        BY <1>1 DEF Sessions
    <2> HIDE DEF e
    <2> QED BY <2>1, <2>2
<1>5. CASE t4.pc # "deny" /\ tx' = [tx EXCEPT ![r] = t4] /\
            (n = s.name \/ Namesakes(n) = {} \/ s.group \in Namesakes(n))
    <2>1. PICK t : t = t4
        OBVIOUS
    <2>2. t \in Sessions
        <3>1. t1 \in Sessions
            BY <1>1, <1>2, FieldUpdates
        <3>2. t2 \in Sessions
            <4> HIDE DEF t1
            <4> QED BY <1>3, <3>1, FieldUpdates
        <3>3. t3 \in Sessions
            <4> HIDE DEF t2, es
            <4> QED BY <1>4, <3>2, FieldUpdates
        <3>4. label \in {"work", "write"}
            OBVIOUS
        <3> HIDE DEF t3, label
        <3> QED BY <2>1, <3>3, <3>4, FieldUpdates
    <2>3. /\ t.pc = label /\ t.ask = s.ask /\ t.todo = Tail(s.todo) /\ t.group = s.group
          /\ t.base = s.base /\ t.name = n /\ t.loaded = s.loaded /\ t.rows = s.rows /\ t.kept = s.kept
          /\ t.fresh = s.fresh /\ t.events = es /\ t.wrote = s.wrote /\ t.put = s.put
          /\ t.cut = s.cut
        <3> HIDE DEF label, n, es
        <3> QED BY <1>1, <2>1 DEF Sessions
    <2>4. label \in {"work", "write"} /\ (label = "work" => Tail(s.todo) # <<>>)
        OBVIOUS
    <2> HIDE DEF t4, label
    <2>5. PlanOK(t)
        BY <1>1, <1>2, <2>3, <2>4 DEF SessionOK, PlanOK
    <2>6. CreateOK(t)
        <3>1. ASSUME t.ask.kind = "create"
              PROVE  /\ t.loaded /\ t.base = None /\ t.rows = {} /\ t.kept = {} /\ t.group = None
                     /\ t.todo = Tail(Plan(t.ask)) /\ t.pc = "work" /\ t.fresh = {} /\ t.events = <<>>
                     /\ t.name \in Names
            <4>1. label = "work"
                BY <1>2, <2>3, <3>1 DEF label
            <4> HIDE DEF n
            <4> QED BY <1>1, <1>2, <1>3, <2>3, <3>1, <4>1 DEF SessionOK, CreateOK
        <3> QED BY <2>4, <3>1 DEF CreateOK
    <2>7. ChangeOK(t)
        <3> HIDE DEF n
        <3> QED BY <1>1, <1>3, <2>3, <2>4 DEF SessionOK, ChangeOK, Open
    <2>8. FlushOK(t)
        <3> HIDE DEF n
        <3> QED BY <1>1, <1>3, <2>3, <2>4 DEF SessionOK, FlushOK, Flushing, Done
    <2>9. Nameless(s.events) /\ s.ask.kind = "create" => es = s.events
        OBVIOUS
    <2>10. \A u \in Users : Silent(<<e>>, u)
        <3>1. DOMAIN <<e>> = {1} /\ <<e>>[1] = e
            OBVIOUS
        <3> QED BY <3>1 DEF Silent, Concerns
    <2>11. Calls(<<e>>, n)
        <3>1. DOMAIN <<e>> = {1} /\ <<e>>[1] = e
            OBVIOUS
        <3> QED BY <3>1 DEF Calls, IsName
    <2>12. \A u \in Users : /\ TellsIn(s.events, u) => TellsIn(es, u)
                            /\ TellsOut(s.events, u) => TellsOut(es, u)
                            /\ Silent(s.events, u) => Silent(es, u)
        <3> HIDE DEF e, es, s
        <3>1. \A u : Silent(<<e>>, u) =>
                 /\ TellsIn(s.events, u) => TellsIn(s.events \o <<e>>, u)
                 /\ TellsOut(s.events, u) => TellsOut(s.events \o <<e>>, u)
                 /\ Silent(s.events, u) => Silent(s.events \o <<e>>, u)
            BY <1>4, JoinedTells
        <3> QED BY <1>4, <2>10, <3>1
    <2>13. es # s.events => Calls(es, n)
        <3> HIDE DEF e, es, n, s
        <3>1. Calls(<<e>>, n) => Calls(s.events \o <<e>>, n)
            BY <1>4, JoinedCalls
        <3> QED BY <1>4, <2>11, <3>1
    <2>14. es = s.events => n = s.name \/ s.ask.kind = "create"
        <3>1. s.events # Append(s.events, e)
            <4> HIDE DEF e
            <4>1. Len(Append(s.events, e)) = Len(s.events) + 1 /\ Len(s.events) \in Nat
                BY <1>4
            <4> QED BY <4>1
        <3> HIDE DEF e
        <3> QED BY <3>1
    <2>15. MemoryOK(t)
        <3> HIDE DEF es
        <3> QED BY <1>1, <2>3, <2>12 DEF SessionOK, MemoryOK
    <2>16. ToldOK(t)
        <3> HIDE DEF es, n
        <3>1. InHand(t) = InHand(s)
            BY <2>3 DEF InHand, Present
        <3>2. Calls(es, n) \/ (Nameless(es) /\ (n = s.base \/ s.ask.kind = "create"))
            <4>1. CASE s.ask.kind = "create"
                <5>1. s.events = <<>> /\ es = s.events
                    BY <1>1, <4>1 DEF SessionOK, CreateOK, es
                <5> QED BY <4>1, <5>1, Nothing
            <4>2. CASE s.ask.kind # "create"
                <5>1. CASE es = s.events
                    BY <1>1, <2>14, <4>2, <5>1 DEF SessionOK, ToldOK
                <5> QED BY <2>13, <5>1
            <4> QED BY <4>1, <4>2
        <3>3. \A u \in Users :
                 \/ TellsIn(s.events, u) /\ u \in InHand(s)
                 \/ TellsOut(s.events, u) /\ u \notin InHand(s)
                 \/ Silent(s.events, u) /\ (u \in InHand(s) <=> u \in UsersIn(s.rows))
            BY <1>1 DEF SessionOK, ToldOK
        <3> QED BY <2>3, <2>12, <3>1, <3>2, <3>3 DEF ToldOK
    <2>17. SessionOK(t)
        BY <2>5, <2>6, <2>7, <2>8, <2>15, <2>16 DEF SessionOK
    <2>18. tx' = [tx EXCEPT ![r] = t]
        BY <1>5, <2>1
    <2> HIDE DEF n
    <2> QED BY <1>5, <2>2, <2>3, <2>4, <2>17, <2>18 DEF Steps
<1>6. CASE Refuse(r, "409")
    BY <1>6, RefuseOK DEF Statuses
<1>7. t4.pc # "deny"
    <2> HIDE DEF t3
    <2> QED OBVIOUS
<1>8. Refuse(r, "409") \/
      (tx' = [tx EXCEPT ![r] = t4] /\
            (n = s.name \/ Namesakes(n) = {} \/ s.group \in Namesakes(n)))
    <2> DEFINE renamed == [s EXCEPT !.todo = Tail(@), !.name = n, !.events = es]
    <2>1. Onward(renamed) = t4
        BY <1>1 DEF Onward, Sessions
    <2> QED BY <2>1 DEF Rename, Update
<1> QED BY <1>5, <1>6, <1>7, <1>8

(* The session once the members of the group are loaded.                   *)
Loaded(t) ==
    IF t.loaded THEN t
    ELSE [t EXCEPT !.loaded = TRUE, !.rows = Rows(t.group), !.kept = Rows(t.group)]

LEMMA LoadedOK ==
    ASSUME IInv, NEW r \in Clients, tx[r].pc = "work", NEW l, l = Loaded(tx[r])
    PROVE  /\ l \in Sessions /\ SessionOK(l) /\ l.loaded
           /\ l.pc = tx[r].pc /\ l.ask = tx[r].ask /\ l.todo = tx[r].todo
           /\ l.group = tx[r].group /\ l.base = tx[r].base /\ l.name = tx[r].name
           /\ l.rows = IF tx[r].loaded THEN tx[r].rows ELSE Rows(tx[r].group)
<1> DEFINE s == tx[r]
           rows == Rows(s.group)
<1>1. s \in Sessions /\ SessionOK(s) /\ s.pc = "work"
    BY DEF IInv, Sound
<1>2. CASE s.loaded
    BY <1>1, <1>2 DEF Loaded
<1>3. CASE ~s.loaded
    <2>1. rows \in SUBSET MemberRow /\ \A m \in rows : m.group = s.group
        BY DEF IInv, TypeOK, Rows
    <2> HIDE DEF rows
    <2> DEFINE t1 == [s EXCEPT !.loaded = TRUE]
               t2 == [t1 EXCEPT !.rows = rows]
               t3 == [t2 EXCEPT !.kept = rows]
    <2>2. l = t3
        BY <1>3 DEF rows, Loaded
    <2>3. l \in Sessions
        <3>1. t1 \in Sessions
            BY <1>1, FieldUpdates
        <3>2. t2 \in Sessions
            <4> HIDE DEF t1
            <4> QED BY <2>1, <3>1, FieldUpdates
        <3>3. t3 \in Sessions
            <4> HIDE DEF t2
            <4> QED BY <2>1, <3>2, FieldUpdates
        <3> QED BY <2>2, <3>3
    <2>4. /\ l.pc = s.pc /\ l.ask = s.ask /\ l.todo = s.todo /\ l.group = s.group
          /\ l.base = s.base /\ l.name = s.name /\ l.loaded = TRUE /\ l.rows = rows /\ l.kept = rows
          /\ l.fresh = s.fresh /\ l.events = s.events /\ l.wrote = s.wrote /\ l.put = s.put
          /\ l.cut = s.cut
        BY <1>1, <2>2 DEF Sessions
    <2> HIDE DEF t3
    <2>5. s.ask.kind # "create" /\ s.fresh = {} /\ s.put = {} /\ s.rows = {} /\ s.kept = {}
          /\ \A u \in Users : Silent(s.events, u)
        BY <1>1, <1>3 DEF SessionOK, CreateOK, MemoryOK
    <2>6. PlanOK(l)
        BY <1>1, <2>4 DEF SessionOK, PlanOK
    <2>7. CreateOK(l) /\ ChangeOK(l)
        BY <1>1, <2>4, <2>5 DEF SessionOK, CreateOK, ChangeOK
    <2>8. FlushOK(l)
        BY <1>1, <2>4 DEF SessionOK, FlushOK
    <2>9. MemoryOK(l)
        BY <2>1, <2>4 DEF MemoryOK
    <2>10. InHand(l) = UsersIn(rows)
        BY <2>4, <2>5, Nothing DEF InHand, Present
    <2>11. ToldOK(l)
        BY <1>1, <2>4, <2>5, <2>10 DEF SessionOK, ToldOK
    <2> QED BY <1>3, <2>3, <2>4, <2>6, <2>7, <2>8, <2>9, <2>11 DEF SessionOK, rows
<1> QED BY <1>2, <1>3

(* What is told of the members after an operation on them.                 *)
ToldOf(es, hand, rows) ==
    \A u \in Users : \/ TellsIn(es, u) /\ u \in hand
                     \/ TellsOut(es, u) /\ u \notin hand
                     \/ Silent(es, u) /\ (u \in hand <=> u \in UsersIn(rows))

LEMMA ToldOnward ==
    ASSUME NEW l \in Sessions, SessionOK(l), l.pc = "work",
           NEW o \in Operations, o = Head(l.todo), o.path = "members", Complaint(l, o) = "none",
           NEW es, es = l.events \o Announced(l, o),
           NEW hand, hand = HandAfter(l, o)
    PROVE  /\ es \in Seq(EventRow)
           /\ ToldOf(es, hand, l.rows)
           /\ Calls(l.events, l.name) => Calls(es, l.name)
           /\ Nameless(l.events) => Nameless(es)
<1> DEFINE a == Announced(l, o)
           vs == o.value
<1>1. /\ a \in Seq(EventRow) /\ Nameless(a) /\ l.events \in Seq(EventRow)
      /\ o.op \in {"add", "replace", "remove"}
    BY Announcement, OperationParts DEF Sessions
<1>2. \A u : /\ TellsIn(a, u) => TellsIn(es, u)
             /\ TellsOut(a, u) => TellsOut(es, u)
             /\ Silent(a, u) /\ TellsIn(l.events, u) => TellsIn(es, u)
             /\ Silent(a, u) /\ TellsOut(l.events, u) => TellsOut(es, u)
             /\ Silent(a, u) /\ Silent(l.events, u) => Silent(es, u)
    <2> HIDE DEF a
    <2>1. es = l.events \o a
        BY DEF a
    <2> QED BY <1>1, <2>1, JoinedTells
<1>3. es \in Seq(EventRow) /\ (Calls(l.events, l.name) => Calls(es, l.name))
      /\ (Nameless(l.events) => Nameless(es))
    <2> HIDE DEF a
    <2>1. es = l.events \o a
        BY DEF a
    <2>2. l.events \o a \in Seq(EventRow)
        BY <1>1
    <2>3. Calls(l.events, l.name) => Calls(l.events \o a, l.name)
        BY <1>1, JoinedCalls
    <2>4. Nameless(l.events) => Nameless(l.events \o a)
        BY <1>1, JoinedCalls
    <2> QED BY <2>1, <2>2, <2>3, <2>4
<1>4. InHand(l) = Present(l)
    BY DEF InHand, SessionOK, FlushOK
<1>5. \A u \in Users :
         \/ TellsIn(l.events, u) /\ u \in Present(l)
         \/ TellsOut(l.events, u) /\ u \notin Present(l)
         \/ Silent(l.events, u) /\ (u \in Present(l) <=> u \in UsersIn(l.rows))
    BY <1>4 DEF SessionOK, ToldOK
<1>6. ASSUME NEW u \in Users
      PROVE  \/ TellsIn(es, u) /\ u \in hand
             \/ TellsOut(es, u) /\ u \notin hand
             \/ Silent(es, u) /\ (u \in hand <=> u \in UsersIn(l.rows))
    <2>1. CASE o.op = "replace" /\ ~(l.ask.kind = "create" /\ vs = <<>>)
        <3>1. IF u \in ToSet(vs) THEN TellsIn(a, u) ELSE TellsOut(a, u)
            BY <2>1, Announcement
        <3>2. hand = ToSet(vs)
            BY <2>1 DEF HandAfter
        <3> QED BY <1>2, <3>1, <3>2
    <2>2. CASE o.op = "replace" /\ l.ask.kind = "create" /\ vs = <<>>
        <3>1. a = <<>>
            BY <2>2, Announcement
        <3>2. l.events = <<>> /\ l.rows = {}
            BY <2>2 DEF SessionOK, CreateOK
        <3>3. ToSet(vs) = {} /\ UsersIn(l.rows) = {}
            BY <2>2, <3>2, Nothing DEF ToSet
        <3>4. hand = ToSet(vs)
            BY <2>2 DEF HandAfter
        <3> QED BY <1>2, <3>1, <3>2, <3>3, <3>4, Nothing
    <2>3. CASE o.op = "add"
        <3>1. IF u \in ToSet(vs) THEN TellsIn(a, u) ELSE Silent(a, u)
            BY <2>3, Announcement
        <3>2. hand = Present(l) \cup ToSet(vs)
            BY <2>3 DEF HandAfter
        <3> HIDE DEF a, vs
        <3> QED BY <1>2, <1>5, <3>1, <3>2
    <2>4. CASE o.op = "remove"
        <3>1. IF u \in ToSet(vs) THEN TellsOut(a, u) ELSE Silent(a, u)
            BY <2>4, Announcement
        <3>2. hand = Present(l) \ ToSet(vs)
            BY <2>4 DEF HandAfter
        <3> HIDE DEF a, vs
        <3> QED BY <1>2, <1>5, <3>1, <3>2
    <2> QED BY <1>1, <2>1, <2>2, <2>3, <2>4
<1> QED BY <1>3, <1>6 DEF ToldOf

LEMMA ChangeSteps ==
    ASSUME IInv, NEW r \in Clients, ChangeMembers(r)
    PROVE  \E t : Steps(r, t) /\ t.pc \in {"deny", "work", "write"} /\
              (t.pc # "deny" =>
                 /\ t.ask = tx[r].ask /\ t.group = tx[r].group /\ t.base = tx[r].base
                 /\ t.name = tx[r].name
                 /\ t.rows = IF tx[r].loaded THEN tx[r].rows ELSE Rows(tx[r].group))
<1> DEFINE s == tx[r]
           o == Head(s.todo)
<1>1. /\ s \in Sessions /\ SessionOK(s) /\ s.pc = "work" /\ o.path = "members"
    BY DEF IInv, Sound, ChangeMembers, At
<1>2. PICK l : l = Loaded(s)
    OBVIOUS
<1>3. /\ l \in Sessions /\ SessionOK(l) /\ l.loaded
      /\ l.pc = "work" /\ l.ask = s.ask /\ l.todo = s.todo /\ l.group = s.group /\ l.base = s.base
      /\ l.name = s.name /\ l.rows = IF s.loaded THEN s.rows ELSE Rows(s.group)
    BY <1>1, <1>2, LoadedOK
<1>4. /\ l.ask \in Workload /\ Parses(l.ask) /\ l.ask.kind \in {"create", "replace", "patch"}
      /\ o \in Operations /\ Tail(l.todo) \in Seq(Operations)
      /\ \E j \in DOMAIN Plan(l.ask) : o = Plan(l.ask)[j]
      /\ \A i \in DOMAIN Tail(l.todo) : \E j \in DOMAIN Plan(l.ask) : Tail(l.todo)[i] = Plan(l.ask)[j]
      /\ l.ask.kind = "create" => Tail(l.todo) = <<>> /\ l.name \in Names
    <2>1. o = Head(l.todo)
        BY <1>3
    <2> HIDE DEF o, s
    <2> QED BY <1>1, <1>3, <2>1, PlanGoesOn
<1>5. o.path = "members" /\ o = Head(l.todo)
    BY <1>1, <1>3
<1>6. PICK c : c = Complaint(l, o)
    OBVIOUS
<1>7. IF c # "none" THEN Refuse(r, c)
      ELSE Update(r, Onward([Applied(l, o) EXCEPT !.todo = Tail(@),
                                                  !.events = @ \o Announced(l, o)]))
    BY <1>2, <1>6 DEF ChangeMembers, Loaded
<1> HIDE DEF o
<1>8. CASE c # "none"
    <2>1. c \in Statuses
        BY <1>6, <1>8 DEF Complaint, Statuses
    <2> QED BY <1>7, <1>8, <2>1, RefuseOK
<1>9. CASE c = "none"
    <2> DEFINE z == Applied(l, o)
               es == l.events \o Announced(l, o)
               label == IF Tail(l.todo) = <<>> THEN "write" ELSE "work"
               hand == UsersIn(z.kept) \cup UsersIn(z.fresh)
    <2>1. /\ z = [l EXCEPT !.kept = z.kept, !.fresh = z.fresh]
          /\ z.kept \in SUBSET MemberRow /\ z.fresh \in SUBSET NewMember /\ z.kept \subseteq l.kept
          /\ z.fresh # {} => l.fresh # {} \/ o.op \in {"add", "replace"}
          /\ hand = HandAfter(l, o)
        <3>1. Complaint(l, o) = "none"
            BY <1>6, <1>9
        <3> QED BY <1>3, <1>4, <1>5, <3>1, Application
    <2>2. /\ es \in Seq(EventRow)
          /\ ToldOf(es, hand, l.rows)
          /\ Calls(l.events, l.name) => Calls(es, l.name)
          /\ Nameless(l.events) => Nameless(es)
        <3> HIDE DEF hand, es
        <3>1. Complaint(l, o) = "none" /\ es = l.events \o Announced(l, o)
            BY <1>6, <1>9 DEF es
        <3>2. /\ l \in Sessions /\ SessionOK(l) /\ l.pc = "work"
              /\ o \in Operations /\ o = Head(l.todo) /\ o.path = "members"
            BY <1>3, <1>4, <1>5
        <3>3. hand = HandAfter(l, o)
            BY <2>1
        <3> HIDE DEF z, label, s
        <3> QED BY <3>1, <3>2, <3>3, ToldOnward
    <2>3. PICK kept \in SUBSET MemberRow, fresh \in SUBSET NewMember :
             kept = z.kept /\ fresh = z.fresh
        BY <2>1
    <2>4. PICK ev : ev = es
        OBVIOUS
    <2> DEFINE t1 == [l EXCEPT !.kept = kept]
               t2 == [t1 EXCEPT !.fresh = fresh]
               t3 == [t2 EXCEPT !.todo = Tail(l.todo)]
               t4 == [t3 EXCEPT !.events = ev]
    <2>5. PICK t : t = [t4 EXCEPT !.pc = label]
        OBVIOUS
    <2>6. z = t2
        BY <2>1, <2>3
    <2>7. Onward([z EXCEPT !.todo = Tail(@), !.events = @ \o Announced(l, o)]) = t
        <3>1. z.todo = l.todo /\ z.events = l.events
            <4> HIDE DEF z
            <4> QED BY <1>3, <2>6 DEF Sessions
        <3>2. [z EXCEPT !.todo = Tail(@), !.events = @ \o Announced(l, o)] = t4
            <4> HIDE DEF z
            <4>1. [z EXCEPT !.todo = Tail(@), !.events = @ \o Announced(l, o)]
                    = [z EXCEPT !.todo = Tail(l.todo), !.events = ev]
                BY <2>4, <3>1
            <4> HIDE DEF t2
            <4> QED BY <2>6, <4>1
        <3>3. t4.todo = Tail(l.todo)
            BY <1>3 DEF Sessions
        <3> HIDE DEF t4, z
        <3> QED BY <2>5, <3>2, <3>3 DEF Onward
    <2> HIDE DEF z
    <2>8. tx' = [tx EXCEPT ![r] = t]
        BY <1>7, <1>9, <2>7 DEF Update, z
    <2>9. t \in Sessions
        <3>1. t1 \in Sessions
            BY <1>3, FieldUpdates
        <3>2. t2 \in Sessions
            <4> HIDE DEF t1
            <4> QED BY <3>1, FieldUpdates
        <3>3. t3 \in Sessions
            <4> HIDE DEF t2
            <4> QED BY <1>4, <3>2, FieldUpdates
        <3>4. t4 \in Sessions
            <4>1. ev \in Seq(EventRow)
                BY <2>2, <2>4
            <4> HIDE DEF t3
            <4> QED BY <4>1, <3>3, FieldUpdates
        <3>5. label \in {"work", "write"}
            OBVIOUS
        <3> HIDE DEF t4, label
        <3> QED BY <2>5, <3>4, <3>5, FieldUpdates
    <2>10. /\ t.pc = label /\ t.ask = l.ask /\ t.todo = Tail(l.todo) /\ t.group = l.group
           /\ t.base = l.base /\ t.name = l.name /\ t.loaded = l.loaded /\ t.rows = l.rows
           /\ t.kept = kept /\ t.fresh = fresh /\ t.events = ev /\ t.wrote = l.wrote
           /\ t.put = l.put /\ t.cut = l.cut
        <3> HIDE DEF label
        <3> QED BY <1>3, <2>5 DEF Sessions
    <2>11. label \in {"work", "write"} /\ (label = "work" => Tail(l.todo) # <<>>)
        OBVIOUS
    <2>12. label = "work" => l.ask.kind # "create"
        BY <1>4
    <2> HIDE DEF t4, label
    <2>13. PlanOK(t)
        <3>1. t.fresh # {} \/ t.put # {} => CanAdd(t.ask)
            <4>1. l.fresh # {} \/ l.put # {} => CanAdd(l.ask)
                BY <1>3 DEF SessionOK, PlanOK
            <4>2. o.op \in {"add", "replace"} => CanAdd(l.ask)
                BY <1>4, <1>5 DEF CanAdd
            <4> QED BY <2>1, <2>3, <2>10, <4>1, <4>2
        <3> QED BY <1>4, <2>10, <2>11, <3>1 DEF PlanOK
    <2>14. CreateOK(t)
        BY <1>3, <1>4, <2>1, <2>3, <2>10, <2>11, <2>12 DEF SessionOK, CreateOK
    <2>15. ChangeOK(t)
        BY <1>3, <2>10, <2>11 DEF SessionOK, ChangeOK, Open
    <2>16. FlushOK(t)
        <3>1. l.name \in Names
            BY <1>3, <1>4 DEF SessionOK, ChangeOK, Open
        <3> QED BY <1>3, <2>10, <2>11, <3>1 DEF SessionOK, FlushOK, Flushing, Done
    <2>17. MemoryOK(t)
        BY <1>3, <2>1, <2>3, <2>10 DEF SessionOK, MemoryOK
    <2>18. ToldOK(t)
        <3>1. InHand(t) = hand
            <4>1. l.put = {}
                BY <1>3 DEF SessionOK, FlushOK
            <4> QED BY <2>3, <2>10, <4>1 DEF InHand, Present
        <3>2. Calls(l.events, l.name) \/ (Nameless(l.events) /\ (l.name = l.base \/ l.ask.kind = "create"))
            BY <1>3 DEF SessionOK, ToldOK
        <3> HIDE DEF hand, es
        <3> QED BY <2>2, <2>4, <2>10, <3>1, <3>2 DEF ToldOK, ToldOf
    <2>19. SessionOK(t)
        BY <2>13, <2>14, <2>15, <2>16, <2>17, <2>18 DEF SessionOK
    <2>20. Steps(r, t)
        BY <2>8, <2>9, <2>19 DEF Steps
    <2> HIDE DEF o, z, es, hand, t1, t2, t3
    <2> QED BY <1>3, <2>10, <2>11, <2>20
<1> QED BY <1>8, <1>9

(* The flush goes on to its next statement.                                *)
SameWork(t, s) ==
    /\ t.ask = s.ask /\ t.number = s.number /\ t.base = s.base /\ t.name = s.name
    /\ t.loaded = s.loaded /\ t.rows = s.rows /\ t.kept = s.kept /\ t.events = s.events

LEMMA FlushSteps ==
    ASSUME NEW s \in Sessions, s.pc \in {"write", "insert", "delete"},
           PlanOK(s), ChangeOK(s), MemoryOK(s), ToldOK(s),
           s.ask.kind = "create" => s.loaded /\ s.base = None /\ s.rows = {} /\ s.kept = {},
           s.name \in Names, s.group \in Groups, s.wrote <=> s.name # s.base
    PROVE  LET t == Flush(s) IN
           /\ t \in Sessions /\ SessionOK(t) /\ t.pc \in Flushing /\ SameWork(t, s)
           /\ t.group = s.group /\ t.wrote = s.wrote /\ t.put = s.put
<1> DEFINE label == IF s.fresh # {} THEN "insert"
                    ELSE IF Dropped(s) # {} /\ ~s.cut THEN "delete" ELSE "commit"
           t == Flush(s)
<1>1. t = [s EXCEPT !.pc = label]
    BY DEF Flush
<1>2. /\ label \in {"insert", "delete", "commit"}
      /\ label = "insert" <=> s.fresh # {}
    OBVIOUS
<1>3. t \in Sessions
    <2> HIDE DEF label, t
    <2> QED BY <1>1, <1>2, FieldUpdates
<1>4. /\ t.pc = label /\ t.ask = s.ask /\ t.number = s.number /\ t.todo = s.todo /\ t.group = s.group
      /\ t.base = s.base /\ t.name = s.name /\ t.loaded = s.loaded /\ t.rows = s.rows
      /\ t.kept = s.kept /\ t.fresh = s.fresh /\ t.events = s.events /\ t.wrote = s.wrote
      /\ t.put = s.put /\ t.cut = s.cut
    <2> HIDE DEF label, t
    <2> QED BY <1>1 DEF Sessions
<1> HIDE DEF t, label
<1>5. PlanOK(t)
    BY <1>2, <1>4 DEF PlanOK
<1>6. CreateOK(t)
    BY <1>2, <1>4 DEF CreateOK
<1>7. ChangeOK(t)
    BY <1>2, <1>4 DEF ChangeOK, Open, Flushing
<1>8. FlushOK(t)
    BY <1>2, <1>4 DEF FlushOK, Flushing, Done
<1>9. MemoryOK(t)
    BY <1>4 DEF MemoryOK
<1>10. ToldOK(t)
    <2>1. InHand(t) = InHand(s)
        BY <1>4 DEF InHand, Present
    <2> QED BY <1>4, <2>1 DEF ToldOK
<1>11. SessionOK(t)
    BY <1>5, <1>6, <1>7, <1>8, <1>9, <1>10 DEF SessionOK
<1> QED BY <1>2, <1>3, <1>4, <1>11 DEF t, SameWork, Flushing

(* A session that is flushing is one that others wait for.                 *)
LEMMA FlushingOthers ==
    ASSUME IInv, NEW r \in Clients, NEW s \in Clients, s # r, tx[s].pc \in Flushing
    PROVE  s \in Others(r) /\ tx[s].group \in Groups /\ SessionOK(tx[s])
<1>1. SessionOK(tx[s])
    BY DEF IInv, Sound
<1>2. tx[s].group \in Groups
    BY <1>1 DEF SessionOK, FlushOK
<1> QED BY <1>1, <1>2, ScimGroupsAssumption DEF Others, Flushing

(* What it means that a new name is written.                               *)
NameIsFree(r, t) ==
    t.wrote =>
       /\ \A g \in Groups : groups[g] = t.name => g = t.group
       /\ \A s \in Clients \ {r} : tx[s].pc \in Flushing /\ tx[s].wrote => tx[s].name # t.name

LEMMA WriteSteps ==
    ASSUME IInv, NEW r \in Clients, WriteGroup(r)
    PROVE  \E t : Steps(r, t) /\
              \/ t.pc = "idle"
              \/ /\ t.pc \in Flushing /\ SameWork(t, tx[r]) /\ t.put = {} /\ NameIsFree(r, t)
                 /\ tx[r].pc = "write"
                 /\ IF t.ask.kind = "create" THEN groups[t.group] = None ELSE t.group = tx[r].group
<1> DEFINE s == tx[r]
<1>1. /\ s \in Sessions /\ SessionOK(s) /\ s.pc = "write" /\ Waits(r) = {}
    BY DEF IInv, Sound, WriteGroup, At, Granted
<1>2. s.ask \in Workload /\ s.ask.kind \in {"create", "replace", "patch"}
    BY <1>1, PlanTyped DEF SessionOK, PlanOK
<1>3. /\ s.put = {} /\ ~s.wrote /\ ~s.cut /\ s.name \in Names
      /\ PlanOK(s) /\ ChangeOK(s) /\ MemoryOK(s) /\ ToldOK(s)
      /\ s.ask.kind = "create" => s.loaded /\ s.base = None /\ s.rows = {} /\ s.kept = {} /\ s.group = None
    BY <1>1 DEF SessionOK, FlushOK, CreateOK
<1>4. \A q \in Clients \ {r} : tx[q].pc \in Flushing => ~WaitsAtWrite(r, q)
    <2>1. \A q \in Others(r) : ~WaitsAtWrite(r, q)
        BY <1>1 DEF Waits, At
    <2> QED BY <2>1, FlushingOthers
<1>5. CASE s.name # s.base /\ NameTaken(r)
    BY <1>5, AbortOK DEF WriteGroup
<1>6. CASE ~(s.name # s.base /\ NameTaken(r)) /\ s.ask.kind # "create"
    <2> DEFINE w == (s.name # s.base)
    <2>1. PICK h : h = [s EXCEPT !.wrote = w]
        OBVIOUS
    <2>2. h \in Sessions
        <3>1. w \in BOOLEAN
            OBVIOUS
        <3> HIDE DEF w
        <3> QED BY <1>1, <2>1, <3>1, FieldUpdates
    <2>3. /\ h.pc = "write" /\ h.ask = s.ask /\ h.number = s.number /\ h.todo = s.todo /\ h.group = s.group
          /\ h.base = s.base /\ h.name = s.name /\ h.loaded = s.loaded /\ h.rows = s.rows
          /\ h.kept = s.kept /\ h.fresh = s.fresh /\ h.events = s.events /\ h.wrote = w
          /\ h.put = s.put /\ h.cut = s.cut
        <3> HIDE DEF w
        <3> QED BY <1>1, <2>1 DEF Sessions
    <2>4. PlanOK(h)
        BY <1>1, <1>3, <2>3 DEF PlanOK
    <2>5. ChangeOK(h) /\ h.group \in Groups
        BY <1>1, <1>3, <1>6, <2>3 DEF ChangeOK, Open
    <2>6. MemoryOK(h)
        BY <1>3, <2>3 DEF MemoryOK
    <2>7. ToldOK(h)
        <3>1. InHand(h) = InHand(s)
            BY <2>3 DEF InHand, Present
        <3> QED BY <1>3, <2>3, <3>1 DEF ToldOK
    <2>8. h.wrote <=> h.name # h.base
        BY <2>3
    <2>9. PICK t : t = Flush(h)
        OBVIOUS
    <2>10. /\ t \in Sessions /\ SessionOK(t) /\ t.pc \in Flushing /\ SameWork(t, h)
           /\ t.group = h.group /\ t.wrote = h.wrote /\ t.put = h.put
        <3> HIDE DEF w, s
        <3> QED BY <1>3, <1>6, <2>2, <2>3, <2>4, <2>5, <2>6, <2>7, <2>8, <2>9, FlushSteps
    <2>11. tx' = [tx EXCEPT ![r] = t]
        BY <1>6, <2>1, <2>9 DEF WriteGroup, Update
    <2>12. SameWork(t, s) /\ t.group = s.group /\ t.put = {} /\ (t.wrote <=> s.name # s.base)
        BY <1>3, <2>3, <2>10 DEF SameWork
    <2>13. NameIsFree(r, t)
        <3>1. t.wrote => ~NameTaken(r)
            BY <1>6, <2>12
        <3> QED BY <1>4, <2>12, <3>1 DEF NameIsFree, NameTaken, WaitsAtWrite, SameWork
    <2> QED BY <1>1, <1>6, <2>10, <2>11, <2>12, <2>13 DEF Steps, SameWork
<1>7. CASE ~(s.name # s.base /\ NameTaken(r)) /\ s.ask.kind = "create"
    <2>1. PICK g \in FreeIds : Update(r, Flush([s EXCEPT !.wrote = TRUE, !.group = g]))
        BY <1>7 DEF WriteGroup
    <2>2. g \in Groups /\ groups[g] = None
        BY <2>1 DEF FreeIds
    <2> DEFINE h1 == [s EXCEPT !.wrote = TRUE]
    <2>3. PICK h : h = [h1 EXCEPT !.group = g]
        OBVIOUS
    <2>4. h \in Sessions
        <3>1. h1 \in Sessions
            BY <1>1, FieldUpdates
        <3> HIDE DEF h1
        <3> QED BY <2>2, <2>3, <3>1, FieldUpdates
    <2>5. /\ h.pc = "write" /\ h.ask = s.ask /\ h.number = s.number /\ h.todo = s.todo /\ h.group = g
          /\ h.base = s.base /\ h.name = s.name /\ h.loaded = s.loaded /\ h.rows = s.rows
          /\ h.kept = s.kept /\ h.fresh = s.fresh /\ h.events = s.events /\ h.wrote = TRUE
          /\ h.put = s.put /\ h.cut = s.cut
        BY <1>1, <2>3 DEF Sessions
    <2>6. PlanOK(h)
        BY <1>1, <1>3, <2>5 DEF PlanOK
    <2>7. ChangeOK(h)
        BY <1>7, <2>5 DEF ChangeOK
    <2>8. MemoryOK(h)
        BY <1>3, <1>7, <2>5 DEF MemoryOK
    <2>9. ToldOK(h)
        <3>1. InHand(h) = InHand(s)
            BY <2>5 DEF InHand, Present
        <3> QED BY <1>3, <2>5, <3>1 DEF ToldOK
    <2>10. h.wrote <=> h.name # h.base
        BY <1>3, <1>7, <2>5, ScimGroupsAssumption
    <2>11. PICK t : t = Flush(h)
        OBVIOUS
    <2>12. /\ t \in Sessions /\ SessionOK(t) /\ t.pc \in Flushing /\ SameWork(t, h)
           /\ t.group = h.group /\ t.wrote = h.wrote /\ t.put = h.put
        <3> HIDE DEF s
        <3> QED BY <1>3, <1>7, <2>2, <2>4, <2>5, <2>6, <2>7, <2>8, <2>9, <2>10, <2>11, FlushSteps
    <2>13. tx' = [tx EXCEPT ![r] = t]
        BY <2>1, <2>3, <2>11 DEF Update
    <2>14. SameWork(t, s) /\ t.group = g /\ t.put = {} /\ t.wrote
        BY <1>3, <2>5, <2>12 DEF SameWork
    <2>15. NameIsFree(r, t)
        <3>1. s.name # s.base /\ s.group = None
            BY <1>3, <1>7, ScimGroupsAssumption
        <3>2. \A k \in Groups : groups[k] # s.name
            BY <1>7, <3>1, ScimGroupsAssumption DEF NameTaken
        <3>3. \A q \in Clients \ {r} : tx[q].pc \in Flushing /\ tx[q].wrote => tx[q].name # s.name
            BY <1>4, <3>1 DEF WaitsAtWrite
        <3> QED BY <2>14, <3>2, <3>3 DEF NameIsFree, SameWork
    <2> QED BY <1>1, <1>7, <2>2, <2>12, <2>13, <2>14, <2>15 DEF Steps, SameWork
<1> QED BY <1>5, <1>6, <1>7

LEMMA InsertSteps ==
    ASSUME IInv, NEW r \in Clients, InsertMember(r)
    PROVE  \E t : Steps(r, t) /\
              \/ t.pc = "idle"
              \/ /\ t.pc \in Flushing /\ tx[r].pc = "insert" /\ SameWork(t, tx[r])
                 /\ t.group = tx[r].group /\ t.wrote = tx[r].wrote
                 /\ \E u \in Users :
                       /\ t.put = tx[r].put \cup {u} /\ u \notin UsersIn(Rows(t.group))
                       /\ \A q \in Clients \ {r} : tx[q].pc \in Flushing /\ tx[q].group = t.group
                                                      => u \notin tx[q].put
<1> DEFINE s == tx[r]
<1>1. /\ s \in Sessions /\ SessionOK(s) /\ s.pc = "insert" /\ Waits(r) = {}
    BY DEF IInv, Sound, InsertMember, At, Granted
<1>2. PICK m \in Soonest(s) :
         IF m.user \in UsersIn(Rows(s.group)) THEN Abort(r)
         ELSE Update(r, Flush([s EXCEPT !.fresh = s.fresh \ {m}, !.put = s.put \cup {m.user}]))
    BY DEF InsertMember
<1>3. m \in s.fresh /\ m \in NewMember /\ m.user \in Users
    BY <1>1, <1>2 DEF Soonest, Sessions, NewMember
<1>4. CASE m.user \in UsersIn(Rows(s.group))
    BY <1>2, <1>4, AbortOK
<1>5. CASE m.user \notin UsersIn(Rows(s.group))
    <2> DEFINE rest == s.fresh \ {m}
               more == s.put \cup {m.user}
               h1 == [s EXCEPT !.fresh = rest]
    <2>1. PICK h : h = [h1 EXCEPT !.put = more]
        OBVIOUS
    <2>2. h \in Sessions
        <3>1. rest \in SUBSET NewMember /\ more \in SUBSET Users
            BY <1>1, <1>3 DEF Sessions
        <3>2. h1 \in Sessions
            <4> HIDE DEF rest
            <4> QED BY <1>1, <3>1, FieldUpdates
        <3> HIDE DEF h1, more
        <3> QED BY <2>1, <3>1, <3>2, FieldUpdates
    <2>3. /\ h.pc = "insert" /\ h.ask = s.ask /\ h.number = s.number /\ h.todo = s.todo /\ h.group = s.group
          /\ h.base = s.base /\ h.name = s.name /\ h.loaded = s.loaded /\ h.rows = s.rows
          /\ h.kept = s.kept /\ h.fresh = rest /\ h.events = s.events /\ h.wrote = s.wrote
          /\ h.put = more /\ h.cut = s.cut
        <3> HIDE DEF rest, more
        <3> QED BY <1>1, <2>1 DEF Sessions
    <2>4. PlanOK(h)
        BY <1>1, <1>3, <2>3 DEF SessionOK, PlanOK
    <2>5. ChangeOK(h)
        BY <1>1, <2>3 DEF SessionOK, ChangeOK
    <2>6. MemoryOK(h)
        <3>1. s.loaded
            BY <1>1, <1>3 DEF SessionOK, MemoryOK
        <3> QED BY <1>1, <2>3, <3>1 DEF SessionOK, MemoryOK
    <2>7. ToldOK(h)
        <3>1. UsersIn(s.fresh) = UsersIn(rest) \cup {m.user}
            BY <1>3 DEF UsersIn
        <3>2. InHand(h) = InHand(s)
            BY <2>3, <3>1 DEF InHand, Present
        <3> QED BY <1>1, <2>3, <3>2 DEF SessionOK, ToldOK
    <2>8. /\ h.name \in Names /\ h.group \in Groups /\ (h.wrote <=> h.name # h.base)
          /\ h.ask.kind = "create" => h.loaded /\ h.base = None /\ h.rows = {} /\ h.kept = {}
        BY <1>1, <2>3 DEF SessionOK, FlushOK, CreateOK, Flushing
    <2>9. PICK t : t = Flush(h)
        OBVIOUS
    <2>10. /\ t \in Sessions /\ SessionOK(t) /\ t.pc \in Flushing /\ SameWork(t, h)
           /\ t.group = h.group /\ t.wrote = h.wrote /\ t.put = h.put
        <3>1. h.pc \in {"write", "insert", "delete"}
            BY <2>3
        <3> HIDE DEF s, rest, more
        <3> QED BY <2>2, <2>4, <2>5, <2>6, <2>7, <2>8, <2>9, <3>1, FlushSteps
    <2>11. tx' = [tx EXCEPT ![r] = t]
        BY <1>2, <1>5, <2>1, <2>9 DEF Update
    <2>12. \A q \in Clients \ {r} : tx[q].pc \in Flushing /\ tx[q].group = s.group
                                      => m.user \notin tx[q].put
        <3>1. \A q \in Others(r) : ~WaitsAtInsert(r, q)
            BY <1>1 DEF Waits, At
        <3>2. \A q \in Clients \ {r} : tx[q].pc \in Flushing => ~WaitsAtInsert(r, q)
            BY <3>1, FlushingOthers
        <3> QED BY <1>2, <3>2 DEF WaitsAtInsert, Same
    <2>13. SameWork(t, s) /\ t.group = s.group /\ t.wrote = s.wrote /\ t.put = s.put \cup {m.user}
        BY <2>3, <2>10 DEF SameWork
    <2>14. Steps(r, t)
        BY <2>10, <2>11 DEF Steps
    <2> HIDE DEF rest, more
    <2> QED BY <1>1, <1>3, <1>5, <2>10, <2>12, <2>13, <2>14
<1> QED BY <1>4, <1>5

LEMMA DeleteSteps ==
    ASSUME IInv, NEW r \in Clients, DeleteMembers(r)
    PROVE  \E t : Steps(r, t) /\ t.pc \in Flushing /\ tx[r].pc = "delete" /\ SameWork(t, tx[r])
                     /\ t.group = tx[r].group /\ t.wrote = tx[r].wrote /\ t.put = tx[r].put
<1> DEFINE s == tx[r]
<1>1. /\ s \in Sessions /\ SessionOK(s) /\ s.pc = "delete"
    BY DEF IInv, Sound, DeleteMembers, At
<1>2. PICK h : h = [s EXCEPT !.cut = TRUE]
    OBVIOUS
<1>3. h \in Sessions
    BY <1>1, <1>2, FieldUpdates
<1>4. /\ h.pc = "delete" /\ h.ask = s.ask /\ h.number = s.number /\ h.todo = s.todo /\ h.group = s.group
      /\ h.base = s.base /\ h.name = s.name /\ h.loaded = s.loaded /\ h.rows = s.rows
      /\ h.kept = s.kept /\ h.fresh = s.fresh /\ h.events = s.events /\ h.wrote = s.wrote
      /\ h.put = s.put /\ h.cut = TRUE
    BY <1>1, <1>2 DEF Sessions
<1>5. PlanOK(h)
    BY <1>1, <1>4 DEF SessionOK, PlanOK
<1>6. ChangeOK(h)
    BY <1>1, <1>4 DEF SessionOK, ChangeOK
<1>7. MemoryOK(h)
    BY <1>1, <1>4 DEF SessionOK, MemoryOK
<1>8. ToldOK(h)
    <2>1. InHand(h) = InHand(s)
        BY <1>4 DEF InHand, Present
    <2> QED BY <1>1, <1>4, <2>1 DEF SessionOK, ToldOK
<1>9. /\ h.name \in Names /\ h.group \in Groups /\ (h.wrote <=> h.name # h.base)
      /\ h.ask.kind = "create" => h.loaded /\ h.base = None /\ h.rows = {} /\ h.kept = {}
    BY <1>1, <1>4 DEF SessionOK, FlushOK, CreateOK, Flushing
<1>10. PICK t : t = Flush(h)
    OBVIOUS
<1>11. /\ t \in Sessions /\ SessionOK(t) /\ t.pc \in Flushing /\ SameWork(t, h)
       /\ t.group = h.group /\ t.wrote = h.wrote /\ t.put = h.put
    <2>1. h.pc \in {"write", "insert", "delete"}
        BY <1>4
    <2> HIDE DEF s
    <2> QED BY <1>3, <1>5, <1>6, <1>7, <1>8, <1>9, <1>10, <2>1, FlushSteps
<1>12. tx' = [tx EXCEPT ![r] = t]
    BY <1>2, <1>10 DEF DeleteMembers, Update
<1>13. Steps(r, t)
    BY <1>11, <1>12 DEF Steps
<1>14. SameWork(t, s) /\ t.group = s.group /\ t.wrote = s.wrote /\ t.put = s.put
    BY <1>4, <1>11 DEF SameWork
<1> QED BY <1>1, <1>11, <1>13, <1>14

LEMMA CommitSteps ==
    ASSUME IInv, NEW r \in Clients, Commit(r)
    PROVE  \E t : Steps(r, t) /\ t.pc = "publish" /\ tx[r].pc = "commit" /\ SameWork(t, tx[r])
                     /\ t.group = tx[r].group /\ t.wrote = tx[r].wrote /\ t.put = tx[r].put
                     /\ t.fresh = {}
<1> DEFINE s == tx[r]
<1>1. s \in Sessions /\ SessionOK(s) /\ s.pc = "commit"
    BY DEF IInv, Sound, Commit, At
<1>2. PICK t : t = [s EXCEPT !.pc = "publish"]
    OBVIOUS
<1>3. t \in Sessions
    BY <1>1, <1>2, FieldUpdates
<1>4. /\ t.pc = "publish" /\ t.ask = s.ask /\ t.number = s.number /\ t.todo = s.todo /\ t.group = s.group
      /\ t.base = s.base /\ t.name = s.name /\ t.loaded = s.loaded /\ t.rows = s.rows
      /\ t.kept = s.kept /\ t.fresh = s.fresh /\ t.events = s.events /\ t.wrote = s.wrote
      /\ t.put = s.put /\ t.cut = s.cut
    BY <1>1, <1>2 DEF Sessions
<1>5. PlanOK(t) /\ CreateOK(t)
    BY <1>1, <1>4 DEF SessionOK, PlanOK, CreateOK
<1>6. ChangeOK(t) /\ FlushOK(t)
    BY <1>1, <1>4 DEF SessionOK, ChangeOK, FlushOK, Open, Flushing, Done
<1>7. MemoryOK(t)
    BY <1>1, <1>4 DEF SessionOK, MemoryOK
<1>8. ToldOK(t)
    <2>1. InHand(t) = InHand(s)
        BY <1>4 DEF InHand, Present
    <2> QED BY <1>1, <1>4, <2>1 DEF SessionOK, ToldOK
<1>9. tx' = [tx EXCEPT ![r] = t]
    BY <1>2 DEF Commit, Update
<1>10. Steps(r, t)
    BY <1>3, <1>5, <1>6, <1>7, <1>8, <1>9 DEF Steps, SessionOK
<1>11. SameWork(t, s) /\ t.fresh = {}
    BY <1>1, <1>4 DEF SameWork, SessionOK, FlushOK
<1> QED BY <1>1, <1>4, <1>10, <1>11

LEMMA PublishSteps ==
    ASSUME IInv, NEW r \in Clients, Publish(r)
    PROVE  \E t : Steps(r, t) /\ t.pc = "reread" /\ tx[r].pc = "publish" /\ t.group = tx[r].group
<1> DEFINE s == tx[r]
<1>1. s \in Sessions /\ SessionOK(s) /\ s.pc = "publish"
    BY DEF IInv, Sound, Publish, At
<1>2. PICK t : t = [s EXCEPT !.pc = "reread"]
    OBVIOUS
<1>3. t \in Sessions
    BY <1>1, <1>2, FieldUpdates
<1>4. /\ t.pc = "reread" /\ t.ask = s.ask /\ t.number = s.number /\ t.todo = s.todo /\ t.group = s.group
      /\ t.base = s.base /\ t.name = s.name /\ t.loaded = s.loaded /\ t.rows = s.rows
      /\ t.kept = s.kept /\ t.fresh = s.fresh /\ t.events = s.events /\ t.wrote = s.wrote
      /\ t.put = s.put /\ t.cut = s.cut
    BY <1>1, <1>2 DEF Sessions
<1>5. PlanOK(t) /\ CreateOK(t)
    BY <1>1, <1>4 DEF SessionOK, PlanOK, CreateOK
<1>6. ChangeOK(t) /\ FlushOK(t)
    BY <1>1, <1>4 DEF SessionOK, ChangeOK, FlushOK, Open, Flushing, Done
<1>7. MemoryOK(t)
    BY <1>1, <1>4 DEF SessionOK, MemoryOK
<1>8. ToldOK(t)
    <2>1. InHand(t) = InHand(s)
        BY <1>4 DEF InHand, Present
    <2> QED BY <1>1, <1>4, <2>1 DEF SessionOK, ToldOK
<1>9. tx' = [tx EXCEPT ![r] = t]
    BY <1>2 DEF Publish, Update
<1>10. Steps(r, t)
    BY <1>3, <1>5, <1>6, <1>7, <1>8, <1>9 DEF Steps, SessionOK
<1> QED BY <1>1, <1>4, <1>10

LEMMA CloseSteps ==
    ASSUME IInv, NEW r \in Clients, Reread(r) \/ Deny(r) \/ Fail(r) \/ BreakDeadlock(r)
    PROVE  \E t : Steps(r, t) /\ t.pc = "idle"
<1>1. tx[r] \in Sessions
    BY DEF IInv, Sound
<1>2. tx[r].number \in Nat /\ tx[r].response \in Statuses
    BY <1>1 DEF Sessions, Statuses
<1>3. ASSUME NEW status \in Statuses,
             Update(r, [Idle EXCEPT !.number = tx[r].number, !.response = status])
      PROVE  \E t : Steps(r, t) /\ t.pc = "idle"
    <2>1. PICK t : t = [Idle EXCEPT !.pc = "idle", !.number = tx[r].number, !.response = status]
        OBVIOUS
    <2>2. [Idle EXCEPT !.number = tx[r].number, !.response = status] = t
        <3>1. [Idle EXCEPT !.pc = "idle"] = Idle
            <4>1. Idle.pc = "idle"
                BY DEF Idle
            <4> QED BY <4>1, IdleType DEF Sessions
        <3>2. [[Idle EXCEPT !.pc = "idle"] EXCEPT !.number = tx[r].number, !.response = status] = t
            BY <2>1
        <3> QED BY <3>1, <3>2
    <2>3. tx' = [tx EXCEPT ![r] = t]
        BY <1>3, <2>2 DEF Update
    <2>4. t \in Sessions /\ SessionOK(t) /\ t.pc = "idle"
        BY <1>2, <1>3, <2>1, ClosedOK
    <2> QED BY <2>3, <2>4 DEF Steps
<1>4. CASE Reread(r)
    BY <1>3, <1>4 DEF Reread, Statuses
<1>5. CASE Deny(r)
    BY <1>2, <1>3, <1>5 DEF Deny
<1>6. CASE Fail(r) \/ BreakDeadlock(r)
    BY <1>6, AbortOK DEF Fail, BreakDeadlock
<1> QED BY <1>4, <1>5, <1>6

LEMMA AskSteps ==
    ASSUME IInv, NEW r \in Clients, NEW q \in Workload, Ask(r, q)
    PROVE  \E t : Steps(r, t) /\ t.pc \in {"deny", "work", "load"}
                     /\ t.group = None /\ t.base = None /\ t.name = None
<1>1. asked + 1 \in Nat
    BY DEF IInv, TypeOK
<1>2. CASE ~Parses(q)
    <2>1. PICK t : t = [Idle EXCEPT !.pc = "deny", !.number = asked + 1, !.response = "400"]
        OBVIOUS
    <2>2. t \in Sessions /\ SessionOK(t) /\ t.pc = "deny"
        BY <1>1, <2>1, ClosedOK DEF Statuses
    <2>3. tx' = [tx EXCEPT ![r] = t]
        BY <1>2, <2>1 DEF Ask, Update
    <2>4. t.group = None /\ t.base = None /\ t.name = None
        BY <2>1 DEF Idle
    <2> QED BY <2>2, <2>3, <2>4 DEF Steps
<1>3. CASE Parses(q)
    <2> DEFINE label == IF q.kind = "create" THEN "work" ELSE "load"
               creates == (q.kind = "create")
               t1 == [Idle EXCEPT !.pc = label]
               t2 == [t1 EXCEPT !.ask = q]
               t3 == [t2 EXCEPT !.number = asked + 1]
               t4 == [t3 EXCEPT !.todo = Plan(q)]
    <2>1. PICK t : t = [t4 EXCEPT !.loaded = creates]
        OBVIOUS
    <2>2. /\ Plan(q) \in Seq(Operations) /\ Plan(q) # <<>>
          /\ q.kind \in {"create", "replace", "patch"}
        BY <1>3, PlanTyped
    <2>3. label \in {"work", "load"} /\ creates \in BOOLEAN
        OBVIOUS
    <2>4. t \in Sessions
        <3>1. t1 \in Sessions
            <4> HIDE DEF label
            <4> QED BY <2>3, IdleType, FieldUpdates
        <3>2. t2 \in Sessions
            <4> HIDE DEF t1
            <4> QED BY <3>1, FieldUpdates
        <3>3. t3 \in Sessions
            <4> HIDE DEF t2
            <4> QED BY <1>1, <3>2, FieldUpdates
        <3>4. t4 \in Sessions
            <4> HIDE DEF t3
            <4> QED BY <2>2, <3>3, FieldUpdates
        <3> HIDE DEF t4, creates
        <3> QED BY <2>1, <2>3, <3>4, FieldUpdates
    <2>5. /\ t.pc = label /\ t.ask = q /\ t.todo = Plan(q) /\ t.group = None
          /\ t.base = None /\ t.name = None /\ t.loaded = creates /\ t.rows = {} /\ t.kept = {}
          /\ t.fresh = {} /\ t.events = <<>> /\ t.wrote = FALSE /\ t.put = {} /\ t.cut = FALSE
        <3> HIDE DEF label, creates
        <3> QED BY <2>1 DEF Idle
    <2>6. tx' = [tx EXCEPT ![r] = t]
        BY <1>3, <2>1 DEF Ask, Update
    <2> HIDE DEF t4
    <2>7. PlanOK(t)
        BY <1>3, <2>2, <2>5 DEF PlanOK
    <2>8. CreateOK(t) /\ ChangeOK(t)
        BY <2>5 DEF CreateOK, ChangeOK, Open, Flushing, Done
    <2>9. FlushOK(t)
        BY <2>3, <2>5 DEF FlushOK, Flushing, Done
    <2>10. MemoryOK(t)
        BY <2>5, Nothing DEF MemoryOK
    <2>11. ToldOK(t)
        BY <2>5, Nothing DEF ToldOK, InHand, Present
    <2>12. SessionOK(t)
        BY <2>7, <2>8, <2>9, <2>10, <2>11 DEF SessionOK
    <2> QED BY <2>3, <2>4, <2>5, <2>6, <2>12 DEF Steps
<1> QED BY <1>2, <1>3

-----------------------------------------------------------------------------
(* The others' sessions stay as they are, and the tables only grow groups. *)
LEMMA SessionsKept ==
    ASSUME IInv, NEW r \in Clients, NEW t, Steps(r, t),
           \A g \in Groups : groups[g] # None => groups'[g] # None
    PROVE  tx' \in [Clients -> Sessions] /\ \A s \in Clients : SessionOK(tx[s])'
<1>1. tx \in [Clients -> Sessions] /\ t \in Sessions /\ tx' = [tx EXCEPT ![r] = t]
    BY DEF IInv, Sound, Steps
<1>2. ASSUME NEW u, SessionOK(u) PROVE SessionOK(u)'
    <2>1. PlanOK(u)' /\ CreateOK(u)' /\ FlushOK(u)' /\ MemoryOK(u)' /\ ToldOK(u)'
        BY <1>2 DEF SessionOK, PlanOK, CreateOK, FlushOK, MemoryOK, ToldOK, InHand, Present
    <2>2. ChangeOK(u)'
        BY <1>2 DEF SessionOK, ChangeOK
    <2> QED BY <2>1, <2>2 DEF SessionOK
<1>3. ASSUME NEW s \in Clients PROVE SessionOK(tx[s])'
    <2>1. PICK u : u = IF s = r THEN t ELSE tx[s]
        OBVIOUS
    <2>2. SessionOK(u)
        BY <2>1 DEF IInv, Sound, Steps
    <2>3. SessionOK(u)'
        BY <1>2, <2>2
    <2>4. tx'[s] = u
        BY <1>1, <2>1
    <2> QED BY <2>3, <2>4 DEF SessionOK, PlanOK, CreateOK, ChangeOK, FlushOK, MemoryOK, ToldOK, InHand, Present
<1>4. tx' \in [Clients -> Sessions]
    BY <1>1
<1> QED BY <1>3, <1>4

PutIsFree(r, t) ==
    /\ t.put \cap UsersIn(Rows(t.group)) = {}
    /\ \A s \in Clients \ {r} : tx[s].pc \in Flushing /\ tx[s].group = t.group
                                  => tx[s].put \cap t.put = {}

(* A session that flushes on without a new name or member.                 *)
LEMMA FlushingFree ==
    ASSUME IInv, NEW r \in Clients, tx[r].pc \in Flushing,
           NEW t, t.group = tx[r].group, t.wrote = tx[r].wrote, t.name = tx[r].name
    PROVE  /\ NameIsFree(r, t)
           /\ t.put = tx[r].put => PutIsFree(r, t)
BY DEF IInv, Sound, NamesApart, MembersApart, NameIsFree, PutIsFree

LEMMA ApartKept ==
    ASSUME IInv, NEW r \in Clients, NEW t, Steps(r, t), UNCHANGED <<groups, members>>,
           t.pc \in Flushing => NameIsFree(r, t) /\ PutIsFree(r, t)
    PROVE  NamesApart' /\ MembersApart'
<1>1. /\ tx \in [Clients -> Sessions] /\ tx' = [tx EXCEPT ![r] = t]
      /\ NamesApart /\ MembersApart
    BY DEF IInv, Sound, Steps
<1>2. \A s \in Clients : tx'[s] = IF s = r THEN t ELSE tx[s]
    BY <1>1
<1>3. NamesApart'
    <2>1. \A g, h \in Groups : groups'[g] # None /\ groups'[g] = groups'[h] => g = h
        BY <1>1 DEF NamesApart
    <2>2. ASSUME NEW s \in Clients, tx'[s].pc \in Flushing, tx'[s].wrote
          PROVE  /\ \A g \in Groups : groups'[g] = tx'[s].name => g = tx'[s].group
                 /\ \A q \in Clients : tx'[q].pc \in Flushing /\ tx'[q].wrote /\ tx'[q].name = tx'[s].name
                                         => q = s
        <3>1. CASE s = r
            BY <1>1, <1>2, <2>2, <3>1 DEF NameIsFree
        <3>2. CASE s # r
            BY <1>1, <1>2, <2>2, <3>2 DEF NameIsFree, NamesApart
        <3> QED BY <3>1, <3>2
    <2> QED BY <2>1, <2>2 DEF NamesApart
<1>4. MembersApart'
    <2>1. \A m, n \in members' : m.group = n.group /\ m.user = n.user => m = n
        BY <1>1 DEF MembersApart
    <2>2. ASSUME NEW s \in Clients, tx'[s].pc \in Flushing
          PROVE  /\ tx'[s].put \cap UsersIn({m \in members' : m.group = tx'[s].group}) = {}
                 /\ \A q \in Clients : tx'[q].pc \in Flushing /\ tx'[q].group = tx'[s].group
                                          /\ tx'[q].put \cap tx'[s].put # {} => q = s
        <3>1. CASE s = r
            BY <1>1, <1>2, <2>2, <3>1 DEF PutIsFree, Rows
        <3>2. CASE s # r
            BY <1>1, <1>2, <2>2, <3>2 DEF PutIsFree, MembersApart, Rows
        <3> QED BY <3>1, <3>2
    <2>3. ASSUME NEW s \in Clients, tx'[s].pc \in Flushing
          PROVE  tx'[s].put \cap UsersIn(Rows(tx[s].group))' = {}
        BY <2>2, <2>3 DEF Rows, UsersIn
    <2> QED BY <2>1, <2>2, <2>3 DEF MembersApart
<1> QED BY <1>3, <1>4

(* Steps that leave the tables alone but for the audit trail.              *)
LEMMA QuietKeeps ==
    ASSUME IInv, NEW r \in Clients, NEW t, Steps(r, t), UNCHANGED <<groups, members>>,
           t.pc \in Flushing => NameIsFree(r, t) /\ PutIsFree(r, t),
           audit \subseteq audit', audit' \subseteq Entries, published' \in Seq(Groups \X EventRow),
           asked' \in Nat, failed' \in Nat, overlapped' \in BOOLEAN
    PROVE  IInv'
<1>1. tx' \in [Clients -> Sessions] /\ \A s \in Clients : SessionOK(tx[s])'
    BY SessionsKept
<1>2. NamesApart' /\ MembersApart'
    BY ApartKept
<1>3. MembersOfGroups'
    BY DEF IInv, Sound, MembersOfGroups
<1>4. MembersAreExplained'
    BY DEF IInv, MembersAreExplained
<1>5. TypeOK'
    BY <1>1 DEF IInv, TypeOK
<1> QED BY <1>1, <1>2, <1>3, <1>4, <1>5 DEF IInv, Sound

LEMMA FlushStepKeeps ==
    ASSUME IInv, NEW r \in Clients, WriteGroup(r) \/ InsertMember(r) \/ DeleteMembers(r)
    PROVE  IInv'
<1>1. UNCHANGED <<groups, members, audit, published, asked, failed, overlapped>>
    BY DEF WriteGroup, InsertMember, DeleteMembers
<1>2. /\ audit' \subseteq Entries /\ published' \in Seq(Groups \X EventRow)
      /\ asked' \in Nat /\ failed' \in Nat /\ overlapped' \in BOOLEAN
    BY <1>1 DEF IInv, TypeOK
<1>3. CASE WriteGroup(r)
    <2>1. PICK t : Steps(r, t) /\
              \/ t.pc = "idle"
              \/ t.pc \in Flushing /\ t.put = {} /\ NameIsFree(r, t)
        BY <1>3, WriteSteps
    <2>2. t.pc \in Flushing => NameIsFree(r, t) /\ PutIsFree(r, t)
        BY <2>1 DEF PutIsFree, Flushing
    <2> QED BY <1>1, <1>2, <2>1, <2>2, QuietKeeps
<1>4. CASE InsertMember(r)
    <2>1. PICK t : Steps(r, t) /\
              \/ t.pc = "idle"
              \/ /\ t.pc \in Flushing /\ tx[r].pc = "insert" /\ SameWork(t, tx[r])
                 /\ t.group = tx[r].group /\ t.wrote = tx[r].wrote
                 /\ \E u \in Users :
                       /\ t.put = tx[r].put \cup {u} /\ u \notin UsersIn(Rows(t.group))
                       /\ \A q \in Clients \ {r} : tx[q].pc \in Flushing /\ tx[q].group = t.group
                                                      => u \notin tx[q].put
        BY <1>4, InsertSteps
    <2>2. ASSUME t.pc \in Flushing PROVE NameIsFree(r, t) /\ PutIsFree(r, t)
        <3>1. PICK u \in Users :
                 /\ t.put = tx[r].put \cup {u} /\ u \notin UsersIn(Rows(t.group))
                 /\ \A q \in Clients \ {r} : tx[q].pc \in Flushing /\ tx[q].group = t.group
                                                => u \notin tx[q].put
            BY <2>1, <2>2 DEF Flushing
        <3>2. /\ tx[r].pc \in Flushing /\ t.group = tx[r].group /\ t.wrote = tx[r].wrote
              /\ t.name = tx[r].name
            BY <2>1, <2>2 DEF SameWork, Flushing
        <3>3. NameIsFree(r, t) /\ PutIsFree(r, tx[r])
            BY <3>2, FlushingFree
        <3>4. PutIsFree(r, t)
            BY <3>1, <3>2, <3>3 DEF PutIsFree
        <3> QED BY <3>3, <3>4
    <2> QED BY <1>1, <1>2, <2>1, <2>2, QuietKeeps
<1>5. CASE DeleteMembers(r)
    <2>1. PICK t : Steps(r, t) /\ t.pc \in Flushing /\ tx[r].pc = "delete" /\ SameWork(t, tx[r])
                     /\ t.group = tx[r].group /\ t.wrote = tx[r].wrote /\ t.put = tx[r].put
        BY <1>5, DeleteSteps
    <2>2. NameIsFree(r, t) /\ PutIsFree(r, t)
        BY <2>1, FlushingFree DEF SameWork, Flushing
    <2> QED BY <1>1, <1>2, <2>1, <2>2, QuietKeeps
<1> QED BY <1>3, <1>4, <1>5

(* What the audit trail calls a request that is served.                    *)
LEMMA ActionNamed ==
    ASSUME NEW t \in Sessions, t.ask \in Workload, Parses(t.ask)
    PROVE  /\ AuditAction(t) \in {"create", "update", "rename", "member_add", "member_remove",
                                  "members_replace"}
           /\ CanAdd(t.ask) => AuditAction(t) \in {"create", "update", "member_add", "members_replace"}
<1>1. t.ask.kind \in {"create", "replace", "patch"}
    BY PlanTyped
<1>2. CASE t.ask.kind # "patch"
    BY <1>1, <1>2 DEF AuditAction
<1>3. CASE t.ask.kind = "patch"
    <2>1. AuditAction(t) = PatchAction(Plan(t.ask))
        BY <1>3 DEF AuditAction
    <2>2. PICK plan : plan = Plan(t.ask)
        OBVIOUS
    <2> DEFINE on(op) == \E i \in DOMAIN plan : plan[i].path = "members" /\ plan[i].op = op
    <2>3. PatchAction(plan) = CASE on("replace") -> "members_replace"
                                [] ~on("replace") /\ on("add") -> "member_add"
                                [] ~on("replace") /\ ~on("add") /\ on("remove") -> "member_remove"
                                [] OTHER -> "rename"
        BY DEF PatchAction
    <2>4. CanAdd(t.ask) => on("add") \/ on("replace")
        BY <1>3, <2>2 DEF CanAdd
    <2> HIDE DEF on
    <2> QED BY <2>1, <2>2, <2>3, <2>4
<1> QED BY <1>2, <1>3

LEMMA CommitTables ==
    ASSUME IInv, NEW r \in Clients, Commit(r)
    PROVE  /\ SessionOK(tx[r]) /\ tx[r] \in Sessions /\ tx[r].pc = "commit"
           /\ tx[r].group \in Groups /\ tx[r].name \in Names
           /\ groups' \in [Groups -> Names \cup {None}]
           /\ \A g \in Groups : groups'[g] = IF tx[r].wrote /\ g = tx[r].group THEN tx[r].name
                                             ELSE groups[g]
           /\ \A g \in Groups : groups[g] # None => groups'[g] # None
           /\ groups'[tx[r].group] # None
           /\ members' \in SUBSET MemberRow
           /\ \A m \in members' : m \in members \/ (m.group = tx[r].group /\ m.user \in tx[r].put
                                                     /\ m.by = tx[r].number /\ m \in NewRows(tx[r]))
<1> DEFINE s == tx[r]
<1>1. /\ s \in Sessions /\ SessionOK(s) /\ s.pc = "commit"
      /\ groups \in [Groups -> Names \cup {None}] /\ members \in SUBSET MemberRow
    BY DEF IInv, TypeOK, Sound, Commit, At
<1>2. /\ s.group \in Groups /\ s.name \in Names /\ (s.wrote <=> s.name # s.base)
      /\ s.put \in SUBSET Users /\ s.number \in Nat
    BY <1>1 DEF SessionOK, FlushOK, Flushing, Sessions
<1>3. /\ groups' = IF s.wrote THEN [groups EXCEPT ![s.group] = s.name] ELSE groups
      /\ members' = (members \ Dropped(s)) \cup NewRows(s)
    BY DEF Commit
<1>4. \A g \in Groups : groups'[g] = IF s.wrote /\ g = s.group THEN s.name ELSE groups[g]
    BY <1>1, <1>2, <1>3
<1>5. groups' \in [Groups -> Names \cup {None}]
    BY <1>1, <1>2, <1>3
<1>6. groups'[s.group] # None
    <2>1. CASE s.wrote
        BY <1>2, <1>4, <2>1, ScimGroupsAssumption
    <2>2. CASE ~s.wrote
        <3>1. s.base # None
            BY <1>2, <2>2, ScimGroupsAssumption
        <3>2. s.ask.kind # "create"
            BY <1>1, <3>1 DEF SessionOK, CreateOK
        <3> QED BY <1>1, <1>2, <1>4, <2>2, <3>2 DEF SessionOK, ChangeOK, Open, Flushing
    <2> QED BY <2>1, <2>2
<1>7. ASSUME NEW g \in Groups, groups[g] # None PROVE groups'[g] # None
    BY <1>4, <1>6, <1>7
<1>8. \A m \in NewRows(s) : m.group = s.group /\ m.user \in s.put /\ m.by = s.number /\ m \in MemberRow
    BY <1>2 DEF NewRows, MemberRow
<1>9. members' \in SUBSET MemberRow
    BY <1>1, <1>3, <1>8
<1>10. \A m \in members' : m \in members \/ (m.group = s.group /\ m.user \in s.put
                                              /\ m.by = s.number /\ m \in NewRows(s))
    BY <1>3, <1>8
<1> QED BY <1>1, <1>2, <1>4, <1>5, <1>6, <1>7, <1>9, <1>10

LEMMA CommitKeeps ==
    ASSUME IInv, NEW r \in Clients, Commit(r)
    PROVE  IInv'
<1> DEFINE s == tx[r]
<1>1. PICK t : Steps(r, t) /\ t.pc = "publish"
    BY CommitSteps
<1>2. /\ SessionOK(s) /\ s \in Sessions /\ s.pc = "commit" /\ s.group \in Groups /\ s.name \in Names
      /\ groups' \in [Groups -> Names \cup {None}]
      /\ \A g \in Groups : groups'[g] = IF s.wrote /\ g = s.group THEN s.name ELSE groups[g]
      /\ \A g \in Groups : groups[g] # None => groups'[g] # None
      /\ groups'[s.group] # None
      /\ members' \in SUBSET MemberRow
      /\ \A m \in members' : m \in members \/ (m.group = s.group /\ m.user \in s.put
                                                     /\ m.by = s.number /\ m \in NewRows(s))
    BY CommitTables
<1>3. tx' \in [Clients -> Sessions] /\ \A q \in Clients : SessionOK(tx[q])'
    BY <1>1, <1>2, SessionsKept
<1>4. \A q \in Clients : tx'[q] = IF q = r THEN t ELSE tx[q]
    BY <1>1 DEF Steps, IInv, Sound
<1>5. NamesApart /\ MembersApart /\ MembersOfGroups
    BY DEF IInv, Sound
<1>6. NamesApart'
    <2>1. s.wrote => /\ \A g \in Groups : groups[g] = s.name => g = s.group
                     /\ \A q \in Clients : tx[q].pc \in Flushing /\ tx[q].wrote /\ tx[q].name = s.name
                                            => q = r
        BY <1>2, <1>5 DEF NamesApart, Flushing
    <2>2. ASSUME NEW g \in Groups, NEW h \in Groups, groups'[g] # None, groups'[g] = groups'[h]
          PROVE  g = h
        BY <1>2, <1>5, <2>1, <2>2 DEF NamesApart
    <2>3. ASSUME NEW q \in Clients, tx'[q].pc \in Flushing, tx'[q].wrote
          PROVE  /\ \A g \in Groups : groups'[g] = tx'[q].name => g = tx'[q].group
                 /\ \A p \in Clients : tx'[p].pc \in Flushing /\ tx'[p].wrote /\ tx'[p].name = tx'[q].name
                                         => p = q
        <3>1. q # r /\ tx'[q] = tx[q]
            BY <1>1, <1>4, <2>3 DEF Flushing
        <3>2. \A p \in Clients : tx'[p].pc \in Flushing => p # r /\ tx'[p] = tx[p]
            BY <1>1, <1>4 DEF Flushing
        <3>3. s.wrote => tx[q].name # s.name
            BY <2>1, <2>3, <3>1
        <3> QED BY <1>2, <1>5, <2>3, <3>1, <3>2, <3>3 DEF NamesApart
    <2> QED BY <2>2, <2>3 DEF NamesApart
<1>7. MembersApart'
    <2>1. /\ s.put \cap UsersIn(Rows(s.group)) = {}
          /\ \A q \in Clients : tx[q].pc \in Flushing /\ tx[q].group = s.group
                                  /\ tx[q].put \cap s.put # {} => q = r
        BY <1>2, <1>5 DEF MembersApart, Flushing
    <2>2. ASSUME NEW m \in members', NEW n \in members', m.group = n.group, m.user = n.user
          PROVE  m = n
        <3>1. ASSUME NEW k \in members, k.group = s.group PROVE k.user \notin s.put
            BY <2>1, <3>1 DEF Rows, UsersIn
        <3>2. \A k, l \in NewRows(s) : k.user = l.user => k = l
            BY DEF NewRows
        <3> QED BY <1>2, <1>5, <2>2, <3>1, <3>2 DEF MembersApart
    <2>3. ASSUME NEW q \in Clients, tx'[q].pc \in Flushing
          PROVE  /\ tx'[q].put \cap UsersIn({m \in members' : m.group = tx'[q].group}) = {}
                 /\ \A p \in Clients : tx'[p].pc \in Flushing /\ tx'[p].group = tx'[q].group
                                          /\ tx'[p].put \cap tx'[q].put # {} => p = q
        <3>1. q # r /\ tx'[q] = tx[q]
            BY <1>1, <1>4, <2>3 DEF Flushing
        <3>2. \A p \in Clients : tx'[p].pc \in Flushing => p # r /\ tx'[p] = tx[p]
            BY <1>1, <1>4 DEF Flushing
        <3>3. ASSUME NEW m \in members', m.group = tx[q].group PROVE m.user \notin tx[q].put
            <4>1. CASE m \in members
                BY <1>5, <2>3, <3>1, <3>3, <4>1 DEF MembersApart, Rows, UsersIn
            <4>2. CASE m.group = s.group /\ m.user \in s.put
                <5>1. tx[q].put \cap s.put = {}
                    BY <2>1, <2>3, <3>1, <3>3, <4>2
                <5> QED BY <4>2, <5>1
            <4> QED BY <1>2, <4>1, <4>2
        <3>4. tx[q].put \cap UsersIn({m \in members' : m.group = tx[q].group}) = {}
            BY <3>3 DEF UsersIn
        <3>5. \A p \in Clients : tx[p].pc \in Flushing /\ tx[p].group = tx[q].group
                                   /\ tx[p].put \cap tx[q].put # {} => p = q
            BY <1>5, <2>3, <3>1 DEF MembersApart
        <3> QED BY <3>1, <3>2, <3>4, <3>5
    <2>4. ASSUME NEW q \in Clients, tx'[q].pc \in Flushing
          PROVE  tx'[q].put \cap UsersIn(Rows(tx[q].group))' = {}
        BY <2>3, <2>4 DEF Rows, UsersIn
    <2> QED BY <2>2, <2>3, <2>4 DEF MembersApart
<1>8. MembersOfGroups'
    <2>1. ASSUME NEW m \in members' PROVE groups'[m.group] # None
        <3>1. CASE m \in members
            <4>1. m.group \in Groups
                BY <3>1 DEF IInv, TypeOK, MemberRow
            <4> QED BY <1>2, <1>5, <3>1, <4>1 DEF MembersOfGroups
        <3> QED BY <1>2, <2>1, <3>1
    <2> QED BY <2>1 DEF MembersOfGroups
<1>9. /\ AuditAction(s) \in {"create", "update", "rename", "member_add", "member_remove",
                             "members_replace"}
      /\ s.put # {} => AuditAction(s) \in {"create", "update", "member_add", "members_replace"}
    <2>1. s.ask \in Workload /\ Parses(s.ask) /\ (s.put # {} => CanAdd(s.ask))
        BY <1>2 DEF SessionOK, PlanOK
    <2> QED BY <1>2, <2>1, ActionNamed
<1>10. PICK e : e = [number |-> s.number, action |-> AuditAction(s), result |-> "succeeded"]
    OBVIOUS
<1>11. audit' = audit \cup {e}
    BY <1>10 DEF Commit
<1>12. e \in Entries /\ e.number = s.number /\ e.result = "succeeded" /\ e.action = AuditAction(s)
    <2>1. s.number \in Nat
        BY <1>2 DEF Sessions
    <2> QED BY <1>9, <1>10, <2>1 DEF Entries
<1>13. MembersAreExplained'
    <2>1. ASSUME NEW m \in members', m.by # 0
          PROVE  \E a \in audit' : /\ a.number = m.by /\ a.result = "succeeded"
                                   /\ a.action \in {"create", "update", "member_add", "members_replace"}
        <3>1. CASE m \in members
            BY <1>11, <2>1, <3>1 DEF IInv, MembersAreExplained
        <3>2. CASE m.user \in s.put /\ m.by = s.number
            BY <1>9, <1>11, <1>12, <3>2
        <3> QED BY <1>2, <2>1, <3>1, <3>2
    <2> QED BY <2>1 DEF MembersAreExplained
<1>14. TypeOK'
    <2>1. audit' \in SUBSET Entries
        BY <1>11, <1>12 DEF IInv, TypeOK
    <2>2. UNCHANGED <<published, asked, failed, overlapped>>
        BY DEF Commit
    <2> QED BY <1>2, <1>3, <2>1, <2>2 DEF IInv, TypeOK
<1> QED BY <1>3, <1>6, <1>7, <1>8, <1>13, <1>14 DEF IInv, Sound

(* What is published of a group.                                           *)
Tagged(g, es) == [i \in DOMAIN es |-> <<g, es[i]>>]

LEMMA EventsTyped ==
    ASSUME NEW t \in Sessions, t.name \in Names, t.group \in Groups
    PROVE  /\ Events(t) \in Seq(EventRow)
           /\ Tagged(t.group, Events(t)) \in Seq(Groups \X EventRow)
<1>1. t.events \in Seq(EventRow)
    BY DEF Sessions
<1> DEFINE e == [type |-> "GroupCreated", value |-> t.name]
<1>2. e \in EventRow
    BY DEF EventRow
<1>3. Events(t) = (IF t.ask.kind = "create" THEN <<e>> ELSE <<>>) \o t.events
    BY DEF Events
<1> HIDE DEF e
<1>4. <<e>> \o t.events \in Seq(EventRow) /\ <<>> \o t.events \in Seq(EventRow)
    BY <1>1, <1>2
<1>5. Events(t) \in Seq(EventRow)
    BY <1>3, <1>4
<1>6. PICK es : es = Events(t)
    OBVIOUS
<1>7. PICK n \in Nat : es \in [1..n -> EventRow]
    BY <1>5, <1>6 DEF Seq
<1>8. Tagged(t.group, es) \in [1..n -> Groups \X EventRow]
    BY <1>7 DEF Tagged
<1>9. Tagged(t.group, es) \in Seq(Groups \X EventRow)
    BY <1>8 DEF Seq
<1> QED BY <1>5, <1>6, <1>9

LEMMA QuietStepKeeps ==
    ASSUME IInv, NEW r \in Clients,
           \/ Load(r) \/ Rename(r) \/ ChangeMembers(r) \/ Publish(r)
           \/ Reread(r) \/ Deny(r) \/ Fail(r) \/ BreakDeadlock(r)
           \/ \E q \in Workload : Ask(r, q)
    PROVE  IInv'
<1>1. PICK t : Steps(r, t) /\ t.pc \notin Flushing
    <2>1. CASE Load(r)
        BY <2>1, LoadSteps DEF Flushing
    <2>2. CASE Rename(r)
        <3>1. \E t : Steps(r, t) /\ t.pc \in {"deny", "work", "write"}
            BY <2>2, RenameSteps
        <3> QED BY <3>1 DEF Flushing
    <2>3. CASE ChangeMembers(r)
        <3>1. \E t : Steps(r, t) /\ t.pc \in {"deny", "work", "write"}
            BY <2>3, ChangeSteps
        <3> QED BY <3>1 DEF Flushing
    <2>4. CASE Publish(r)
        BY <2>4, PublishSteps DEF Flushing
    <2>5. CASE Reread(r) \/ Deny(r) \/ Fail(r) \/ BreakDeadlock(r)
        BY <2>5, CloseSteps DEF Flushing
    <2>6. CASE \E q \in Workload : Ask(r, q)
        BY <2>6, AskSteps DEF Flushing
    <2> QED BY <2>1, <2>2, <2>3, <2>4, <2>5, <2>6
<1>2. UNCHANGED <<groups, members>>
    BY DEF Load, Rename, ChangeMembers, Publish, Reread, Deny, Fail, BreakDeadlock, Ask
<1>3. tx[r] \in Sessions /\ SessionOK(tx[r]) /\ TypeOK
    BY DEF IInv, Sound
<1>4. audit \subseteq audit' /\ audit' \subseteq Entries
    <2>1. CASE Deny(r)
        <3>1. [number |-> tx[r].number, action |-> "failure", result |-> "denied"] \in Entries
            BY <1>3 DEF Sessions, Entries
        <3> QED BY <1>3, <2>1, <3>1 DEF Deny, TypeOK
    <2>2. CASE ~Deny(r)
        <3>1. audit' = audit
            BY <2>2 DEF Load, Rename, ChangeMembers, Publish, Reread, Fail, BreakDeadlock, Ask
        <3> QED BY <1>3, <3>1 DEF TypeOK
    <2> QED BY <2>1, <2>2
<1>5. published' \in Seq(Groups \X EventRow)
    <2>1. CASE Publish(r)
        <3>1. tx[r].name \in Names /\ tx[r].group \in Groups
            BY <1>3, <2>1 DEF Publish, At, SessionOK, FlushOK, Done
        <3>2. published' = published \o Tagged(tx[r].group, Events(tx[r]))
            BY <2>1 DEF Publish, Tagged
        <3>3. published \in Seq(Groups \X EventRow)
              /\ Tagged(tx[r].group, Events(tx[r])) \in Seq(Groups \X EventRow)
            BY <1>3, <3>1, EventsTyped DEF TypeOK
        <3> QED BY <3>2, <3>3
    <2>2. CASE ~Publish(r)
        <3>1. published' = published
            BY <2>2 DEF Load, Rename, ChangeMembers, Reread, Deny, Fail, BreakDeadlock, Ask
        <3> QED BY <1>3, <3>1 DEF TypeOK
    <2> QED BY <2>1, <2>2
<1>6. asked' \in Nat /\ failed' \in Nat /\ overlapped' \in BOOLEAN
    <2>1. asked \in Nat /\ failed \in Nat /\ overlapped \in BOOLEAN
        BY <1>3 DEF TypeOK
    <2>2. CASE Fail(r)
        BY <2>1, <2>2 DEF Fail
    <2>3. CASE \E q \in Workload : Ask(r, q)
        <3>1. asked' = asked + 1 /\ failed' = failed
              /\ overlapped' = (overlapped \/ \E s \in Clients \ {r} : Busy(s))
            BY <2>3 DEF Ask
        <3>2. overlapped' \in BOOLEAN
            BY <2>1, <3>1
        <3> QED BY <2>1, <3>1, <3>2
    <2>4. CASE ~Fail(r) /\ ~\E q \in Workload : Ask(r, q)
        <3>1. UNCHANGED <<asked, failed, overlapped>>
            BY <2>4 DEF Load, Rename, ChangeMembers, Publish, Reread, Deny, BreakDeadlock
        <3> QED BY <2>1, <3>1
    <2> QED BY <2>2, <2>3, <2>4
<1> QED BY <1>1, <1>2, <1>4, <1>5, <1>6, QuietKeeps

-----------------------------------------------------------------------------
LEMMA InitInv == Init => IInv
<1> SUFFICES ASSUME Init PROVE IInv
    OBVIOUS
<1>1. Idle \in Sessions /\ SessionOK(Idle) /\ Idle.pc = "idle"
    <2>1. 0 \in Nat /\ "idle" \in {"idle", "deny"} /\ "none" \in Statuses
        BY DEF Statuses
    <2>2. [Idle EXCEPT !.pc = "idle", !.number = 0, !.response = "none"] = Idle
        <3>1. Idle.pc = "idle" /\ Idle.number = 0 /\ Idle.response = "none"
            BY DEF Idle
        <3>2. [Idle EXCEPT !.pc = "idle"] = Idle
            BY <3>1, IdleType DEF Sessions
        <3>3. [Idle EXCEPT !.number = 0] = Idle
            BY <3>1, IdleType DEF Sessions
        <3>4. [Idle EXCEPT !.response = "none"] = Idle
            BY <3>1, IdleType DEF Sessions
        <3>5. [[[Idle EXCEPT !.pc = "idle"] EXCEPT !.number = 0] EXCEPT !.response = "none"] = Idle
            BY <3>2, <3>3, <3>4
        <3> QED BY <3>5
    <2>3. PICK t : t = [Idle EXCEPT !.pc = "idle", !.number = 0, !.response = "none"]
        OBVIOUS
    <2>4. t \in Sessions /\ SessionOK(t) /\ t.pc = "idle"
        BY <2>1, <2>3, ClosedOK
    <2>5. t = Idle
        BY <2>2, <2>3
    <2> QED BY <2>4, <2>5
<1>2. tx \in [Clients -> Sessions] /\ (\A r \in Clients : tx[r] = Idle)
    BY <1>1 DEF Init
<1>3. ASSUME NEW m \in members
      PROVE  /\ m \in MemberRow /\ m.by = 0 /\ groups[m.group] # None
             /\ m = [group |-> m.group, user |-> m.user, by |-> 0]
    <2>1. PICK p \in InitialMembers : m = [group |-> p[1], user |-> p[2], by |-> 0]
        BY DEF Init
    <2>2. p \in Groups \X Users /\ InitialGroups[p[1]] # None
        BY ScimGroupsAssumption
    <2>3. p[1] \in Groups /\ p[2] \in Users
        BY <2>2
    <2> QED BY <2>1, <2>2, <2>3 DEF Init, MemberRow
<1>4. TypeOK
    <2>0. \A S : <<>> \in Seq(S)
        OBVIOUS
    <2>1. published \in Seq(Groups \X EventRow) /\ asked \in Nat /\ failed \in Nat
          /\ overlapped \in BOOLEAN /\ audit \in SUBSET Entries
        <3>1. published \in Seq(Groups \X EventRow)
            BY <2>0 DEF Init
        <3>2. overlapped \in BOOLEAN
            BY DEF Init
        <3>3. asked \in Nat /\ failed \in Nat /\ audit \in SUBSET Entries
            BY DEF Init
        <3> QED BY <3>1, <3>2, <3>3
    <2>2. groups \in [Groups -> Names \cup {None}]
        BY ScimGroupsAssumption DEF Init
    <2>3. members \in SUBSET MemberRow
        BY <1>3
    <2> QED BY <1>2, <2>1, <2>2, <2>3 DEF TypeOK
<1>5. NamesApart /\ MembersApart
    <2>1. \A r \in Clients : tx[r].pc \notin Flushing
        BY <1>1, <1>2 DEF Flushing
    <2>2. \A m, n \in members : m.group = n.group /\ m.user = n.user => m = n
        BY <1>3
    <2>3. \A g, h \in Groups : groups[g] # None /\ groups[g] = groups[h] => g = h
        BY ScimGroupsAssumption DEF Init
    <2> QED BY <2>1, <2>2, <2>3 DEF NamesApart, MembersApart
<1>6. MembersOfGroups /\ MembersAreExplained
    BY <1>3 DEF MembersOfGroups, MembersAreExplained
<1>7. \A r \in Clients : SessionOK(tx[r])
    BY <1>1, <1>2
<1> QED BY <1>2, <1>4, <1>5, <1>6, <1>7 DEF IInv, Sound

LEMMA StepInv == ASSUME IInv, [Next]_vars PROVE IInv'
<1>1. CASE UNCHANGED vars
    <2>1. UNCHANGED <<groups, members, audit, published, asked, failed, overlapped, tx>>
        BY <1>1 DEF vars
    <2> QED BY <2>1 DEF IInv, TypeOK, Sound, SessionOK, PlanOK, CreateOK, ChangeOK, FlushOK, MemoryOK,
               ToldOK, InHand, Present, NamesApart, MembersApart, Rows, MembersOfGroups,
               MembersAreExplained
<1>2. CASE Next
    <2>1. PICK r \in Clients : Step(r) \/ Fail(r) \/ \E q \in Workload : Ask(r, q)
        BY <1>2 DEF Next
    <2>2. CASE WriteGroup(r) \/ InsertMember(r) \/ DeleteMembers(r)
        BY <2>2, FlushStepKeeps
    <2>3. CASE Commit(r)
        BY <2>3, CommitKeeps
    <2>4. CASE \/ Load(r) \/ Rename(r) \/ ChangeMembers(r) \/ Publish(r)
               \/ Reread(r) \/ Deny(r) \/ Fail(r) \/ BreakDeadlock(r)
               \/ \E q \in Workload : Ask(r, q)
        BY <2>4, QuietStepKeeps
    <2> QED BY <2>1, <2>2, <2>3, <2>4 DEF Step
<1> QED BY <1>1, <1>2

LEMMA Invariance == Spec => []IInv
<1>1. Init => IInv
    BY InitInv
<1>2. IInv /\ [Next]_vars => IInv'
    BY StepInv
<1> QED BY <1>1, <1>2, PTL DEF Spec

(* Every row and every session has its type, for requests of any form:     *)
(* what parsing lets through is what the service can work with.            *)
THEOREM TypeCorrect == Spec => []TypeOK
<1>1. IInv => TypeOK
    BY DEF IInv
<1> QED BY <1>1, Invariance, PTL

(* Whatever requests overlap, fail or deadlock, every member there is was  *)
(* added by a request that is on record for adding members.                *)
THEOREM MembersStayExplained == Spec => []MembersAreExplained
<1>1. IInv => MembersAreExplained
    BY DEF IInv
<1> QED BY <1>1, Invariance, PTL

(* No request removes a membership that it has not read.                   *)
LEMMA RemovalsWereRead ==
    ASSUME IInv, [Next]_vars
    PROVE  \A m \in members \ members' :
               \E r \in Clients : At(r, "commit") /\ m \in tx[r].rows
<1> SUFFICES ASSUME NEW m \in members, m \notin members'
             PROVE  \E r \in Clients : At(r, "commit") /\ m \in tx[r].rows
    OBVIOUS
<1>1. members' # members
    OBVIOUS
<1>2. Next
    BY <1>1 DEF vars
<1>3. PICK r \in Clients : Step(r) \/ Fail(r) \/ \E q \in Workload : Ask(r, q)
    BY <1>2 DEF Next
<1>4. CASE Commit(r)
    <2>1. m \in Dropped(tx[r])
        BY <1>4 DEF Commit
    <2> QED BY <1>4, <2>1 DEF Commit, Dropped
<1>5. CASE ~Commit(r)
    BY <1>1, <1>3, <1>5 DEF Step, Load, Rename, ChangeMembers, WriteGroup, InsertMember, DeleteMembers,
                            Publish, Reread, Deny, Fail, BreakDeadlock, Ask
<1> QED BY <1>4, <1>5

THEOREM NoUnreadMemberGoes == Spec => OnlySeenMembersGo
<1>1. IInv /\ [Next]_vars =>
         [\A m \in members \ members' : \E r \in Clients : At(r, "commit") /\ m \in tx[r].rows]_vars
    BY RemovalsWereRead
<1> QED BY <1>1, Invariance, PTL DEF Spec, OnlySeenMembersGo

-----------------------------------------------------------------------------
(* What is known once the events es of a group g are published as well.    *)
LEMMA HeardLater ==
    ASSUME published \in Seq(Groups \X EventRow), NEW g \in Groups, NEW es \in Seq(EventRow),
           published' = published \o Tagged(g, es)
    PROVE  /\ \A h \in Groups \ {g} : \A n : KnownAs(h, n) => KnownAs(h, n)'
           /\ \A h \in Groups \ {g}, u \in Users : KnownMember(h, u)' <=> KnownMember(h, u)
           /\ Nameless(es) => \A n : KnownAs(g, n) => KnownAs(g, n)'
           /\ \A n : Calls(es, n) => KnownAs(g, n)'
           /\ \A u \in Users : /\ Silent(es, u) => (KnownMember(g, u)' <=> KnownMember(g, u))
                               /\ TellsIn(es, u) => KnownMember(g, u)'
                               /\ TellsOut(es, u) => ~KnownMember(g, u)'
<1> DEFINE p == published
           q == published'
           k == Len(published)
           l == Len(es)
<1>1. /\ k \in Nat /\ l \in Nat /\ DOMAIN p = 1..k /\ DOMAIN es = 1..l
      /\ DOMAIN q = 1..(k + l)
      /\ \A i \in DOMAIN p : q[i] = p[i]
      /\ \A i \in DOMAIN es : q[k + i] = <<g, es[i]>>
      /\ \A i \in DOMAIN q : i \in DOMAIN p \/ ((i - k) \in DOMAIN es /\ k + (i - k) = i)
    <2>1. DOMAIN es = 1..l /\ l \in Nat
        OBVIOUS
    <2>2. PICK tg : tg = Tagged(g, es)
        OBVIOUS
    <2>3. tg \in [1..l -> Groups \X EventRow]
        BY <2>1, <2>2 DEF Tagged
    <2>4. tg \in Seq(Groups \X EventRow) /\ Len(tg) = l /\ \A i \in 1..l : tg[i] = <<g, es[i]>>
        BY <2>1, <2>2, <2>3 DEF Tagged, Seq
    <2>5. q = p \o tg /\ p \in Seq(Groups \X EventRow)
        BY <2>2
    <2>6. /\ k \in Nat /\ DOMAIN p = 1..k /\ DOMAIN tg = 1..l /\ DOMAIN (p \o tg) = 1..(k + l)
          /\ \A i \in DOMAIN p : (p \o tg)[i] = p[i]
          /\ \A i \in DOMAIN tg : (p \o tg)[k + i] = tg[i]
          /\ \A i \in 1..(k + l) : i \in DOMAIN p \/ (i - k) \in DOMAIN tg
        <3>1. published \in Seq(Groups \X EventRow) /\ tg \in Seq(Groups \X EventRow)
            BY <2>4
        <3>2. /\ Len(p) \in Nat /\ DOMAIN p = 1..Len(p) /\ DOMAIN tg = 1..Len(tg)
              /\ DOMAIN (p \o tg) = 1..(Len(p) + Len(tg))
              /\ \A i \in DOMAIN p : (p \o tg)[i] = p[i]
              /\ \A i \in DOMAIN tg : (p \o tg)[Len(p) + i] = tg[i]
              /\ \A i \in 1..(Len(p) + Len(tg)) : i \in DOMAIN p \/ (i - Len(p)) \in DOMAIN tg
            <4> HIDE DEF q, l
            <4> QED BY ONLY <3>1, Joined
        <3>3. Len(tg) = l
            BY <2>4
        <3> HIDE DEF l, p, q
        <3>4. k = Len(p)
            BY DEF p
        <3> HIDE DEF k
        <3> QED BY <3>2, <3>3, <3>4
    <2>7. \A i \in 1..(k + l) : k + (i - k) = i
        BY <2>1, <2>6
    <2> HIDE DEF k, l, p, q
    <2> QED BY <2>1, <2>4, <2>5, <2>6, <2>7
<1>2. \A i \in DOMAIN es : q[k + i][1] = g /\ q[k + i][2] = es[i] /\ k + i \in DOMAIN q
    <2> HIDE DEF k, l, p, q
    <2> QED BY <1>1
<1> HIDE DEF k, l, p, q
<1> DEFINE N(h, s) == {i \in DOMAIN s : s[i][1] = h /\ IsName(s[i][2])}
           M(h, u, s) == {i \in DOMAIN s : s[i][1] = h /\ Concerns(s[i][2], u)}
<1>3. /\ \A h : NamesHeard(h) = N(h, p) /\ NamesHeard(h)' = N(h, q)
      /\ \A h, u : MembersHeard(h, u) = M(h, u, p) /\ MembersHeard(h, u)' = M(h, u, q)
    BY DEF NamesHeard, MembersHeard, p, q
<1>4. /\ \A h : h # g \/ Nameless(es) => N(h, q) = N(h, p)
      /\ \A h, u : h # g \/ Silent(es, u) => M(h, u, q) = M(h, u, p)
    <2>1. ASSUME NEW h, NEW i \in DOMAIN q, i \notin DOMAIN p, q[i][1] = h
          PROVE  h = g /\ (i - k) \in DOMAIN es /\ q[i][2] = es[i - k]
        BY <1>1, <1>2, <2>1
    <2>2. \A i \in DOMAIN p : i \in DOMAIN q /\ q[i] = p[i]
        BY <1>1
    <2>3. ASSUME NEW h, h # g \/ Nameless(es) PROVE N(h, q) = N(h, p)
        <3>1. \A i \in N(h, q) : i \in DOMAIN p
            BY <2>1, <2>3 DEF Nameless
        <3> QED BY <2>2, <3>1
    <2>4. ASSUME NEW h, NEW u, h # g \/ Silent(es, u) PROVE M(h, u, q) = M(h, u, p)
        <3>1. \A i \in M(h, u, q) : i \in DOMAIN p
            BY <2>1, <2>4 DEF Silent
        <3> QED BY <2>2, <3>1
    <2> QED BY <2>3, <2>4
<1>5. ASSUME NEW h, NEW n, N(h, q) = N(h, p), KnownAs(h, n) PROVE KnownAs(h, n)'
    <2>1. \A i \in N(h, p) : q[i] = p[i]
        BY <1>1
    <2>2. Latest(N(h, p)) \subseteq N(h, p)
        BY DEF Latest
    <2> HIDE DEF N
    <2> QED BY <1>3, <1>5, <2>1, <2>2 DEF KnownAs, p, q
<1>6. ASSUME NEW h, NEW u, M(h, u, q) = M(h, u, p) PROVE KnownMember(h, u)' <=> KnownMember(h, u)
    <2>1. \A i \in M(h, u, p) : q[i] = p[i]
        BY <1>1
    <2>2. Latest(M(h, u, p)) \subseteq M(h, u, p)
        BY DEF Latest
    <2> HIDE DEF M
    <2> QED BY <1>3, <1>6, <2>1, <2>2 DEF KnownMember, p, q
<1>7. ASSUME NEW n, Calls(es, n) PROVE KnownAs(g, n)'
    <2>1. PICK i \in DOMAIN es : /\ IsName(es[i]) /\ es[i].value = n
                                 /\ \A j \in DOMAIN es : IsName(es[j]) => j <= i
        BY <1>7 DEF Calls
    <2>2. k + i \in N(g, q) /\ q[k + i][2].value = n
        BY <1>2, <2>1
    <2>3. ASSUME NEW j \in N(g, q) PROVE j <= k + i
        <3>1. j \in DOMAIN q /\ IsName(q[j][2])
            BY <2>3
        <3>2. CASE j \in DOMAIN p
            BY <1>1, <2>1, <3>2
        <3>3. CASE (j - k) \in DOMAIN es /\ k + (j - k) = j
            <4>1. j - k <= i
                BY <1>2, <2>1, <3>1, <3>3
            <4> QED BY <1>1, <2>1, <3>3, <4>1
        <3> QED BY <1>1, <3>1, <3>2, <3>3
    <2>4. k + i \in Latest(N(g, q))
        <3> HIDE DEF N
        <3> QED BY <2>2, <2>3 DEF Latest
    <2> HIDE DEF N
    <2> QED BY <1>3, <2>2, <2>4 DEF KnownAs, q
<1>8. ASSUME NEW u, NEW i \in Tells(es, u)
      PROVE  KnownMember(g, u)' <=> Includes(es[i], u)
    <2>1. i \in DOMAIN es /\ Concerns(es[i], u) /\ \A j \in DOMAIN es : Concerns(es[j], u) => j <= i
        BY <1>8 DEF Tells
    <2>2. k + i \in M(g, u, q) /\ q[k + i][2] = es[i]
        BY <1>2, <2>1
    <2>3. ASSUME NEW j \in M(g, u, q) PROVE j \in Nat /\ j <= k + i
        <3>1. j \in DOMAIN q /\ Concerns(q[j][2], u)
            BY <2>3
        <3>2. CASE j \in DOMAIN p
            BY <1>1, <2>1, <3>2
        <3>3. CASE (j - k) \in DOMAIN es /\ k + (j - k) = j
            <4>1. j - k <= i
                BY <1>2, <2>1, <3>1, <3>3
            <4> QED BY <1>1, <2>1, <3>1, <3>3, <4>1
        <3> QED BY <1>1, <3>1, <3>2, <3>3
    <2>4. Latest(M(g, u, q)) = {k + i}
        <3> HIDE DEF M
        <3>1. k + i \in Nat
            BY <1>1, <2>1
        <3>2. k + i \in Latest(M(g, u, q))
            BY <2>2, <2>3 DEF Latest
        <3>3. \A j \in Latest(M(g, u, q)) : j = k + i
            BY <2>2, <2>3, <3>1 DEF Latest
        <3> QED BY <3>2, <3>3
    <2> HIDE DEF M
    <2> QED BY <1>3, <2>2, <2>4 DEF KnownMember, q
<1>9. /\ \A h \in Groups \ {g} : \A n : KnownAs(h, n) => KnownAs(h, n)'
      /\ Nameless(es) => \A n : KnownAs(g, n) => KnownAs(g, n)'
    <2> HIDE DEF N, M
    <2> QED BY <1>4, <1>5
<1>10. /\ \A h \in Groups \ {g}, u \in Users : KnownMember(h, u)' <=> KnownMember(h, u)
       /\ \A u \in Users : Silent(es, u) => (KnownMember(g, u)' <=> KnownMember(g, u))
    <2> HIDE DEF N, M
    <2> QED BY <1>4, <1>6
<1>11. \A u \in Users : /\ TellsIn(es, u) => KnownMember(g, u)'
                        /\ TellsOut(es, u) => ~KnownMember(g, u)'
    BY <1>8 DEF TellsIn, TellsOut
<1> QED BY <1>7, <1>9, <1>10, <1>11

-----------------------------------------------------------------------------
(* A request that overlaps no other is the only one there is.              *)
LEMMA Solo ==
    ASSUME IInv, Serial, ~overlapped', NEW r \in Clients,
           Step(r) \/ Fail(r) \/ \E q \in Workload : Ask(r, q)
    PROVE  /\ ~overlapped /\ Alone /\ FoldedApart /\ AllKnown /\ SnapshotOK(tx[r])
           /\ \A s \in Clients \ {r} : tx[s].pc = "idle"
           /\ ~Publish(r) => tx[r].pc # "publish"
<1>1. CASE \E q \in Workload : Ask(r, q)
    <2>1. overlapped' = (overlapped \/ \E s \in Clients \ {r} : Busy(s)) /\ tx[r].pc = "idle"
        BY <1>1 DEF Ask, At
    <2>2. \A s \in Clients \ {r} : tx[s].pc = "idle"
        BY <2>1 DEF Busy, At
    <2> QED BY <2>1, <2>2 DEF Serial
<1>2. CASE Step(r) \/ Fail(r)
    <2>1. overlapped' = overlapped
        BY <1>2 DEF Step, Load, Rename, ChangeMembers, WriteGroup, InsertMember, DeleteMembers,
                    Commit, Publish, Reread, Deny, Fail, BreakDeadlock
    <2>2. CASE BreakDeadlock(r)
        <3>1. Waits(r) # {}
            BY <2>2 DEF BreakDeadlock, Deadlocked
        <3>2. PICK s \in Others(r) : CASE At(r, "write")  -> WaitsAtWrite(r, s)
                                       [] At(r, "insert") -> WaitsAtInsert(r, s)
                                       [] At(r, "delete") -> WaitsAtDelete(r, s)
                                       [] OTHER           -> FALSE
            BY <3>1 DEF Waits
        <3>3. At(r, "write") \/ At(r, "insert") \/ At(r, "delete")
            BY <3>2
        <3>4. Busy(r) /\ tx[r].pc # "publish"
            BY <3>3 DEF Busy, At
        <3> QED BY <2>1, <3>4 DEF Serial, Alone, Busy, At
    <2>3. CASE ~BreakDeadlock(r)
        <3>1. Busy(r) /\ (~Publish(r) => tx[r].pc # "publish")
            BY <1>2, <2>3 DEF Step, Load, Rename, ChangeMembers, WriteGroup, InsertMember, DeleteMembers,
                    Commit, Publish, Reread, Deny, Fail, Busy, At
        <3> QED BY <2>1, <3>1 DEF Serial, Alone, Busy, At
    <2> QED BY <2>2, <2>3
<1> QED BY <1>1, <1>2

(* One group of a name, whatever the case.                                 *)
LEMMA OneNamesake ==
    ASSUME FoldedApart, NEW n, NEW g \in Namesakes(n)
    PROVE  Namesakes(n) \subseteq {g}
BY DEF FoldedApart, Namesakes

(* The session goes on from what the tables hold.                          *)
LEMMA SnapshotSteps ==
    ASSUME IInv, NEW r \in Clients, FoldedApart, SnapshotOK(tx[r]),
           Step(r) \/ Fail(r) \/ \E q \in Workload : Ask(r, q), ~Commit(r), ~Publish(r)
    PROVE  \E t : Steps(r, t) /\ SnapshotOK(t) /\ t.pc # "publish"
<1> DEFINE s == tx[r]
<1>1. SessionOK(s) /\ SnapshotOK(s)
    BY DEF IInv, Sound
<1>2. CASE Load(r)
    <2>1. PICK t : Steps(r, t) /\ t.pc \in {"deny", "work"} /\
              (t.pc = "work" => /\ t.group \in Groups /\ t.base = groups[t.group]
                                /\ t.name = t.base /\ ~t.loaded)
        BY <1>2, LoadSteps
    <2>2. SnapshotOK(t)
        BY <2>1 DEF SnapshotOK, Open, Flushing
    <2> QED BY <2>1, <2>2
<1>3. CASE Rename(r)
    <2>1. PICK t : Steps(r, t) /\ t.pc \in {"deny", "work", "write"} /\
              (t.pc # "deny" =>
                 /\ t.ask = s.ask /\ t.group = s.group /\ t.base = s.base
                 /\ t.loaded = s.loaded /\ t.rows = s.rows
                 /\ \/ t.name = s.name \/ Namesakes(t.name) = {}
                    \/ t.group \in Namesakes(t.name))
        BY <1>3, RenameSteps
    <2>2. t.group \in Namesakes(t.name) => Namesakes(t.name) \subseteq {t.group}
        BY OneNamesake
    <2>3. s.pc = "work"
        BY <1>3 DEF Rename, At
    <2>4. SnapshotOK(t)
        BY <1>1, <2>1, <2>2, <2>3 DEF SnapshotOK, Open, Flushing
    <2> QED BY <2>1, <2>4
<1>4. CASE ChangeMembers(r)
    <2>1. PICK t : Steps(r, t) /\ t.pc \in {"deny", "work", "write"} /\
              (t.pc # "deny" =>
                 /\ t.ask = s.ask /\ t.group = s.group /\ t.base = s.base
                 /\ t.name = s.name
                 /\ t.rows = IF s.loaded THEN s.rows ELSE Rows(s.group))
        BY <1>4, ChangeSteps
    <2>2. s.pc = "work"
        BY <1>4 DEF ChangeMembers, At
    <2>3. SnapshotOK(t)
        BY <1>1, <2>1, <2>2 DEF SnapshotOK, Open, Flushing
    <2> QED BY <2>1, <2>3
<1>5. CASE WriteGroup(r)
    <2>1. PICK t : Steps(r, t) /\
              \/ t.pc = "idle"
              \/ /\ t.pc \in Flushing /\ SameWork(t, s) /\ s.pc = "write"
                 /\ IF t.ask.kind = "create" THEN groups[t.group] = None ELSE t.group = s.group
        BY <1>5, WriteSteps
    <2>2. CASE t.pc = "idle"
        BY <2>1, <2>2 DEF SnapshotOK, Open, Flushing
    <2>3. CASE t.pc \in Flushing /\ t.ask.kind = "create"
        <3>1. /\ SameWork(t, s) /\ s.pc = "write" /\ groups[t.group] = None /\ SessionOK(t) /\ s.ask = t.ask
            BY <2>1, <2>3 DEF Flushing, Steps, SameWork
        <3>2. t.group \in Groups /\ t.base = None /\ t.rows = {} /\ s.group = None
            BY <1>1, <2>3, <3>1 DEF SessionOK, FlushOK, CreateOK, Flushing
        <3>3. Rows(t.group) = {}
            BY <3>1 DEF IInv, Sound, MembersOfGroups, Rows
        <3>4. t.name = t.base \/ Namesakes(t.name) = {}
            <4>1. s.name = s.base \/ Namesakes(s.name) \subseteq {s.group}
                BY <1>1, <3>1 DEF SnapshotOK, Open
            <4>2. Namesakes(s.name) \subseteq Groups
                BY DEF Namesakes
            <4> QED BY <3>1, <3>2, <4>1, <4>2, ScimGroupsAssumption DEF SameWork
        <3>5. SnapshotOK(t)
            BY <3>1, <3>2, <3>3, <3>4 DEF SnapshotOK
        <3> QED BY <2>1, <2>3, <3>5 DEF Flushing
    <2>4. CASE t.pc \in Flushing /\ t.ask.kind # "create"
        BY <1>1, <2>1, <2>4 DEF SnapshotOK, Open, Flushing, SameWork
    <2> QED BY <2>1, <2>2, <2>3, <2>4
<1>6. CASE InsertMember(r)
    <2>1. PICK t : Steps(r, t) /\
              \/ t.pc = "idle"
              \/ /\ t.pc \in Flushing /\ s.pc = "insert" /\ SameWork(t, s)
                 /\ t.group = s.group
        BY <1>6, InsertSteps
    <2>2. SnapshotOK(t)
        BY <1>1, <2>1 DEF SnapshotOK, Open, Flushing, SameWork
    <2> QED BY <2>1, <2>2 DEF Flushing
<1>7. CASE DeleteMembers(r)
    <2>1. PICK t : Steps(r, t) /\ t.pc \in Flushing /\ s.pc = "delete" /\ SameWork(t, s)
                     /\ t.group = s.group
        BY <1>7, DeleteSteps
    <2>2. SnapshotOK(t)
        BY <1>1, <2>1 DEF SnapshotOK, Open, Flushing, SameWork
    <2> QED BY <2>1, <2>2 DEF Flushing
<1>8. CASE Reread(r) \/ Deny(r) \/ Fail(r) \/ BreakDeadlock(r)
    <2>1. PICK t : Steps(r, t) /\ t.pc = "idle"
        BY <1>8, CloseSteps
    <2> QED BY <2>1 DEF SnapshotOK, Open, Flushing
<1>9. CASE \E q \in Workload : Ask(r, q)
    <2>1. PICK t : Steps(r, t) /\ t.pc \in {"deny", "work", "load"}
                     /\ t.group = None /\ t.base = None /\ t.name = None
        BY <1>9, AskSteps
    <2>2. SnapshotOK(t)
        BY <2>1, ScimGroupsAssumption DEF SnapshotOK
    <2> QED BY <2>1, <2>2
<1> QED BY <1>2, <1>3, <1>4, <1>5, <1>6, <1>7, <1>8, <1>9 DEF Step

(* A step that neither commits nor publishes leaves the tables and what is *)
(* known of them.                                                          *)
LEMMA OthersIdle ==
    ASSUME IInv, NEW r \in Clients, NEW t, Steps(r, t), \A s \in Clients \ {r} : tx[s].pc = "idle"
    PROVE  /\ Alone'
           /\ \A s \in Clients : tx'[s] = IF s = r THEN t ELSE tx[s]
           /\ \A s \in Clients \ {r} : tx'[s].pc = "idle"
<1>1. \A s \in Clients : tx'[s] = IF s = r THEN t ELSE tx[s]
    BY DEF Steps, IInv, Sound
<1>2. \A s \in Clients \ {r} : tx'[s].pc = "idle"
    BY <1>1
<1> QED BY <1>1, <1>2 DEF Alone, Busy, At

LEMMA QuietSerial ==
    ASSUME IInv, Serial, ~overlapped', NEW r \in Clients,
           Step(r) \/ Fail(r) \/ \E q \in Workload : Ask(r, q), ~Commit(r), ~Publish(r)
    PROVE  Serial'
<1>1. /\ Alone /\ FoldedApart /\ AllKnown /\ SnapshotOK(tx[r])
      /\ \A s \in Clients \ {r} : tx[s].pc = "idle"
      /\ tx[r].pc # "publish"
    BY Solo
<1>2. PICK t : Steps(r, t) /\ SnapshotOK(t) /\ t.pc # "publish"
    BY <1>1, SnapshotSteps
<1>3. /\ Alone'
      /\ \A s \in Clients : tx'[s] = IF s = r THEN t ELSE tx[s]
      /\ \A s \in Clients \ {r} : tx'[s].pc = "idle"
    BY <1>1, <1>2, OthersIdle
<1>4. UNCHANGED <<groups, members, published>>
    BY DEF Step, Load, Rename, ChangeMembers, WriteGroup, InsertMember, DeleteMembers,
           Reread, Deny, Fail, BreakDeadlock, Ask
<1>5. FoldedApart'
    BY <1>1, <1>4 DEF FoldedApart
<1>6. \A s \in Clients : tx[s].pc # "publish" /\ tx'[s].pc # "publish"
    BY <1>1, <1>2, <1>3
<1>7. \A g \in Groups : Known(g)
    BY <1>1, <1>6 DEF AllKnown, Publishes, At
<1>8. ASSUME NEW g \in Groups PROVE Known(g)'
    <2>1. Known(g)
        BY <1>7
    <2> QED BY <1>4, <2>1 DEF Known, KnownAs, KnownMember, NamesHeard, MembersHeard, Rows
<1>9. AllKnown'
    BY <1>6, <1>8 DEF AllKnown, At
<1>10. ASSUME NEW s \in Clients PROVE SnapshotOK(tx[s])'
    <2>1. CASE s = r
        <3>1. SnapshotOK(t)'
            BY <1>2, <1>4 DEF SnapshotOK, Namesakes, Rows
        <3> QED BY <1>3, <2>1, <3>1 DEF SnapshotOK
    <2>2. CASE s # r
        BY <1>3, <2>2 DEF SnapshotOK, Open, Flushing
    <2> QED BY <2>1, <2>2
<1> QED BY <1>3, <1>5, <1>9, <1>10 DEF Serial

(* Publishing tells what has been committed.                               *)
LEMMA PublishSerial ==
    ASSUME IInv, Serial, ~overlapped', NEW r \in Clients, Publish(r)
    PROVE  Serial'
<1> DEFINE s == tx[r]
<1>1. /\ Alone /\ FoldedApart /\ AllKnown /\ SnapshotOK(tx[r])
      /\ \A q \in Clients \ {r} : tx[q].pc = "idle"
    BY Solo DEF Step
<1>2. PICK t : Steps(r, t) /\ t.pc = "reread" /\ tx[r].pc = "publish" /\ t.group = tx[r].group
    BY PublishSteps
<1>3. /\ Alone'
      /\ \A q \in Clients : tx'[q] = IF q = r THEN t ELSE tx[q]
      /\ \A q \in Clients \ {r} : tx'[q].pc = "idle"
    BY <1>1, <1>2, OthersIdle
<1>4. UNCHANGED <<groups, members>>
    BY DEF Publish
<1>5. FoldedApart'
    BY <1>1, <1>4 DEF FoldedApart
<1>6. /\ \A q \in Clients : SnapshotOK(tx[q])'
      /\ \A q \in Clients : tx'[q].pc # "publish"
    BY <1>2, <1>3 DEF SnapshotOK, Open, Flushing
<1>7. PICK g : g = s.group
    OBVIOUS
<1>8. PICK es : es = Events(s)
    OBVIOUS
<1>9. s \in Sessions /\ g \in Groups /\ s.name \in Names
    BY <1>2, <1>7 DEF IInv, Sound, SessionOK, FlushOK, Done
<1>10. es \in Seq(EventRow)
    BY <1>7, <1>8, <1>9, EventsTyped
<1>11. published' = published \o Tagged(g, es)
    BY <1>7, <1>8 DEF Publish, Tagged
<1>12. published \in Seq(Groups \X EventRow)
    BY DEF IInv, TypeOK
<1>13. /\ \A h \in Groups \ {g} : \A n : KnownAs(h, n) => KnownAs(h, n)'
       /\ \A h \in Groups \ {g}, u \in Users : KnownMember(h, u)' <=> KnownMember(h, u)
       /\ Nameless(es) => \A n : KnownAs(g, n) => KnownAs(g, n)'
       /\ \A n : Calls(es, n) => KnownAs(g, n)'
       /\ \A u \in Users : /\ Silent(es, u) => (KnownMember(g, u)' <=> KnownMember(g, u))
                           /\ TellsIn(es, u) => KnownMember(g, u)'
                           /\ TellsOut(es, u) => ~KnownMember(g, u)'
    BY <1>9, <1>10, <1>11, <1>12, HeardLater
<1>14. ASSUME NEW h \in Groups \ {g} PROVE Known(h)'
    <2>1. Known(h)
        BY <1>1, <1>2, <1>7 DEF AllKnown, Publishes, At
    <2>2. PICK n : n = groups[h]
        OBVIOUS
    <2>3. KnownAs(h, n)'
        BY <1>13, <2>1, <2>2 DEF Known
    <2>4. KnownAs(h, groups[h])'
        BY <1>4, <2>2, <2>3
    <2>5. \A u \in Users : KnownMember(h, u)' <=> u \in UsersIn(Rows(h))'
        BY <1>4, <1>13, <2>1 DEF Known, Rows
    <2> QED BY <2>4, <2>5 DEF Known
<1>15. ToBeKnown(s)
    BY <1>1, <1>2 DEF AllKnown, At
<1>16. Known(g)'
    <2>1. PICK n : n = groups[g]
        OBVIOUS
    <2>2. Calls(es, n) \/ (Nameless(es) /\ KnownAs(g, n))
        BY <1>7, <1>8, <1>15, <2>1 DEF ToBeKnown
    <2>3. KnownAs(g, n)'
        BY <1>13, <2>2
    <2>4. KnownAs(g, groups[g])'
        BY <1>4, <2>1, <2>3
    <2>5. \A u \in Users : KnownMember(g, u)' <=> u \in UsersIn(Rows(g))
        BY <1>7, <1>8, <1>13, <1>15 DEF ToBeKnown
    <2>6. UsersIn(Rows(g))' = UsersIn(Rows(g))
        BY <1>4 DEF Rows
    <2> QED BY <2>4, <2>5, <2>6 DEF Known
<1>17. AllKnown'
    BY <1>6, <1>14, <1>16 DEF AllKnown, At
<1> QED BY <1>3, <1>5, <1>6, <1>17 DEF Serial

(* The events of a commit tell the name and the members it leaves.         *)
LEMMA CommitTold ==
    ASSUME IInv, NEW s \in Sessions, SessionOK(s), s.pc \in {"commit", "publish"}
    PROVE  /\ \/ Calls(Events(s), s.name)
              \/ Nameless(Events(s)) /\ s.name = s.base
           /\ \A u \in Users :
                 \/ TellsIn(Events(s), u) /\ u \in InHand(s)
                 \/ TellsOut(Events(s), u) /\ u \notin InHand(s)
                 \/ Silent(Events(s), u) /\ (u \in InHand(s) <=> u \in UsersIn(s.rows))
<1>1. s.events \in Seq(EventRow) /\ s.name \in Names /\ ToldOK(s)
    BY DEF Sessions, SessionOK, FlushOK, Flushing, Done
<1> DEFINE e == [type |-> "GroupCreated", value |-> s.name]
<1>2. e \in EventRow /\ IsName(e) /\ e.value = s.name /\ \A u : ~Concerns(e, u)
    BY <1>1 DEF EventRow, IsName, Concerns
<1>3. Events(s) = (IF s.ask.kind = "create" THEN <<e>> ELSE <<>>) \o s.events
    BY DEF Events
<1> HIDE DEF e
<1>4. PICK c : c = IF s.ask.kind = "create" THEN <<e>> ELSE <<>>
    OBVIOUS
<1>5. /\ c \in Seq(EventRow) /\ \A u : Silent(c, u)
      /\ IF s.ask.kind = "create" THEN Calls(c, s.name) ELSE Nameless(c)
    <2>1. CASE s.ask.kind = "create"
        BY <1>2, <1>4, <2>1 DEF Silent, Calls
    <2>2. CASE s.ask.kind # "create"
        BY <1>4, <2>2, Nothing DEF Silent
    <2> QED BY <2>1, <2>2
<1>6. Events(s) = c \o s.events
    BY <1>3, <1>4
<1>7. /\ Calls(s.events, s.name) => Calls(c \o s.events, s.name)
      /\ Nameless(s.events) /\ Calls(c, s.name) => Calls(c \o s.events, s.name)
      /\ Nameless(s.events) /\ Nameless(c) => Nameless(c \o s.events)
    BY <1>1, <1>5, JoinedCalls
<1>8. \A u \in Users : /\ TellsIn(s.events, u) => TellsIn(c \o s.events, u)
                       /\ TellsOut(s.events, u) => TellsOut(c \o s.events, u)
                       /\ Silent(s.events, u) /\ Silent(c, u) => Silent(c \o s.events, u)
    BY <1>1, <1>5, JoinedTells
<1>9. Calls(Events(s), s.name) \/ (Nameless(Events(s)) /\ s.name = s.base)
    BY <1>1, <1>5, <1>6, <1>7 DEF ToldOK
<1>10. ASSUME NEW u \in Users
       PROVE  \/ TellsIn(Events(s), u) /\ u \in InHand(s)
              \/ TellsOut(Events(s), u) /\ u \notin InHand(s)
              \/ Silent(Events(s), u) /\ (u \in InHand(s) <=> u \in UsersIn(s.rows))
    BY <1>1, <1>5, <1>6, <1>8 DEF ToldOK
<1> QED BY <1>9, <1>10

LEMMA CommitSerial ==
    ASSUME IInv, Serial, ~overlapped', NEW r \in Clients, Commit(r)
    PROVE  Serial'
<1>1. /\ Alone /\ FoldedApart /\ AllKnown /\ SnapshotOK(tx[r])
      /\ \A q \in Clients \ {r} : tx[q].pc = "idle"
    BY Solo DEF Step, Commit, Publish, At
<1>2. PICK t : /\ Steps(r, t) /\ t.pc = "publish" /\ tx[r].pc = "commit" /\ SameWork(t, tx[r])
               /\ t.group = tx[r].group /\ t.wrote = tx[r].wrote /\ t.put = tx[r].put
               /\ t.fresh = {}
    BY CommitSteps
<1>3. /\ Alone'
      /\ \A q \in Clients : tx'[q] = IF q = r THEN t ELSE tx[q]
      /\ \A q \in Clients \ {r} : tx'[q].pc = "idle"
    BY <1>1, <1>2, OthersIdle
<1>4. /\ tx[r].group \in Groups /\ tx[r].name \in Names
      /\ \A g \in Groups : groups'[g] = IF tx[r].wrote /\ g = tx[r].group THEN tx[r].name ELSE groups[g]
      /\ SessionOK(tx[r]) /\ tx[r] \in Sessions
    BY CommitTables
<1>5. members' = (members \ Dropped(tx[r])) \cup NewRows(tx[r]) /\ published' = published
    BY DEF Commit
<1>6. PICK s : s = tx[r]
    OBVIOUS
<1>7. PICK g : g = s.group
    OBVIOUS
<1>8. /\ s.wrote <=> s.name # s.base
      /\ groups[g] = s.base /\ (s.loaded => s.rows = Rows(g))
      /\ s.name = s.base \/ Namesakes(s.name) \subseteq {g}
    BY <1>1, <1>2, <1>4, <1>6, <1>7 DEF SnapshotOK, Open, Flushing, SessionOK, FlushOK
<1>9. /\ s.kept \subseteq s.rows /\ \A m \in s.rows : m.group = g
      /\ ~s.loaded => s.rows = {} /\ s.put = {}
      /\ s.fresh = {}
    BY <1>2, <1>4, <1>6, <1>7 DEF SessionOK, MemoryOK, FlushOK
<1>10. groups'[g] = s.name /\ \A h \in Groups \ {g} : groups'[h] = groups[h]
    BY <1>4, <1>6, <1>7, <1>8
<1>11. FoldedApart'
    <2>1. ASSUME NEW h \in Groups \ {g}, groups[h] # None, Lower[groups[h]] = Lower[s.name]
          PROVE  s.name = s.base
        BY <1>8, <2>1 DEF Namesakes
    <2>2. ASSUME NEW h \in Groups \ {g}, groups'[h] # None PROVE Lower[groups'[h]] # Lower[groups'[g]]
        <3>1. groups'[h] = groups[h]
            BY <1>10
        <3>2. s.name # None
            BY <1>4, <1>6, ScimGroupsAssumption
        <3>3. SUFFICES ASSUME Lower[groups[h]] = Lower[s.name] PROVE FALSE
            BY <1>10, <3>1
        <3>4. s.name = s.base
            BY <2>1, <2>2, <3>1, <3>3
        <3>5. groups[g] = s.name /\ g \in Groups
            BY <1>4, <1>6, <1>7, <1>8, <3>4
        <3> QED BY <1>1, <2>2, <3>1, <3>2, <3>3, <3>5 DEF FoldedApart
    <2>3. ASSUME NEW h \in Groups, NEW k \in Groups, groups'[h] # None, groups'[k] # None,
                 Lower[groups'[h]] = Lower[groups'[k]]
          PROVE  h = k
        <3>1. CASE h = g \/ k = g
            BY <2>2, <2>3, <3>1
        <3>2. CASE h # g /\ k # g
            BY <1>1, <1>10, <2>3, <3>2 DEF FoldedApart
        <3> QED BY <3>1, <3>2
    <2> QED BY <2>3 DEF FoldedApart
<1>12. \A h \in Groups : Known(h)
    BY <1>1, <1>2 DEF AllKnown, Publishes, At
<1>13. \A m \in NewRows(s) : m.group = g /\ m.user \in s.put
    BY <1>7 DEF NewRows
<1>14. ASSUME NEW h \in Groups \ {g} PROVE Known(h)'
    <2>1. Known(h)
        BY <1>12
    <2>2. groups'[h] = groups[h]
        BY <1>10
    <2>3. Rows(h)' = Rows(h)
        BY <1>5, <1>6, <1>9, <1>13 DEF Rows, Dropped
    <2>4. KnownAs(h, groups[h])'
        BY <1>5, <2>1, <2>2 DEF Known, KnownAs, NamesHeard
    <2>5. \A u \in Users : KnownMember(h, u)' <=> u \in UsersIn(Rows(h))'
        BY <1>5, <2>1, <2>3 DEF Known, KnownMember, MembersHeard
    <2> QED BY <2>4, <2>5 DEF Known
<1>15. \A u \in Users : u \in UsersIn(Rows(g))' <=>
                           IF s.loaded THEN u \in InHand(s) ELSE u \in UsersIn(Rows(g))
    <2>1. CASE s.loaded
        <3>1. Rows(g)' = s.kept \cup NewRows(s)
            BY <1>5, <1>6, <1>8, <1>9, <1>13, <2>1 DEF Rows, Dropped
        <3>2. UsersIn(NewRows(s)) = s.put
            <4>1. ASSUME NEW u \in s.put PROVE u \in UsersIn(NewRows(s))
                <5>1. PICK m : m = [group |-> s.group, user |-> u, by |-> s.number]
                    OBVIOUS
                <5>2. m \in NewRows(s) /\ m.user = u
                    BY <5>1 DEF NewRows
                <5> QED BY <5>2 DEF UsersIn
            <4>2. UsersIn(NewRows(s)) \subseteq s.put
                BY <1>13 DEF UsersIn
            <4> QED BY <4>1, <4>2
        <3>3. UsersIn(s.kept \cup NewRows(s)) = UsersIn(s.kept) \cup s.put
            BY <3>2 DEF UsersIn
        <3>4. InHand(s) = UsersIn(s.kept) \cup s.put
            BY <1>9 DEF InHand, Present, UsersIn
        <3>5. UsersIn(Rows(g))' = InHand(s)
            BY <3>1, <3>3, <3>4 DEF UsersIn
        <3> QED BY <2>1, <3>5
    <2>2. CASE ~s.loaded
        <3>1. Dropped(s) = {} /\ NewRows(s) = {}
            BY <1>9, <2>2 DEF Dropped, NewRows
        <3>2. Rows(g)' = Rows(g)
            BY <1>5, <1>6, <3>1 DEF Rows
        <3> QED BY <2>2, <3>2 DEF UsersIn
    <2> QED BY <2>1, <2>2
<1>16. PICK es : es = Events(t)
    OBVIOUS
<1>17. es = Events(s) /\ t.group = g
    BY <1>2, <1>6, <1>7, <1>16 DEF Events, SameWork
<1>18. /\ Calls(es, s.name) \/ (Nameless(es) /\ s.name = s.base)
       /\ \A u \in Users :
             \/ TellsIn(es, u) /\ u \in InHand(s)
             \/ TellsOut(es, u) /\ u \notin InHand(s)
             \/ Silent(es, u) /\ (u \in InHand(s) <=> u \in UsersIn(s.rows))
    BY <1>2, <1>4, <1>6, <1>17, CommitTold
<1>19. /\ KnownAs(g, s.base)'
       /\ \A u \in Users : KnownMember(g, u)' <=> u \in UsersIn(Rows(g))
    <2>1. Known(g)
        BY <1>4, <1>6, <1>7, <1>12
    <2>2. KnownAs(g, s.base)'
        BY <1>5, <1>8, <2>1 DEF Known, KnownAs, NamesHeard
    <2> QED BY <1>5, <2>1, <2>2 DEF Known, KnownMember, MembersHeard
<1>20. ASSUME NEW u \in Users, ~s.loaded PROVE Silent(es, u)
    <2>1. Silent(s.events, u) /\ s.ask.kind # "create"
        BY <1>2, <1>4, <1>6, <1>20 DEF SessionOK, MemoryOK, CreateOK
    <2>2. Events(s) = s.events
        <3>1. s.events \in Seq(EventRow)
            BY <1>4, <1>6 DEF Sessions
        <3>2. <<>> \o s.events = s.events
            BY <3>1
        <3> QED BY <2>1, <3>2 DEF Events
    <2> QED BY <1>17, <2>1, <2>2
<1>21. ToBeKnown(t)'
    <2>1. Calls(es, groups'[g]) \/ (Nameless(es) /\ KnownAs(g, groups[g])')
        BY <1>10, <1>18, <1>19
    <2>2. ASSUME NEW u \in Users
          PROVE  \/ TellsIn(es, u) /\ u \in UsersIn(Rows(g))'
                 \/ TellsOut(es, u) /\ u \notin UsersIn(Rows(g))'
                 \/ Silent(es, u) /\ (KnownMember(g, u)' <=> u \in UsersIn(Rows(g))')
        <3>1. CASE s.loaded
            BY <1>8, <1>15, <1>18, <1>19, <3>1
        <3>2. CASE ~s.loaded
            BY <1>15, <1>19, <1>20, <3>2
        <3> QED BY <3>1, <3>2
    <2> QED BY <1>16, <1>17, <2>1, <2>2 DEF ToBeKnown
<1>22. AllKnown'
    <2>1. ASSUME NEW h \in Groups, \A q \in Clients : ~Publishes(q, h)' PROVE Known(h)'
        <3>1. h # g
            BY <1>2, <1>3, <1>17, <2>1 DEF Publishes, At
        <3> QED BY <1>14, <3>1
    <2>2. ASSUME NEW q \in Clients, At(q, "publish")' PROVE ToBeKnown(tx[q])'
        <3>1. tx'[q] = t
            BY <1>3, <2>2 DEF At
        <3> QED BY <1>21, <3>1 DEF ToBeKnown
    <2> QED BY <2>1, <2>2 DEF AllKnown
<1>23. \A q \in Clients : SnapshotOK(tx[q])'
    BY <1>2, <1>3 DEF SnapshotOK, Open, Flushing
<1> QED BY <1>3, <1>11, <1>22, <1>23 DEF Serial

-----------------------------------------------------------------------------
LEMMA InitSerial == Init => Serial
<1> SUFFICES ASSUME Init PROVE Serial
    OBVIOUS
<1>1. \A r \in Clients : tx[r] = Idle
    BY DEF Init
<1>2. Idle.pc = "idle"
    BY DEF Idle
<1>3. \A r \in Clients : tx[r].pc = "idle"
    BY <1>1, <1>2
<1>4. Alone /\ \A r \in Clients : SnapshotOK(tx[r])
    BY <1>3 DEF Alone, Busy, At, SnapshotOK, Open, Flushing
<1>5. FoldedApart
    BY ScimGroupsAssumption DEF Init, FoldedApart
<1>6. ASSUME NEW g \in Groups PROVE Known(g)
    <2>1. published = <<>> /\ DOMAIN published = {}
        BY DEF Init
    <2>2. NamesHeard(g) = {} /\ \A u : MembersHeard(g, u) = {}
        BY <2>1 DEF NamesHeard, MembersHeard
    <2>3. KnownAs(g, groups[g])
        BY <2>2 DEF KnownAs, Init
    <2>4. ASSUME NEW u \in Users PROVE u \in UsersIn(Rows(g)) <=> <<g, u>> \in InitialMembers
        <3>1. ASSUME u \in UsersIn(Rows(g)) PROVE <<g, u>> \in InitialMembers
            <4>1. PICK m \in members : m.group = g /\ m.user = u
                BY <3>1 DEF UsersIn, Rows
            <4>2. PICK p \in InitialMembers : m = [group |-> p[1], user |-> p[2], by |-> 0]
                BY DEF Init
            <4>3. p \in Groups \X Users /\ p[1] = g /\ p[2] = u
                BY <4>1, <4>2, ScimGroupsAssumption
            <4> QED BY <4>3
        <3>2. ASSUME <<g, u>> \in InitialMembers PROVE u \in UsersIn(Rows(g))
            <4>1. PICK m : m = [group |-> g, user |-> u, by |-> 0]
                OBVIOUS
            <4>2. m \in members /\ m.group = g /\ m.user = u
                BY <3>2, <4>1 DEF Init
            <4> QED BY <4>2 DEF UsersIn, Rows
        <3> QED BY <3>1, <3>2
    <2>5. \A u \in Users : KnownMember(g, u) <=> u \in UsersIn(Rows(g))
        BY <2>2, <2>4 DEF KnownMember
    <2> QED BY <2>3, <2>5 DEF Known
<1>7. AllKnown
    BY <1>3, <1>6 DEF AllKnown, At
<1> QED BY <1>4, <1>5, <1>7 DEF Serial

LEMMA StepSerial == ASSUME IInv, Serial, [Next]_vars PROVE Serial'
<1>1. CASE UNCHANGED vars
    <2>1. UNCHANGED <<groups, members, audit, published, asked, failed, overlapped, tx>>
        BY <1>1 DEF vars
    <2>2. Alone' <=> Alone
        BY <2>1 DEF Alone, Busy, At
    <2>3. FoldedApart' <=> FoldedApart
        BY <2>1 DEF FoldedApart
    <2>4. AllKnown' <=> AllKnown
        BY <2>1 DEF AllKnown, Known, ToBeKnown, KnownAs, KnownMember, NamesHeard, MembersHeard, Rows,
                    Publishes, At
    <2>5. (\A r \in Clients : SnapshotOK(tx[r]))' <=> \A r \in Clients : SnapshotOK(tx[r])
        BY <2>1 DEF SnapshotOK, Namesakes, Rows
    <2> QED BY <2>1, <2>2, <2>3, <2>4, <2>5 DEF Serial
<1>2. CASE Next /\ ~overlapped'
    <2>1. PICK r \in Clients : Step(r) \/ Fail(r) \/ \E q \in Workload : Ask(r, q)
        BY <1>2 DEF Next
    <2> QED BY <1>2, <2>1, QuietSerial, CommitSerial, PublishSerial
<1>3. CASE overlapped'
    BY <1>3 DEF Serial
<1> QED BY <1>1, <1>2, <1>3

LEMMA SerialInvariance == Spec => [](IInv /\ Serial)
<1>1. Init => IInv /\ Serial
    BY InitInv, InitSerial
<1>2. IInv /\ Serial /\ [Next]_vars => IInv' /\ Serial'
    BY StepInv, StepSerial
<1> QED BY <1>1, <1>2, PTL DEF Spec

(* No two groups ever have the same name, names that differ in case only   *)
(* appear only after requests have overlapped, and no user is a member of  *)
(* a group twice: the constraints check what is written, and               *)
(* check_duplicate_group what a request finds before it writes.            *)
THEOREM NamesStayUnique == Spec => []NamesUnique
<1>1. ASSUME IInv, Serial PROVE NamesUnique
    <2>1. \A g, h \in Groups : groups[g] # None /\ groups[g] = groups[h] => g = h
        BY <1>1 DEF IInv, Sound, NamesApart
    <2>2. \A m, n \in members : m.group = n.group /\ m.user = n.user => m = n
        BY <1>1 DEF IInv, Sound, MembersApart
    <2>3. overlapped \/ FoldedApart
        BY <1>1 DEF Serial
    <2>4. ASSUME NEW g \in {k \in Groups : groups[k] # None}, NEW h \in {k \in Groups : groups[k] # None},
                 g # h
          PROVE  groups[g] # groups[h] /\ (Lower[groups[g]] = Lower[groups[h]] => overlapped)
        BY <2>1, <2>3, <2>4 DEF FoldedApart
    <2> QED BY <2>2, <2>4 DEF NamesUnique
<1>2. IInv /\ Serial => NamesUnique
    BY <1>1
<1> QED BY <1>2, SerialInvariance, PTL

(* As long as no requests overlap, whoever applies the events in the order *)
(* of their publication knows the names and the members in the tables,     *)
(* whatever requests were refused and whatever failed.                     *)
THEOREM EventsTellAll == Spec => []EventsTellMembership
<1>1. ASSUME IInv, Serial PROVE EventsTellMembership
    <2>1. SUFFICES ASSUME ~overlapped, \A r \in Clients : tx[r].pc \in {"idle", "reread"}, NEW g \in Groups
                   PROVE  /\ KnownAs(g, groups[g])
                          /\ \A u \in Users : KnownMember(g, u) <=> u \in UsersIn(Rows(g))
        BY DEF EventsTellMembership
    <2>2. AllKnown /\ \A r \in Clients : tx[r].pc # "publish"
        BY <1>1, <2>1 DEF Serial
    <2>3. Known(g)
        BY <2>2 DEF AllKnown, Publishes, At
    <2> QED BY <2>3 DEF Known
<1>2. IInv /\ Serial => EventsTellMembership
    BY <1>1
<1> QED BY <1>2, SerialInvariance, PTL
=============================================================================
