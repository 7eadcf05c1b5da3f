------------------------------ MODULE ScimUsers ------------------------------
(***************************************************************************)
(* Provisioning of users and their enterprise profiles over SCIM           *)
(* (app/scim/provisioning.py, app/services/user_service.py and             *)
(* enterprise_user_service.py).  A request is the sequence of its          *)
(* statements at READ COMMITTED: each read sees what has been committed,   *)
(* what the session has loaded stays as it was loaded, a flush writes the  *)
(* columns that differ from it and holds their rows until the commit.      *)
(***************************************************************************)
EXTENDS ScimUserPayload, FiniteSets

CONSTANTS
    Clients,          \* concurrent request threads
    Users,            \* user ids
    InitialUsers,     \* [Users -> row or None]
    InitialProfiles,  \* [Users -> profile or None]
    Lower,            \* [Value -> the value in lower case], employee numbers
    Default,          \* DEFAULT_PROVISIONED_DEPARTMENT
    Workload,         \* the requests clients make
    MaxRequests       \* requests made in all (bound)

Columns == Core \cup {"department"}
UserRow == [Columns -> Value]
Profile == {p \in [Enterprise -> Value \cup {None}] : p["manager"] \in Users \cup {None}}
NoProfile == [a \in Enterprise |-> None]

Asks == [kind : {"create", "replace"}, target : Users \cup {None},
         resource : [Attributes -> Value \cup {None, UNSET, Malformed}]]

Parses(q) ==
    IF q.kind = "patch" THEN PatchParses(q.operations) ELSE ResourceParses(q.resource)

Wanted(q) ==
    CASE q.kind = "patch"   -> PatchMutation(q.operations)
      [] q.kind = "replace" -> Replacing(ResourceMutation(q.resource))
      [] OTHER              -> ResourceMutation(q.resource)

(* What parsing makes of each request: a mutation, or None if refused.     *)
Parsed == [q \in Workload |-> IF Parses(q) THEN Wanted(q) ELSE None]

ASSUME ScimUsersAssumption ==
    /\ {"true", "false", Default} \subseteq Value /\ Users \subseteq Value
    /\ None \notin Value /\ UNSET \notin Value \cup {None}
    /\ UserName \notin Value \cup {None, UNSET}
    /\ Lower \in [Value -> Value]
    /\ InitialUsers \in [Users -> UserRow \cup {None}]
    /\ InitialProfiles \in [Users -> Profile \cup {None}]
    /\ \A u \in Users :
          InitialProfiles[u] # None =>
              /\ InitialUsers[u] # None
              /\ InitialProfiles[u]["department"] \in {None, InitialUsers[u]["department"]}
    /\ \A S \in SUBSET Users :
          S # {} => \E u \in S : \/ InitialProfiles[u] = None
                                \/ InitialProfiles[u]["manager"] \notin S
    /\ \A u, v \in {w \in Users : InitialProfiles[w] # None} :
          LET m == InitialProfiles[u]["employeeNumber"]
              n == InitialProfiles[v]["employeeNumber"]
          IN  u # v /\ m # None /\ n # None => Lower[m] # Lower[n]
    /\ \A q \in Workload : q.kind # "patch" => q \in Asks
    /\ \A q \in Workload : q.target \in Users \cup {None}
    /\ Parsed \in [Workload -> Mutation \cup {None}]
    /\ None \notin UserRow \cup Profile \cup Mutation \cup Workload
    /\ MaxRequests \in Nat

VARIABLES
    users,       \* users: [Users -> row or None]
    profiles,    \* enterprise_user_profiles, by user
    drawn,       \* ids the sequence of users has handed out
    audit,       \* audit_events
    published,   \* domain events published
    asked,       \* requests made so far
    overlapped,  \* some request was received while another was in flight
    tx           \* [Clients -> the request in hand and its session]

vars == <<users, profiles, drawn, audit, published, asked, overlapped, tx>>
rows == <<users, profiles, drawn, audit>>

-----------------------------------------------------------------------------
Unchanged == [a \in Columns |-> UNSET]
Unwritten == [a \in Enterprise |-> UNSET]

(* loaded and had are the user and the profile as the session read them,   *)
(* draft and changed the columns it has written; cur and seen are the walk *)
(* up the managers, action and blame the audit entry of a refusal.         *)
Idle == [pc |-> "idle", ask |-> None, number |-> 0, want |-> Untouched,
         target |-> None, loaded |-> None, had |-> None, creates |-> FALSE, draft |-> Unchanged,
         changed |-> Unwritten, cur |-> None, seen |-> {}, action |-> "none",
         blame |-> None, response |-> "none"]

Init ==
    /\ users = InitialUsers
    /\ profiles = InitialProfiles
    /\ drawn = {u \in Users : InitialUsers[u] # None}
    /\ audit = {} /\ published = {}
    /\ asked = 0 /\ overlapped = FALSE
    /\ tx = [r \in Clients |-> Idle]

-----------------------------------------------------------------------------
Exists(u) == u \in Users /\ users[u] # None
ManagerOf(u) == IF profiles[u] = None THEN None ELSE profiles[u]["manager"]

Want(r) == tx[r].want
Desired(r) == {a \in Enterprise : Want(r)[a] # UNSET}

At(r, label) == tx[r].pc = label
Update(r, t) == tx' = [tx EXCEPT ![r] = t]
Goto(r, label) == Update(r, [tx[r] EXCEPT !.pc = label])

(* Rolls back; the denial is audited in a transaction of its own, against  *)
(* the user to blame or else the actor.                                    *)
Refuse(r, status, act, user) ==
    Update(r, [Idle EXCEPT !.pc = "deny", !.ask = tx[r].ask, !.number = tx[r].number,
                           !.action = act, !.blame = user, !.response = status])

(* _raise_database_error: rolled back and answered, nothing audited.       *)
Abort(r) == Update(r, [Idle EXCEPT !.response = "500"])

-----------------------------------------------------------------------------
(* Row and index locks.  userName is the key other tables' references      *)
(* depend on: while it is being changed no row referring to the user can   *)
(* be written.                                                             *)
Others(r) == {s \in Clients \ {r} : ~At(s, "publish")}
HoldsUser(s, u) == tx[s].target = u /\ tx[s].draft # Unchanged
HoldsKey(s, u) == tx[s].target = u /\ tx[s].draft["userName"] # UNSET
RefersTo(s, u) == tx[s].changed["manager"] = u \/ (tx[s].target = u /\ tx[s].creates)
HoldsProfile(s, u) == tx[s].target = u /\ (tx[s].creates \/ tx[s].changed # Unwritten)

NameTaken(r, n) ==
    \E u \in Users \ {tx[r].target} : users[u] # None /\ users[u]["userName"] = n
NumberTaken(r, n) ==
    \E u \in Users \ {tx[r].target} :
       profiles[u] # None /\ profiles[u]["employeeNumber"] = n

ClaimsName(s, n) ==
    \/ tx[s].draft["userName"] = n
    \/ \E u \in Users : users[u] # None /\ users[u]["userName"] = n /\ HoldsKey(s, u)
ClaimsNumber(s, n) ==
    \/ tx[s].changed["employeeNumber"] = n
    \/ /\ tx[s].changed["employeeNumber"] # UNSET
       /\ \E u \in Users : /\ tx[s].target = u /\ profiles[u] # None
                           /\ profiles[u]["employeeNumber"] = n

-----------------------------------------------------------------------------
(* What WriteUser flushes: a whole row, or the columns that differ from    *)
(* the row as it was loaded.                                               *)
CoreValue(r, a) ==
    IF Want(r)[a] = UserName THEN tx[r].loaded["userName"] ELSE Want(r)[a]

UserDraft(r) ==
    IF tx[r].ask.kind = "create"
      THEN [a \in Columns |-> IF a = "department" THEN Default ELSE Want(r)[a]]
      ELSE [a \in Columns |->
              IF \/ a = "department"
                 \/ Want(r)[a] = UNSET
                 \/ CoreValue(r, a) = tx[r].loaded[a]
              THEN UNSET ELSE CoreValue(r, a)]

(* What SetProfile flushes: the desired values that differ from the        *)
(* profile as it was loaded, and the user's department with them.          *)
Had(r) == IF tx[r].had = None THEN NoProfile ELSE tx[r].had

ProfileDraft(r) ==
    [a \in Enterprise |->
       IF a \in Desired(r) /\ Want(r)[a] # Had(r)[a] THEN Want(r)[a] ELSE UNSET]

(* Mutant of DepartmentDraft: the user keeps theirs. *)
DepartmentKept(r) == tx[r].draft["department"]

(* Mutant of DepartmentDraft: one that is cleared is cleared of the user.  *)
DepartmentCleared(r) ==
    LET new == ProfileDraft(r)["department"]
    IN  IF new = UNSET THEN tx[r].draft["department"] ELSE new

DepartmentDraft(r) ==
    LET new == ProfileDraft(r)["department"]
        old == IF tx[r].loaded = None THEN Default ELSE tx[r].loaded["department"]
        value == IF new = None THEN Default ELSE new
    IN  IF new = UNSET \/ value = old THEN tx[r].draft["department"] ELSE value

-----------------------------------------------------------------------------
WaitsAtUser(r, s) ==
    LET d == UserDraft(r) IN
    \/ d # Unchanged /\ tx[r].loaded # None /\ HoldsUser(s, tx[r].target)
    \/ d["userName"] # UNSET /\ (ClaimsName(s, d["userName"]) \/ RefersTo(s, tx[r].target))

WaitsAtInsert(r, s) ==
    tx[s].target = tx[r].target /\ (tx[s].creates \/ HoldsKey(s, tx[r].target))

WaitsAtSet(r, s) ==
    LET d == ProfileDraft(r) IN
    \/ d # Unwritten /\ HoldsProfile(s, tx[r].target)
    \/ d["employeeNumber"] \in Value /\ ClaimsNumber(s, d["employeeNumber"])
    \/ d["manager"] \in Users /\ HoldsKey(s, d["manager"])
    \/ /\ DepartmentDraft(r) # tx[r].draft["department"]
       /\ HoldsUser(s, tx[r].target)

Waits(r) ==
    {s \in Others(r) :
       CASE At(r, "user")   -> WaitsAtUser(r, s)
         [] At(r, "insert") -> WaitsAtInsert(r, s)
         [] At(r, "set")    -> WaitsAtSet(r, s)
         [] At(r, "commit") -> HoldsKey(s, tx[r].target)
         [] At(r, "deny")   -> tx[r].blame # None /\ HoldsKey(s, tx[r].blame)
         [] OTHER           -> FALSE}

(* The requests of a cycle of waits.                                       *)
Deadlocked(r) ==
    \E cycle \in SUBSET Clients :
       /\ r \in cycle
       /\ \A s \in cycle : Waits(s) \cap cycle # {}
       /\ \A part \in SUBSET cycle \ {{}, cycle} :
             \E s \in part : Waits(s) \cap part = {}
-----------------------------------------------------------------------------
Busy(r) == ~At(r, "idle")

(* Requests that are about to draw an id (bound: Users has one for each).  *)
Expecting == {s \in Clients : At(s, "name") \/ At(s, "user")}

Ask(r, q) ==
    /\ At(r, "idle")
    /\ asked < MaxRequests
    /\ q.kind = "create" => Cardinality(Users \ drawn) > Cardinality(Expecting)
    /\ asked' = asked + 1
    /\ overlapped' = (overlapped \/ \E s \in Clients \ {r} : Busy(s))
    /\ Update(r, [Idle EXCEPT
          !.ask = q, !.number = asked + 1,
          !.pc = IF q.kind # "patch" /\ Parsed[q] = None THEN "deny"
                 ELSE IF q.kind = "create" THEN "name" ELSE "load",
          !.want = IF q.kind # "patch" /\ Parsed[q] # None THEN Parsed[q] ELSE Untouched,
          !.action = "failure", !.response = "400"])
    /\ UNCHANGED <<rows, published>>

(* find_user; a PATCH is parsed once its user is there.                    *)
Load(r) ==
    LET q == tx[r].ask IN
    /\ At(r, "load")
    /\ IF ~Exists(q.target) THEN Refuse(r, "404", "failure", None)
       ELSE IF Parsed[q] = None THEN Refuse(r, "400", "failure", q.target)
       ELSE Update(r, [tx[r] EXCEPT
              !.target = q.target, !.loaded = users[q.target], !.want = Parsed[q],
              !.pc = IF Parsed[q]["userName"] = UNSET THEN "user" ELSE "name"])
    /\ UNCHANGED <<rows, published, asked, overlapped>>

(* _ensure_user_name_available: stored names are in lower case.            *)
CheckName(r) ==
    LET holders == {u \in Users : users[u] # None
                                  /\ users[u]["userName"] = Want(r)["userName"]}
    IN
    /\ At(r, "name")
    /\ IF holders \ {tx[r].target} = {} THEN Goto(r, "user")
       ELSE \E u \in holders \ {tx[r].target} : Refuse(r, "409", "failure", u)
    /\ UNCHANGED <<rows, published, asked, overlapped>>

(* The flush of create_user, replace_user and patch_user.  A request that  *)
(* desires nothing of the extension leaves the profile alone.              *)
Granted(r) == Waits(r) = {}

AfterUser(r) == IF Desired(r) = {} THEN "commit" ELSE "profile"

WriteUser(r) ==
    LET d == UserDraft(r) IN
    /\ At(r, "user") /\ Granted(r)
    /\ IF tx[r].loaded = None
         THEN \E u \in Users \ drawn :
                /\ drawn' = drawn \cup {u}
                /\ IF NameTaken(r, d["userName"]) THEN Abort(r)
                   ELSE Update(r, [tx[r] EXCEPT !.pc = AfterUser(r), !.draft = d,
                                                !.target = u])
         ELSE /\ IF d["userName"] # UNSET /\ NameTaken(r, d["userName"]) THEN Abort(r)
                 ELSE Update(r, [tx[r] EXCEPT !.pc = AfterUser(r), !.draft = d])
              /\ UNCHANGED drawn
    /\ UNCHANGED <<users, profiles, audit, published, asked, overlapped>>

(* user.enterprise_profile is loaded; none is created for null values.     *)
LoadProfile(r) ==
    LET had == IF tx[r].loaded = None THEN None ELSE profiles[tx[r].target] IN
    /\ At(r, "profile")
    /\ Update(r, [tx[r] EXCEPT
          !.had = had,
          !.pc = IF had # None THEN "number"
                 ELSE IF \A a \in Desired(r) : Want(r)[a] = None THEN "commit"
                 ELSE "insert"])
    /\ UNCHANGED <<rows, published, asked, overlapped>>

InsertProfile(r) ==
    /\ At(r, "insert") /\ Granted(r)
    /\ IF profiles[tx[r].target] # None THEN Abort(r)
       ELSE Update(r, [tx[r] EXCEPT !.pc = "number", !.creates = TRUE])
    /\ UNCHANGED <<rows, published, asked, overlapped>>

(* _ensure_employee_number_available ignores case and looks at one match;  *)
(* its mutant compares as the constraint does.                             *)
MatchesExactly(r) ==
    {u \in Users : /\ profiles[u] # None
                   /\ profiles[u]["employeeNumber"] = Want(r)["employeeNumber"]}

Matches(r) ==
    {u \in Users : /\ profiles[u] # None
                   /\ profiles[u]["employeeNumber"] # None
                   /\ Lower[profiles[u]["employeeNumber"]]
                        = Lower[Want(r)["employeeNumber"]]}

CheckNumber(r) ==
    LET after == IF Want(r)["manager"] \in {UNSET, None} THEN "set" ELSE "manager" IN
    /\ At(r, "number")
    /\ IF Want(r)["employeeNumber"] \in {UNSET, None} \/ Matches(r) = {}
         THEN Goto(r, after)
         ELSE \E u \in Matches(r) :
                IF u = tx[r].target THEN Goto(r, after)
                ELSE Refuse(r, "409", "enterprise_failure", u)
    /\ UNCHANGED <<rows, published, asked, overlapped>>

(* Whom the failed validation of an existing user is audited against.      *)
Culprit(r) == IF tx[r].ask.kind = "create" THEN None ELSE tx[r].target

FindManager(r) ==
    LET m == Want(r)["manager"] IN
    /\ At(r, "manager")
    /\ IF m = tx[r].target \/ ~Exists(m)
         THEN Refuse(r, "400", "enterprise_failure", Culprit(r))
         ELSE Update(r, [tx[r] EXCEPT !.pc = "walk", !.cur = m, !.seen = {m}])
    /\ UNCHANGED <<rows, published, asked, overlapped>>

(* Mutants of Walk: checks the manager's manager only; never stops on a    *)
(* user it has seen.                                                       *)
WalkOneHop(r) ==
    LET next == ManagerOf(tx[r].cur) IN
    /\ At(r, "walk")
    /\ IF next = tx[r].target
         THEN Refuse(r, "400", "enterprise_failure", Culprit(r))
         ELSE Goto(r, "set")
    /\ UNCHANGED <<rows, published, asked, overlapped>>

WalkUnseen(r) ==
    LET next == ManagerOf(tx[r].cur) IN
    /\ At(r, "walk")
    /\ IF next = tx[r].target
         THEN Refuse(r, "400", "enterprise_failure", Culprit(r))
         ELSE IF next = None THEN Goto(r, "set")
         ELSE Update(r, [tx[r] EXCEPT !.cur = next])
    /\ UNCHANGED <<rows, published, asked, overlapped>>

(* One hop of the while loop of validate_manager.  The code adds a user to *)
(* seen when the walk comes to them, and the first manager, whose profile  *)
(* the session keeps, only on a return: the walk then ends one hop later.  *)
Walk(r) ==
    LET next == ManagerOf(tx[r].cur) IN
    /\ At(r, "walk")
    /\ IF next = tx[r].target
         THEN Refuse(r, "400", "enterprise_failure", Culprit(r))
         ELSE IF next = None \/ next \in tx[r].seen THEN Goto(r, "set")
         ELSE Update(r, [tx[r] EXCEPT !.cur = next, !.seen = @ \cup {next}])
    /\ UNCHANGED <<rows, published, asked, overlapped>>

SetProfile(r) ==
    LET d == ProfileDraft(r) IN
    /\ At(r, "set") /\ Granted(r)
    /\ IF d["employeeNumber"] \in Value /\ NumberTaken(r, d["employeeNumber"]) THEN Abort(r)
       ELSE Update(r, [tx[r] EXCEPT
              !.pc = "commit", !.changed = d,
              !.draft = [@ EXCEPT !["department"] = DepartmentDraft(r)]])
    /\ UNCHANGED <<rows, published, asked, overlapped>>

-----------------------------------------------------------------------------
Written(row, d) == [a \in DOMAIN d |-> IF d[a] = UNSET THEN row[a] ELSE d[a]]

(* Mutant of Changes: forgets that the manager is one. *)
ChangesOfFields(r) == {a \in Enterprise \ {"manager"} : tx[r].changed[a] # UNSET}

Changes(r) == {a \in Enterprise : tx[r].changed[a] # UNSET}

(* _successful_update_action reads the user in the session.                *)
UserAction(r) ==
    IF tx[r].ask.kind = "create" THEN "create"
    ELSE IF Written(tx[r].loaded, tx[r].draft)["active"] = "true" THEN "update"
    ELSE "deactivate"

Entry(r) == [number |-> tx[r].number, user |-> tx[r].target,
             user_action |-> UserAction(r), changes |-> Changes(r),
             result |-> "succeeded"]

Commit(r) ==
    LET u == tx[r].target IN
    /\ At(r, "commit") /\ Granted(r)
    /\ users' = [users EXCEPT ![u] = Written(@, tx[r].draft)]
    /\ profiles' = IF ~tx[r].creates /\ Changes(r) = {} THEN profiles
                   ELSE [profiles EXCEPT ![u] =
                           Written(IF tx[r].creates THEN NoProfile ELSE @, tx[r].changed)]
    /\ audit' = audit \cup {Entry(r)}
    /\ Goto(r, "publish")
    /\ UNCHANGED <<drawn, published, asked, overlapped>>

Events(r) ==
    (IF tx[r].ask.kind = "create" THEN {"UserProvisioned"} ELSE {})
      \cup (IF Changes(r) = {} THEN {}
            ELSE {IF tx[r].creates THEN "EnterpriseProfileCreated"
                  ELSE "EnterpriseProfileUpdated"})
      \cup Changes(r)

(* The refresh that follows can fail although all is done.                 *)
Publish(r) ==
    /\ At(r, "publish")
    /\ published' = published \cup {[number |-> tx[r].number, events |-> Events(r)]}
    /\ \E answer \in {"ok", "500"} : Update(r, [Idle EXCEPT !.response = answer])
    /\ UNCHANGED <<rows, asked, overlapped>>

Deny(r) ==
    /\ At(r, "deny") /\ Granted(r)
    /\ audit' = audit \cup {[number |-> tx[r].number, user |-> tx[r].blame,
                             user_action |-> tx[r].action, changes |-> {},
                             result |-> "denied"]}
    /\ Update(r, [Idle EXCEPT !.response = tx[r].response])
    /\ UNCHANGED <<users, profiles, drawn, published, asked, overlapped>>

(* A statement or the commit fails: what is not committed is rolled back.  *)
Fail(r) ==
    /\ Busy(r) /\ ~At(r, "publish")
    /\ Abort(r)
    /\ UNCHANGED <<rows, published, asked, overlapped>>

(* PostgreSQL breaks a cycle of waits by failing one of its statements.    *)
BreakDeadlock(r) ==
    /\ Deadlocked(r)
    /\ Abort(r)
    /\ UNCHANGED <<rows, published, asked, overlapped>>

Step(r) ==
    \/ Load(r) \/ CheckName(r) \/ WriteUser(r) \/ LoadProfile(r) \/ InsertProfile(r)
    \/ CheckNumber(r) \/ FindManager(r) \/ Walk(r) \/ SetProfile(r)
    \/ Commit(r) \/ Publish(r) \/ Deny(r) \/ BreakDeadlock(r)

Next == \E r \in Clients : Step(r) \/ Fail(r) \/ \E q \in Workload : Ask(r, q)

Spec == Init /\ [][Next]_vars
FairSpec == Spec /\ \A r \in Clients : WF_vars(Step(r))
-----------------------------------------------------------------------------
Drafts == [Columns -> Value \cup {UNSET}]
ProfileDrafts == {d \in [Enterprise -> Value \cup {None, UNSET}] :
                     d["manager"] \in Users \cup {None, UNSET}}

Sessions ==
    [pc : {"idle", "name", "load", "user", "profile", "insert", "number", "manager",
           "walk", "set", "commit", "publish", "deny"},
     ask : Workload \cup {None}, number : Nat, want : Mutation, target : Users \cup {None},
     loaded : UserRow \cup {None}, had : Profile \cup {None}, creates : BOOLEAN,
     draft : Drafts, changed : ProfileDrafts,
     cur : Users \cup {None}, seen : SUBSET Users,
     action : {"none", "failure", "enterprise_failure"},
     blame : Users \cup {None},
     response : {"none", "ok", "400", "404", "409", "500"}]

Entries ==
    [number : Nat, user : Users \cup {None},
     user_action : {"create", "update", "deactivate", "none", "failure",
                    "enterprise_failure"},
     changes : SUBSET Enterprise, result : {"succeeded", "denied"}]

(* The tables hold rows of their types and every session what it may hold. *)
TypeOK ==
    /\ users \in [Users -> UserRow \cup {None}]
    /\ profiles \in [Users -> Profile \cup {None}]
    /\ drawn \in SUBSET Users
    /\ \A e \in audit : e \in Entries
    /\ \A p \in published : p.number \in Nat
    /\ asked \in Nat
    /\ overlapped \in BOOLEAN
    /\ tx \in [Clients -> Sessions]

(***************************************************************************)
(* The promise of validate_manager: no user is their own manager, directly *)
(* or through others.  It holds as long as no two requests overlap: the    *)
(* walk reads rows another request may be about to change.  Stated without *)
(* paths: every group of users has a member managed from outside it.       *)
(***************************************************************************)
Acyclic == \A S \in SUBSET Users : S # {} => \E u \in S : ManagerOf(u) \notin S

ManagersAcyclic == ~overlapped => Acyclic

(***************************************************************************)
(* "employeeNumber is unique when present": exactly always, by the         *)
(* constraint of the table, and ignoring case, by the check of             *)
(* _ensure_employee_number_available, as long as no two requests overlap.  *)
(***************************************************************************)
Numbered == {u \in Users : profiles[u] # None /\ profiles[u]["employeeNumber"] # None}

NumbersUnique ==
    \A u, v \in Numbered :
        LET m == profiles[u]["employeeNumber"]
            n == profiles[v]["employeeNumber"]
        IN  u # v => m # n /\ (Lower[m] = Lower[n] => overlapped)

(***************************************************************************)
(* The department of the profile is the department of the user, which the  *)
(* policies read, as long as no two requests overlap.                      *)
(***************************************************************************)
DepartmentsAgree ==
    ~overlapped =>
        \A u \in Users :
            profiles[u] # None /\ profiles[u]["department"] # None
              => users[u]["department"] = profiles[u]["department"]

(***************************************************************************)
(* However requests overlap, an attribute of a profile changes only in the *)
(* commit of a request that audits a change of this attribute of this user *)
(* as having succeeded, and a user row only with an entry for that user.   *)
(***************************************************************************)
ChangesAreAudited ==
    [][\A u \in Users :
         /\ \A a \in Enterprise :
              LET was == IF profiles[u]  = None THEN None ELSE profiles[u][a]
                  is  == IF profiles'[u] = None THEN None ELSE profiles'[u][a]
              IN  was # is => \E e \in audit' \ audit :
                                 e.user = u /\ a \in e.changes /\ e.result = "succeeded"
         /\ users[u] # users'[u] =>
              \E e \in audit' \ audit : e.user = u /\ e.result = "succeeded"]_vars

(***************************************************************************)
(* Every request is answered: the walk up the managers ends even where     *)
(* overlapping requests have closed a cycle, and no cycle of row locks     *)
(* keeps requests waiting for each other.                                  *)
(***************************************************************************)
RequestsAreServed == \A r \in Clients : Busy(r) ~> ~Busy(r)
=============================================================================
