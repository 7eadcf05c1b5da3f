---------------------------- MODULE AccessControl ----------------------------
(***************************************************************************)
(* Granting and revoking access (app/main.py) under delegated              *)
(* administration (app/delegation).  As in CertificationCampaigns, a       *)
(* request is the sequence of its statements at READ COMMITTED: it loads   *)
(* users, looks for a delegation, looks for the assignment, decides,       *)
(* writes (waiting for rows that others have written), commits and         *)
(* publishes.  Delegations are assigned, removed and expire, users are     *)
(* (de)activated and access comes under review meanwhile.                  *)
(***************************************************************************)
EXTENDS AccessPolicy

CONSTANTS
    Clients,         \* concurrent request threads
    Workload,        \* the requests clients make
    InitialAccess,   \* [Pairs -> id of the assignment held at first, or 0]
    FirstAccessId,   \* the next id of the sequence
    Delegated,       \* delegations that exist at first, by id
    Temporary,       \* those of them with an expiry
    MaxDelegations,  \* delegation ids drawn (bound)
    MaxRequests,     \* requests made in all (bound)
    MaxChanges       \* expiries, (de)activations and reviews (bound)

Pairs == Users \X Entitlements

(* What the unique constraint on delegations covers, besides active. *)
KeysOf(delegates) == [delegate : delegates, scope : DelegationScopes,
                      role : DelegationRole]
Keys == KeysOf(Users)

DelegationIds == 1 .. MaxDelegations

ChangeAsks == [kind : {"grant", "revoke"}, actor : Users,
               target : Users \cup {None}, entitlement : Entitlements \cup {None}]
AssignAsks == [kind : {"assign"}, actor : Users, key : KeysOf(Users \cup {None}),
               expires : {"never", "later", "past"}]
RemoveAsks == [kind : {"remove"}, actor : Users, id : DelegationIds]

DelegationEvent == {"DelegationAssigned", "DelegationRemoved",
                    "DelegatedAccessGranted", "DelegatedAccessDenied"}

ASSUME AccessAssumption ==
    /\ Workload \subseteq ChangeAsks \cup AssignAsks \cup RemoveAsks
    /\ FirstAccessId \in Nat \ {0}
    /\ InitialAccess \in [Pairs -> 0 .. FirstAccessId - 1]
    /\ \A p, o \in Pairs :
          InitialAccess[p] = InitialAccess[o] => p = o \/ InitialAccess[p] = 0
    /\ MaxDelegations \in Nat /\ MaxRequests \in Nat /\ MaxChanges \in Nat
    /\ \E n \in 0 .. MaxDelegations : Delegated \in [1 .. n -> Keys]
    /\ None \notin DelegationIds
    /\ None \notin Keys \cup DelegationRole \cup DelegationEvent

VARIABLES
    active,                          \* users.active
    access,                          \* [Pairs -> id of the assignment, or 0]
    reviewed,                        \* assignments a review item refers to
    key, enabled, expiring,          \* delegation_assignments: the immutable
                                     \* columns, active, expires_at in future
    expired,                         \* expires_at in the past
    ended,                           \* history: the first request after a
                                     \* delegation was removed or expired, or 0
    nextAccess, nextDelegation,      \* id sequences
    audit,                           \* audit_events
    published,                       \* delegation events published
    asked, changes,
    pc, ask, number,                 \* control state, request and its number
    live, by, found, fresh,          \* what it loaded, and the id it drew
    event, response

delegations == <<key, enabled, expiring, expired, ended>>
rows == <<active, access, reviewed, delegations, audit>>
local == <<ask, number, live, by, found, fresh, event>>
vars == <<rows, nextAccess, nextDelegation, published, asked, changes, pc,
          local, response>>

-----------------------------------------------------------------------------
NoAsk == [kind |-> "none"]

Init ==
    /\ active = Users
    /\ access = InitialAccess
    /\ reviewed = {}
    /\ key = [i \in DelegationIds |->
                IF i \in DOMAIN Delegated THEN Delegated[i] ELSE None]
    /\ enabled = DOMAIN Delegated
    /\ expiring = Temporary \cap DOMAIN Delegated
    /\ expired = {}
    /\ ended = [i \in DelegationIds |-> 0]
    /\ nextAccess = FirstAccessId
    /\ nextDelegation \in {n \in 1 .. MaxDelegations + 1 :
                              DOMAIN Delegated = 1 .. n - 1}
    /\ audit = {} /\ published = {}
    /\ asked = 0 /\ changes = 0
    /\ pc = [r \in Clients |-> "idle"]
    /\ ask = [r \in Clients |-> NoAsk]
    /\ number = [r \in Clients |-> 0]
    /\ live = [r \in Clients |-> {}]
    /\ by = [r \in Clients |-> None]
    /\ found = [r \in Clients |-> 0]
    /\ fresh = [r \in Clients |-> 0]
    /\ event = [r \in Clients |-> None]
    /\ response = [r \in Clients |-> "none"]

-----------------------------------------------------------------------------
Present == {i \in DelegationIds : key[i] # None}

(* Mutant of Effective: the query does not filter by expires_at. *)
EffectiveOrExpired == Present \cap enabled

(* The active.is_(True) and expires_at filter of the delegation queries. *)
Effective == {i \in Present : i \in enabled /\ i \notin expired}

(* A delegation ends once: it is not enabled again, and time goes on.      *)
Ended(i) == [ended EXCEPT ![i] = IF @ = 0 THEN asked + 1 ELSE @]

CheckChange(q) ==
    IF q.target \notin Users \/ q.entitlement \notin Entitlements
      THEN "not_found" ELSE "ok"

(* require_roles, then the checks of assign_delegate in their order. *)
CheckAssign(q) ==
    IF ~IsGlobalAdmin(q.actor) THEN "forbidden"
    ELSE IF q.key.delegate \notin Users THEN "not_found"
    ELSE IF q.key.delegate \notin active THEN "conflict"
    ELSE IF q.expires = "past" THEN "bad_request"
    ELSE IF ~role_supports_scope(q.key.scope, q.key.role) THEN "bad_request"
    ELSE IF ~ScopeExists(q.key.scope) THEN "not_found"
    ELSE IF \E i \in Effective : key[i] = q.key THEN "conflict"
    ELSE "ok"

CheckRemove(q) ==
    IF ~IsGlobalAdmin(q.actor) THEN "forbidden"
    ELSE IF q.id \notin Present THEN "not_found"
    ELSE IF q.id \notin enabled THEN "conflict"
    ELSE "ok"

Check(q) ==
    IF q.kind = "assign" THEN CheckAssign(q)
    ELSE IF q.kind = "remove" THEN CheckRemove(q)
    ELSE CheckChange(q)

Ask(r) ==
    /\ pc[r] = "idle" /\ asked < MaxRequests
    /\ asked' = asked + 1

Refuse(r, q) ==
    /\ Ask(r)
    /\ Check(q) # "ok"
    /\ response' = [response EXCEPT ![r] = Check(q)]
    /\ UNCHANGED <<rows, nextAccess, nextDelegation, published, changes, pc, local>>

(* The reads and checks of a request, in one step: no property relates two *)
(* of them, and what they find may change before the request writes.       *)
Load(r, q) ==
    /\ Ask(r)
    /\ Check(q) = "ok"
    /\ ask' = [ask EXCEPT ![r] = q]
    /\ number' = [number EXCEPT ![r] = asked + 1]
    /\ live' = [live EXCEPT ![r] =
                  {who \in {"requester", "target"} :
                     IF who = "requester" THEN q.actor \in active
                     ELSE q \in ChangeAsks /\ q.target \in active}]
    /\ response' = [response EXCEPT ![r] = "none"]
    /\ pc' = [pc EXCEPT ![r] = IF q.kind \in {"grant", "revoke"}
                                 THEN "authorize" ELSE "write"]
    /\ UNCHANGED <<rows, nextAccess, nextDelegation, published, changes, by,
                   found, fresh, event>>

-----------------------------------------------------------------------------
(* An entry of audit_events: request is the correlation id of the request, *)
(* delegation the one its reason names; a grant's or a revocation's reason *)
(* is the policy's and names none.                                         *)
Row(r, action, result) ==
    [request |-> number[r], actor |-> ask[r].actor,
     target |-> ask[r].target, entitlement |-> ask[r].entitlement,
     action |-> action, result |-> result, delegation |-> None]

(* "Delegation assignment i permits this action". *)
AllowedRow(r, i) ==
    [Row(r, "delegated_action_allowed", "allowed") EXCEPT !.delegation = i]

(* The audit rows of a request that was decided: a delegated one has also  *)
(* recorded the delegation that permits it, in the same transaction.       *)
Rows(r, result) ==
    {Row(r, ask[r].kind, result)}
      \cup (IF by[r] = None THEN {} ELSE {AllowedRow(r, by[r])})

Outcome(r, delegatedEvent, answer) ==
    /\ event' = [event EXCEPT ![r] = delegatedEvent]
    /\ response' = [response EXCEPT ![r] = answer]
    /\ pc' = [pc EXCEPT ![r] = "publish"]

(* The handler returns; its thread takes the next request. *)
Return(r, answer) ==
    /\ pc' = [pc EXCEPT ![r] = "idle"]
    /\ response' = [response EXCEPT ![r] = answer]
    /\ ask' = [ask EXCEPT ![r] = NoAsk]
    /\ number' = [number EXCEPT ![r] = 0]
    /\ live' = [live EXCEPT ![r] = {}]
    /\ by' = [by EXCEPT ![r] = None]
    /\ found' = [found EXCEPT ![r] = 0]
    /\ fresh' = [fresh EXCEPT ![r] = 0]
    /\ event' = [event EXCEPT ![r] = None]

(* A request that answers an error rolls its session back. *)
Abort(r, answer) ==
    /\ Return(r, answer)
    /\ UNCHANGED <<rows, nextAccess, nextDelegation, published, asked, changes>>

Goto(r, step) ==
    /\ pc' = [pc EXCEPT ![r] = step]
    /\ UNCHANGED <<rows, published, asked, changes, response>>

(* authorize_access_action for a global administrator. *)
AuthorizeGlobally(r) ==
    /\ pc[r] = "authorize"
    /\ IsGlobalAdmin(ask[r].actor)
    /\ Goto(r, "decide")
    /\ UNCHANGED <<nextAccess, nextDelegation, local>>

Matching(q) ==
    {i \in Effective :
        /\ key[i].delegate = q.actor
        /\ key[i].role \in ACCESS_CHANGE_DELEGATION_ROLES
        /\ assignment_matches_entitlement(key[i].scope, q.entitlement)}

(* Mutant of AuthorizeDelegate: the allowed entry is committed on its own. *)
AuthorizeCommitting(r) ==
    /\ pc[r] = "authorize"
    /\ ~IsGlobalAdmin(ask[r].actor)
    /\ \E i \in Matching(ask[r]) :
          /\ \A j \in Matching(ask[r]) : i <= j
          /\ by' = [by EXCEPT ![r] = i]
          /\ audit' = audit \cup {AllowedRow(r, i)}
    /\ pc' = [pc EXCEPT ![r] = "decide"]
    /\ UNCHANGED <<active, access, reviewed, delegations, published, asked,
                   changes, response, nextAccess, nextDelegation, ask, number,
                   live, found, fresh, event>>

(* has_permission returns the first matching delegation in id order. *)
AuthorizeDelegate(r) ==
    /\ pc[r] = "authorize"
    /\ ~IsGlobalAdmin(ask[r].actor)
    /\ \E i \in Matching(ask[r]) :
          /\ \A j \in Matching(ask[r]) : i <= j
          /\ by' = [by EXCEPT ![r] = i]
    /\ Goto(r, "decide")
    /\ UNCHANGED <<nextAccess, nextDelegation, ask, number, live, found, fresh,
                   event>>

DenyUndelegated(r) ==
    /\ pc[r] = "authorize"
    /\ ~IsGlobalAdmin(ask[r].actor) /\ Matching(ask[r]) = {}
    /\ audit' = audit \cup {Row(r, "delegated_action_denied", "denied")}
    /\ Outcome(r, "DelegatedAccessDenied", "forbidden")
    /\ UNCHANGED <<active, access, reviewed, delegations, nextAccess,
                   nextDelegation, published, asked, changes, ask, number, live,
                   by, found, fresh>>

-----------------------------------------------------------------------------
Pair(q) == <<q.target, q.entitlement>>

RoleUsed(r) == IF by[r] = None THEN None ELSE key[by[r]].role

PolicyAllows(r) ==
    LET q == ask[r]
    IN  IF q.kind = "grant"
          THEN evaluate_grant_policy(q.actor, q.target, live[r], q.entitlement,
                                     RoleUsed(r))
          ELSE evaluate_revoke_policy(q.actor, live[r], q.entitlement, RoleUsed(r))

(* The assignment is looked up: a grant must not find one, a revocation must. *)
Denial(r) ==
    LET q == ask[r]
    IN  IF q.kind = "grant" /\ access[Pair(q)] # 0 THEN "conflict"
        ELSE IF q.kind = "revoke" /\ access[Pair(q)] = 0 THEN "not_found"
        ELSE IF ~PolicyAllows(r) THEN "forbidden"
        ELSE "none"

(* A denial is audited, and committed. *)
Deny(r) ==
    /\ pc[r] = "decide" /\ Denial(r) # "none"
    /\ audit' = audit \cup Rows(r, "denied")
    /\ Outcome(r, IF by[r] = None THEN None ELSE "DelegatedAccessDenied", Denial(r))
    /\ UNCHANGED <<active, access, reviewed, delegations, nextAccess,
                   nextDelegation, published, asked, changes, ask, number, live,
                   by, found, fresh>>

Allow(r) ==
    /\ pc[r] = "decide" /\ Denial(r) = "none"
    /\ found' = [found EXCEPT ![r] = access[Pair(ask[r])]]
    /\ Goto(r, "write")
    /\ UNCHANGED <<nextAccess, nextDelegation, ask, number, live, by, fresh, event>>

-----------------------------------------------------------------------------
(***************************************************************************)
(* A write waits for another transaction that has inserted, updated or     *)
(* deleted a row with the same key, or the same row, and not committed.    *)
(***************************************************************************)
GrantWaits(q, s) ==
    LET o == ask[s] IN
    /\ o.kind \in {"grant", "revoke"} /\ Pair(o) = Pair(q)
    /\ o.kind = "revoke" => found[s] = access[Pair(q)]

RevokeWaits(r, s) == ask[s].kind = "revoke" /\ found[s] = found[r]

AssignWaits(q, s) ==
    LET o == ask[s]
    IN  \/ o.kind = "assign" /\ o.key = q.key
        \/ o.kind = "remove" /\ o.id \in enabled /\ key[o.id] = q.key

RemoveWaits(q, s) == ask[s].kind = "remove" /\ ask[s].id = q.id

Waits(r, s) ==
    LET q == ask[r]
    IN  CASE q.kind = "grant"  -> GrantWaits(q, s)
          [] q.kind = "revoke" -> RevokeWaits(r, s)
          [] q.kind = "assign" -> AssignWaits(q, s)
          [] OTHER             -> RemoveWaits(q, s)

Writing(s) == pc[s] = "commit"

Blocked(r) == \E s \in Clients \ {r} : Writing(s) /\ Waits(r, s)

Write(r, kind) == pc[r] = "write" /\ ask[r].kind = kind /\ ~Blocked(r)

(* Mutant of Granted: no unique constraint on user and entitlement. *)
GrantedUnchecked(r) == FALSE

Granted(r) == access[Pair(ask[r])] # 0

WriteGrant(r) ==
    /\ Write(r, "grant")
    /\ IF Granted(r) THEN Abort(r, "error")
       ELSE /\ Goto(r, "commit")
            /\ fresh' = [fresh EXCEPT ![r] = nextAccess]
            /\ nextAccess' = nextAccess + 1
            /\ UNCHANGED <<nextDelegation, ask, number, live, by, found, event>>

(* The DELETE names the id that was loaded; a row that is gone is no error, *)
(* a review item that refers to it is.                                     *)
WriteRevoke(r) ==
    /\ Write(r, "revoke")
    /\ IF found[r] \in reviewed THEN Abort(r, "error")
       ELSE Goto(r, "commit") /\ UNCHANGED <<nextAccess, nextDelegation, local>>

(* uq_delegation_assignments_active_scope_role covers the active column:   *)
(* one active row of a key, expired or not, and one inactive one.          *)
WriteAssign(r) ==
    /\ Write(r, "assign")
    /\ nextDelegation \in DelegationIds
    /\ IF \E i \in enabled : key[i] = ask[r].key THEN Abort(r, "error")
       ELSE IF ~Auditable(ask[r].key.scope) THEN Abort(r, "not_found")
       ELSE /\ Goto(r, "commit")
            /\ fresh' = [fresh EXCEPT ![r] = nextDelegation]
            /\ nextDelegation' = nextDelegation + 1
            /\ UNCHANGED <<nextAccess, ask, number, live, by, found, event>>

WriteRemove(r) ==
    /\ Write(r, "remove")
    /\ IF \E i \in Present \ (enabled \cup {ask[r].id}) : key[i] = key[ask[r].id]
         THEN Abort(r, "error")
         ELSE Goto(r, "commit") /\ UNCHANGED <<nextAccess, nextDelegation, local>>

-----------------------------------------------------------------------------
Commit(r, kind) == pc[r] = "commit" /\ ask[r].kind = kind

(* Mutants of GrantedEvent: also for administrators' requests, and with    *)
(* the name of the audit action.                                           *)
GrantedEventAlways(r) == "DelegatedAccessGranted"
GrantedEventByAction(r) == IF by[r] = None THEN None ELSE "delegated_action_allowed"

GrantedEvent(r) == IF by[r] = None THEN None ELSE "DelegatedAccessGranted"

CommitGrant(r) ==
    /\ Commit(r, "grant")
    /\ access' = [access EXCEPT ![Pair(ask[r])] = fresh[r]]
    /\ audit' = audit \cup Rows(r, "succeeded")
    /\ Outcome(r, GrantedEvent(r), "ok")
    /\ UNCHANGED <<active, reviewed, delegations, nextAccess, nextDelegation,
                   published, asked, changes, ask, number, live, by, found, fresh>>

(* Mutant of Remaining: only administrators' requests delete the row. *)
RemainingDelegated(r, id) == IF id = found[r] /\ by[r] = None THEN 0 ELSE id

Remaining(r, id) == IF id = found[r] THEN 0 ELSE id

CommitRevoke(r) ==
    /\ Commit(r, "revoke")
    /\ access' = [access EXCEPT ![Pair(ask[r])] = Remaining(r, @)]
    /\ audit' = audit \cup Rows(r, "succeeded")
    /\ Outcome(r, GrantedEvent(r), "ok")
    /\ UNCHANGED <<active, reviewed, delegations, nextAccess, nextDelegation,
                   published, asked, changes, ask, number, live, by, found, fresh>>

(* A change of the delegations is audited with the delegate as the target. *)
DelegationRow(r, action, id, delegate) ==
    [request |-> number[r], actor |-> ask[r].actor, target |-> delegate,
     entitlement |-> None, action |-> action, result |-> "succeeded",
     delegation |-> id]

CommitAssign(r) ==
    LET q == ask[r]
        i == fresh[r]
    IN
    /\ Commit(r, "assign")
    /\ key' = [key EXCEPT ![i] = q.key]
    /\ enabled' = enabled \cup {i}
    /\ expiring' = IF q.expires = "later" THEN expiring \cup {i} ELSE expiring
    /\ audit' = audit \cup
          {DelegationRow(r, "delegation_assigned", i, q.key.delegate)}
    /\ Outcome(r, "DelegationAssigned", "ok")
    /\ UNCHANGED <<active, access, reviewed, expired, ended, nextAccess,
                   nextDelegation, published, asked, changes, ask, number, live,
                   by, found, fresh>>

CommitRemove(r) ==
    LET i == ask[r].id IN
    /\ Commit(r, "remove")
    /\ enabled' = enabled \ {i}
    /\ ended' = Ended(i)
    /\ audit' = audit \cup
          {DelegationRow(r, "delegation_removed", i, key[i].delegate)}
    /\ Outcome(r, "DelegationRemoved", "ok")
    /\ UNCHANGED <<active, access, reviewed, key, expiring, expired, nextAccess,
                   nextDelegation, published, asked, changes, ask, number, live,
                   by, found, fresh>>

(* publish_pending_events; a grant then reads its assignment back. *)
Publish(r) ==
    /\ pc[r] = "publish"
    /\ published' = IF event[r] = None THEN published
                    ELSE published \cup {[request |-> number[r], type |-> event[r]]}
    /\ IF ask[r].kind = "grant" /\ response[r] = "ok"
         THEN pc' = [pc EXCEPT ![r] = "reread"] /\ UNCHANGED <<local, response>>
         ELSE Return(r, response[r])
    /\ UNCHANGED <<rows, nextAccess, nextDelegation, asked, changes>>

Reread(r) ==
    /\ pc[r] = "reread"
    /\ Return(r, IF access[Pair(ask[r])] = fresh[r] THEN "ok" ELSE "not_found")
    /\ UNCHANGED <<rows, nextAccess, nextDelegation, published, asked, changes>>

-----------------------------------------------------------------------------
Change ==
    /\ changes < MaxChanges
    /\ changes' = changes + 1
    /\ UNCHANGED <<nextAccess, nextDelegation, audit, published, asked, pc, local,
                   response>>

(* Time passes the expires_at of a delegation. *)
Expire(i) ==
    /\ Change
    /\ i \in expiring
    /\ expiring' = expiring \ {i} /\ expired' = expired \cup {i}
    /\ ended' = Ended(i)
    /\ UNCHANGED <<active, access, reviewed, key, enabled>>

(* SCIM deactivates a user, or activates it again. *)
SetActive(u) ==
    /\ Change
    /\ active' = IF u \in active THEN active \ {u} ELSE active \cup {u}
    /\ UNCHANGED <<access, reviewed, delegations>>

(* A campaign is started: every assignment gets a review item.  It waits   *)
(* for assignments that are being deleted.                                 *)
Review ==
    /\ Change
    /\ \A r \in Clients : Writing(r) => ask[r].kind # "revoke"
    /\ reviewed' = reviewed \cup {access[p] : p \in {p \in Pairs : access[p] # 0}}
    /\ UNCHANGED <<active, access, delegations>>

Step(r) ==
    \/ AuthorizeGlobally(r) \/ AuthorizeDelegate(r) \/ DenyUndelegated(r)
    \/ Deny(r) \/ Allow(r)
    \/ WriteGrant(r) \/ WriteRevoke(r) \/ WriteAssign(r) \/ WriteRemove(r)
    \/ CommitGrant(r) \/ CommitRevoke(r) \/ CommitAssign(r) \/ CommitRemove(r)
    \/ Publish(r) \/ Reread(r)

Next ==
    \/ \E r \in Clients : Step(r) \/ \E q \in Workload : Refuse(r, q) \/ Load(r, q)
    \/ \E i \in DelegationIds : Expire(i)
    \/ \E u \in Users : SetActive(u)
    \/ Review

Spec == Init /\ [][Next]_vars

(* A handler thread that was started keeps running until it answers. *)
FairSpec == Spec /\ \A r \in Clients : WF_vars(Step(r))
-----------------------------------------------------------------------------
AccessActions == {"grant", "revoke"}

AuditRow ==
    [request : 1 .. MaxRequests, actor : Users, target : Users,
     entitlement : Entitlements \cup {None},
     action : AccessActions \cup {"delegated_action_allowed",
                 "delegated_action_denied", "delegation_assigned",
                 "delegation_removed"},
     result : {"succeeded", "denied", "allowed"},
     delegation : DelegationIds \cup {None}]

Answers == {"none", "ok", "not_found", "conflict", "forbidden", "bad_request",
            "error"}

(* The types of all variables; ids of rows have been drawn from a sequence. *)
TypeOK ==
    /\ active \subseteq Users
    /\ nextAccess \in Nat \ {0}
    /\ access \in [Pairs -> 0 .. nextAccess - 1]
    /\ reviewed \subseteq 1 .. nextAccess - 1
    /\ key \in [DelegationIds -> Keys \cup {None}]
    /\ enabled \subseteq DelegationIds
    /\ expiring \subseteq DelegationIds /\ expired \subseteq DelegationIds
    /\ ended \in [DelegationIds -> 0 .. MaxRequests + 1]
    /\ nextDelegation \in 1 .. MaxDelegations + 1
    /\ audit \subseteq AuditRow
    /\ published \subseteq [request : 1 .. MaxRequests, type : DelegationEvent]
    /\ asked \in 0 .. MaxRequests /\ changes \in 0 .. MaxChanges
    /\ pc \in [Clients -> {"idle", "authorize", "decide", "write", "commit",
                           "publish", "reread"}]
    /\ ask \in [Clients -> Workload \cup {NoAsk}]
    /\ number \in [Clients -> 0 .. MaxRequests]
    /\ live \in [Clients -> SUBSET {"requester", "target"}]
    /\ by \in [Clients -> DelegationIds \cup {None}]
    /\ found \in [Clients -> 0 .. nextAccess - 1]
    /\ fresh \in [Clients -> Nat]
    /\ event \in [Clients -> DelegationEvent \cup {None}]
    /\ response \in [Clients -> Answers]

EntriesOf(n, actions) == {a \in audit : a.request = n /\ a.action \in actions}

(* The delegation was in force when request n was made. *)
InForce(i, n) == ended[i] = 0 \/ n < ended[i]

(* The delegation i lets a request make the change that entry a records. *)
Permits(i, a) ==
    /\ key[i].delegate = a.actor
    /\ key[i].scope \in {<<"APPLICATION", ApplicationOf[a.entitlement]>>,
                         <<"ENTITLEMENT", a.entitlement>>}
    /\ key[i].role \in IF a.entitlement \in Administrator
                          THEN DELEGATED_ADMIN_POLICY_ROLES
                          ELSE ACCESS_CHANGE_DELEGATION_ROLES

(***************************************************************************)
(* Every grant and revocation that succeeded can be justified from the     *)
(* audit log and the delegations, long after the delegation was removed:   *)
(* a global administrator made it, or a delegate whose authorisation is on *)
(* record for the same request and names a delegation that covers the      *)
(* entitlement and had neither been removed nor expired when the request   *)
(* was made; administrator entitlements need an owner's or administrator's *)
(* delegation, finance entitlements a finance user.                        *)
(***************************************************************************)
Justified(a) ==
    /\ \/ IsGlobalAdmin(a.actor)
       \/ \E b \in EntriesOf(a.request, {"delegated_action_allowed"}) :
             Permits(b.delegation, a) /\ InForce(b.delegation, a.request)
    /\ a.action = "grant" /\ ApplicationOf[a.entitlement] \in FinancePortal =>
          a.target \in Finance

ChangesAreJustified ==
    \A a \in audit :
        a.action \in AccessActions /\ a.result = "succeeded" => Justified(a)

(***************************************************************************)
(* A delegate's authorisation and what came of it are on record together:  *)
(* a request with a delegated_action_allowed entry has one grant or revoke *)
(* entry, for the same user and entitlement, and a grant or revoke entry   *)
(* of anyone but a global administrator has its authorisation.             *)
(***************************************************************************)
ByDelegate(a) == ~IsGlobalAdmin(a.actor)

AuthorisationsHaveOutcomes ==
    \A n \in 1 .. MaxRequests :
        LET allowed  == EntriesOf(n, {"delegated_action_allowed"})
            outcomes == {a \in EntriesOf(n, AccessActions) : ByDelegate(a)}
        IN  /\ Cardinality(allowed) = Cardinality(outcomes)
            /\ \A a \in allowed, b \in outcomes :
                  /\ a.actor = b.actor /\ a.target = b.target
                  /\ a.entitlement = b.entitlement

(***************************************************************************)
(* The audit log accounts for all access: whatever was held at first or    *)
(* granted on record is held or was revoked on record, and nothing else is *)
(* held.                                                                   *)
(***************************************************************************)
OnRecord(p, action) ==
    Cardinality({a \in audit : /\ <<a.target, a.entitlement>> = p
                               /\ a.action = action /\ a.result = "succeeded"})

AuditAccountsForAccess ==
    \A p \in Pairs :
        LET one(id) == IF id = 0 THEN 0 ELSE 1
            gained  == one(InitialAccess[p]) + OnRecord(p, "grant")
        IN  /\ gained <= one(access[p]) + OnRecord(p, "revoke")
            /\ one(access[p]) <= gained

(***************************************************************************)
(* A revocation about to be answered with "revoked" removed the assignment *)
(* it found, whatever grants, revocations and reviews ran meanwhile.       *)
(***************************************************************************)
RevokedIsGone ==
    \A r \in Clients :
        pc[r] = "publish" /\ ask[r].kind = "revoke" /\ response[r] = "ok"
            => \A p \in Pairs : access[p] # found[r]

(***************************************************************************)
(* Delegation events tell what the audit log tells: none is published for  *)
(* a request without an audit entry, and when no request is running the    *)
(* two agree: changes of the delegations are announced, and what delegates *)
(* did or were denied.                                                     *)
(***************************************************************************)
EventOf(a) ==
    IF a.action = "delegation_assigned" THEN "DelegationAssigned"
    ELSE IF a.action = "delegation_removed" THEN "DelegationRemoved"
    ELSE IF a.result = "succeeded" THEN "DelegatedAccessGranted"
    ELSE "DelegatedAccessDenied"

Announces(a) ==
    \/ a.action \in {"delegation_assigned", "delegation_removed"}
    \/ a.action # "delegated_action_allowed" /\ ByDelegate(a)

Announced ==
    {[request |-> a.request, type |-> EventOf(a)] :
        a \in {a \in audit : Announces(a)}}

EventsFollowAudit ==
    /\ published \subseteq Announced
    /\ (\A r \in Clients : pc[r] = "idle") => published = Announced

(***************************************************************************)
(* The audit log is complete: it accounts for all access, every use of a   *)
(* delegation has its outcome, and the events published are those of its   *)
(* entries.                                                                *)
(***************************************************************************)
AuditIsComplete ==
    AuditAccountsForAccess /\ AuthorisationsHaveOutcomes /\ EventsFollowAudit

(***************************************************************************)
(* docs/delegation.md: "The uniqueness rule prevents duplicate active      *)
(* assignments": it never stands in the way of a removal.                  *)
(***************************************************************************)
RemovalSucceeds ==
    [][\A r \in Clients :
          pc[r] = "write" /\ ask[r].kind = "remove" => response'[r] # "error"]_vars
=============================================================================
