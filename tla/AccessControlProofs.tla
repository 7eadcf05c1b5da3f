------------------------- MODULE AccessControlProofs -------------------------
(***************************************************************************)
(* Proofs about AccessControl: types, the justification of every change of *)
(* access, the effect of a revocation, and the completeness of the audit   *)
(* log.                                                                    *)
(***************************************************************************)
EXTENDS AccessControl, FiniteSetTheorems, TLAPS

Running(r) == pc[r] # "idle"
Changes(r) == Running(r) /\ ask[r].kind \in AccessActions

Granting(r) == pc[r] = "commit" /\ ask[r].kind = "grant"
Assigning(r) == pc[r] = "commit" /\ ask[r].kind = "assign"
Revoking(r) == pc[r] \in {"write", "commit"} /\ ask[r].kind = "revoke"
Revoked(r) == pc[r] = "publish" /\ ask[r].kind = "revoke" /\ response[r] = "ok"

(* What the checks of a request leave behind while it runs. *)
Control(r) ==
    /\ ~Running(r) \/ pc[r] = "authorize" => by[r] = None
    /\ pc[r] \in {"authorize", "decide"} => ask[r].kind \in AccessActions
    /\ Running(r) => ask[r] \in Workload /\ number[r] \in 1 .. MaxRequests
    /\ Changes(r) => ask[r].target \in Users /\ ask[r].entitlement \in Entitlements
    /\ Running(r) /\ ask[r].kind = "assign" => ask[r].key \in Keys
    /\ Running(r) /\ ask[r].kind = "remove" =>
          ask[r].id \in DelegationIds /\ key[ask[r].id] \in Keys
    /\ Assigning(r) => fresh[r] \in DelegationIds
    /\ Granting(r) => fresh[r] \in 1 .. nextAccess - 1

ControlInv == \A r \in Clients : Control(r)

(* An id that was drawn for a delegation is used by one request, once. *)
KeyInv ==
    /\ \A i \in DelegationIds : key[i] # None => i < nextDelegation
    /\ \A r \in Clients : Assigning(r) =>
          fresh[r] < nextDelegation /\ key[fresh[r]] = None
    /\ \A r, s \in Clients :
          Assigning(r) /\ Assigning(s) /\ fresh[r] = fresh[s] => r = s

(* The delegation i lets user u change entitlement e. *)
Covers(i, u, e) ==
    /\ i \in DelegationIds /\ key[i] \in Keys
    /\ key[i].delegate = u
    /\ key[i].scope \in {<<"APPLICATION", ApplicationOf[e]>>, <<"ENTITLEMENT", e>>}
    /\ key[i].role \in ACCESS_CHANGE_DELEGATION_ROLES

(* A delegation that has ended was assigned, and never authorises again.   *)
EndInv ==
    /\ \A i \in expiring : key[i] # None
    /\ \A i \in DelegationIds : ended[i] # 0 => key[i] # None /\ i \notin Effective

(* A request past its authorisation has an authority, which was in force   *)
(* when the request was made, and one past its decision obeys the policy.  *)
Authority(r) ==
    Changes(r) /\ pc[r] \in {"decide", "write", "commit"} =>
        IF by[r] = None THEN IsGlobalAdmin(ask[r].actor)
        ELSE /\ ~IsGlobalAdmin(ask[r].actor)
             /\ Covers(by[r], ask[r].actor, ask[r].entitlement)
             /\ InForce(by[r], number[r])

Permitted(r) ==
    Changes(r) /\ pc[r] \in {"write", "commit"} =>
        /\ by[r] # None /\ ask[r].entitlement \in Administrator =>
              key[by[r]].role \in DELEGATED_ADMIN_POLICY_ROLES
        /\ ask[r].kind = "grant" /\ ApplicationOf[ask[r].entitlement] \in FinancePortal =>
              ask[r].target \in Finance

(* The entry b is the authorisation of the change that a records. *)
Authorises(b, a) ==
    /\ b.request = a.request /\ b.action = "delegated_action_allowed"
    /\ b.delegation \in DelegationIds /\ key[b.delegation] # None
    /\ Permits(b.delegation, a) /\ InForce(b.delegation, a.request)

Recorded(a) ==
    a.action \in AccessActions /\ a.result = "succeeded" =>
        /\ IsGlobalAdmin(a.actor) \/ \E b \in audit : Authorises(b, a)
        /\ a.action = "grant" /\ ApplicationOf[a.entitlement] \in FinancePortal =>
              a.target \in Finance

AuthorityInv ==
    /\ \A r \in Clients : Authority(r) /\ Permitted(r)
    /\ \A a \in audit : Recorded(a)

(* Assignment ids are unique, and no request has met one that another is   *)
(* about to insert.                                                        *)
IdInv ==
    /\ \A p, o \in Pairs : access[p] = access[o] => p = o \/ access[p] = 0
    /\ \A r \in Clients : Granting(r) =>
          /\ \A p \in Pairs : access[p] # fresh[r]
          /\ \A s \in Clients : found[s] # fresh[r]
          /\ \A s \in Clients : Granting(s) /\ fresh[r] = fresh[s] => r = s
    /\ \A r \in Clients : Revoking(r) =>
          /\ found[r] # 0
          /\ \A p \in Pairs : p # Pair(ask[r]) => access[p] # found[r]
    /\ \A r \in Clients : Revoked(r) =>
          found[r] # 0 /\ \A p \in Pairs : access[p] # found[r]

LEMMA AskTypes ==
    ASSUME AccessAssumption, NEW q \in Workload
    PROVE  /\ q.actor \in Users
           /\ q.kind \in AccessActions \cup {"assign", "remove"}
           /\ q.kind \in AccessActions =>
                 /\ q \in ChangeAsks
                 /\ q.target \in Users \cup {None}
                 /\ q.entitlement \in Entitlements \cup {None}
           /\ q.kind = "assign" =>
                 q \in AssignAsks /\ q.key \in KeysOf(Users \cup {None})
           /\ q.kind = "remove" => q \in RemoveAsks /\ q.id \in DelegationIds
BY DEF AccessAssumption, ChangeAsks, AssignAsks, RemoveAsks, AccessActions

LEMMA CheckAnswers ==
    ASSUME NEW q PROVE Check(q) \in Answers
BY DEF Check, CheckAssign, CheckRemove, CheckChange, Answers

LEMMA CheckedAsks ==
    ASSUME AccessAssumption, TypeOK, NEW q \in Workload, Check(q) = "ok"
    PROVE  /\ q.kind \in AccessActions =>
                 q.target \in Users /\ q.entitlement \in Entitlements
           /\ q.kind = "assign" => q.key \in Keys
           /\ q.kind = "remove" => q.id \in DelegationIds /\ key[q.id] \in Keys
<1>1. CASE q.kind \in AccessActions
  BY <1>1, AskTypes DEF Check, CheckChange, AccessActions
<1>2. CASE q.kind = "assign"
  <2>1. q.key.delegate \in Users
    BY <1>2 DEF Check, CheckAssign
  <2>2. QED
    BY <1>2, <2>1, AskTypes DEF KeysOf, Keys, AccessActions
<1>3. CASE q.kind = "remove"
  <2>1. q.id \in Present
    BY <1>3 DEF Check, CheckRemove
  <2>2. QED
    BY <1>3, <2>1, AskTypes DEF Present, TypeOK, AccessActions
<1>4. QED
  BY <1>1, <1>2, <1>3

LEMMA InitTypes == AccessAssumption /\ Init => TypeOK /\ ControlInv
<1>. SUFFICES ASSUME AccessAssumption, Init PROVE TypeOK /\ ControlInv
  OBVIOUS
<1>1. PICK n \in 0 .. MaxDelegations : Delegated \in [1 .. n -> Keys]
  BY DEF AccessAssumption
<1>2. DOMAIN Delegated = 1 .. n /\ 1 .. n \subseteq DelegationIds
  BY <1>1 DEF AccessAssumption, DelegationIds
<1>3. key \in [DelegationIds -> Keys \cup {None}]
  BY <1>1, <1>2 DEF Init
<1>4. TypeOK
  BY <1>2, <1>3 DEF Init, TypeOK, AccessAssumption, Answers, NoAsk
<1>5. ControlInv
  BY DEF Init, ControlInv, Control, Running, Changes, Assigning, Granting
<1>. QED
  BY <1>4, <1>5

LEMMA RowTypes ==
    ASSUME AccessAssumption, TypeOK, ControlInv, NEW r \in Clients, Changes(r),
           NEW action, NEW result \in {"succeeded", "denied", "allowed"},
           action \in AccessActions \cup {"delegated_action_allowed",
                                         "delegated_action_denied"}
    PROVE  Row(r, action, result) \in AuditRow
<1>1. ask[r].actor \in Users
  BY AskTypes DEF ControlInv, Control, Changes
<1>. QED
  BY <1>1 DEF ControlInv, Control, Changes, Row, AuditRow

LEMMA AllowedRowFields ==
    ASSUME NEW r \in Clients, NEW i
    PROVE  /\ AllowedRow(r, i) =
                [request |-> number[r], actor |-> ask[r].actor,
                 target |-> ask[r].target, entitlement |-> ask[r].entitlement,
                 action |-> "delegated_action_allowed", result |-> "allowed",
                 delegation |-> i]
           /\ AllowedRow(r, i).request = number[r]
           /\ AllowedRow(r, i).action = "delegated_action_allowed"
           /\ AllowedRow(r, i).result = "allowed"
           /\ AllowedRow(r, i).delegation = i
BY DEF AllowedRow, Row

LEMMA AllowedRowTypes ==
    ASSUME AccessAssumption, TypeOK, ControlInv, NEW r \in Clients, Changes(r),
           by[r] # None
    PROVE  AllowedRow(r, by[r]) \in AuditRow
<1>1. ask[r].actor \in Users
  BY AskTypes DEF ControlInv, Control, Changes
<1>2. by[r] \in DelegationIds
  BY DEF TypeOK
<1>. QED
  BY <1>1, <1>2, AllowedRowFields DEF ControlInv, Control, Changes, AuditRow

LEMMA RowsTypes ==
    ASSUME AccessAssumption, TypeOK, ControlInv, NEW r \in Clients, Changes(r),
           NEW result \in {"succeeded", "denied", "allowed"}
    PROVE  Rows(r, result) \subseteq AuditRow
<1>1. by[r] # None => AllowedRow(r, by[r]) \in AuditRow
  BY AllowedRowTypes
<1>2. Row(r, ask[r].kind, result) \in AuditRow
  BY RowTypes DEF Changes
<1>. QED
  BY <1>1, <1>2 DEF Rows

LEMMA DelegationRowTypes ==
    ASSUME AccessAssumption, TypeOK, ControlInv, NEW r \in Clients, Running(r),
           NEW action \in {"delegation_assigned", "delegation_removed"},
           NEW i \in DelegationIds, NEW u \in Users
    PROVE  DelegationRow(r, action, i, u) \in AuditRow
BY AskTypes DEF ControlInv, Control, DelegationRow, AuditRow

LEMMA EndedTypes ==
    ASSUME AccessAssumption, TypeOK, NEW i \in DelegationIds
    PROVE  Ended(i) \in [DelegationIds -> 0 .. MaxRequests + 1]
<1>1. asked + 1 \in 0 .. MaxRequests + 1
  BY DEF TypeOK, AccessAssumption
<1>. QED
  BY <1>1 DEF Ended, TypeOK

(* What a handler that returns leaves of its request.                      *)
LEMMA ReturnTypes ==
    ASSUME TypeOK, NEW r \in Clients, NEW answer \in Answers, Return(r, answer)
    PROVE  /\ pc' \in [Clients -> {"idle", "authorize", "decide", "write", "commit",
                                  "publish", "reread"}]
           /\ ask' \in [Clients -> Workload \cup {NoAsk}]
           /\ number' \in [Clients -> 0 .. MaxRequests]
           /\ live' \in [Clients -> SUBSET {"requester", "target"}]
           /\ by' \in [Clients -> DelegationIds \cup {None}]
           /\ found' \in [Clients -> 0 .. nextAccess - 1]
           /\ fresh' \in [Clients -> Nat]
           /\ event' \in [Clients -> DelegationEvent \cup {None}]
           /\ response' \in [Clients -> Answers]
<1>1. pc' \in [Clients -> {"idle", "authorize", "decide", "write", "commit",
                          "publish", "reread"}]
  BY DEF Return, TypeOK
<1>2. ask' \in [Clients -> Workload \cup {NoAsk}]
  BY DEF Return, TypeOK
<1>3. number' \in [Clients -> 0 .. MaxRequests]
  <2>1. 0 \in 0 .. MaxRequests
    BY AccessAssumption DEF AccessAssumption
  <2>. QED
    BY <2>1 DEF Return, TypeOK
<1>4. live' \in [Clients -> SUBSET {"requester", "target"}]
  BY DEF Return, TypeOK
<1>5. by' \in [Clients -> DelegationIds \cup {None}]
  BY DEF Return, TypeOK
<1>6. found' \in [Clients -> 0 .. nextAccess - 1]
  <2>1. 0 \in 0 .. nextAccess - 1
    BY DEF TypeOK
  <2>. QED
    BY <2>1 DEF Return, TypeOK
<1>7. fresh' \in [Clients -> Nat]
  BY DEF Return, TypeOK
<1>8. event' \in [Clients -> DelegationEvent \cup {None}]
  BY DEF Return, TypeOK
<1>9. response' \in [Clients -> Answers]
  BY DEF Return, TypeOK
<1>. QED
  BY <1>1, <1>2, <1>3, <1>4, <1>5, <1>6, <1>7, <1>8, <1>9

LEMMA TypesStep ==
    ASSUME PolicyAssumption, AccessAssumption, TypeOK, ControlInv, [Next]_vars
    PROVE  TypeOK'
<1>. USE AccessAssumption DEF rows, local, delegations
<1>1. ASSUME NEW r \in Clients, NEW q \in Workload, Refuse(r, q)
      PROVE  TypeOK'
  BY <1>1, CheckAnswers DEF Refuse, Ask, TypeOK
<1>2. ASSUME NEW r \in Clients, NEW q \in Workload, Load(r, q)
      PROVE  TypeOK'
  <2>1. asked' \in 0 .. MaxRequests /\ asked + 1 \in 0 .. MaxRequests
    BY <1>2 DEF Load, Ask, TypeOK
  <2>2. ask' \in [Clients -> Workload \cup {NoAsk}]
    BY <1>2 DEF Load, TypeOK
  <2>3. number' \in [Clients -> 0 .. MaxRequests]
    BY <1>2, <2>1 DEF Load, TypeOK
  <2>4. live' \in [Clients -> SUBSET {"requester", "target"}]
    BY <1>2 DEF Load, TypeOK
  <2>5. response' \in [Clients -> Answers]
    BY <1>2 DEF Load, TypeOK, Answers
  <2>6. pc' \in [Clients -> {"idle", "authorize", "decide", "write", "commit",
                            "publish", "reread"}]
    BY <1>2 DEF Load, TypeOK
  <2>7. UNCHANGED <<rows, nextAccess, nextDelegation, published, changes, by, found,
                    fresh, event>>
    BY <1>2 DEF Load
  <2>. QED
    BY <2>1, <2>2, <2>3, <2>4, <2>5, <2>6, <2>7 DEF TypeOK
<1>3. ASSUME NEW r \in Clients, AuthorizeGlobally(r)
      PROVE  TypeOK'
  BY <1>3 DEF AuthorizeGlobally, Goto, TypeOK
<1>4. ASSUME NEW r \in Clients, AuthorizeDelegate(r)
      PROVE  TypeOK'
  <2>1. PICK i \in DelegationIds : by' = [by EXCEPT ![r] = i]
    BY <1>4 DEF AuthorizeDelegate, Matching, Effective, Present, TypeOK
  <2>2. by' \in [Clients -> DelegationIds \cup {None}]
    BY <2>1 DEF TypeOK
  <2>3. /\ pc' = [pc EXCEPT ![r] = "decide"]
        /\ UNCHANGED <<rows, published, asked, changes, response, nextAccess,
                       nextDelegation, ask, number, live, found, fresh, event>>
    BY <1>4 DEF AuthorizeDelegate, Goto
  <2>. QED
    BY <2>2, <2>3 DEF TypeOK
<1>5. ASSUME NEW r \in Clients, DenyUndelegated(r)
      PROVE  TypeOK'
  <2>1. Changes(r)
    BY <1>5 DEF DenyUndelegated, ControlInv, Control, Changes, Running
  <2>2. Row(r, "delegated_action_denied", "denied") \in AuditRow
    BY <2>1, RowTypes
  <2>3. audit' \subseteq AuditRow
    BY <1>5, <2>2 DEF DenyUndelegated, TypeOK
  <2>. QED
    BY <1>5, <2>3 DEF DenyUndelegated, Outcome, TypeOK, DelegationEvent, Answers
<1>6. ASSUME NEW r \in Clients, Deny(r)
      PROVE  TypeOK'
  <2>1. Changes(r)
    BY <1>6 DEF Deny, ControlInv, Control, Changes, Running
  <2>2. audit' \subseteq AuditRow
    BY <1>6, <2>1, RowsTypes DEF Deny, TypeOK
  <2>3. Denial(r) \in Answers
    BY DEF Denial, Answers
  <2>. QED
    BY <1>6, <2>2, <2>3 DEF Deny, Outcome, TypeOK, DelegationEvent
<1>7. ASSUME NEW r \in Clients, Allow(r)
      PROVE  TypeOK'
  <2>1. Pair(ask[r]) \in Pairs
    BY <1>7 DEF Allow, ControlInv, Control, Changes, Running, Pair, Pairs
  <2>. QED
    BY <1>7, <2>1 DEF Allow, Goto, TypeOK
<1>8. ASSUME NEW r \in Clients, NEW answer \in Answers, Abort(r, answer)
      PROVE  TypeOK'
  <2>1. Return(r, answer) /\ UNCHANGED <<rows, nextAccess, nextDelegation, published,
                                        asked, changes>>
    BY <1>8 DEF Abort
  <2>. QED
    BY <2>1, ReturnTypes DEF TypeOK
<1>9. ASSUME NEW r \in Clients, WriteGrant(r)
      PROVE  TypeOK'
  <2>1. CASE Granted(r)
    BY <1>8, <1>9, <2>1 DEF WriteGrant, Answers
  <2>2. CASE ~Granted(r)
    <3>1. nextAccess' = nextAccess + 1 /\ nextAccess \in Nat \ {0}
      BY <1>9, <2>2 DEF WriteGrant, TypeOK
    <3>2. \A n \in 0 .. nextAccess - 1 : n \in 0 .. nextAccess' - 1
      BY <3>1
    <3>3. access' \in [Pairs -> 0 .. nextAccess' - 1]
      <4>1. access' = access
        BY <1>9, <2>2 DEF WriteGrant, Goto
      <4>2. access \in [Pairs -> 0 .. nextAccess - 1]
        BY DEF TypeOK
      <4>. QED
        BY <3>2, <4>1, <4>2
    <3>4. found' \in [Clients -> 0 .. nextAccess' - 1]
      <4>1. found' = found
        BY <1>9, <2>2 DEF WriteGrant
      <4>2. found \in [Clients -> 0 .. nextAccess - 1]
        BY DEF TypeOK
      <4>. QED
        BY <3>2, <4>1, <4>2
    <3>5. reviewed' \subseteq 1 .. nextAccess' - 1
      <4>1. reviewed' = reviewed /\ reviewed \subseteq 1 .. nextAccess - 1
        BY <1>9, <2>2 DEF WriteGrant, Goto, TypeOK
      <4>. QED
        BY <3>1, <4>1
    <3>6. nextAccess' \in Nat \ {0} /\ fresh' \in [Clients -> Nat]
      <4>1. /\ fresh' = [fresh EXCEPT ![r] = nextAccess]
            /\ fresh \in [Clients -> Nat]
        BY <1>9, <2>2 DEF WriteGrant, TypeOK
      <4>. QED
        BY <3>1, <4>1
    <3>7. /\ pc' = [pc EXCEPT ![r] = "commit"]
          /\ UNCHANGED <<active, key, enabled, expiring, expired, ended, nextDelegation,
                         audit, published, asked, changes, ask, number, live, by,
                         event, response>>
      BY <1>9, <2>2 DEF WriteGrant, Goto
    <3>. QED
      BY <3>3, <3>4, <3>5, <3>6, <3>7 DEF TypeOK
  <2>. QED
    BY <2>1, <2>2
<1>10. ASSUME NEW r \in Clients, WriteRevoke(r)
       PROVE  TypeOK'
  <2>1. CASE found[r] \in reviewed
    BY <1>8, <1>10, <2>1 DEF WriteRevoke, Answers
  <2>2. CASE found[r] \notin reviewed
    <3>1. /\ pc' = [pc EXCEPT ![r] = "commit"]
          /\ UNCHANGED <<rows, published, asked, changes, response, nextAccess,
                         nextDelegation, local>>
      BY <1>10, <2>2 DEF WriteRevoke, Goto
    <3>. QED
      BY <3>1 DEF TypeOK
  <2>. QED
    BY <2>1, <2>2
<1>11. ASSUME NEW r \in Clients, WriteAssign(r)
       PROVE  TypeOK'
  <2>1. CASE /\ Goto(r, "commit")
             /\ fresh' = [fresh EXCEPT ![r] = nextDelegation]
             /\ nextDelegation' = nextDelegation + 1
             /\ UNCHANGED <<nextAccess, ask, number, live, by, found, event>>
    <3>1. MaxDelegations \in Nat /\ nextDelegation \in 1 .. MaxDelegations
      BY <1>11 DEF WriteAssign, DelegationIds, AccessAssumption
    <3>2. nextDelegation' \in 1 .. MaxDelegations + 1 /\ nextDelegation \in Nat
      BY <2>1, <3>1
    <3>. QED
      BY <2>1, <3>2 DEF Goto, TypeOK
  <2>2. CASE Abort(r, "error") \/ Abort(r, "not_found")
    BY <1>8, <2>2 DEF Answers
  <2>. QED
    BY <1>11, <2>1, <2>2 DEF WriteAssign
<1>12. ASSUME NEW r \in Clients, WriteRemove(r)
       PROVE  TypeOK'
  <2>1. CASE Abort(r, "error")
    BY <1>8, <2>1 DEF Answers
  <2>2. CASE Goto(r, "commit") /\ UNCHANGED <<nextAccess, nextDelegation, local>>
    BY <2>2 DEF Goto, TypeOK
  <2>. QED
    BY <1>12, <2>1, <2>2 DEF WriteRemove
<1>13. ASSUME NEW r \in Clients, CommitGrant(r)
       PROVE  TypeOK'
  <2>1. Changes(r) /\ fresh[r] \in 0 .. nextAccess - 1
    BY <1>13
    DEF CommitGrant, Commit, ControlInv, Control, Changes, Running, AccessActions,
        Granting, TypeOK
  <2>2. audit' \subseteq AuditRow
    BY <1>13, <2>1, RowsTypes DEF CommitGrant, TypeOK
  <2>3. access' \in [Pairs -> 0 .. nextAccess' - 1]
    BY <1>13, <2>1 DEF CommitGrant, TypeOK
  <2>. QED
    BY <1>13, <2>2, <2>3
    DEF CommitGrant, Outcome, GrantedEvent, TypeOK, DelegationEvent, Answers
<1>14. ASSUME NEW r \in Clients, CommitRevoke(r)
       PROVE  TypeOK'
  <2>1. Changes(r)
    BY <1>14
    DEF CommitRevoke, Commit, ControlInv, Control, Changes, Running, AccessActions
  <2>2. audit' \subseteq AuditRow
    BY <1>14, <2>1, RowsTypes DEF CommitRevoke, TypeOK
  <2>3. access' \in [Pairs -> 0 .. nextAccess' - 1]
    <3>1. /\ access \in [Pairs -> 0 .. nextAccess - 1] /\ nextAccess \in Nat \ {0}
          /\ nextAccess' = nextAccess
          /\ access' = [access EXCEPT ![Pair(ask[r])] = Remaining(r, @)]
      BY <1>14 DEF CommitRevoke, TypeOK
    <3>2. 0 \in 0 .. nextAccess - 1
      BY <3>1
    <3>. QED
      BY <3>1, <3>2 DEF Remaining
  <2>. QED
    BY <1>14, <2>2, <2>3
    DEF CommitRevoke, Outcome, GrantedEvent, TypeOK, DelegationEvent, Answers
<1>15. ASSUME NEW r \in Clients, CommitAssign(r)
       PROVE  TypeOK'
  <2>1. Running(r) /\ fresh[r] \in DelegationIds /\ ask[r].key \in Keys
    BY <1>15 DEF CommitAssign, Commit, ControlInv, Control, Running, Assigning
  <2>2. ask[r].key.delegate \in Users
    BY <2>1 DEF Keys, KeysOf
  <2>3. DelegationRow(r, "delegation_assigned", fresh[r], ask[r].key.delegate)
          \in AuditRow
    BY <2>1, <2>2, DelegationRowTypes
  <2>4. audit' \subseteq AuditRow
    BY <1>15, <2>3 DEF CommitAssign, TypeOK
  <2>. QED
    BY <1>15, <2>1, <2>4
    DEF CommitAssign, Outcome, TypeOK, DelegationEvent, Answers
<1>16. ASSUME NEW r \in Clients, CommitRemove(r)
       PROVE  TypeOK'
  <2>1. Running(r) /\ ask[r].id \in DelegationIds /\ key[ask[r].id] \in Keys
    BY <1>16 DEF CommitRemove, Commit, ControlInv, Control, Running
  <2>2. key[ask[r].id].delegate \in Users
    BY <2>1 DEF Keys, KeysOf
  <2>3. DelegationRow(r, "delegation_removed", ask[r].id, key[ask[r].id].delegate)
          \in AuditRow
    BY <2>1, <2>2, DelegationRowTypes
  <2>4. audit' \subseteq AuditRow
    BY <1>16, <2>3 DEF CommitRemove, TypeOK
  <2>5. ended' \in [DelegationIds -> 0 .. MaxRequests + 1]
    BY <1>16, <2>1, EndedTypes DEF CommitRemove
  <2>. QED
    BY <1>16, <2>1, <2>4, <2>5
    DEF CommitRemove, Outcome, TypeOK, DelegationEvent, Answers
<1>17. ASSUME NEW r \in Clients, Publish(r)
       PROVE  TypeOK'
  <2>1. published' \subseteq [request : 1 .. MaxRequests, type : DelegationEvent]
    BY <1>17 DEF Publish, ControlInv, Control, Running, TypeOK
  <2>2. response[r] \in Answers
    BY DEF TypeOK
  <2>3. CASE Return(r, response[r])
    <3>1. UNCHANGED <<rows, nextAccess, nextDelegation, asked, changes>>
      BY <1>17 DEF Publish
    <3>. QED
      BY <2>1, <2>2, <2>3, <3>1, ReturnTypes DEF TypeOK
  <2>4. CASE pc' = [pc EXCEPT ![r] = "reread"] /\ UNCHANGED <<local, response>>
    <3>1. UNCHANGED <<rows, nextAccess, nextDelegation, asked, changes>>
      BY <1>17 DEF Publish
    <3>. QED
      BY <2>1, <2>4, <3>1 DEF TypeOK
  <2>. QED
    BY <1>17, <2>3, <2>4 DEF Publish
<1>18. ASSUME NEW r \in Clients, Reread(r)
       PROVE  TypeOK'
  <2>1. PICK answer \in Answers : Return(r, answer)
    BY <1>18 DEF Reread, Answers
  <2>2. UNCHANGED <<rows, nextAccess, nextDelegation, published, asked, changes>>
    BY <1>18 DEF Reread
  <2>. QED
    BY <2>1, <2>2, ReturnTypes DEF TypeOK
<1>19. ASSUME NEW i \in DelegationIds, Expire(i)
       PROVE  TypeOK'
  <2>1. ended' \in [DelegationIds -> 0 .. MaxRequests + 1]
    BY <1>19, EndedTypes DEF Expire
  <2>. QED
    BY <1>19, <2>1 DEF Expire, Change, TypeOK
<1>20. ASSUME NEW u \in Users, SetActive(u)
       PROVE  TypeOK'
  BY <1>20 DEF SetActive, Change, TypeOK
<1>21. ASSUME Review
       PROVE  TypeOK'
  <2>1. reviewed' \subseteq 1 .. nextAccess - 1
    <3>1. /\ access \in [Pairs -> 0 .. nextAccess - 1] /\ nextAccess \in Nat \ {0}
          /\ reviewed \subseteq 1 .. nextAccess - 1
      BY DEF TypeOK
    <3>2. \A p \in Pairs : access[p] # 0 => access[p] \in 1 .. nextAccess - 1
      BY <3>1
    <3>3. reviewed' = reviewed \cup {access[p] : p \in {p \in Pairs : access[p] # 0}}
      BY <1>21 DEF Review
    <3>4. {access[p] : p \in {p \in Pairs : access[p] # 0}} \subseteq 1 .. nextAccess - 1
      BY <3>2
    <3>. QED
      BY <3>1, <3>3, <3>4
  <2>. QED
    <3>1. changes' \in 0 .. MaxChanges
      BY <1>21 DEF Review, Change, TypeOK, AccessAssumption
    <3>2. UNCHANGED <<active, access, delegations, nextAccess, nextDelegation, audit,
                      published, asked, pc, local, response>>
      BY <1>21 DEF Review, Change
    <3>. QED
      BY <2>1, <3>1, <3>2 DEF TypeOK
<1>22. CASE UNCHANGED vars
  BY <1>22 DEF vars, TypeOK
<1>. QED
  BY <1>1, <1>2, <1>3, <1>4, <1>5, <1>6, <1>7, <1>9, <1>10, <1>11, <1>12, <1>13,
     <1>14, <1>15, <1>16, <1>17, <1>18, <1>19, <1>20, <1>21, <1>22 DEF Next, Step

-----------------------------------------------------------------------------
(* A step of one request leaves the control state of the others alone. *)
OthersStay(r) ==
    \A s \in Clients \ {r} :
        /\ pc'[s] = pc[s] /\ ask'[s] = ask[s] /\ number'[s] = number[s]
        /\ by'[s] = by[s] /\ found'[s] = found[s] /\ fresh'[s] = fresh[s]
        /\ response'[s] = response[s]

Act(r) == Step(r) \/ \E q \in Workload : Refuse(r, q) \/ Load(r, q)

Environment ==
    \/ \E i \in DelegationIds : Expire(i)
    \/ \E u \in Users : SetActive(u)
    \/ Review
    \/ UNCHANGED vars

LEMMA NextSteps ==
    ASSUME [Next]_vars
    PROVE  (\E r \in Clients : Act(r)) \/ Environment
BY DEF Next, Act, Environment

LEMMA EnvironmentFrame ==
    ASSUME Environment
    PROVE  UNCHANGED <<access, key, nextAccess, nextDelegation, audit, pc, local,
                       response>>
BY DEF Environment, Expire, SetActive, Review, Change, vars, rows, delegations, local

LEMMA ReturnFrame ==
    ASSUME TypeOK, NEW r \in Clients, NEW answer, Return(r, answer)
    PROVE  OthersStay(r) /\ pc'[r] = "idle" /\ by'[r] = None /\ found'[r] = 0
BY DEF Return, OthersStay, TypeOK

LEMMA ActFrame ==
    ASSUME TypeOK, NEW r \in Clients, Act(r)
    PROVE  OthersStay(r)
<1>. USE DEF rows, local, delegations
<1>1. ASSUME NEW q \in Workload, Refuse(r, q)
      PROVE  OthersStay(r)
  BY <1>1 DEF Refuse, Ask, OthersStay, TypeOK
<1>2. ASSUME NEW q \in Workload, Load(r, q)
      PROVE  OthersStay(r)
  BY <1>2 DEF Load, Ask, OthersStay, TypeOK
<1>3. CASE AuthorizeGlobally(r)
  BY <1>3 DEF AuthorizeGlobally, Goto, OthersStay, TypeOK
<1>4. CASE AuthorizeDelegate(r)
  BY <1>4 DEF AuthorizeDelegate, Goto, OthersStay, TypeOK
<1>5. CASE DenyUndelegated(r)
  BY <1>5 DEF DenyUndelegated, Outcome, OthersStay, TypeOK
<1>6. CASE Deny(r)
  BY <1>6 DEF Deny, Outcome, OthersStay, TypeOK
<1>7. CASE Allow(r)
  BY <1>7 DEF Allow, Goto, OthersStay, TypeOK
<1>8. ASSUME NEW answer, Abort(r, answer)
      PROVE  OthersStay(r)
  BY <1>8, ReturnFrame DEF Abort
<1>9. CASE WriteGrant(r)
  BY <1>8, <1>9 DEF WriteGrant, Goto, OthersStay, TypeOK
<1>10. CASE WriteRevoke(r)
  BY <1>8, <1>10 DEF WriteRevoke, Goto, OthersStay, TypeOK
<1>11. CASE WriteAssign(r)
  BY <1>8, <1>11 DEF WriteAssign, Goto, OthersStay, TypeOK
<1>12. CASE WriteRemove(r)
  BY <1>8, <1>12 DEF WriteRemove, Goto, OthersStay, TypeOK
<1>13. CASE CommitGrant(r)
  BY <1>13 DEF CommitGrant, Outcome, OthersStay, TypeOK
<1>14. CASE CommitRevoke(r)
  BY <1>14 DEF CommitRevoke, Outcome, OthersStay, TypeOK
<1>15. CASE CommitAssign(r)
  BY <1>15 DEF CommitAssign, Outcome, OthersStay, TypeOK
<1>16. CASE CommitRemove(r)
  BY <1>16 DEF CommitRemove, Outcome, OthersStay, TypeOK
<1>17. CASE Publish(r)
  BY <1>17, ReturnFrame DEF Publish, OthersStay, TypeOK
<1>18. CASE Reread(r)
  BY <1>18, ReturnFrame DEF Reread
<1>. QED
  BY <1>1, <1>2, <1>3, <1>4, <1>5, <1>6, <1>7, <1>9, <1>10, <1>11, <1>12, <1>13,
     <1>14, <1>15, <1>16, <1>17, <1>18 DEF Act, Step

(* Which tables and sequences a step of a request writes. *)
LEMMA TableFrame ==
    ASSUME NEW r \in Clients, Act(r)
    PROVE  /\ key' = key \/ CommitAssign(r)
           /\ nextDelegation' = nextDelegation \/ WriteAssign(r)
           /\ nextAccess' = nextAccess \/ WriteGrant(r)
           /\ access' = access \/ CommitGrant(r) \/ CommitRevoke(r)
           /\ audit' = audit \/ DenyUndelegated(r) \/ Deny(r) \/ CommitGrant(r)
                \/ CommitRevoke(r) \/ CommitAssign(r) \/ CommitRemove(r)
BY DEF Act, Step, rows, local, delegations, Refuse, Ask, Load, AuthorizeGlobally,
       AuthorizeDelegate, DenyUndelegated, Deny, Allow, Abort, Goto, WriteGrant, WriteRevoke,
       WriteAssign, WriteRemove, CommitGrant, CommitRevoke, CommitAssign,
       CommitRemove, Publish, Reread

LEMMA SequencesGrow ==
    ASSUME TypeOK, [Next]_vars
    PROVE  /\ nextAccess' \in Nat /\ nextAccess' >= nextAccess
           /\ nextDelegation' \in Nat /\ nextDelegation' >= nextDelegation
<1>1. nextAccess \in Nat /\ nextDelegation \in Nat
  BY DEF TypeOK
<1>2. CASE Environment
  BY <1>1, <1>2, EnvironmentFrame
<1>3. ASSUME NEW r \in Clients, Act(r)
      PROVE  /\ nextAccess' \in {nextAccess, nextAccess + 1}
             /\ nextDelegation' \in {nextDelegation, nextDelegation + 1}
  BY <1>3, TableFrame DEF WriteGrant, WriteAssign, Abort
<1>. QED
  BY <1>1, <1>2, <1>3, NextSteps

KeysKept == \A i \in DelegationIds : key[i] # None => key'[i] = key[i]

LEMMA KeysAreKept ==
    ASSUME TypeOK, ControlInv, KeyInv, [Next]_vars
    PROVE  KeysKept
<1>1. CASE key' = key
  BY <1>1 DEF KeysKept
<1>2. ASSUME NEW r \in Clients, CommitAssign(r)
      PROVE  KeysKept
  <2>1. Assigning(r) /\ key' = [key EXCEPT ![fresh[r]] = ask[r].key]
    BY <1>2 DEF CommitAssign, Commit, Assigning
  <2>2. key[fresh[r]] = None
    BY <2>1 DEF KeyInv
  <2>. QED
    BY <2>1, <2>2 DEF KeysKept, TypeOK
<1>. QED
  BY <1>1, <1>2, NextSteps, EnvironmentFrame, TableFrame

LEMMA ControlStep ==
    ASSUME AccessAssumption, TypeOK, ControlInv, KeyInv, [Next]_vars
    PROVE  ControlInv'
<1>. USE DEF Control, Running, Changes, Granting, Assigning
<1>1. ASSUME NEW s \in Clients, pc'[s] = pc[s], ask'[s] = ask[s],
             number'[s] = number[s], by'[s] = by[s], fresh'[s] = fresh[s]
      PROVE  Control(s)'
  <2>1. Control(s)
    BY DEF ControlInv
  <2>2. Running(s) /\ ask[s].kind = "remove" => key'[ask[s].id] \in Keys
    BY <2>1, KeysAreKept DEF KeysKept, AccessAssumption
  <2>3. Granting(s) => fresh[s] \in 1 .. nextAccess' - 1
    <3>1. nextAccess \in Nat /\ nextAccess' \in Nat /\ nextAccess' >= nextAccess
      BY SequencesGrow DEF TypeOK
    <3>. QED
      BY <2>1, <3>1
  <2>. QED
    BY <1>1, <2>1, <2>2, <2>3
<1>2. CASE Environment
  BY <1>1, <1>2, EnvironmentFrame DEF ControlInv, local
<1>3. ASSUME NEW r \in Clients, Act(r), Control(r)'
      PROVE  ControlInv'
  BY <1>1, <1>3, ActFrame DEF ControlInv, OthersStay
<1>4. ASSUME NEW r \in Clients, Act(r)
      PROVE  Control(r)'
  <2>. USE DEF rows, local, delegations
  <2>1. Control(r)
    BY DEF ControlInv
  <2>2. ASSUME NEW q \in Workload, Refuse(r, q)
        PROVE  Control(r)'
    BY <2>1, <2>2 DEF Refuse, Ask
  <2>3. ASSUME NEW q \in Workload, Load(r, q)
        PROVE  Control(r)'
    <3>1. pc[r] = "idle" /\ asked + 1 \in 1 .. MaxRequests /\ Check(q) = "ok"
      BY <2>3 DEF Load, Ask, TypeOK, AccessAssumption
    <3>2. /\ ask'[r] = q /\ number'[r] = asked + 1 /\ UNCHANGED <<by, fresh, key>>
          /\ pc'[r] \in {"authorize", "write"}
          /\ pc'[r] = "authorize" => q.kind \in AccessActions
      BY <2>3 DEF Load, TypeOK, AccessActions
    <3>. QED
      BY <2>1, <3>1, <3>2, CheckedAsks
  <2>4. CASE AuthorizeGlobally(r)
    BY <2>1, <2>4 DEF AuthorizeGlobally, Goto, TypeOK
  <2>5. CASE AuthorizeDelegate(r)
    BY <2>1, <2>5 DEF AuthorizeDelegate, Goto, TypeOK
  <2>6. CASE DenyUndelegated(r)
    BY <2>1, <2>6 DEF DenyUndelegated, Outcome, TypeOK
  <2>7. CASE Deny(r)
    BY <2>1, <2>7 DEF Deny, Outcome, TypeOK
  <2>8. CASE Allow(r)
    BY <2>1, <2>8 DEF Allow, Goto, TypeOK
  <2>9. ASSUME NEW answer, Return(r, answer)
        PROVE  Control(r)'
    BY <2>9, ReturnFrame
  <2>10. CASE WriteGrant(r)
    <3>1. CASE Granted(r)
      BY <2>9, <2>10, <3>1 DEF WriteGrant, Abort
    <3>2. CASE ~Granted(r)
      <4>1. /\ pc'[r] = "commit" /\ UNCHANGED <<ask, number, by, key>>
            /\ fresh'[r] = nextAccess /\ nextAccess' = nextAccess + 1
            /\ pc[r] = "write"
        BY <2>10, <3>2 DEF WriteGrant, Write, Goto, TypeOK
      <4>2. fresh'[r] \in 1 .. nextAccess' - 1 /\ ask[r].kind = "grant"
        BY <2>10, <4>1 DEF WriteGrant, Write, TypeOK
      <4>. QED
        BY <2>1, <4>1, <4>2
    <3>. QED
      BY <3>1, <3>2
  <2>11. CASE WriteRevoke(r)
    BY <2>1, <2>9, <2>11 DEF WriteRevoke, Write, Abort, Goto, TypeOK
  <2>12. CASE WriteAssign(r)
    BY <2>1, <2>9, <2>12 DEF WriteAssign, Write, Abort, Goto, TypeOK
  <2>13. CASE WriteRemove(r)
    BY <2>1, <2>9, <2>13 DEF WriteRemove, Write, Abort, Goto, TypeOK
  <2>14. CASE CommitGrant(r)
    BY <2>1, <2>14 DEF CommitGrant, Commit, Outcome, TypeOK
  <2>15. CASE CommitRevoke(r)
    BY <2>1, <2>15 DEF CommitRevoke, Commit, Outcome, TypeOK
  <2>16. CASE CommitAssign(r)
    BY <2>1, <2>16 DEF CommitAssign, Commit, Outcome, TypeOK
  <2>17. CASE CommitRemove(r)
    BY <2>1, <2>17 DEF CommitRemove, Commit, Outcome, TypeOK
  <2>18. CASE Publish(r)
    BY <2>1, <2>9, <2>18 DEF Publish, TypeOK
  <2>19. CASE Reread(r)
    BY <2>9, <2>19 DEF Reread
  <2>. QED
    BY <1>4, <2>2, <2>3, <2>4, <2>5, <2>6, <2>7, <2>8, <2>10, <2>11, <2>12, <2>13,
       <2>14, <2>15, <2>16, <2>17, <2>18, <2>19 DEF Act, Step
<1>. QED
  BY <1>2, <1>3, <1>4, NextSteps

(* A request comes to its commit by a write that did not fail. *)
LEMMA EnterCommit ==
    ASSUME TypeOK, NEW r \in Clients, Act(r), pc'[r] = "commit"
    PROVE  /\ WriteGrant(r) \/ WriteRevoke(r) \/ WriteAssign(r) \/ WriteRemove(r)
           /\ ask' = ask
<1>. USE ReturnFrame DEF rows, local
<1>1. \A q \in Workload : ~Refuse(r, q) /\ ~Load(r, q)
  BY DEF Refuse, Ask, Load, TypeOK
<1>2. ~AuthorizeGlobally(r) /\ ~AuthorizeDelegate(r) /\ ~Allow(r)
  BY DEF AuthorizeGlobally, AuthorizeDelegate, Allow, Goto, TypeOK
<1>3. ~DenyUndelegated(r) /\ ~Deny(r)
  BY DEF DenyUndelegated, Deny, Outcome, TypeOK
<1>4. WriteGrant(r) \/ WriteRevoke(r) \/ WriteAssign(r) \/ WriteRemove(r) => ask' = ask
  BY DEF WriteGrant, WriteRevoke, WriteAssign, WriteRemove, Abort, TypeOK
<1>5. ~CommitGrant(r) /\ ~CommitRevoke(r) /\ ~CommitAssign(r) /\ ~CommitRemove(r)
  BY DEF CommitGrant, CommitRevoke, CommitAssign, CommitRemove, Outcome, TypeOK
<1>6. ~Publish(r) /\ ~Reread(r)
  BY DEF Publish, Reread, TypeOK
<1>. QED
  BY <1>1, <1>2, <1>3, <1>4, <1>5, <1>6 DEF Act, Step

LEMMA KeyStep ==
    ASSUME AccessAssumption, TypeOK, ControlInv, KeyInv, [Next]_vars
    PROVE  KeyInv'
<1>. USE DEF Assigning
<1>1. /\ nextDelegation \in Nat /\ nextDelegation' \in Nat
      /\ nextDelegation' >= nextDelegation
  BY SequencesGrow DEF TypeOK
<1>2. DelegationIds \subseteq Nat
  BY DEF DelegationIds
<1>3. CASE Environment
  BY <1>3, EnvironmentFrame DEF KeyInv, local
<1>4. ASSUME NEW r \in Clients, CommitAssign(r)
      PROVE  KeyInv'
  <2>1. /\ Assigning(r) /\ pc'[r] = "publish" /\ fresh' = fresh /\ ask' = ask
        /\ key' = [key EXCEPT ![fresh[r]] = ask[r].key]
        /\ nextDelegation' = nextDelegation
    BY <1>4 DEF CommitAssign, Commit, Outcome, TypeOK
  <2>2. \A s \in Clients \ {r} : pc'[s] = pc[s]
    BY <1>4, ActFrame DEF OthersStay, Act, Step
  <2>3. \A s \in Clients : Assigning(s)' => Assigning(s) /\ fresh[s] # fresh[r]
    BY <2>1, <2>2 DEF KeyInv
  <2>4. \A s \in Clients : Assigning(s) => fresh[s] \in DelegationIds
    BY DEF ControlInv, Control
  <2>. QED
    BY <2>1, <2>3, <2>4 DEF KeyInv, TypeOK
<1>5. ASSUME NEW r \in Clients, WriteAssign(r), pc'[r] = "commit"
      PROVE  KeyInv'
  <2>1. /\ fresh'[r] = nextDelegation /\ nextDelegation' = nextDelegation + 1
        /\ key' = key /\ ask' = ask /\ nextDelegation \in DelegationIds
    BY <1>5, ReturnFrame DEF WriteAssign, Abort, Goto, TypeOK, rows, delegations
  <2>2. \A s \in Clients \ {r} : pc'[s] = pc[s] /\ fresh'[s] = fresh[s]
    BY <1>5, ActFrame DEF OthersStay, Act, Step
  <2>3. \A s \in Clients \ {r} : Assigning(s)' =>
           Assigning(s) /\ fresh'[s] = fresh[s] /\ fresh[s] < nextDelegation
    BY <2>1, <2>2 DEF KeyInv
  <2>4. key[nextDelegation] = None
    BY <1>1, <2>1 DEF KeyInv
  <2>5. \A s \in Clients \ {r} : fresh[s] \in Nat
    BY DEF TypeOK
  <2>. QED
    BY <1>1, <1>2, <2>1, <2>3, <2>4, <2>5 DEF KeyInv
<1>6. ASSUME NEW r \in Clients, Act(r), key' = key, ~Assigning(r)'
      PROVE  KeyInv'
  <2>1. \A s \in Clients : Assigning(s)' =>
           Assigning(s) /\ fresh'[s] = fresh[s] /\ fresh[s] \in Nat
    <3>1. SUFFICES ASSUME NEW s \in Clients, Assigning(s)'
                   PROVE  Assigning(s) /\ fresh'[s] = fresh[s] /\ fresh[s] \in Nat
      OBVIOUS
    <3>2. s # r /\ OthersStay(r)
      BY <1>6, <3>1, ActFrame
    <3>3. fresh[s] \in Nat
      BY DEF TypeOK
    <3>. QED
      BY <3>1, <3>2, <3>3 DEF OthersStay
  <2>2. \A s \in Clients : Assigning(s)' =>
           fresh'[s] < nextDelegation' /\ key[fresh'[s]] = None
    BY <1>1, <2>1 DEF KeyInv
  <2>3. \A i \in DelegationIds : key[i] # None => i < nextDelegation'
    <3>1. SUFFICES ASSUME NEW i \in DelegationIds, key[i] # None
                   PROVE  i < nextDelegation'
      OBVIOUS
    <3>2. i < nextDelegation /\ i \in Nat
      BY <1>2, <3>1 DEF KeyInv
    <3>. QED
      BY <1>1, <3>2
  <2>. QED
    BY <1>6, <2>1, <2>2, <2>3 DEF KeyInv
<1>7. ASSUME NEW r \in Clients, Act(r), Assigning(r)'
      PROVE  WriteAssign(r) /\ pc'[r] = "commit"
  BY <1>7, EnterCommit DEF WriteGrant, WriteRevoke, WriteRemove, Write
<1>. QED
  BY <1>3, <1>4, <1>5, <1>6, <1>7, NextSteps, TableFrame

(***************************************************************************)
(* A request has a number of its own and writes its entries once, with the *)
(* decision it commits.                                                    *)
(***************************************************************************)
Open(r) == pc[r] \in {"authorize", "decide", "write", "commit"}

NumberInv ==
    /\ \A r \in Clients : Running(r) => number[r] \in 1 .. asked
    /\ \A r, s \in Clients :
          Running(r) /\ Running(s) /\ number[r] = number[s] => r = s
    /\ \A a \in audit : a.request \in 1 .. asked
    /\ \A r \in Clients : Open(r) => \A a \in audit : a.request # number[r]

Decides(r) == \/ DenyUndelegated(r) \/ Deny(r) \/ CommitGrant(r) \/ CommitRevoke(r)
              \/ CommitAssign(r) \/ CommitRemove(r)

LEMMA DecisionFrame ==
    ASSUME TypeOK, ControlInv, NEW r \in Clients, Decides(r)
    PROVE  /\ Open(r) /\ pc'[r] = "publish"
           /\ UNCHANGED <<ask, number, asked, published, by>>
           /\ audit \subseteq audit'
           /\ \A a \in audit' \ audit : a.request = number[r]
<1>1. /\ Open(r) /\ pc'[r] = "publish"
      /\ UNCHANGED <<ask, number, asked, published, by>>
  BY DEF Decides, DenyUndelegated, Deny, CommitGrant, CommitRevoke, CommitAssign,
         CommitRemove, Commit, Outcome, Open, TypeOK
<1>2. \A result : \A a \in Rows(r, result) : a.request = number[r]
  BY AllowedRowFields DEF Rows, Row
<1>3. audit \subseteq audit' /\ \A a \in audit' \ audit : a.request = number[r]
  BY <1>2 DEF Decides, DenyUndelegated, Deny, CommitGrant, CommitRevoke, CommitAssign,
              CommitRemove, Row, DelegationRow
<1>. QED
  BY <1>1, <1>3

(* A step of a request that does not decide it writes no entry, and does   *)
(* not bring it back to before its decision.                               *)
LEMMA OtherSteps ==
    ASSUME TypeOK, ControlInv, NEW r \in Clients, Step(r), ~Decides(r)
    PROVE  /\ audit' = audit /\ asked' = asked
           /\ pc'[r] # "idle" => number'[r] = number[r]
           /\ Open(r)' => Open(r)
<1>. USE DEF rows, local, delegations
<1>1. audit' = audit
  BY TableFrame DEF Act, Decides
<1>2. asked' = asked
  BY DEF Step, AuthorizeGlobally, AuthorizeDelegate, DenyUndelegated, Deny, Allow, Abort,
         Goto, WriteGrant, WriteRevoke, WriteAssign, WriteRemove, CommitGrant, CommitRevoke,
         CommitAssign, CommitRemove, Publish, Reread
<1>3. pc'[r] # "idle" => number'[r] = number[r]
  BY ReturnFrame
  DEF Step, Decides, AuthorizeGlobally, AuthorizeDelegate, Allow, Abort, Goto, WriteGrant,
      WriteRevoke, WriteAssign, WriteRemove, Publish, Reread
<1>4. Open(r)' => Open(r)
  BY ReturnFrame
  DEF Open, Step, Decides, AuthorizeGlobally, AuthorizeDelegate, Allow, Abort, Goto,
      WriteGrant, WriteRevoke, WriteAssign, WriteRemove, Write, Publish, Reread, TypeOK
<1>. QED
  BY <1>1, <1>2, <1>3, <1>4

LEMMA NumberStep ==
    ASSUME AccessAssumption, TypeOK, ControlInv, NumberInv, [Next]_vars
    PROVE  NumberInv'
<1>. USE DEF Running, Open
<1>1. asked \in Nat
  BY DEF TypeOK, AccessAssumption
<1>2. ASSUME UNCHANGED <<pc, number, audit>>, asked' \in {asked, asked + 1}
      PROVE  NumberInv'
  <2>1. \A n \in 1 .. asked : n \in 1 .. asked'
    BY <1>1, <1>2
  <2>. QED
    BY <1>2, <2>1 DEF NumberInv
<1>3. CASE Environment
  <2>1. asked' = asked
    BY <1>3 DEF Environment, Expire, SetActive, Review, Change, vars
  <2>. QED
    BY <1>2, <1>3, <2>1, EnvironmentFrame DEF local
<1>4. ASSUME NEW r \in Clients, NEW q \in Workload, Refuse(r, q)
      PROVE  NumberInv'
  BY <1>2, <1>4 DEF Refuse, Ask, rows, local
<1>5. ASSUME NEW r \in Clients, NEW q \in Workload, Load(r, q)
      PROVE  NumberInv'
  <2>1. asked' = asked + 1 /\ number'[r] = asked + 1 /\ audit' = audit
    BY <1>5 DEF Load, Ask, rows, TypeOK
  <2>2. \A s \in Clients \ {r} : pc'[s] = pc[s] /\ number'[s] = number[s]
    BY <1>5, ActFrame DEF OthersStay, Act
  <2>3. \A n \in 1 .. asked : n \in 1 .. asked' /\ n # asked + 1
    BY <1>1, <2>1
  <2>4. asked + 1 \in 1 .. asked'
    BY <1>1, <2>1
  <2>. QED
    BY <2>1, <2>2, <2>3, <2>4 DEF NumberInv
<1>6. ASSUME NEW r \in Clients, Step(r)
      PROVE  NumberInv'
  <2>1. Running(r)
    BY <1>6
    DEF Step, AuthorizeGlobally, AuthorizeDelegate, DenyUndelegated, Deny, Allow, WriteGrant,
        WriteRevoke, WriteAssign, WriteRemove, Write, CommitGrant, CommitRevoke,
        CommitAssign, CommitRemove, Commit, Publish, Reread
  <2>2. \A s \in Clients \ {r} : pc'[s] = pc[s] /\ number'[s] = number[s]
    BY <1>6, ActFrame DEF OthersStay, Act
  <2>3. CASE ~Decides(r)
    BY <1>6, <2>1, <2>2, <2>3, OtherSteps DEF NumberInv
  <2>4. CASE Decides(r)
    <3>1. /\ Open(r) /\ pc'[r] = "publish" /\ number' = number /\ asked' = asked
          /\ \A a \in audit' : a \in audit \/ a.request = number[r]
      BY <2>4, DecisionFrame
    <3>. QED
      BY <2>1, <2>2, <3>1 DEF NumberInv
  <2>. QED
    BY <2>3, <2>4
<1>. QED
  BY <1>3, <1>4, <1>5, <1>6, NextSteps DEF Act

LEMMA EndedChanges ==
    ASSUME TypeOK, ControlInv, [Next]_vars, NEW i \in DelegationIds
    PROVE  /\ ended'[i] = ended[i] \/ (ended[i] = 0 /\ ended'[i] = asked + 1)
           /\ ended'[i] # ended[i] =>
                 \/ Expire(i)
                 \/ \E r \in Clients : CommitRemove(r) /\ ask[r].id = i
<1>1. CASE ended' = ended
  BY <1>1
<1>2. ASSUME NEW j \in DelegationIds, ended' = Ended(j)
      PROVE  /\ ended'[i] = ended[i] \/ (ended[i] = 0 /\ ended'[i] = asked + 1)
             /\ i # j => ended'[i] = ended[i]
  BY <1>2 DEF Ended, TypeOK
<1>3. ASSUME NEW r \in Clients, Act(r), ended' # ended
      PROVE  CommitRemove(r) /\ ask[r].id \in DelegationIds /\ ended' = Ended(ask[r].id)
  <2>1. CommitRemove(r)
    BY <1>3
    DEF Act, Step, rows, local, delegations, Refuse, Ask, Load, AuthorizeGlobally,
        AuthorizeDelegate, DenyUndelegated, Deny, Allow, Abort, Goto, WriteGrant,
        WriteRevoke, WriteAssign, WriteRemove, CommitGrant, CommitRevoke, CommitAssign,
        Publish, Reread
  <2>. QED
    BY <2>1 DEF CommitRemove, Commit, ControlInv, Control, Running
<1>4. ASSUME Environment, ended' # ended
      PROVE  \E j \in DelegationIds : Expire(j) /\ ended' = Ended(j)
  BY <1>4 DEF Environment, Expire, SetActive, Review, vars, rows, delegations
<1>. QED
  BY <1>1, <1>2, <1>3, <1>4, NextSteps

LEMMA EndStep ==
    ASSUME AccessAssumption, TypeOK, ControlInv, KeyInv, EndInv, [Next]_vars
    PROVE  EndInv'
<1>1. KeysKept
  BY KeysAreKept
<1>2. ASSUME NEW i \in expiring'
      PROVE  key'[i] # None
  <2>1. CASE i \in expiring
    BY <1>1, <2>1 DEF EndInv, KeysKept, TypeOK
  <2>2. ASSUME NEW r \in Clients, CommitAssign(r), i = fresh[r]
        PROVE  key'[i] # None
    <3>1. ask[r].key \in Keys /\ fresh[r] \in DelegationIds
      BY <2>2 DEF CommitAssign, Commit, ControlInv, Control, Running, Assigning
    <3>. QED
      BY <2>2, <3>1 DEF CommitAssign, TypeOK, AccessAssumption
  <2>3. i \in expiring \/ \E r \in Clients : CommitAssign(r) /\ i = fresh[r]
    <3>1. CASE Environment
      BY <3>1 DEF Environment, Expire, SetActive, Review, vars, rows, delegations
    <3>2. ASSUME NEW r \in Clients, Act(r)
          PROVE  expiring' = expiring \/ (CommitAssign(r) /\ expiring' \subseteq expiring \cup {fresh[r]})
      BY <3>2
      DEF Act, Step, rows, local, delegations, Refuse, Ask, Load, AuthorizeGlobally,
          AuthorizeDelegate, DenyUndelegated, Deny, Allow, Abort, Goto, WriteGrant,
          WriteRevoke, WriteAssign, WriteRemove, CommitGrant, CommitRevoke, CommitAssign,
          CommitRemove, Publish, Reread
    <3>. QED
      BY <3>1, <3>2, NextSteps
  <2>. QED
    BY <2>1, <2>2, <2>3
<1>3. ASSUME NEW i \in DelegationIds, key[i] # None, i \notin Effective
      PROVE  key'[i] # None /\ i \notin Effective'
  <2>1. i \notin enabled \/ i \in expired
    BY <1>3 DEF Effective, Present
  <2>2. i \in enabled' => i \in enabled
    <3>1. ASSUME NEW r \in Clients, CommitAssign(r)
          PROVE  enabled' = enabled \cup {fresh[r]} /\ fresh[r] # i
      BY <1>3, <3>1 DEF CommitAssign, Commit, Assigning, KeyInv
    <3>2. ASSUME NEW r \in Clients, Act(r), ~CommitAssign(r)
          PROVE  enabled' \subseteq enabled
      BY <3>2
      DEF Act, Step, rows, local, delegations, Refuse, Ask, Load, AuthorizeGlobally,
          AuthorizeDelegate, DenyUndelegated, Deny, Allow, Abort, Goto, WriteGrant,
          WriteRevoke, WriteAssign, WriteRemove, CommitGrant, CommitRevoke,
          CommitRemove, Publish, Reread
    <3>3. CASE Environment
      BY <3>3 DEF Environment, Expire, SetActive, Review, vars, rows, delegations
    <3>. QED
      BY <3>1, <3>2, <3>3, NextSteps
  <2>3. i \in expired => i \in expired'
    <3>1. ASSUME NEW r \in Clients, Act(r)
          PROVE  expired' = expired
      BY <3>1
      DEF Act, Step, rows, local, delegations, Refuse, Ask, Load, AuthorizeGlobally,
          AuthorizeDelegate, DenyUndelegated, Deny, Allow, Abort, Goto, WriteGrant,
          WriteRevoke, WriteAssign, WriteRemove, CommitGrant, CommitRevoke, CommitAssign,
          CommitRemove, Publish, Reread
    <3>2. CASE Environment
      BY <3>2 DEF Environment, Expire, SetActive, Review, vars, rows, delegations
    <3>. QED
      BY <3>1, <3>2, NextSteps
  <2>. QED
    BY <1>1, <1>3, <2>1, <2>2, <2>3 DEF KeysKept, Effective
<1>4. ASSUME NEW i \in DelegationIds, ended'[i] # 0
      PROVE  key'[i] # None /\ i \notin Effective'
  <2>1. CASE ended'[i] = ended[i]
    BY <1>3, <1>4, <2>1 DEF EndInv
  <2>2. CASE Expire(i)
    BY <2>2 DEF Expire, EndInv, Effective
  <2>3. ASSUME NEW r \in Clients, CommitRemove(r), ask[r].id = i
        PROVE  key'[i] # None /\ i \notin Effective'
    BY <2>3 DEF CommitRemove, Commit, Effective, ControlInv, Control, Running, AccessAssumption
  <2>. QED
    BY <2>1, <2>2, <2>3, EndedChanges
<1>. QED
  BY <1>2, <1>4 DEF EndInv

(* A request that has been made does not outlive its delegation's force.   *)
LEMMA ForceIsKept ==
    ASSUME AccessAssumption, TypeOK, ControlInv, [Next]_vars,
           NEW i \in DelegationIds, NEW n \in 1 .. asked, InForce(i, n)
    PROVE  InForce(i, n)'
<1>1. asked \in Nat
  BY DEF TypeOK, AccessAssumption
<1>. QED
  BY <1>1, EndedChanges DEF InForce

LEMMA PolicyPermits ==
    ASSUME AccessAssumption, NEW r \in Clients, Denial(r) = "none",
           ask[r].kind \in AccessActions,
           by[r] # None => Covers(by[r], ask[r].actor, ask[r].entitlement)
    PROVE  /\ by[r] # None /\ ask[r].entitlement \in Administrator =>
                 key[by[r]].role \in DELEGATED_ADMIN_POLICY_ROLES
           /\ ask[r].kind = "grant" /\ ApplicationOf[ask[r].entitlement] \in FinancePortal =>
                 ask[r].target \in Finance
<1>1. PolicyAllows(r)
  BY DEF Denial
<1>2. AdministratorRule(ask[r].actor, ask[r].entitlement, RoleUsed(r))
  BY <1>1 DEF PolicyAllows, evaluate_grant_policy, evaluate_revoke_policy
<1>3. ask[r].kind = "grant" => TargetRule(ask[r].target, live[r], ask[r].entitlement)
  BY <1>1 DEF PolicyAllows, evaluate_grant_policy
<1>4. by[r] # None => RoleUsed(r) = key[by[r]].role /\ RoleUsed(r) # None
  <2>1. \A k \in Keys : k.role # None
    BY DEF Keys, KeysOf, AccessAssumption
  <2>. QED
    BY <2>1 DEF RoleUsed, Covers
<1>. QED
  BY <1>2, <1>3, <1>4 DEF AdministratorRule, TargetRule

LEMMA AuthorityStep ==
    ASSUME AccessAssumption, TypeOK, ControlInv, KeyInv, NumberInv, EndInv,
           AuthorityInv, [Next]_vars
    PROVE  AuthorityInv'
<1>1. KeysKept
  BY KeysAreKept
<1>2. ASSUME NEW i, NEW u, NEW e, Covers(i, u, e)
      PROVE  Covers(i, u, e)' /\ key'[i] = key[i]
  <2>1. key[i] # None
    BY <1>2 DEF Covers, AccessAssumption
  <2>. QED
    BY <1>1, <1>2, <2>1 DEF Covers, KeysKept
<1>9. ASSUME NEW s \in Clients, NEW i \in DelegationIds, NEW n, n = number[s],
             Running(s), InForce(i, n)
      PROVE  InForce(i, n)'
  <2>1. n \in 1 .. asked
    BY <1>9 DEF NumberInv
  <2>. QED
    BY <1>9, <2>1, ForceIsKept
<1>3. ASSUME NEW s \in Clients, ask'[s] = ask[s], by'[s] = by[s], number'[s] = number[s],
             pc'[s] = pc[s] \/ (pc[s] = "write" /\ pc'[s] = "commit")
      PROVE  Authority(s)' /\ Permitted(s)'
  <2>1. Authority(s) /\ Permitted(s)
    BY DEF AuthorityInv
  <2>2. Changes(s)' /\ pc'[s] \in {"decide", "write", "commit"} =>
           Changes(s) /\ pc[s] \in {"decide", "write", "commit"}
    BY <1>3 DEF Changes, Running
  <2>3. Authority(s)'
    <3>1. SUFFICES ASSUME Changes(s)', pc'[s] \in {"decide", "write", "commit"}
                   PROVE  Authority(s)'
      BY DEF Authority
    <3>2. Changes(s) /\ Running(s) /\ pc[s] \in {"decide", "write", "commit"}
      BY <2>2, <3>1 DEF Changes
    <3>3. PICK i, n, u, e : /\ i = by[s] /\ n = number[s]
                            /\ u = ask[s].actor /\ e = ask[s].entitlement
      OBVIOUS
    <3>4. CASE i = None
      BY <1>3, <2>1, <3>2, <3>3, <3>4 DEF Authority
    <3>5. CASE i # None
      <4>1. /\ ~IsGlobalAdmin(u) /\ Covers(i, u, e) /\ InForce(i, n)
            /\ i \in DelegationIds
        BY <2>1, <3>2, <3>3, <3>5 DEF Authority, Covers
      <4>2. InForce(i, n)'
        BY <1>9, <3>2, <3>3, <4>1
      <4>3. Covers(i, u, e)'
        BY <1>2, <4>1
      <4>. QED
        BY <1>3, <3>3, <3>5, <4>1, <4>2, <4>3 DEF Authority
    <3>. QED
      BY <3>4, <3>5
  <2>4. Permitted(s)'
    BY <1>2, <1>3, <2>1, <2>2 DEF Authority, Permitted
  <2>. QED
    BY <2>3, <2>4
<1>10. audit \subseteq audit'
  BY NextSteps, EnvironmentFrame, TableFrame, DecisionFrame DEF Decides
<1>4. ASSUME NEW a \in audit
      PROVE  Recorded(a)'
  <2>1. Recorded(a) /\ a.request \in 1 .. asked /\ audit \subseteq audit'
    BY <1>10 DEF AuthorityInv, NumberInv
  <2>2. ASSUME NEW b \in audit, Authorises(b, a)
        PROVE  Authorises(b, a)'
    <3>1. key'[b.delegation] = key[b.delegation]
      BY <1>1, <2>2 DEF Authorises, KeysKept
    <3>2. InForce(b.delegation, a.request)'
      BY <2>1, <2>2, ForceIsKept DEF Authorises
    <3>. QED
      BY <2>2, <3>1, <3>2 DEF Authorises, Permits
  <2>. QED
    BY <2>1, <2>2 DEF Recorded
<1>5. CASE Environment
  BY <1>3, <1>4, <1>5, EnvironmentFrame DEF AuthorityInv, local
<1>6. ASSUME NEW r \in Clients, Act(r)
      PROVE  \A s \in Clients \ {r} : Authority(s)' /\ Permitted(s)'
  BY <1>3, <1>6, ActFrame DEF OthersStay
<1>7. ASSUME NEW r \in Clients, Act(r)
      PROVE  Authority(r)' /\ Permitted(r)'
  <2>. USE DEF rows, local, delegations
  <2>1. ASSUME ~Changes(r)' \/ pc'[r] \notin {"decide", "write", "commit"}
        PROVE  Authority(r)' /\ Permitted(r)'
    BY <2>1 DEF Authority, Permitted
  <2>2. ASSUME NEW q \in Workload, Refuse(r, q)
        PROVE  Authority(r)' /\ Permitted(r)'
    BY <1>3, <2>2 DEF Refuse
  <2>3. ASSUME NEW q \in Workload, Load(r, q)
        PROVE  Authority(r)' /\ Permitted(r)'
    BY <2>1, <2>3 DEF Load, Changes, AccessActions, TypeOK
  <2>4. CASE AuthorizeGlobally(r)
    <3>1. by[r] = None /\ IsGlobalAdmin(ask[r].actor)
      BY <2>4 DEF AuthorizeGlobally, ControlInv, Control
    <3>2. pc'[r] = "decide" /\ by' = by /\ ask' = ask
      BY <2>4 DEF AuthorizeGlobally, Goto, TypeOK
    <3>. QED
      BY <3>1, <3>2 DEF Authority, Permitted
  <2>5. CASE AuthorizeDelegate(r)
    <3>1. PICK i \in Matching(ask[r]) : by' = [by EXCEPT ![r] = i]
      BY <2>5 DEF AuthorizeDelegate
    <3>2. i \in DelegationIds /\ key[i] # None /\ key[i] \in Keys
      BY <3>1 DEF Matching, Effective, Present, TypeOK
    <3>3. Covers(i, ask[r].actor, ask[r].entitlement)
      BY <3>1, <3>2 DEF Matching, Covers, assignment_matches_entitlement
    <3>4. /\ pc'[r] = "decide" /\ by'[r] = i /\ ask' = ask /\ i # None
          /\ ~IsGlobalAdmin(ask[r].actor) /\ UNCHANGED <<ended, number>>
      BY <2>5, <3>1, <3>2 DEF AuthorizeDelegate, Goto, TypeOK, AccessAssumption
    <3>5. ended[i] = 0
      BY <3>1, <3>2 DEF Matching, EndInv
    <3>6. InForce(by[r], number[r])'
      BY <3>4, <3>5 DEF InForce
    <3>. QED
      BY <1>2, <3>3, <3>4, <3>6 DEF Authority, Permitted
  <2>6. CASE DenyUndelegated(r)
    BY <2>1, <2>6 DEF DenyUndelegated, Outcome, TypeOK
  <2>7. CASE Deny(r)
    BY <2>1, <2>7 DEF Deny, Outcome, TypeOK
  <2>8. CASE Allow(r)
    <3>1. /\ pc[r] = "decide" /\ Denial(r) = "none" /\ pc'[r] = "write"
          /\ UNCHANGED <<by, ask, key, ended, number>>
      BY <2>8 DEF Allow, Goto, TypeOK
    <3>2. Changes(r)
      BY <3>1 DEF ControlInv, Control, Changes, Running
    <3>3. IF by[r] = None THEN IsGlobalAdmin(ask[r].actor)
          ELSE /\ ~IsGlobalAdmin(ask[r].actor)
               /\ Covers(by[r], ask[r].actor, ask[r].entitlement)
               /\ InForce(by[r], number[r])
      BY <3>1, <3>2 DEF AuthorityInv, Authority
    <3>4. Authority(r)'
      BY <1>2, <3>1, <3>3 DEF Authority, InForce
    <3>5. Permitted(r)'
      BY <3>1, <3>2, <3>3, PolicyPermits DEF Permitted, Changes
    <3>. QED
      BY <3>4, <3>5
  <2>9. ASSUME NEW answer, Return(r, answer)
        PROVE  Authority(r)' /\ Permitted(r)'
    BY <2>1, <2>9, ReturnFrame
  <2>10. CASE WriteGrant(r)
    BY <1>3, <2>9, <2>10 DEF WriteGrant, Write, Abort, Goto, TypeOK
  <2>11. CASE WriteRevoke(r)
    BY <1>3, <2>9, <2>11 DEF WriteRevoke, Write, Abort, Goto, TypeOK
  <2>12. CASE WriteAssign(r)
    BY <1>3, <2>9, <2>12 DEF WriteAssign, Write, Abort, Goto, TypeOK
  <2>13. CASE WriteRemove(r)
    BY <1>3, <2>9, <2>13 DEF WriteRemove, Write, Abort, Goto, TypeOK
  <2>14. CASE CommitGrant(r)
    BY <2>1, <2>14 DEF CommitGrant, Outcome, TypeOK
  <2>15. CASE CommitRevoke(r)
    BY <2>1, <2>15 DEF CommitRevoke, Outcome, TypeOK
  <2>16. CASE CommitAssign(r)
    BY <2>1, <2>16 DEF CommitAssign, Outcome, TypeOK
  <2>17. CASE CommitRemove(r)
    BY <2>1, <2>17 DEF CommitRemove, Outcome, TypeOK
  <2>18. CASE Publish(r)
    BY <2>1, <2>9, <2>18 DEF Publish, TypeOK
  <2>19. CASE Reread(r)
    BY <2>9, <2>19 DEF Reread
  <2>. QED
    BY <1>7, <2>2, <2>3, <2>4, <2>5, <2>6, <2>7, <2>8, <2>10, <2>11, <2>12, <2>13,
       <2>14, <2>15, <2>16, <2>17, <2>18, <2>19 DEF Act, Step
<1>8. ASSUME NEW r \in Clients, Act(r)
      PROVE  \A a \in audit' : Recorded(a)'
  <2>1. ASSUME CommitGrant(r) \/ CommitRevoke(r), NEW a \in Rows(r, "succeeded")
        PROVE  Recorded(a)'
    <3>1. /\ pc[r] = "commit" /\ Changes(r) /\ UNCHANGED <<key, ended>>
          /\ audit' = audit \cup Rows(r, "succeeded")
      BY <2>1 DEF CommitGrant, CommitRevoke, Commit, Changes, Running, AccessActions,
                  delegations
    <3>2. Authority(r) /\ Permitted(r)
      BY DEF AuthorityInv
    <3>3. CASE a = Row(r, ask[r].kind, "succeeded")
      <4>1. /\ a.actor = ask[r].actor /\ a.target = ask[r].target
            /\ a.entitlement = ask[r].entitlement /\ a.action = ask[r].kind
            /\ a.request = number[r]
        BY <3>3 DEF Row
      <4>2. /\ a.action = "grant" /\ ApplicationOf[a.entitlement] \in FinancePortal =>
                  a.target \in Finance
        BY <3>1, <3>2, <4>1 DEF Permitted
      <4>3. CASE by[r] = None
        BY <3>1, <3>2, <4>1, <4>2, <4>3 DEF Authority, Recorded
      <4>4. CASE by[r] # None
        <5>1. /\ by[r] \in DelegationIds /\ key[by[r]] # None
              /\ Permits(by[r], a) /\ InForce(by[r], number[r])
          BY <3>1, <3>2, <4>1, <4>4
          DEF Authority, Permitted, Covers, Permits, AccessAssumption
        <5>2. PICK b, i : b = AllowedRow(r, by[r]) /\ i = by[r]
          OBVIOUS
        <5>3. b \in audit'
          BY <3>1, <4>4, <5>2 DEF Rows
        <5>4. /\ b.request = number[r] /\ b.action = "delegated_action_allowed"
              /\ b.delegation = i
          BY <5>2, AllowedRowFields
        <5>5. Permits(i, a)' /\ InForce(i, a.request)' /\ key'[i] # None
          BY <3>1, <4>1, <5>1, <5>2 DEF Permits, InForce
        <5>6. Authorises(b, a)'
          BY <4>1, <5>1, <5>2, <5>4, <5>5 DEF Authorises
        <5>. QED
          BY <4>2, <5>3, <5>6 DEF Recorded
      <4>. QED
        BY <4>3, <4>4
    <3>4. CASE a = AllowedRow(r, by[r])
      BY <3>4, AllowedRowFields DEF Recorded, AccessActions
    <3>. QED
      BY <2>1, <3>3, <3>4 DEF Rows
  <2>2. CASE CommitGrant(r) \/ CommitRevoke(r)
    BY <1>4, <2>1, <2>2 DEF CommitGrant, CommitRevoke
  <2>3. CASE DenyUndelegated(r)
    BY <1>4, <2>3 DEF DenyUndelegated, Row, Recorded
  <2>4. CASE Deny(r)
    <3>1. \A a \in Rows(r, "denied") : a.result # "succeeded"
      BY AllowedRowFields DEF Rows, Row
    <3>. QED
      BY <1>4, <2>4, <3>1 DEF Deny, Recorded
  <2>5. CASE CommitAssign(r)
    BY <1>4, <2>5 DEF CommitAssign, DelegationRow, Recorded, AccessActions
  <2>6. CASE CommitRemove(r)
    BY <1>4, <2>6 DEF CommitRemove, DelegationRow, Recorded, AccessActions
  <2>. QED
    BY <1>4, <1>8, <2>2, <2>3, <2>4, <2>5, <2>6, TableFrame
<1>. QED
  BY <1>5, <1>6, <1>7, <1>8, NextSteps DEF AuthorityInv

-----------------------------------------------------------------------------
LEMMA AccessChanges ==
    ASSUME TypeOK, [Next]_vars, NEW p \in Pairs
    PROVE  \/ access'[p] \in {access[p], 0}
           \/ \E r \in Clients : CommitGrant(r) /\ access'[p] = fresh[r]
<1>1. CASE access' = access
  BY <1>1
<1>2. ASSUME NEW r \in Clients, CommitGrant(r)
      PROVE  access'[p] \in {access[p], fresh[r]}
  BY <1>2 DEF CommitGrant, TypeOK
<1>3. ASSUME NEW r \in Clients, CommitRevoke(r)
      PROVE  access'[p] \in {access[p], 0}
  BY <1>3 DEF CommitRevoke, Remaining, TypeOK
<1>. QED
  BY <1>1, <1>2, <1>3, NextSteps, EnvironmentFrame, TableFrame

LEMMA FoundChanges ==
    ASSUME TypeOK, ControlInv, [Next]_vars, NEW s \in Clients
    PROVE  found'[s] \in {found[s], 0} \/ \E p \in Pairs : found'[s] = access[p]
<1>1. CASE Environment
  BY <1>1, EnvironmentFrame DEF local
<1>2. ASSUME NEW r \in Clients, Act(r), r # s
      PROVE  found'[s] = found[s]
  BY <1>2, ActFrame DEF OthersStay
<1>3. ASSUME Act(s)
      PROVE  found'[s] \in {found[s], 0} \/ \E p \in Pairs : found'[s] = access[p]
  <2>1. CASE Allow(s)
    <3>1. Pair(ask[s]) \in Pairs /\ found'[s] = access[Pair(ask[s])]
      BY <2>1 DEF Allow, ControlInv, Control, Changes, Running, Pair, Pairs, TypeOK
    <3>. QED
      BY <3>1
  <2>2. CASE \E answer : Return(s, answer)
    BY <2>2, ReturnFrame
  <2>3. CASE found' = found
    BY <2>3
  <2>. QED
    BY <1>3, <2>1, <2>2, <2>3
    DEF Act, Step, rows, local, Refuse, Load, AuthorizeGlobally, AuthorizeDelegate,
        DenyUndelegated, Deny, Abort, WriteGrant, WriteRevoke, WriteAssign,
        WriteRemove, CommitGrant, CommitRevoke, CommitAssign, CommitRemove, Publish,
        Reread
<1>. QED
  BY <1>1, <1>2, <1>3, NextSteps

(* A request that is about to insert an assignment was so before, with the *)
(* same id, or has just drawn it.                                          *)
LEMMA GrantingFrom ==
    ASSUME TypeOK, [Next]_vars, NEW r \in Clients, Granting(r)'
    PROVE  \/ Granting(r) /\ fresh'[r] = fresh[r] /\ ~CommitGrant(r)
           \/ /\ WriteGrant(r) /\ fresh'[r] = nextAccess
              /\ UNCHANGED <<access, found>>
<1>1. CASE Environment
  <2>1. Granting(r) /\ fresh'[r] = fresh[r] /\ pc'[r] = "commit"
    BY <1>1, EnvironmentFrame DEF Granting, local
  <2>. QED
    BY <2>1 DEF CommitGrant, Outcome, TypeOK
<1>2. ASSUME NEW s \in Clients, Act(s), s # r
      PROVE  Granting(r) /\ fresh'[r] = fresh[r] /\ ~CommitGrant(r)
  <2>1. Granting(r) /\ fresh'[r] = fresh[r] /\ pc'[r] = "commit"
    BY <1>2, ActFrame DEF OthersStay, Granting
  <2>. QED
    BY <2>1 DEF CommitGrant, Outcome, TypeOK
<1>3. CASE Act(r)
  <2>1. WriteGrant(r) /\ pc'[r] = "commit"
    BY <1>3, EnterCommit DEF Granting, WriteGrant, WriteRevoke, WriteAssign,
                             WriteRemove, Write
  <2>. QED
    BY <2>1, ReturnFrame DEF WriteGrant, Abort, Goto, TypeOK, rows
<1>. QED
  BY <1>1, <1>2, <1>3, NextSteps

(* So for one that is about to delete an assignment. *)
LEMMA RevokingFrom ==
    ASSUME TypeOK, ControlInv, [Next]_vars, NEW r \in Clients, Revoking(r)'
    PROVE  \/ /\ Revoking(r) /\ UNCHANGED <<ask[r], found[r]>>
           \/ /\ Allow(r) /\ found'[r] = access[Pair(ask[r])] /\ access[Pair(ask[r])] # 0
              /\ Pair(ask[r]) \in Pairs /\ UNCHANGED <<access, ask>>
<1>1. CASE Environment
  BY <1>1, EnvironmentFrame DEF Revoking, local
<1>2. ASSUME NEW s \in Clients, Act(s), s # r
      PROVE  Revoking(r) /\ UNCHANGED <<ask[r], found[r]>>
  BY <1>2, ActFrame DEF OthersStay, Revoking
<1>3. CASE Act(r)
  <2>. USE DEF rows, local
  <2>1. CASE Allow(r)
    <3>1. /\ pc[r] = "decide" /\ Denial(r) = "none" /\ UNCHANGED <<access, ask>>
          /\ found'[r] = access[Pair(ask[r])]
      BY <2>1 DEF Allow, Goto, TypeOK
    <3>2. ask[r].kind = "revoke" /\ Pair(ask[r]) \in Pairs
      BY <3>1 DEF Revoking, ControlInv, Control, Changes, Running, Pair, Pairs
    <3>. QED
      BY <2>1, <3>1, <3>2 DEF Denial
  <2>2. CASE pc'[r] = "commit"
    BY <1>3, <2>2, EnterCommit, ReturnFrame
    DEF Revoking, WriteGrant, WriteRevoke, WriteAssign, WriteRemove, Write, Abort, Goto
  <2>3. ASSUME NEW q \in Workload, Refuse(r, q) \/ Load(r, q)
        PROVE  FALSE
    BY <2>3 DEF Revoking, Refuse, Ask, Load, TypeOK
  <2>4. CASE pc'[r] = "write" /\ Step(r) /\ ~Allow(r)
    BY <2>4, ReturnFrame
    DEF Step, AuthorizeGlobally, AuthorizeDelegate, DenyUndelegated, Deny, Goto,
        Outcome, WriteGrant, WriteRevoke, WriteAssign, WriteRemove, Abort,
        CommitGrant, CommitRevoke, CommitAssign, CommitRemove, Publish, Reread, TypeOK
  <2>. QED
    BY <1>3, <2>1, <2>2, <2>3, <2>4 DEF Revoking, Act
<1>. QED
  BY <1>1, <1>2, <1>3, NextSteps

LEMMA RevokedFrom ==
    ASSUME TypeOK, [Next]_vars, NEW r \in Clients, Revoked(r)'
    PROVE  (Revoked(r) /\ found'[r] = found[r]) \/ CommitRevoke(r)
<1>1. CASE Environment
  BY <1>1, EnvironmentFrame DEF Revoked, local
<1>2. ASSUME NEW s \in Clients, Act(s), s # r
      PROVE  Revoked(r) /\ found'[r] = found[r]
  BY <1>2, ActFrame DEF OthersStay, Revoked
<1>3. CASE Act(r)
  <2>. USE ReturnFrame DEF Revoked, rows, local
  <2>1. \A q \in Workload : ~Refuse(r, q) /\ ~Load(r, q)
    BY DEF Refuse, Ask, Load, TypeOK
  <2>2. ~AuthorizeGlobally(r) /\ ~AuthorizeDelegate(r) /\ ~Allow(r)
    BY DEF AuthorizeGlobally, AuthorizeDelegate, Allow, Goto, TypeOK
  <2>3. ~DenyUndelegated(r) /\ ~Deny(r)
    BY DEF DenyUndelegated, Deny, Denial, Outcome, TypeOK
  <2>4. ~WriteGrant(r) /\ ~WriteRevoke(r) /\ ~WriteAssign(r) /\ ~WriteRemove(r)
    BY DEF WriteGrant, WriteRevoke, WriteAssign, WriteRemove, Abort, Goto, TypeOK
  <2>5. ~CommitGrant(r) /\ ~CommitAssign(r) /\ ~CommitRemove(r)
    BY DEF CommitGrant, CommitAssign, CommitRemove, Commit
  <2>6. ~Publish(r) /\ ~Reread(r)
    BY DEF Publish, Reread, TypeOK
  <2>. QED
    BY <1>3, <2>1, <2>2, <2>3, <2>4, <2>5, <2>6 DEF Act, Step
<1>. QED
  BY <1>1, <1>2, <1>3, NextSteps

LEMMA IdStep ==
    ASSUME TypeOK, ControlInv, IdInv, [Next]_vars
    PROVE  IdInv'
<1>1. nextAccess \in Nat /\ \A p \in Pairs : access[p] \in 0 .. nextAccess - 1
  BY DEF TypeOK
<1>2. \A s \in Clients : found[s] \in 0 .. nextAccess - 1
  BY DEF TypeOK
<1>3. \A r \in Clients : Granting(r) => fresh[r] \in 1 .. nextAccess - 1 /\ fresh[r] # 0
  BY <1>1 DEF ControlInv, Control
<1>4. \A r \in Clients : CommitGrant(r) => Granting(r)
  BY DEF CommitGrant, Commit, Granting
<1>5. ASSUME NEW n, n # 0, \A p \in Pairs : access[p] # n,
             \A r \in Clients : CommitGrant(r) => fresh[r] # n
      PROVE  \A p \in Pairs : access'[p] # n
  BY <1>5, AccessChanges
<1>6. ASSUME NEW p \in Pairs, NEW o \in Pairs, access'[p] = access'[o]
      PROVE  p = o \/ access'[p] = 0
  <2>1. ASSUME NEW r \in Clients, CommitGrant(r)
        PROVE  p = o \/ access'[p] = 0
    <3>1. access' = [access EXCEPT ![Pair(ask[r])] = fresh[r]] /\ Granting(r)
      BY <2>1, <1>4 DEF CommitGrant
    <3>2. access[p] # fresh[r] /\ access[o] # fresh[r]
      BY <3>1 DEF IdInv
    <3>. QED
      BY <1>6, <3>1, <3>2 DEF IdInv, TypeOK
  <2>2. CASE access'[p] \in {access[p], 0} /\ access'[o] \in {access[o], 0}
    BY <1>6, <2>2 DEF IdInv
  <2>. QED
    BY <2>1, <2>2, AccessChanges
<1>7. ASSUME NEW r \in Clients, Granting(r)'
      PROVE  /\ \A p \in Pairs : access'[p] # fresh'[r]
             /\ \A s \in Clients : found'[s] # fresh'[r]
             /\ \A s \in Clients : Granting(s)' /\ fresh'[r] = fresh'[s] => r = s
  <2>1. CASE Granting(r) /\ fresh'[r] = fresh[r] /\ ~CommitGrant(r)
    <3>1. \A s \in Clients : CommitGrant(s) => fresh[s] # fresh[r]
      BY <1>4, <2>1 DEF IdInv
    <3>2. \A p \in Pairs : access'[p] # fresh'[r]
      BY <1>3, <1>5, <2>1, <3>1 DEF IdInv
    <3>3. \A s \in Clients : found'[s] # fresh'[r]
      BY <1>3, <2>1, FoundChanges DEF IdInv
    <3>4. ASSUME NEW s \in Clients, Granting(s)', fresh'[r] = fresh'[s]
          PROVE  r = s
      <4>1. CASE Granting(s) /\ fresh'[s] = fresh[s]
        BY <2>1, <3>4, <4>1 DEF IdInv
      <4>2. fresh[r] # nextAccess
        BY <1>1, <1>3, <2>1
      <4>. QED
        BY <2>1, <3>4, <4>1, <4>2, GrantingFrom
    <3>. QED
      BY <3>2, <3>3, <3>4
  <2>2. CASE WriteGrant(r) /\ fresh'[r] = nextAccess /\ UNCHANGED <<access, found>>
    <3>1. \A p \in Pairs : access'[p] # nextAccess
      BY <1>1, <2>2
    <3>2. \A s \in Clients : found'[s] # nextAccess
      BY <1>1, <1>2, <2>2
    <3>3. ASSUME NEW s \in Clients, Granting(s)', s # r
          PROVE  fresh'[s] # nextAccess
      <4>1. OthersStay(r)
        BY <2>2, ActFrame DEF Act, Step
      <4>2. Granting(s) /\ fresh'[s] = fresh[s]
        BY <3>3, <4>1 DEF OthersStay, Granting
      <4>. QED
        BY <1>1, <1>3, <4>2
    <3>. QED
      BY <2>2, <3>1, <3>2, <3>3
  <2>. QED
    BY <1>7, <2>1, <2>2, GrantingFrom
<1>8. \A r, s \in Clients : CommitGrant(s) => fresh[s] # found[r]
  BY <1>4 DEF IdInv
<1>9. ASSUME NEW r \in Clients, Revoking(r)'
      PROVE  /\ found'[r] # 0
             /\ \A p \in Pairs : p # Pair(ask'[r]) => access'[p] # found'[r]
  <2>1. CASE Revoking(r) /\ UNCHANGED <<ask[r], found[r]>>
    <3>1. found[r] # 0 /\ \A p \in Pairs : p # Pair(ask[r]) => access[p] # found[r]
      BY <2>1 DEF IdInv
    <3>2. Pair(ask'[r]) = Pair(ask[r])
      BY <2>1 DEF Pair
    <3>. QED
      BY <1>8, <2>1, <3>1, <3>2, AccessChanges
  <2>2. CASE /\ Allow(r) /\ found'[r] = access[Pair(ask[r])] /\ access[Pair(ask[r])] # 0
             /\ Pair(ask[r]) \in Pairs /\ UNCHANGED <<access, ask>>
    BY <2>2 DEF IdInv
  <2>. QED
    BY <1>9, <2>1, <2>2, RevokingFrom
<1>10. ASSUME NEW r \in Clients, Revoked(r)'
       PROVE  found'[r] # 0 /\ \A p \in Pairs : access'[p] # found'[r]
  <2>1. CASE Revoked(r) /\ found'[r] = found[r]
    BY <1>5, <1>8, <2>1 DEF IdInv
  <2>2. CASE CommitRevoke(r)
    <3>1. /\ Revoking(r) /\ found' = found
          /\ access' = [access EXCEPT ![Pair(ask[r])] = Remaining(r, @)]
      BY <2>2 DEF CommitRevoke, Commit, Revoking
    <3>2. found[r] # 0 /\ \A p \in Pairs : p # Pair(ask[r]) => access[p] # found[r]
      BY <3>1 DEF IdInv
    <3>. QED
      BY <3>1, <3>2 DEF Remaining, TypeOK
  <2>. QED
    BY <1>10, <2>1, <2>2, RevokedFrom
<1>. QED
  BY <1>6, <1>7, <1>9, <1>10 DEF IdInv

-----------------------------------------------------------------------------
LEMMA ControlIsKept == Spec => [](TypeOK /\ ControlInv /\ KeyInv)
<1>1. Init => TypeOK /\ ControlInv /\ KeyInv
  <2>1. ASSUME Init PROVE KeyInv
    <3>1. PICK n \in 1 .. MaxDelegations + 1 :
             nextDelegation = n /\ DOMAIN Delegated = 1 .. n - 1
      BY <2>1 DEF Init
    <3>2. \A i \in DelegationIds : key[i] # None => i < nextDelegation
      BY <2>1, <3>1, AccessAssumption DEF Init, DelegationIds, AccessAssumption
    <3>. QED
      BY <2>1, <3>2 DEF Init, KeyInv, Assigning
  <2>. QED
    BY <2>1, InitTypes, AccessAssumption
<1>2. TypeOK /\ ControlInv /\ KeyInv /\ [Next]_vars
        => (TypeOK /\ ControlInv /\ KeyInv)'
  BY TypesStep, ControlStep, KeyStep, PolicyAssumption, AccessAssumption
<1>. QED
  BY <1>1, <1>2, PTL DEF Spec

(***************************************************************************)
(* Rows, audit entries and what a handler keeps between its statements are *)
(* well-typed, and ids of assignments come from the sequence.              *)
(***************************************************************************)
THEOREM TypeCorrect == Spec => []TypeOK
BY ControlIsKept, PTL

LEMMA AuthorityIsKept == Spec => [](NumberInv /\ EndInv /\ AuthorityInv)
<1>1. Init => NumberInv /\ EndInv /\ AuthorityInv
  <2>1. ASSUME Init PROVE EndInv
    <3>1. PICK n \in 0 .. MaxDelegations : Delegated \in [1 .. n -> Keys]
      BY AccessAssumption DEF AccessAssumption
    <3>2. \A i \in DOMAIN Delegated : i \in DelegationIds /\ Delegated[i] # None
      BY <3>1, AccessAssumption DEF AccessAssumption, DelegationIds
    <3>. QED
      BY <2>1, <3>2 DEF Init, EndInv
  <2>. QED
    BY <2>1 DEF Init, NumberInv, AuthorityInv, Authority, Permitted, Changes, Running, Open
<1>2. NumberInv /\ EndInv /\ AuthorityInv /\ TypeOK /\ ControlInv /\ KeyInv /\ [Next]_vars
        => (NumberInv /\ EndInv /\ AuthorityInv)'
  BY NumberStep, EndStep, AuthorityStep, AccessAssumption
<1>. QED
  BY <1>1, <1>2, ControlIsKept, PTL DEF Spec

(***************************************************************************)
(* grant_access and revoke_access: whatever is assigned, removed, expires  *)
(* or is deactivated meanwhile, every change on record has a global        *)
(* administrator behind it, or an authorisation on record that names a     *)
(* delegation which covers it and was in force when the request was made.  *)
(***************************************************************************)
THEOREM AccessIsJustified == Spec => []ChangesAreJustified
<1>1. AuthorityInv => ChangesAreJustified
  BY DEF AuthorityInv, Recorded, Authorises, ChangesAreJustified, Justified, EntriesOf
<1>. QED
  BY <1>1, AuthorityIsKept, PTL

(***************************************************************************)
(* revoke_access: the DELETE by id removes what the request found, however *)
(* grants and revocations of the same access overlap with it.              *)
(***************************************************************************)
THEOREM RevocationTakesEffect == Spec => []RevokedIsGone
<1>1. Init => IdInv
  BY AccessAssumption DEF Init, IdInv, Granting, Revoking, Revoked, AccessAssumption
<1>2. IdInv /\ TypeOK /\ ControlInv /\ KeyInv /\ [Next]_vars => IdInv'
  BY IdStep
<1>3. IdInv => RevokedIsGone
  BY DEF IdInv, RevokedIsGone, Revoked
<1>. QED
  BY <1>1, <1>2, <1>3, ControlIsKept, PTL DEF Spec
-----------------------------------------------------------------------------
(***************************************************************************)
(* The audit log: what the decision of a request records balances with     *)
(* what it changes, and its event follows from the same decision.          *)
(***************************************************************************)
(* No two requests insert the same access, and none inserts what is held.  *)
GrantInv ==
    \A r \in Clients : Granting(r) =>
        /\ access[Pair(ask[r])] = 0
        /\ \A s \in Clients : Granting(s) /\ Pair(ask[s]) = Pair(ask[r]) => s = r

(* The entries of one request: none, or its authorisation and its outcome. *)
Allowed(n) == EntriesOf(n, {"delegated_action_allowed"})
Outcomes(n) == {a \in EntriesOf(n, AccessActions) : ByDelegate(a)}

SameChange(a, b) ==
    a.actor = b.actor /\ a.target = b.target /\ a.entitlement = b.entitlement

PairedInv ==
    \A n \in 1 .. MaxRequests :
        \/ Allowed(n) = {} /\ Outcomes(n) = {}
        \/ \E a \in Allowed(n), b \in Outcomes(n) :
              Allowed(n) = {a} /\ Outcomes(n) = {b} /\ SameChange(a, b)

Held(p) == IF access[p] = 0 THEN 0 ELSE 1
HeldAtFirst(p) == IF InitialAccess[p] = 0 THEN 0 ELSE 1

BalanceInv ==
    /\ IsFiniteSet(audit)
    /\ \A p \in Pairs :
          /\ HeldAtFirst(p) + OnRecord(p, "grant") <= Held(p) + OnRecord(p, "revoke")
          /\ Held(p) <= HeldAtFirst(p) + OnRecord(p, "grant")

Pending(r) == IF pc[r] = "publish" /\ event[r] # None
                THEN {[request |-> number[r], type |-> event[r]]} ELSE {}

EventInv == Announced = published \cup UNION {Pending(r) : r \in Clients}

LEMMA GrantStep ==
    ASSUME AccessAssumption, TypeOK, ControlInv, GrantInv, [Next]_vars
    PROVE  GrantInv'
<1>1. ASSUME NEW r \in Clients, Granting(r)'
      PROVE  \/ Granting(r) /\ ask'[r] = ask[r] /\ ~CommitGrant(r)
             \/ /\ WriteGrant(r) /\ UNCHANGED <<ask, access>>
                /\ access[Pair(ask[r])] = 0
                /\ \A s \in Clients : Granting(s) /\ Pair(ask[s]) = Pair(ask[r]) => s = r
                /\ \A s \in Clients \ {r} : Granting(s)' <=> Granting(s)
  <2>1. CASE Environment
    <3>1. Granting(r) /\ ask'[r] = ask[r] /\ pc'[r] = "commit"
      BY <1>1, <2>1, EnvironmentFrame DEF Granting, local
    <3>. QED
      BY <3>1 DEF CommitGrant, Outcome, TypeOK
  <2>2. ASSUME NEW s \in Clients, Act(s), s # r
        PROVE  Granting(r) /\ ask'[r] = ask[r] /\ ~CommitGrant(r)
    <3>1. Granting(r) /\ ask'[r] = ask[r] /\ pc'[r] = "commit"
      BY <1>1, <2>2, ActFrame DEF OthersStay, Granting
    <3>. QED
      BY <3>1 DEF CommitGrant, Outcome, TypeOK
  <2>3. CASE Act(r)
    <3>1. WriteGrant(r) /\ pc'[r] = "commit" /\ ask' = ask
      BY <1>1, <2>3, EnterCommit
      DEF Granting, WriteGrant, WriteRevoke, WriteAssign, WriteRemove, Write
    <3>2. ~Granted(r) /\ access' = access
      BY <3>1, ReturnFrame DEF WriteGrant, Abort, Goto, rows
    <3>3. \A s \in Clients \ {r} : Granting(s)' <=> Granting(s)
      BY <2>3, ActFrame DEF OthersStay, Granting
    <3>4. ASSUME NEW s \in Clients, s # r, Granting(s), Pair(ask[s]) = Pair(ask[r])
          PROVE  FALSE
      <4>1. ask[r].kind = "grant" /\ ~Blocked(r)
        BY <3>1 DEF WriteGrant, Write
      <4>2. Writing(s) /\ Waits(r, s)
        BY <3>4, <4>1 DEF Granting, Writing, Waits, GrantWaits
      <4>. QED
        BY <3>4, <4>1, <4>2 DEF Blocked
    <3>. QED
      BY <3>1, <3>2, <3>3, <3>4 DEF Granted
  <2>. QED
    BY <2>1, <2>2, <2>3, NextSteps
<1>2. ASSUME NEW r \in Clients, Granting(r)', Granting(r), ask'[r] = ask[r], ~CommitGrant(r)
      PROVE  access'[Pair(ask[r])] = 0
  <2>1. Pair(ask[r]) \in Pairs /\ access[Pair(ask[r])] = 0
    BY <1>2 DEF GrantInv, ControlInv, Control, Changes, Running, Granting, AccessActions,
                Pair, Pairs
  <2>2. ASSUME NEW s \in Clients, CommitGrant(s)
        PROVE  access'[Pair(ask[r])] = 0
    <3>1. Granting(s) /\ s # r
      BY <1>2, <2>2 DEF CommitGrant, Commit, Granting
    <3>2. Pair(ask[s]) # Pair(ask[r])
      BY <1>2, <3>1 DEF GrantInv
    <3>. QED
      BY <2>1, <2>2, <3>2 DEF CommitGrant, TypeOK
  <2>. QED
    BY <2>1, <2>2, AccessChanges
<1>3. ASSUME NEW r \in Clients, Granting(r)'
      PROVE  /\ access'[Pair(ask'[r])] = 0
             /\ \A s \in Clients : Granting(s)' /\ Pair(ask'[s]) = Pair(ask'[r]) => s = r
  <2>1. CASE Granting(r) /\ ask'[r] = ask[r] /\ ~CommitGrant(r)
    <3>1. access'[Pair(ask'[r])] = 0
      BY <1>2, <1>3, <2>1
    <3>2. ASSUME NEW s \in Clients, Granting(s)', Pair(ask'[s]) = Pair(ask'[r]), s # r
          PROVE  FALSE
      <4>1. CASE Granting(s) /\ ask'[s] = ask[s]
        BY <2>1, <3>2, <4>1 DEF GrantInv
      <4>. QED
        BY <1>1, <2>1, <3>2, <4>1
    <3>. QED
      BY <3>1, <3>2
  <2>2. CASE /\ WriteGrant(r) /\ UNCHANGED <<ask, access>>
             /\ access[Pair(ask[r])] = 0
             /\ \A s \in Clients : Granting(s) /\ Pair(ask[s]) = Pair(ask[r]) => s = r
             /\ \A s \in Clients \ {r} : Granting(s)' <=> Granting(s)
    BY <2>2
  <2>. QED
    BY <1>1, <1>3, <2>1, <2>2
<1>4. \A r \in Clients : Pair(ask[r])' = Pair(ask'[r])
  BY DEF Pair
<1>. QED
  BY <1>3, <1>4 DEF GrantInv

(* What a decision writes: an entry, with the authorisation it used.       *)
LEMMA DecisionEntries ==
    ASSUME TypeOK, ControlInv, NEW r \in Clients, Decides(r)
    PROVE  \/ /\ Deny(r) /\ ask[r].kind \in AccessActions
              /\ audit' = audit \cup Rows(r, "denied")
           \/ /\ CommitGrant(r) \/ CommitRevoke(r)
              /\ ask[r].kind = (IF CommitGrant(r) THEN "grant" ELSE "revoke")
              /\ audit' = audit \cup Rows(r, "succeeded")
           \/ \E a : /\ audit' = audit \cup {a}
                     /\ a.request = number[r]
                     /\ \/ /\ DenyUndelegated(r) /\ a.result = "denied"
                           /\ a.action = "delegated_action_denied" /\ ByDelegate(a)
                           /\ event'[r] = "DelegatedAccessDenied"
                        \/ /\ CommitAssign(r) /\ a.action = "delegation_assigned"
                           /\ event'[r] = "DelegationAssigned"
                        \/ /\ CommitRemove(r) /\ a.action = "delegation_removed"
                           /\ event'[r] = "DelegationRemoved"
<1>1. CASE Deny(r)
  BY <1>1 DEF Deny, ControlInv, Control
<1>2. CASE CommitGrant(r)
  BY <1>2 DEF CommitGrant, Commit
<1>3. CASE CommitRevoke(r)
  BY <1>3 DEF CommitRevoke, CommitGrant, Commit
<1>4. CASE DenyUndelegated(r)
  <2>1. PICK a : a = Row(r, "delegated_action_denied", "denied")
    OBVIOUS
  <2>2. audit' = audit \cup {a} /\ event'[r] = "DelegatedAccessDenied"
    BY <1>4, <2>1 DEF DenyUndelegated, Outcome, TypeOK
  <2>3. /\ a.request = number[r] /\ a.result = "denied" /\ ByDelegate(a)
        /\ a.action = "delegated_action_denied"
    BY <1>4, <2>1 DEF Row, DenyUndelegated, ByDelegate
  <2>. QED
    BY <1>4, <2>2, <2>3
<1>5. CASE CommitAssign(r)
  <2>2. PICK a : a = DelegationRow(r, "delegation_assigned", fresh[r], ask[r].key.delegate)
    OBVIOUS
  <2>3. audit' = audit \cup {a} /\ event'[r] = "DelegationAssigned"
    BY <1>5, <2>2 DEF CommitAssign, Outcome, TypeOK
  <2>4. a.request = number[r] /\ a.action = "delegation_assigned"
    BY <2>2 DEF DelegationRow
  <2>. QED
    BY <1>5, <2>3, <2>4
<1>6. CASE CommitRemove(r)
  <2>2. PICK a : a = DelegationRow(r, "delegation_removed", ask[r].id,
                                   key[ask[r].id].delegate)
    OBVIOUS
  <2>3. audit' = audit \cup {a} /\ event'[r] = "DelegationRemoved"
    BY <1>6, <2>2 DEF CommitRemove, Outcome, TypeOK
  <2>4. a.request = number[r] /\ a.action = "delegation_removed"
    BY <2>2 DEF DelegationRow
  <2>. QED
    BY <1>6, <2>3, <2>4
<1>. QED
  BY <1>1, <1>2, <1>3, <1>4, <1>5, <1>6 DEF Decides

(* Exactly the requests of delegates were authorised by a delegation.      *)
LEMMA DelegatesAreAuthorised ==
    ASSUME ControlInv, AuthorityInv, NEW r \in Clients,
           Deny(r) \/ CommitGrant(r) \/ CommitRevoke(r)
    PROVE  by[r] = None <=> IsGlobalAdmin(ask[r].actor)
<1>1. pc[r] \in {"decide", "commit"} /\ Changes(r)
  BY DEF Deny, CommitGrant, CommitRevoke, Commit, ControlInv, Control, Changes, Running,
         AccessActions
<1>. QED
  BY <1>1 DEF AuthorityInv, Authority

LEMMA PairedStep ==
    ASSUME AccessAssumption, TypeOK, ControlInv, NumberInv, AuthorityInv, PairedInv,
           [Next]_vars
    PROVE  PairedInv'
<1>1. ASSUME audit' = audit PROVE PairedInv'
  BY <1>1 DEF PairedInv, Allowed, Outcomes, EntriesOf
<1>2. ASSUME NEW r \in Clients, Decides(r)
      PROVE  PairedInv'
  <2>1. PICK n : n = number[r]
    OBVIOUS
  <2>2. /\ audit \subseteq audit' /\ \A a \in audit : a.request # n
        /\ \A a \in audit' \ audit : a.request = n
    BY <1>2, <2>1, DecisionFrame DEF NumberInv
  <2>3. ASSUME NEW m \in 1 .. MaxRequests, m # n
        PROVE  Allowed(m)' = Allowed(m) /\ Outcomes(m)' = Outcomes(m)
    BY <2>2, <2>3 DEF Allowed, Outcomes, EntriesOf
  <2>4. \/ Allowed(n)' = {} /\ Outcomes(n)' = {}
        \/ \E a \in Allowed(n)', b \in Outcomes(n)' :
              Allowed(n)' = {a} /\ Outcomes(n)' = {b} /\ SameChange(a, b)
    <3>1. ASSUME NEW result, audit' = audit \cup Rows(r, result),
                 ask[r].kind \in AccessActions,
                 by[r] = None <=> IsGlobalAdmin(ask[r].actor)
          PROVE  \/ Allowed(n)' = {} /\ Outcomes(n)' = {}
                 \/ \E a \in Allowed(n)', b \in Outcomes(n)' :
                       Allowed(n)' = {a} /\ Outcomes(n)' = {b} /\ SameChange(a, b)
      <4>1. PICK a, b : a = AllowedRow(r, by[r]) /\ b = Row(r, ask[r].kind, result)
        OBVIOUS
      <4>2. /\ a.request = n /\ b.request = n
            /\ a.action = "delegated_action_allowed" /\ b.action \in AccessActions
            /\ SameChange(a, b) /\ (ByDelegate(b) <=> by[r] # None)
        BY <2>1, <3>1, <4>1, AllowedRowFields DEF Row, SameChange, ByDelegate
      <4>3. CASE by[r] = None
        <5>1. audit' = audit \cup {b}
          BY <3>1, <4>1, <4>3 DEF Rows
        <5>. QED
          BY <2>2, <4>2, <4>3, <5>1 DEF Allowed, Outcomes, EntriesOf, AccessActions
      <4>4. CASE by[r] # None
        <5>1. audit' = audit \cup {a, b}
          BY <3>1, <4>1, <4>4 DEF Rows
        <5>2. Allowed(n)' = {a} /\ Outcomes(n)' = {b}
          BY <2>2, <4>2, <4>4, <5>1 DEF Allowed, Outcomes, EntriesOf, AccessActions
        <5>. QED
          BY <4>2, <5>2
      <4>. QED
        BY <4>3, <4>4
    <3>2. ASSUME NEW a, audit' = audit \cup {a},
                 a.action \notin AccessActions \cup {"delegated_action_allowed"}
          PROVE  Allowed(n)' = {} /\ Outcomes(n)' = {}
      BY <2>2, <3>2 DEF Allowed, Outcomes, EntriesOf
    <3>. QED
      BY <1>2, <3>1, <3>2, DecisionEntries, DelegatesAreAuthorised DEF AccessActions
  <2>. QED
    BY <2>3, <2>4 DEF PairedInv
<1>. QED
  BY <1>1, <1>2, NextSteps, TableFrame, EnvironmentFrame DEF Decides

(* An entry on record is counted once.                                     *)
Entries(p, action) ==
    {a \in audit : /\ <<a.target, a.entitlement>> = p
                   /\ a.action = action /\ a.result = "succeeded"}

LEMMA OnRecordGrows ==
    ASSUME IsFiniteSet(audit), NEW T, IsFiniteSet(T), audit' = audit \cup T,
           NEW p, NEW action
    PROVE  /\ OnRecord(p, action) \in Nat
           /\ (\A a \in T : a \notin Entries(p, action)') =>
                  OnRecord(p, action)' = OnRecord(p, action)
           /\ (\E a \in T : /\ a \notin audit
                            /\ \A b \in T : b \in Entries(p, action)' <=> b = a) =>
                  OnRecord(p, action)' = OnRecord(p, action) + 1
<1>1. OnRecord(p, action) = Cardinality(Entries(p, action))
  BY DEF OnRecord, Entries
<1>2. OnRecord(p, action)' = Cardinality(Entries(p, action)')
  BY DEF OnRecord, Entries
<1>3. IsFiniteSet(Entries(p, action)) /\ Cardinality(Entries(p, action)) \in Nat
  <2>1. Entries(p, action) \in SUBSET audit
    BY DEF Entries
  <2>. QED
    BY <2>1, FS_Subset, FS_CardinalityType
<1>4. ASSUME \A a \in T : a \notin Entries(p, action)'
      PROVE  Entries(p, action)' = Entries(p, action)
  BY <1>4 DEF Entries
<1>5. ASSUME NEW a \in T, a \notin audit, \A b \in T : b \in Entries(p, action)' <=> b = a
      PROVE  Cardinality(Entries(p, action)') = Cardinality(Entries(p, action)) + 1
  <2>1. /\ Entries(p, action)' = Entries(p, action) \cup {a}
        /\ a \notin Entries(p, action)
    BY <1>5 DEF Entries
  <2>. QED
    BY <1>3, <2>1, FS_AddElement
<1>. QED
  BY <1>1, <1>2, <1>3, <1>4, <1>5

LEMMA BalanceStep ==
    ASSUME AccessAssumption, TypeOK, ControlInv, NumberInv, GrantInv, BalanceInv, [Next]_vars
    PROVE  BalanceInv'
<1>1. \A p \in Pairs : /\ Held(p) \in {0, 1} /\ Held(p)' \in {0, 1}
                       /\ HeldAtFirst(p) \in {0, 1} /\ HeldAtFirst(p)' = HeldAtFirst(p)
  BY DEF Held, HeldAtFirst
<1>2. ASSUME UNCHANGED <<audit, access>>
      PROVE  BalanceInv'
  BY <1>2 DEF BalanceInv, Held, HeldAtFirst, OnRecord
<1>3. IsFiniteSet(audit)
  BY DEF BalanceInv
<1>4. ASSUME NEW r \in Clients, NEW result
      PROVE  IsFiniteSet(Rows(r, result))
  BY FS_EmptySet, FS_Singleton, FS_Union DEF Rows
<1>5. ASSUME NEW T, IsFiniteSet(T), audit' = audit \cup T, access' = access,
             \A a \in T : a.action \notin AccessActions \/ a.result # "succeeded"
      PROVE  BalanceInv'
  <2>1. IsFiniteSet(audit')
    BY <1>3, <1>5, FS_Union
  <2>2. ASSUME NEW p, NEW action \in AccessActions
        PROVE  OnRecord(p, action)' = OnRecord(p, action)
    <3>1. \A a \in T : a \notin Entries(p, action)'
      BY <1>5, <2>2 DEF Entries
    <3>. QED
      BY <1>3, <1>5, <3>1, OnRecordGrows
  <2>3. \A p \in Pairs : Held(p)' = Held(p)
    BY <1>5 DEF Held
  <2>. QED
    BY <1>1, <2>1, <2>2, <2>3 DEF BalanceInv, AccessActions
<1>6. ASSUME NEW r \in Clients, CommitGrant(r) \/ CommitRevoke(r)
      PROVE  BalanceInv'
  <2>. DEFINE T == Rows(r, "succeeded")
  <2>1. PICK k, o, row : /\ k = ask[r].kind /\ o = Pair(ask[r])
                         /\ row = Row(r, ask[r].kind, "succeeded")
    OBVIOUS
  <2>2. /\ k = (IF CommitGrant(r) THEN "grant" ELSE "revoke") /\ k \in AccessActions
        /\ o \in Pairs /\ audit' = audit \cup T
    <3>1. k = (IF CommitGrant(r) THEN "grant" ELSE "revoke")
      BY <1>6, <2>1 DEF CommitGrant, CommitRevoke, Commit
    <3>2. pc[r] = "commit" /\ audit' = audit \cup T
      BY <1>6 DEF CommitGrant, CommitRevoke, Commit
    <3>. QED
      BY <2>1, <3>1, <3>2
      DEF ControlInv, Control, Changes, Running, AccessActions, Pair, Pairs
  <2>3. row \in T /\ row \notin audit
    <3>1. row.request = number[r]
      BY <2>1 DEF Row
    <3>2. Open(r)
      BY <1>6 DEF CommitGrant, CommitRevoke, Commit, Open
    <3>. QED
      BY <2>1, <3>1, <3>2 DEF Rows, NumberInv
  <2>4. \A a \in T : a.action \in AccessActions => a = row
    BY <2>1, AllowedRowFields DEF Rows, AccessActions
  <2>5. row.target = o[1] /\ row.entitlement = o[2] /\ row.action = k /\ row.result = "succeeded"
    BY <2>1 DEF Row, Pair
  <2>6. o = <<o[1], o[2]>>
    BY <2>1 DEF Pair
  <2>7. IsFiniteSet(T) /\ IsFiniteSet(audit')
    BY <1>3, <1>4, <2>2, FS_Union
  <2>. HIDE DEF T
  <2>8. ASSUME NEW p \in Pairs, NEW action \in AccessActions
        PROVE  /\ OnRecord(p, action) \in Nat
               /\ OnRecord(p, action)' = IF p = o /\ action = k THEN OnRecord(p, action) + 1
                                         ELSE OnRecord(p, action)
    <3>1. CASE p = o /\ action = k
      <4>1. \A b \in T : b \in Entries(p, action)' <=> b = row
        BY <2>2, <2>3, <2>4, <2>5, <2>6, <3>1 DEF Entries
      <4>. QED
        BY <1>3, <2>2, <2>3, <2>7, <3>1, <4>1, OnRecordGrows
    <3>2. CASE ~(p = o /\ action = k)
      <4>1. \A a \in T : a \notin Entries(p, action)'
        BY <2>4, <2>5, <2>6, <2>8, <3>2 DEF Entries
      <4>. QED
        BY <1>3, <2>2, <2>7, <3>2, <4>1, OnRecordGrows
    <3>. QED
      BY <3>1, <3>2
  <2>9. ASSUME NEW p \in Pairs
        PROVE  /\ CommitGrant(r) => Held(p)' = IF p = o THEN 1 ELSE Held(p)
               /\ CommitGrant(r) /\ p = o => Held(p) = 0
               /\ ~CommitGrant(r) => IF p = o THEN Held(p)' \in {0, Held(p)}
                                     ELSE Held(p)' = Held(p)
    <3>1. CASE CommitGrant(r)
      <4>1. Granting(r) /\ access' = [access EXCEPT ![o] = fresh[r]]
        BY <2>1, <3>1 DEF CommitGrant, Commit, Granting
      <4>2. access[o] = 0 /\ fresh[r] # 0
        BY <2>1, <4>1 DEF GrantInv, ControlInv, Control, TypeOK
      <4>. QED
        BY <2>2, <3>1, <4>1, <4>2 DEF Held, TypeOK
    <3>2. CASE ~CommitGrant(r)
      <4>1. access' = [access EXCEPT ![o] = Remaining(r, access[o])]
        BY <1>6, <2>1, <3>2 DEF CommitRevoke
      <4>2. access'[p] = IF p = o THEN Remaining(r, access[p]) ELSE access[p]
        BY <4>1 DEF TypeOK
      <4>. QED
        BY <3>2, <4>2 DEF Held, Remaining
    <3>. QED
      BY <3>1, <3>2
  <2>10. ASSUME NEW p \in Pairs
         PROVE  /\ HeldAtFirst(p) + OnRecord(p, "grant")' <= Held(p)' + OnRecord(p, "revoke")'
                /\ Held(p)' <= HeldAtFirst(p) + OnRecord(p, "grant")'
    <3>1. /\ HeldAtFirst(p) + OnRecord(p, "grant") <= Held(p) + OnRecord(p, "revoke")
          /\ Held(p) <= HeldAtFirst(p) + OnRecord(p, "grant")
      BY DEF BalanceInv
    <3>2. OnRecord(p, "grant") \in Nat /\ OnRecord(p, "revoke") \in Nat
      BY <2>8 DEF AccessActions
    <3>3. CASE CommitGrant(r)
      <4>1. /\ OnRecord(p, "grant")' = IF p = o THEN OnRecord(p, "grant") + 1
                                       ELSE OnRecord(p, "grant")
            /\ OnRecord(p, "revoke")' = OnRecord(p, "revoke")
        BY <2>2, <2>8, <3>3 DEF AccessActions
      <4>. QED
        BY <1>1, <2>9, <3>1, <3>2, <3>3, <4>1
    <3>4. CASE ~CommitGrant(r)
      <4>1. /\ OnRecord(p, "revoke")' = IF p = o THEN OnRecord(p, "revoke") + 1
                                        ELSE OnRecord(p, "revoke")
            /\ OnRecord(p, "grant")' = OnRecord(p, "grant")
        BY <2>2, <2>8, <3>4 DEF AccessActions
      <4>. QED
        BY <1>1, <2>9, <3>1, <3>2, <3>4, <4>1
    <3>. QED
      BY <3>3, <3>4
  <2>. QED
    BY <1>1, <2>7, <2>10 DEF BalanceInv
<1>7. ASSUME NEW r \in Clients, DenyUndelegated(r) \/ Deny(r) \/ CommitAssign(r) \/ CommitRemove(r)
      PROVE  BalanceInv'
  <2>1. access' = access
    BY <1>7 DEF DenyUndelegated, Deny, CommitAssign, CommitRemove
  <2>2. CASE audit' = audit \cup Rows(r, "denied")
    <3>1. \A a \in Rows(r, "denied") : a.result # "succeeded"
      BY AllowedRowFields DEF Rows, Row
    <3>. QED
      BY <1>4, <1>5, <2>1, <2>2, <3>1
  <2>3. ASSUME NEW a, audit' = audit \cup {a}, a.action \notin AccessActions
        PROVE  BalanceInv'
    BY <1>5, <2>1, <2>3, FS_Singleton
  <2>. QED
    BY <1>7, <2>2, <2>3
    DEF DenyUndelegated, Deny, CommitAssign, CommitRemove, Row, DelegationRow, AccessActions
<1>. QED
  BY <1>2, <1>6, <1>7, NextSteps, TableFrame, EnvironmentFrame

LEMMA EventsOf ==
    ASSUME AccessAssumption, NEW a
    PROVE  /\ a.action = "delegation_assigned" => EventOf(a) = "DelegationAssigned"
           /\ a.action = "delegation_removed" => EventOf(a) = "DelegationRemoved"
           /\ a.action \notin {"delegation_assigned", "delegation_removed"} =>
                 EventOf(a) = IF a.result = "succeeded" THEN "DelegatedAccessGranted"
                              ELSE "DelegatedAccessDenied"
BY DEF EventOf

(* The event of a decision is the one its entries announce.                *)
LEMMA DecisionEvent ==
    ASSUME AccessAssumption, TypeOK, ControlInv, AuthorityInv, NEW r \in Clients,
           Decides(r)
    PROVE  Announced' = Announced \cup Pending(r)'
<1>1. PICK n : n = number[r]
  OBVIOUS
<1>2. pc'[r] = "publish" /\ number'[r] = n
  BY <1>1, DecisionFrame
<1>3. Pending(r)' = IF event'[r] # None THEN {[request |-> n, type |-> event'[r]]} ELSE {}
  BY <1>2 DEF Pending
<1>4. ASSUME NEW T, audit' = audit \cup T,
             IF event'[r] = None THEN \A a \in T : ~Announces(a)
             ELSE \E a \in T : /\ a.request = n /\ EventOf(a) = event'[r]
                               /\ \A b \in T : Announces(b) <=> b = a
      PROVE  Announced' = Announced \cup Pending(r)'
  <2>1. Announced' = Announced \cup
          {[request |-> a.request, type |-> EventOf(a)] : a \in {a \in T : Announces(a)}}
    BY <1>4 DEF Announced, Announces, EventOf, ByDelegate
  <2>2. {[request |-> a.request, type |-> EventOf(a)] : a \in {a \in T : Announces(a)}}
          = Pending(r)'
    <3>1. CASE event'[r] = None
      BY <1>3, <1>4, <3>1
    <3>2. CASE event'[r] # None
      <4>1. PICK a \in T : /\ a.request = n /\ EventOf(a) = event'[r]
                           /\ \A b \in T : Announces(b) <=> b = a
        BY <1>4, <3>2
      <4>2. {b \in T : Announces(b)} = {a}
        BY <4>1
      <4>. QED
        BY <1>3, <3>2, <4>1, <4>2
    <3>. QED
      BY <3>1, <3>2
  <2>. QED
    BY <2>1, <2>2
<1>5. ASSUME NEW result, audit' = audit \cup Rows(r, result), ask[r].kind \in AccessActions,
             by[r] = None <=> IsGlobalAdmin(ask[r].actor),
             event'[r] = IF by[r] = None THEN None
                         ELSE IF result = "succeeded" THEN "DelegatedAccessGranted"
                         ELSE "DelegatedAccessDenied"
      PROVE  Announced' = Announced \cup Pending(r)'
  <2>. DEFINE T == Rows(r, result)
  <2>1. PICK a, b : a = Row(r, ask[r].kind, result) /\ b = AllowedRow(r, by[r])
    OBVIOUS
  <2>2. /\ a.request = n /\ a.action = ask[r].kind /\ a.result = result
        /\ ByDelegate(a) <=> by[r] # None
        /\ b.action = "delegated_action_allowed"
    BY <1>1, <1>5, <2>1, AllowedRowFields DEF Row, ByDelegate
  <2>3. T = IF by[r] = None THEN {a} ELSE {a, b}
    BY <2>1 DEF Rows
  <2>4. ~Announces(b) /\ (Announces(a) <=> by[r] # None)
    BY <1>5, <2>2 DEF Announces, AccessActions
  <2>5. EventOf(a) = IF result = "succeeded" THEN "DelegatedAccessGranted"
                     ELSE "DelegatedAccessDenied"
    BY <1>5, <2>2, EventsOf DEF AccessActions
  <2>. HIDE DEF T
  <2>6. CASE by[r] = None
    <3>1. audit' = audit \cup T /\ event'[r] = None /\ \A x \in T : ~Announces(x)
      BY <1>5, <2>3, <2>4, <2>6 DEF T
    <3>. QED
      BY <1>4, <3>1
  <2>7. CASE by[r] # None
    <3>1. audit' = audit \cup T /\ event'[r] = EventOf(a) /\ a \in T
          /\ \A x \in T : Announces(x) <=> x = a
      BY <1>5, <2>3, <2>4, <2>5, <2>7 DEF T
    <3>2. event'[r] # None
      BY <2>5, <3>1 DEF AccessAssumption, DelegationEvent
    <3>. QED
      BY <1>4, <2>2, <3>1, <3>2
  <2>. QED
    BY <2>6, <2>7
<1>6. ASSUME NEW a, audit' = audit \cup {a}, a.request = n, Announces(a),
             EventOf(a) = event'[r], event'[r] # None
      PROVE  Announced' = Announced \cup Pending(r)'
  <2>1. PICK T : T = {a}
    OBVIOUS
  <2>. QED
    BY <1>4, <1>6, <2>1
<1>7. CASE Deny(r)
  <2>1. /\ ask[r].kind \in AccessActions /\ audit' = audit \cup Rows(r, "denied")
        /\ event'[r] = IF by[r] = None THEN None ELSE "DelegatedAccessDenied"
    BY <1>7 DEF Deny, Outcome, ControlInv, Control, TypeOK
  <2>. QED
    BY <1>5, <1>7, <2>1, DelegatesAreAuthorised
<1>8. CASE CommitGrant(r) \/ CommitRevoke(r)
  <2>1. /\ ask[r].kind \in AccessActions /\ audit' = audit \cup Rows(r, "succeeded")
        /\ event'[r] = IF by[r] = None THEN None ELSE "DelegatedAccessGranted"
    BY <1>8 DEF CommitGrant, CommitRevoke, Commit, Outcome, GrantedEvent, AccessActions, TypeOK
  <2>. QED
    BY <1>5, <1>8, <2>1, DelegatesAreAuthorised
<1>9. CASE DenyUndelegated(r) \/ CommitAssign(r) \/ CommitRemove(r)
  <2>1. PICK a : /\ audit' = audit \cup {a}
                 /\ a.request = n
                 /\ \/ /\ a.result = "denied" /\ a.action = "delegated_action_denied"
                       /\ event'[r] = "DelegatedAccessDenied" /\ ByDelegate(a)
                    \/ /\ a.action = "delegation_assigned"
                       /\ event'[r] = "DelegationAssigned"
                    \/ /\ a.action = "delegation_removed"
                       /\ event'[r] = "DelegationRemoved"
    <3>1. ~Deny(r) /\ ~CommitGrant(r) /\ ~CommitRevoke(r)
      BY <1>9
      DEF DenyUndelegated, Deny, CommitGrant, CommitRevoke, CommitAssign, CommitRemove, Commit
    <3>. QED
      BY <1>1, <3>1, DecisionEntries
  <2>2. event'[r] # None /\ EventOf(a) = event'[r] /\ Announces(a)
    BY <2>1, EventsOf DEF Announces, AccessAssumption, DelegationEvent
  <2>. QED
    BY <1>6, <2>1, <2>2
<1>. QED
  BY <1>7, <1>8, <1>9 DEF Decides

LEMMA EventFrame ==
    ASSUME TypeOK, NEW r \in Clients, Act(r), NEW s \in Clients \ {r}
    PROVE  event'[s] = event[s] /\ Pending(s)' = Pending(s)
<1>1. ASSUME NEW answer, Return(r, answer)
      PROVE  event'[s] = event[s]
  BY <1>1 DEF Return, TypeOK
<1>2. event'[s] = event[s]
  BY <1>1
  DEF Act, Step, rows, local, Refuse, Load, AuthorizeGlobally, AuthorizeDelegate,
      DenyUndelegated, Deny, Allow, Outcome, Abort, Goto, WriteGrant, WriteRevoke,
      WriteAssign, WriteRemove, CommitGrant, CommitRevoke, CommitAssign, CommitRemove,
      Publish, Reread, TypeOK
<1>3. pc'[s] = pc[s] /\ number'[s] = number[s]
  BY ActFrame DEF OthersStay
<1>. QED
  BY <1>2, <1>3 DEF Pending

LEMMA EventStep ==
    ASSUME AccessAssumption, TypeOK, ControlInv, AuthorityInv, EventInv, [Next]_vars
    PROVE  EventInv'
<1>1. ASSUME UNCHANGED <<audit, published>>, \A s \in Clients : Pending(s)' = Pending(s)
      PROVE  EventInv'
  BY <1>1 DEF EventInv, Announced, Announces, ByDelegate, EventOf
<1>2. CASE Environment
  <2>1. published' = published
    BY <1>2 DEF Environment, Expire, SetActive, Review, Change, vars
  <2>2. \A s \in Clients : Pending(s)' = Pending(s)
    BY <1>2, EnvironmentFrame DEF Pending, local
  <2>. QED
    BY <1>1, <1>2, <2>1, <2>2, EnvironmentFrame
<1>3. ASSUME NEW r \in Clients, Decides(r)
      PROVE  EventInv'
  <2>1. Pending(r) = {} /\ published' = published
    BY <1>3, DecisionFrame DEF Pending, Open
  <2>2. Announced' = Announced \cup Pending(r)'
    BY <1>3, DecisionEvent
  <2>3. \A s \in Clients \ {r} : Pending(s)' = Pending(s)
    BY <1>3, EventFrame DEF Decides, Act, Step
  <2>. QED
    BY <2>1, <2>2, <2>3 DEF EventInv
<1>4. ASSUME NEW r \in Clients, Publish(r)
      PROVE  EventInv'
  <2>1. published' = published \cup Pending(r) /\ audit' = audit
    BY <1>4 DEF Publish, Pending, rows
  <2>2. pc'[r] # "publish"
    BY <1>4, ReturnFrame DEF Publish, TypeOK
  <2>3. Pending(r)' = {}
    BY <2>2 DEF Pending
  <2>4. \A s \in Clients \ {r} : Pending(s)' = Pending(s)
    BY <1>4, EventFrame DEF Act, Step
  <2>5. Announced' = Announced
    BY <2>1 DEF Announced, Announces, ByDelegate, EventOf
  <2>. QED
    BY <2>1, <2>3, <2>4, <2>5 DEF EventInv
<1>5. ASSUME NEW r \in Clients, Act(r), ~Decides(r), ~Publish(r)
      PROVE  EventInv'
  <2>1. audit' = audit
    BY <1>5, TableFrame DEF Decides
  <2>2. published' = published
    BY <1>5
    DEF Act, Step, Decides, rows, local, Refuse, Load, AuthorizeGlobally, AuthorizeDelegate,
        Allow, Abort, Goto, WriteGrant, WriteRevoke, WriteAssign, WriteRemove, Reread
  <2>3. pc[r] # "publish" /\ pc'[r] # "publish"
    <3>1. \A answer : Abort(r, answer) => pc'[r] = "idle"
      BY ReturnFrame DEF Abort
    <3>2. \A q \in Workload : Refuse(r, q) \/ Load(r, q) =>
             pc[r] # "publish" /\ pc'[r] # "publish"
      BY DEF Refuse, Ask, Load, TypeOK
    <3>3. AuthorizeGlobally(r) \/ AuthorizeDelegate(r) \/ Allow(r) =>
             pc[r] # "publish" /\ pc'[r] # "publish"
      BY DEF AuthorizeGlobally, AuthorizeDelegate, Allow, Goto, TypeOK
    <3>4. WriteGrant(r) \/ WriteRevoke(r) \/ WriteAssign(r) \/ WriteRemove(r) =>
             pc[r] # "publish" /\ pc'[r] # "publish"
      BY <3>1 DEF WriteGrant, WriteRevoke, WriteAssign, WriteRemove, Write, Goto, TypeOK
    <3>5. Reread(r) => pc[r] # "publish" /\ pc'[r] # "publish"
      BY ReturnFrame DEF Reread
    <3>. QED
      BY <1>5, <3>2, <3>3, <3>4, <3>5 DEF Act, Step, Decides
  <2>4. \A s \in Clients \ {r} : Pending(s)' = Pending(s)
    BY <1>5, EventFrame
  <2>5. Pending(r)' = {} /\ Pending(r) = {}
    BY <2>3 DEF Pending
  <2>. QED
    BY <1>1, <2>1, <2>2, <2>4, <2>5
<1>. QED
  BY <1>2, <1>3, <1>4, <1>5, NextSteps

(***************************************************************************)
(* AuditIsComplete: however grants, revocations, denials and changes of    *)
(* the delegations overlap, the audit log accounts for all access, every   *)
(* use of a delegation has its one outcome, and the events published are   *)
(* those of its entries.                                                   *)
(***************************************************************************)
THEOREM AuditStaysComplete == Spec => []AuditIsComplete
<1>. USE AccessAssumption
<1>1. Init => GrantInv /\ PairedInv /\ EventInv
  BY DEF Init, GrantInv, PairedInv, EventInv, Running, Open, Granting, Allowed,
         Outcomes, EntriesOf, Announced, Pending
<1>2. Init => BalanceInv
  <2>. SUFFICES ASSUME Init PROVE BalanceInv
    OBVIOUS
  <2>1. audit = {} /\ access = InitialAccess
    BY DEF Init
  <2>2. \A p, action : OnRecord(p, action) = 0
    BY <2>1, FS_EmptySet DEF OnRecord
  <2>. QED
    BY <2>1, <2>2, FS_EmptySet DEF BalanceInv, Held, HeldAtFirst
<1>3. TypeOK /\ ControlInv /\ NumberInv /\ AuthorityInv /\ GrantInv /\ PairedInv /\ BalanceInv /\ EventInv
        /\ [Next]_vars
        => GrantInv' /\ PairedInv' /\ BalanceInv' /\ EventInv'
  <2>. SUFFICES ASSUME TypeOK, ControlInv, NumberInv, AuthorityInv, GrantInv, PairedInv,
                       BalanceInv, EventInv, [Next]_vars
                PROVE  GrantInv' /\ PairedInv' /\ BalanceInv' /\ EventInv'
    OBVIOUS
  <2>1. GrantInv'
    BY GrantStep
  <2>2. PairedInv'
    BY PairedStep
  <2>3. BalanceInv'
    BY BalanceStep
  <2>4. EventInv'
    BY EventStep
  <2>. QED
    BY <2>1, <2>2, <2>3, <2>4
<1>4. PairedInv => AuthorisationsHaveOutcomes
  <2>. SUFFICES ASSUME PairedInv, NEW n \in 1 .. MaxRequests
                PROVE  /\ Cardinality(Allowed(n)) = Cardinality(Outcomes(n))
                       /\ \A a \in Allowed(n), b \in Outcomes(n) : SameChange(a, b)
    BY DEF AuthorisationsHaveOutcomes, Allowed, Outcomes, SameChange
  <2>1. CASE Allowed(n) = {} /\ Outcomes(n) = {}
    BY <2>1
  <2>2. ASSUME NEW a, NEW b, Allowed(n) = {a}, Outcomes(n) = {b}, SameChange(a, b)
        PROVE  /\ Cardinality(Allowed(n)) = Cardinality(Outcomes(n))
               /\ \A x \in Allowed(n), y \in Outcomes(n) : SameChange(x, y)
    BY <2>2, FS_Singleton
  <2>. QED
    BY <2>1, <2>2 DEF PairedInv
<1>5. BalanceInv => AuditAccountsForAccess
  BY DEF BalanceInv, AuditAccountsForAccess, Held, HeldAtFirst
<1>6. EventInv => EventsFollowAudit
  BY DEF EventInv, EventsFollowAudit, Pending
<1>7. AuditAccountsForAccess /\ AuthorisationsHaveOutcomes /\ EventsFollowAudit
        => AuditIsComplete
  BY DEF AuditIsComplete
<1>. QED
  BY <1>1, <1>2, <1>3, <1>4, <1>5, <1>6, <1>7, ControlIsKept, AuthorityIsKept, PTL
  DEF Spec
=============================================================================
