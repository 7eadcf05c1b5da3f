---------------------------- MODULE AccessPolicy ----------------------------
(***************************************************************************)
(* Who may change whose access: operator roles (app/roles.py), the scopes  *)
(* and roles of delegated administration (app/delegation/validation.py),   *)
(* and the business policy (app/policy_engine.py).  Everything here is a   *)
(* function of rows that do not change while the program runs.             *)
(***************************************************************************)
EXTENDS Integers, FiniteSets

CONSTANTS
    Users,
    OperatorRole,   \* [Users -> users.operator_role]
    Finance,        \* users of the finance department
    Applications,
    FinancePortal,  \* the applications with slug finance-portal
    Entitlements,
    ApplicationOf,  \* [Entitlements -> Applications]
    Administrator,  \* entitlements with slug administrator
    Groups,
    None

ASSUME PolicyAssumption ==
    /\ Finance \subseteq Users
    /\ FinancePortal \subseteq Applications
    /\ ApplicationOf \in [Entitlements -> Applications]
    /\ Administrator \subseteq Entitlements
    /\ None \notin Users \cup Applications \cup Entitlements \cup Groups

-----------------------------------------------------------------------------
(* The aliases that rows written before the role names were unified use. *)
normalize_operator_role(role) ==
    CASE role = "administrator" -> "security_admin"
      [] role = "help_desk"     -> "helpdesk"
      [] OTHER                  -> role

GLOBAL_ADMIN_ROLES == {"security_admin", "iam_admin"}

RoleOf(user) == normalize_operator_role(OperatorRole[user])
IsGlobalAdmin(user) == RoleOf(user) \in GLOBAL_ADMIN_ROLES

(* None stands for an id that no row has. *)
DelegationScopes ==
    ({"APPLICATION"} \X (Applications \cup {None}))
      \cup ({"ENTITLEMENT"} \X (Entitlements \cup {None}))
      \cup ({"GROUP"} \X (Groups \cup {None}))

DelegationRole ==
    {"APPLICATION_OWNER", "APPLICATION_ADMINISTRATOR", "GROUP_OWNER",
     "GROUP_ADMINISTRATOR", "ACCESS_REVIEWER", "HELPDESK_DELEGATE"}

ACCESS_CHANGE_DELEGATION_ROLES ==
    {"APPLICATION_OWNER", "APPLICATION_ADMINISTRATOR", "HELPDESK_DELEGATE"}

DELEGATED_ADMIN_POLICY_ROLES ==
    {"APPLICATION_OWNER", "APPLICATION_ADMINISTRATOR"}

role_supports_scope(scope, role) ==
    CASE scope[1] = "APPLICATION" ->
            role \in ACCESS_CHANGE_DELEGATION_ROLES \cup {"ACCESS_REVIEWER"}
      [] scope[1] = "ENTITLEMENT" -> role \in ACCESS_CHANGE_DELEGATION_ROLES
      [] OTHER                    -> role \in {"GROUP_OWNER", "GROUP_ADMINISTRATOR"}

ScopeExists(scope) == scope[2] # None

(* _audit_reference_for_assignment finds an entitlement to audit against;  *)
(* that for groups, group-lifecycle, is seeded at start-up.                *)
Auditable(scope) ==
    scope[1] = "APPLICATION" =>
        \E e \in Entitlements : ApplicationOf[e] = scope[2]

(* Mutant of assignment_matches_entitlement: any application scope matches. *)
MatchesAnyApplication(scope, e) ==
    scope[1] = "APPLICATION" \/ scope = <<"ENTITLEMENT", e>>

assignment_matches_entitlement(scope, e) ==
    scope \in {<<"APPLICATION", ApplicationOf[e]>>, <<"ENTITLEMENT", e>>}

(***************************************************************************)
(* evaluate_grant_policy and evaluate_revoke_policy: live is which of      *)
(* "requester" and "target" are active users, role the delegation role or  *)
(* None.  The rules' order only decides which reason is given.             *)
(***************************************************************************)
AdministratorRule(requester, e, role) ==
    e \in Administrator =>
        IF role = None THEN IsGlobalAdmin(requester)
        ELSE role \in DELEGATED_ADMIN_POLICY_ROLES

RequesterRule(requester, live, role) ==
    /\ "requester" \in live
    /\ role = None => RoleOf(requester) \notin {"auditor", "employee"}
    /\ \/ role \in ACCESS_CHANGE_DELEGATION_ROLES
       \/ RoleOf(requester) \in GLOBAL_ADMIN_ROLES \cup {"helpdesk"}

TargetRule(target, live, e) ==
    /\ "target" \in live
    /\ ApplicationOf[e] \in FinancePortal => target \in Finance

evaluate_revoke_policy(requester, live, e, role) ==
    RequesterRule(requester, live, role) /\ AdministratorRule(requester, e, role)

evaluate_grant_policy(requester, target, live, e, role) ==
    /\ TargetRule(target, live, e)
    /\ evaluate_revoke_policy(requester, live, e, role)
=============================================================================
