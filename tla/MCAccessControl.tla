---------------------------- MODULE MCAccessControl ----------------------------
(* root administers under a legacy role name, desk is a helpdesk operator  *)
(* with three delegations, the first of which hides the second.            *)
EXTENDS AccessControl

MCUsers        == {"root", "desk", "emp"}
MCOperatorRole == [u \in MCUsers |-> CASE u = "root" -> "administrator"
                                       [] u = "desk" -> "help_desk"
                                       [] OTHER      -> "employee"]
MCEntitlements == {"admin", "read", "ledger"}
MCApplicationOf == [e \in MCEntitlements |-> IF e = "ledger" THEN "fin" ELSE "hr"]

Helpdesk == [delegate |-> "desk", scope |-> <<"APPLICATION", "hr">>,
             role |-> "HELPDESK_DELEGATE"]
Owner    == [delegate |-> "desk", scope |-> <<"ENTITLEMENT", "admin">>,
             role |-> "APPLICATION_OWNER"]
Reviewer == [delegate |-> "desk", scope |-> <<"APPLICATION", "fin">>,
             role |-> "ACCESS_REVIEWER"]
MCDelegated == <<Helpdesk, Owner, Reviewer>>

AChange(k, actor, target, e) ==
    [kind |-> k, actor |-> actor, target |-> target, entitlement |-> e]
Assign(actor, k, expires) ==
    [kind |-> "assign", actor |-> actor, key |-> k, expires |-> expires]
Remove(actor, i) == [kind |-> "remove", actor |-> actor, id |-> i]

MCInitialAccess == [p \in Pairs |-> IF p = <<"emp", "read">> THEN 1 ELSE 0]

(* Grants and delegated revocations of the same access, a grant that is    *)
(* denied or allowed by the delegation that comes first, one that no       *)
(* delegation permits, one that the policy denies, and changes of the      *)
(* delegations.                                                            *)
MCWorkload ==
    {AChange("grant", "root", "emp", "read"),   AChange("revoke", "desk", "emp", "read"),
     AChange("grant", "desk", "emp", "admin"),  AChange("grant", "desk", "root", "ledger"),
     AChange("grant", "root", "emp", "ledger"), Assign("root", Helpdesk, "later"),
     Remove("root", 1)}

Reassigning   == {Assign("root", Helpdesk, "never")} \cup {Remove("root", i) : i \in 1 .. 3}
OneDelegation == <<Helpdesk>>
=============================================================================
