----------------------------- MODULE MCScimUsers -----------------------------
(* Three users of a small firm, of whom ann is managed by bob, and a fourth *)
(* id for a user yet to be provisioned.                                    *)
EXTENDS ScimUsers

MCUsers == {"ann", "bob", "cyd", "dan"}
MCValue == MCUsers \cup {"ann@", "bob@", "cyd@", "dan@", "cy@", "Name", "true", "false",
                         "e7", "E7", "Sales", "Provisioned"}
MCLower == [v \in MCValue |-> IF v = "E7" THEN "e7" ELSE v]

Row(name, department) ==
    [a \in Columns |-> CASE a = "userName"    -> name
                         [] a = "displayName" -> "Name"
                         [] a = "active"      -> "true"
                         [] OTHER             -> department]

MCInitialUsers == [u \in MCUsers |-> CASE u = "ann" -> Row("ann@", "Sales")
                                       [] u = "bob" -> Row("bob@", "Provisioned")
                                       [] u = "cyd" -> Row("cyd@", "Provisioned")
                                       [] OTHER     -> None]
MCInitialProfiles ==
    [u \in MCUsers |->
        IF u = "ann" THEN [NoProfile EXCEPT !["manager"] = "bob", !["department"] = "Sales"]
        ELSE None]

Set(a, v)  == [op |-> "replace", named |-> TRUE, items |-> <<[path |-> a, value |-> v]>>]
Drop(a)    == [op |-> "remove", named |-> TRUE, items |-> <<[path |-> a, value |-> None]>>]
Items(s)   == [op |-> "add", named |-> FALSE, items |-> s]
Patch(u, ops) == [kind |-> "patch", target |-> u, operations |-> ops]
Whole(k, u, name, ext) ==
    [kind |-> k, target |-> u,
     resource |-> [a \in Attributes |-> CASE a = "userName"    -> name
                                          [] a = "displayName" -> "Name"
                                          [] a \in DOMAIN ext  -> ext[a]
                                          [] OTHER             -> UNSET]]

Managed(m) == [a \in {"manager"} |-> m]

(* Managers that would close a cycle of two and of three, numbers that     *)
(* differ in case, departments, renames that refer to each other's users,  *)
(* a profile to clear, and requests each check refuses.                    *)
MCWorkload ==
    {Patch("bob", <<Set("manager", "cyd")>>),
     Patch("cyd", <<Set("userName", "cy@"), Set("manager", "ann")>>),
     Patch("bob", <<Items(<<[path |-> "department", value |-> "Sales"],
                            [path |-> "employeeNumber", value |-> "e7"]>>)>>),
     Patch("ann", <<Drop("active"), Drop(Extension), Set("employeeNumber", "E7")>>),
     Patch("dan", <<Set("displayName", None)>>),
     Whole("replace", "ann", "dan@", Managed("cyd")),
     Whole("create", None, "dan@", Managed("ann"))}
=============================================================================
