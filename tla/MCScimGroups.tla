---------------------------- MODULE MCScimGroups ----------------------------
(* A group with two of four users as members, and ids for two more groups. *)
EXTENDS ScimGroups

MCGroups == {"g1", "g2", "g3"}
MCUsers == {"ann", "bob", "cyd", "dan"}
MCNames == {"Dev", "Ops", "ops"}
MCLower == [n \in MCNames |-> IF n = "Ops" THEN "ops" ELSE n]
MCInitialGroups == [g \in MCGroups |-> CASE g = "g1" -> "Dev" [] OTHER -> None]
MCInitialMembers == {<<"g1", "ann">>, <<"g1", "bob">>}

Post(n, m)    == [kind |-> "create", group |-> None, name |-> n, members |-> m]
Put(g, n, m)  == [kind |-> "replace", group |-> g, name |-> n, members |-> m]
Patch(g, ops) == [kind |-> "patch", group |-> g, operations |-> ops]
Op(op, p, v)  == [op |-> op, path |-> p, value |-> v]

(* A replacement, additions and removals that overlap with it, a rename,   *)
(* groups whose names differ in case, members added, removed and replaced  *)
(* before any is stored, and requests that are refused.                    *)
MCWorkload ==
    {Put("g1", "Ops", <<"cyd">>),
     Put("g1", "Dev", <<"cyd", "cyd">>),
     Patch("g1", <<Op("replace", "members", <<"dan", "cyd">>)>>),
     Patch("g1", <<Op("add", "members", <<"cyd", "dan">>), Op("replace", "displayName", "Dev")>>),
     Patch("g1", <<Op("remove", "filter", <<"ann">>)>>),
     Patch("g1", <<Op("add", "members", <<"cyd", "dan">>),
                   Op("remove", "members", <<"dan", "ann">>),
                   Op("replace", "members", <<"dan">>)>>),
     Patch("g1", <<Op("replace", "members", <<>>)>>),
     Patch("g2", <<Op("replace", "displayName", "Dev")>>),
     Patch("g1", <<Op("replace", "none", [displayName |-> "ops"]),
                   Op("remove", "members", <<"zed">>)>>),
     Patch("g1", <<Op("add", "displayName", Malformed)>>),
     Post("Ops", <<"cyd">>),
     Post("ops", <<>>)}

(* The group is replaced by itself.                                        *)
MCReplaceWorkload ==
    {Put("g1", "Dev", <<"ann">>), Post("Ops", <<"cyd">>),
     Patch("g1", <<Op("add", "members", <<"cyd">>)>>)}
=============================================================================
