--------------------------- MODULE ScimUserPayload ---------------------------
(***************************************************************************)
(* What a SCIM User request asks for (app/scim/provisioning.py): POST and  *)
(* PUT carry a whole resource, PATCH a sequence of operations.  Each is    *)
(* parsed into a mutation, the value an attribute is to get or UNSET.      *)
(* Strings, emails and booleans are values; one the parser rejects is      *)
(* Malformed.                                                              *)
(***************************************************************************)
EXTENDS Naturals, Sequences, SequencesExt

CONSTANTS
    Value,      \* well-formed attribute values
    None,       \* JSON null, SQL NULL, no row
    UNSET,      \* an attribute the request does not mention
    Malformed,  \* a value the parser of its attribute rejects
    UserName    \* the value `remove displayName` stands for

Core == {"userName", "displayName", "active"}
Enterprise == {"employeeNumber", "department", "division", "organization",
               "costCenter", "manager"}
Attributes == Core \cup Enterprise

Extension == "enterprise"   \* the path that names the whole extension

(* Only the extension has null values, only a display name is inherited.   *)
Mutation ==
    {m \in [Attributes -> Value \cup {None, UNSET, UserName}] :
        \A a \in Attributes : /\ m[a] = None => a \in Enterprise
                              /\ m[a] = UserName => a = "displayName"}
Untouched == [a \in Attributes |-> UNSET]

(* The _parse functions of the attributes: null clears an attribute of the *)
(* extension, the core attributes are required.                            *)
Parsable(a, v) == v # Malformed /\ (a \in Core => v # None)

-----------------------------------------------------------------------------
(* A resource is a function from attributes to values; an absent extension *)
(* and one without attributes both clear the profile of a PUT and leave a  *)
(* POST without one.                                                       *)
ResourceParses(res) ==
    /\ {"userName", "displayName"} \subseteq {a \in Attributes : res[a] # UNSET}
    /\ \A a \in Attributes : Parsable(a, res[a])

ResourceMutation(res) ==
    [res EXCEPT !["active"] = IF @ = UNSET THEN "true" ELSE @]

(* replace_enterprise_profile: what a PUT does not mention becomes null.   *)
Replacing(m) ==
    [a \in Attributes |-> IF a \in Enterprise /\ m[a] = UNSET THEN None ELSE m[a]]

-----------------------------------------------------------------------------
(* A PATCH operation: its op, whether it has a path, and the paths and     *)
(* values it sets: one with a path, the items of the value without.        *)
Assignments(o) ==
    [i \in DOMAIN o.items |-> [op |-> o.op, path |-> o.items[i].path,
                               value |-> o.items[i].value]]

AssignmentParses(s) ==
    IF s.path = Extension
      THEN s.op = "remove" \/ (/\ s.value # Malformed
                               /\ \A a \in Enterprise : Parsable(a, s.value[a]))
      ELSE /\ s.path \in Attributes
           /\ IF s.op = "remove" THEN s.path # "userName" ELSE Parsable(s.path, s.value)

PatchParses(ops) ==
    /\ ops # <<>>
    /\ \A i \in DOMAIN ops :
          /\ ops[i].op \in {"add", "replace", "remove"}
          /\ ops[i].op = "remove" => ops[i].named
          /\ \A j \in DOMAIN ops[i].items : AssignmentParses(Assignments(ops[i])[j])

(* `remove` deactivates, names the user by their userName, clears.         *)
RemovedValue(path) == CASE path = "active"      -> "false"
                        [] path = "displayName" -> UserName
                        [] OTHER                -> None

Assigned(s) ==
    CASE s.path = Extension /\ s.op = "remove" ->
            [a \in Attributes |-> IF a \in Enterprise THEN None ELSE UNSET]
      [] s.path = Extension /\ s.op # "remove" ->
            [a \in Attributes |-> IF a \in Enterprise THEN s.value[a] ELSE UNSET]
      [] OTHER -> [Untouched EXCEPT
                     ![s.path] = IF s.op = "remove" THEN RemovedValue(s.path) ELSE s.value]

(* _merge_enterprise_mutation: what a later operation sets prevails.       *)
Overlay(m, n) == [a \in Attributes |-> IF n[a] = UNSET THEN m[a] ELSE n[a]]

PatchMutation(ops) ==
    LET all == FlattenSeq([i \in DOMAIN ops |-> Assignments(ops[i])])
    IN  FoldLeft(Overlay, Untouched, [i \in DOMAIN all |-> Assigned(all[i])])
=============================================================================
