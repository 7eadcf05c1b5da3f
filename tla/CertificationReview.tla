------------------------ MODULE CertificationReview ------------------------
(***************************************************************************)
(* What an access-review campaign promises, each operation in one step: a  *)
(* campaign is drafted under a name of its own, started with a fixed set   *)
(* of review items, collects decisions while it is active, and is closed   *)
(* once, either cancelled or completed with every item decided.            *)
(* CertificationCampaigns implements it as long as requests do not overlap.*)
(***************************************************************************)
CONSTANTS Campaigns, Assignments,
          Name      \* [Campaigns -> name, whatever its case]

VARIABLES phase,    \* [Campaigns -> status]
          verdict   \* [Campaigns -> [Assignments -> what was decided]]

Decided == {"APPROVE", "REVOKE", "ABSTAIN"}

Init ==
    /\ phase = [c \in Campaigns |-> "ABSENT"]
    /\ verdict = [c \in Campaigns |-> [a \in Assignments |-> "ABSENT"]]

Move(c, from, to) ==
    /\ phase[c] \in from
    /\ phase' = [phase EXCEPT ![c] = to]

Create(c) ==
    /\ Move(c, {"ABSENT"}, "DRAFT")
    /\ \A d \in Campaigns : phase[d] # "ABSENT" => Name[d] # Name[c]
    /\ UNCHANGED verdict

Start(c, S) ==
    /\ Move(c, {"DRAFT"}, "ACTIVE")
    /\ verdict' = [verdict EXCEPT ![c] =
                    [a \in Assignments |-> IF a \in S THEN "PENDING" ELSE "ABSENT"]]

Decide(c, a, d) ==
    /\ phase[c] = "ACTIVE"
    /\ verdict[c][a] # "ABSENT"
    /\ verdict' = [verdict EXCEPT ![c][a] = d]
    /\ UNCHANGED phase

Complete(c) ==
    /\ Move(c, {"ACTIVE"}, "COMPLETED")
    /\ \A a \in Assignments : verdict[c][a] # "PENDING"
    /\ UNCHANGED verdict

Cancel(c) == Move(c, {"DRAFT", "ACTIVE"}, "CANCELLED") /\ UNCHANGED verdict

Next ==
    \E c \in Campaigns :
        \/ Create(c) \/ Complete(c) \/ Cancel(c)
        \/ \E S \in SUBSET Assignments : Start(c, S)
        \/ \E a \in Assignments, d \in Decided : Decide(c, a, d)

Spec == Init /\ [][Next]_<<phase, verdict>>
=============================================================================
