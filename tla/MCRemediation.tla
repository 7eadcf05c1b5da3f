---------------------------- MODULE MCRemediation ----------------------------
(* Items on a working connector, on one that fails for longer than one     *)
(* execution retries, on a disabled one and on an unmapped application.    *)
EXTENDS Remediation

MCConnectors == {"github", "stubborn", "off"}
MCNames      == MCConnectors
MCNormal     == [n \in MCNames |-> n]
MCEnabled    == [c \in MCConnectors |-> c # "off"]
MCMode       == [c \in MCConnectors |-> "success"]
MCFailures   == [c \in MCConnectors |-> IF c = "stubborn" THEN 2 ELSE 0]
MCOperations == {"revoke_entitlement"}
MCSupported  == [c \in MCConnectors |-> MCOperations]

OneCampaign  == [i \in Items |-> 1]
AllRevoked   == {[i \in Items |-> "REVOKE"]}
OneApproved  == AllRevoked \cup {[i \in Items |-> IF i = 1 THEN "APPROVE" ELSE "REVOKE"]}

Mixed        == [i \in Items |-> CASE i < 3 -> "stubborn" [] i = 3 -> "off"
                                   [] OTHER -> NoConnector]
Unmapped     == [i \in Items |-> IF i = 2 THEN NoConnector ELSE "github"]

(* Every request has a correlation id of its own.                          *)
OwnIds       == [p \in Workers \X (1 .. MaxRuns) |-> p]
OwnIdSet     == Workers \X (1 .. MaxRuns)
=============================================================================
