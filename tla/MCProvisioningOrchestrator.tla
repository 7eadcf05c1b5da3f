--------------------- MODULE MCProvisioningOrchestrator ---------------------
(* Connectors of every kind: working, failing a few times first, failing   *)
(* more often than one execution retries, down, rejecting, disabled, and   *)
(* one that lacks an operation.                                            *)
EXTENDS ProvisioningOrchestrator

MCConnectors == {"github", "flaky", "stubborn", "down", "strict", "off", "partial"}
MCNames      == MCConnectors \cup {"GitHub ", "nowhere"}
MCNormal     == [n \in MCNames |-> IF n = "GitHub " THEN "github" ELSE n]
MCEnabled    == [c \in MCConnectors |-> c # "off"]
MCMode       == [c \in MCConnectors |-> CASE c = "down" -> "timeout"
                                          [] c = "strict" -> "validation_failure"
                                          [] OTHER -> "success"]
MCFailures   == [c \in MCConnectors |-> CASE c = "flaky" -> 1
                                          [] c = "stubborn" -> 4
                                          [] OTHER -> 0]
MCOperations == {"create_user", "revoke_entitlement", "health_check"}
MCSupported  == [c \in MCConnectors |->
                    IF c = "partial" THEN {"create_user"}
                    ELSE ConnectorOperation \ {"health_check"}]

Complete1(n, db, audited) ==
    [connector |-> n, operation |-> "revoke_entitlement",
     payload |-> {"user_id", "entitlement"}, correlation |-> "c1",
     db |-> db, audited |-> audited]

(* One thread makes two calls after each other, so that the second starts  *)
(* from the attempts the first left: every connector with a full payload,  *)
(* and the calls that fail dispatch.  Another thread makes one call.       *)
MCCalls ==
    {Complete1(n, TRUE, TRUE) : n \in MCNames}
      \cup {Complete1(n, FALSE, FALSE) : n \in {"flaky", "stubborn", "strict", "off"}}
      \cup {[Complete1("stubborn", TRUE, FALSE) EXCEPT !.correlation = "c2"],
            [Complete1("github", TRUE, TRUE) EXCEPT !.payload = {"user_id"}],
            [Complete1("github", TRUE, TRUE) EXCEPT !.operation = "health_check"],
            [Complete1("partial", TRUE, TRUE) EXCEPT !.operation = "create_user",
                                                   !.payload = {}]}

MCRequests == {"r1", "r2"}
MCWorkload == [r \in MCRequests |->
                 IF r = "r1" THEN MCCalls ELSE {Complete1(n, TRUE, TRUE) : n \in {"flaky", "strict"}}]
MCMaxCalls == [r \in MCRequests |-> IF r = "r1" THEN 2 ELSE 1]
=============================================================================
