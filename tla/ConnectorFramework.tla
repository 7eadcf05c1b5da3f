------------------------- MODULE ConnectorFramework -------------------------
(***************************************************************************)
(* The connector framework as the provisioning orchestrator sees it: the   *)
(* registry, the dispatch of an operation to a connector method, what a    *)
(* connector answers (app/connectors/mock.py, the only implementation),    *)
(* and the retry policy.  Pure operators, no state: the attempt counters a *)
(* connector keeps are passed in by the module that owns them.             *)
(***************************************************************************)
EXTENDS Integers

CONSTANTS
    Names,        \* connector names as callers spell them
    Normal,       \* [Names -> normalised name], strip() and lower()
    Connectors,   \* normalised names present in the registry
    Enabled,      \* [Connectors -> BOOLEAN]
    Mode,         \* [Connectors -> ConnectorSimulationMode]
    Failures,     \* [Connectors -> Nat], failures_before_success
    Supported,    \* [Connectors -> SUBSET ConnectorOperation]
    Operations,   \* the operations callers ask for
    Correlations, \* correlation ids
    MaxAttempts, BaseDelay, MaxDelay   \* RetryPolicy

ConnectorOperation ==
    {"health_check", "create_user", "update_user", "disable_user",
     "delete_user", "create_group", "update_group", "delete_group",
     "add_group_member", "remove_group_member", "grant_entitlement",
     "revoke_entitlement"}

PermanentModes == {"validation_failure", "non_retryable_failure"}
TransientModes == {"timeout", "rate_limit", "retryable_failure", "unavailable"}
WorkingModes   == {"success", "degraded"}
ConnectorSimulationMode == PermanentModes \cup TransientModes \cup WorkingModes

(***************************************************************************)
(* RetryPolicy.__post_init__ and MockIdentityConnector.__init__ refuse     *)
(* any other configuration.                                                *)
(***************************************************************************)
ASSUME ConnectorsAssumption ==
    /\ Enabled \in [Connectors -> BOOLEAN]
    /\ Mode \in [Connectors -> ConnectorSimulationMode]
    /\ Failures \in [Connectors -> Nat]
    /\ Supported \in [Connectors -> SUBSET ConnectorOperation]
    /\ Operations \subseteq ConnectorOperation
    /\ MaxAttempts \in Nat /\ MaxAttempts >= 1
    /\ BaseDelay \in Nat /\ MaxDelay \in Nat /\ MaxDelay >= BaseDelay

ConnectorStatus == {"SUCCESS", "FAILED", "RETRYABLE", "SKIPPED"}

(***************************************************************************)
(* A call of ProvisioningOrchestrator.execute.  payload is the set of keys *)
(* with a usable value; db and audited say whether a session, and whether  *)
(* both a requester and a target user, were supplied.                      *)
(***************************************************************************)
PayloadKeys == {"user_id", "group_id", "entitlement"}

Calls == [connector : Names, operation : Operations,
          payload : SUBSET PayloadKeys, correlation : Correlations,
          db : BOOLEAN, audited : BOOLEAN]

normalize_connector_name(name) == Normal[name]

(* ConnectorRegistry.get raises UnknownConnectorError unless this holds. *)
Registered(call) == normalize_connector_name(call.connector) \in Connectors

ConnectorOf(call) == normalize_connector_name(call.connector)

(* The keys _call_connector insists on before it calls the connector. *)
RequiredKeys(operation) ==
    IF operation \in {"create_user", "create_group"} THEN {}
    ELSE IF operation \in {"update_user", "disable_user", "delete_user"}
         THEN {"user_id"}
    ELSE IF operation \in {"update_group", "delete_group"} THEN {"group_id"}
    ELSE IF operation \in {"add_group_member", "remove_group_member"}
         THEN {"group_id", "user_id"}
    ELSE {"user_id", "entitlement"}

(* The orchestrator has a connector method for the operation and its arguments. *)
Dispatches(call) ==
    /\ call.operation # "health_check"
    /\ RequiredKeys(call.operation) \subseteq call.payload

(* The call gets as far as MockIdentityConnector._record_attempt. *)
Recorded(call) ==
    /\ Dispatches(call)
    /\ call.operation \in Supported[ConnectorOf(call)]
    /\ Enabled[ConnectorOf(call)]

(* What MockIdentityConnector._attempts is keyed by, in each connector. *)
AttemptKeys == Connectors \X Operations \X Correlations
KeyOf(c) == <<ConnectorOf(c), c.operation, c.correlation>>

(* _raise_for_simulation: which kind of exception, if any, the mode raises. *)
Simulate(mode) ==
    IF mode \in PermanentModes THEN "fatal"
    ELSE IF mode \in TransientModes THEN "transient"
    ELSE "SUCCESS"

(* Mutant of Invoke: the failures_before_success comparison is strict. *)
InvokeOffByOne(call, n) ==
    IF \/ ~Dispatches(call)
       \/ call.operation \notin Supported[ConnectorOf(call)] THEN "fatal"
    ELSE IF ~Enabled[ConnectorOf(call)] THEN "SKIPPED"
    ELSE IF n + 1 < Failures[ConnectorOf(call)] THEN "transient"
    ELSE Simulate(Mode[ConnectorOf(call)])

(***************************************************************************)
(* _call_connector followed by MockIdentityConnector._execute, when the    *)
(* connector has already recorded n attempts under this operation and      *)
(* correlation id: the status returned, or the kind of exception raised    *)
(* ("transient" has retryable = True).                                     *)
(***************************************************************************)
Invoke(call, n) ==
    IF \/ ~Dispatches(call)
       \/ call.operation \notin Supported[ConnectorOf(call)] THEN "fatal"
    ELSE IF ~Enabled[ConnectorOf(call)] THEN "SKIPPED"
    ELSE IF n + 1 <= Failures[ConnectorOf(call)] THEN "transient"
    ELSE Simulate(Mode[ConnectorOf(call)])

Raises(answer) == answer \in {"fatal", "transient"}

(* Mutants: one retry too many; a delay that is not capped. *)
ShouldRetryOnceMore(answer, attempt) ==
    answer = "transient" /\ attempt <= MaxAttempts
NextDelayUncapped(attempt) == BaseDelay * 2^(attempt - 1)

(* RetryPolicy.should_retry and next_delay_ms. *)
ShouldRetry(answer, attempt) == answer = "transient" /\ attempt < MaxAttempts

NextDelay(attempt) ==
    LET delay == BaseDelay * 2^(attempt - 1)
    IN  IF delay < MaxDelay THEN delay ELSE MaxDelay

(* Mutant: the retryable flag of the exception is ignored. *)
FailedStatusAlwaysRetryable(answer) == "RETRYABLE"

(* ConnectorResult.failed, as _result_from_exception calls it. *)
FailedStatus(answer) == IF answer = "transient" THEN "RETRYABLE" ELSE "FAILED"

-----------------------------------------------------------------------------
(***************************************************************************)
(* Reference definition, in closed form: the status an execution ends with *)
(* and the number of attempts it takes, when the connector has already     *)
(* recorded n attempts under the same operation and correlation id.  The   *)
(* modules that only need the outcome of an execution use this definition; *)
(* ProvisioningOrchestrator shows that the retry loop computes it.         *)
(***************************************************************************)
Outcome(call, n) ==
    LET c     == ConnectorOf(call)
        flaky == IF n < Failures[c] THEN Failures[c] - n ELSE 0
    IN  IF \/ ~Dispatches(call)
           \/ call.operation \notin Supported[c]
          THEN [status |-> "FAILED", attempts |-> 1]
        ELSE IF ~Enabled[c] THEN [status |-> "SKIPPED", attempts |-> 1]
        ELSE IF flaky >= MaxAttempts \/ Mode[c] \in TransientModes
          THEN [status |-> "RETRYABLE", attempts |-> MaxAttempts]
        ELSE IF Mode[c] \in PermanentModes
          THEN [status |-> "FAILED", attempts |-> flaky + 1]
        ELSE [status |-> "SUCCESS", attempts |-> flaky + 1]
=============================================================================
