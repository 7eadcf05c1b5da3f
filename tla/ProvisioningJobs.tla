-------------------------- MODULE ProvisioningJobs --------------------------
(***************************************************************************)
(* What a provisioning job promises to whoever reads it, independent of    *)
(* the retry loop that drives it: it is created once, is attempted a       *)
(* bounded number of times, and ends once, in a status that says why.      *)
(* ProvisioningOrchestrator implements this specification.                 *)
(***************************************************************************)
EXTENDS Integers

CONSTANTS JobIds, MaxAttempts

VARIABLE lifecycle   \* [JobIds -> the job's status and counters]

TerminalStatus == {"SUCCESS", "SKIPPED", "FAILED", "RETRYABLE"}

Job(status, attempts, retries) ==
    [status |-> status, attempts |-> attempts, retries |-> retries]

Init == lifecycle = [j \in JobIds |-> Job("ABSENT", 0, 0)]

Create(j) ==
    /\ lifecycle[j].status = "ABSENT"
    /\ lifecycle' = [lifecycle EXCEPT ![j] = Job("PENDING", 0, 0)]

(* Every attempt but the first follows a recorded retry. *)
Attempt(j) ==
    /\ lifecycle[j].status \in {"PENDING", "RUNNING"}
    /\ lifecycle[j].attempts = lifecycle[j].retries
    /\ lifecycle[j].attempts < MaxAttempts
    /\ lifecycle' = [lifecycle EXCEPT ![j] =
                        Job("RUNNING", @.attempts + 1, @.retries)]

Retry(j) ==
    /\ lifecycle[j].status = "RUNNING"
    /\ lifecycle[j].attempts = lifecycle[j].retries + 1
    /\ lifecycle[j].attempts < MaxAttempts
    /\ lifecycle' = [lifecycle EXCEPT ![j] =
                        Job("RUNNING", @.attempts, @.retries + 1)]

(* RETRYABLE means that the attempts were used up. *)
Finish(j, s) ==
    /\ lifecycle[j].status = "RUNNING"
    /\ lifecycle[j].attempts = lifecycle[j].retries + 1
    /\ s = "RETRYABLE" => lifecycle[j].attempts = MaxAttempts
    /\ lifecycle' = [lifecycle EXCEPT ![j] = Job(s, @.attempts, @.retries)]

Next == \E j \in JobIds :
            \/ Create(j) \/ Attempt(j) \/ Retry(j)
            \/ \E s \in TerminalStatus : Finish(j, s)

Spec == Init /\ [][Next]_lifecycle
=============================================================================
