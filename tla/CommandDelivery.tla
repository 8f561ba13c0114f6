--------------------------- MODULE CommandDelivery ---------------------------
(***************************************************************************)
(* What the task queue promises the field: a task issues at most           *)
(* MaxAttempts commands, an issued command reaches the edge at most once,  *)
(* and evidence about a command exists only after it reached the edge and  *)
(* is never withdrawn. Nothing is said of leases, owners or retries: those *)
(* are how chargeopt/repository.py and chargeopt/worker.py keep this       *)
(* promise, and TaskQueue implements this specification.                   *)
(***************************************************************************)
EXTENDS Naturals

CONSTANTS Tasks, MaxAttempts, Evidence

VARIABLES
    issued,       \* how many commands each task has issued
    outstanding,  \* the issued commands that may still be sent
    delivered,    \* the commands that reached the edge
    evidence      \* what was reported, as <<command, report>> pairs

cmdVars == <<issued, outstanding, delivered, evidence>>

CommandInit ==
    /\ issued = [t \in Tasks |-> 0]
    /\ outstanding = [t \in Tasks |-> {}]
    /\ delivered = [t \in Tasks |-> {}]
    /\ evidence = [t \in Tasks |-> {}]

Issue(t) ==
    /\ issued[t] < MaxAttempts
    /\ issued' = [issued EXCEPT ![t] = @ + 1]
    /\ outstanding' = [outstanding EXCEPT ![t] = @ \cup {issued[t] + 1}]
    /\ UNCHANGED <<delivered, evidence>>

\* The command leaves the outstanding ones for good, whether it arrives or not.
Deliver(t, n) ==
    /\ n \in outstanding[t]
    /\ outstanding' = [outstanding EXCEPT ![t] = @ \ {n}]
    /\ delivered' = [delivered EXCEPT ![t] = @ \cup {n}]
    /\ UNCHANGED <<issued, evidence>>

Abandon(t, n) ==
    /\ n \in outstanding[t]
    /\ outstanding' = [outstanding EXCEPT ![t] = @ \ {n}]
    /\ UNCHANGED <<issued, delivered, evidence>>

Report(t, n, e) ==
    /\ n \in delivered[t]
    /\ evidence' = [evidence EXCEPT ![t] = @ \cup {<<n, e>>}]
    /\ UNCHANGED <<issued, outstanding, delivered>>

CommandNext ==
    \E t \in Tasks :
        \/ Issue(t)
        \/ \E n \in 1..MaxAttempts :
              \/ Deliver(t, n)
              \/ Abandon(t, n)
              \/ \E e \in Evidence : Report(t, n, e)

CommandSpec == CommandInit /\ [][CommandNext]_cmdVars
=============================================================================
