------------------------------ MODULE TaskQueue ------------------------------
(***************************************************************************)
(* The leased task queue (chargeopt/repository.py: enqueue_task,           *)
(* claim_next_task, complete_task, reap_expired_tasks, record_edge_receipt)*)
(* together with the processes that use it: the workers of                 *)
(* chargeopt/worker.py (execute_once) and the custom workers that drive    *)
(* the same functions through POST /tasks/claim and /tasks/{id}/complete,  *)
(* the edge gateway they post commands to, devices that send receipts      *)
(* through POST /edge/receipts, the reaper, and the operators who set the  *)
(* circuit breaker.                                                        *)
(*                                                                         *)
(* One action is one database transaction, except complete_task: it reads  *)
(* the task with a plain SELECT and updates it by id alone, so its read    *)
(* and its write are two steps and other transactions may commit between.  *)
(***************************************************************************)
EXTENDS Naturals

CONSTANTS
    Tasks,           \* the ids of rows of task_queue
    VppTasks,        \* those whose payload is a vpp.dispatch command
    Workers,         \* worker ids, each used by one process at a time
    NoWorker,        \* locked_by IS NULL
    NoTask,          \* a worker that holds no task
    MaxAttempts,     \* max_attempts of every row
    GatewayAnswers,  \* the edge statuses an HTTP 2xx answer may carry
    DeviceStatuses   \* the statuses devices send to POST /edge/receipts

\* worker.py TERMINAL_EDGE_STATUSES and NON_TERMINAL_EDGE_STATUSES: what
\* _edge_status_from_gateway lets through; anything else becomes "accepted".
TerminalEdgeStatuses == {"succeeded", "failed", "rolled_back"}
NonTerminalEdgeStatuses == {"accepted", "running", "queued"}
EdgeStatuses == TerminalEdgeStatuses \cup NonTerminalEdgeStatuses

\* The CHECK constraint on edge_command_receipts.status.
ReceiptStatuses == {"accepted", "executing", "succeeded", "failed", "rolled_back"}

CompletionStatuses == {"succeeded", "failed", "cancelled"}
TerminalStatuses == {"completed", "failed", "cancelled"}
BreakerStates == {"closed", "half_open", "open"}
TaskStatuses == TerminalStatuses \cup {"queued", "running"}

ASSUME TaskQueueAssumption ==
    /\ VppTasks \subseteq Tasks
    /\ NoWorker \notin Workers
    /\ NoTask \notin Tasks
    /\ MaxAttempts \in Nat \ {0}
    /\ GatewayAnswers \subseteq EdgeStatuses
    /\ DeviceStatuses \subseteq ReceiptStatuses

VARIABLES
    status,    \* task_queue.status, "absent" before the row is inserted
    attempts,  \* task_queue.attempts
    lockedBy,  \* task_queue.locked_by
    lease,     \* lease_expires_at: "none" is NULL, "held" the future, "lapsed" the past
    receipts,  \* edge_command_receipts, per task
    schedule,  \* delivery_schedules.status of the task's schedule
    breaker,   \* vpp_circuit_breakers.state of the tenant's global scope
    pc,        \* where a worker is between two transactions
    job,       \* the task a worker works on
    claimNo,   \* the value of attempts its claim returned
    outcome,   \* the edge status, completion status or next status it carries
    sent,      \* the claims whose command reached the edge
    hasLapsed  \* history: a lease of the task has run out

queueVars == <<status, attempts, lockedBy, lease>>
edgeVars == <<receipts, schedule, breaker>>
workerVars == <<pc, job, claimNo, outcome>>
vars == <<queueVars, edgeVars, workerVars, sent, hasLapsed>>

Claims == 1..MaxAttempts
Receipt == [claim : Claims, status : ReceiptStatuses, from : {"worker", "device"}]

TypeOK ==
    /\ status \in [Tasks -> TaskStatuses \cup {"absent"}]
    /\ attempts \in [Tasks -> 0..MaxAttempts]
    /\ lockedBy \in [Tasks -> Workers \cup {NoWorker}]
    /\ lease \in [Tasks -> {"none", "held", "lapsed"}]
    /\ receipts \in [Tasks -> SUBSET Receipt]
    /\ schedule \in [VppTasks -> {"scheduled", "delivering", "dispatched", "failed"}]
    /\ breaker \in BreakerStates
    /\ pc \in [Workers -> {"idle", "claimed", "answered", "reporting", "writing"}]
    /\ job \in [Workers -> Tasks \cup {NoTask}]
    /\ claimNo \in [Workers -> 0..MaxAttempts]
    /\ outcome \in [Workers -> EdgeStatuses \cup CompletionStatuses \cup TaskStatuses \cup {"none"}]
    /\ sent \in [Tasks -> SUBSET Claims]
    /\ hasLapsed \in [Tasks -> BOOLEAN]

Init ==
    /\ status = [t \in Tasks |-> "absent"]
    /\ attempts = [t \in Tasks |-> 0]
    /\ lockedBy = [t \in Tasks |-> NoWorker]
    /\ lease = [t \in Tasks |-> "none"]
    /\ receipts = [t \in Tasks |-> {}]
    /\ schedule = [t \in VppTasks |-> "scheduled"]
    /\ breaker = "closed"
    /\ pc = [w \in Workers |-> "idle"]
    /\ job = [w \in Workers |-> NoTask]
    /\ claimNo = [w \in Workers |-> 0]
    /\ outcome = [w \in Workers |-> "none"]
    /\ sent = [t \in Tasks |-> {}]
    /\ hasLapsed = [t \in Tasks |-> FALSE]

-----------------------------------------------------------------------------
(* The queue and its clock.                                                *)

\* Rows are inserted with their defaults: one by enqueue_task, one per station
\* of the order by record_trade_fill, in its transaction. A second enqueue with
\* the same idempotency key returns the row as it is, which is no step at all.
EnqueueTasks(rows) ==
    /\ \A t \in rows : status[t] = "absent"
    /\ status' = [t \in Tasks |-> IF t \in rows THEN "queued" ELSE status[t]]
    /\ UNCHANGED <<attempts, lockedBy, lease, edgeVars, workerVars, sent, hasLapsed>>

\* now() passes lease_expires_at. The lease of a row outlives its run when a
\* receipt ended it, because record_edge_receipt leaves the lock alone.
LeaseLapses(t) ==
    /\ lease[t] = "held"
    /\ lease' = [lease EXCEPT ![t] = "lapsed"]
    /\ hasLapsed' = [hasLapsed EXCEPT ![t] = TRUE]
    /\ UNCHANGED <<status, attempts, lockedBy, edgeVars, workerVars, sent>>

\* Faulty variants of an operation, named after it with the fault, stand next
\* to it: each breaks a property of this module, which shows that the property
\* guards against that fault.
ClaimableWithoutLimit(t) ==
    \/ status[t] = "queued"
    \/ status[t] = "running" /\ lease[t] = "lapsed"

ClaimableWithoutLapse(t) ==
    /\ status[t] \in {"queued", "running"}
    /\ attempts[t] < MaxAttempts

Claimable(t) ==
    /\ \/ status[t] = "queued"
       \/ status[t] = "running" /\ lease[t] = "lapsed"
    /\ attempts[t] < MaxAttempts

\* The row goes to a worker, under an owner and a count of attempts.
Take(w, t, owner, n) ==
    /\ pc[w] = "idle"
    /\ Claimable(t)
    /\ status' = [status EXCEPT ![t] = "running"]
    /\ attempts' = [attempts EXCEPT ![t] = n]
    /\ lockedBy' = [lockedBy EXCEPT ![t] = owner]
    /\ lease' = [lease EXCEPT ![t] = "held"]
    /\ pc' = [pc EXCEPT ![w] = "claimed"]
    /\ job' = [job EXCEPT ![w] = t]
    /\ claimNo' = [claimNo EXCEPT ![w] = n]
    /\ UNCHANGED <<edgeVars, outcome, sent, hasLapsed>>

ClaimNextTaskUncounted(w, t) ==
    Take(w, t, w, IF status[t] = "running" THEN attempts[t] ELSE attempts[t] + 1)

ClaimNextTask(w, t) == Take(w, t, w, attempts[t] + 1)

ExpiredWithAttemptsLeft(t) ==
    status[t] = "running" /\ lease[t] = "lapsed" /\ attempts[t] < MaxAttempts

Expired(t) == status[t] = "running" /\ lease[t] = "lapsed"

\* One UPDATE over every row whose lease has expired.
ReapExpiredTasks ==
    /\ \E t \in Tasks : Expired(t)
    /\ status' = [t \in Tasks |->
                    IF ~Expired(t) THEN status[t]
                    ELSE IF attempts[t] >= MaxAttempts THEN "failed" ELSE "queued"]
    /\ lockedBy' = [t \in Tasks |-> IF Expired(t) THEN NoWorker ELSE lockedBy[t]]
    /\ lease' = [t \in Tasks |-> IF Expired(t) THEN "none" ELSE lease[t]]
    /\ UNCHANGED <<attempts, edgeVars, workerVars, sent, hasLapsed>>

-----------------------------------------------------------------------------
(* Receipts.                                                               *)

ApplyReceiptOptimistically(t, r) ==
    LET bad == r.status \in {"failed", "rolled_back"} IN
    /\ receipts' = [receipts EXCEPT ![t] = @ \cup {r}]
    /\ status' = [status EXCEPT ![t] = IF bad THEN "failed" ELSE "completed"]
    /\ schedule' = [v \in VppTasks |->
                      IF v # t THEN schedule[v] ELSE IF bad THEN "failed" ELSE "dispatched"]
    /\ breaker' = IF bad /\ t \in VppTasks THEN "open" ELSE breaker
    /\ UNCHANGED <<attempts, lockedBy, lease, sent, hasLapsed>>

\* What record_edge_receipt does once the receipt is known to be new. It asks
\* neither who owns the task nor whether the task has already ended, and
\* touches neither locked_by nor lease_expires_at.
ApplyReceipt(t, r) ==
    LET bad == r.status \in {"failed", "rolled_back"} IN
    /\ receipts' = [receipts EXCEPT ![t] = @ \cup {r}]
    /\ status' = [status EXCEPT ![t] = IF r.status = "succeeded" THEN "completed"
                                       ELSE IF bad THEN "failed" ELSE "running"]
    /\ schedule' = [v \in VppTasks |->
                      IF v # t THEN schedule[v]
                      ELSE IF r.status = "succeeded" THEN "dispatched"
                      ELSE IF bad THEN "failed" ELSE "delivering"]
    /\ breaker' = IF bad /\ t \in VppTasks THEN "open" ELSE breaker
    /\ UNCHANGED <<attempts, lockedBy, lease, sent, hasLapsed>>

\* A device reports on a command it was sent, early, late or again. That it was
\* sent is what a device is relied on for and no check of record_edge_receipt,
\* which takes any receipt of a dispatch task. The idempotency key is the
\* command's own, so a repeated receipt changes nothing.
DeviceReceipt(t, n, s) ==
    LET r == [claim |-> n, status |-> s, from |-> "device"] IN
    /\ n \in sent[t]
    /\ r \notin receipts[t]
    /\ ApplyReceipt(t, r)
    /\ UNCHANGED workerVars

\* set_circuit_breaker, called by an operator: any state, at any time.
SetCircuitBreaker(s) ==
    /\ breaker' = s
    /\ UNCHANGED <<queueVars, receipts, schedule, workerVars, sent, hasLapsed>>

-----------------------------------------------------------------------------
(* Workers.                                                                *)

GoIdle(w) ==
    /\ pc' = [pc EXCEPT ![w] = "idle"]
    /\ job' = [job EXCEPT ![w] = NoTask]
    /\ claimNo' = [claimNo EXCEPT ![w] = 0]
    /\ outcome' = [outcome EXCEPT ![w] = "none"]

CarryOn(w, place, what) ==
    /\ pc' = [pc EXCEPT ![w] = place]
    /\ outcome' = [outcome EXCEPT ![w] = what]
    /\ UNCHANGED <<job, claimNo>>

CommandSent(w) == sent' = [sent EXCEPT ![job[w]] = @ \cup {claimNo[w]}]

\* _post_gateway returns: the edge ran or took the command and said so.
GatewayAnswered(w, s) ==
    /\ pc[w] = "claimed"
    /\ CommandSent(w)
    /\ CarryOn(w, "answered", s)
    /\ UNCHANGED <<queueVars, edgeVars, hasLapsed>>

GatewayFailedPostsAgain(w) ==
    /\ pc[w] = "claimed"
    /\ CommandSent(w) \/ UNCHANGED sent
    /\ UNCHANGED <<queueVars, edgeVars, workerVars, hasLapsed>>

\* _post_gateway raises: the command never arrived, was refused with an HTTP
\* error, or was carried out and the answer lost.
GatewayFailed(w) ==
    /\ pc[w] = "claimed"
    /\ CommandSent(w) \/ UNCHANGED sent
    /\ CarryOn(w, "reporting", "failed")
    /\ UNCHANGED <<queueVars, edgeVars, hasLapsed>>

\* The receipt's key is a hash of the answer, and every answer carries its own
\* task_id and executed_at: the worker's receipt is always a new one.
RecordReceipt(w) ==
    /\ pc[w] = "answered"
    /\ outcome[w] \in ReceiptStatuses
    /\ ApplyReceipt(job[w], [claim |-> claimNo[w], status |-> outcome[w], from |-> "worker"])
    /\ GoIdle(w)

\* The INSERT breaks the CHECK constraint: the transaction rolls back and
\* execute_once falls into its except branch.
ReceiptRefused(w) ==
    /\ pc[w] = "answered"
    /\ outcome[w] \notin ReceiptStatuses
    /\ CarryOn(w, "reporting", "failed")
    /\ UNCHANGED <<queueVars, edgeVars, sent, hasLapsed>>

\* A custom worker judges the run itself and calls POST /tasks/{id}/complete.
ReportVerdict(w, v) ==
    /\ pc[w] \in {"claimed", "answered"}
    /\ CarryOn(w, "reporting", v)
    /\ UNCHANGED <<queueVars, edgeVars, sent, hasLapsed>>

NextStatus(t, v) ==
    CASE v = "succeeded" -> "completed"
      [] v = "cancelled" -> "cancelled"
      [] v = "failed" -> IF attempts[t] < MaxAttempts THEN "queued" ELSE "failed"

MayComplete(w, t) == lockedBy[t] \in {NoWorker, w}

\* complete_task up to its decision: a SELECT that locks nothing.
CompleteRead(w) ==
    /\ pc[w] = "reporting"
    /\ MayComplete(w, job[w])
    /\ CarryOn(w, "writing", NextStatus(job[w], outcome[w]))
    /\ UNCHANGED <<queueVars, edgeVars, sent, hasLapsed>>

\* "Task lease is owned by another worker": nothing is written.
CompleteRefused(w) ==
    /\ pc[w] = "reporting"
    /\ ~MayComplete(w, job[w])
    /\ GoIdle(w)
    /\ UNCHANGED <<queueVars, edgeVars, sent, hasLapsed>>

\* The UPDATE of complete_task names the row by id alone.
CompleteWrite(w) ==
    /\ pc[w] = "writing"
    /\ status' = [status EXCEPT ![job[w]] = outcome[w]]
    /\ lockedBy' = [lockedBy EXCEPT ![job[w]] = NoWorker]
    /\ lease' = [lease EXCEPT ![job[w]] = "none"]
    /\ GoIdle(w)
    /\ UNCHANGED <<attempts, edgeVars, sent, hasLapsed>>

\* The process dies between two transactions and is started again.
WorkerCrash(w) ==
    /\ pc[w] # "idle"
    /\ GoIdle(w)
    /\ UNCHANGED <<queueVars, edgeVars, sent, hasLapsed>>

WorkerStep(w) ==
    \/ \E s \in GatewayAnswers : GatewayAnswered(w, s)
    \/ GatewayFailed(w)
    \/ RecordReceipt(w)
    \/ ReceiptRefused(w)
    \/ \E v \in CompletionStatuses : ReportVerdict(w, v)
    \/ CompleteRead(w)
    \/ CompleteRefused(w)
    \/ CompleteWrite(w)

\* What happens to the rows once they are there.
QueueStep ==
    \/ \E t \in Tasks : LeaseLapses(t)
    \/ \E w \in Workers, t \in Tasks : ClaimNextTask(w, t)
    \/ ReapExpiredTasks
    \/ \E t \in Tasks, n \in Claims, s \in DeviceStatuses : DeviceReceipt(t, n, s)
    \/ \E s \in BreakerStates : SetCircuitBreaker(s)
    \/ \E w \in Workers : WorkerStep(w)
    \/ \E w \in Workers : WorkerCrash(w)

Next ==
    \/ \E rows \in (SUBSET Tasks) \ {{}} : EnqueueTasks(rows)
    \/ QueueStep

Spec == Init /\ [][Next]_vars

(***************************************************************************)
(* Time passes, the maintenance loop reaps, workers poll and each finishes *)
(* what it started unless it crashes: worker.main and                      *)
(* run_operational_maintenance loop for ever. Nothing obliges anybody to   *)
(* enqueue, to send a receipt, to touch the breaker or to crash.           *)
(***************************************************************************)
Fairness ==
    /\ \A t \in Tasks : WF_vars(LeaseLapses(t))
    /\ \A t \in Tasks : WF_vars(\E w \in Workers : ClaimNextTask(w, t))
    /\ WF_vars(ReapExpiredTasks)
    /\ \A w \in Workers : WF_vars(WorkerStep(w))

FairSpec == Spec /\ Fairness

-----------------------------------------------------------------------------
(* Properties.                                                             *)

Busy(w, t) == pc[w] # "idle" /\ job[w] = t

\* A command is sent at most once per claim, and a task is claimed at most
\* max_attempts times: whoever is about to post holds a claim number that
\* nobody else works under and nobody has posted under.
OneSendPerClaim ==
    \A w \in Workers : pc[w] # "idle" =>
        /\ claimNo[w] \in 1..attempts[job[w]]
        /\ pc[w] = "claimed" => claimNo[w] \notin sent[job[w]]
        /\ \A o \in Workers \ {w} : Busy(o, job[w]) => claimNo[o] # claimNo[w]

\* Two workers are on one task at the same time only if a lease of that task
\* has run out: claims, refused completions, crashes, receipts and completions
\* that read before and write after somebody else's commit never break the
\* lease early. ("Two or more workers safely compete for leased tasks.")
OverlapNeedsLapse ==
    \A w, o \in Workers : \A t \in Tasks :
        w # o /\ Busy(w, t) /\ Busy(o, t) => hasLapsed[t]

\* The worker named in locked_by, if it is still on the task, is there under
\* the latest claim: a lock can never vouch for an overtaken run.
LockIsLatestClaim ==
    \A w \in Workers, t \in Tasks :
        lockedBy[t] = w /\ Busy(w, t) => claimNo[w] = attempts[t]

\* Both together: however late a worker is, it sends under a claim number of
\* its own, once, and what it still owns it claimed last.
ClaimsAreExclusive == OneSendPerClaim /\ LockIsLatestClaim

\* A schedule is shown as dispatched only when some receipt of success came
\* back for a command that did reach the edge, whatever the receipts' order.
DispatchedWasAcknowledged ==
    \A t \in VppTasks : schedule[t] = "dispatched" =>
        \E r \in receipts[t] : r.status = "succeeded" /\ r.claim \in sent[t]

\* An open row that neither the claim query nor the reaper selects: running
\* without a lease (a receipt arrived after the row was requeued), or queued
\* with no attempt left (a completion read before the last claim and wrote
\* after it).
Stranded(t) ==
    \/ status[t] = "running" /\ lease[t] = "none"
    \/ status[t] = "queued" /\ attempts[t] = MaxAttempts

\* A queued task does not stay open for ever unless it is stranded: leases
\* lapse, the reaper and the claims take it up, and the attempts run out.
QueuedTaskSettles ==
    \A t \in Tasks :
        status[t] = "queued" ~> status[t] \in TerminalStatuses \/ Stranded(t)

\* The commands of a task that a worker has claimed and not yet posted.
Outstanding(t) == {claimNo[w] : w \in {v \in Workers : pc[v] = "claimed" /\ job[v] = t}}

CD == INSTANCE CommandDelivery WITH
        issued <- attempts,
        outstanding <- [t \in Tasks |-> Outstanding(t)],
        delivered <- sent,
        evidence <- [t \in Tasks |-> {<<r.claim, r.status>> : r \in receipts[t]}],
        Evidence <- ReceiptStatuses

\* The queue keeps the promise of CommandDelivery: bounded commands, each sent
\* at most once, evidence only of what was sent.
KeepsCommandPromise == CD!CommandSpec

\* docs/architecture.md: "Async work must be claimed with a bounded lease ...
\* and reaped when a lease expires." The code can violate it.
RunningIsLeased ==
    \A t \in Tasks : status[t] = "running" => lease[t] # "none"

\* README.md: "a failed or rolled-back VPP command opens the global tenant
\* breaker". A dispatch that used up its attempts is a failed one; the code
\* can violate it.
FailedDispatchOpensBreaker ==
    [][\A t \in VppTasks : status[t] # "failed" /\ status'[t] = "failed" => breaker' = "open"]_vars
=============================================================================
