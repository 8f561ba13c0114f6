--------------------------- MODULE TaskQueueProofs ---------------------------
(***************************************************************************)
(* Proofs about TaskQueue, for any tasks, any workers, any number of       *)
(* attempts and any statuses a gateway or a device may send.               *)
(*                                                                         *)
(* The inductive invariant QueueInv adds to the type invariant what the    *)
(* worker carries at each place, that claim numbers of one task are        *)
(* distinct and not ahead of attempts, and that a task which is open to    *)
(* a second claim while a worker is on it has seen a lease lapse.          *)
(***************************************************************************)
EXTENDS TaskQueue, TLAPS

\* What a worker carries at each place of execute_once.
WorkerInv ==
    \A w \in Workers :
        /\ pc[w] # "idle" => job[w] \in Tasks /\ status[job[w]] # "absent"
        /\ pc[w] = "answered" => claimNo[w] \in sent[job[w]]
        /\ pc[w] = "reporting" => outcome[w] \in CompletionStatuses
        /\ pc[w] = "writing" => outcome[w] \in TerminalStatuses \cup {"queued"}

\* No command was sent under a claim that has not been made.
SentInv == \A t \in Tasks : sent[t] \subseteq 1..attempts[t]

\* Every receipt is about a command that reached the edge.
ReceiptInv == \A t \in Tasks : \A r \in receipts[t] : r.claim \in sent[t]

LapseInv ==
    \A t \in Tasks :
        /\ lease[t] = "lapsed" => hasLapsed[t]
        /\ \A w \in Workers : Busy(w, t) /\ status[t] = "queued" => hasLapsed[t]

QueueInv ==
    /\ TypeOK
    /\ WorkerInv
    /\ SentInv
    /\ OneSendPerClaim
    /\ LockIsLatestClaim
    /\ ReceiptInv
    /\ DispatchedWasAcknowledged
    /\ LapseInv
    /\ OverlapNeedsLapse

-----------------------------------------------------------------------------

LEMMA InitInv == Init => QueueInv
<1> SUFFICES ASSUME Init PROVE QueueInv
  OBVIOUS
<1> USE TaskQueueAssumption DEF Init
<1>1. TypeOK
  BY DEF TypeOK, BreakerStates, TaskStatuses, TerminalStatuses
<1>2. WorkerInv /\ SentInv /\ OneSendPerClaim /\ LockIsLatestClaim
  BY DEF WorkerInv, SentInv, OneSendPerClaim, LockIsLatestClaim, Busy
<1>3. ReceiptInv /\ DispatchedWasAcknowledged
  BY DEF ReceiptInv, DispatchedWasAcknowledged
<1>4. LapseInv /\ OverlapNeedsLapse
  BY DEF LapseInv, OverlapNeedsLapse, Busy
<1> QED
  BY <1>1, <1>2, <1>3, <1>4 DEF QueueInv

LEMMA EnqueueInv ==
  ASSUME QueueInv, NEW rows \in SUBSET Tasks, EnqueueTasks(rows)
  PROVE  QueueInv'
<1> USE TaskQueueAssumption
    DEF EnqueueTasks, edgeVars, workerVars, QueueInv
<1>1. TypeOK'
  BY DEF TypeOK, TaskStatuses, TerminalStatuses
<1>2. WorkerInv' /\ SentInv' /\ OneSendPerClaim' /\ LockIsLatestClaim'
  BY DEF TypeOK, WorkerInv, SentInv, OneSendPerClaim, LockIsLatestClaim, Busy
<1>3. ReceiptInv' /\ DispatchedWasAcknowledged'
  BY DEF ReceiptInv, DispatchedWasAcknowledged
<1>4. LapseInv' /\ OverlapNeedsLapse'
  BY DEF TypeOK, WorkerInv, LapseInv, OverlapNeedsLapse, Busy
<1> QED
  BY <1>1, <1>2, <1>3, <1>4

LEMMA LapseStepInv ==
  ASSUME QueueInv, NEW t \in Tasks, LeaseLapses(t)
  PROVE  QueueInv'
<1> USE TaskQueueAssumption
    DEF LeaseLapses, edgeVars, workerVars, QueueInv
<1>1. TypeOK'
  BY DEF TypeOK
<1>2. WorkerInv' /\ SentInv' /\ OneSendPerClaim' /\ LockIsLatestClaim'
  BY DEF TypeOK, WorkerInv, SentInv, OneSendPerClaim, LockIsLatestClaim, Busy
<1>3. ReceiptInv' /\ DispatchedWasAcknowledged'
  BY DEF ReceiptInv, DispatchedWasAcknowledged
<1>4. LapseInv' /\ OverlapNeedsLapse'
  BY DEF TypeOK, LapseInv, OverlapNeedsLapse, Busy
<1> QED
  BY <1>1, <1>2, <1>3, <1>4

LEMMA ClaimInv ==
  ASSUME QueueInv, NEW w \in Workers, NEW t \in Tasks, ClaimNextTask(w, t)
  PROVE  QueueInv'
<1> USE TaskQueueAssumption
    DEF ClaimNextTask, Take, edgeVars, QueueInv
<1>1. TypeOK'
  BY DEF TypeOK, Claimable, TaskStatuses, TerminalStatuses
<1>2. WorkerInv' /\ SentInv'
  BY DEF TypeOK, WorkerInv, SentInv, Claimable
<1>3. OneSendPerClaim' /\ LockIsLatestClaim'
  <2>1. claimNo[w]' = attempts[t]' /\ attempts[t]' = attempts[t] + 1 /\ job[w]' = t
    BY DEF TypeOK
  <2>2. claimNo[w]' \notin sent[t]'
    BY <2>1 DEF TypeOK, SentInv
  <2>3. \A o \in Workers : o # w /\ Busy(o, t)' => claimNo[o]' # claimNo[w]'
    BY <2>1 DEF TypeOK, OneSendPerClaim, Busy
  <2>4. OneSendPerClaim'
    BY <2>1, <2>2, <2>3 DEF TypeOK, WorkerInv, OneSendPerClaim, Busy, Claimable
  <2>5. LockIsLatestClaim'
    BY <2>1 DEF TypeOK, LockIsLatestClaim, Busy
  <2> QED
    BY <2>4, <2>5
<1>4. ReceiptInv' /\ DispatchedWasAcknowledged'
  BY DEF ReceiptInv, DispatchedWasAcknowledged
<1>5. LapseInv' /\ OverlapNeedsLapse'
  BY DEF TypeOK, WorkerInv, LapseInv, OverlapNeedsLapse, Busy, Claimable
<1> QED
  BY <1>1, <1>2, <1>3, <1>4, <1>5

LEMMA ReapInv ==
  ASSUME QueueInv, ReapExpiredTasks
  PROVE  QueueInv'
<1> USE TaskQueueAssumption
    DEF ReapExpiredTasks, edgeVars, workerVars, QueueInv
<1>1. TypeOK'
  BY DEF TypeOK, Expired, TaskStatuses, TerminalStatuses
<1>2. WorkerInv' /\ SentInv' /\ OneSendPerClaim' /\ LockIsLatestClaim'
  BY DEF TypeOK, WorkerInv, SentInv, OneSendPerClaim, LockIsLatestClaim, Busy, Expired
<1>3. ReceiptInv' /\ DispatchedWasAcknowledged'
  BY DEF ReceiptInv, DispatchedWasAcknowledged
<1>4. LapseInv' /\ OverlapNeedsLapse'
  BY DEF TypeOK, LapseInv, OverlapNeedsLapse, Busy, Expired
<1> QED
  BY <1>1, <1>2, <1>3, <1>4

-----------------------------------------------------------------------------
(* Receipts: they leave locks, leases and claim numbers alone and never    *)
(* requeue, so only the row's own status and evidence have to be looked at.*)

LEMMA ReceiptRowInv ==
  ASSUME QueueInv, NEW t \in Tasks, NEW r \in Receipt, r.claim \in sent[t],
         ApplyReceipt(t, r)
  PROVE  /\ status' \in [Tasks -> TaskStatuses \cup {"absent"}]
         /\ \A u \in Tasks : status'[u] = "queued" => status[u] = "queued"
         /\ \A u \in Tasks : status'[u] = "absent" => status[u] = "absent"
         /\ receipts' \in [Tasks -> SUBSET Receipt]
         /\ schedule' \in [VppTasks -> {"scheduled", "delivering", "dispatched", "failed"}]
         /\ breaker' \in BreakerStates
         /\ ReceiptInv'
         /\ DispatchedWasAcknowledged'
<1> USE TaskQueueAssumption DEF ApplyReceipt, QueueInv
<1>1. /\ status' \in [Tasks -> TaskStatuses \cup {"absent"}]
      /\ \A u \in Tasks : status'[u] = "queued" => status[u] = "queued"
      /\ \A u \in Tasks : status'[u] = "absent" => status[u] = "absent"
  BY DEF TypeOK, TaskStatuses, TerminalStatuses
<1>2. receipts' \in [Tasks -> SUBSET Receipt]
  BY DEF TypeOK
<1>3. /\ schedule' \in [VppTasks -> {"scheduled", "delivering", "dispatched", "failed"}]
      /\ breaker' \in BreakerStates
  BY DEF TypeOK, BreakerStates
<1>4. ReceiptInv'
  BY DEF TypeOK, ReceiptInv
<1>5. DispatchedWasAcknowledged'
  <2> SUFFICES ASSUME NEW v \in VppTasks, schedule'[v] = "dispatched"
               PROVE  \E q \in receipts'[v] : q.status = "succeeded" /\ q.claim \in sent'[v]
    BY DEF DispatchedWasAcknowledged
  <2>1. CASE v = t
    BY <2>1 DEF TypeOK
  <2>2. CASE v # t
    BY <2>2 DEF TypeOK, DispatchedWasAcknowledged
  <2> QED
    BY <2>1, <2>2
<1> QED
  BY <1>1, <1>2, <1>3, <1>4, <1>5

LEMMA DeviceReceiptInv ==
  ASSUME QueueInv, NEW t \in Tasks, NEW n \in Claims, NEW s \in DeviceStatuses,
         DeviceReceipt(t, n, s)
  PROVE  QueueInv'
<1> DEFINE r == [claim |-> n, status |-> s, from |-> "device"]
<1>1. r \in Receipt /\ r.claim \in sent[t] /\ ApplyReceipt(t, r) /\ UNCHANGED workerVars
  BY TaskQueueAssumption DEF DeviceReceipt, Receipt
<1>2. UNCHANGED <<attempts, lockedBy, lease, sent, hasLapsed>>
  BY <1>1 DEF ApplyReceipt
<1> HIDE DEF r
<1>3. /\ status' \in [Tasks -> TaskStatuses \cup {"absent"}]
      /\ \A u \in Tasks : status'[u] = "queued" => status[u] = "queued"
      /\ \A u \in Tasks : status'[u] = "absent" => status[u] = "absent"
  BY <1>1, ReceiptRowInv
<1>4. TypeOK'
  BY <1>1, <1>2, ReceiptRowInv DEF QueueInv, TypeOK, workerVars
<1>5. WorkerInv' /\ SentInv' /\ OneSendPerClaim' /\ LockIsLatestClaim'
  BY <1>1, <1>2, <1>3
     DEF QueueInv, WorkerInv, SentInv, OneSendPerClaim, LockIsLatestClaim, Busy, workerVars
<1>6. LapseInv' /\ OverlapNeedsLapse'
  BY <1>1, <1>2, <1>3 DEF QueueInv, LapseInv, OverlapNeedsLapse, Busy, workerVars
<1> QED
  BY <1>1, <1>4, <1>5, <1>6, ReceiptRowInv DEF QueueInv

LEMMA RecordReceiptInv ==
  ASSUME QueueInv, NEW w \in Workers, RecordReceipt(w)
  PROVE  QueueInv'
<1> DEFINE t == job[w]
           r == [claim |-> claimNo[w], status |-> outcome[w], from |-> "worker"]
<1>1. t \in Tasks /\ claimNo[w] \in sent[t] /\ sent[t] \subseteq Claims
  BY DEF RecordReceipt, QueueInv, TypeOK, WorkerInv
<1>2. r \in Receipt /\ r.claim \in sent[t] /\ ApplyReceipt(t, r) /\ GoIdle(w)
  BY <1>1 DEF RecordReceipt, Receipt
<1>3. UNCHANGED <<attempts, lockedBy, lease, sent, hasLapsed>>
  BY <1>2 DEF ApplyReceipt
<1> HIDE DEF t, r
<1>4. /\ status' \in [Tasks -> TaskStatuses \cup {"absent"}]
      /\ \A u \in Tasks : status'[u] = "queued" => status[u] = "queued"
      /\ \A u \in Tasks : status'[u] = "absent" => status[u] = "absent"
  BY <1>1, <1>2, ReceiptRowInv
<1>5. TypeOK'
  <2>1. /\ receipts' \in [Tasks -> SUBSET Receipt]
        /\ schedule' \in [VppTasks -> {"scheduled", "delivering", "dispatched", "failed"}]
        /\ breaker' \in BreakerStates
    BY <1>1, <1>2, ReceiptRowInv
  <2>2. /\ pc' \in [Workers -> {"idle", "claimed", "answered", "reporting", "writing"}]
        /\ job' \in [Workers -> Tasks \cup {NoTask}]
        /\ claimNo' \in [Workers -> 0..MaxAttempts]
        /\ outcome' \in [Workers -> EdgeStatuses \cup CompletionStatuses \cup TaskStatuses \cup {"none"}]
    BY <1>2, TaskQueueAssumption DEF QueueInv, TypeOK, GoIdle
  <2> QED
    BY <1>3, <1>4, <2>1, <2>2 DEF QueueInv, TypeOK
<1>6. WorkerInv' /\ SentInv' /\ OneSendPerClaim' /\ LockIsLatestClaim'
  BY <1>2, <1>3, <1>4
     DEF QueueInv, TypeOK, WorkerInv, SentInv, OneSendPerClaim, LockIsLatestClaim, Busy, GoIdle
<1>7. LapseInv' /\ OverlapNeedsLapse'
  BY <1>2, <1>3, <1>4 DEF QueueInv, TypeOK, LapseInv, OverlapNeedsLapse, Busy, GoIdle
<1> QED
  BY <1>1, <1>2, <1>5, <1>6, <1>7, ReceiptRowInv DEF QueueInv

-----------------------------------------------------------------------------
(* Worker steps that write no row.                                         *)

\* A worker that goes idle takes its obligations with it.
LEMMA IdleInv ==
  ASSUME QueueInv, NEW w \in Workers, GoIdle(w),
         UNCHANGED <<queueVars, edgeVars, sent, hasLapsed>>
  PROVE  QueueInv'
<1> USE DEF GoIdle, queueVars, edgeVars, QueueInv
<1>1. TypeOK'
  BY TaskQueueAssumption DEF TypeOK
<1>2. WorkerInv' /\ SentInv' /\ OneSendPerClaim' /\ LockIsLatestClaim'
  BY DEF TypeOK, WorkerInv, SentInv, OneSendPerClaim, LockIsLatestClaim, Busy
<1>3. ReceiptInv' /\ DispatchedWasAcknowledged'
  BY DEF ReceiptInv, DispatchedWasAcknowledged
<1>4. LapseInv' /\ OverlapNeedsLapse'
  BY DEF TypeOK, LapseInv, OverlapNeedsLapse, Busy
<1> QED
  BY <1>1, <1>2, <1>3, <1>4

\* A worker that carries on keeps its task and its claim number.
LEMMA CarryOnInv ==
  ASSUME QueueInv, NEW w \in Workers, pc[w] # "idle",
         NEW place \in {"answered", "reporting", "writing"},
         NEW what \in EdgeStatuses \cup CompletionStatuses \cup TaskStatuses,
         CarryOn(w, place, what),
         CommandSent(w) \/ UNCHANGED sent,
         place = "answered" => CommandSent(w),
         place = "reporting" => what \in CompletionStatuses,
         place = "writing" => what \in TerminalStatuses \cup {"queued"},
         UNCHANGED <<queueVars, edgeVars, hasLapsed>>
  PROVE  QueueInv'
<1> USE DEF CarryOn, queueVars, edgeVars, QueueInv
<1>1. job[w] \in Tasks /\ claimNo[w] \in 1..attempts[job[w]] /\ attempts[job[w]] \in 0..MaxAttempts
  BY DEF TypeOK, WorkerInv, OneSendPerClaim
<1>2. /\ sent' \in [Tasks -> SUBSET Claims]
      /\ \A t \in Tasks : sent[t] \subseteq sent'[t]
      /\ \A t \in Tasks : \A n \in sent'[t] \ sent[t] : t = job[w] /\ n = claimNo[w]
      /\ place = "answered" => claimNo[w] \in sent'[job[w]]
  BY <1>1, TaskQueueAssumption DEF TypeOK, CommandSent, Claims
<1>3. TypeOK'
  BY <1>2 DEF TypeOK
<1>4. WorkerInv' /\ SentInv'
  BY <1>1, <1>2 DEF TypeOK, WorkerInv, SentInv
<1>5. OneSendPerClaim'
  BY <1>1, <1>2 DEF TypeOK, OneSendPerClaim, WorkerInv, Busy
<1>6. LockIsLatestClaim' /\ LapseInv' /\ OverlapNeedsLapse'
  BY DEF TypeOK, LockIsLatestClaim, LapseInv, OverlapNeedsLapse, Busy
<1>7. ReceiptInv' /\ DispatchedWasAcknowledged'
  BY <1>2, TaskQueueAssumption DEF TypeOK, ReceiptInv, DispatchedWasAcknowledged
<1> QED
  BY <1>3, <1>4, <1>5, <1>6, <1>7

LEMMA CompleteWriteInv ==
  ASSUME QueueInv, NEW w \in Workers, CompleteWrite(w)
  PROVE  QueueInv'
<1> USE DEF CompleteWrite, GoIdle, edgeVars, QueueInv
<1>1. job[w] \in Tasks /\ outcome[w] \in TerminalStatuses \cup {"queued"}
  BY DEF WorkerInv
<1>2. TypeOK'
  BY <1>1, TaskQueueAssumption DEF TypeOK, TaskStatuses
<1>3. WorkerInv' /\ SentInv' /\ OneSendPerClaim' /\ LockIsLatestClaim'
  BY <1>1, TaskQueueAssumption
     DEF TypeOK, WorkerInv, SentInv, OneSendPerClaim, LockIsLatestClaim, Busy, TerminalStatuses
<1>4. ReceiptInv' /\ DispatchedWasAcknowledged'
  BY DEF ReceiptInv, DispatchedWasAcknowledged
<1>5. LapseInv' /\ OverlapNeedsLapse'
  BY <1>1 DEF TypeOK, LapseInv, OverlapNeedsLapse, Busy
<1> QED
  BY <1>2, <1>3, <1>4, <1>5

LEMMA WorkerStepInv ==
  ASSUME QueueInv, NEW w \in Workers, WorkerStep(w)
  PROVE  QueueInv'
<1>1. ASSUME NEW s \in GatewayAnswers, GatewayAnswered(w, s) PROVE QueueInv'
  BY <1>1, CarryOnInv, TaskQueueAssumption DEF GatewayAnswered
<1>2. CASE GatewayFailed(w)
  BY <1>2, CarryOnInv DEF GatewayFailed, CompletionStatuses
<1>3. CASE RecordReceipt(w)
  BY <1>3, RecordReceiptInv
<1>4. CASE ReceiptRefused(w)
  BY <1>4, CarryOnInv DEF ReceiptRefused, CompletionStatuses
<1>5. ASSUME NEW v \in CompletionStatuses, ReportVerdict(w, v) PROVE QueueInv'
  BY <1>5, CarryOnInv DEF ReportVerdict
<1>6. CASE CompleteRead(w)
  <2>1. outcome[w] \in CompletionStatuses
    BY <1>6 DEF CompleteRead, QueueInv, WorkerInv
  <2>2. NextStatus(job[w], outcome[w]) \in TerminalStatuses \cup {"queued"}
    BY <2>1 DEF NextStatus, CompletionStatuses, TerminalStatuses
  <2> QED
    BY <1>6, <2>2, CarryOnInv DEF CompleteRead, TaskStatuses
<1>7. CASE CompleteRefused(w)
  BY <1>7, IdleInv DEF CompleteRefused
<1>8. CASE CompleteWrite(w)
  BY <1>8, CompleteWriteInv
<1> QED
  BY <1>1, <1>2, <1>3, <1>4, <1>5, <1>6, <1>7, <1>8 DEF WorkerStep

LEMMA BreakerInv ==
  ASSUME QueueInv, NEW s \in BreakerStates, SetCircuitBreaker(s)
  PROVE  QueueInv'
<1> USE DEF SetCircuitBreaker, queueVars, workerVars, QueueInv
<1>1. TypeOK'
  BY DEF TypeOK
<1>2. WorkerInv' /\ SentInv' /\ OneSendPerClaim' /\ LockIsLatestClaim'
  BY DEF WorkerInv, SentInv, OneSendPerClaim, LockIsLatestClaim, Busy
<1>3. ReceiptInv' /\ DispatchedWasAcknowledged' /\ LapseInv' /\ OverlapNeedsLapse'
  BY DEF ReceiptInv, DispatchedWasAcknowledged, LapseInv, OverlapNeedsLapse, Busy
<1> QED
  BY <1>1, <1>2, <1>3

LEMMA StutterInv == QueueInv /\ UNCHANGED vars => QueueInv'
<1> SUFFICES ASSUME QueueInv, UNCHANGED vars PROVE QueueInv'
  OBVIOUS
<1> USE DEF vars, queueVars, edgeVars, workerVars, QueueInv
<1>1. TypeOK'
  BY DEF TypeOK
<1>2. WorkerInv' /\ SentInv' /\ OneSendPerClaim' /\ LockIsLatestClaim'
  BY DEF WorkerInv, SentInv, OneSendPerClaim, LockIsLatestClaim, Busy
<1>3. ReceiptInv' /\ DispatchedWasAcknowledged' /\ LapseInv' /\ OverlapNeedsLapse'
  BY DEF ReceiptInv, DispatchedWasAcknowledged, LapseInv, OverlapNeedsLapse, Busy
<1> QED
  BY <1>1, <1>2, <1>3

LEMMA NextInv == QueueInv /\ [Next]_vars => QueueInv'
<1> SUFFICES ASSUME QueueInv, Next PROVE QueueInv'
  BY StutterInv
<1>1. ASSUME NEW rows \in SUBSET Tasks, EnqueueTasks(rows) PROVE QueueInv'
  BY <1>1, EnqueueInv
<1>2. ASSUME NEW t \in Tasks, LeaseLapses(t) PROVE QueueInv'
  BY <1>2, LapseStepInv
<1>3. ASSUME NEW w \in Workers, NEW t \in Tasks, ClaimNextTask(w, t) PROVE QueueInv'
  BY <1>3, ClaimInv
<1>4. CASE ReapExpiredTasks
  BY <1>4, ReapInv
<1>5. ASSUME NEW t \in Tasks, NEW n \in Claims, NEW s \in DeviceStatuses, DeviceReceipt(t, n, s)
      PROVE  QueueInv'
  BY <1>5, DeviceReceiptInv
<1>6. ASSUME NEW s \in BreakerStates, SetCircuitBreaker(s) PROVE QueueInv'
  BY <1>6, BreakerInv
<1>7. ASSUME NEW w \in Workers, WorkerStep(w) PROVE QueueInv'
  BY <1>7, WorkerStepInv
<1>8. ASSUME NEW w \in Workers, WorkerCrash(w) PROVE QueueInv'
  BY <1>8, IdleInv DEF WorkerCrash
<1> QED
  BY <1>1, <1>2, <1>3, <1>4, <1>5, <1>6, <1>7, <1>8 DEF Next, QueueStep

-----------------------------------------------------------------------------
(* The theorems.                                                           *)

LEMMA SpecInv == Spec => []QueueInv
<1>1. Init => QueueInv
  BY InitInv
<1>2. QueueInv /\ [Next]_vars => QueueInv'
  BY NextInv
<1> QED
  BY <1>1, <1>2, PTL DEF Spec

\* Every reachable state is well typed; in particular attempts never exceeds
\* max_attempts, whatever order claims, reaps, completions and receipts take.
THEOREM TypeCorrect == Spec => []TypeOK
<1>1. QueueInv => TypeOK
  BY DEF QueueInv
<1> QED
  BY <1>1, SpecInv, PTL

\* claim_next_task and execute_once together: a claim number is used by one
\* worker and for one command.
THEOREM OneSendPerClaimHolds == Spec => []OneSendPerClaim
<1>1. QueueInv => OneSendPerClaim
  BY DEF QueueInv
<1> QED
  BY <1>1, SpecInv, PTL

\* Mutual exclusion up to the lease, although complete_task checks the owner
\* in one step and writes in another.
THEOREM OverlapNeedsLapseHolds == Spec => []OverlapNeedsLapse
<1>1. QueueInv => OverlapNeedsLapse
  BY DEF QueueInv
<1> QED
  BY <1>1, SpecInv, PTL

\* locked_by never names a worker that is still busy with an older claim.
THEOREM LockIsLatestClaimHolds == Spec => []LockIsLatestClaim
<1>1. QueueInv => LockIsLatestClaim
  BY DEF QueueInv
<1> QED
  BY <1>1, SpecInv, PTL

\* The two together, as the run checks them.
THEOREM ClaimsAreExclusiveHolds == Spec => []ClaimsAreExclusive
<1>1. QueueInv => ClaimsAreExclusive
  BY DEF QueueInv, ClaimsAreExclusive
<1> QED
  BY <1>1, SpecInv, PTL

\* A dispatched schedule has a receipt of success for a command that was sent.
THEOREM DispatchedWasAcknowledgedHolds == Spec => []DispatchedWasAcknowledged
<1>1. QueueInv => DispatchedWasAcknowledged
  BY DEF QueueInv
<1> QED
  BY <1>1, SpecInv, PTL

-----------------------------------------------------------------------------
(* TaskQueue implements CommandDelivery.                                   *)

Pending == [t \in Tasks |-> Outstanding(t)]
Evid == [t \in Tasks |-> {<<r.claim, r.status>> : r \in receipts[t]}]

\* The command variables of the abstract specification, as this one maps them.
\* Nobody starts or stops being about to post.
LEMMA PendingKept ==
  ASSUME \A w \in Workers :
            /\ pc'[w] = "claimed" <=> pc[w] = "claimed"
            /\ pc[w] = "claimed" => job'[w] = job[w] /\ claimNo'[w] = claimNo[w]
  PROVE  Pending' = Pending
<1>1. \A t \in Tasks : Outstanding(t)' = Outstanding(t)
  BY DEF Outstanding
<1> QED
  BY <1>1 DEF Pending

\* A worker leaves the place before the post: only its own claim goes away,
\* because no other worker has the same one.
LEMMA PendingDropped ==
  ASSUME QueueInv, NEW w \in Workers, pc[w] = "claimed",
         pc'[w] # "claimed",
         \A o \in Workers \ {w} :
            pc'[o] = pc[o] /\ job'[o] = job[o] /\ claimNo'[o] = claimNo[o]
  PROVE  /\ job[w] \in Tasks /\ claimNo[w] \in Claims /\ claimNo[w] \in Pending[job[w]]
         /\ Pending' = [Pending EXCEPT ![job[w]] = @ \ {claimNo[w]}]
<1>1. job[w] \in Tasks /\ claimNo[w] \in Claims
  BY DEF QueueInv, TypeOK, WorkerInv, OneSendPerClaim, Claims
<1>2. claimNo[w] \in Outstanding(job[w])
  BY DEF Outstanding
<1>3. ASSUME NEW t \in Tasks, t # job[w] PROVE Outstanding(t)' = Outstanding(t)
  BY <1>3 DEF Outstanding
<1>4. ASSUME NEW n PROVE
        n \in {claimNo'[o] : o \in {v \in Workers : pc'[v] = "claimed" /\ job'[v] = job[w]}}
          <=> n \in Outstanding(job[w]) \ {claimNo[w]}
  BY DEF Outstanding, QueueInv, OneSendPerClaim, Busy
<1>5. \A t \in Tasks : Outstanding(t)' = IF t = job[w] THEN Outstanding(t) \ {claimNo[w]} ELSE Outstanding(t)
  BY <1>3, <1>4 DEF Outstanding
<1> QED
  BY <1>1, <1>2, <1>5 DEF Pending

LEMMA InitRefines == Init => CD!CommandInit
<1> SUFFICES ASSUME Init PROVE CD!CommandInit
  OBVIOUS
<1>1. \A t \in Tasks : Outstanding(t) = {} /\ receipts[t] = {}
  BY DEF Init, Outstanding
<1> QED
  BY <1>1 DEF Init, CD!CommandInit

LEMMA ClaimIssues ==
  ASSUME QueueInv, NEW w \in Workers, NEW t \in Tasks, ClaimNextTask(w, t)
  PROVE  CD!Issue(t)
<1>1. attempts[t] < MaxAttempts /\ attempts' = [attempts EXCEPT ![t] = @ + 1]
  BY DEF ClaimNextTask, Take, Claimable
<1>2. /\ pc[w] # "claimed" /\ pc'[w] = "claimed" /\ job'[w] = t /\ claimNo'[w] = attempts[t] + 1
      /\ \A o \in Workers \ {w} : pc'[o] = pc[o] /\ job'[o] = job[o] /\ claimNo'[o] = claimNo[o]
  BY DEF ClaimNextTask, Take, QueueInv, TypeOK
<1>3. \A u \in Tasks : u # t => Outstanding(u)' = Outstanding(u)
  BY <1>2 DEF Outstanding
<1>4. Outstanding(t)' = Outstanding(t) \cup {attempts[t] + 1}
  BY <1>2 DEF Outstanding
<1>5. Pending' = [Pending EXCEPT ![t] = @ \cup {attempts[t] + 1}]
  BY <1>3, <1>4 DEF Pending
<1>6. sent' = sent /\ Evid' = Evid
  BY DEF ClaimNextTask, Take, edgeVars, Evid
<1> QED
  BY <1>1, <1>5, <1>6 DEF CD!Issue, Pending, Evid

LEMMA ReceiptReports ==
  ASSUME QueueInv, NEW t \in Tasks, NEW r \in Receipt, r.claim \in sent[t],
         ApplyReceipt(t, r), Pending' = Pending
  PROVE  CD!Report(t, r.claim, r.status)
<1>1. receipts' = [receipts EXCEPT ![t] = @ \cup {r}] /\ UNCHANGED <<attempts, sent>>
  BY DEF ApplyReceipt
<1>2. receipts \in [Tasks -> SUBSET Receipt]
  BY DEF QueueInv, TypeOK
<1>3. {<<q.claim, q.status>> : q \in receipts'[t]}
        = {<<q.claim, q.status>> : q \in receipts[t]} \cup {<<r.claim, r.status>>}
  BY <1>1, <1>2
<1>4. Evid' = [Evid EXCEPT ![t] = @ \cup {<<r.claim, r.status>>}]
  BY <1>1, <1>2, <1>3 DEF Evid
<1> QED
  BY <1>1, <1>4 DEF CD!Report, Pending, Evid

\* A worker that leaves the place before the post has delivered its command or
\* given it up.
LEMMA LeavingDeliversOrAbandons ==
  ASSUME QueueInv, NEW w \in Workers, pc[w] = "claimed", pc'[w] # "claimed",
         \A o \in Workers \ {w} :
            pc'[o] = pc[o] /\ job'[o] = job[o] /\ claimNo'[o] = claimNo[o],
         CommandSent(w) \/ UNCHANGED sent,
         UNCHANGED <<attempts, receipts>>
  PROVE  CD!CommandNext
<1>1. /\ job[w] \in Tasks /\ claimNo[w] \in Claims /\ claimNo[w] \in Pending[job[w]]
      /\ Pending' = [Pending EXCEPT ![job[w]] = @ \ {claimNo[w]}]
  BY PendingDropped
<1>2. Evid' = Evid
  BY DEF Evid
<1>3. CASE CommandSent(w)
  <2>1. CD!Deliver(job[w], claimNo[w])
    BY <1>1, <1>2, <1>3 DEF CD!Deliver, CommandSent, Pending, Evid
  <2> QED
    BY <2>1, <1>1 DEF CD!CommandNext, Claims
<1>4. CASE UNCHANGED sent
  <2>1. CD!Abandon(job[w], claimNo[w])
    BY <1>1, <1>2, <1>4 DEF CD!Abandon, Pending, Evid
  <2> QED
    BY <2>1, <1>1 DEF CD!CommandNext, Claims
<1> QED
  BY <1>3, <1>4

LEMMA NoCommandStep ==
  ASSUME QueueInv, UNCHANGED <<attempts, sent, receipts>>,
         \A w \in Workers :
            /\ pc'[w] = "claimed" <=> pc[w] = "claimed"
            /\ pc[w] = "claimed" => job'[w] = job[w] /\ claimNo'[w] = claimNo[w]
  PROVE  UNCHANGED CD!cmdVars
<1>1. Pending' = Pending
  BY PendingKept
<1>2. Evid' = Evid
  BY DEF Evid
<1> QED
  BY <1>1, <1>2 DEF CD!cmdVars, Pending, Evid

LEMMA WorkerStepRefines ==
  ASSUME QueueInv, NEW w \in Workers, WorkerStep(w) \/ WorkerCrash(w)
  PROVE  [CD!CommandNext]_(CD!cmdVars)
<1> DEFINE Others == \A o \in Workers \ {w} :
                        pc'[o] = pc[o] /\ job'[o] = job[o] /\ claimNo'[o] = claimNo[o]
<1>1. pc \in [Workers -> {"idle", "claimed", "answered", "reporting", "writing"}]
  BY DEF QueueInv, TypeOK
<1>2. CASE RecordReceipt(w)
  <2>1. job[w] \in Tasks /\ claimNo[w] \in sent[job[w]] /\ sent[job[w]] \subseteq Claims
    BY <1>2 DEF RecordReceipt, QueueInv, TypeOK, WorkerInv
  <2>2. PICK t \in Tasks, r \in Receipt : t = job[w] /\ r.claim \in sent[t] /\ ApplyReceipt(t, r)
    BY <1>2, <2>1 DEF RecordReceipt, Receipt
  <2>3. Pending' = Pending
    BY <1>1, <1>2, PendingKept DEF RecordReceipt, GoIdle, QueueInv, TypeOK
  <2>4. CD!Report(t, r.claim, r.status)
    BY <2>2, <2>3, ReceiptReports
  <2>5. r.claim \in 1..MaxAttempts /\ r.status \in ReceiptStatuses
    BY DEF Receipt, Claims
  <2> QED
    BY <2>4, <2>5 DEF CD!CommandNext
<1>3. CASE ~RecordReceipt(w) /\ pc[w] = "claimed"
  <2>1. /\ Others /\ pc'[w] # "claimed" /\ UNCHANGED <<attempts, receipts>>
        /\ CommandSent(w) \/ UNCHANGED sent
    BY <1>3 DEF WorkerStep, GatewayAnswered, GatewayFailed, ReceiptRefused, ReportVerdict,
                CompleteRead, CompleteRefused, CompleteWrite, WorkerCrash, GoIdle, CarryOn,
                queueVars, edgeVars, QueueInv, TypeOK
  <2> QED
    BY <1>3, <2>1, LeavingDeliversOrAbandons
<1>4. CASE ~RecordReceipt(w) /\ pc[w] # "claimed"
  <2>1. /\ Others /\ pc'[w] # "claimed" /\ UNCHANGED <<attempts, receipts, sent>>
    BY <1>4 DEF WorkerStep, GatewayAnswered, GatewayFailed, ReceiptRefused, ReportVerdict,
                CompleteRead, CompleteRefused, CompleteWrite, WorkerCrash, GoIdle, CarryOn,
                queueVars, edgeVars, QueueInv, TypeOK
  <2> QED
    BY <1>4, <2>1, NoCommandStep
<1> QED
  BY <1>2, <1>3, <1>4

LEMMA NextRefines == QueueInv /\ [Next]_vars => [CD!CommandNext]_(CD!cmdVars)
<1> SUFFICES ASSUME QueueInv, [Next]_vars PROVE [CD!CommandNext]_(CD!cmdVars)
  OBVIOUS
<1>1. ASSUME \/ \E rows \in SUBSET Tasks : EnqueueTasks(rows)
             \/ \E t \in Tasks : LeaseLapses(t)
      PROVE  UNCHANGED CD!cmdVars
  BY <1>1, NoCommandStep DEF EnqueueTasks, LeaseLapses, edgeVars, workerVars
<1>2. ASSUME NEW w \in Workers, NEW t \in Tasks, ClaimNextTask(w, t)
      PROVE  CD!CommandNext
  BY <1>2, ClaimIssues DEF CD!CommandNext
<1>3. ASSUME ReapExpiredTasks \/ UNCHANGED vars
      PROVE  UNCHANGED CD!cmdVars
  BY <1>3, NoCommandStep DEF ReapExpiredTasks, edgeVars, workerVars, queueVars, vars
<1>4. ASSUME NEW t \in Tasks, NEW n \in Claims, NEW s \in DeviceStatuses, DeviceReceipt(t, n, s)
      PROVE  CD!CommandNext
  <2> DEFINE r == [claim |-> n, status |-> s, from |-> "device"]
  <2>1. /\ r \in Receipt /\ r.claim \in sent[t] /\ ApplyReceipt(t, r)
        /\ r.claim \in 1..MaxAttempts /\ r.status \in ReceiptStatuses
    BY <1>4, TaskQueueAssumption DEF DeviceReceipt, Receipt, Claims
  <2> HIDE DEF r
  <2>2. Pending' = Pending
    BY <1>4, PendingKept DEF DeviceReceipt, workerVars
  <2>3. CD!Report(t, r.claim, r.status)
    BY <2>1, <2>2, ReceiptReports
  <2> QED
    BY <2>1, <2>3 DEF CD!CommandNext
<1>5. ASSUME NEW s \in BreakerStates, SetCircuitBreaker(s)
      PROVE  UNCHANGED CD!cmdVars
  BY <1>5, NoCommandStep DEF SetCircuitBreaker, queueVars, workerVars
<1>6. ASSUME NEW w \in Workers, WorkerStep(w) \/ WorkerCrash(w)
      PROVE  [CD!CommandNext]_(CD!cmdVars)
  BY <1>6, WorkerStepRefines
<1> QED
  BY <1>1, <1>2, <1>3, <1>4, <1>5, <1>6 DEF Next, QueueStep

\* The queue and its workers implement the promise made to the field: bounded
\* commands, each sent at most once, evidence only of commands that were sent.
THEOREM QueueKeepsCommandPromise == Spec => KeepsCommandPromise
<1>1. Init => CD!CommandInit
  BY InitRefines
<1>2. QueueInv /\ [Next]_vars => [CD!CommandNext]_(CD!cmdVars)
  BY NextRefines
<1> QED
  BY <1>1, <1>2, SpecInv, PTL DEF Spec, KeepsCommandPromise, CD!CommandSpec
-----------------------------------------------------------------------------
(* What the queue guarantees to whoever puts tasks into it.                *)

\* No attempt is counted before there is a row.
Unclaimed == \A t \in Tasks : status[t] = "absent" => attempts[t] = 0

\* A row comes only by being enqueued, and stays.
LEMMA RowsStay ==
  ASSUME QueueInv, Unclaimed, [QueueStep]_vars, NEW t \in Tasks
  PROVE  status'[t] = "absent" <=> status[t] = "absent"
<1> USE DEF QueueInv, TypeOK
<1>1. ASSUME NEW u \in Tasks, LeaseLapses(u) PROVE status' = status
  BY <1>1 DEF LeaseLapses
<1>2. ASSUME NEW w \in Workers, NEW u \in Tasks, ClaimNextTask(w, u)
      PROVE  status'[t] = "absent" <=> status[t] = "absent"
  BY <1>2 DEF ClaimNextTask, Take, Claimable
<1>3. CASE ReapExpiredTasks
  BY <1>3 DEF ReapExpiredTasks, Expired
<1>4. ASSUME NEW u \in Tasks, NEW n \in Claims, NEW s \in DeviceStatuses, DeviceReceipt(u, n, s)
      PROVE  status'[t] = "absent" <=> status[t] = "absent"
  <2>1. attempts[u] # 0
    BY <1>4 DEF DeviceReceipt, SentInv
  <2> QED
    BY <1>4, <2>1 DEF DeviceReceipt, ApplyReceipt, Unclaimed
<1>5. ASSUME NEW w \in Workers, RecordReceipt(w)
      PROVE  status'[t] = "absent" <=> status[t] = "absent"
  BY <1>5 DEF RecordReceipt, ApplyReceipt, WorkerInv
<1>6. ASSUME NEW w \in Workers, CompleteWrite(w)
      PROVE  status'[t] = "absent" <=> status[t] = "absent"
  BY <1>6 DEF CompleteWrite, WorkerInv, TerminalStatuses
<1>7. ASSUME NEW w \in Workers, WorkerStep(w) \/ WorkerCrash(w), ~RecordReceipt(w), ~CompleteWrite(w)
      PROVE  status' = status
  BY <1>7 DEF WorkerStep, WorkerCrash, GatewayAnswered, GatewayFailed, ReceiptRefused,
              ReportVerdict, CompleteRead, CompleteRefused, queueVars
<1>8. CASE UNCHANGED vars \/ \E s \in BreakerStates : SetCircuitBreaker(s)
  BY <1>8 DEF vars, queueVars, SetCircuitBreaker
<1> QED
  BY <1>1, <1>2, <1>3, <1>4, <1>5, <1>6, <1>7, <1>8 DEF QueueStep

LEMMA UnclaimedStays == QueueInv /\ Unclaimed /\ [Next]_vars => Unclaimed'
<1> SUFFICES ASSUME QueueInv, Unclaimed, [Next]_vars PROVE Unclaimed'
  OBVIOUS
<1> USE DEF QueueInv, TypeOK
<1>1. ASSUME NEW rows \in SUBSET Tasks, EnqueueTasks(rows) PROVE Unclaimed'
  BY <1>1 DEF EnqueueTasks, Unclaimed
<1>2. ASSUME [QueueStep]_vars PROVE Unclaimed'
  <2>1. SUFFICES ASSUME NEW t \in Tasks, status'[t] = "absent" PROVE attempts'[t] = 0
    BY DEF Unclaimed
  <2>2. status[t] = "absent" /\ attempts[t] = 0
    BY <1>2, <2>1, RowsStay DEF Unclaimed
  <2>3. ASSUME NEW w \in Workers, NEW u \in Tasks, ClaimNextTask(w, u) PROVE attempts'[t] = 0
    BY <2>2, <2>3 DEF ClaimNextTask, Take, Claimable
  <2>4. ASSUME ~\E w \in Workers, u \in Tasks : ClaimNextTask(w, u) PROVE attempts' = attempts
    BY <1>2, <2>4 DEF QueueStep, LeaseLapses, ReapExpiredTasks, DeviceReceipt, ApplyReceipt,
       SetCircuitBreaker, WorkerStep, WorkerCrash, RecordReceipt, CompleteWrite, GatewayAnswered,
       GatewayFailed, ReceiptRefused, ReportVerdict, CompleteRead, CompleteRefused, queueVars, vars
  <2> QED
    BY <2>2, <2>3, <2>4
<1> QED
  BY <1>1, <1>2 DEF Next

\* The invariant to build on, and what it says of commands.
RowsInv == QueueInv /\ Unclaimed

LEMMA RowsInit == Init => RowsInv
  BY InitInv DEF Init, RowsInv, Unclaimed

LEMMA RowsNext == RowsInv /\ [Next]_vars => RowsInv'
  BY NextInv, UnclaimedStays DEF RowsInv

LEMMA CommandsNeedRows ==
  ASSUME RowsInv, NEW t \in Tasks
  PROVE  /\ sent[t] # {} => status[t] # "absent"
         /\ \A r \in receipts[t] : r.claim \in sent[t]
  BY DEF RowsInv, Unclaimed, QueueInv, SentInv, ReceiptInv, TypeOK

\* What a step shows at the edge: one more command, one more receipt about a
\* command that was sent, or nothing.
LEMMA EdgeStep ==
  ASSUME RowsInv, [Next]_vars
  PROVE  \/ UNCHANGED <<sent, receipts>>
         \/ /\ UNCHANGED receipts
            /\ \E t \in Tasks, n \in Claims : sent' = [sent EXCEPT ![t] = @ \cup {n}]
         \/ /\ UNCHANGED sent
            /\ \E t \in Tasks, r \in Receipt :
                 r.claim \in sent[t] /\ receipts' = [receipts EXCEPT ![t] = @ \cup {r}]
<1> USE TaskQueueAssumption DEF RowsInv, QueueInv, TypeOK
<1>1. ASSUME NEW t \in Tasks, NEW n \in Claims, NEW s \in DeviceStatuses, DeviceReceipt(t, n, s)
      PROVE  /\ UNCHANGED sent
             /\ \E u \in Tasks, r \in Receipt :
                  r.claim \in sent[u] /\ receipts' = [receipts EXCEPT ![u] = @ \cup {r}]
  <2> DEFINE r == [claim |-> n, status |-> s, from |-> "device"]
  <2>1. r \in Receipt /\ r.claim \in sent[t]
    BY <1>1 DEF DeviceReceipt, Receipt
  <2>2. UNCHANGED sent /\ receipts' = [receipts EXCEPT ![t] = @ \cup {r}]
    BY <1>1 DEF DeviceReceipt, ApplyReceipt
  <2> QED
    BY <2>1, <2>2
<1>2. ASSUME NEW w \in Workers, RecordReceipt(w)
      PROVE  /\ UNCHANGED sent
             /\ \E u \in Tasks, r \in Receipt :
                  r.claim \in sent[u] /\ receipts' = [receipts EXCEPT ![u] = @ \cup {r}]
  <2> DEFINE r == [claim |-> claimNo[w], status |-> outcome[w], from |-> "worker"]
  <2>1. job[w] \in Tasks /\ claimNo[w] \in sent[job[w]] /\ sent[job[w]] \subseteq Claims
    BY <1>2 DEF RecordReceipt, WorkerInv
  <2>2. r \in Receipt /\ r.claim \in sent[job[w]]
    BY <1>2, <2>1 DEF RecordReceipt, Receipt
  <2>3. UNCHANGED sent /\ receipts' = [receipts EXCEPT ![job[w]] = @ \cup {r}]
    BY <1>2 DEF RecordReceipt, ApplyReceipt
  <2> QED
    BY <2>1, <2>2, <2>3
<1>3. ASSUME NEW w \in Workers, WorkerStep(w) \/ WorkerCrash(w), ~RecordReceipt(w)
      PROVE  /\ UNCHANGED receipts
             /\ \/ UNCHANGED sent
                \/ \E t \in Tasks, n \in Claims : sent' = [sent EXCEPT ![t] = @ \cup {n}]
  <2>1. UNCHANGED receipts
    BY <1>3 DEF WorkerStep, WorkerCrash, GatewayAnswered, GatewayFailed, ReceiptRefused,
                ReportVerdict, CompleteRead, CompleteRefused, CompleteWrite, edgeVars
  <2>2. CASE pc[w] = "claimed" /\ CommandSent(w)
    <3>1. job[w] \in Tasks /\ claimNo[w] \in Claims
      BY <2>2 DEF WorkerInv, OneSendPerClaim, Claims
    <3> QED
      BY <2>1, <2>2, <3>1 DEF CommandSent
  <2>3. CASE UNCHANGED sent
    BY <2>1, <2>3
  <2> QED
    BY <1>3, <2>2, <2>3 DEF WorkerStep, WorkerCrash, GatewayAnswered, GatewayFailed, ReceiptRefused,
                ReportVerdict, CompleteRead, CompleteRefused, CompleteWrite
<1>4. ASSUME \/ \E rows \in SUBSET Tasks : EnqueueTasks(rows)
             \/ \E t \in Tasks : LeaseLapses(t)
             \/ \E w \in Workers, t \in Tasks : ClaimNextTask(w, t)
             \/ ReapExpiredTasks
             \/ \E s \in BreakerStates : SetCircuitBreaker(s)
             \/ UNCHANGED vars
      PROVE  UNCHANGED <<sent, receipts>>
  BY <1>4 DEF EnqueueTasks, LeaseLapses, ClaimNextTask, Take, ReapExpiredTasks, SetCircuitBreaker,
              edgeVars, vars
<1> QED
  BY <1>1, <1>2, <1>3, <1>4 DEF Next, QueueStep
=============================================================================
