------------------------- MODULE DispatchChainProofs -------------------------
(***************************************************************************)
(* What the desk and the queue guarantee together, for any orders, trades, *)
(* stations, allocations and numbers of processes and attempts.            *)
(***************************************************************************)
EXTENDS DispatchChain, OrderOutboxProofs

\* The proofs about the queue, for the queue of the chain.
QP == INSTANCE TaskQueueProofs WITH
            Tasks <- Commands, VppTasks <- Commands, Workers <- Dispatchers,
            NoWorker <- NoDispatcher, MaxAttempts <- MaxDispatches,
            status <- taskStatus, attempts <- dispatches, lockedBy <- taskOwner,
            lease <- taskLease, pc <- place, job <- task

\* Both instances of the queue are the same queue.
LEMMA SameQueue ==
  /\ Queue!Init <=> QP!Init
  /\ Queue!QueueStep <=> QP!QueueStep
  /\ Queue!vars = QP!vars
  /\ Queue!Next <=> QP!Next
  /\ \A rows : Queue!EnqueueTasks(rows) <=> QP!EnqueueTasks(rows)
  /\ Queue!TaskQueueAssumption <=> QP!TaskQueueAssumption
<1>1. Queue!Init <=> QP!Init
  BY DEF Queue!Init, QP!Init
<1>2. \A rows : Queue!EnqueueTasks(rows) <=> QP!EnqueueTasks(rows)
  BY DEF Queue!EnqueueTasks, QP!EnqueueTasks, Queue!edgeVars, QP!edgeVars, Queue!workerVars, QP!workerVars
<1>3. Queue!TaskQueueAssumption <=> QP!TaskQueueAssumption
  BY DEF Queue!TaskQueueAssumption, QP!TaskQueueAssumption, Queue!EdgeStatuses, QP!EdgeStatuses,
    Queue!ReceiptStatuses, QP!ReceiptStatuses, Queue!TerminalEdgeStatuses, QP!TerminalEdgeStatuses,
    Queue!NonTerminalEdgeStatuses, QP!NonTerminalEdgeStatuses
<1>4. Queue!QueueStep <=> QP!QueueStep
  BY DEF Queue!QueueStep, QP!QueueStep, Queue!LeaseLapses, QP!LeaseLapses,
         Queue!ClaimNextTask, QP!ClaimNextTask, Queue!Take, QP!Take,
         Queue!Claimable, QP!Claimable, Queue!ReapExpiredTasks, QP!ReapExpiredTasks,
         Queue!Expired, QP!Expired, Queue!DeviceReceipt, QP!DeviceReceipt,
         Queue!ApplyReceipt, QP!ApplyReceipt, Queue!SetCircuitBreaker, QP!SetCircuitBreaker,
         Queue!WorkerStep, QP!WorkerStep, Queue!WorkerCrash, QP!WorkerCrash,
         Queue!GatewayAnswered, QP!GatewayAnswered, Queue!GatewayFailed, QP!GatewayFailed,
         Queue!RecordReceipt, QP!RecordReceipt, Queue!ReceiptRefused, QP!ReceiptRefused,
         Queue!ReportVerdict, QP!ReportVerdict, Queue!CompleteRead, QP!CompleteRead,
         Queue!CompleteRefused, QP!CompleteRefused, Queue!CompleteWrite, QP!CompleteWrite,
         Queue!MayComplete, QP!MayComplete, Queue!NextStatus, QP!NextStatus,
         Queue!CommandSent, QP!CommandSent, Queue!GoIdle, QP!GoIdle, Queue!CarryOn, QP!CarryOn,
         Queue!Claims, QP!Claims, Queue!BreakerStates, QP!BreakerStates,
         Queue!ReceiptStatuses, QP!ReceiptStatuses,
         Queue!CompletionStatuses, QP!CompletionStatuses, Queue!queueVars, QP!queueVars,
         Queue!edgeVars, QP!edgeVars, Queue!workerVars, QP!workerVars
<1>5. Queue!vars = QP!vars
  BY DEF Queue!vars, QP!vars, Queue!queueVars, QP!queueVars, Queue!edgeVars, QP!edgeVars,
         Queue!workerVars, QP!workerVars
<1>6. Queue!Next <=> QP!Next
  BY <1>2, <1>4 DEF Queue!Next, QP!Next
<1> QED
  BY <1>1, <1>2, <1>3, <1>4, <1>5, <1>6

\* The queue's assumptions hold of the chain's queue.
LEMMA QueueAssumed == QP!TaskQueueAssumption
  BY SameQueue, DispatchChainAssumption

-----------------------------------------------------------------------------
(* The parts.                                                              *)

\* What is sold stays sold.
SalesInv ==
    \A o \in Orders : trades[o] # {} =>
        /\ status[o] \in SoldStatuses /\ filled[o] > 0
        /\ venue[o] # "none" /\ Answered(o)

\* Commands are there exactly for trades.
LinkInv ==
    \A o \in Orders, x \in TradeIds, s \in Stations :
        taskStatus[<<o, x, s>>] # "absent" <=> x \in trades[o] /\ s \in AllocatedTo[o]

ChainInv ==
    /\ OutboxInv
    /\ QP!RowsInv
    /\ SalesInv
    /\ LinkInv

\* A change of the breaker is, for the part that does not make it, somebody's
\* call of set_circuit_breaker.
LEMMA StepOfParts ==
  ASSUME OutboxInv, QP!RowsInv, ChainNext
  PROVE  [Next]_vars /\ [QP!Next]_(QP!vars)
<1>0. taskStatus \in [Commands -> QP!TaskStatuses \cup {"absent"}]
  BY DEF QP!RowsInv, QP!QueueInv, QP!TypeOK
<1>1. ASSUME NEW o \in Orders, NEW x \in TradeIds, NEW q \in 1..Quantity, CaptureTrade(o, x, q)
      PROVE  [Next]_vars /\ [QP!Next]_(QP!vars)
  <2>1. Next
    BY <1>1 DEF CaptureTrade, Next
  <2>2. QP!EnqueueTasks(CommandsOf(o, x))
    BY <1>1, SameQueue DEF CaptureTrade
  <2>3. CommandsOf(o, x) \in SUBSET Commands
    BY DispatchChainAssumption DEF CommandsOf, Commands
  <2>4. CASE CommandsOf(o, x) # {}
    BY <2>1, <2>2, <2>3, <2>4 DEF QP!Next
  <2>5. CASE CommandsOf(o, x) = {}
    <3>1. taskStatus' = taskStatus
      BY <1>0, <2>2, <2>5 DEF QP!EnqueueTasks
    <3> QED
      BY <2>1, <2>2, <3>1 DEF QP!EnqueueTasks, QP!vars, QP!queueVars
  <2> QED
    BY <2>4, <2>5
<1>2. ASSUME DeskStep, UNCHANGED taskVars
      PROVE  [Next]_vars /\ [QP!Next]_(QP!vars)
  <2>1. Next
    BY <1>2 DEF Next
  <2>2. breaker' \in QP!BreakerStates
    BY <2>1, NextInv DEF OutboxInv, TypeOK, BreakerStates, QP!BreakerStates
  <2>3. QP!SetCircuitBreaker(breaker')
    BY <1>2 DEF taskVars, QP!SetCircuitBreaker, QP!queueVars, QP!workerVars
  <2> QED
    BY <2>1, <2>2, <2>3 DEF QP!Next, QP!QueueStep
<1>3. ASSUME Queue!QueueStep, UNCHANGED <<orderVars, outboxVars, workerVars, venue>>
      PROVE  [Next]_vars /\ [QP!Next]_(QP!vars)
  <2>1. QP!Next
    BY <1>3, SameQueue DEF QP!Next
  <2>2. QP!RowsInv'
    BY <2>1, QP!RowsNext, QueueAssumed
  <2>3. breaker' \in OperatorSets
    BY <2>2, DispatchChainAssumption
       DEF QP!RowsInv, QP!QueueInv, QP!TypeOK, QP!BreakerStates, BreakerStates
  <2>4. SetCircuitBreaker(breaker')
    BY <1>3 DEF SetCircuitBreaker
  <2> QED
    BY <2>1, <2>3, <2>4 DEF Next, DeskStep
<1> QED
  BY <1>1, <1>2, <1>3 DEF ChainNext

\* Nothing but a trade touches trades; statuses move as ORDER_TRANSITIONS says,
\* and what was learned from the venue stays.
DeskMoves ==
    /\ UNCHANGED <<filled, trades>>
    /\ \A o \in Orders : /\ status'[o] = status[o] \/ MayMove(o, status'[o])
                         /\ Answered(o) => Answered(o)'
                         /\ venue[o] # "none" => venue'[o] # "none"

LEMMA DeskStepMoves ==
  ASSUME OutboxInv, DeskStep
  PROVE  DeskMoves
<1> USE DEF OutboxInv, TypeOK, MayMove, Moved, Answered
<1>1. ASSUME NEW o \in Orders, NEW s \in {"ready", "risk_rejected"}, CreateMarketOrder(o, s)
      PROVE  DeskMoves
  BY <1>1 DEF CreateMarketOrder, DeskMoves
<1>2. ASSUME NEW o \in Orders, NEW s \in VenueStatuses, VenueMoves(o, s)
      PROVE  DeskMoves
  BY <1>2, OrderOutboxAssumption DEF VenueMoves, DeskMoves, orderVars, VenueLive, VenueEnds
<1>3. ASSUME NEW w \in Workers, BeginSubmission(w) \/ FailOrder(w) \/ Compare(w)
      PROVE  DeskMoves
  BY <1>3 DEF BeginSubmission, FailOrder, Compare, WorkerInv, DeskMoves, CarryOn, GoIdle
<1>4. ASSUME NEW w \in Workers, RecordAnswer(w)
      PROVE  DeskMoves
  BY <1>4 DEF RecordAnswer, WorkerInv, DeskMoves, CarryOn
<1>5. ASSUME NEW w \in Workers, SubmitAccepted(w) \/ SubmitRaises(w)
      PROVE  DeskMoves
  BY <1>5 DEF SubmitAccepted, SubmitRaises, Placed, WorkerInv, DeskMoves, orderVars
<1>6. ASSUME \/ \E o \in Orders : LeaseLapses(o)
             \/ \E s \in OperatorSets : SetCircuitBreaker(s)
             \/ \E w \in Workers, o \in Orders : ClaimOutboxMessage(w, o) \/ ListForReconciliation(w, o)
             \/ \E w \in Workers : \/ ReadOrder(w) \/ SubmitRefused(w) \/ FinishPublished(w)
                                   \/ FinishFailed(w) \/ OpenBreaker(w) \/ LookAtOrder(w)
                                   \/ QueryVenue(w) \/ MarkOrderReconciled(w) \/ WorkerCrash(w)
      PROVE  DeskMoves
  <2>1. UNCHANGED <<status, marketId, unnamed, filled, trades, venue>>
    BY <1>6 DEF LeaseLapses, SetCircuitBreaker, ClaimOutboxMessage, ListForReconciliation, ReadOrder,
       SubmitRefused, FinishPublished, FinishFailed, OpenBreaker, LookAtOrder, QueryVenue,
       MarkOrderReconciled, WorkerCrash, orderVars
  <2> QED
    BY <2>1 DEF DeskMoves
<1> QED
  BY <1>1, <1>2, <1>3, <1>4, <1>5, <1>6 DEF DeskStep, WorkerStep

\* The chain's invariant.
LEMMA ChainInitInv == ChainInit => ChainInv
<1> SUFFICES ASSUME ChainInit PROVE ChainInv
  OBVIOUS
<1>1. OutboxInv
  BY InitInv DEF ChainInit
<1>2. QP!RowsInv
  BY QP!RowsInit, QueueAssumed, SameQueue DEF ChainInit
<1>3. SalesInv
  BY DEF ChainInit, Init, SalesInv
<1>4. LinkInv
  BY DEF ChainInit, Init, Queue!Init, LinkInv, Commands
<1> QED
  BY <1>1, <1>2, <1>3, <1>4 DEF ChainInv

LEMMA CaptureKeeps ==
  ASSUME ChainInv, NEW o \in Orders, NEW x \in TradeIds, NEW q \in 1..Quantity, CaptureTrade(o, x, q)
  PROVE  SalesInv' /\ LinkInv'
<1>1. trades \in [Orders -> SUBSET TradeIds] /\ filled \in [Orders -> 0..Quantity]
      /\ status \in [Orders -> OrderStatuses]
  BY DEF ChainInv, OutboxInv, TypeOK
<1>2. Fill(o, x, Fitting(o, q), FillStatus(filled[o] + Fitting(o, q)))
  BY DEF CaptureTrade, RecordTradeFill
<1>3. FillStatus(filled[o] + Fitting(o, q)) \in SoldStatuses
  BY DEF FillStatus, SoldStatuses
<1>4. filled'[o] > 0
  BY <1>1, <1>2, OrderOutboxAssumption DEF Fill, Fitting
<1>5. venue[o] # "none" /\ Answered(o)
  BY <1>2 DEF Fill, ChainInv, OutboxInv, OrderInv, Acknowledged
<1>6. SalesInv'
  BY <1>1, <1>2, <1>3, <1>4, <1>5 DEF SalesInv, ChainInv, Fill, Moved, Answered
<1>7. ASSUME NEW p \in Orders, NEW y \in TradeIds, NEW s \in Stations
      PROVE  taskStatus'[<<p, y, s>>] # "absent" <=> y \in trades'[p] /\ s \in AllocatedTo[p]
  <2>1. taskStatus'[<<p, y, s>>] = IF <<p, y, s>> \in CommandsOf(o, x) THEN "queued"
                                   ELSE taskStatus[<<p, y, s>>]
    BY DEF CaptureTrade, Queue!EnqueueTasks, Commands
  <2>2. <<p, y, s>> \in CommandsOf(o, x) <=> p = o /\ y = x /\ s \in AllocatedTo[o]
    BY DEF CommandsOf
  <2>3. trades' = [trades EXCEPT ![o] = @ \cup {x}]
    BY <1>2 DEF Fill
  <2>4. y \in trades'[p] <=> y \in trades[p] \/ (p = o /\ y = x)
    BY <1>1, <2>3
  <2> QED
    BY <2>1, <2>2, <2>4 DEF ChainInv, LinkInv
<1> QED
  BY <1>6, <1>7 DEF LinkInv

LEMMA DeskKeeps ==
  ASSUME ChainInv, DeskStep, UNCHANGED taskVars
  PROVE  SalesInv' /\ LinkInv'
<1>1. DeskMoves
  BY DeskStepMoves DEF ChainInv
<1>2. ASSUME NEW o \in Orders, status[o] \in SoldStatuses, MayMove(o, status'[o])
      PROVE  status'[o] \in SoldStatuses
  BY <1>2 DEF MayMove, OrderTransitions, OrderStatuses, Ended, SoldStatuses
<1>3. SalesInv'
  BY <1>1, <1>2 DEF DeskMoves, SalesInv, ChainInv
<1>4. LinkInv'
  BY <1>1 DEF DeskMoves, LinkInv, ChainInv, taskVars
<1> QED
  BY <1>3, <1>4

LEMMA QueueKeeps ==
  ASSUME ChainInv, Queue!QueueStep, UNCHANGED <<orderVars, outboxVars, workerVars, venue>>
  PROVE  SalesInv' /\ LinkInv'
<1>1. SalesInv'
  BY DEF ChainInv, SalesInv, orderVars, Answered
<1>2. ASSUME NEW c \in Commands PROVE taskStatus'[c] = "absent" <=> taskStatus[c] = "absent"
  BY SameQueue, QueueAssumed, QP!RowsStay DEF ChainInv, QP!RowsInv
<1>3. LinkInv'
  BY <1>2 DEF ChainInv, LinkInv, orderVars, Commands
<1> QED
  BY <1>1, <1>3

LEMMA ChainNextInv == ChainInv /\ [ChainNext]_chainVars => ChainInv'
<1>1. ASSUME ChainInv, ChainNext PROVE ChainInv'
  <2>1. [Next]_vars /\ [QP!Next]_(QP!vars)
    BY <1>1, StepOfParts DEF ChainInv
  <2>2. OutboxInv' /\ QP!RowsInv'
    BY <1>1, <2>1, NextInv, QP!RowsNext, QueueAssumed DEF ChainInv
  <2>3. SalesInv' /\ LinkInv'
    BY <1>1, CaptureKeeps, DeskKeeps, QueueKeeps DEF ChainNext
  <2> QED
    BY <2>2, <2>3 DEF ChainInv
<1>2. ASSUME ChainInv, UNCHANGED chainVars PROVE ChainInv'
  <2>1. UNCHANGED vars /\ UNCHANGED taskVars
    BY <1>2 DEF chainVars
  <2>2. UNCHANGED QP!vars
    BY <2>1 DEF vars, taskVars, QP!vars, QP!queueVars, QP!edgeVars, QP!workerVars
  <2>3. OutboxInv' /\ QP!RowsInv'
    BY <1>2, <2>1, <2>2, NextInv, QP!RowsNext, QueueAssumed DEF ChainInv
  <2>4. SalesInv' /\ LinkInv'
    BY <1>2, <2>1 DEF ChainInv, SalesInv, LinkInv, vars, orderVars, taskVars, Answered
  <2> QED
    BY <2>3, <2>4 DEF ChainInv
<1> QED
  BY <1>1, <1>2

LEMMA ChainSpecInv == ChainSpec => []ChainInv
<1>1. ChainInit => ChainInv
  BY ChainInitInv
<1>2. ChainInv /\ [ChainNext]_chainVars => ChainInv'
  BY ChainNextInv
<1> QED
  BY <1>1, <1>2, PTL DEF ChainSpec

-----------------------------------------------------------------------------
(* The theorems.                                                           *)

\* A command that reached an edge is one of a recorded trade on an order that
\* the venue took and answered for, whatever reconciliation, dead letters and
\* retries do meanwhile, and every recorded trade has its tasks.
THEOREM CommandsAreSoldHolds == ChainSpec => []CommandsAreSold
<1>1. ASSUME ChainInv PROVE CommandsAreSold
  <2>1. ASSUME NEW o \in Orders, NEW x \in TradeIds, NEW s \in Stations, sent[<<o, x, s>>] # {}
        PROVE  /\ x \in trades[o] /\ s \in AllocatedTo[o]
               /\ status[o] \in SoldStatuses /\ filled[o] > 0
               /\ venue[o] # "none" /\ (marketId[o] \/ unnamed[o])
    <3>1. <<o, x, s>> \in Commands
      BY DEF Commands
    <3>2. taskStatus[<<o, x, s>>] # "absent"
      BY <1>1, <2>1, <3>1, QP!CommandsNeedRows, QueueAssumed DEF ChainInv
    <3>3. x \in trades[o] /\ s \in AllocatedTo[o]
      BY <1>1, <3>2 DEF ChainInv, LinkInv
    <3> QED
      BY <1>1, <3>3 DEF ChainInv, SalesInv, Answered
  <2> QED
    BY <1>1, <2>1 DEF CommandsAreSold, ChainInv, LinkInv
<1> QED
  BY <1>1, ChainSpecInv, PTL

\* The chain is an order desk and a task queue, each behaving as by itself.
THEOREM ChainKeepsItsParts == ChainSpec => KeepsItsParts
<1>1. ChainInit => Init /\ Queue!Init
  BY DEF ChainInit
<1>2. ChainInv /\ [ChainNext]_chainVars => [Next]_vars /\ [Queue!Next]_(Queue!vars)
  <2>1. ASSUME ChainInv, ChainNext PROVE [Next]_vars /\ [Queue!Next]_(Queue!vars)
    <3>1. [Next]_vars /\ [QP!Next]_(QP!vars)
      BY <2>1, StepOfParts DEF ChainInv
    <3>2. Queue!vars' = QP!vars'
      BY DEF Queue!vars, QP!vars, Queue!queueVars, QP!queueVars, Queue!edgeVars, QP!edgeVars,
             Queue!workerVars, QP!workerVars
    <3> QED
      BY <3>1, <3>2, SameQueue
  <2>2. ASSUME UNCHANGED chainVars PROVE UNCHANGED vars /\ UNCHANGED Queue!vars
    BY <2>2 DEF chainVars, vars, taskVars, Queue!vars, Queue!queueVars, Queue!edgeVars,
                Queue!workerVars
  <2> QED
    BY <2>1, <2>2
<1> QED
  BY <1>1, <1>2, ChainSpecInv, PTL DEF ChainSpec, KeepsItsParts, Spec, Queue!Spec

\* What is proved of the desk and of the queue each by itself therefore holds
\* where they share the breaker and the transaction of a trade.
THEOREM PartsPromisesHold ==
    ChainSpec => /\ [](/\ PublishedIsSubmitted /\ UnknownAtVenueIsUnfinished /\ NeverAheadOfVenue
                      /\ FailedHasCause /\ FullyTradedIsFilled)
                 /\ MessagesEndOnce /\ KeepsOrderPromise
                 /\ [](/\ QP!OneSendPerClaim /\ QP!OverlapNeedsLapse
                      /\ QP!LockIsLatestClaim /\ QP!DispatchedWasAcknowledged)
<1>1. ChainSpec => Spec
  BY ChainKeepsItsParts DEF KeepsItsParts
<1>2. ChainInv => /\ QP!OneSendPerClaim /\ QP!OverlapNeedsLapse
                  /\ QP!LockIsLatestClaim /\ QP!DispatchedWasAcknowledged
  BY DEF ChainInv, QP!RowsInv, QP!QueueInv
<1>3. Spec => [](/\ PublishedIsSubmitted /\ UnknownAtVenueIsUnfinished /\ NeverAheadOfVenue
                 /\ FailedHasCause /\ FullyTradedIsFilled)
  BY PublishedIsSubmittedHolds, UnknownAtVenueIsUnfinishedHolds, NeverAheadOfVenueHolds,
     FailedHasCauseHolds, FullyTradedIsFilledHolds, PTL
<1>4. ChainSpec => [](/\ QP!OneSendPerClaim /\ QP!OverlapNeedsLapse
                      /\ QP!LockIsLatestClaim /\ QP!DispatchedWasAcknowledged)
  BY <1>2, ChainSpecInv, PTL
<1> QED
  BY <1>1, <1>3, <1>4, MessagesEndOnceHolds, OrdersKeepPromise, PTL

-----------------------------------------------------------------------------
(* The chain implements SaleToDelivery.                                    *)

Held == {o \in Orders : venue[o] # "none"}
Owed == {c \in Commands : taskStatus[c] # "absent"}
Commanded == {c \in Commands : sent[c] # {}}
Confirmed == {c \in Commands : Acknowledging(c)}

LEMMA SameSaleVars == SD!saleVars = <<Held, Owed, Commanded, Confirmed>>
  BY DEF SD!saleVars, Held, Owed, Commanded, Confirmed

LEMMA CaptureSells ==
  ASSUME ChainInv, NEW o \in Orders, NEW x \in TradeIds, NEW q \in 1..Quantity, CaptureTrade(o, x, q)
  PROVE  SD!Sell(o, x)
<1>1. venue[o] # "none"
  <2>1. status[o] \in {"submitted", "partially_filled"}
    BY DEF CaptureTrade, RecordTradeFill, Fill
  <2> QED
    BY <2>1 DEF ChainInv, OutboxInv, OrderInv, Acknowledged
<1>2. UNCHANGED <<venue, sent, receipts>>
  BY DEF CaptureTrade, RecordTradeFill, Fill, Queue!EnqueueTasks, Queue!edgeVars
<1>3. UNCHANGED <<Held, Commanded, Confirmed>>
  BY <1>2 DEF Held, Commanded, Confirmed, Acknowledging
<1>4. CommandsOf(o, x) \subseteq Commands
  BY DispatchChainAssumption DEF CommandsOf, Commands
<1>5. /\ \A c \in CommandsOf(o, x) : taskStatus[c] = "absent"
      /\ taskStatus' = [c \in Commands |-> IF c \in CommandsOf(o, x) THEN "queued" ELSE taskStatus[c]]
  BY DEF CaptureTrade, Queue!EnqueueTasks
<1>6. Owed' = Owed \cup CommandsOf(o, x)
  BY <1>4, <1>5 DEF Owed
<1>7. \A s \in AllocatedTo[o] : <<o, x, s>> \notin Owed
  BY <1>5 DEF CommandsOf, Owed
<1> QED
  BY <1>1, <1>3, <1>6, <1>7 DEF SD!Sell, Held, Owed, Commanded, Confirmed, CommandsOf

\* The venue takes one order at a time, and never gives one back.
LEMMA DeskPlaces ==
  ASSUME OutboxInv, DeskStep
  PROVE  Held' = Held \/ \E o \in Orders : Held' = Held \cup {o}
<1> USE DEF OutboxInv, TypeOK
<1>1. ASSUME NEW w \in Workers, SubmitAccepted(w) \/ SubmitRaises(w)
      PROVE  Held' = Held \/ \E o \in Orders : Held' = Held \cup {o}
  <2>1. CASE UNCHANGED venue
    BY <2>1 DEF Held
  <2>2. CASE Placed(job[w])
    <3>1. job[w] \in Orders
      BY <1>1 DEF SubmitAccepted, SubmitRaises, WorkerInv
    <3>2. PICK t \in VenueStatuses : \A p \in Orders :
            venue'[p] = IF p = job[w] /\ venue[p] = "none" THEN t ELSE venue[p]
      BY <2>2, <3>1 DEF Placed
    <3>3. Held' = Held \cup {job[w]}
      BY <3>1, <3>2, OrderOutboxAssumption DEF Held, VenueLive, VenueEnds
    <3> QED
      BY <3>1, <3>3
  <2> QED
    BY <1>1, <2>1, <2>2 DEF SubmitAccepted, SubmitRaises
<1>2. ASSUME NEW o \in Orders, NEW s \in VenueStatuses, VenueMoves(o, s)
      PROVE  Held' = Held
  <2>1. s # "none" /\ venue[o] # "none" /\ venue' = [venue EXCEPT ![o] = s]
    BY <1>2, OrderOutboxAssumption DEF VenueMoves, VenueLive, VenueEnds
  <2>2. \A p \in Orders : venue'[p] # "none" <=> venue[p] # "none"
    BY <2>1
  <2> QED
    BY <2>2 DEF Held
<1>3. ASSUME ~(\E w \in Workers : SubmitAccepted(w) \/ SubmitRaises(w)),
             ~(\E o \in Orders, s \in VenueStatuses : VenueMoves(o, s))
      PROVE  venue' = venue
  BY <1>3 DEF DeskStep, WorkerStep, CreateMarketOrder, LeaseLapses, SetCircuitBreaker,
     ClaimOutboxMessage, ListForReconciliation, ReadOrder, BeginSubmission, SubmitRefused,
     RecordAnswer, FinishPublished, FinishFailed, FailOrder, OpenBreaker, LookAtOrder,
     QueryVenue, Compare, MarkOrderReconciled, WorkerCrash
<1> QED
  BY <1>1, <1>2, <1>3 DEF Held

\* The queue commands what is owed and confirms what was commanded.
LEMMA QueueDelivers ==
  ASSUME ChainInv, ChainInv', Queue!QueueStep,
         UNCHANGED <<orderVars, outboxVars, workerVars, venue>>
  PROVE  [SD!SaleNext]_(SD!saleVars)
<1>1. Held' = Held
  BY DEF Held
<1>2. Owed' = Owed
  <2>1. \A c \in Commands : taskStatus'[c] = "absent" <=> taskStatus[c] = "absent"
    BY SameQueue, QueueAssumed, QP!RowsStay DEF ChainInv, QP!RowsInv
  <2> QED
    BY <2>1 DEF Owed
<1>3. /\ sent \in [Commands -> SUBSET QP!Claims] /\ receipts \in [Commands -> SUBSET QP!Receipt]
      /\ \A c \in Commands : sent'[c] # {} => taskStatus'[c] # "absent"
  <2>1. \A c \in Commands : sent'[c] # {} => taskStatus'[c] # "absent"
    BY DEF ChainInv, QP!RowsInv, QP!Unclaimed, QP!QueueInv, QP!SentInv, QP!TypeOK
  <2> QED
    BY <2>1 DEF ChainInv, QP!RowsInv, QP!QueueInv, QP!TypeOK
<1>4. CASE UNCHANGED <<sent, receipts>>
  <2>1. Commanded' = Commanded /\ Confirmed' = Confirmed
    BY <1>4 DEF Commanded, Confirmed, Acknowledging
  <2> QED
    BY <1>1, <1>2, <2>1 DEF SD!saleVars, Held, Owed, Commanded, Confirmed
<1>5. ASSUME UNCHANGED receipts, NEW c \in Commands, NEW n \in QP!Claims,
             sent' = [sent EXCEPT ![c] = @ \cup {n}]
      PROVE  SD!SaleNext
  <2>1. Confirmed' = Confirmed
    BY <1>5 DEF Confirmed, Acknowledging
  <2>2. sent'[c] # {} /\ c \in Owed
    BY <1>2, <1>3, <1>5 DEF Owed
  <2>3. Commanded' = Commanded \cup {c}
    BY <1>3, <1>5, <2>2 DEF Commanded
  <2>4. SD!Command(c)
    BY <1>1, <1>2, <2>1, <2>3 DEF SD!Command, Held, Owed, Commanded, Confirmed
  <2> QED
    BY <2>2, <2>4 DEF SD!SaleNext, Owed
<1>6. ASSUME UNCHANGED sent, NEW c \in Commands, NEW r \in QP!Receipt, r.claim \in sent[c],
             receipts' = [receipts EXCEPT ![c] = @ \cup {r}]
      PROVE  [SD!SaleNext]_(SD!saleVars)
  <2>1. Commanded' = Commanded /\ c \in Commanded
    BY <1>6 DEF Commanded
  <2>2. \A d \in Commands : receipts'[d] = IF d = c THEN receipts[d] \cup {r} ELSE receipts[d]
    BY <1>3, <1>6
  <2>3. CASE r.status = "succeeded"
    <3>1. Confirmed' = Confirmed \cup {c}
      BY <2>2, <2>3 DEF Confirmed, Acknowledging
    <3>2. SD!Acknowledge(c)
      BY <1>1, <1>2, <2>1, <3>1 DEF SD!Acknowledge, Held, Owed, Commanded, Confirmed
    <3> QED
      BY <2>1, <3>2 DEF SD!SaleNext, Commanded
  <2>4. CASE r.status # "succeeded"
    <3>1. Confirmed' = Confirmed
      BY <2>2, <2>4 DEF Confirmed, Acknowledging
    <3> QED
      BY <1>1, <1>2, <2>1, <3>1 DEF SD!saleVars, Held, Owed, Commanded, Confirmed
  <2> QED
    BY <2>3, <2>4
<1>7. QP!Next
  BY SameQueue DEF QP!Next
<1> QED
  BY <1>4, <1>5, <1>6, <1>7, QP!EdgeStep, QueueAssumed DEF ChainInv

LEMMA ChainRefines ==
  ASSUME ChainInv, ChainInv', [ChainNext]_chainVars
  PROVE  [SD!SaleNext]_(SD!saleVars)
<1>1. ASSUME NEW o \in Orders, NEW x \in TradeIds, NEW q \in 1..Quantity, CaptureTrade(o, x, q)
      PROVE  SD!SaleNext
  BY <1>1, CaptureSells DEF SD!SaleNext
<1>2. ASSUME DeskStep, UNCHANGED taskVars
      PROVE  [SD!SaleNext]_(SD!saleVars)
  <2>1. UNCHANGED <<Owed, Commanded, Confirmed>>
    BY <1>2 DEF taskVars, Owed, Commanded, Confirmed, Acknowledging
  <2>2. Held' = Held \/ \E o \in Orders : Held' = Held \cup {o}
    BY <1>2, DeskPlaces DEF ChainInv
  <2>3. CASE Held' = Held
    BY <2>1, <2>3 DEF SD!saleVars, Held, Owed, Commanded, Confirmed
  <2>4. ASSUME NEW o \in Orders, Held' = Held \cup {o} PROVE SD!SaleNext
    <3>1. SD!Place(o)
      BY <2>1, <2>4 DEF SD!Place, Held, Owed, Commanded, Confirmed
    <3> QED
      BY <3>1 DEF SD!SaleNext
  <2> QED
    BY <2>2, <2>3, <2>4
<1>3. ASSUME Queue!QueueStep, UNCHANGED <<orderVars, outboxVars, workerVars, venue>>
      PROVE  [SD!SaleNext]_(SD!saleVars)
  BY <1>3, QueueDelivers
<1>4. CASE UNCHANGED chainVars
  BY <1>4 DEF chainVars, vars, taskVars, SD!saleVars, Acknowledging
<1> QED
  BY <1>1, <1>2, <1>3, <1>4 DEF ChainNext

\* From the venue to the station each stage follows from the one before it and
\* none is taken back: DispatchChain implements SaleToDelivery.
THEOREM ChainKeepsSalePromise == ChainSpec => KeepsSalePromise
<1>1. ChainInit => SD!SaleInit
  BY DEF ChainInit, Init, Queue!Init, SD!SaleInit, Acknowledging, Commands
<1>2. ChainInv /\ ChainInv' /\ [ChainNext]_chainVars => [SD!SaleNext]_(SD!saleVars)
  BY ChainRefines
<1> QED
  BY <1>1, <1>2, ChainSpecInv, PTL DEF ChainSpec, KeepsSalePromise, SD!SaleSpec
=============================================================================
