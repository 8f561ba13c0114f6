---------------------------- MODULE DispatchChain ----------------------------
(***************************************************************************)
(* From the market to the stations: OrderOutbox and TaskQueue put together *)
(* as the program puts them together. record_trade_fill                    *)
(* (chargeopt/vpp_repository.py) is the joint: in the transaction that     *)
(* captures a trade it inserts a dispatch task and a delivery schedule for *)
(* every station of the order's allocation. The tenant's circuit breaker   *)
(* is one row that both sides write: for either of them the other one is   *)
(* somebody who sets it at will.                                           *)
(*                                                                         *)
(* A command is named by its order, its trade and its station, which is    *)
(* the idempotency key of its task (the delivery start is the order's).    *)
(***************************************************************************)
EXTENDS OrderOutbox

CONSTANTS
    Stations,       \* stations.id
    AllocatedTo,    \* the stations in market_orders.allocation, per order
    Dispatchers,    \* task workers
    NoDispatcher,   \* task_queue.locked_by IS NULL
    NoTask,         \* a dispatcher that holds no task
    MaxDispatches,  \* task_queue.max_attempts
    GatewayAnswers,
    DeviceStatuses

Commands == Orders \X TradeIds \X Stations

VARIABLES
    taskStatus, dispatches, taskOwner, taskLease,  \* the rows of task_queue
    receipts, schedule,                            \* what record_edge_receipt writes
    place, task, claimNo, outcome,                 \* the dispatchers
    sent, hasLapsed

taskVars == <<taskStatus, dispatches, taskOwner, taskLease, receipts, schedule,
              place, task, claimNo, outcome, sent, hasLapsed>>
chainVars == <<vars, taskVars>>

Queue == INSTANCE TaskQueue WITH
            Tasks <- Commands, VppTasks <- Commands, Workers <- Dispatchers,
            NoWorker <- NoDispatcher, MaxAttempts <- MaxDispatches,
            status <- taskStatus, attempts <- dispatches, lockedBy <- taskOwner,
            lease <- taskLease, pc <- place, job <- task

ASSUME DispatchChainAssumption ==
    /\ AllocatedTo \in [Orders -> SUBSET Stations]
    /\ Queue!TaskQueueAssumption
    /\ OperatorSets = BreakerStates

ChainInit == Init /\ Queue!Init

CommandsOf(o, x) == {<<o, x, s>> : s \in AllocatedTo[o]}

\* record_trade_fill, whole: a trade and its commands are there together.
CaptureTrade(o, x, q) ==
    /\ RecordTradeFill(o, x, q)
    /\ Queue!EnqueueTasks(CommandsOf(o, x))

ChainNext ==
    \/ \E o \in Orders, x \in TradeIds, q \in 1..Quantity : CaptureTrade(o, x, q)
    \/ DeskStep /\ UNCHANGED taskVars
    \/ Queue!QueueStep /\ UNCHANGED <<orderVars, outboxVars, workerVars, venue>>

ChainSpec == ChainInit /\ [][ChainNext]_chainVars

-----------------------------------------------------------------------------
(* Properties.                                                             *)

\* Where an order with trades can be: it never goes back to the desk and is
\* never shown as rejected.
SoldStatuses ==
    {"partially_filled", "filled", "cancel_pending", "cancelled", "expired", "failed"}

\* No station is commanded what was not sold, and nothing sold is forgotten:
\* a command that reached an edge is one of a recorded trade, on an order that
\* the venue took and that counts what was traded, whose market order id is
\* known unless the answer that accepted it named none, and every recorded
\* trade has a task at every allocated station (record_trade_fill against late
\* transitions, reconciliation and retries).
CommandsAreSold ==
    \A o \in Orders, x \in TradeIds, s \in Stations :
        /\ taskStatus[<<o, x, s>>] # "absent" <=> x \in trades[o] /\ s \in AllocatedTo[o]
        /\ sent[<<o, x, s>>] # {} =>
             /\ x \in trades[o] /\ s \in AllocatedTo[o]
             /\ status[o] \in SoldStatuses /\ filled[o] > 0
             /\ venue[o] # "none" /\ (marketId[o] \/ unnamed[o])

\* Put together, the desk and the queue still behave as each does by itself,
\* the shared breaker included: what is shown of either of them holds here.
KeepsItsParts == Spec /\ Queue!Spec

Acknowledging(c) == \E r \in receipts[c] : r.status = "succeeded"

SD == INSTANCE SaleToDelivery WITH
        held <- {o \in Orders : venue[o] # "none"},
        owed <- {c \in Commands : taskStatus[c] # "absent"},
        commanded <- {c \in Commands : sent[c] # {}},
        acknowledged <- {c \in Commands : Acknowledging(c)}

\* From the venue to the station, each stage follows from the one before it
\* and none is taken back: the chain implements SaleToDelivery.
KeepsSalePromise == SD!SaleSpec
=============================================================================
