----------------------------- MODULE OrderOutbox -----------------------------
(***************************************************************************)
(* The life of a market order after the automation cycle decided on it:    *)
(* the order and its outbox message (chargeopt/vpp_repository.py), the     *)
(* workers that publish the message to the venue and reconcile the order   *)
(* with it (chargeopt/vpp_operations.py), the venue behind the signed REST *)
(* adapter (chargeopt/vpp_trading.py), the trade reports that arrive       *)
(* through the webhook or from a trader, and the tenant's circuit breaker. *)
(*                                                                         *)
(* One action is one database transaction or one call to the venue. An     *)
(* order has one message, so both go by the order's id. A worker holds one *)
(* order at a time: the other messages of its batch are rows whose lease   *)
(* runs, which is what several workers of one instance id are. The hash    *)
(* chain of order events is left out: each is appended under the row lock. *)
(***************************************************************************)
EXTENDS Naturals

CONSTANTS
    Orders,        \* market_orders.id
    TradeIds,      \* market_trade_id, per order
    Quantity,      \* quantity_kw of every order, in lots
    Workers,       \* a message in the hands of an operations process
    Instances,     \* the instance ids those processes go by
    InstanceOf,    \* which id a worker writes into locked_by
    NoInstance,    \* locked_by IS NULL
    NoOrder,       \* a worker that holds no order
    MaxAttempts,   \* vpp_outbox.max_attempts
    OperatorSets,  \* the states operators may set the breaker to
    VenueStatuses  \* the statuses an order may have at the venue

Ended == {"risk_rejected", "filled", "cancelled", "rejected", "expired", "failed"}
OrderStatuses ==
    Ended \cup {"absent", "ready", "submitting", "submitted", "partially_filled", "cancel_pending"}

\* ORDER_TRANSITIONS. No row is ever written with the status draft: an order
\* is inserted as ready or risk_rejected, straight from absence.
OrderTransitions == [s \in OrderStatuses |->
    CASE s = "absent" -> {"risk_rejected", "ready"}
      [] s = "ready" -> {"submitting", "cancelled", "expired"}
      [] s = "submitting" -> {"submitted", "rejected", "failed"}
      [] s = "submitted" -> {"partially_filled", "filled", "cancel_pending",
                             "cancelled", "rejected", "expired", "failed"}
      [] s = "partially_filled" -> {"partially_filled", "filled", "cancel_pending",
                                    "cancelled", "expired", "failed"}
      [] s = "cancel_pending" -> {"cancelled", "partially_filled", "filled", "failed"}
      [] OTHER -> {}]

BreakerStates == {"closed", "half_open", "open"}
VenueLive == {"submitted", "partially_filled", "cancel_pending"}
VenueEnds == {"filled", "cancelled", "expired", "rejected", "failed"}

ASSUME OrderOutboxAssumption ==
    /\ Quantity \in Nat \ {0}
    /\ MaxAttempts \in Nat \ {0}
    /\ InstanceOf \in [Workers -> Instances]
    /\ NoInstance \notin Instances
    /\ NoOrder \notin Orders
    /\ OperatorSets \subseteq BreakerStates
    /\ "submitted" \in VenueStatuses
    /\ VenueStatuses \subseteq VenueLive \cup VenueEnds

VARIABLES
    status,      \* market_orders.status
    marketId,    \* market_order_id IS NOT NULL
    filled,      \* filled_quantity_kw, in lots
    trades,      \* market_trades of the order
    schedules,   \* the trades that have delivery schedules and tasks
    recon,       \* reconciliation_status
    outbox,      \* vpp_outbox.status, "absent" without a message
    attempts,    \* vpp_outbox.attempts
    lockedBy,    \* vpp_outbox.locked_by
    lease,       \* lease_expires_at: "none" is NULL, "held" the future, "lapsed" the past
    breaker,     \* vpp_circuit_breakers.state
    pc,          \* where a worker is between two transactions
    job,         \* the order a worker works on
    seen,        \* the order's status in the worker's memory
    answer,      \* the status the venue answered, then the verdict to record
    venue        \* the order at the venue, "none" before it got there

\* History, read by properties only.
VARIABLE unnamed \* an accepted answer was recorded that named no market order id

orderVars == <<status, marketId, unnamed, filled, trades, schedules, recon>>
outboxVars == <<outbox, attempts, lockedBy, lease>>
workerVars == <<pc, job, seen, answer>>
vars == <<orderVars, outboxVars, breaker, workerVars, venue>>

Publishing == {"begin", "submit", "record", "publish", "retry", "fail", "alarm"}
Reconciling == {"look", "query", "compare", "mark", "flag"}

TypeOK ==
    /\ status \in [Orders -> OrderStatuses]
    /\ marketId \in [Orders -> BOOLEAN]
    /\ unnamed \in [Orders -> BOOLEAN]
    /\ filled \in [Orders -> 0..Quantity]
    /\ trades \in [Orders -> SUBSET TradeIds]
    /\ schedules \in [Orders -> SUBSET TradeIds]
    /\ recon \in [Orders -> {"pending", "matched", "mismatch", "unknown"}]
    /\ outbox \in [Orders -> {"absent", "pending", "publishing", "failed", "published", "dead_letter"}]
    /\ attempts \in [Orders -> 0..MaxAttempts]
    /\ lockedBy \in [Orders -> Instances \cup {NoInstance}]
    /\ lease \in [Orders -> {"none", "held", "lapsed"}]
    /\ breaker \in BreakerStates
    /\ pc \in [Workers -> Publishing \cup Reconciling \cup {"idle"}]
    /\ job \in [Workers -> Orders \cup {NoOrder}]
    /\ seen \in [Workers -> OrderStatuses]
    /\ answer \in [Workers -> OrderStatuses \cup {"none", "accepted", "matched", "mismatch", "unknown"}]
    /\ venue \in [Orders -> VenueStatuses \cup {"none"}]

Init ==
    /\ status = [o \in Orders |-> "absent"]
    /\ marketId = [o \in Orders |-> FALSE]
    /\ unnamed = [o \in Orders |-> FALSE]
    /\ filled = [o \in Orders |-> 0]
    /\ trades = [o \in Orders |-> {}]
    /\ schedules = [o \in Orders |-> {}]
    /\ recon = [o \in Orders |-> "pending"]
    /\ outbox = [o \in Orders |-> "absent"]
    /\ attempts = [o \in Orders |-> 0]
    /\ lockedBy = [o \in Orders |-> NoInstance]
    /\ lease = [o \in Orders |-> "none"]
    /\ breaker = "closed"
    /\ pc = [w \in Workers |-> "idle"]
    /\ job = [w \in Workers |-> NoOrder]
    /\ seen = [w \in Workers |-> "absent"]
    /\ answer = [w \in Workers |-> "none"]
    /\ venue = [o \in Orders |-> "none"]

-----------------------------------------------------------------------------
(* The order row and its message.                                          *)

\* create_market_order: the order, and its message if the risk evaluation let
\* it through, in one transaction. The same idempotency key again is no step.
CreateMarketOrder(o, s) ==
    /\ status[o] = "absent"
    /\ s \in OrderTransitions["absent"]
    /\ status' = [status EXCEPT ![o] = s]
    /\ outbox' = [outbox EXCEPT ![o] = IF s = "ready" THEN "pending" ELSE @]
    /\ UNCHANGED <<marketId, unnamed, filled, trades, schedules, recon,
                   attempts, lockedBy, lease, breaker, workerVars, venue>>

LeaseLapses(o) ==
    /\ lease[o] = "held"
    /\ lease' = [lease EXCEPT ![o] = "lapsed"]
    /\ UNCHANGED <<orderVars, outbox, attempts, lockedBy, breaker, workerVars, venue>>

\* Faulty variants of an operation, named after it with the fault, stand
\* before it: each breaks a property of this module or of one that extends it,
\* which shows that the property guards against that fault.
MayMoveUnlessEnded(o, s) == status[o] \notin Ended \cup {"absent"} /\ s \notin {"absent", status[o]}

\* transition_market_order checks the target against the locked row, never
\* against what the caller remembers.
MayMove(o, s) == s \in OrderTransitions[status[o]]

Moved(o, s) == status' = [status EXCEPT ![o] = s]

-----------------------------------------------------------------------------
(* Trades and the breaker.                                                 *)

FillFromAnyStatus(o, x, q, s) ==
    /\ q > 0
    /\ trades' = [trades EXCEPT ![o] = @ \cup {x}]
    /\ filled' = [filled EXCEPT ![o] = @ + q]
    /\ Moved(o, s)
    /\ schedules' = [schedules EXCEPT ![o] = @ \cup {x}]
    /\ UNCHANGED <<marketId, unnamed, recon, outboxVars, breaker, workerVars, venue>>

\* The trade, the order's totals, the schedules and the tasks, in one
\* transaction.
Fill(o, x, q, s) ==
    /\ status[o] \in {"submitted", "partially_filled"}
    /\ q > 0
    /\ trades' = [trades EXCEPT ![o] = @ \cup {x}]
    /\ filled' = [filled EXCEPT ![o] = @ + q]
    /\ Moved(o, s)
    /\ schedules' = [schedules EXCEPT ![o] = @ \cup {x}]
    /\ UNCHANGED <<marketId, unnamed, recon, outboxVars, breaker, workerVars, venue>>

\* What of a report still fits into the order.
Fitting(o, q) == IF q < Quantity - filled[o] THEN q ELSE Quantity - filled[o]

FillStatus(q) == IF q >= Quantity THEN "filled" ELSE "partially_filled"

RecordTradeFillOffByOne(o, x, q) ==
    /\ \A p \in Orders : x \notin trades[p]
    /\ Fill(o, x, Fitting(o, q),
            IF filled[o] + Fitting(o, q) > Quantity THEN "filled" ELSE "partially_filled")

RecordTradeFillTwice(o, x, q) ==
    Fill(o, x, Fitting(o, q), FillStatus(filled[o] + Fitting(o, q)))

\* record_trade_fill. Anything else is answered 409 (or, for a trade already
\* recorded on whatever order, with the old id) and changes nothing.
RecordTradeFill(o, x, q) ==
    /\ \A p \in Orders : x \notin trades[p]
    /\ Fill(o, x, Fitting(o, q), FillStatus(filled[o] + Fitting(o, q)))

\* set_circuit_breaker, called by an operator.
SetCircuitBreaker(s) ==
    /\ breaker' = s
    /\ UNCHANGED <<orderVars, outboxVars, workerVars, venue>>

-----------------------------------------------------------------------------
(* The venue. What it does with an order it accepted is its own business;  *)
(* an idempotency key makes it accept an order once.                       *)

VenueMoves(o, s) ==
    /\ venue[o] \in VenueLive
    /\ s # "submitted"
    /\ s # venue[o]
    /\ venue' = [venue EXCEPT ![o] = s]
    /\ UNCHANGED <<orderVars, outboxVars, breaker, workerVars>>

\* By the time it answers, the venue may have matched, ended or failed an
\* order it has just taken.
Placed(o) ==
    \E s \in VenueStatuses : venue' = [venue EXCEPT ![o] = IF @ = "none" THEN s ELSE @]

\* Of an order that rests a venue may also say "accepted", and an answer
\* without a status counts as submitted, whatever became of the order.
VenueSays(o) ==
    {venue'[o], "submitted"} \cup (IF venue'[o] = "submitted" THEN {"accepted"} ELSE {})

-----------------------------------------------------------------------------
(* process_outbox_batch, message by message.                               *)

GoIdle(w) ==
    /\ pc' = [pc EXCEPT ![w] = "idle"]
    /\ job' = [job EXCEPT ![w] = NoOrder]
    /\ seen' = [seen EXCEPT ![w] = "absent"]
    /\ answer' = [answer EXCEPT ![w] = "none"]

CarryOn(w, place, saw, what) ==
    /\ pc' = [pc EXCEPT ![w] = place]
    /\ seen' = [seen EXCEPT ![w] = saw]
    /\ answer' = [answer EXCEPT ![w] = what]
    /\ UNCHANGED job

DueWithoutLimit(o) ==
    \/ outbox[o] \in {"pending", "failed"}
    \/ outbox[o] = "publishing" /\ lease[o] = "lapsed"

DueWithoutRecovery(o) ==
    outbox[o] \in {"pending", "failed"} /\ attempts[o] < MaxAttempts

Due(o) ==
    /\ \/ outbox[o] \in {"pending", "failed"}
       \/ outbox[o] = "publishing" /\ lease[o] = "lapsed"
    /\ attempts[o] < MaxAttempts

\* claim_outbox_messages
ClaimOutboxMessage(w, o) ==
    /\ pc[w] = "idle"
    /\ Due(o)
    /\ outbox' = [outbox EXCEPT ![o] = "publishing"]
    /\ attempts' = [attempts EXCEPT ![o] = @ + 1]
    /\ lockedBy' = [lockedBy EXCEPT ![o] = InstanceOf[w]]
    /\ lease' = [lease EXCEPT ![o] = "held"]
    /\ pc' = [pc EXCEPT ![w] = "begin"]
    /\ job' = [job EXCEPT ![w] = o]
    /\ UNCHANGED <<orderVars, breaker, seen, answer, venue>>

\* get_order_for_operation and the decisions made on what it returned. Only
\* here does the worker learn the order's status; "failed" and
\* "cancel_pending" are errors, and so is an adapter that cannot be built
\* (live readiness lapsed, credentials missing).
ReadOrder(w) ==
    LET s == status[job[w]] IN
    /\ pc[w] = "begin" /\ seen[w] = "absent"
    /\ \/ s \in {"submitted", "partially_filled", "filled", "cancelled", "rejected", "expired"}
          /\ CarryOn(w, "publish", "absent", "none")
       \/ s = "ready" /\ CarryOn(w, "begin", s, "none")
       \/ s = "submitting" /\ CarryOn(w, "submit", s, "none")
       \/ s \in {"ready", "submitting", "failed", "cancel_pending"} /\ CarryOn(w, "retry", s, "none")
    /\ UNCHANGED <<orderVars, outboxVars, breaker, venue>>

\* The transition from ready to submitting, refused if another worker made it.
BeginSubmission(w) ==
    /\ pc[w] = "begin" /\ seen[w] = "ready"
    /\ IF MayMove(job[w], "submitting")
       THEN Moved(job[w], "submitting") /\ CarryOn(w, "submit", "submitting", "none")
       ELSE CarryOn(w, "retry", "ready", "none") /\ UNCHANGED status
    /\ UNCHANGED <<marketId, unnamed, filled, trades, schedules, recon, outboxVars, breaker, venue>>

\* _submission_target_status: what submitting may become is kept, all else
\* (accepted, partially_filled, filled, cancelled) becomes submitted.
SubmissionTarget(s) == IF s \in OrderTransitions["submitting"] THEN s ELSE "submitted"

SubmitAccepted(w) ==
    /\ pc[w] = "submit"
    /\ Placed(job[w])
    /\ \E s \in VenueSays(job[w]) : CarryOn(w, "record", "submitting", SubmissionTarget(s))
    /\ UNCHANGED <<orderVars, outboxVars, breaker>>

\* accepted=false, or any HTTP 4xx: a refused order, but also an expired token
\* or a rate limit met by a retry.
SubmitRefused(w) ==
    /\ pc[w] = "submit"
    /\ CarryOn(w, "record", "submitting", "rejected")
    /\ UNCHANGED <<orderVars, outboxVars, breaker, venue>>

SubmitRaisesUnnoticed(w) ==
    /\ pc[w] = "submit"
    /\ Placed(job[w]) \/ UNCHANGED venue
    /\ CarryOn(w, "publish", "submitting", "none")
    /\ UNCHANGED <<orderVars, outboxVars, breaker>>

\* HTTP 5xx, a timeout, an answer lost on the way: the order may be placed.
SubmitRaises(w) ==
    /\ pc[w] = "submit"
    /\ Placed(job[w]) \/ UNCHANGED venue
    /\ CarryOn(w, "retry", "submitting", "none")
    /\ UNCHANGED <<orderVars, outboxVars, breaker>>

RecordAnswerDropsId(w) ==
    LET o == job[w] IN
    /\ pc[w] = "record"
    /\ IF MayMove(o, answer[w])
       THEN \E named \in BOOLEAN :
               /\ Moved(o, answer[w])
               /\ unnamed' = [unnamed EXCEPT ![o] = @ \/ (answer[w] # "rejected" /\ ~named)]
               /\ CarryOn(w, "publish", "submitting", "none")
       ELSE CarryOn(w, "retry", "submitting", "none") /\ UNCHANGED <<status, unnamed>>
    /\ UNCHANGED <<marketId, filled, trades, schedules, recon, outboxVars, breaker, venue>>

\* The transition to what the venue answered. An answer that names no market
\* order id leaves the column as it is (COALESCE), NULL for a first answer.
RecordAnswer(w) ==
    LET o == job[w] IN
    /\ pc[w] = "record"
    /\ IF MayMove(o, answer[w])
       THEN \E named \in BOOLEAN :
               /\ Moved(o, answer[w])
               /\ marketId' = [marketId EXCEPT ![o] = @ \/ named]
               /\ unnamed' = [unnamed EXCEPT ![o] = @ \/ (answer[w] # "rejected" /\ ~named)]
               /\ CarryOn(w, "publish", "submitting", "none")
       ELSE CarryOn(w, "retry", "submitting", "none") /\ UNCHANGED <<status, marketId, unnamed>>
    /\ UNCHANGED <<filled, trades, schedules, recon, outboxVars, breaker, venue>>

Finish(o, s) ==
    /\ outbox' = [outbox EXCEPT ![o] = s]
    /\ lockedBy' = [lockedBy EXCEPT ![o] = NoInstance]
    /\ lease' = [lease EXCEPT ![o] = "none"]
    /\ UNCHANGED attempts

OwnsMessage(w) == lockedBy[job[w]] = InstanceOf[w]

\* finish_outbox_message(published=True); its PermissionError is caught by
\* the except branch, which tries to finish the message as failed. Of the
\* order's status only "submitting" matters from here on.
FinishPublished(w) ==
    /\ pc[w] = "publish"
    /\ IF OwnsMessage(w)
       THEN Finish(job[w], "published") /\ GoIdle(w)
       ELSE CarryOn(w, "retry", seen[w], "none") /\ UNCHANGED outboxVars
    /\ UNCHANGED <<orderVars, breaker, venue>>

\* finish_outbox_message(published=False). Its PermissionError ends the batch
\* and the process, which is started again.
FinishFailed(w) ==
    LET o == job[w]
        dead == attempts[o] >= MaxAttempts
    IN
    /\ pc[w] = "retry"
    /\ IF ~OwnsMessage(w)
       THEN GoIdle(w) /\ UNCHANGED outboxVars
       ELSE /\ Finish(o, IF dead THEN "dead_letter" ELSE "failed")
            /\ IF ~dead THEN GoIdle(w)
               ELSE CarryOn(w, IF seen[w] = "submitting" THEN "fail" ELSE "alarm", seen[w], "none")
    /\ UNCHANGED <<orderVars, breaker, venue>>

\* The order of a dead letter fails, if its row allows it; if not, the
\* ValueError ends the process before it opened the breaker.
FailOrder(w) ==
    /\ pc[w] = "fail"
    /\ IF MayMove(job[w], "failed")
       THEN Moved(job[w], "failed") /\ CarryOn(w, "alarm", seen[w], "none")
       ELSE GoIdle(w) /\ UNCHANGED status
    /\ UNCHANGED <<marketId, unnamed, filled, trades, schedules, recon, outboxVars, breaker, venue>>

OpenBreaker(w) ==
    /\ pc[w] \in {"alarm", "flag"}
    /\ breaker' = "open"
    /\ GoIdle(w)
    /\ UNCHANGED <<orderVars, outboxVars, venue>>

-----------------------------------------------------------------------------
(* reconcile_market_orders, order by order.                                *)

\* list_orders_for_reconciliation selects by the status first, then reads each
\* order (get_order_for_operation), whatever it has become in between.
ListForReconciliation(w, o) ==
    /\ pc[w] = "idle"
    /\ marketId[o]
    /\ status[o] \in {"submitting", "submitted", "partially_filled", "cancel_pending"}
    /\ pc' = [pc EXCEPT ![w] = "look"]
    /\ job' = [job EXCEPT ![w] = o]
    /\ UNCHANGED <<orderVars, outboxVars, breaker, seen, answer, venue>>

LookAtOrder(w) ==
    /\ pc[w] = "look"
    /\ CarryOn(w, "query", status[job[w]], "none")
    /\ UNCHANGED <<orderVars, outboxVars, breaker, venue>>

QueryVenueNotFoundIsExpired(w) ==
    /\ pc[w] = "query"
    /\ UNCHANGED venue
    /\ \E s \in VenueSays(job[w]) \cup {"expired"} : CarryOn(w, "compare", seen[w], s)
    /\ UNCHANGED <<orderVars, outboxVars, breaker>>

\* The query returns the venue's status, or fails, or is refused with a 4xx,
\* which the adapter returns as the status rejected.
QueryVenue(w) ==
    /\ pc[w] = "query"
    /\ UNCHANGED venue
    /\ \/ \E s \in VenueSays(job[w]) \cup {"rejected"} : CarryOn(w, "compare", seen[w], s)
       \/ CarryOn(w, "mark", "absent", "unknown")
    /\ UNCHANGED <<orderVars, outboxVars, breaker>>

\* The comparison is made with the status read before the query.
Compare(w) ==
    LET o == job[w]
        remote == answer[w]
        allowed == remote \in OrderTransitions[seen[w]]
    IN
    /\ pc[w] = "compare"
    /\ IF remote # seen[w] /\ allowed /\ MayMove(o, remote)
       THEN Moved(o, remote) ELSE UNCHANGED status
    /\ CarryOn(w, "mark", "absent",
               IF remote = seen[w] THEN "matched"
               ELSE IF ~allowed THEN "mismatch"
               ELSE IF MayMove(o, remote) THEN "matched" ELSE "unknown")
    /\ UNCHANGED <<marketId, unnamed, filled, trades, schedules, recon, outboxVars, breaker, venue>>

\* mark_order_reconciled asks nothing of the row.
MarkOrderReconciled(w) ==
    /\ pc[w] = "mark"
    /\ recon' = [recon EXCEPT ![job[w]] = answer[w]]
    /\ IF answer[w] = "mismatch" THEN CarryOn(w, "flag", seen[w], "none") ELSE GoIdle(w)
    /\ UNCHANGED <<status, marketId, unnamed, filled, trades, schedules, outboxVars, breaker, venue>>

-----------------------------------------------------------------------------

\* The process dies between two steps and is started again.
WorkerCrash(w) ==
    /\ pc[w] # "idle"
    /\ GoIdle(w)
    /\ UNCHANGED <<orderVars, outboxVars, breaker, venue>>

WorkerStep(w) ==
    \/ ReadOrder(w)
    \/ BeginSubmission(w)
    \/ SubmitAccepted(w)
    \/ SubmitRefused(w)
    \/ SubmitRaises(w)
    \/ RecordAnswer(w)
    \/ FinishPublished(w)
    \/ FinishFailed(w)
    \/ FailOrder(w)
    \/ OpenBreaker(w)
    \/ LookAtOrder(w)
    \/ QueryVenue(w)
    \/ Compare(w)
    \/ MarkOrderReconciled(w)

\* Everything but trades.
DeskStep ==
    \/ \E o \in Orders, s \in {"ready", "risk_rejected"} : CreateMarketOrder(o, s)
    \/ \E o \in Orders : LeaseLapses(o)
    \/ \E s \in OperatorSets : SetCircuitBreaker(s)
    \/ \E o \in Orders, s \in VenueStatuses : VenueMoves(o, s)
    \/ \E w \in Workers, o \in Orders : ClaimOutboxMessage(w, o)
    \/ \E w \in Workers, o \in Orders : ListForReconciliation(w, o)
    \/ \E w \in Workers : WorkerStep(w)
    \/ \E w \in Workers : WorkerCrash(w)

Next ==
    \/ \E o \in Orders, x \in TradeIds, q \in 1..Quantity : RecordTradeFill(o, x, q)
    \/ DeskStep

Spec == Init /\ [][Next]_vars

(***************************************************************************)
(* Time passes, the maintenance loop keeps polling, and a process goes on  *)
(* with what it started unless it crashes (calls to the venue time out).   *)
(***************************************************************************)
Fairness ==
    /\ \A o \in Orders : WF_vars(LeaseLapses(o))
    /\ \A o \in Orders : SF_vars(\E w \in Workers : ClaimOutboxMessage(w, o))
    /\ \A w \in Workers : WF_vars(WorkerStep(w))

FairSpec == Spec /\ Fairness

-----------------------------------------------------------------------------
(* Properties.                                                             *)

Unsubmitted == {"absent", "ready", "submitting"}

\* A message counts as published only when its order has left the desk: no
\* lease that ran out, crash or second worker makes finish_outbox_message
\* close a message whose order still waits for its submission.
PublishedIsSubmitted ==
    \A o \in Orders : outbox[o] = "published" => status[o] \notin Unsubmitted

\* An order fails only because its message ran out of attempts or because
\* the venue failed it, never by a worker whose lease was taken over, by a
\* retry that was refused or by a comparison with a stale status.
FailedHasCause ==
    \A o \in Orders : status[o] = "failed" => outbox[o] = "dead_letter" \/ venue[o] = "failed"

\* Both together: what an order says of its submission and what its message
\* and the venue say of it agree, whoever finished the message under whichever
\* lease.
MessageAgreesWithOrder == PublishedIsSubmitted /\ FailedHasCause

\* A message whose last attempt was lost with a crashed worker:
\* claim_outbox_messages does not select it any more.
Stranded(o) == outbox[o] = "publishing" /\ lease[o] = "lapsed" /\ attempts[o] = MaxAttempts

\* An order at the venue whose market order id the platform does not know is
\* out of reach of list_orders_for_reconciliation. It is one whose message a
\* worker has or will take up again, whose message was given up (loudly, or
\* stranded), which a refusal (a 4xx) of a retry rejected, or of which an
\* accepted answer named no id: no id that an answer named is ever lost,
\* whichever worker, attempt or crash it meets.
UnknownAtVenueIsUnfinished ==
    \A o \in Orders : venue[o] # "none" /\ ~marketId[o] =>
        \/ Due(o) \/ lease[o] = "held"
        \/ outbox[o] = "dead_letter" \/ Stranded(o)
        \/ status[o] = "rejected" \/ unnamed[o]

\* The platform never runs ahead of the venue: snapshots compared late, late
\* transitions and trades in any order still leave a local status the venue
\* has reached or passed, or that recorded trades alone account for.
NeverAheadOfVenue ==
    \A o \in Orders :
        /\ status[o] = "submitted" => venue[o] # "none"
        /\ status[o] = "partially_filled" =>
             filled[o] > 0 \/ venue[o] \notin {"none", "submitted"}
        /\ status[o] = "cancel_pending" => venue[o] \notin {"none", "submitted"}
        /\ status[o] = "filled" => filled[o] = Quantity \/ venue[o] = "filled"
        /\ status[o] \in {"cancelled", "expired"} => venue[o] = status[o]

\* The quantity never outgrows the order, and an order traded in full is
\* filled: neither a stale dead letter nor a stale reconciliation moves it to
\* another end, so it stays in front of metering and settlement.
FullyTradedIsFilled ==
    \A o \in Orders :
        /\ filled[o] <= Quantity
        /\ filled[o] = Quantity => status[o] = "filled"

\* What became of a message is final: a worker whose lease was taken over, or
\* one that shares its instance id with the new owner, neither reopens nor
\* rewrites it (finish_outbox_message, claim_outbox_messages).
MessagesEndOnce ==
    [][\A o \in Orders : outbox[o] \in {"published", "dead_letter"} => outbox'[o] = outbox[o]]_vars

\* An order that is to be submitted gets an answer, its message is declared
\* dead, or its last allowed attempt was lost with a crashed worker (a
\* message that claim_outbox_messages no longer selects).
SubmissionSettles ==
    \A o \in Orders :
        status[o] \in {"ready", "submitting"} ~>
            \/ status[o] \notin {"ready", "submitting"}
            \/ outbox[o] = "dead_letter"
            \/ Stranded(o)

OL == INSTANCE OrderLifecycle WITH
        state <- status, traded <- filled, counted <- trades, pledged <- schedules,
        Lifecycle <- OrderTransitions

\* Orders keep the promise of OrderLifecycle: legal moves, ends that are
\* final, each trade counted and scheduled once and within the quantity.
KeepsOrderPromise == OL!LifecycleSpec

\* README.md: workers "open the breaker on dead letters". A crash between the
\* dead letter and the breaker, or an order that cannot fail any more, keeps
\* it closed for ever.
DeadLetterOpensBreaker ==
    \A o \in Orders : outbox[o] = "dead_letter" ~> breaker = "open"

\* README.md: workers "reconcile remote state, and open the breaker on ...
\* mismatches". A 4xx answer to the query ends a live order as rejected and
\* marks it as matched.
MatchedIsNotLiveRejected ==
    \A o \in Orders :
        status[o] = "rejected" /\ recon[o] = "matched" =>
            venue[o] \notin VenueLive
=============================================================================
