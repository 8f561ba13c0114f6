-------------------------- MODULE OrderOutboxProofs --------------------------
(***************************************************************************)
(* What OrderOutbox guarantees for every number of orders, workers,        *)
(* attempts and lots, and any assignment of instance ids to workers.       *)
(***************************************************************************)
EXTENDS OrderOutbox, TLAPS

\* The statuses that show that the venue took the order.
Acknowledged ==
    {"submitted", "partially_filled", "cancel_pending", "filled", "cancelled", "expired"}

\* A status the venue gave away at some time is one it has reached for good.
Reached(o, s) ==
    /\ s \in {"filled", "cancelled", "expired", "failed"} => venue[o] = s
    /\ s \in {"partially_filled", "cancel_pending"} => venue[o] \notin {"none", "submitted"}

\* The row shows an accepted answer, with a market order id or without.
Answered(o) == marketId[o] \/ unnamed[o]

\* What ties the rows of one order together.
OrderInv(o) ==
    /\ outbox[o] = "publishing" <=> lockedBy[o] # NoInstance
    /\ status[o] \in {"absent", "risk_rejected"} => outbox[o] = "absent"
    /\ outbox[o] \in {"absent", "pending"} => venue[o] = "none"
    /\ outbox[o] = "publishing" => lease[o] # "none"
    /\ outbox[o] = "failed" => attempts[o] < MaxAttempts
    /\ marketId[o] => status[o] \notin Unsubmitted
    /\ marketId[o] => status[o] = "rejected" \/ venue[o] # "none"
    /\ status[o] \in Acknowledged => Answered(o) /\ venue[o] # "none"
    /\ status[o] = "failed" => Answered(o) \/ outbox[o] = "dead_letter"

\* What a worker may rely on between two of its steps.
WorkerInv(w) ==
    pc[w] # "idle" =>
        /\ job[w] \in Orders
        /\ pc[w] \in Publishing => outbox[job[w]] \notin {"absent", "pending"}
        /\ pc[w] = "record" => /\ answer[w] \in {"submitted", "rejected", "failed"}
                               /\ answer[w] = "submitted" => venue[job[w]] # "none"
                               /\ answer[w] = "failed" => venue[job[w]] = "failed"
        /\ pc[w] = "publish" => status[job[w]] \notin Unsubmitted
        /\ pc[w] = "fail" => outbox[job[w]] = "dead_letter"
        /\ pc[w] \in {"look", "query", "compare"} => marketId[job[w]] /\ venue[job[w]] # "none"
        /\ pc[w] = "compare" => /\ answer[w] \in VenueStatuses \cup {"accepted", "rejected"}
                                /\ Reached(job[w], answer[w])
        /\ pc[w] = "mark" => answer[w] \in {"matched", "mismatch", "unknown"}

OutboxInv ==
    /\ TypeOK
    /\ \A o \in Orders : OrderInv(o)
    /\ \A w \in Workers : WorkerInv(w)
    /\ PublishedIsSubmitted
    /\ FailedHasCause
    /\ NeverAheadOfVenue
    /\ FullyTradedIsFilled

-----------------------------------------------------------------------------
(* What ORDER_TRANSITIONS implies.                                         *)

LEMMA TransitionFacts ==
  ASSUME NEW s \in OrderStatuses, NEW n \in OrderTransitions[s]
  PROVE  /\ n \in OrderStatuses
         /\ n # "absent"
         /\ n \in {"ready", "risk_rejected"} => s = "absent"
         /\ n = "submitting" => s = "ready"
         /\ n = "submitted" => s = "submitting"
         /\ n \in {"cancelled", "expired", "filled", "partially_filled", "cancel_pending"} =>
              s \in {"ready", "submitted", "partially_filled", "cancel_pending"}
         /\ n = "rejected" => s \in {"submitting", "submitted"}
         /\ s \notin Ended
  BY DEF OrderTransitions, OrderStatuses, Ended

LEMMA FillFacts ==
  ASSUME NEW s \in {"submitted", "partially_filled"}
  PROVE  {"filled", "partially_filled"} \subseteq OrderTransitions[s]
  BY DEF OrderTransitions, OrderStatuses, Ended

-----------------------------------------------------------------------------
(* The invariant holds initially and every action preserves it.            *)

LEMMA InitInv == Init => OutboxInv
<1> SUFFICES ASSUME Init PROVE OutboxInv
  OBVIOUS
<1> USE OrderOutboxAssumption DEF Init
<1>1. TypeOK
  BY DEF TypeOK, OrderStatuses, BreakerStates
<1>2. \A o \in Orders : OrderInv(o)
  BY DEF OrderInv, Acknowledged, Answered
<1>3. \A w \in Workers : WorkerInv(w)
  BY DEF WorkerInv
<1>4. PublishedIsSubmitted /\ FailedHasCause /\ NeverAheadOfVenue /\ FullyTradedIsFilled
  BY DEF PublishedIsSubmitted, FailedHasCause, NeverAheadOfVenue, FullyTradedIsFilled
<1> QED
  BY <1>1, <1>2, <1>3, <1>4 DEF OutboxInv

LEMMA CreateInv ==
  ASSUME OutboxInv, NEW o \in Orders, NEW s \in {"ready", "risk_rejected"},
         CreateMarketOrder(o, s)
  PROVE  OutboxInv'
<1> USE OrderOutboxAssumption DEF OutboxInv, CreateMarketOrder, workerVars
<1>1. TypeOK'
  BY DEF TypeOK, OrderStatuses, Ended
<1>2. \A p \in Orders : OrderInv(p)'
  BY DEF OrderInv, TypeOK, Acknowledged, Unsubmitted, Answered
<1>3. \A w \in Workers : WorkerInv(w)'
  BY DEF WorkerInv, OrderInv, TypeOK, Publishing, Unsubmitted, Reached
<1>4. PublishedIsSubmitted' /\ FailedHasCause'
  BY DEF PublishedIsSubmitted, FailedHasCause, OrderInv, TypeOK, Unsubmitted
<1>5. NeverAheadOfVenue' /\ FullyTradedIsFilled'
  BY DEF NeverAheadOfVenue, FullyTradedIsFilled, TypeOK
<1> QED
  BY <1>1, <1>2, <1>3, <1>4, <1>5

LEMMA LapseInv ==
  ASSUME OutboxInv, NEW o \in Orders, LeaseLapses(o)
  PROVE  OutboxInv'
<1> USE DEF OutboxInv, LeaseLapses, orderVars, workerVars
<1>1. TypeOK'
  BY DEF TypeOK
<1>2. \A p \in Orders : OrderInv(p)'
  BY DEF OrderInv, Answered, TypeOK
<1>3. \A w \in Workers : WorkerInv(w)'
  BY DEF WorkerInv, Reached
<1>4. PublishedIsSubmitted' /\ FailedHasCause' /\ NeverAheadOfVenue' /\ FullyTradedIsFilled'
  BY DEF PublishedIsSubmitted, FailedHasCause, NeverAheadOfVenue, FullyTradedIsFilled
<1> QED
  BY <1>1, <1>2, <1>3, <1>4

LEMMA BreakerInv ==
  ASSUME OutboxInv, NEW s \in OperatorSets, SetCircuitBreaker(s)
  PROVE  OutboxInv'
<1> USE OrderOutboxAssumption DEF OutboxInv, SetCircuitBreaker, orderVars, outboxVars, workerVars
<1>1. TypeOK'
  BY DEF TypeOK
<1>2. \A p \in Orders : OrderInv(p)'
  BY DEF OrderInv, Answered
<1>3. \A w \in Workers : WorkerInv(w)'
  BY DEF WorkerInv, Reached
<1>4. PublishedIsSubmitted' /\ FailedHasCause' /\ NeverAheadOfVenue' /\ FullyTradedIsFilled'
  BY DEF PublishedIsSubmitted, FailedHasCause, NeverAheadOfVenue, FullyTradedIsFilled
<1> QED
  BY <1>1, <1>2, <1>3, <1>4

LEMMA VenueInv ==
  ASSUME OutboxInv, NEW o \in Orders, NEW s \in VenueStatuses, VenueMoves(o, s)
  PROVE  OutboxInv'
<1> USE OrderOutboxAssumption DEF OutboxInv, VenueMoves, orderVars, outboxVars, workerVars, VenueLive, VenueEnds
<1>1. TypeOK'
  BY DEF TypeOK
<1>2. \A p \in Orders : OrderInv(p)'
  BY DEF OrderInv, TypeOK, Answered
<1>3. \A w \in Workers : WorkerInv(w)'
  BY DEF WorkerInv, Reached, TypeOK
<1>4. PublishedIsSubmitted' /\ FailedHasCause' /\ FullyTradedIsFilled'
  BY DEF PublishedIsSubmitted, FailedHasCause, FullyTradedIsFilled
<1>5. NeverAheadOfVenue'
  BY DEF NeverAheadOfVenue, TypeOK
<1> QED
  BY <1>1, <1>2, <1>3, <1>4, <1>5

\* A report fits into the order, so the fill it causes is at least one lot and
\* never one too many.
LEMMA FittingFacts ==
  ASSUME OutboxInv, NEW o \in Orders, NEW q \in 1..Quantity,
         status[o] \in {"submitted", "partially_filled"}
  PROVE  /\ Fitting(o, q) \in 1..Quantity
         /\ filled[o] + Fitting(o, q) \in 1..Quantity
<1>1. filled[o] \in 0..Quantity /\ filled[o] # Quantity
  BY DEF OutboxInv, FullyTradedIsFilled, TypeOK
<1> QED
  BY <1>1, OrderOutboxAssumption DEF Fitting

LEMMA FillInv ==
  ASSUME OutboxInv, NEW o \in Orders, NEW x \in TradeIds, NEW q \in 1..Quantity,
         RecordTradeFill(o, x, q)
  PROVE  OutboxInv'
<1> DEFINE sum == filled[o] + Fitting(o, q)
<1>1. /\ status[o] \in {"submitted", "partially_filled"}
      /\ trades' = [trades EXCEPT ![o] = @ \cup {x}]
      /\ schedules' = [schedules EXCEPT ![o] = @ \cup {x}]
      /\ status' = [status EXCEPT ![o] = FillStatus(sum)]
      /\ filled' = [filled EXCEPT ![o] = sum]
      /\ UNCHANGED <<marketId, unnamed, recon, outboxVars, breaker, workerVars, venue>>
  BY DEF RecordTradeFill, Fill, Moved, OutboxInv, TypeOK
<1>2. sum \in 1..Quantity
  BY <1>1, FittingFacts
<1>3. /\ FillStatus(sum) \in {"filled", "partially_filled"}
      /\ FillStatus(sum) = "filled" <=> sum = Quantity
  BY <1>2, OrderOutboxAssumption DEF FillStatus
<1> HIDE DEF sum
<1> USE OrderOutboxAssumption DEF OutboxInv, outboxVars, workerVars
<1>4. TypeOK'
  BY <1>1, <1>2, <1>3 DEF TypeOK, OrderStatuses, Ended
<1>5. \A p \in Orders : OrderInv(p)'
  BY <1>1, <1>3 DEF OrderInv, TypeOK, Acknowledged, Unsubmitted, Answered
<1>6. \A w \in Workers : WorkerInv(w)'
  BY <1>1, <1>3 DEF WorkerInv, Reached, TypeOK, Unsubmitted
<1>7. PublishedIsSubmitted' /\ FailedHasCause'
  BY <1>1, <1>3 DEF PublishedIsSubmitted, FailedHasCause, TypeOK, Unsubmitted
<1>8. NeverAheadOfVenue'
  BY <1>1, <1>2, <1>3 DEF NeverAheadOfVenue, TypeOK
<1>9. FullyTradedIsFilled'
  BY <1>1, <1>2, <1>3 DEF FullyTradedIsFilled, TypeOK
<1> QED
  BY <1>4, <1>5, <1>6, <1>7, <1>8, <1>9

-----------------------------------------------------------------------------
(* Worker steps. What one worker does to the rows takes nothing away from  *)
(* what the others rely on.                                                *)

\* What never goes back, whoever moves.
OnlyForward ==
    \A o \in Orders :
        /\ outbox[o] \notin {"absent", "pending"} => outbox'[o] \notin {"absent", "pending"}
        /\ outbox[o] = "dead_letter" => outbox'[o] = "dead_letter"
        /\ status[o] \notin Unsubmitted => status'[o] \notin Unsubmitted
        /\ marketId[o] => marketId'[o]
        /\ venue[o] # "none" => venue'[o] = venue[o]

Untouched(v) == pc'[v] = pc[v] /\ job'[v] = job[v] /\ answer'[v] = answer[v]

LEMMA OthersInv ==
  ASSUME OutboxInv, NEW v \in Workers, Untouched(v), OnlyForward
  PROVE  WorkerInv(v)'
<1>1. WorkerInv(v)
  BY DEF OutboxInv
<1>2. SUFFICES ASSUME pc[v] # "idle" PROVE WorkerInv(v)'
  BY DEF WorkerInv, Untouched
<1> DEFINE o == job[v]
<1>3. o \in Orders
  BY <1>1, <1>2 DEF WorkerInv
<1>4. pc[v] \in {"look", "query", "compare"} => venue'[o] = venue[o]
  BY <1>1, <1>2, <1>3 DEF WorkerInv, OutboxInv, OrderInv, OnlyForward
<1> QED
  BY <1>1, <1>2, <1>3, <1>4 DEF WorkerInv, Untouched, OnlyForward, Reached, Publishing

LEMMA CarryOnTypes ==
  ASSUME OutboxInv, NEW w \in Workers,
         NEW place \in Publishing \cup Reconciling, NEW saw \in OrderStatuses,
         NEW what \in OrderStatuses \cup {"none", "accepted", "matched", "mismatch", "unknown"},
         CarryOn(w, place, saw, what)
  PROVE  /\ pc' \in [Workers -> Publishing \cup Reconciling \cup {"idle"}]
         /\ job' \in [Workers -> Orders \cup {NoOrder}]
         /\ seen' \in [Workers -> OrderStatuses]
         /\ answer' \in [Workers -> OrderStatuses \cup {"none", "accepted", "matched", "mismatch", "unknown"}]
         /\ \A v \in Workers \ {w} : Untouched(v)
         /\ pc'[w] = place /\ job'[w] = job[w] /\ answer'[w] = what
  BY DEF CarryOn, OutboxInv, TypeOK, Untouched

LEMMA GoIdleTypes ==
  ASSUME OutboxInv, NEW w \in Workers, GoIdle(w)
  PROVE  /\ pc' \in [Workers -> Publishing \cup Reconciling \cup {"idle"}]
         /\ job' \in [Workers -> Orders \cup {NoOrder}]
         /\ seen' \in [Workers -> OrderStatuses]
         /\ answer' \in [Workers -> OrderStatuses \cup {"none", "accepted", "matched", "mismatch", "unknown"}]
         /\ \A v \in Workers \ {w} : Untouched(v)
         /\ pc'[w] = "idle"
  BY DEF GoIdle, OutboxInv, TypeOK, Untouched, OrderStatuses

\* What a transition may learn from the answer it records.
Learned(o) ==
    /\ marketId' \in [Orders -> BOOLEAN] /\ unnamed' \in [Orders -> BOOLEAN]
    /\ \A p \in Orders \ {o} : marketId'[p] = marketId[p] /\ unnamed'[p] = unnamed[p]
    /\ marketId[o] => marketId'[o]
    /\ unnamed[o] => unnamed'[o]

\* The evidence a move to the status n asks for.
Grounds(o, n) ==
    /\ n \in Acknowledged => venue[o] # "none" /\ Answered(o)'
    /\ \/ n = "failed" /\ outbox[o] = "dead_letter"
       \/ Reached(o, n) /\ (n = "failed" => Answered(o)')
    /\ marketId'[o] =>
         marketId[o] \/ n = "rejected" \/ (venue[o] # "none" /\ n \notin Unsubmitted)

\* transition_market_order, for any caller that has the evidence its target
\* asks for.
LEMMA MoveInv ==
  ASSUME OutboxInv, NEW o \in Orders, NEW n,
         MayMove(o, n), Moved(o, n), status[o] # "absent",
         UNCHANGED <<filled, trades, schedules, recon, outboxVars, breaker, venue>>,
         Learned(o), Grounds(o, n)
  PROVE  /\ status' \in [Orders -> OrderStatuses]
         /\ \A p \in Orders : OrderInv(p)'
         /\ PublishedIsSubmitted' /\ FailedHasCause'
         /\ NeverAheadOfVenue' /\ FullyTradedIsFilled'
         /\ OnlyForward
<1>1. /\ n \in OrderStatuses
      /\ n \notin {"absent", "ready", "risk_rejected"}
      /\ n = "submitting" => status[o] = "ready"
      /\ status[o] \notin Ended
      /\ n \in {"cancelled", "expired", "filled", "partially_filled", "cancel_pending"} =>
           status[o] \in {"ready", "submitted", "partially_filled", "cancel_pending"}
  BY TransitionFacts DEF MayMove, OutboxInv, TypeOK
<1>2. /\ status' = [status EXCEPT ![o] = n]
      /\ status' \in [Orders -> OrderStatuses]
  BY <1>1 DEF Moved, OutboxInv, TypeOK
<1>3. \A p \in Orders \ {o} : Answered(p)' <=> Answered(p)
  BY DEF Learned, Answered
<1> USE DEF OutboxInv, outboxVars
<1>4. \A p \in Orders : OrderInv(p)'
  <2> SUFFICES ASSUME NEW p \in Orders PROVE OrderInv(p)'
    OBVIOUS
  <2>1. CASE p = o
    <3>1. status'[o] = n
      BY <1>2 DEF TypeOK
    <3>2. marketId[o] => n \notin Unsubmitted /\ venue[o] # "none"
      BY <1>1 DEF OrderInv, Unsubmitted, Ended
    <3>3. marketId'[o] => n \notin Unsubmitted /\ (n = "rejected" \/ venue[o] # "none")
      BY <3>2 DEF Grounds, Unsubmitted
    <3>4. /\ n \in Acknowledged => Answered(o)' /\ venue[o] # "none"
          /\ n = "failed" => Answered(o)' \/ outbox[o] = "dead_letter"
      BY DEF Grounds
    <3> QED
      BY <1>1, <2>1, <3>1, <3>3, <3>4 DEF OrderInv
  <2>2. CASE p # o
    BY <1>2, <1>3, <2>2 DEF OrderInv, TypeOK, Learned
  <2> QED
    BY <2>1, <2>2
<1>5. PublishedIsSubmitted'
  BY <1>1, <1>2 DEF PublishedIsSubmitted, TypeOK, Unsubmitted
<1>6. FailedHasCause'
  <2>1. n = "failed" => outbox[o] = "dead_letter" \/ venue[o] = "failed"
    BY DEF Grounds, Reached
  <2> QED
    BY <1>1, <1>2, <2>1 DEF FailedHasCause, TypeOK
<1>7. FullyTradedIsFilled'
  BY <1>1, <1>2 DEF FullyTradedIsFilled, TypeOK, Ended
<1>8. /\ n = "submitted" => venue[o] # "none"
      /\ n # "failed" => Reached(o, n)
  BY DEF Grounds, Acknowledged
<1>9. NeverAheadOfVenue'
  BY <1>1, <1>2, <1>8 DEF NeverAheadOfVenue, TypeOK, Reached
<1>10. OnlyForward
  BY <1>1, <1>2 DEF OnlyForward, TypeOK, Unsubmitted, Learned
<1> QED
  BY <1>2, <1>4, <1>5, <1>6, <1>7, <1>9, <1>10

\* A step of a worker that writes no row and tells the venue nothing new.
LEMMA ThinkingInv ==
  ASSUME OutboxInv, NEW w \in Workers,
         UNCHANGED <<orderVars, outboxVars, venue>>,
         breaker' \in BreakerStates,
         NEW place \in Publishing \cup Reconciling, NEW saw \in OrderStatuses,
         NEW what \in OrderStatuses \cup {"none", "accepted", "matched", "mismatch", "unknown"},
         CarryOn(w, place, saw, what) \/ GoIdle(w),
         WorkerInv(w)'
  PROVE  OutboxInv'
<1>1. OnlyForward
  BY DEF OnlyForward, orderVars, outboxVars
<1>2. /\ pc' \in [Workers -> Publishing \cup Reconciling \cup {"idle"}]
      /\ job' \in [Workers -> Orders \cup {NoOrder}]
      /\ seen' \in [Workers -> OrderStatuses]
      /\ answer' \in [Workers -> OrderStatuses \cup {"none", "accepted", "matched", "mismatch", "unknown"}]
      /\ \A v \in Workers \ {w} : Untouched(v)
  BY CarryOnTypes, GoIdleTypes
<1>3. \A v \in Workers : WorkerInv(v)'
  BY <1>1, <1>2, OthersInv
<1> USE DEF OutboxInv, orderVars, outboxVars
<1>4. TypeOK'
  BY <1>2 DEF TypeOK
<1>5. \A o \in Orders : OrderInv(o)'
  BY DEF OrderInv, Answered
<1>6. PublishedIsSubmitted' /\ FailedHasCause' /\ NeverAheadOfVenue' /\ FullyTradedIsFilled'
  BY DEF PublishedIsSubmitted, FailedHasCause, NeverAheadOfVenue, FullyTradedIsFilled
<1> QED
  BY <1>3, <1>4, <1>5, <1>6

LEMMA IdleInv ==
  ASSUME NEW w \in Workers, pc'[w] = "idle"
  PROVE  WorkerInv(w)'
  BY DEF WorkerInv

LEMMA ClaimInv ==
  ASSUME OutboxInv, NEW w \in Workers, NEW o \in Orders, ClaimOutboxMessage(w, o)
  PROVE  OutboxInv'
<1>0. /\ InstanceOf[w] \in Instances
      /\ InstanceOf[w] # NoInstance
      /\ attempts[o] + 1 \in 0..MaxAttempts
  <2>1. InstanceOf \in [Workers -> Instances] /\ NoInstance \notin Instances
    BY OrderOutboxAssumption
  <2>2. InstanceOf[w] \in Instances
    BY <2>1
  <2>3. MaxAttempts \in Nat /\ attempts[o] \in 0..MaxAttempts /\ attempts[o] < MaxAttempts
    BY OrderOutboxAssumption DEF ClaimOutboxMessage, Due, OutboxInv, TypeOK
  <2> QED
    BY <2>1, <2>2, <2>3
<1> USE DEF OutboxInv, ClaimOutboxMessage, Due, orderVars
<1>1. OnlyForward
  BY DEF OnlyForward, TypeOK
<1>2. \A v \in Workers \ {w} : Untouched(v)
  BY DEF Untouched, TypeOK
<1>3. WorkerInv(w)'
  BY DEF WorkerInv, TypeOK, Publishing
<1>4. \A v \in Workers : WorkerInv(v)'
  BY <1>1, <1>2, <1>3, OthersInv
<1>5. TypeOK'
  BY <1>0 DEF TypeOK, Publishing
<1>6. \A p \in Orders : OrderInv(p)'
  BY <1>0 DEF OrderInv, TypeOK, Answered
<1>7. PublishedIsSubmitted' /\ FailedHasCause'
  BY DEF PublishedIsSubmitted, FailedHasCause, TypeOK
<1>8. NeverAheadOfVenue' /\ FullyTradedIsFilled'
  BY DEF NeverAheadOfVenue, FullyTradedIsFilled
<1> QED
  BY <1>4, <1>5, <1>6, <1>7, <1>8

LEMMA ListInv ==
  ASSUME OutboxInv, NEW w \in Workers, NEW o \in Orders, ListForReconciliation(w, o)
  PROVE  OutboxInv'
<1> USE DEF OutboxInv, ListForReconciliation, orderVars, outboxVars
<1>1. OnlyForward
  BY DEF OnlyForward
<1>2. \A v \in Workers \ {w} : Untouched(v)
  BY DEF Untouched, TypeOK
<1>3. WorkerInv(w)'
  <2>1. marketId[o] /\ venue[o] # "none"
    BY DEF OrderInv, Unsubmitted, Acknowledged
  <2> QED
    BY <2>1 DEF WorkerInv, TypeOK, Publishing
<1>4. \A v \in Workers : WorkerInv(v)'
  BY <1>1, <1>2, <1>3, OthersInv
<1>5. TypeOK'
  BY DEF TypeOK, Reconciling
<1>6. \A p \in Orders : OrderInv(p)'
  BY DEF OrderInv, Answered
<1>7. PublishedIsSubmitted' /\ FailedHasCause' /\ NeverAheadOfVenue' /\ FullyTradedIsFilled'
  BY DEF PublishedIsSubmitted, FailedHasCause, NeverAheadOfVenue, FullyTradedIsFilled
<1> QED
  BY <1>4, <1>5, <1>6, <1>7

LEMMA ReadInv ==
  ASSUME OutboxInv, NEW w \in Workers, ReadOrder(w)
  PROVE  OutboxInv'
<1>1. job[w] \in Orders /\ status[job[w]] \in OrderStatuses
  BY DEF ReadOrder, OutboxInv, WorkerInv, TypeOK
<1> DEFINE s == status[job[w]]
<1>2. PICK place \in {"publish", "begin", "submit", "retry"}, saw \in OrderStatuses :
        /\ CarryOn(w, place, saw, "none")
        /\ place = "publish" => s \notin Unsubmitted
  BY <1>1 DEF ReadOrder, OrderStatuses, Unsubmitted
<1>3. UNCHANGED <<orderVars, outboxVars, breaker, venue>> /\ pc[w] = "begin"
  BY DEF ReadOrder
<1>4. /\ pc'[w] = place /\ job'[w] = job[w] /\ answer'[w] = "none"
  BY <1>2, CarryOnTypes DEF Publishing
<1>5. WorkerInv(w)'
  BY <1>1, <1>2, <1>3, <1>4 DEF WorkerInv, OutboxInv, orderVars, outboxVars, Publishing
<1> QED
  BY <1>2, <1>3, <1>5, ThinkingInv DEF Publishing, OutboxInv, TypeOK

\* A worker's transition of the order it works on.
LEMMA MovingInv ==
  ASSUME OutboxInv, NEW w \in Workers, NEW o \in Orders, NEW n,
         MayMove(o, n), Moved(o, n), status[o] # "absent",
         UNCHANGED <<filled, trades, schedules, recon, outboxVars, breaker, venue>>,
         Learned(o), Grounds(o, n),
         NEW place \in Publishing \cup Reconciling, NEW saw \in OrderStatuses,
         NEW what \in OrderStatuses \cup {"none", "accepted", "matched", "mismatch", "unknown"},
         CarryOn(w, place, saw, what),
         WorkerInv(w)'
  PROVE  OutboxInv'
<1>1. /\ status' \in [Orders -> OrderStatuses]
      /\ \A p \in Orders : OrderInv(p)'
      /\ PublishedIsSubmitted' /\ FailedHasCause'
      /\ NeverAheadOfVenue' /\ FullyTradedIsFilled'
      /\ OnlyForward
  BY MoveInv
<1>2. /\ pc' \in [Workers -> Publishing \cup Reconciling \cup {"idle"}]
      /\ job' \in [Workers -> Orders \cup {NoOrder}]
      /\ seen' \in [Workers -> OrderStatuses]
      /\ answer' \in [Workers -> OrderStatuses \cup {"none", "accepted", "matched", "mismatch", "unknown"}]
      /\ \A v \in Workers \ {w} : Untouched(v)
  BY CarryOnTypes
<1>3. \A v \in Workers : WorkerInv(v)'
  BY <1>1, <1>2, OthersInv
<1>4. TypeOK'
  BY <1>1, <1>2 DEF OutboxInv, TypeOK, outboxVars, Learned
<1> QED
  BY <1>1, <1>3, <1>4 DEF OutboxInv

LEMMA BeginInv ==
  ASSUME OutboxInv, NEW w \in Workers, BeginSubmission(w)
  PROVE  OutboxInv'
<1>1. pc[w] = "begin" /\ job[w] \in Orders /\ outbox[job[w]] \notin {"absent", "pending"}
  BY DEF BeginSubmission, OutboxInv, WorkerInv, Publishing
<1>2. CASE MayMove(job[w], "submitting")
  <2>1. PICK o \in Orders : o = job[w]
    BY <1>1
  <2>2. CarryOn(w, "submit", "submitting", "none")
    BY <1>2 DEF BeginSubmission
  <2>3. /\ MayMove(o, "submitting") /\ Moved(o, "submitting")
        /\ UNCHANGED <<marketId, unnamed, filled, trades, schedules, recon, outboxVars, breaker, venue>>
        /\ status[o] # "absent"
        /\ Learned(o)
    BY <1>1, <1>2, <2>1 DEF BeginSubmission, OutboxInv, OrderInv, TypeOK, Learned
  <2>4. pc'[w] = "submit" /\ job'[w] = job[w]
    BY <2>2, CarryOnTypes DEF Publishing, OrderStatuses
  <2>5. WorkerInv(w)'
    BY <1>1, <2>3, <2>4 DEF WorkerInv, outboxVars
  <2> QED
    BY <2>2, <2>3, <2>5, MovingInv DEF Grounds, Acknowledged, Reached, Publishing, OrderStatuses
<1>3. CASE ~MayMove(job[w], "submitting")
  <2>1. CarryOn(w, "retry", "ready", "none") /\ UNCHANGED <<orderVars, outboxVars, breaker, venue>>
    BY <1>3 DEF BeginSubmission, orderVars
  <2>2. pc'[w] = "retry" /\ job'[w] = job[w]
    BY <2>1, CarryOnTypes DEF Publishing, OrderStatuses
  <2>3. WorkerInv(w)'
    BY <1>1, <2>1, <2>2 DEF WorkerInv, outboxVars
  <2> QED
    BY <2>1, <2>3, ThinkingInv DEF Publishing, OrderStatuses, OutboxInv, TypeOK
<1> QED
  BY <1>2, <1>3

\* The venue takes an order, whatever the worker learns of it.
LEMMA PlacingInv ==
  ASSUME OutboxInv, NEW w \in Workers, NEW o \in Orders, job[w] = o, pc[w] = "submit",
         venue' = venue \/ Placed(o),
         UNCHANGED <<orderVars, outboxVars, breaker>>,
         NEW place \in {"record", "retry"}, NEW what \in {"submitted", "rejected", "failed", "none"},
         CarryOn(w, place, "submitting", what),
         place = "record" => what # "none",
         what = "submitted" => venue'[o] # "none",
         what = "failed" => venue'[o] = "failed"
  PROVE  OutboxInv'
<1>1. outbox[o] \notin {"absent", "pending"}
  BY DEF OutboxInv, WorkerInv, Publishing
<1>2. /\ pc' \in [Workers -> Publishing \cup Reconciling \cup {"idle"}]
      /\ job' \in [Workers -> Orders \cup {NoOrder}]
      /\ seen' \in [Workers -> OrderStatuses]
      /\ answer' \in [Workers -> OrderStatuses \cup {"none", "accepted", "matched", "mismatch", "unknown"}]
      /\ \A v \in Workers \ {w} : Untouched(v)
      /\ pc'[w] = place /\ job'[w] = o /\ answer'[w] = what
  BY CarryOnTypes DEF Publishing, OrderStatuses, Ended
<1> USE DEF OutboxInv, orderVars, outboxVars
<1>3. /\ venue' \in [Orders -> VenueStatuses \cup {"none"}]
      /\ \A p \in Orders : venue[p] # "none" => venue'[p] = venue[p]
      /\ \A p \in Orders \ {o} : venue'[p] = venue[p]
  BY DEF TypeOK, Placed
<1>4. OnlyForward
  BY <1>3 DEF OnlyForward
<1>5. WorkerInv(w)'
  BY <1>1, <1>2 DEF WorkerInv
<1>6. \A v \in Workers : WorkerInv(v)'
  BY <1>2, <1>4, <1>5, OthersInv
<1>7. TypeOK'
  BY <1>2, <1>3 DEF TypeOK
<1>8. \A p \in Orders : OrderInv(p)'
  BY <1>1, <1>3 DEF OrderInv, Answered
<1>9. PublishedIsSubmitted' /\ FailedHasCause' /\ FullyTradedIsFilled'
  BY <1>3 DEF PublishedIsSubmitted, FailedHasCause, FullyTradedIsFilled
<1>10. NeverAheadOfVenue'
  <2>1. \A p \in Orders : venue[p] = "none" => status[p] \notin Acknowledged
    BY DEF OrderInv, Answered
  <2> QED
    BY <1>3, <2>1 DEF NeverAheadOfVenue, Acknowledged
<1> QED
  BY <1>6, <1>7, <1>8, <1>9, <1>10

LEMMA SubmitInv ==
  ASSUME OutboxInv, NEW w \in Workers,
         SubmitAccepted(w) \/ SubmitRefused(w) \/ SubmitRaises(w)
  PROVE  OutboxInv'
<1>1. PICK o \in Orders : o = job[w]
  BY DEF SubmitAccepted, SubmitRefused, SubmitRaises, OutboxInv, WorkerInv
<1>2. CASE SubmitAccepted(w)
  <2>1. PICK s \in VenueSays(o) : CarryOn(w, "record", "submitting", SubmissionTarget(s))
    BY <1>1, <1>2 DEF SubmitAccepted
  <2>2. Placed(o) /\ venue'[o] \in VenueStatuses
    <3>1. PICK t \in VenueStatuses : venue' = [venue EXCEPT ![o] = IF @ = "none" THEN t ELSE @]
      BY <1>1, <1>2 DEF SubmitAccepted, Placed
    <3> QED
      BY <1>1, <1>2, <3>1 DEF SubmitAccepted, OutboxInv, TypeOK
  <2>3. /\ s \in VenueLive \cup VenueEnds \cup {"accepted"}
        /\ s = "failed" => venue'[o] = "failed"
        /\ venue'[o] # "none"
    BY <2>1, <2>2, OrderOutboxAssumption DEF VenueSays, VenueLive, VenueEnds
  <2>4. PICK n \in {"submitted", "rejected", "failed"} :
          n = SubmissionTarget(s) /\ (n = "failed" => s = "failed")
    BY <2>3 DEF SubmissionTarget, OrderTransitions, OrderStatuses, VenueLive, VenueEnds
  <2> QED
    BY <1>1, <1>2, <2>1, <2>2, <2>3, <2>4, PlacingInv DEF SubmitAccepted
<1>3. CASE SubmitRefused(w)
  BY <1>1, <1>3, PlacingInv DEF SubmitRefused
<1>4. CASE SubmitRaises(w)
  BY <1>1, <1>4, PlacingInv DEF SubmitRaises
<1> QED
  BY <1>2, <1>3, <1>4

LEMMA RecordInv ==
  ASSUME OutboxInv, NEW w \in Workers, RecordAnswer(w)
  PROVE  OutboxInv'
<1>1. PICK o \in Orders : o = job[w]
  BY DEF RecordAnswer, OutboxInv, WorkerInv
<1>2. PICK n \in {"submitted", "rejected", "failed"} : n = answer[w]
  BY DEF RecordAnswer, OutboxInv, WorkerInv
<1>3. /\ pc[w] = "record" /\ outbox[o] \notin {"absent", "pending"}
      /\ n = "submitted" => venue[o] # "none"
      /\ n = "failed" => venue[o] = "failed"
  BY <1>1, <1>2 DEF RecordAnswer, OutboxInv, WorkerInv, Publishing
<1>4. CASE MayMove(o, n)
  <2>1. CarryOn(w, "publish", "submitting", "none")
    BY <1>1, <1>2, <1>4 DEF RecordAnswer
  <2>2. PICK named \in BOOLEAN :
          /\ marketId' = [marketId EXCEPT ![o] = @ \/ named]
          /\ unnamed' = [unnamed EXCEPT ![o] = @ \/ (n # "rejected" /\ ~named)]
    BY <1>1, <1>2, <1>4 DEF RecordAnswer
  <2>3. /\ Moved(o, n)
        /\ UNCHANGED <<filled, trades, schedules, recon, outboxVars, breaker, venue>>
        /\ status[o] # "absent"
    BY <1>1, <1>2, <1>3, <1>4 DEF RecordAnswer, OutboxInv, OrderInv
  <2>4. Learned(o) /\ (n # "rejected" => Answered(o)')
    BY <2>2 DEF OutboxInv, TypeOK, Learned, Answered
  <2>5. Grounds(o, n)
    BY <1>3, <2>4 DEF Grounds, Acknowledged, Reached, Unsubmitted
  <2>6. pc'[w] = "publish" /\ job'[w] = o
    BY <1>1, <2>1, CarryOnTypes DEF Publishing, OrderStatuses
  <2>7. status'[o] = n
    BY <2>3 DEF Moved, OutboxInv, TypeOK
  <2>8. WorkerInv(w)'
    BY <1>3, <2>3, <2>6, <2>7 DEF WorkerInv, outboxVars, Unsubmitted
  <2> QED
    BY <1>4, <2>1, <2>3, <2>4, <2>5, <2>8, MovingInv DEF Publishing, OrderStatuses
<1>5. CASE ~MayMove(o, n)
  <2>1. CarryOn(w, "retry", "submitting", "none") /\ UNCHANGED <<orderVars, outboxVars, breaker, venue>>
    BY <1>1, <1>2, <1>5 DEF RecordAnswer, orderVars
  <2>2. pc'[w] = "retry" /\ job'[w] = o
    BY <1>1, <2>1, CarryOnTypes DEF Publishing, OrderStatuses
  <2>3. WorkerInv(w)'
    BY <1>3, <2>1, <2>2 DEF WorkerInv, outboxVars
  <2> QED
    BY <2>1, <2>3, ThinkingInv DEF Publishing, OrderStatuses, OutboxInv, TypeOK
<1> QED
  BY <1>4, <1>5

\* The row's lock is given up in any of the three ways a message is finished.
LEMMA ClosingInv ==
  ASSUME OutboxInv, NEW w \in Workers, NEW o \in Orders, job[w] = o, pc[w] # "idle",
         OwnsMessage(w), NEW s \in {"published", "failed", "dead_letter"}, Finish(o, s),
         UNCHANGED <<orderVars, breaker, venue>>,
         s = "published" => status[o] \notin Unsubmitted,
         s = "failed" => attempts[o] < MaxAttempts,
         NEW place \in {"idle", "fail", "alarm"},
         NEW saw \in OrderStatuses,
         IF place = "idle" THEN GoIdle(w) ELSE CarryOn(w, place, saw, "none"),
         place # "idle" => s = "dead_letter"
  PROVE  OutboxInv'
<1>1. outbox[o] = "publishing" /\ InstanceOf[w] # NoInstance
  <2>1. InstanceOf \in [Workers -> Instances] /\ NoInstance \notin Instances
    BY OrderOutboxAssumption
  <2>2. InstanceOf[w] # NoInstance
    BY <2>1
  <2> QED
    BY <2>2 DEF OwnsMessage, OutboxInv, OrderInv
<1>2. /\ pc' \in [Workers -> Publishing \cup Reconciling \cup {"idle"}]
      /\ job' \in [Workers -> Orders \cup {NoOrder}]
      /\ seen' \in [Workers -> OrderStatuses]
      /\ answer' \in [Workers -> OrderStatuses \cup {"none", "accepted", "matched", "mismatch", "unknown"}]
      /\ \A v \in Workers \ {w} : Untouched(v)
      /\ pc'[w] = place
      /\ place # "idle" => job'[w] = o
  BY CarryOnTypes, GoIdleTypes DEF Publishing
<1> USE DEF OutboxInv, Finish, orderVars
<1>3. OnlyForward
  BY <1>1 DEF OnlyForward, TypeOK
<1>4. WorkerInv(w)'
  BY <1>2 DEF WorkerInv, TypeOK
<1>5. \A v \in Workers : WorkerInv(v)'
  BY <1>2, <1>3, <1>4, OthersInv
<1>6. TypeOK'
  BY <1>2 DEF TypeOK
<1>7. \A p \in Orders : OrderInv(p)'
  BY <1>1 DEF OrderInv, TypeOK, Answered
<1>8. PublishedIsSubmitted' /\ FailedHasCause'
  BY <1>1 DEF PublishedIsSubmitted, FailedHasCause, TypeOK
<1>9. NeverAheadOfVenue' /\ FullyTradedIsFilled'
  BY DEF NeverAheadOfVenue, FullyTradedIsFilled
<1> QED
  BY <1>5, <1>6, <1>7, <1>8, <1>9

LEMMA FinishPublishedInv ==
  ASSUME OutboxInv, NEW w \in Workers, FinishPublished(w)
  PROVE  OutboxInv'
<1>1. PICK o \in Orders : o = job[w]
  BY DEF FinishPublished, OutboxInv, WorkerInv
<1>2. /\ pc[w] = "publish" /\ status[o] \notin Unsubmitted
      /\ outbox[o] \notin {"absent", "pending"} /\ seen[w] \in OrderStatuses
  BY <1>1 DEF FinishPublished, OutboxInv, WorkerInv, Publishing, TypeOK
<1>3. CASE OwnsMessage(w)
  BY <1>1, <1>2, <1>3, ClosingInv DEF FinishPublished, OrderStatuses
<1>4. CASE ~OwnsMessage(w)
  <2>1. PICK saw \in OrderStatuses : saw = seen[w]
    BY <1>2
  <2>2. CarryOn(w, "retry", saw, "none") /\ UNCHANGED <<orderVars, outboxVars, breaker, venue>>
    BY <1>4, <2>1 DEF FinishPublished
  <2>3. pc'[w] = "retry" /\ job'[w] = o
    BY <1>1, <2>2, CarryOnTypes DEF Publishing
  <2>4. WorkerInv(w)'
    BY <1>2, <2>2, <2>3 DEF WorkerInv, outboxVars
  <2> QED
    BY <2>2, <2>4, ThinkingInv DEF Publishing, OutboxInv, TypeOK
<1> QED
  BY <1>3, <1>4

LEMMA FinishFailedInv ==
  ASSUME OutboxInv, NEW w \in Workers, FinishFailed(w)
  PROVE  OutboxInv'
<1>1. PICK o \in Orders : o = job[w]
  BY DEF FinishFailed, OutboxInv, WorkerInv
<1>2. PICK saw \in OrderStatuses : saw = seen[w]
  BY DEF OutboxInv, TypeOK
<1>3. pc[w] = "retry" /\ UNCHANGED <<orderVars, breaker, venue>>
  BY DEF FinishFailed
<1>4. CASE ~OwnsMessage(w)
  <2>1. GoIdle(w) /\ UNCHANGED <<orderVars, outboxVars, venue>> /\ breaker' \in BreakerStates
    BY <1>3, <1>4 DEF FinishFailed, OutboxInv, TypeOK
  <2>2. WorkerInv(w)'
    BY <2>1, GoIdleTypes, IdleInv
  <2> QED
    BY <2>1, <2>2, ThinkingInv DEF Publishing
<1>5. CASE OwnsMessage(w) /\ attempts[o] >= MaxAttempts
  <2>1. PICK place \in {"fail", "alarm"} : CarryOn(w, place, saw, "none")
    BY <1>1, <1>2, <1>5 DEF FinishFailed
  <2>2. Finish(o, "dead_letter")
    BY <1>1, <1>5 DEF FinishFailed
  <2> QED
    BY <1>1, <1>3, <1>5, <2>1, <2>2, ClosingInv
<1>6. CASE OwnsMessage(w) /\ ~(attempts[o] >= MaxAttempts)
  <2>1. Finish(o, "failed") /\ GoIdle(w)
    BY <1>1, <1>6 DEF FinishFailed
  <2>2. attempts[o] < MaxAttempts
    BY <1>6, OrderOutboxAssumption DEF OutboxInv, TypeOK
  <2> QED
    BY <1>1, <1>2, <1>3, <1>6, <2>1, <2>2, ClosingInv
<1> QED
  BY <1>4, <1>5, <1>6

LEMMA FailInv ==
  ASSUME OutboxInv, NEW w \in Workers, FailOrder(w)
  PROVE  OutboxInv'
<1>1. PICK o \in Orders : o = job[w]
  BY DEF FailOrder, OutboxInv, WorkerInv
<1>2. PICK saw \in OrderStatuses : saw = seen[w]
  BY DEF OutboxInv, TypeOK
<1>3. pc[w] = "fail" /\ outbox[o] = "dead_letter" /\ status[o] # "absent"
  BY <1>1 DEF FailOrder, OutboxInv, WorkerInv, OrderInv
<1>4. CASE MayMove(o, "failed")
  <2>1. CarryOn(w, "alarm", saw, "none")
    BY <1>1, <1>2, <1>4 DEF FailOrder
  <2>2. /\ Moved(o, "failed")
        /\ UNCHANGED <<marketId, unnamed, filled, trades, schedules, recon, outboxVars, breaker, venue>>
        /\ Learned(o) /\ Grounds(o, "failed")
    BY <1>1, <1>3, <1>4 DEF FailOrder, OutboxInv, TypeOK, Learned, Grounds, Acknowledged
  <2>3. pc'[w] = "alarm" /\ job'[w] = o
    BY <1>1, <2>1, CarryOnTypes DEF Publishing, OrderStatuses
  <2>4. WorkerInv(w)'
    BY <1>3, <2>2, <2>3 DEF WorkerInv, outboxVars
  <2> QED
    BY <1>3, <1>4, <2>1, <2>2, <2>4, MovingInv DEF Publishing
<1>5. CASE ~MayMove(o, "failed")
  <2>1. GoIdle(w) /\ UNCHANGED <<orderVars, outboxVars, breaker, venue>>
    BY <1>1, <1>5 DEF FailOrder, orderVars
  <2>2. WorkerInv(w)'
    BY <2>1, GoIdleTypes, IdleInv
  <2> QED
    BY <1>2, <2>1, <2>2, ThinkingInv DEF Publishing, OutboxInv, TypeOK
<1> QED
  BY <1>4, <1>5

LEMMA OpenBreakerInv ==
  ASSUME OutboxInv, NEW w \in Workers, OpenBreaker(w)
  PROVE  OutboxInv'
<1>1. GoIdle(w) /\ UNCHANGED <<orderVars, outboxVars, venue>> /\ breaker' \in BreakerStates
  BY DEF OpenBreaker, BreakerStates
<1>2. WorkerInv(w)'
  BY <1>1, GoIdleTypes, IdleInv
<1> QED
  BY <1>1, <1>2, ThinkingInv DEF Publishing, OrderStatuses

LEMMA CrashInv ==
  ASSUME OutboxInv, NEW w \in Workers, WorkerCrash(w)
  PROVE  OutboxInv'
<1>1. GoIdle(w) /\ UNCHANGED <<orderVars, outboxVars, venue>> /\ breaker' \in BreakerStates
  BY DEF WorkerCrash, OutboxInv, TypeOK
<1>2. WorkerInv(w)'
  BY <1>1, GoIdleTypes, IdleInv
<1> QED
  BY <1>1, <1>2, ThinkingInv DEF Publishing, OrderStatuses

LEMMA LookInv ==
  ASSUME OutboxInv, NEW w \in Workers, LookAtOrder(w)
  PROVE  OutboxInv'
<1>1. PICK o \in Orders : o = job[w]
  BY DEF LookAtOrder, OutboxInv, WorkerInv
<1>2. PICK saw \in OrderStatuses : saw = status[o]
  BY DEF OutboxInv, TypeOK
<1>3. /\ pc[w] = "look" /\ marketId[o] /\ venue[o] # "none"
      /\ UNCHANGED <<orderVars, outboxVars, breaker, venue>>
      /\ CarryOn(w, "query", saw, "none")
  BY <1>1, <1>2 DEF LookAtOrder, OutboxInv, WorkerInv
<1>4. pc'[w] = "query" /\ job'[w] = o
  BY <1>1, <1>3, CarryOnTypes DEF Reconciling
<1>5. WorkerInv(w)'
  BY <1>3, <1>4 DEF WorkerInv, Publishing, orderVars
<1> QED
  BY <1>3, <1>5, ThinkingInv DEF Reconciling, OutboxInv, TypeOK

LEMMA QueryInv ==
  ASSUME OutboxInv, NEW w \in Workers, QueryVenue(w)
  PROVE  OutboxInv'
<1>1. PICK o \in Orders : o = job[w]
  BY DEF QueryVenue, OutboxInv, WorkerInv
<1>2. PICK saw \in OrderStatuses : saw = seen[w]
  BY DEF OutboxInv, TypeOK
<1>3. /\ pc[w] = "query" /\ marketId[o] /\ venue[o] # "none" /\ venue[o] \in VenueStatuses
      /\ UNCHANGED <<orderVars, outboxVars, breaker, venue>>
  BY <1>1 DEF QueryVenue, OutboxInv, WorkerInv, OrderInv, TypeOK
<1>4. CASE \E s \in VenueSays(o) \cup {"rejected"} : CarryOn(w, "compare", saw, s)
  <2>1. PICK s \in VenueSays(o) \cup {"rejected"} : CarryOn(w, "compare", saw, s)
    BY <1>4
  <2>2. /\ s \in VenueStatuses \cup {"accepted", "rejected"}
        /\ Reached(o, s)
    BY <1>3, OrderOutboxAssumption DEF VenueSays, Reached
  <2>3. s \in OrderStatuses \cup {"none", "accepted", "matched", "mismatch", "unknown"}
    BY <2>2, OrderOutboxAssumption DEF VenueLive, VenueEnds, OrderStatuses, Ended
  <2>4. pc'[w] = "compare" /\ job'[w] = o /\ answer'[w] = s
    BY <1>1, <2>1, <2>3, CarryOnTypes DEF Reconciling
  <2>5. WorkerInv(w)'
    BY <1>3, <2>2, <2>4 DEF WorkerInv, Publishing, Reached, orderVars
  <2> QED
    BY <1>3, <2>1, <2>3, <2>5, ThinkingInv DEF Reconciling, OutboxInv, TypeOK
<1>5. CASE CarryOn(w, "mark", "absent", "unknown")
  <2>1. pc'[w] = "mark" /\ job'[w] = o /\ answer'[w] = "unknown"
    BY <1>1, <1>5, CarryOnTypes DEF Reconciling, OrderStatuses
  <2>2. WorkerInv(w)'
    BY <2>1 DEF WorkerInv, Publishing
  <2> QED
    BY <1>3, <1>5, <2>2, ThinkingInv DEF Reconciling, OrderStatuses, OutboxInv, TypeOK
<1> QED
  BY <1>1, <1>2, <1>4, <1>5 DEF QueryVenue

LEMMA CompareInv ==
  ASSUME OutboxInv, NEW w \in Workers, Compare(w)
  PROVE  OutboxInv'
<1>1. PICK o \in Orders : o = job[w]
  BY DEF Compare, OutboxInv, WorkerInv
<1>2. PICK n \in VenueStatuses \cup {"accepted", "rejected"} : n = answer[w]
  BY DEF Compare, OutboxInv, WorkerInv
<1>3. PICK verdict \in {"matched", "mismatch", "unknown"} :
        CarryOn(w, "mark", "absent", verdict)
  BY DEF Compare
<1>4. /\ pc[w] = "compare" /\ marketId[o] /\ venue[o] # "none" /\ Reached(o, n)
      /\ status[o] \notin Unsubmitted
      /\ UNCHANGED <<marketId, unnamed, filled, trades, schedules, recon, outboxVars, breaker, venue>>
  BY <1>1, <1>2 DEF Compare, OutboxInv, WorkerInv, OrderInv
<1>5. pc'[w] = "mark" /\ job'[w] = o /\ answer'[w] = verdict
  BY <1>1, <1>3, CarryOnTypes DEF Reconciling, OrderStatuses
<1>6. WorkerInv(w)'
  BY <1>5 DEF WorkerInv, Publishing
<1>7. CASE UNCHANGED status
  BY <1>3, <1>4, <1>6, <1>7, ThinkingInv
     DEF orderVars, Reconciling, OrderStatuses, OutboxInv, TypeOK
<1>8. CASE ~UNCHANGED status
  <2>1. MayMove(o, n) /\ Moved(o, n)
    BY <1>1, <1>2, <1>8 DEF Compare
  <2>2. Learned(o) /\ Answered(o)'
    BY <1>4 DEF OutboxInv, TypeOK, Learned, Answered
  <2>3. Grounds(o, n)
    BY <1>4, <2>2 DEF Grounds
  <2>4. status[o] # "absent"
    BY <1>4 DEF Unsubmitted
  <2> QED
    BY <1>3, <1>4, <1>6, <2>1, <2>2, <2>3, <2>4, MovingInv DEF Reconciling, OrderStatuses
<1> QED
  BY <1>7, <1>8

LEMMA MarkInv ==
  ASSUME OutboxInv, NEW w \in Workers, MarkOrderReconciled(w)
  PROVE  OutboxInv'
<1>1. PICK o \in Orders : o = job[w]
  BY DEF MarkOrderReconciled, OutboxInv, WorkerInv
<1>2. PICK saw \in OrderStatuses : saw = seen[w]
  BY DEF OutboxInv, TypeOK
<1>3. /\ pc[w] = "mark"
      /\ recon' \in [Orders -> {"pending", "matched", "mismatch", "unknown"}]
      /\ UNCHANGED <<status, marketId, unnamed, filled, trades, schedules, outboxVars, breaker, venue>>
  BY <1>1 DEF MarkOrderReconciled, OutboxInv, WorkerInv, TypeOK
<1>4. CarryOn(w, "flag", saw, "none") \/ GoIdle(w)
  BY <1>2 DEF MarkOrderReconciled
<1>5. /\ pc' \in [Workers -> Publishing \cup Reconciling \cup {"idle"}]
      /\ job' \in [Workers -> Orders \cup {NoOrder}]
      /\ seen' \in [Workers -> OrderStatuses]
      /\ answer' \in [Workers -> OrderStatuses \cup {"none", "accepted", "matched", "mismatch", "unknown"}]
      /\ \A v \in Workers \ {w} : Untouched(v)
      /\ pc'[w] = "idle" \/ (pc'[w] = "flag" /\ job'[w] = o)
  <2>1. CASE CarryOn(w, "flag", saw, "none")
    BY <1>1, <2>1, CarryOnTypes DEF Reconciling
  <2>2. CASE GoIdle(w)
    BY <2>2, GoIdleTypes
  <2> QED
    BY <1>4, <2>1, <2>2
<1> USE DEF OutboxInv, outboxVars
<1>6. OnlyForward
  BY <1>3 DEF OnlyForward
<1>7. WorkerInv(w)'
  BY <1>5 DEF WorkerInv, Publishing
<1>8. \A v \in Workers : WorkerInv(v)'
  BY <1>5, <1>6, <1>7, OthersInv
<1>9. TypeOK'
  BY <1>3, <1>5 DEF TypeOK
<1>10. \A p \in Orders : OrderInv(p)'
  BY <1>3 DEF OrderInv, Answered
<1>11. PublishedIsSubmitted' /\ FailedHasCause' /\ NeverAheadOfVenue' /\ FullyTradedIsFilled'
  BY <1>3 DEF PublishedIsSubmitted, FailedHasCause, NeverAheadOfVenue, FullyTradedIsFilled
<1> QED
  BY <1>8, <1>9, <1>10, <1>11

LEMMA WorkerStepInv ==
  ASSUME OutboxInv, NEW w \in Workers, WorkerStep(w)
  PROVE  OutboxInv'
  BY ReadInv, BeginInv, SubmitInv, RecordInv, FinishPublishedInv, FinishFailedInv, FailInv,
     OpenBreakerInv, LookInv, QueryInv, CompareInv, MarkInv
     DEF WorkerStep

LEMMA StutterInv ==
  ASSUME OutboxInv, UNCHANGED vars
  PROVE  OutboxInv'
<1> USE DEF OutboxInv, vars, orderVars, outboxVars, workerVars
<1>1. TypeOK'
  BY DEF TypeOK
<1>2. \A o \in Orders : OrderInv(o)'
  BY DEF OrderInv, Answered
<1>3. \A w \in Workers : WorkerInv(w)'
  BY DEF WorkerInv, Reached
<1>4. PublishedIsSubmitted' /\ FailedHasCause' /\ NeverAheadOfVenue' /\ FullyTradedIsFilled'
  BY DEF PublishedIsSubmitted, FailedHasCause, NeverAheadOfVenue, FullyTradedIsFilled
<1> QED
  BY <1>1, <1>2, <1>3, <1>4

LEMMA NextInv == OutboxInv /\ [Next]_vars => OutboxInv'
<1> SUFFICES ASSUME OutboxInv, [Next]_vars PROVE OutboxInv'
  OBVIOUS
<1>1. ASSUME NEW o \in Orders, NEW s \in {"ready", "risk_rejected"}, CreateMarketOrder(o, s)
      PROVE  OutboxInv'
  BY <1>1, CreateInv
<1>2. ASSUME NEW o \in Orders, LeaseLapses(o) PROVE OutboxInv'
  BY <1>2, LapseInv
<1>3. ASSUME NEW o \in Orders, NEW x \in TradeIds, NEW q \in 1..Quantity, RecordTradeFill(o, x, q)
      PROVE  OutboxInv'
  BY <1>3, FillInv
<1>4. ASSUME NEW s \in OperatorSets, SetCircuitBreaker(s) PROVE OutboxInv'
  BY <1>4, BreakerInv
<1>5. ASSUME NEW o \in Orders, NEW s \in VenueStatuses, VenueMoves(o, s) PROVE OutboxInv'
  BY <1>5, VenueInv
<1>6. ASSUME NEW w \in Workers, NEW o \in Orders, ClaimOutboxMessage(w, o) PROVE OutboxInv'
  BY <1>6, ClaimInv
<1>7. ASSUME NEW w \in Workers, NEW o \in Orders, ListForReconciliation(w, o) PROVE OutboxInv'
  BY <1>7, ListInv
<1>8. ASSUME NEW w \in Workers, WorkerStep(w) PROVE OutboxInv'
  BY <1>8, WorkerStepInv
<1>9. ASSUME NEW w \in Workers, WorkerCrash(w) PROVE OutboxInv'
  BY <1>9, CrashInv
<1>10. CASE UNCHANGED vars
  BY <1>10, StutterInv
<1> QED
  BY <1>1, <1>2, <1>3, <1>4, <1>5, <1>6, <1>7, <1>8, <1>9, <1>10 DEF Next, DeskStep

LEMMA SpecInv == Spec => []OutboxInv
<1>1. Init => OutboxInv
  BY InitInv
<1>2. OutboxInv /\ [Next]_vars => OutboxInv'
  BY NextInv
<1> QED
  BY <1>1, <1>2, PTL DEF Spec

-----------------------------------------------------------------------------
(* The theorems.                                                           *)

\* Every reachable state is well typed: a message is attempted at most
\* max_attempts times and an order never filled beyond its quantity.
THEOREM TypeCorrect == Spec => []TypeOK
<1>1. OutboxInv => TypeOK
  BY DEF OutboxInv
<1> QED
  BY <1>1, SpecInv, PTL

\* finish_outbox_message closes a message as published only after its order
\* left the desk.
THEOREM PublishedIsSubmittedHolds == Spec => []PublishedIsSubmitted
<1>1. OutboxInv => PublishedIsSubmitted
  BY DEF OutboxInv
<1> QED
  BY <1>1, SpecInv, PTL

\* An order at the venue that the platform has no id of is still being
\* submitted, was given up or refused on a retry, or its answer named no id.
THEOREM UnknownAtVenueIsUnfinishedHolds == Spec => []UnknownAtVenueIsUnfinished
<1>1. OutboxInv => UnknownAtVenueIsUnfinished
  <2> SUFFICES ASSUME OutboxInv, NEW o \in Orders, venue[o] # "none", ~Answered(o),
                      status[o] # "rejected", outbox[o] # "dead_letter"
               PROVE  Due(o) \/ lease[o] = "held" \/ Stranded(o)
    BY DEF UnknownAtVenueIsUnfinished, Answered
  <2>1. outbox[o] \notin {"absent", "pending"} /\ status[o] \notin Acknowledged \cup {"failed"}
    BY DEF OutboxInv, OrderInv
  <2>2. status[o] \in Unsubmitted \cup {"risk_rejected"}
    BY <2>1 DEF OutboxInv, TypeOK, OrderStatuses, Ended, Acknowledged, Unsubmitted
  <2>3. outbox[o] \in {"publishing", "failed"}
    BY <2>1, <2>2 DEF OutboxInv, PublishedIsSubmitted, OrderInv, TypeOK
  <2>4. CASE outbox[o] = "failed"
    BY <2>4 DEF Due, OutboxInv, OrderInv
  <2>5. CASE outbox[o] = "publishing"
    <3>1. lease[o] \in {"held", "lapsed"}
      BY <2>5 DEF OutboxInv, OrderInv, TypeOK
    <3>2. attempts[o] < MaxAttempts \/ attempts[o] = MaxAttempts
      BY OrderOutboxAssumption DEF OutboxInv, TypeOK
    <3> QED
      BY <2>5, <3>1, <3>2 DEF Due, Stranded
  <2> QED
    BY <2>3, <2>4, <2>5
<1> QED
  BY <1>1, SpecInv, PTL

\* No stale snapshot or late transition puts the platform ahead of the venue.
THEOREM NeverAheadOfVenueHolds == Spec => []NeverAheadOfVenue
<1>1. OutboxInv => NeverAheadOfVenue
  BY DEF OutboxInv
<1> QED
  BY <1>1, SpecInv, PTL

\* Only a dead letter or the venue fails an order.
THEOREM FailedHasCauseHolds == Spec => []FailedHasCause
<1>1. OutboxInv => FailedHasCause
  BY DEF OutboxInv
<1> QED
  BY <1>1, SpecInv, PTL

\* Order and message agree on what became of the submission.
THEOREM MessageAgreesWithOrderHolds == Spec => []MessageAgreesWithOrder
<1>1. OutboxInv => MessageAgreesWithOrder
  BY DEF OutboxInv, MessageAgreesWithOrder
<1> QED
  BY <1>1, SpecInv, PTL

\* An order traded in full stays filled.
THEOREM FullyTradedIsFilledHolds == Spec => []FullyTradedIsFilled
<1>1. OutboxInv => FullyTradedIsFilled
  BY DEF OutboxInv
<1> QED
  BY <1>1, SpecInv, PTL

\* A message changes hands only between open states: a claim needs an open
\* one, and to finish it is to own it.
LEMMA StepEndsMessages ==
  ASSUME OutboxInv, [Next]_vars, NEW m \in Orders, outbox[m] \in {"published", "dead_letter"}
  PROVE  outbox'[m] = outbox[m]
<1>1. /\ outbox \in [Orders -> {"absent", "pending", "publishing", "failed", "published", "dead_letter"}]
      /\ lockedBy[m] = NoInstance
      /\ status[m] # "absent"
  BY DEF OutboxInv, TypeOK, OrderInv
<1>2. ASSUME NEW o \in Orders, NEW s \in {"ready", "risk_rejected"}, CreateMarketOrder(o, s)
      PROVE  outbox'[m] = outbox[m]
  <2>1. o # m
    BY <1>1, <1>2 DEF CreateMarketOrder
  <2> QED
    BY <1>1, <1>2, <2>1 DEF CreateMarketOrder
<1>3. ASSUME NEW w \in Workers, NEW o \in Orders, ClaimOutboxMessage(w, o)
      PROVE  outbox'[m] = outbox[m]
  <2>1. o # m
    BY <1>3 DEF ClaimOutboxMessage, Due
  <2> QED
    BY <1>1, <1>3, <2>1 DEF ClaimOutboxMessage
<1>4. ASSUME NEW w \in Workers, FinishPublished(w) \/ FinishFailed(w)
      PROVE  outbox'[m] = outbox[m]
  <2>1. CASE OwnsMessage(w)
    <3>1. job[w] # m
      BY <1>1, <2>1, OrderOutboxAssumption DEF OwnsMessage
    <3>2. PICK s : Finish(job[w], s)
      BY <1>4, <2>1 DEF FinishPublished, FinishFailed
    <3> QED
      BY <1>1, <3>1, <3>2 DEF Finish
  <2>2. CASE ~OwnsMessage(w)
    BY <1>4, <2>2 DEF FinishPublished, FinishFailed, outboxVars
  <2> QED
    BY <2>1, <2>2
<1>5. ASSUME NEW w \in Workers, WorkerStep(w), ~FinishPublished(w), ~FinishFailed(w)
      PROVE  outbox' = outbox
  BY <1>5 DEF WorkerStep, ReadOrder, BeginSubmission, SubmitAccepted, SubmitRefused, SubmitRaises,
              RecordAnswer, FailOrder, OpenBreaker, LookAtOrder, QueryVenue, Compare, MarkOrderReconciled, outboxVars
<1>6. CASE \/ \E o \in Orders : LeaseLapses(o)
           \/ \E s \in OperatorSets : SetCircuitBreaker(s)
           \/ \E o \in Orders, s \in VenueStatuses : VenueMoves(o, s)
           \/ \E w \in Workers, o \in Orders : ListForReconciliation(w, o)
           \/ \E w \in Workers : WorkerCrash(w)
           \/ \E o \in Orders, x \in TradeIds, q \in 1..Quantity : RecordTradeFill(o, x, q)
           \/ UNCHANGED vars
  BY <1>6 DEF LeaseLapses, SetCircuitBreaker, VenueMoves, ListForReconciliation, WorkerCrash,
              RecordTradeFill, Fill, vars, outboxVars
<1> QED
  BY <1>2, <1>3, <1>4, <1>5, <1>6 DEF Next, DeskStep

\* Neither a lease that was taken over nor a shared instance id reopens a
\* message that is published or dead, or turns the one into the other.
THEOREM MessagesEndOnceHolds == Spec => MessagesEndOnce
<1>1. OutboxInv /\ [Next]_vars =>
        [\A o \in Orders : outbox[o] \in {"published", "dead_letter"} => outbox'[o] = outbox[o]]_vars
  BY StepEndsMessages
<1> QED
  BY <1>1, SpecInv, PTL DEF Spec, MessagesEndOnce

-----------------------------------------------------------------------------
(* The refinement: every step is a legal move of one order, a counted      *)
(* trade, or nothing a reader of the order can see.                        *)

LEMMA InitRefines == Init => OL!LifecycleInit
  BY DEF Init, OL!LifecycleInit

LEMMA LegalMove ==
  ASSUME OutboxInv, NEW o \in Orders, NEW n, MayMove(o, n), Moved(o, n),
         UNCHANGED <<filled, trades, schedules>>
  PROVE  OL!LifecycleNext
<1>1. n \in OrderTransitions[status[o]]
  BY DEF MayMove
<1>2. OL!Move(o, n)
  BY <1>1 DEF Moved, OL!Move
<1> QED
  BY <1>1, <1>2 DEF OL!LifecycleNext

LEMMA TradeRefines ==
  ASSUME OutboxInv, NEW o \in Orders, NEW x \in TradeIds, NEW q \in 1..Quantity,
         RecordTradeFill(o, x, q)
  PROVE  OL!LifecycleNext
<1>1. /\ status[o] \in {"submitted", "partially_filled"}
      /\ \A p \in Orders : x \notin trades[p]
      /\ trades' = [trades EXCEPT ![o] = @ \cup {x}]
      /\ filled' = [filled EXCEPT ![o] = @ + Fitting(o, q)]
      /\ schedules' = [schedules EXCEPT ![o] = @ \cup {x}]
      /\ status' = [status EXCEPT ![o] = FillStatus(filled[o] + Fitting(o, q))]
  BY DEF RecordTradeFill, Fill, Moved
<1>2. PICK k \in 1..Quantity : k = Fitting(o, q)
  BY <1>1, FittingFacts
<1>3. filled[o] + k \in 1..Quantity
  BY <1>1, <1>2, FittingFacts
<1>4. PICK s \in {"filled", "partially_filled"} : s = FillStatus(filled[o] + k)
  BY DEF FillStatus
<1>5. s = IF filled[o] + k = Quantity THEN "filled" ELSE "partially_filled"
  BY <1>3, <1>4, OrderOutboxAssumption DEF FillStatus
<1>6. filled[o] + k <= Quantity
  BY <1>3, OrderOutboxAssumption
<1>7. OL!Trade(o, x, k, s)
  BY <1>1, <1>2, <1>4, <1>5, <1>6 DEF OL!Trade
<1> QED
  BY <1>7 DEF OL!LifecycleNext

LEMMA WorkerStepRefines ==
  ASSUME OutboxInv, NEW w \in Workers, WorkerStep(w)
  PROVE  OL!LifecycleNext \/ UNCHANGED <<status, filled, trades, schedules>>
<1>1. PICK o : o = job[w]
  OBVIOUS
<1>2. pc[w] # "idle" => o \in Orders
  BY <1>1 DEF OutboxInv, WorkerInv
<1>3. CASE BeginSubmission(w)
  BY <1>1, <1>2, <1>3, LegalMove DEF BeginSubmission
<1>4. CASE RecordAnswer(w)
  <2>1. PICK n : n = answer[w]
    OBVIOUS
  <2> QED
    BY <1>1, <1>2, <1>4, <2>1, LegalMove DEF RecordAnswer
<1>5. CASE FailOrder(w)
  BY <1>1, <1>2, <1>5, LegalMove DEF FailOrder
<1>6. CASE Compare(w)
  <2>1. PICK n : n = answer[w]
    OBVIOUS
  <2> QED
    BY <1>1, <1>2, <1>6, <2>1, LegalMove DEF Compare
<1>7. CASE \/ ReadOrder(w) \/ SubmitAccepted(w) \/ SubmitRefused(w) \/ SubmitRaises(w)
           \/ FinishPublished(w) \/ FinishFailed(w) \/ OpenBreaker(w) \/ LookAtOrder(w)
           \/ QueryVenue(w) \/ MarkOrderReconciled(w)
  BY <1>7 DEF ReadOrder, SubmitAccepted, SubmitRefused, SubmitRaises, FinishPublished,
              FinishFailed, OpenBreaker, LookAtOrder, QueryVenue, MarkOrderReconciled, orderVars
<1> QED
  BY <1>3, <1>4, <1>5, <1>6, <1>7 DEF WorkerStep

LEMMA NextRefines ==
  ASSUME OutboxInv, [Next]_vars
  PROVE  [OL!LifecycleNext]_<<status, filled, trades, schedules>>
<1>1. ASSUME NEW o \in Orders, NEW s \in {"ready", "risk_rejected"}, CreateMarketOrder(o, s)
      PROVE  OL!LifecycleNext
  <2>1. MayMove(o, s) /\ Moved(o, s) /\ UNCHANGED <<filled, trades, schedules>>
    BY <1>1 DEF CreateMarketOrder, MayMove, Moved
  <2> QED
    BY <2>1, LegalMove
<1>2. ASSUME NEW o \in Orders, NEW x \in TradeIds, NEW q \in 1..Quantity, RecordTradeFill(o, x, q)
      PROVE  OL!LifecycleNext
  BY <1>2, TradeRefines
<1>3. ASSUME NEW w \in Workers, WorkerStep(w)
      PROVE  OL!LifecycleNext \/ UNCHANGED <<status, filled, trades, schedules>>
  BY <1>3, WorkerStepRefines
<1>4. CASE \/ \E o \in Orders : LeaseLapses(o)
           \/ \E s \in OperatorSets : SetCircuitBreaker(s)
           \/ \E o \in Orders, s \in VenueStatuses : VenueMoves(o, s)
           \/ \E w \in Workers, o \in Orders : ClaimOutboxMessage(w, o)
           \/ \E w \in Workers, o \in Orders : ListForReconciliation(w, o)
           \/ \E w \in Workers : WorkerCrash(w)
           \/ UNCHANGED vars
  BY <1>4 DEF LeaseLapses, SetCircuitBreaker, VenueMoves, ClaimOutboxMessage,
              ListForReconciliation, WorkerCrash, vars, orderVars
<1> QED
  BY <1>1, <1>2, <1>3, <1>4 DEF Next, DeskStep

\* Orders only make legal moves, keep their ends, and count and schedule each
\* trade once within the quantity: OrderOutbox implements OrderLifecycle.
THEOREM OrdersKeepPromise == Spec => KeepsOrderPromise
<1>1. Init => OL!LifecycleInit
  BY InitRefines
<1>2. OutboxInv /\ [Next]_vars => [OL!LifecycleNext]_<<status, filled, trades, schedules>>
  BY NextRefines
<1> QED
  BY <1>1, <1>2, SpecInv, PTL DEF Spec, KeepsOrderPromise, OL!LifecycleSpec, OL!orderVars
=============================================================================
