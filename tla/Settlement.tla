----------------------------- MODULE Settlement -----------------------------
(***************************************************************************)
(* Settlement batches (chargeopt/vpp_repository.py, lines 663-1130, behind *)
(* /vpp/trading/settlement-batches): calculation from trades and meter     *)
(* evidence, approval, disputes, export, payment and reversal.             *)
(*                                                                         *)
(* Every operation on a batch takes the row lock first, so it is one       *)
(* action. The calculation is not: it reads the trades, then the meters of *)
(* each trade, in statements of their own, and under READ COMMITTED trades *)
(* and corrected meter values commit in between.                           *)
(*                                                                         *)
(* UNIQUE (tenant, market, period) makes the period the name of a batch.   *)
(***************************************************************************)
EXTENDS Naturals, Sequences

CONSTANTS
    Periods,     \* the (market_code, period_start, period_end) of batches
    Trades,      \* market_trades.id
    TradesIn,    \* which trades are delivered within a period
    Intervals,   \* (station, interval_start, source) of meter intervals
    MeteredBy,   \* which intervals witness the delivery of a trade
    Actors,      \* principals who may settle
    Exports,     \* the formats and destinations of exports
    Requests,    \* requests that calculate a batch
    NoPeriod,    \* a request that is not running
    NoActor,     \* created_by or approved_by IS NULL
    MaxReadings, \* bound on the corrections of a meter interval
    MaxEvents    \* bound on the length of an event chain

SettlementStatuses ==
    {"absent", "review", "approved", "exported", "paid", "disputed", "failed", "reversed"}

\* SETTLEMENT_TRANSITIONS
SettlementTransitions == [s \in SettlementStatuses |->
    CASE s = "review" -> {"approved", "disputed", "failed"}
      [] s = "approved" -> {"exported", "disputed"}
      [] s = "exported" -> {"paid", "disputed"}
      [] s = "disputed" -> {"review", "failed"}
      [] s = "paid" -> {"reversed"}
      [] OTHER -> {}]

ASSUME SettlementAssumption ==
    /\ TradesIn \in [Periods -> SUBSET Trades]
    /\ MeteredBy \in [Trades -> SUBSET Intervals]
    /\ NoPeriod \notin Periods
    /\ NoActor \notin Actors
    /\ MaxReadings \in Nat
    /\ MaxEvents \in Nat

VARIABLES
    trades,       \* market_trades
    reading,      \* which version of its value a meter interval has, 0 for none
    period,       \* the period a request calculates
    maker,        \* who sent the request
    todo,         \* its trades whose meters are still to be read
    found,        \* the lines it has calculated
    status,       \* vpp_settlement_batches.status, "absent" without a row
    createdBy,    \* created_by
    approvedBy,   \* approved_by
    lines,        \* vpp_settlement_lines of the batch
    openDispute,  \* a row of vpp_settlement_disputes is open
    exported,     \* vpp_settlement_exports of the batch
    adjustments,  \* how many reversals vpp_settlement_adjustments holds
    events        \* vpp_settlement_events of the batch, in sequence

requestVars == <<period, maker, todo, found>>
batchVars == <<status, createdBy, approvedBy, lines, openDispute, exported, adjustments, events>>
vars == <<trades, reading, requestVars, batchVars>>

Line == [trade : Trades, evidence : [Intervals -> 0..MaxReadings]]
Event == [from : SettlementStatuses, to : SettlementStatuses, actor : Actors]

TypeOK ==
    /\ trades \subseteq Trades
    /\ reading \in [Intervals -> 0..MaxReadings]
    /\ period \in [Requests -> Periods \cup {NoPeriod}]
    /\ maker \in [Requests -> Actors \cup {NoActor}]
    /\ todo \in [Requests -> SUBSET Trades]
    /\ found \in [Requests -> SUBSET Line]
    /\ status \in [Periods -> SettlementStatuses]
    /\ createdBy \in [Periods -> Actors \cup {NoActor}]
    /\ approvedBy \in [Periods -> Actors \cup {NoActor}]
    /\ lines \in [Periods -> SUBSET Line]
    /\ openDispute \in [Periods -> BOOLEAN]
    /\ exported \in [Periods -> SUBSET Exports]
    /\ adjustments \in [Periods -> 0..1]
    /\ events \in [Periods -> Seq(Event)]

Init ==
    /\ trades = {}
    /\ reading = [i \in Intervals |-> 0]
    /\ period = [r \in Requests |-> NoPeriod]
    /\ maker = [r \in Requests |-> NoActor]
    /\ todo = [r \in Requests |-> {}]
    /\ found = [r \in Requests |-> {}]
    /\ status = [p \in Periods |-> "absent"]
    /\ createdBy = [p \in Periods |-> NoActor]
    /\ approvedBy = [p \in Periods |-> NoActor]
    /\ lines = [p \in Periods |-> {}]
    /\ openDispute = [p \in Periods |-> FALSE]
    /\ exported = [p \in Periods |-> {}]
    /\ adjustments = [p \in Periods |-> 0]
    /\ events = [p \in Periods |-> <<>>]

-----------------------------------------------------------------------------
(* What a batch is calculated from.                                        *)

\* record_trade_fill, as far as settlement sees it.
RecordTrade(t) ==
    /\ t \notin trades
    /\ trades' = trades \cup {t}
    /\ UNCHANGED <<reading, requestVars, batchVars>>

\* ingest_meter_interval: a first value, or a corrected one in its place.
IngestMeterInterval(i) ==
    /\ reading[i] < MaxReadings
    /\ reading' = [reading EXCEPT ![i] = @ + 1]
    /\ UNCHANGED <<trades, requestVars, batchVars>>

-----------------------------------------------------------------------------
(* create_settlement_batch.                                                *)

EndRequest(r) ==
    /\ period' = [period EXCEPT ![r] = NoPeriod]
    /\ maker' = [maker EXCEPT ![r] = NoActor]
    /\ todo' = [todo EXCEPT ![r] = {}]
    /\ found' = [found EXCEPT ![r] = {}]

\* The trades of the period; there must be one.
SelectTrades(r, a, p) ==
    /\ period[r] = NoPeriod
    /\ TradesIn[p] \cap trades # {}
    /\ period' = [period EXCEPT ![r] = p]
    /\ maker' = [maker EXCEPT ![r] = a]
    /\ todo' = [todo EXCEPT ![r] = TradesIn[p] \cap trades]
    /\ UNCHANGED <<found, trades, reading, batchVars>>

Evidence(t) == [i \in Intervals |-> IF i \in MeteredBy[t] THEN reading[i] ELSE 0]

\* calculate_trade_settlement on the meter values of one trade, kept here as
\* the versions of the values it used.
CalculateLine(r, t) ==
    /\ t \in todo[r]
    /\ todo' = [todo EXCEPT ![r] = @ \ {t}]
    /\ found' = [found EXCEPT ![r] = @ \cup {[trade |-> t, evidence |-> Evidence(t)]}]
    /\ UNCHANGED <<period, maker, trades, reading, batchVars>>

\* _append_settlement_event: numbered and hash-linked after the last one.
AppendSettlementEvent(p, from, to, a) ==
    /\ Len(events[p]) < MaxEvents
    /\ events' = [events EXCEPT ![p] = Append(@, [from |-> from, to |-> to, actor |-> a])]

\* Faulty variants of an operation, named after it with the fault, stand
\* before it: each breaks a property of this module, which shows that the
\* property guards against that fault.
InsertBatchOverExisting(r) ==
    LET p == period[r] IN
    /\ p # NoPeriod
    /\ todo[r] = {}
    /\ status' = [status EXCEPT ![p] = IF @ = "absent" THEN "review" ELSE @]
    /\ createdBy' = [createdBy EXCEPT ![p] = maker[r]]
    /\ lines' = [lines EXCEPT ![p] = found[r]]
    /\ AppendSettlementEvent(p, "absent", "review", maker[r])
    /\ EndRequest(r)
    /\ UNCHANGED <<trades, reading, approvedBy, openDispute, exported, adjustments>>

\* ON CONFLICT DO NOTHING decides who made the batch of a period.
InsertBatch(r) ==
    LET p == period[r] IN
    /\ p # NoPeriod
    /\ todo[r] = {}
    /\ status[p] = "absent"
    /\ status' = [status EXCEPT ![p] = "review"]
    /\ createdBy' = [createdBy EXCEPT ![p] = maker[r]]
    /\ lines' = [lines EXCEPT ![p] = found[r]]
    /\ AppendSettlementEvent(p, "absent", "review", maker[r])
    /\ EndRequest(r)
    /\ UNCHANGED <<trades, reading, approvedBy, openDispute, exported, adjustments>>

\* The batch exists already, or the request dies: the transaction rolls back.
AbandonRequest(r) ==
    /\ period[r] # NoPeriod
    /\ EndRequest(r)
    /\ UNCHANGED <<trades, reading, batchVars>>

-----------------------------------------------------------------------------
(* The workflow of a batch.                                                *)

\* _assert_settlement_transition, and the UPDATE it allows.
MayBecome(p, s) == s \in SettlementTransitions[status[p]]

Become(p, s) == MayBecome(p, s) /\ status' = [status EXCEPT ![p] = s]

ApproveSettlementBatch(p, a) ==
    /\ Become(p, "approved")
    /\ createdBy[p] # a
    /\ approvedBy' = [approvedBy EXCEPT ![p] = a]
    /\ AppendSettlementEvent(p, status[p], "approved", a)
    /\ UNCHANGED <<trades, reading, requestVars, createdBy, lines, openDispute, exported, adjustments>>

\* A unique index lets a batch have one open dispute.
DisputeSettlementBatch(p, a) ==
    /\ Become(p, "disputed")
    /\ ~openDispute[p]
    /\ openDispute' = [openDispute EXCEPT ![p] = TRUE]
    /\ AppendSettlementEvent(p, status[p], "disputed", a)
    /\ UNCHANGED <<trades, reading, requestVars, createdBy, approvedBy, lines, exported, adjustments>>

ResolveWithoutDispute(p, a, accepted) ==
    LET target == IF accepted THEN "review" ELSE "failed" IN
    /\ Become(p, target)
    /\ openDispute' = [openDispute EXCEPT ![p] = FALSE]
    /\ AppendSettlementEvent(p, "disputed", target, a)
    /\ UNCHANGED <<trades, reading, requestVars, createdBy, approvedBy, lines, exported, adjustments>>

\* The event says it comes from "disputed" whatever the row said: a batch in
\* review may become failed too, and only the open dispute tells them apart.
ResolveSettlementDispute(p, a, accepted) ==
    LET target == IF accepted THEN "review" ELSE "failed" IN
    /\ Become(p, target)
    /\ openDispute[p]
    /\ openDispute' = [openDispute EXCEPT ![p] = FALSE]
    /\ AppendSettlementEvent(p, "disputed", target, a)
    /\ UNCHANGED <<trades, reading, requestVars, createdBy, approvedBy, lines, exported, adjustments>>

\* The lines never change, so the same format sent to the same destination
\* again breaks UNIQUE (batch_id, content_hash, destination).
ExportSettlementBatch(p, a, x) ==
    /\ Become(p, "exported")
    /\ x \notin exported[p]
    /\ exported' = [exported EXCEPT ![p] = @ \cup {x}]
    /\ AppendSettlementEvent(p, "approved", "exported", a)
    /\ UNCHANGED <<trades, reading, requestVars, createdBy, approvedBy, lines, openDispute, adjustments>>

PayOnceExported(p, a) ==
    /\ exported[p] # {}
    /\ status[p] # "paid"
    /\ status' = [status EXCEPT ![p] = "paid"]
    /\ AppendSettlementEvent(p, "exported", "paid", a)
    /\ UNCHANGED <<trades, reading, requestVars, createdBy, approvedBy, lines,
                   openDispute, exported, adjustments>>

MarkSettlementPaid(p, a) ==
    /\ Become(p, "paid")
    /\ AppendSettlementEvent(p, "exported", "paid", a)
    /\ UNCHANGED <<trades, reading, requestVars, createdBy, approvedBy, lines,
                   openDispute, exported, adjustments>>

ReverseAgain(p, a) ==
    /\ status[p] \in {"paid", "reversed"}
    /\ status' = [status EXCEPT ![p] = "reversed"]
    /\ adjustments' = [adjustments EXCEPT ![p] = @ + 1]
    /\ AppendSettlementEvent(p, status[p], "reversed", a)
    /\ UNCHANGED <<trades, reading, requestVars, createdBy, approvedBy, lines, openDispute, exported>>

ReverseSettlementBatch(p, a) ==
    /\ Become(p, "reversed")
    /\ adjustments' = [adjustments EXCEPT ![p] = @ + 1]
    /\ AppendSettlementEvent(p, "paid", "reversed", a)
    /\ UNCHANGED <<trades, reading, requestVars, createdBy, approvedBy, lines, openDispute, exported>>

Next ==
    \/ \E t \in Trades : RecordTrade(t)
    \/ \E i \in Intervals : IngestMeterInterval(i)
    \/ \E r \in Requests, a \in Actors, p \in Periods : SelectTrades(r, a, p)
    \/ \E r \in Requests, t \in Trades : CalculateLine(r, t)
    \/ \E r \in Requests : InsertBatch(r)
    \/ \E r \in Requests : AbandonRequest(r)
    \/ \E p \in Periods, a \in Actors : ApproveSettlementBatch(p, a)
    \/ \E p \in Periods, a \in Actors : DisputeSettlementBatch(p, a)
    \/ \E p \in Periods, a \in Actors, y \in BOOLEAN : ResolveSettlementDispute(p, a, y)
    \/ \E p \in Periods, a \in Actors, x \in Exports : ExportSettlementBatch(p, a, x)
    \/ \E p \in Periods, a \in Actors : MarkSettlementPaid(p, a)
    \/ \E p \in Periods, a \in Actors : ReverseSettlementBatch(p, a)

Spec == Init /\ [][Next]_vars

-----------------------------------------------------------------------------
(* Properties.                                                             *)

\* The immutable event chain retells the batch: it starts with the
\* calculation, every event departs from where the one before arrived, and
\* the last one arrived at the batch's status. Four operations write the
\* departure as a constant, and resolve_settlement_dispute's is right only
\* because a dispute is open exactly in status disputed.
ChainIsHistory ==
    \A p \in Periods :
        LET chain == events[p] IN
        /\ chain = <<>> => status[p] = "absent"
        /\ chain # <<>> => /\ chain[1].from = "absent"
                           /\ chain[Len(chain)].to = status[p]
        /\ \A n \in 2..Len(chain) : chain[n].from = chain[n - 1].to

\* Every payment follows an approval by somebody other than the batch's
\* creator with nothing but exports in between: a dispute that sends the batch
\* back to review voids the approval, though approved_by keeps its value.
PaymentWasChecked ==
    \A p \in Periods : \A n \in 1..Len(events[p]) :
        events[p][n].to = "paid" =>
            \E m \in 1..(n - 1) :
                /\ events[p][m].to = "approved"
                /\ events[p][m].actor # createdBy[p]
                /\ \A k \in (m + 1)..(n - 1) : events[p][k].to = "exported"

\* A batch waits in dispute exactly as long as a dispute is open, so that it
\* can always be resolved, and by resolve_settlement_dispute alone.
DisputedHasOpenDispute ==
    \A p \in Periods : openDispute[p] <=> status[p] = "disputed"

SP == INSTANCE SettlementPromise WITH
        Claims <- SUBSET Line, NoClaim <- {},
        claim <- lines,
        endorsed <- [p \in Periods |-> status[p] \in {"approved", "exported", "paid", "reversed"}],
        money <- [p \in Periods |->
                    IF adjustments[p] > 0 THEN "refunded"
                    ELSE IF status[p] = "paid" THEN "paid" ELSE "none"]

\* Batches keep the promise of SettlementPromise: two calculations that race
\* cannot rewrite a claim, and money moves once each way, after endorsement.
KeepsSettlementPromise == SP!PromiseSpec
=============================================================================
