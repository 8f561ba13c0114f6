--------------------------- MODULE AutomationCycle ---------------------------
(***************************************************************************)
(* The unattended trading cycle (chargeopt/vpp_automation.py): a run takes *)
(* the key of its five minutes, reads the limits and the circuit breaker   *)
(* once, plans bids and turns each into a ready or a risk_rejected order.  *)
(*                                                                         *)
(* The operations workers, the cron route and operators all start cycles.  *)
(* The key keeps two of them out of the same five minutes, but a cycle may *)
(* still be at work when the next begins. Orders move on meanwhile as      *)
(* OrderOutbox lets them.                                                  *)
(***************************************************************************)
EXTENDS Naturals, FiniteSets

CONSTANTS
    MaxBlocks,    \* the intervals of a forecast, 96 in the program
    Today,        \* the blocks whose delivery starts on the current date
    CycleKeys,    \* five-minute buckets
    Runners,      \* processes that start cycles for one tenant
    NoKey,        \* a runner without a cycle
    MaxOpen,      \* max_open_orders of the active policy
    MaxEnergy,    \* max_daily_energy_kwh, in blocks
    MaxPerCycle   \* max_orders_per_cycle

\* market_orders.status, as far as the limits tell it apart: "open" stands for
\* submitting, submitted, partially_filled and cancel_pending, "kept" for
\* filled and expired, "freed" for cancelled, rejected and failed.
OrderStages == {"absent", "risk_rejected", "ready", "open", "kept", "freed"}

OrderMoves == [s \in OrderStages |->
    CASE s = "ready" -> {"open", "kept", "freed"}
      [] s = "open" -> {"kept", "freed"}
      [] OTHER -> {}]

\* The blocks a cycle may bid for, in the order of their delivery.
Bids == 1..MaxBlocks

\* An order is keyed by its delivery start, which is the time of its cycle to
\* the microsecond plus a multiple of fifteen minutes: no two cycles share one.
Orders == CycleKeys \X Bids

BreakerStates == {"closed", "half_open", "open"}
CycleEnds == {"completed", "skipped", "failed"}

ASSUME AutomationAssumption ==
    /\ MaxBlocks \in Nat
    /\ Today \subseteq Bids
    /\ IsFiniteSet(CycleKeys) /\ NoKey \notin CycleKeys
    /\ MaxOpen \in Nat
    /\ MaxEnergy \in Nat
    /\ MaxPerCycle \in Nat

VARIABLES
    stage,       \* market_orders.status, coarsely
    run,         \* vpp_automation_runs.status by cycle key, "absent" without a row
    breaker,     \* vpp_circuit_breakers.state
    pc,          \* where a runner is between two statements
    key,         \* the cycle a runner works on
    openRead,    \* open_order_count in its context
    energyRead,  \* committed_energy_kwh in its context, in blocks
    circuit,     \* circuit_breaker.state in its context
    todo,        \* the planned bids it has not come to
    enqueued,    \* the orders it counts as enqueued
    lost,        \* history: the cycles whose runner died
    sawClosed,   \* history: the breaker was closed since the runner's cycle began
    overlapped   \* history: a cycle began while another was at work

contextVars == <<openRead, energyRead, circuit>>
runnerVars == <<pc, key, contextVars, todo, enqueued>>
historyVars == <<lost, sawClosed, overlapped>>
vars == <<stage, run, breaker, runnerVars, historyVars>>

\* Types, and the bound of a cycle: max_orders_per_cycle.
TypeOK ==
    /\ stage \in [Orders -> OrderStages]
    /\ run \in [CycleKeys -> CycleEnds \cup {"absent", "running"}]
    /\ breaker \in BreakerStates
    /\ pc \in [Runners -> {"idle", "metrics", "breaker", "plan", "bidding"}]
    /\ key \in [Runners -> CycleKeys \cup {NoKey}]
    /\ openRead \in [Runners -> Nat]
    /\ energyRead \in [Runners -> Nat]
    /\ circuit \in [Runners -> BreakerStates]
    /\ todo \in [Runners -> SUBSET Bids]
    /\ enqueued \in [Runners -> Nat]
    /\ \A r \in Runners : Cardinality(todo[r]) + enqueued[r] <= MaxPerCycle
    /\ lost \subseteq CycleKeys
    /\ sawClosed \in [Runners -> BOOLEAN]
    /\ overlapped \in BOOLEAN

Init ==
    /\ stage = [o \in Orders |-> "absent"]
    /\ run = [k \in CycleKeys |-> "absent"]
    /\ breaker = "closed"
    /\ pc = [r \in Runners |-> "idle"]
    /\ key = [r \in Runners |-> NoKey]
    /\ openRead = [r \in Runners |-> 0]
    /\ energyRead = [r \in Runners |-> 0]
    /\ circuit = [r \in Runners |-> "closed"]
    /\ todo = [r \in Runners |-> {}]
    /\ enqueued = [r \in Runners |-> 0]
    /\ lost = {}
    /\ sawClosed = [r \in Runners |-> FALSE]
    /\ overlapped = FALSE

-----------------------------------------------------------------------------
(* What happens around the cycles.                                         *)

\* The desk, the venue and reconciliation move an order (OrderOutbox).
DeskMoves(o, s) ==
    /\ s \in OrderMoves[stage[o]]
    /\ stage' = [stage EXCEPT ![o] = s]
    /\ UNCHANGED <<run, breaker, runnerVars, historyVars>>

\* Operators, receipts, dead letters and mismatches set the breaker.
SetCircuitBreaker(s) ==
    /\ breaker' = s
    /\ sawClosed' = [r \in Runners |-> sawClosed[r] \/ s = "closed"]
    /\ UNCHANGED <<stage, run, runnerVars, lost, overlapped>>

-----------------------------------------------------------------------------
(* run_automation_cycle, statement by statement.                           *)

OpenOrders == {o \in Orders : stage[o] \in {"ready", "open"}}
CommittedToday == {o \in CycleKeys \X Today : stage[o] \in {"ready", "open", "kept"}}

\* Faulty variants of an operation, named after it with the fault, stand
\* before it: each breaks a property of this module, which shows that the
\* property guards against that fault.
ClaimFailedCycleAgain(r, k) ==
    /\ pc[r] = "idle"
    /\ run[k] \in {"absent", "failed"}
    /\ run' = [run EXCEPT ![k] = "running"]
    /\ pc' = [pc EXCEPT ![r] = "metrics"]
    /\ key' = [key EXCEPT ![r] = k]
    /\ sawClosed' = [sawClosed EXCEPT ![r] = breaker = "closed"]
    /\ overlapped' = (overlapped \/ \E q \in Runners : pc[q] # "idle")
    /\ UNCHANGED <<stage, breaker, contextVars, todo, enqueued, lost>>

\* claim_automation_cycle: ON CONFLICT DO NOTHING, so a second run of a cycle
\* ends as a duplicate before it has done anything.
ClaimAutomationCycle(r, k) ==
    /\ pc[r] = "idle"
    /\ run[k] = "absent"
    /\ run' = [run EXCEPT ![k] = "running"]
    /\ pc' = [pc EXCEPT ![r] = "metrics"]
    /\ key' = [key EXCEPT ![r] = k]
    /\ sawClosed' = [sawClosed EXCEPT ![r] = breaker = "closed"]
    /\ overlapped' = (overlapped \/ \E q \in Runners : pc[q] # "idle")
    /\ UNCHANGED <<stage, breaker, contextVars, todo, enqueued, lost>>

\* get_trading_context counts the orders, and reads the breaker in another
\* statement.
ReadMetrics(r) ==
    /\ pc[r] = "metrics"
    /\ openRead' = [openRead EXCEPT ![r] = Cardinality(OpenOrders)]
    /\ energyRead' = [energyRead EXCEPT ![r] = Cardinality(CommittedToday)]
    /\ pc' = [pc EXCEPT ![r] = "breaker"]
    /\ UNCHANGED <<stage, run, breaker, key, circuit, todo, enqueued, historyVars>>

GoIdle(r) ==
    /\ pc' = [pc EXCEPT ![r] = "idle"]
    /\ key' = [key EXCEPT ![r] = NoKey]
    /\ openRead' = [openRead EXCEPT ![r] = 0]
    /\ energyRead' = [energyRead EXCEPT ![r] = 0]
    /\ circuit' = [circuit EXCEPT ![r] = "closed"]
    /\ todo' = [todo EXCEPT ![r] = {}]
    /\ enqueued' = [enqueued EXCEPT ![r] = 0]

\* finish_automation_cycle, and the return that follows it.
FinishAutomationCycle(r, end) ==
    /\ run' = [run EXCEPT ![key[r]] = end]
    /\ GoIdle(r)
    /\ UNCHANGED <<stage, breaker, historyVars>>

ReadBreakerOnlyOpenSkips(r) ==
    /\ pc[r] = "breaker"
    /\ IF breaker = "open" THEN FinishAutomationCycle(r, "skipped")
       ELSE /\ pc' = [pc EXCEPT ![r] = "plan"]
            /\ UNCHANGED <<stage, run, breaker, key, contextVars, todo, enqueued, historyVars>>

ReadBreaker(r) ==
    /\ pc[r] = "breaker"
    /\ IF breaker # "closed" THEN FinishAutomationCycle(r, "skipped")
       ELSE /\ circuit' = [circuit EXCEPT ![r] = breaker]
            /\ pc' = [pc EXCEPT ![r] = "plan"]
            /\ UNCHANGED <<stage, run, breaker, key, openRead, energyRead, todo, enqueued, historyVars>>

\* A live connection that fails the readiness gate.
SkipUnready(r) ==
    /\ pc[r] = "plan"
    /\ FinishAutomationCycle(r, "skipped")

PlanBidsUncut(r, n) ==
    /\ pc[r] = "plan"
    /\ todo' = [todo EXCEPT ![r] = 1..n]
    /\ pc' = [pc EXCEPT ![r] = "bidding"]
    /\ UNCHANGED <<stage, run, breaker, key, contextVars, enqueued, historyVars>>

\* Forecast and optimize_bid_blocks, which finds n blocks worth bidding for;
\* the cycle takes bids[:max_orders_per_cycle].
PlanBids(r, n) ==
    /\ pc[r] = "plan"
    /\ todo' = [todo EXCEPT ![r] = {b \in 1..n : b <= MaxPerCycle}]
    /\ pc' = [pc EXCEPT ![r] = "bidding"]
    /\ UNCHANGED <<stage, run, breaker, key, contextVars, enqueued, historyVars>>

RiskApprovesUncounted(r, sound) ==
    sound /\ circuit[r] = "closed" /\ energyRead[r] + 1 <= MaxEnergy /\ openRead[r] < MaxOpen

\* evaluate_order_risk: what the cycle read, and whether the bid is sound
\* (size, confidence, price, age of the telemetry).
RiskApproves(r, sound) ==
    /\ sound
    /\ circuit[r] = "closed"
    /\ energyRead[r] + 1 <= MaxEnergy
    /\ openRead[r] + enqueued[r] < MaxOpen

\* The bids come by delivery start.
NextBid(r, b) == b \in todo[r] /\ \A c \in todo[r] : b <= c

CreateOrderTriesRejectedAgain(r, b, sound) ==
    LET o == <<key[r], b>> IN
    /\ pc[r] = "bidding"
    /\ NextBid(r, b)
    /\ stage' = [stage EXCEPT ![o] = IF @ # "absent" THEN @
                                     ELSE IF RiskApproves(r, sound) THEN "ready" ELSE "risk_rejected"]
    /\ enqueued' = [enqueued EXCEPT ![r] = IF stage'[o] = "ready" THEN @ + 1 ELSE @]
    /\ todo' = [todo EXCEPT ![r] = IF stage'[o] = "risk_rejected" THEN @ ELSE @ \ {b}]
    /\ UNCHANGED <<run, breaker, pc, key, contextVars, historyVars>>

\* create_market_order for the next bid, then the counting of the cycle. An
\* order that is there already is returned as it is.
CreateOrder(r, b, sound) ==
    LET o == <<key[r], b>> IN
    /\ pc[r] = "bidding"
    /\ NextBid(r, b)
    /\ stage' = [stage EXCEPT ![o] = IF @ # "absent" THEN @
                                     ELSE IF RiskApproves(r, sound) THEN "ready" ELSE "risk_rejected"]
    /\ enqueued' = [enqueued EXCEPT ![r] = IF stage'[o] = "ready" THEN @ + 1 ELSE @]
    /\ todo' = [todo EXCEPT ![r] = @ \ {b}]
    /\ UNCHANGED <<run, breaker, pc, key, contextVars, historyVars>>

CompleteCycle(r) ==
    /\ pc[r] = "bidding"
    /\ todo[r] = {}
    /\ FinishAutomationCycle(r, "completed")

\* An exception anywhere: no policy or connection, a forecast below quality,
\* a statement that fails. Orders made before it stay.
CycleFails(r) ==
    /\ pc[r] # "idle"
    /\ FinishAutomationCycle(r, "failed")

\* The process dies, or cannot even record the failure; the row stays running,
\* and its key taken.
RunnerCrash(r) ==
    /\ pc[r] # "idle"
    /\ lost' = lost \cup {key[r]}
    /\ GoIdle(r)
    /\ UNCHANGED <<stage, run, breaker, sawClosed, overlapped>>

RunnerStep(r) ==
    \/ ReadMetrics(r)
    \/ ReadBreaker(r)
    \/ SkipUnready(r)
    \/ \E n \in 0..MaxBlocks : PlanBids(r, n)
    \/ \E b \in Bids, sound \in BOOLEAN : CreateOrder(r, b, sound)
    \/ CompleteCycle(r)
    \/ CycleFails(r)

Next ==
    \/ \E o \in Orders, s \in OrderStages : DeskMoves(o, s)
    \/ \E s \in BreakerStates : SetCircuitBreaker(s)
    \/ \E r \in Runners, k \in CycleKeys : ClaimAutomationCycle(r, k)
    \/ \E r \in Runners : RunnerStep(r)
    \/ \E r \in Runners : RunnerCrash(r)

Spec == Init /\ [][Next]_vars

(***************************************************************************)
(* A process goes on with the cycle it has begun unless it crashes. That   *)
(* cycles begin, or that orders move on, is nobody's duty here. CycleFails *)
(* is no way out a process may count on, so it is not part of the fairness.*)
(***************************************************************************)
CarriesOn(r) ==
    \/ ReadMetrics(r)
    \/ ReadBreaker(r)
    \/ \E n \in 0..MaxBlocks : PlanBids(r, n)
    \/ \E b \in Bids, sound \in BOOLEAN : CreateOrder(r, b, sound)
    \/ CompleteCycle(r)

FairSpec == Spec /\ \A r \in Runners : WF_vars(CarriesOn(r))

-----------------------------------------------------------------------------
(* Properties.                                                             *)

\* "Every five-minute cycle has one durable key": two runners never work on
\* one cycle, a runner works only on a cycle that is running, and a cycle
\* stays running without a runner only if its runner died.
CyclesAreOwned ==
    /\ \A r \in Runners : pc[r] # "idle" => key[r] \in CycleKeys /\ run[key[r]] = "running"
    /\ \A q, r \in Runners : pc[q] # "idle" /\ pc[r] # "idle" /\ key[q] = key[r] => q = r
    /\ \A k \in CycleKeys :
         run[k] = "running" => k \in lost \/ \E r \in Runners : pc[r] # "idle" /\ key[r] = k

\* A cycle has orders enqueued only if the breaker was closed at some moment
\* since it began: an open or half-open breaker stops every cycle that begins
\* after it, whatever was read in which order.
BidsUnderClosedBreaker ==
    \A r \in Runners : enqueued[r] > 0 => sawClosed[r]

\* More orders are open than max_open_orders only if cycles have overlapped:
\* a cycle counts its own orders on top of the ones it read, and orders
\* closed meanwhile only leave room.
OverrunNeedsOverlap ==
    Cardinality(OpenOrders) > MaxOpen => overlapped

\* "Every five-minute cycle has one durable tenant_id + cycle_key, so retries
\* cannot double-submit": how a cycle ended is final, and an order appears
\* only while its own cycle runs, after all its orders for earlier blocks.
CyclesSubmitOnce ==
    [][/\ \A k \in CycleKeys : run[k] \in CycleEnds => run'[k] = run[k]
       /\ \A k \in CycleKeys, b \in Bids :
            stage[<<k, b>>] = "absent" /\ stage'[<<k, b>>] # "absent" =>
                /\ run[k] = "running" /\ run'[k] = "running"
                /\ \A c \in Bids : c > b => stage[<<k, c>>] = "absent"]_vars

\* A cycle that began ends, unless its runner dies.
CycleSettles ==
    \A k \in CycleKeys : run[k] = "running" ~> run[k] \in CycleEnds \/ k \in lost

\* README.md: "The system fails closed when ... order/daily limits are
\* exceeded". A cycle does not add its own orders to committed_energy_kwh, so
\* that each of them passes against what was committed before the cycle.
DailyEnergyWithinPolicy ==
    Cardinality(CommittedToday) <= MaxEnergy
=============================================================================
