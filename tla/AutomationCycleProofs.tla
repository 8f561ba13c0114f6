------------------------ MODULE AutomationCycleProofs ------------------------
(***************************************************************************)
(* What AutomationCycle guarantees for every number of blocks, cycles and  *)
(* runners and any limits.                                                 *)
(***************************************************************************)
EXTENDS AutomationCycle, FiniteSetTheorems, TLAPS

\* What a runner carries at each place.
RunnerInv(r) ==
    /\ pc[r] = "idle" => key[r] = NoKey
    /\ pc[r] # "bidding" => todo[r] = {} /\ enqueued[r] = 0
    /\ pc[r] \in {"plan", "bidding"} => sawClosed[r]
    /\ pc[r] # "idle" /\ breaker = "closed" => sawClosed[r]

\* As long as no cycles overlapped, one runner is at work at most, and its
\* count of open orders is not below what is open.
LimitInv ==
    ~overlapped =>
        /\ \A q, r \in Runners : pc[q] # "idle" /\ pc[r] # "idle" => q = r
        /\ Cardinality(OpenOrders) <= MaxOpen
        /\ \A r \in Runners : pc[r] \in {"breaker", "plan", "bidding"} =>
             Cardinality(OpenOrders) <= openRead[r] + enqueued[r]

CycleInv ==
    /\ TypeOK
    /\ CyclesAreOwned
    /\ \A r \in Runners : RunnerInv(r)
    /\ LimitInv

-----------------------------------------------------------------------------
(* Sets of bids and of orders.                                             *)

LEMMA FiniteSets == IsFiniteSet(Bids) /\ IsFiniteSet(Orders)
<1>1. IsFiniteSet(Bids)
  BY AutomationAssumption, FS_Interval DEF Bids
<1> QED
  BY <1>1, AutomationAssumption, FS_Product DEF Orders

LEMMA BidSets ==
  ASSUME NEW S \in SUBSET Bids
  PROVE  IsFiniteSet(S) /\ Cardinality(S) \in Nat
BY FiniteSets, FS_Subset, FS_CardinalityType

LEMMA LessOneBid ==
  ASSUME NEW S \in SUBSET Bids, NEW b \in S
  PROVE  Cardinality(S \ {b}) + 1 = Cardinality(S)
BY BidSets, FS_RemoveElement

LEMMA OrderSets ==
  ASSUME NEW S \in SUBSET Orders
  PROVE  IsFiniteSet(S) /\ Cardinality(S) \in Nat
BY FiniteSets, FS_Subset, FS_CardinalityType

LEMMA FewerOrders ==
  ASSUME NEW S \in SUBSET Orders, NEW T \in SUBSET S
  PROVE  Cardinality(T) <= Cardinality(S)
BY OrderSets, FS_Subset

LEMMA OneMoreOrder ==
  ASSUME NEW S \in SUBSET Orders, NEW o \in Orders, NEW T \in SUBSET (S \cup {o})
  PROVE  Cardinality(T) <= Cardinality(S) + 1
<1>1. S \cup {o} \in SUBSET Orders
  OBVIOUS
<1>2. Cardinality(S \cup {o}) <= Cardinality(S) + 1
  BY OrderSets, FS_AddElement
<1> QED
  BY <1>1, <1>2, OrderSets, FewerOrders

\* The planned blocks are bids, and no more than max_orders_per_cycle.
LEMMA PlannedBids ==
  ASSUME NEW n \in 0..MaxBlocks
  PROVE  /\ {b \in 1..n : b <= MaxPerCycle} \in SUBSET Bids
         /\ Cardinality({b \in 1..n : b <= MaxPerCycle}) <= MaxPerCycle
<1> DEFINE P == {b \in 1..n : b <= MaxPerCycle}
<1>1. P \in SUBSET Bids
  BY AutomationAssumption DEF Bids
<1>2. P \in SUBSET (1..MaxPerCycle)
  BY AutomationAssumption
<1>3. IsFiniteSet(1..MaxPerCycle) /\ Cardinality(1..MaxPerCycle) = MaxPerCycle
  BY AutomationAssumption, FS_Interval
<1>4. Cardinality(P) <= MaxPerCycle
  BY <1>2, <1>3, FS_Subset
<1> QED
  BY <1>1, <1>4

\* The open orders, now and after a step.
LEMMA OpenOrdersAreOrders ==
  /\ OpenOrders \in SUBSET Orders /\ Cardinality(OpenOrders) \in Nat
  /\ OpenOrders' \in SUBSET Orders /\ Cardinality(OpenOrders') \in Nat
<1>1. OpenOrders \in SUBSET Orders /\ OpenOrders' \in SUBSET Orders
  BY DEF OpenOrders
<1> QED
  BY <1>1, OrderSets

-----------------------------------------------------------------------------
(* The invariant holds initially and every action preserves it.            *)

LEMMA InitInv == Init => CycleInv
<1> SUFFICES ASSUME Init PROVE CycleInv
  OBVIOUS
<1> USE AutomationAssumption DEF Init
<1>0. Cardinality({}) = 0
  BY FS_EmptySet
<1>1. TypeOK
  <2>1. \A r \in Runners : Cardinality(todo[r]) + enqueued[r] <= MaxPerCycle
    BY <1>0
  <2> QED
    BY <2>1 DEF TypeOK, OrderStages, BreakerStates
<1>2. CyclesAreOwned
  BY DEF CyclesAreOwned
<1>3. \A r \in Runners : RunnerInv(r)
  BY DEF RunnerInv
<1>4. LimitInv
  <2>1. OpenOrders = {}
    BY DEF OpenOrders
  <2> QED
    BY <1>0, <2>1 DEF LimitInv
<1> QED
  BY <1>1, <1>2, <1>3, <1>4 DEF CycleInv

LEMMA DeskInv ==
  ASSUME CycleInv, NEW o \in Orders, NEW s \in OrderStages, DeskMoves(o, s)
  PROVE  CycleInv'
<1> USE DEF CycleInv, DeskMoves, runnerVars, contextVars, historyVars
<1>1. TypeOK'
  BY DEF TypeOK
<1>2. CyclesAreOwned'
  BY DEF CyclesAreOwned
<1>3. \A r \in Runners : RunnerInv(r)'
  BY DEF RunnerInv
<1>4. LimitInv'
  <2>1. s = "open" => stage[o] = "ready"
    BY DEF OrderMoves, TypeOK
  <2>2. s # "ready"
    BY DEF OrderMoves, TypeOK
  <2>3. OpenOrders' \in SUBSET OpenOrders
    BY <2>1, <2>2 DEF OpenOrders, TypeOK
  <2>4. Cardinality(OpenOrders') <= Cardinality(OpenOrders)
    BY <2>3, OpenOrdersAreOrders, FewerOrders
  <2> QED
    BY <2>4, OpenOrdersAreOrders, AutomationAssumption DEF LimitInv, TypeOK
<1> QED
  BY <1>1, <1>2, <1>3, <1>4

LEMMA BreakerInv ==
  ASSUME CycleInv, NEW s \in BreakerStates, SetCircuitBreaker(s)
  PROVE  CycleInv'
<1> USE DEF CycleInv, SetCircuitBreaker, runnerVars, contextVars
<1>1. TypeOK'
  BY DEF TypeOK
<1>2. CyclesAreOwned'
  BY DEF CyclesAreOwned
<1>3. \A r \in Runners : RunnerInv(r)'
  BY DEF RunnerInv, TypeOK
<1>4. LimitInv'
  BY DEF LimitInv, OpenOrders
<1> QED
  BY <1>1, <1>2, <1>3, <1>4

LEMMA ClaimInv ==
  ASSUME CycleInv, NEW r \in Runners, NEW k \in CycleKeys, ClaimAutomationCycle(r, k)
  PROVE  CycleInv'
<1> USE DEF CycleInv, ClaimAutomationCycle, contextVars
<1>1. TypeOK'
  BY DEF TypeOK
<1>2. CyclesAreOwned'
  BY DEF CyclesAreOwned, TypeOK
<1>3. \A q \in Runners : RunnerInv(q)'
  BY AutomationAssumption DEF RunnerInv, TypeOK
<1>4. LimitInv'
  <2>1. OpenOrders' = OpenOrders
    BY DEF OpenOrders
  <2> QED
    BY <2>1 DEF LimitInv, TypeOK
<1> QED
  BY <1>1, <1>2, <1>3, <1>4

LEMMA ReadMetricsInv ==
  ASSUME CycleInv, NEW r \in Runners, ReadMetrics(r)
  PROVE  CycleInv'
<1> USE DEF CycleInv, ReadMetrics, historyVars
<1>1. TypeOK'
  <2>1. CommittedToday \in SUBSET Orders
    BY AutomationAssumption DEF CommittedToday, Orders
  <2>2. Cardinality(CommittedToday) \in Nat /\ Cardinality(OpenOrders) \in Nat
    BY <2>1, OrderSets, OpenOrdersAreOrders
  <2> QED
    BY <2>2 DEF TypeOK
<1>2. CyclesAreOwned'
  BY DEF CyclesAreOwned, TypeOK
<1>3. \A q \in Runners : RunnerInv(q)'
  BY DEF RunnerInv, TypeOK
<1>4. LimitInv'
  <2>1. OpenOrders' = OpenOrders
    BY DEF OpenOrders
  <2>2. enqueued[r] = 0
    BY DEF RunnerInv
  <2> QED
    BY <2>1, <2>2, OpenOrdersAreOrders DEF LimitInv, TypeOK
<1> QED
  BY <1>1, <1>2, <1>3, <1>4

\* A runner that stops, whatever becomes of its cycle.
LEMMA IdleInv ==
  ASSUME CycleInv, NEW r \in Runners, GoIdle(r), UNCHANGED <<stage, breaker, sawClosed, overlapped>>
  PROVE  /\ \A q \in Runners : RunnerInv(q)'
         /\ LimitInv'
         /\ pc' \in [Runners -> {"idle", "metrics", "breaker", "plan", "bidding"}]
         /\ key' \in [Runners -> CycleKeys \cup {NoKey}]
         /\ openRead' \in [Runners -> Nat]
         /\ energyRead' \in [Runners -> Nat]
         /\ circuit' \in [Runners -> BreakerStates]
         /\ todo' \in [Runners -> SUBSET Bids]
         /\ enqueued' \in [Runners -> Nat]
         /\ \A q \in Runners : Cardinality(todo'[q]) + enqueued'[q] <= MaxPerCycle
<1> USE DEF CycleInv, GoIdle
<1>1. \A q \in Runners : RunnerInv(q)'
  BY DEF RunnerInv, TypeOK
<1>2. LimitInv'
  <2>1. OpenOrders' = OpenOrders
    BY DEF OpenOrders
  <2> QED
    BY <2>1 DEF LimitInv, TypeOK
<1>3. \A q \in Runners : Cardinality(todo'[q]) + enqueued'[q] <= MaxPerCycle
  BY FS_EmptySet, AutomationAssumption DEF TypeOK
<1> QED
  BY <1>1, <1>2, <1>3 DEF TypeOK, BreakerStates

LEMMA FinishInv ==
  ASSUME CycleInv, NEW r \in Runners, NEW end \in CycleEnds, pc[r] # "idle",
         FinishAutomationCycle(r, end)
  PROVE  CycleInv'
<1> USE DEF CycleInv, FinishAutomationCycle, historyVars
<1>1. TypeOK'
  BY IdleInv DEF TypeOK, CyclesAreOwned
<1>2. CyclesAreOwned'
  BY DEF CyclesAreOwned, TypeOK, GoIdle, CycleEnds
<1> QED
  BY <1>1, <1>2, IdleInv

LEMMA CrashInv ==
  ASSUME CycleInv, NEW r \in Runners, RunnerCrash(r)
  PROVE  CycleInv'
<1> USE DEF CycleInv, RunnerCrash
<1>1. TypeOK'
  BY IdleInv DEF TypeOK, CyclesAreOwned
<1>2. CyclesAreOwned'
  BY DEF CyclesAreOwned, TypeOK, GoIdle
<1> QED
  BY <1>1, <1>2, IdleInv

LEMMA ReadBreakerInv ==
  ASSUME CycleInv, NEW r \in Runners, ReadBreaker(r)
  PROVE  CycleInv'
<1>1. CASE breaker # "closed"
  BY <1>1, FinishInv DEF ReadBreaker, CycleEnds
<1>2. CASE breaker = "closed"
  <2> USE <1>2 DEF CycleInv, ReadBreaker, historyVars
  <2>1. TypeOK'
    BY DEF TypeOK
  <2>2. CyclesAreOwned'
    BY DEF CyclesAreOwned, TypeOK
  <2>3. \A q \in Runners : RunnerInv(q)'
    BY DEF RunnerInv, TypeOK
  <2>4. LimitInv'
    <3>1. OpenOrders' = OpenOrders
      BY DEF OpenOrders
    <3> QED
      BY <3>1 DEF LimitInv, TypeOK
  <2> QED
    BY <2>1, <2>2, <2>3, <2>4
<1> QED
  BY <1>1, <1>2

LEMMA PlanInv ==
  ASSUME CycleInv, NEW r \in Runners, NEW n \in 0..MaxBlocks, PlanBids(r, n)
  PROVE  CycleInv'
<1> USE DEF CycleInv, PlanBids, contextVars, historyVars
<1>1. TypeOK'
  <2>1. enqueued[r] = 0
    BY DEF RunnerInv
  <2> DEFINE planned == {b \in 1..n : b <= MaxPerCycle}
  <2>2. planned \in SUBSET Bids /\ Cardinality(planned) <= MaxPerCycle /\ Cardinality(planned) \in Nat
    BY PlannedBids, BidSets
  <2>3. todo' = [todo EXCEPT ![r] = planned]
    OBVIOUS
  <2> HIDE DEF planned, PlanBids
  <2>4. \A q \in Runners : Cardinality(todo'[q]) + enqueued[q] <= MaxPerCycle
    BY <2>1, <2>2, <2>3, AutomationAssumption DEF TypeOK
  <2>5. todo' \in [Runners -> SUBSET Bids]
    BY <2>2, <2>3 DEF TypeOK
  <2> QED
    BY <2>4, <2>5 DEF TypeOK, PlanBids
<1>2. CyclesAreOwned'
  BY DEF CyclesAreOwned, TypeOK
<1>3. \A q \in Runners : RunnerInv(q)'
  BY DEF RunnerInv, TypeOK
<1>4. LimitInv'
  <2>1. OpenOrders' = OpenOrders
    BY DEF OpenOrders
  <2> QED
    BY <2>1 DEF LimitInv, TypeOK
<1> QED
  BY <1>1, <1>2, <1>3, <1>4

LEMMA CreateInv ==
  ASSUME CycleInv, NEW r \in Runners, NEW b \in Bids, NEW sound \in BOOLEAN,
         CreateOrder(r, b, sound)
  PROVE  CycleInv'
<1> DEFINE o == <<key[r], b>>
<1> USE DEF CycleInv, CreateOrder, contextVars, historyVars
<1>0. o \in Orders
  BY DEF Orders, CyclesAreOwned
<1>1. b \in todo[r] /\ todo[r] \in SUBSET Bids
  BY DEF NextBid, TypeOK
<1>2. /\ todo'[r] = todo[r] \ {b}
      /\ \A q \in Runners \ {r} : todo'[q] = todo[q] /\ enqueued'[q] = enqueued[q]
  BY DEF TypeOK
<1>3. \/ stage'[o] = "ready" /\ enqueued'[r] = enqueued[r] + 1
      \/ stage'[o] # "ready" /\ enqueued'[r] = enqueued[r]
  BY DEF TypeOK
<1>4. stage' \in [Orders -> OrderStages] /\ enqueued' \in [Runners -> Nat]
  <2>1. stage' \in [Orders -> OrderStages]
    BY DEF TypeOK, OrderStages
  <2>2. enqueued' = [enqueued EXCEPT ![r] = enqueued'[r]]
    BY <1>2, <1>3 DEF TypeOK
  <2> QED
    BY <1>3, <2>1, <2>2 DEF TypeOK
<1>5. TypeOK'
  <2>1. Cardinality(todo[r] \ {b}) + 1 = Cardinality(todo[r])
    BY <1>1, LessOneBid
  <2>2. Cardinality(todo[r] \ {b}) \in Nat /\ Cardinality(todo[r]) \in Nat
    BY <1>1, BidSets
  <2>3. Cardinality(todo'[r]) + enqueued'[r] <= MaxPerCycle
    BY <1>2, <1>3, <2>1, <2>2, AutomationAssumption DEF TypeOK
  <2>4. \A q \in Runners : Cardinality(todo'[q]) + enqueued'[q] <= MaxPerCycle
    BY <1>2, <2>3 DEF TypeOK
  <2> QED
    BY <1>4, <2>4 DEF TypeOK
<1>6. CyclesAreOwned'
  BY DEF CyclesAreOwned
<1>7. \A q \in Runners : RunnerInv(q)'
  BY <1>2 DEF RunnerInv, TypeOK
<1>8. LimitInv'
  <2> SUFFICES ASSUME ~overlapped PROVE LimitInv'
    BY DEF LimitInv
  <2>1. \A q \in Runners : pc[q] # "idle" => q = r
    BY DEF LimitInv
  <2>2. Cardinality(OpenOrders) <= openRead[r] + enqueued[r] /\ Cardinality(OpenOrders) <= MaxOpen
    BY DEF LimitInv
  <2>3. CASE stage[o] = "absent" /\ RiskApproves(r, sound)
    <3>1. stage'[o] = "ready"
      BY <1>0, <2>3 DEF TypeOK
    <3>2. OpenOrders' \in SUBSET (OpenOrders \cup {o})
      BY <1>0 DEF OpenOrders, TypeOK
    <3>3. Cardinality(OpenOrders') <= Cardinality(OpenOrders) + 1
      BY <1>0, <3>2, OneMoreOrder, OpenOrdersAreOrders
    <3>4. openRead[r] + enqueued[r] < MaxOpen /\ enqueued'[r] = enqueued[r] + 1
      BY <1>3, <2>3, <3>1 DEF RiskApproves
    <3>5. /\ Cardinality(OpenOrders') <= MaxOpen
          /\ Cardinality(OpenOrders') <= openRead[r] + enqueued'[r]
      BY <2>2, <3>3, <3>4, OpenOrdersAreOrders, AutomationAssumption DEF TypeOK
    <3> QED
      BY <2>1, <3>5 DEF LimitInv
  <2>4. CASE ~(stage[o] = "absent" /\ RiskApproves(r, sound))
    <3>1. OpenOrders' = OpenOrders
      BY <1>0, <2>4 DEF OpenOrders, TypeOK
    <3>2. Cardinality(OpenOrders') <= openRead[r] + enqueued'[r]
      BY <1>3, <2>2, <3>1, OpenOrdersAreOrders DEF TypeOK
    <3> QED
      BY <2>1, <2>2, <3>1, <3>2 DEF LimitInv
  <2> QED
    BY <2>3, <2>4
<1> QED
  BY <1>5, <1>6, <1>7, <1>8

\* Every step keeps the invariant: one case per action.
LEMMA StepInv == CycleInv /\ [Next]_vars => CycleInv'
<1> SUFFICES ASSUME CycleInv, [Next]_vars PROVE CycleInv'
  OBVIOUS
<1>1. ASSUME NEW o \in Orders, NEW s \in OrderStages, DeskMoves(o, s) PROVE CycleInv'
  BY <1>1, DeskInv
<1>2. ASSUME NEW s \in BreakerStates, SetCircuitBreaker(s) PROVE CycleInv'
  BY <1>2, BreakerInv
<1>3. ASSUME NEW r \in Runners, NEW k \in CycleKeys, ClaimAutomationCycle(r, k) PROVE CycleInv'
  BY <1>3, ClaimInv
<1>4. ASSUME NEW r \in Runners, RunnerStep(r) PROVE CycleInv'
  <2>1. CASE ReadMetrics(r)
    BY <2>1, ReadMetricsInv
  <2>2. CASE ReadBreaker(r)
    BY <2>2, ReadBreakerInv
  <2>3. CASE SkipUnready(r)
    BY <2>3, FinishInv DEF SkipUnready, CycleEnds
  <2>4. CASE \E n \in 0..MaxBlocks : PlanBids(r, n)
    BY <2>4, PlanInv
  <2>5. CASE \E b \in Bids, sound \in BOOLEAN : CreateOrder(r, b, sound)
    BY <2>5, CreateInv
  <2>6. CASE CompleteCycle(r)
    BY <2>6, FinishInv DEF CompleteCycle, CycleEnds
  <2>7. CASE CycleFails(r)
    BY <2>7, FinishInv DEF CycleFails, CycleEnds
  <2> QED
    BY <1>4, <2>1, <2>2, <2>3, <2>4, <2>5, <2>6, <2>7 DEF RunnerStep
<1>5. ASSUME NEW r \in Runners, RunnerCrash(r) PROVE CycleInv'
  BY <1>5, CrashInv
<1>6. CASE UNCHANGED vars
  BY <1>6 DEF vars, runnerVars, contextVars, historyVars, CycleInv, TypeOK,
              CyclesAreOwned, RunnerInv, LimitInv, OpenOrders
<1> QED
  BY <1>1, <1>2, <1>3, <1>4, <1>5, <1>6 DEF Next

LEMMA Invariance == Spec => []CycleInv
  BY InitInv, StepInv, PTL DEF Spec

-----------------------------------------------------------------------------
(* Cycles submit once: what is still to be done has no order yet.           *)

SubmitInv ==
    /\ \A k \in CycleKeys, b \in Bids : run[k] = "absent" => stage[<<k, b>>] = "absent"
    /\ \A r \in Runners, b \in Bids :
         pc[r] \in {"metrics", "breaker", "plan"} => stage[<<key[r], b>>] = "absent"
    /\ \A r \in Runners, b, c \in Bids :
         pc[r] = "bidding" /\ b \in todo[r] /\ b <= c => stage[<<key[r], c>>] = "absent"

LEMMA SubmitInit == Init => SubmitInv
BY DEF Init, SubmitInv, Orders

LEMMA OrderIs ==
  ASSUME NEW k \in CycleKeys, NEW b \in Bids
  PROVE  <<k, b>> \in Orders
BY DEF Orders

\* The desk moves only orders that are there.
LEMMA DeskSubmits ==
  ASSUME CycleInv, SubmitInv, NEW o \in Orders, NEW s \in OrderStages, DeskMoves(o, s)
  PROVE  SubmitInv' /\ \A x \in Orders : stage[x] = "absent" => stage'[x] = "absent"
<1> USE DEF DeskMoves, runnerVars, contextVars, historyVars
<1>1. stage \in [Orders -> OrderStages] /\ pc \in [Runners -> {"idle", "metrics", "breaker", "plan", "bidding"}]
  BY DEF CycleInv, TypeOK
<1>2. stage[o] # "absent"
  BY <1>1 DEF OrderMoves
<1>3. \A x \in Orders : stage[x] = "absent" => stage'[x] = "absent"
  BY <1>1, <1>2
<1>4. \A r \in Runners : pc[r] # "idle" => key[r] \in CycleKeys
  BY DEF CycleInv, CyclesAreOwned
<1> QED
  BY <1>1, <1>3, <1>4, OrderIs DEF SubmitInv

\* A runner that begins finds no order of its cycle.
LEMMA ClaimSubmits ==
  ASSUME CycleInv, SubmitInv, NEW r \in Runners, NEW k \in CycleKeys, ClaimAutomationCycle(r, k)
  PROVE  SubmitInv'
<1> USE DEF ClaimAutomationCycle, contextVars
<1>1. /\ run \in [CycleKeys -> CycleEnds \cup {"absent", "running"}]
      /\ pc \in [Runners -> {"idle", "metrics", "breaker", "plan", "bidding"}]
      /\ key \in [Runners -> CycleKeys \cup {NoKey}]
  BY DEF CycleInv, TypeOK
<1>2. pc'[r] = "metrics" /\ key'[r] = k /\ \A q \in Runners \ {r} : pc'[q] = pc[q] /\ key'[q] = key[q]
  BY <1>1
<1>3. \A j \in CycleKeys : run'[j] = "absent" => run[j] = "absent"
  BY <1>1
<1>4. stage' = stage /\ todo' = todo /\ run[k] = "absent"
  OBVIOUS
<1> QED
  BY <1>2, <1>3, <1>4 DEF SubmitInv

\* The other steps leave the orders alone; a runner they take on does the
\* statements in their order.
LEMMA QuietSubmits ==
  ASSUME CycleInv, SubmitInv, NEW r \in Runners, stage' = stage,
         \A q \in Runners \ {r} : pc'[q] = pc[q] /\ key'[q] = key[q] /\ todo'[q] = todo[q],
         \/ pc'[r] = "idle"
         \/ key'[r] = key[r] /\ pc[r] \in {"metrics", "breaker", "plan"}
                            /\ pc'[r] \in {"breaker", "plan", "bidding"},
         \A k \in CycleKeys : run'[k] = "absent" => run[k] = "absent"
  PROVE  SubmitInv'
BY DEF SubmitInv

LEMMA CreateSubmits ==
  ASSUME CycleInv, SubmitInv, NEW r \in Runners, NEW b \in Bids, NEW sound \in BOOLEAN,
         CreateOrder(r, b, sound)
  PROVE  /\ SubmitInv'
         /\ \A x \in Orders : stage'[x] = stage[x] \/ x = <<key[r], b>>
         /\ key[r] \in CycleKeys /\ run[key[r]] = "running"
         /\ \A c \in Bids : c > b => stage[<<key[r], c>>] = "absent"
<1> USE DEF CreateOrder, contextVars, historyVars
<1>1. /\ stage \in [Orders -> OrderStages]
      /\ todo \in [Runners -> SUBSET Bids]
  BY DEF CycleInv, TypeOK
<1>2. key[r] \in CycleKeys /\ run[key[r]] = "running"
  BY DEF CycleInv, CyclesAreOwned
<1>3. \A q \in Runners : pc[q] # "idle" => key[q] \in CycleKeys /\ (key[q] = key[r] => q = r)
  BY DEF CycleInv, CyclesAreOwned
<1>4. \A x \in Orders : stage'[x] = stage[x] \/ x = <<key[r], b>>
  BY <1>1
<1>5. run' = run /\ pc' = pc /\ key' = key /\ pc[r] = "bidding"
  OBVIOUS
<1>6. todo'[r] = todo[r] \ {b} /\ \A q \in Runners \ {r} : todo'[q] = todo[q]
  BY <1>1
<1>7. b \in todo[r] /\ \A d \in todo[r] : b <= d
  BY DEF NextBid
<1>8. Bids \subseteq Int
  BY DEF Bids
<1>9. \A c \in Bids : b <= c => stage[<<key[r], c>>] = "absent"
  BY <1>5, <1>7 DEF SubmitInv
<1>10. \A k \in CycleKeys, c \in Bids : run'[k] = "absent" => stage'[<<k, c>>] = "absent"
  BY <1>2, <1>4, <1>5, OrderIs DEF SubmitInv
<1>11. \A q \in Runners, c \in Bids :
         pc'[q] \in {"metrics", "breaker", "plan"} => stage'[<<key'[q], c>>] = "absent"
  BY <1>3, <1>4, <1>5, OrderIs DEF SubmitInv
<1>12. \A q \in Runners, d, c \in Bids :
         pc'[q] = "bidding" /\ d \in todo'[q] /\ d <= c => stage'[<<key'[q], c>>] = "absent"
  <2> SUFFICES ASSUME NEW q \in Runners, NEW d \in Bids, NEW c \in Bids,
                      pc[q] = "bidding", d \in todo'[q], d <= c
               PROVE  stage'[<<key[q], c>>] = "absent"
    BY <1>5
  <2>1. d \in todo[q] /\ stage[<<key[q], c>>] = "absent"
    BY <1>6 DEF SubmitInv
  <2>2. CASE q = r
    <3>1. c # b
      BY <1>6, <1>7, <1>8, <2>1, <2>2
    <3> QED
      BY <1>3, <1>4, <2>1, <3>1, OrderIs
  <2>3. CASE q # r
    BY <1>3, <1>4, <2>1, <2>3, OrderIs
  <2> QED
    BY <2>2, <2>3
<1>13. \A c \in Bids : c > b => stage[<<key[r], c>>] = "absent"
  BY <1>8, <1>9
<1> QED
  BY <1>2, <1>4, <1>10, <1>11, <1>12, <1>13 DEF SubmitInv

\* What one step of the system may do to a cycle and its orders.
SubmitsOnce ==
    /\ \A k \in CycleKeys : run[k] \in CycleEnds => run'[k] = run[k]
    /\ \A k \in CycleKeys, b \in Bids :
         stage[<<k, b>>] = "absent" /\ stage'[<<k, b>>] # "absent" =>
             /\ run[k] = "running" /\ run'[k] = "running"
             /\ \A c \in Bids : c > b => stage[<<k, c>>] = "absent"

LEMMA FinishSubmits ==
  ASSUME CycleInv, SubmitInv, NEW r \in Runners, NEW end \in CycleEnds, pc[r] # "idle",
         FinishAutomationCycle(r, end)
  PROVE  SubmitInv' /\ SubmitsOnce
<1> USE DEF FinishAutomationCycle, GoIdle, historyVars
<1>1. /\ run \in [CycleKeys -> CycleEnds \cup {"absent", "running"}]
      /\ pc \in [Runners -> {"idle", "metrics", "breaker", "plan", "bidding"}]
      /\ key \in [Runners -> CycleKeys \cup {NoKey}]
      /\ todo \in [Runners -> SUBSET Bids]
  BY DEF CycleInv, TypeOK
<1>2. key[r] \in CycleKeys /\ run[key[r]] = "running"
  BY DEF CycleInv, CyclesAreOwned
<1>3. \A k \in CycleKeys : run'[k] = "absent" => run[k] = "absent"
  BY <1>1 DEF CycleEnds
<1>4. \A k \in CycleKeys : run[k] \in CycleEnds => run'[k] = run[k]
  BY <1>1, <1>2 DEF CycleEnds
<1>5. stage' = stage /\ pc'[r] = "idle"
  BY <1>1
<1>6. \A q \in Runners \ {r} : pc'[q] = pc[q] /\ key'[q] = key[q] /\ todo'[q] = todo[q]
  BY <1>1
<1>7. SubmitInv'
  BY <1>3, <1>5, <1>6, QuietSubmits
<1> QED
  BY <1>4, <1>5, <1>7 DEF SubmitsOnce

\* A step of a runner that ends no cycle and makes no order.
LEMMA AdvanceSubmits ==
  ASSUME CycleInv, SubmitInv, NEW r \in Runners, stage' = stage, run' = run, key' = key,
         \E p \in {"breaker", "plan", "bidding"} : pc' = [pc EXCEPT ![r] = p],
         pc[r] \in {"metrics", "breaker", "plan"},
         \A q \in Runners \ {r} : todo'[q] = todo[q]
  PROVE  SubmitInv' /\ SubmitsOnce
<1>1. pc \in [Runners -> {"idle", "metrics", "breaker", "plan", "bidding"}]
  BY DEF CycleInv, TypeOK
<1>2. pc'[r] \in {"breaker", "plan", "bidding"} /\ \A q \in Runners \ {r} : pc'[q] = pc[q]
  BY <1>1
<1>3. SubmitInv'
  BY <1>2, QuietSubmits
<1> QED
  BY <1>3 DEF SubmitsOnce

LEMMA RunnerSubmits ==
  ASSUME CycleInv, SubmitInv, NEW r \in Runners, RunnerStep(r)
  PROVE  SubmitInv' /\ SubmitsOnce
<1>0. todo \in [Runners -> SUBSET Bids]
  BY DEF CycleInv, TypeOK
<1>1. CASE ReadMetrics(r)
  BY <1>1, AdvanceSubmits DEF ReadMetrics
<1>2. CASE ReadBreaker(r)
  <2>1. CASE breaker # "closed"
    BY <1>2, <2>1, FinishSubmits DEF ReadBreaker, CycleEnds
  <2>2. CASE breaker = "closed"
    BY <1>2, <2>2, AdvanceSubmits DEF ReadBreaker
  <2> QED
    BY <2>1, <2>2
<1>3. CASE SkipUnready(r)
  BY <1>3, FinishSubmits DEF SkipUnready, CycleEnds
<1>4. ASSUME NEW n \in 0..MaxBlocks, PlanBids(r, n) PROVE SubmitInv' /\ SubmitsOnce
  BY <1>0, <1>4, AdvanceSubmits DEF PlanBids
<1>5. ASSUME NEW b \in Bids, NEW sound \in BOOLEAN, CreateOrder(r, b, sound)
      PROVE  SubmitInv' /\ SubmitsOnce
  <2>1. run' = run
    BY <1>5 DEF CreateOrder
  <2>2. \A k \in CycleKeys, d \in Bids :
          stage'[<<k, d>>] = stage[<<k, d>>] \/ (k = key[r] /\ d = b)
    <3>1. \A x \in Orders : stage'[x] = stage[x] \/ x = <<key[r], b>>
      BY <1>5, CreateSubmits
    <3> TAKE k \in CycleKeys, d \in Bids
    <3>2. stage'[<<k, d>>] = stage[<<k, d>>] \/ <<k, d>> = <<key[r], b>>
      BY <3>1, OrderIs
    <3> QED
      BY <3>2
  <2> QED
    BY <1>5, <2>1, <2>2, CreateSubmits DEF SubmitsOnce
<1>6. CASE CompleteCycle(r)
  BY <1>6, FinishSubmits DEF CompleteCycle, CycleEnds
<1>7. CASE CycleFails(r)
  BY <1>7, FinishSubmits DEF CycleFails, CycleEnds
<1> QED
  BY <1>1, <1>2, <1>3, <1>4, <1>5, <1>6, <1>7 DEF RunnerStep

LEMMA NextSubmits == CycleInv /\ SubmitInv /\ [Next]_vars => SubmitInv' /\ SubmitsOnce
<1> SUFFICES ASSUME CycleInv, SubmitInv, [Next]_vars PROVE SubmitInv' /\ SubmitsOnce
  OBVIOUS
<1>1. ASSUME NEW o \in Orders, NEW s \in OrderStages, DeskMoves(o, s)
      PROVE  SubmitInv' /\ SubmitsOnce
  <2>1. run' = run
    BY <1>1 DEF DeskMoves
  <2> QED
    BY <1>1, <2>1, DeskSubmits, OrderIs DEF SubmitsOnce
<1>2. ASSUME NEW s \in BreakerStates, SetCircuitBreaker(s) PROVE SubmitInv' /\ SubmitsOnce
  BY <1>2 DEF SetCircuitBreaker, SubmitInv, SubmitsOnce, runnerVars
<1>3. ASSUME NEW r \in Runners, NEW k \in CycleKeys, ClaimAutomationCycle(r, k)
      PROVE  SubmitInv' /\ SubmitsOnce
  <2>1. stage' = stage
    BY <1>3 DEF ClaimAutomationCycle
  <2>2. \A j \in CycleKeys : run[j] \in CycleEnds => run'[j] = run[j]
    BY <1>3 DEF ClaimAutomationCycle, CycleInv, TypeOK, CycleEnds
  <2> QED
    BY <1>3, <2>1, <2>2, ClaimSubmits DEF SubmitsOnce
<1>4. ASSUME NEW r \in Runners, RunnerStep(r) PROVE SubmitInv' /\ SubmitsOnce
  BY <1>4, RunnerSubmits
<1>5. ASSUME NEW r \in Runners, RunnerCrash(r) PROVE SubmitInv' /\ SubmitsOnce
  <2>1. /\ pc \in [Runners -> {"idle", "metrics", "breaker", "plan", "bidding"}]
        /\ key \in [Runners -> CycleKeys \cup {NoKey}]
        /\ todo \in [Runners -> SUBSET Bids]
    BY DEF CycleInv, TypeOK
  <2>2. stage' = stage /\ run' = run /\ pc'[r] = "idle"
    BY <1>5, <2>1 DEF RunnerCrash, GoIdle
  <2>3. \A q \in Runners \ {r} : pc'[q] = pc[q] /\ key'[q] = key[q] /\ todo'[q] = todo[q]
    BY <1>5, <2>1 DEF RunnerCrash, GoIdle
  <2>4. SubmitInv'
    BY <2>2, <2>3, QuietSubmits
  <2> QED
    BY <2>2, <2>4 DEF SubmitsOnce
<1>6. CASE UNCHANGED vars
  BY <1>6 DEF vars, runnerVars, SubmitInv, SubmitsOnce
<1> QED
  BY <1>1, <1>2, <1>3, <1>4, <1>5, <1>6 DEF Next

-----------------------------------------------------------------------------
(* The theorems.                                                           *)

\* For any blocks, runners and limits the state stays in its types, and no cycle
\* counts or still plans more orders than max_orders_per_cycle.
THEOREM TypeCorrect == Spec => []TypeOK
<1>1. CycleInv => TypeOK
  BY DEF CycleInv
<1> QED
  BY <1>1, Invariance, PTL

\* A cycle key is in the hands of one runner, and its row runs without one
\* only if the runner died.
THEOREM CyclesAreOwnedHolds == Spec => []CyclesAreOwned
<1>1. CycleInv => CyclesAreOwned
  BY DEF CycleInv
<1> QED
  BY <1>1, Invariance, PTL

\* No cycle has orders enqueued unless the breaker was closed during it.
THEOREM BidsUnderClosedBreakerHolds == Spec => []BidsUnderClosedBreaker
<1>1. CycleInv => BidsUnderClosedBreaker
  BY DEF CycleInv, RunnerInv, TypeOK, BidsUnderClosedBreaker
<1> QED
  BY <1>1, Invariance, PTL

\* max_open_orders holds as long as no two cycles were at work at once,
\* whatever crashes and whatever the desk does meanwhile.
THEOREM OverrunNeedsOverlapHolds == Spec => []OverrunNeedsOverlap
<1>1. CycleInv => OverrunNeedsOverlap
  BY OpenOrdersAreOrders, AutomationAssumption DEF CycleInv, LimitInv, OverrunNeedsOverlap
<1> QED
  BY <1>1, Invariance, PTL

\* However cycles are retried and whatever crashes: no cycle is reopened, and
\* no order of a cycle is made but by the cycle itself, once and in its turn.
THEOREM CyclesSubmitOnceHolds == Spec => CyclesSubmitOnce
<1>1. CycleInv /\ SubmitInv /\ [Next]_vars => [SubmitsOnce]_vars
  BY NextSubmits
<1> QED
  BY <1>1, InitInv, SubmitInit, StepInv, NextSubmits, PTL DEF Spec, CyclesSubmitOnce, SubmitsOnce
=============================================================================
