-------------------------- MODULE SettlementProofs --------------------------
(***************************************************************************)
(* Proofs about Settlement, for any number of periods, trades, people and  *)
(* requests and event chains of any length. What the properties say of a   *)
(* chain is stated here of one chain, and three lemmas tell what appending *)
(* an event does to it; BatchInv strengthens the properties to an          *)
(* inductive invariant of one batch.                                       *)
(***************************************************************************)
EXTENDS Settlement, TLAPS

HistoryOf(chain, s) ==
    /\ chain = <<>> => s = "absent"
    /\ chain # <<>> => chain[1].from = "absent" /\ chain[Len(chain)].to = s
    /\ \A n \in 2..Len(chain) : chain[n].from = chain[n - 1].to

EndsChecked(chain, c, len) ==
    \E m \in 1..len :
        /\ chain[m].to = "approved"
        /\ chain[m].actor # c
        /\ \A k \in (m + 1)..len : chain[k].to = "exported"

PaidChecked(chain, c) ==
    \A n \in 1..Len(chain) : chain[n].to = "paid" => EndsChecked(chain, c, n - 1)

BatchInv(p) ==
    /\ HistoryOf(events[p], status[p])
    /\ PaidChecked(events[p], createdBy[p])
    /\ status[p] \in {"approved", "exported"} =>
         EndsChecked(events[p], createdBy[p], Len(events[p]))
    /\ status[p] = "absent" => events[p] = <<>>
    /\ status[p] = "absent" <=> lines[p] = {}
    /\ openDispute[p] <=> status[p] = "disputed"
    /\ adjustments[p] = IF status[p] = "reversed" THEN 1 ELSE 0

RequestInv ==
    \A r \in Requests : period[r] # NoPeriod =>
        /\ maker[r] \in Actors
        /\ todo[r] # {} \/ found[r] # {}

SettlementInv == TypeOK /\ RequestInv /\ \A p \in Periods : BatchInv(p)

-----------------------------------------------------------------------------
(* Appending to a chain.                                                   *)

\* What Append is, in terms of its elements.
LEMMA AppendFacts ==
    ASSUME NEW chain \in Seq(Event), NEW e \in Event
    PROVE  /\ Append(chain, e) \in Seq(Event)
           /\ Len(chain) \in Nat
           /\ Len(Append(chain, e)) = Len(chain) + 1
           /\ \A n \in 1..Len(chain) : Append(chain, e)[n] = chain[n]
           /\ Append(chain, e)[Len(chain) + 1] = e
           /\ Append(chain, e) # <<>>
           /\ chain = <<>> <=> Len(chain) = 0
OBVIOUS

\* An event that departs from the current status continues the history.
LEMMA AppendHistory ==
    ASSUME NEW chain \in Seq(Event), NEW e \in Event, NEW s,
           HistoryOf(chain, s), e.from = s
    PROVE  HistoryOf(Append(chain, e), e.to)
<1> DEFINE longer == Append(chain, e)
<1>1. longer # <<>> /\ Len(longer) = Len(chain) + 1 /\ longer[Len(longer)] = e
  BY AppendFacts
<1>2. longer[1].from = "absent"
  <2>1. CASE chain = <<>>
    BY <2>1, AppendFacts DEF HistoryOf
  <2>2. CASE chain # <<>>
    BY <2>2, AppendFacts DEF HistoryOf
  <2> QED BY <2>1, <2>2
<1>3. ASSUME NEW n \in 2..Len(longer) PROVE longer[n].from = longer[n - 1].to
  <2>1. CASE n = Len(longer)
    <3>1. chain # <<>> /\ n - 1 = Len(chain) /\ n - 1 \in 1..Len(chain)
      BY <2>1, AppendFacts
    <3>2. longer[n - 1] = chain[Len(chain)]
      BY <3>1, AppendFacts
    <3> QED BY <2>1, <1>1, <3>1, <3>2 DEF HistoryOf
  <2>2. CASE n # Len(longer)
    <3>1. n \in 2..Len(chain) /\ n \in 1..Len(chain) /\ n - 1 \in 1..Len(chain)
      BY <2>2, AppendFacts
    <3>2. longer[n] = chain[n] /\ longer[n - 1] = chain[n - 1]
      BY <3>1, AppendFacts
    <3> QED BY <3>1, <3>2 DEF HistoryOf
  <2> QED BY <2>1, <2>2
<1> QED BY <1>1, <1>2, <1>3 DEF HistoryOf

\* What held up to some event of the chain still holds up to it.
LEMMA PrefixChecked ==
    ASSUME NEW chain \in Seq(Event), NEW e \in Event, NEW c,
           NEW len \in 0..Len(chain), EndsChecked(chain, c, len)
    PROVE  EndsChecked(Append(chain, e), c, len)
<1>1. PICK m \in 1..len : /\ chain[m].to = "approved"
                          /\ chain[m].actor # c
                          /\ \A k \in (m + 1)..len : chain[k].to = "exported"
  BY DEF EndsChecked
<1>2. \A k \in 1..len : Append(chain, e)[k] = chain[k]
  BY AppendFacts
<1>3. \A k \in (m + 1)..len : k \in 1..len
  OBVIOUS
<1> QED BY <1>1, <1>2, <1>3 DEF EndsChecked

\* A chain stays one whose payments were checked if a payment is only ever
\* appended to a chain that ends with an approval and its exports.
LEMMA AppendPaid ==
    ASSUME NEW chain \in Seq(Event), NEW e \in Event, NEW c,
           PaidChecked(chain, c), e.to = "paid" => EndsChecked(chain, c, Len(chain))
    PROVE  PaidChecked(Append(chain, e), c)
<1> DEFINE longer == Append(chain, e)
<1> SUFFICES ASSUME NEW n \in 1..Len(longer), longer[n].to = "paid"
             PROVE  EndsChecked(longer, c, n - 1)
  BY DEF PaidChecked
<1>1. EndsChecked(chain, c, n - 1) /\ n - 1 \in 0..Len(chain)
  <2>1. CASE n = Len(chain) + 1
    <3>1. longer[n] = e /\ n - 1 = Len(chain) /\ n - 1 \in 0..Len(chain)
      BY <2>1, AppendFacts
    <3> QED BY <3>1
  <2>2. CASE n # Len(chain) + 1
    <3>1. n \in 1..Len(chain) /\ n - 1 \in 0..Len(chain) /\ longer[n] = chain[n]
      BY <2>2, AppendFacts
    <3> QED BY <3>1 DEF PaidChecked
  <2> QED BY <2>1, <2>2
<1> QED BY <1>1, PrefixChecked

\* A chain ends checked after an approval by somebody else, and stays so
\* while it is exported.
LEMMA AppendChecked ==
    ASSUME NEW chain \in Seq(Event), NEW e \in Event, NEW c,
           \/ e.to = "approved" /\ e.actor # c
           \/ e.to = "exported" /\ EndsChecked(chain, c, Len(chain))
    PROVE  EndsChecked(Append(chain, e), c, Len(chain) + 1)
<1> DEFINE longer == Append(chain, e)
<1>0. Len(chain) \in Nat /\ longer[Len(chain) + 1] = e
  BY AppendFacts
<1>1. CASE e.to = "approved" /\ e.actor # c
  <2>1. Len(chain) + 1 \in 1..(Len(chain) + 1)
    BY <1>0
  <2>2. \A k \in (Len(chain) + 1 + 1)..(Len(chain) + 1) : longer[k].to = "exported"
    BY <1>0
  <2> QED BY <1>0, <1>1, <2>1, <2>2 DEF EndsChecked
<1>2. CASE e.to = "exported" /\ EndsChecked(chain, c, Len(chain))
  <2>1. EndsChecked(longer, c, Len(chain))
    <3>1. Len(chain) \in 0..Len(chain)
      BY <1>0
    <3> QED BY <1>2, <3>1, PrefixChecked
  <2>2. PICK m \in 1..Len(chain) : /\ longer[m].to = "approved"
                                   /\ longer[m].actor # c
                                   /\ \A k \in (m + 1)..Len(chain) : longer[k].to = "exported"
    BY <2>1 DEF EndsChecked
  <2>3. ASSUME NEW k \in (m + 1)..(Len(chain) + 1) PROVE longer[k].to = "exported"
    <3>1. CASE k = Len(chain) + 1
      BY <3>1, <1>0, <1>2
    <3>2. CASE k # Len(chain) + 1
      BY <3>2, <2>2, <1>0
    <3> QED BY <3>1, <3>2
  <2>4. m \in 1..(Len(chain) + 1)
    BY <1>0
  <2> QED BY <2>2, <2>3, <2>4 DEF EndsChecked
<1> QED BY <1>1, <1>2

-----------------------------------------------------------------------------
(* The inductive invariant.                                                *)

LEMMA InitInv == Init => SettlementInv
<1> SUFFICES ASSUME Init PROVE SettlementInv
  OBVIOUS
<1> USE SettlementAssumption DEF Init
<1>1. TypeOK
  BY DEF TypeOK, SettlementStatuses
<1>2. RequestInv
  BY DEF RequestInv
<1>3. ASSUME NEW p \in Periods PROVE BatchInv(p)
  <2>1. events[p] = <<>> /\ status[p] = "absent"
    OBVIOUS
  <2>2. HistoryOf(events[p], status[p])
    BY <2>1 DEF HistoryOf
  <2>3. PaidChecked(events[p], createdBy[p])
    BY <2>1 DEF PaidChecked
  <2> QED BY <2>1, <2>2, <2>3 DEF BatchInv
<1> QED BY <1>1, <1>2, <1>3 DEF SettlementInv

\* Every workflow operation moves one batch along SettlementTransitions and
\* appends the event that says so.
LEMMA BatchMove ==
    ASSUME TypeOK, NEW p \in Periods, BatchInv(p), NEW s, NEW a \in Actors,
           Become(p, s), AppendSettlementEvent(p, status[p], s, a),
           createdBy' = createdBy, lines' = lines,
           s = "approved" => a # createdBy[p],
           openDispute'[p] <=> s = "disputed",
           adjustments'[p] = IF s = "reversed" THEN 1 ELSE 0
    PROVE  BatchInv(p)' /\ s \in SettlementStatuses \ {"absent"} /\ status[p] # "absent"
<1> DEFINE chain == events[p]
           e == [from |-> status[p], to |-> s, actor |-> a]
<1>1. status[p] \in SettlementStatuses /\ s \in SettlementTransitions[status[p]]
  BY DEF TypeOK, Become, MayBecome
<1>2. s \in SettlementStatuses \ {"absent"} /\ status[p] # "absent"
  BY <1>1 DEF SettlementTransitions, SettlementStatuses
<1>3. status' = [status EXCEPT ![p] = s] /\ events' = [events EXCEPT ![p] = Append(chain, e)]
  BY DEF Become, AppendSettlementEvent
<1>4. status'[p] = s /\ events'[p] = Append(chain, e)
  BY <1>3 DEF TypeOK
<1>5. chain \in Seq(Event) /\ e \in Event
  BY <1>1, <1>2 DEF TypeOK, Event
<1>6. Len(Append(chain, e)) = Len(chain) + 1
  BY <1>5, AppendFacts
<1>7. HistoryOf(Append(chain, e), s)
  <2>1. HistoryOf(chain, status[p]) /\ e.from = status[p] /\ e.to = s
    BY DEF BatchInv
  <2>2. HistoryOf(Append(chain, e), e.to)
    BY <1>5, <2>1, AppendHistory
  <2> QED BY <2>1, <2>2
<1>8. PaidChecked(Append(chain, e), createdBy[p])
  <2>1. e.to = "paid" => EndsChecked(chain, createdBy[p], Len(chain))
    <3>1. s = "paid" => status[p] = "exported"
      BY <1>1 DEF SettlementTransitions, SettlementStatuses
    <3> QED BY <3>1 DEF BatchInv
  <2>2. PaidChecked(chain, createdBy[p])
    BY DEF BatchInv
  <2> QED BY <1>5, <2>1, <2>2, AppendPaid
<1>9. s \in {"approved", "exported"} =>
        EndsChecked(Append(chain, e), createdBy[p], Len(chain) + 1)
  <2>1. CASE s = "approved"
    <3>1. e.to = "approved" /\ e.actor # createdBy[p]
      BY <2>1
    <3> QED BY <1>5, <3>1, AppendChecked
  <2>2. CASE s = "exported"
    <3>1. status[p] = "approved"
      BY <2>2, <1>1 DEF SettlementTransitions, SettlementStatuses
    <3>2. e.to = "exported" /\ EndsChecked(chain, createdBy[p], Len(chain))
      BY <2>2, <3>1 DEF BatchInv
    <3> QED BY <1>5, <3>2, AppendChecked
  <2> QED BY <2>1, <2>2
<1>10. lines[p] # {}
  BY <1>2 DEF BatchInv
<1> QED BY <1>2, <1>4, <1>6, <1>7, <1>8, <1>9, <1>10 DEF BatchInv

\* A step that touches one batch leaves the invariant of the others alone.
LEMMA OtherBatches ==
    ASSUME TypeOK, NEW p \in Periods, NEW q \in Periods \ {p}, BatchInv(q),
           status'[q] = status[q], events'[q] = events[q], createdBy'[q] = createdBy[q],
           lines'[q] = lines[q], openDispute'[q] = openDispute[q],
           adjustments'[q] = adjustments[q]
    PROVE  BatchInv(q)'
BY DEF BatchInv

LEMMA SameBatches ==
    ASSUME SettlementInv, UNCHANGED batchVars
    PROVE  \A p \in Periods : BatchInv(p)'
BY DEF SettlementInv, BatchInv, batchVars

\* What all workflow operations have in common keeps the invariant.
LEMMA WorkflowStep ==
    ASSUME SettlementInv, NEW p \in Periods, NEW s, NEW a \in Actors,
           Become(p, s), AppendSettlementEvent(p, status[p], s, a),
           UNCHANGED <<trades, reading, requestVars, createdBy, lines>>,
           s = "approved" => a # createdBy[p],
           openDispute' = [openDispute EXCEPT ![p] = (s = "disputed")],
           adjustments' = [adjustments EXCEPT ![p] = IF s = "reversed" THEN 1 ELSE 0],
           approvedBy' \in [Periods -> Actors \cup {NoActor}],
           exported' \in [Periods -> SUBSET Exports]
    PROVE  SettlementInv'
<1>1. TypeOK /\ BatchInv(p)
  BY DEF SettlementInv
<1>2. openDispute'[p] <=> s = "disputed"
  BY <1>1 DEF TypeOK
<1>3. adjustments'[p] = IF s = "reversed" THEN 1 ELSE 0
  BY <1>1 DEF TypeOK
<1>4. BatchInv(p)' /\ s \in SettlementStatuses \ {"absent"}
  BY <1>1, <1>2, <1>3, BatchMove
<1>5. /\ status' = [status EXCEPT ![p] = s]
      /\ events' = [events EXCEPT ![p] =
                      Append(@, [from |-> status[p], to |-> s, actor |-> a])]
  BY DEF Become, AppendSettlementEvent
<1>6. ASSUME NEW q \in Periods PROVE BatchInv(q)'
  <2>1. CASE q = p
    BY <2>1, <1>4
  <2>2. CASE q # p
    <3>1. BatchInv(q) /\ q \in Periods \ {p}
      BY <2>2 DEF SettlementInv
    <3>2. /\ status'[q] = status[q] /\ events'[q] = events[q]
          /\ openDispute'[q] = openDispute[q] /\ adjustments'[q] = adjustments[q]
      BY <2>2, <1>1, <1>5 DEF TypeOK
    <3> QED BY <1>1, <3>1, <3>2, OtherBatches
  <2> QED BY <2>1, <2>2
<1>7. TypeOK'
  <2>1. events' \in [Periods -> Seq(Event)]
    <3>1. [from |-> status[p], to |-> s, actor |-> a] \in Event
      BY <1>1, <1>4 DEF TypeOK, Event
    <3>2. Append(events[p], [from |-> status[p], to |-> s, actor |-> a]) \in Seq(Event)
      BY <1>1, <3>1, AppendFacts DEF TypeOK
    <3> QED BY <1>1, <1>5, <3>2 DEF TypeOK
  <2>2. status' \in [Periods -> SettlementStatuses]
    BY <1>1, <1>4, <1>5 DEF TypeOK
  <2>3. adjustments' \in [Periods -> 0..1] /\ openDispute' \in [Periods -> BOOLEAN]
    BY <1>1 DEF TypeOK
  <2> QED BY <1>1, <2>1, <2>2, <2>3 DEF TypeOK, requestVars
<1>8. RequestInv'
  BY DEF SettlementInv, RequestInv, requestVars
<1> QED BY <1>6, <1>7, <1>8 DEF SettlementInv

\* Requests that calculate, or give up, leave the batches alone.
LEMMA ReadingStep ==
    ASSUME SettlementInv, NEW r \in Requests,
           \/ \E a \in Actors, p \in Periods : SelectTrades(r, a, p)
           \/ \E t \in Trades : CalculateLine(r, t)
           \/ AbandonRequest(r)
    PROVE  SettlementInv'
<1>0. TypeOK /\ RequestInv
  BY DEF SettlementInv
<1>1. UNCHANGED batchVars
  BY DEF SelectTrades, CalculateLine, AbandonRequest
<1>2. \A p \in Periods : BatchInv(p)'
  BY <1>1, SameBatches
<1>3. TypeOK' /\ RequestInv'
  <2>1. CASE \E a \in Actors, p \in Periods : SelectTrades(r, a, p)
    <3>1. PICK a \in Actors, p \in Periods : SelectTrades(r, a, p)
      BY <2>1
    <3>2. TypeOK'
      BY <3>1, <1>0 DEF TypeOK, SelectTrades, batchVars
    <3>3. RequestInv'
      BY <3>1, <1>0 DEF TypeOK, RequestInv, SelectTrades
    <3> QED BY <3>2, <3>3
  <2>2. CASE \E t \in Trades : CalculateLine(r, t)
    <3>1. PICK t \in Trades : CalculateLine(r, t)
      BY <2>2
    <3> DEFINE line == [trade |-> t, evidence |-> Evidence(t)]
    <3>2. line \in Line
      BY <1>0, SettlementAssumption DEF TypeOK, Line, Evidence
    <3>3. /\ todo' = [todo EXCEPT ![r] = @ \ {t}]
          /\ found' = [found EXCEPT ![r] = @ \cup {line}]
      BY <3>1 DEF CalculateLine
    <3>4. TypeOK'
      <4> HIDE DEF line
      <4> QED BY <3>1, <3>2, <3>3, <1>0 DEF TypeOK, CalculateLine, batchVars
    <3>5. RequestInv'
      <4> HIDE DEF line
      <4> QED BY <3>1, <3>3, <1>0 DEF TypeOK, RequestInv, CalculateLine
    <3> QED BY <3>4, <3>5
  <2>3. CASE AbandonRequest(r)
    <3>1. TypeOK'
      BY <2>3, <1>0 DEF TypeOK, AbandonRequest, EndRequest, batchVars
    <3>2. RequestInv'
      BY <2>3, <1>0 DEF TypeOK, RequestInv, AbandonRequest, EndRequest
    <3> QED BY <3>1, <3>2
  <2> QED BY <2>1, <2>2, <2>3
<1> QED BY <1>2, <1>3 DEF SettlementInv

\* The first request to insert founds the batch and its chain.
LEMMA InsertStep ==
    ASSUME SettlementInv, NEW r \in Requests, InsertBatch(r)
    PROVE  SettlementInv'
<1> DEFINE e == [from |-> "absent", to |-> "review", actor |-> maker[r]]
<1>0. TypeOK /\ RequestInv
  BY DEF SettlementInv
<1>p. PICK p \in Periods : p = period[r]
  BY <1>0 DEF InsertBatch, TypeOK
<1>1. status[p] = "absent" /\ found[r] # {} /\ maker[r] \in Actors
  BY <1>0, <1>p DEF InsertBatch, TypeOK, RequestInv
<1>2. BatchInv(p) /\ events[p] = <<>>
  BY <1>1 DEF SettlementInv, BatchInv
<1>3. /\ status' = [status EXCEPT ![p] = "review"]
      /\ createdBy' = [createdBy EXCEPT ![p] = maker[r]]
      /\ lines' = [lines EXCEPT ![p] = found[r]]
      /\ events' = [events EXCEPT ![p] = Append(<<>>, e)]
      /\ UNCHANGED <<trades, reading, approvedBy, openDispute, exported, adjustments>>
      /\ EndRequest(r)
  BY <1>2, <1>p DEF InsertBatch, AppendSettlementEvent
<1>4. e \in Event /\ e.to = "review" /\ e.from = "absent" /\ <<>> \in Seq(Event)
  BY <1>1 DEF Event, SettlementStatuses
<1>5. events'[p] = Append(<<>>, e) /\ status'[p] = "review" /\ lines'[p] = found[r]
      /\ createdBy'[p] = maker[r] /\ Len(Append(<<>>, e)) = 1
  BY <1>0, <1>1, <1>3 DEF TypeOK
<1>6. BatchInv(p)'
  <2>1. HistoryOf(<<>>, "absent") /\ PaidChecked(<<>>, maker[r])
    BY DEF HistoryOf, PaidChecked
  <2>2. HistoryOf(Append(<<>>, e), "review")
    <3>1. HistoryOf(Append(<<>>, e), e.to)
      BY <1>4, <2>1, AppendHistory
    <3> QED BY <3>1, <1>4
  <2>3. PaidChecked(Append(<<>>, e), maker[r])
    BY <1>4, <2>1, AppendPaid
  <2>4. openDispute'[p] = FALSE /\ adjustments'[p] = 0
    BY <1>1, <1>2, <1>3, <1>0 DEF BatchInv, TypeOK
  <2> QED BY <1>1, <1>5, <2>2, <2>3, <2>4 DEF BatchInv
<1>7. ASSUME NEW q \in Periods PROVE BatchInv(q)'
  <2>1. CASE q = p
    BY <2>1, <1>6
  <2>2. CASE q # p
    <3>1. BatchInv(q) /\ q \in Periods \ {p}
      BY <2>2 DEF SettlementInv
    <3>2. /\ status'[q] = status[q] /\ events'[q] = events[q] /\ createdBy'[q] = createdBy[q]
          /\ lines'[q] = lines[q] /\ openDispute'[q] = openDispute[q]
          /\ adjustments'[q] = adjustments[q]
      BY <2>2, <1>0, <1>1, <1>3 DEF TypeOK
    <3> QED BY <1>0, <1>1, <3>1, <3>2, OtherBatches
  <2> QED BY <2>1, <2>2
<1>8. TypeOK'
  <2>1. Append(<<>>, e) \in Seq(Event)
    BY <1>4, AppendFacts
  <2>2. events' \in [Periods -> Seq(Event)]
    BY <2>1, <1>0, <1>1, <1>3 DEF TypeOK
  <2>3. /\ status' \in [Periods -> SettlementStatuses]
        /\ createdBy' \in [Periods -> Actors \cup {NoActor}]
        /\ lines' \in [Periods -> SUBSET Line]
    BY <1>0, <1>1, <1>3 DEF TypeOK, SettlementStatuses
  <2>4. /\ period' \in [Requests -> Periods \cup {NoPeriod}]
        /\ maker' \in [Requests -> Actors \cup {NoActor}]
        /\ todo' \in [Requests -> SUBSET Trades]
        /\ found' \in [Requests -> SUBSET Line]
    BY <1>0, <1>3 DEF TypeOK, EndRequest
  <2> QED BY <1>0, <1>3, <2>2, <2>3, <2>4 DEF TypeOK
<1>9. RequestInv'
  BY <1>0, <1>3 DEF TypeOK, RequestInv, EndRequest
<1> QED BY <1>7, <1>8, <1>9 DEF SettlementInv

-----------------------------------------------------------------------------
(* Every step, one lemma per workflow operation.                           *)

\* What the invariant says of the row an operation is about to move.
LEMMA RowFacts ==
    ASSUME SettlementInv, NEW p \in Periods, NEW s, MayBecome(p, s)
    PROVE  /\ openDispute \in [Periods -> BOOLEAN]
           /\ adjustments \in [Periods -> 0..1]
           /\ openDispute[p] <=> status[p] = "disputed"
           /\ adjustments[p] = IF status[p] = "reversed" THEN 1 ELSE 0
           /\ s = "approved" => status[p] = "review"
           /\ s = "exported" => status[p] = "approved"
           /\ s = "paid" => status[p] = "exported"
           /\ s = "reversed" => status[p] = "paid"
           /\ s \in {"review", "failed"} => status[p] \in {"disputed", "review"}
           /\ status[p] # "reversed"
<1>1. status[p] \in SettlementStatuses /\ s \in SettlementTransitions[status[p]]
  BY DEF SettlementInv, TypeOK, MayBecome
<1>2. /\ openDispute \in [Periods -> BOOLEAN] /\ adjustments \in [Periods -> 0..1]
      /\ openDispute[p] <=> status[p] = "disputed"
      /\ adjustments[p] = IF status[p] = "reversed" THEN 1 ELSE 0
  BY DEF SettlementInv, TypeOK, BatchInv
<1>3. /\ s = "approved" => status[p] = "review"
      /\ s = "exported" => status[p] = "approved"
      /\ s = "paid" => status[p] = "exported"
      /\ s = "reversed" => status[p] = "paid"
      /\ s \in {"review", "failed"} => status[p] \in {"disputed", "review"}
      /\ status[p] # "reversed"
  BY <1>1 DEF SettlementTransitions, SettlementStatuses
<1> QED BY <1>2, <1>3

LEMMA ApproveStep ==
    ASSUME SettlementInv, NEW p \in Periods, NEW a \in Actors, ApproveSettlementBatch(p, a)
    PROVE  SettlementInv'
<1>1. MayBecome(p, "approved")
  BY DEF ApproveSettlementBatch, Become
<1>2. /\ openDispute' = [openDispute EXCEPT ![p] = ("approved" = "disputed")]
      /\ adjustments' = [adjustments EXCEPT ![p] = IF "approved" = "reversed" THEN 1 ELSE 0]
  BY <1>1, RowFacts DEF ApproveSettlementBatch
<1>3. approvedBy' \in [Periods -> Actors \cup {NoActor}] /\ exported' \in [Periods -> SUBSET Exports]
  BY DEF ApproveSettlementBatch, SettlementInv, TypeOK
<1>4. /\ Become(p, "approved") /\ AppendSettlementEvent(p, status[p], "approved", a)
      /\ UNCHANGED <<trades, reading, requestVars, createdBy, lines>>
      /\ a # createdBy[p]
  BY DEF ApproveSettlementBatch
<1> QED BY <1>2, <1>3, <1>4, WorkflowStep

LEMMA DisputeStep ==
    ASSUME SettlementInv, NEW p \in Periods, NEW a \in Actors, DisputeSettlementBatch(p, a)
    PROVE  SettlementInv'
<1>1. MayBecome(p, "disputed")
  BY DEF DisputeSettlementBatch, Become
<1>2. /\ openDispute' = [openDispute EXCEPT ![p] = ("disputed" = "disputed")]
      /\ adjustments' = [adjustments EXCEPT ![p] = IF "disputed" = "reversed" THEN 1 ELSE 0]
  BY <1>1, RowFacts DEF DisputeSettlementBatch
<1>3. approvedBy' \in [Periods -> Actors \cup {NoActor}] /\ exported' \in [Periods -> SUBSET Exports]
  BY DEF DisputeSettlementBatch, SettlementInv, TypeOK
<1>4. /\ Become(p, "disputed") /\ AppendSettlementEvent(p, status[p], "disputed", a)
      /\ UNCHANGED <<trades, reading, requestVars, createdBy, lines>>
  BY DEF DisputeSettlementBatch
<1> QED BY <1>2, <1>3, <1>4, WorkflowStep

LEMMA ResolveStep ==
    ASSUME SettlementInv, NEW p \in Periods, NEW a \in Actors, NEW y \in BOOLEAN,
           ResolveSettlementDispute(p, a, y)
    PROVE  SettlementInv'
<1>0. PICK s \in {"review", "failed"} : s = IF y THEN "review" ELSE "failed"
  OBVIOUS
<1>1. /\ Become(p, s) /\ MayBecome(p, s) /\ openDispute[p]
      /\ openDispute' = [openDispute EXCEPT ![p] = FALSE]
      /\ AppendSettlementEvent(p, "disputed", s, a)
      /\ UNCHANGED <<trades, reading, requestVars, createdBy, approvedBy, lines, exported, adjustments>>
  BY <1>0 DEF ResolveSettlementDispute, Become
<1>2. status[p] = "disputed"
  BY <1>1, RowFacts
<1>3. /\ openDispute' = [openDispute EXCEPT ![p] = (s = "disputed")]
      /\ adjustments' = [adjustments EXCEPT ![p] = IF s = "reversed" THEN 1 ELSE 0]
  BY <1>0, <1>1, RowFacts
<1>4. approvedBy' \in [Periods -> Actors \cup {NoActor}] /\ exported' \in [Periods -> SUBSET Exports]
  BY <1>1 DEF SettlementInv, TypeOK
<1>5. AppendSettlementEvent(p, status[p], s, a) /\ s # "approved"
  BY <1>0, <1>1, <1>2
<1>6. UNCHANGED <<trades, reading, requestVars, createdBy, lines>>
  BY <1>1
<1> QED BY <1>1, <1>3, <1>4, <1>5, <1>6, WorkflowStep

LEMMA ExportStep ==
    ASSUME SettlementInv, NEW p \in Periods, NEW a \in Actors, NEW x \in Exports,
           ExportSettlementBatch(p, a, x)
    PROVE  SettlementInv'
<1>1. MayBecome(p, "exported")
  BY DEF ExportSettlementBatch, Become
<1>2. /\ openDispute' = [openDispute EXCEPT ![p] = ("exported" = "disputed")]
      /\ adjustments' = [adjustments EXCEPT ![p] = IF "exported" = "reversed" THEN 1 ELSE 0]
  BY <1>1, RowFacts DEF ExportSettlementBatch
<1>3. approvedBy' \in [Periods -> Actors \cup {NoActor}] /\ exported' \in [Periods -> SUBSET Exports]
  BY DEF ExportSettlementBatch, SettlementInv, TypeOK
<1>4. AppendSettlementEvent(p, status[p], "exported", a)
  BY <1>1, RowFacts DEF ExportSettlementBatch
<1>5. Become(p, "exported") /\ UNCHANGED <<trades, reading, requestVars, createdBy, lines>>
  BY DEF ExportSettlementBatch
<1> QED BY <1>2, <1>3, <1>4, <1>5, WorkflowStep

LEMMA PayStep ==
    ASSUME SettlementInv, NEW p \in Periods, NEW a \in Actors, MarkSettlementPaid(p, a)
    PROVE  SettlementInv'
<1>1. MayBecome(p, "paid")
  BY DEF MarkSettlementPaid, Become
<1>2. /\ openDispute' = [openDispute EXCEPT ![p] = ("paid" = "disputed")]
      /\ adjustments' = [adjustments EXCEPT ![p] = IF "paid" = "reversed" THEN 1 ELSE 0]
  BY <1>1, RowFacts DEF MarkSettlementPaid
<1>3. approvedBy' \in [Periods -> Actors \cup {NoActor}] /\ exported' \in [Periods -> SUBSET Exports]
  BY DEF MarkSettlementPaid, SettlementInv, TypeOK
<1>4. AppendSettlementEvent(p, status[p], "paid", a)
  BY <1>1, RowFacts DEF MarkSettlementPaid
<1>5. Become(p, "paid") /\ UNCHANGED <<trades, reading, requestVars, createdBy, lines>>
  BY DEF MarkSettlementPaid
<1> QED BY <1>2, <1>3, <1>4, <1>5, WorkflowStep

LEMMA ReverseStep ==
    ASSUME SettlementInv, NEW p \in Periods, NEW a \in Actors, ReverseSettlementBatch(p, a)
    PROVE  SettlementInv'
<1>1. MayBecome(p, "reversed")
  BY DEF ReverseSettlementBatch, Become
<1>2. /\ openDispute' = [openDispute EXCEPT ![p] = ("reversed" = "disputed")]
      /\ adjustments' = [adjustments EXCEPT ![p] = IF "reversed" = "reversed" THEN 1 ELSE 0]
  <2>1. status[p] = "paid" /\ adjustments[p] = 0 /\ openDispute[p] = FALSE
        /\ openDispute \in [Periods -> BOOLEAN]
    BY <1>1, RowFacts
  <2>2. /\ openDispute' = openDispute
        /\ adjustments' = [adjustments EXCEPT ![p] = adjustments[p] + 1]
    BY DEF ReverseSettlementBatch
  <2> QED BY <2>1, <2>2
<1>3. approvedBy' \in [Periods -> Actors \cup {NoActor}] /\ exported' \in [Periods -> SUBSET Exports]
  BY DEF ReverseSettlementBatch, SettlementInv, TypeOK
<1>4. AppendSettlementEvent(p, status[p], "reversed", a)
  BY <1>1, RowFacts DEF ReverseSettlementBatch
<1>5. Become(p, "reversed") /\ UNCHANGED <<trades, reading, requestVars, createdBy, lines>>
  BY DEF ReverseSettlementBatch
<1> QED BY <1>2, <1>3, <1>4, <1>5, WorkflowStep

LEMMA NextInv == SettlementInv /\ [Next]_vars => SettlementInv'
<1> SUFFICES ASSUME SettlementInv, [Next]_vars PROVE SettlementInv'
  OBVIOUS
<1>1. CASE \E t \in Trades : RecordTrade(t)
  <2>1. UNCHANGED batchVars /\ UNCHANGED <<reading, requestVars>> /\ trades' \subseteq Trades
    BY <1>1 DEF SettlementInv, TypeOK, RecordTrade
  <2>2. TypeOK'
    BY <2>1 DEF SettlementInv, TypeOK, requestVars, batchVars
  <2>3. RequestInv'
    BY <2>1 DEF SettlementInv, RequestInv, requestVars
  <2> QED BY <2>1, <2>2, <2>3, SameBatches DEF SettlementInv
<1>2. CASE \E i \in Intervals : IngestMeterInterval(i)
  <2>1. PICK i \in Intervals : IngestMeterInterval(i)
    BY <1>2
  <2>2. reading' \in [Intervals -> 0..MaxReadings]
    BY <2>1, SettlementAssumption DEF SettlementInv, TypeOK, IngestMeterInterval
  <2>3. UNCHANGED batchVars /\ UNCHANGED <<trades, requestVars>>
    BY <2>1 DEF IngestMeterInterval
  <2>4. TypeOK'
    BY <2>2, <2>3 DEF SettlementInv, TypeOK, requestVars, batchVars
  <2>5. RequestInv'
    BY <2>3 DEF SettlementInv, RequestInv, requestVars
  <2> QED BY <2>3, <2>4, <2>5, SameBatches DEF SettlementInv
<1>3. ASSUME NEW r \in Requests,
             \/ \E a \in Actors, p \in Periods : SelectTrades(r, a, p)
             \/ \E t \in Trades : CalculateLine(r, t)
             \/ AbandonRequest(r)
      PROVE  SettlementInv'
  BY <1>3, ReadingStep
<1>4. CASE \E r \in Requests : InsertBatch(r)
  BY <1>4, InsertStep
<1>5. CASE \E p \in Periods, a \in Actors : ApproveSettlementBatch(p, a)
  BY <1>5, ApproveStep
<1>6. CASE \E p \in Periods, a \in Actors : DisputeSettlementBatch(p, a)
  BY <1>6, DisputeStep
<1>7. CASE \E p \in Periods, a \in Actors, y \in BOOLEAN : ResolveSettlementDispute(p, a, y)
  BY <1>7, ResolveStep
<1>8. CASE \E p \in Periods, a \in Actors, x \in Exports : ExportSettlementBatch(p, a, x)
  BY <1>8, ExportStep
<1>9. CASE \E p \in Periods, a \in Actors : MarkSettlementPaid(p, a)
  BY <1>9, PayStep
<1>10. CASE \E p \in Periods, a \in Actors : ReverseSettlementBatch(p, a)
  BY <1>10, ReverseStep
<1>11. CASE UNCHANGED vars
  <2>1. UNCHANGED batchVars /\ UNCHANGED <<trades, reading, requestVars>>
    BY <1>11 DEF vars
  <2>2. TypeOK'
    BY <2>1 DEF SettlementInv, TypeOK, requestVars, batchVars
  <2>3. RequestInv'
    BY <2>1 DEF SettlementInv, RequestInv, requestVars
  <2> QED BY <2>1, <2>2, <2>3, SameBatches DEF SettlementInv
<1> QED BY <1>1, <1>2, <1>3, <1>4, <1>5, <1>6, <1>7, <1>8, <1>9, <1>10, <1>11 DEF Next

\* The invariant holds throughout.
LEMMA Invariance == Spec => []SettlementInv
BY InitInv, NextInv, PTL DEF Spec

-----------------------------------------------------------------------------
(* The theorems.                                                           *)

\* Every variable keeps its type; a batch is reversed at most once.
THEOREM TypeCorrect == Spec => []TypeOK
BY Invariance, PTL DEF SettlementInv

\* The event chain of every batch retells its life up to its status.
THEOREM ChainIsHistoryHolds == Spec => []ChainIsHistory
<1>1. SettlementInv => ChainIsHistory
  BY DEF SettlementInv, BatchInv, HistoryOf, ChainIsHistory
<1> QED BY <1>1, Invariance, PTL

\* A batch waits in dispute exactly as long as a dispute is open.
THEOREM DisputedHasOpenDisputeHolds == Spec => []DisputedHasOpenDispute
<1>1. SettlementInv => DisputedHasOpenDispute
  BY DEF SettlementInv, BatchInv, DisputedHasOpenDispute
<1> QED BY <1>1, Invariance, PTL

\* Nothing is paid without a fresh approval by somebody other than the creator.
THEOREM PaymentWasCheckedHolds == Spec => []PaymentWasChecked
<1>1. SettlementInv => PaymentWasChecked
  BY DEF SettlementInv, BatchInv, PaidChecked, EndsChecked, PaymentWasChecked
<1> QED BY <1>1, Invariance, PTL

\* The refinement mapping of SP, with names the provers can take apart.
Endorsed == [p \in Periods |-> status[p] \in {"approved", "exported", "paid", "reversed"}]
Money == [p \in Periods |-> IF adjustments[p] > 0 THEN "refunded"
                            ELSE IF status[p] = "paid" THEN "paid" ELSE "none"]

\* A move of one batch moves the mapped variables of that batch alone.
LEMMA MappedMove ==
    ASSUME TypeOK, NEW p \in Periods, NEW s, status' = [status EXCEPT ![p] = s],
           NEW n \in {0, 1}, adjustments' = [adjustments EXCEPT ![p] = n]
    PROVE  /\ Endorsed' = [Endorsed EXCEPT ![p] = s \in {"approved", "exported", "paid", "reversed"}]
           /\ Money' = [Money EXCEPT ![p] = IF n > 0 THEN "refunded"
                                            ELSE IF s = "paid" THEN "paid" ELSE "none"]
<1>1. /\ status \in [Periods -> SettlementStatuses] /\ adjustments \in [Periods -> 0..1]
      /\ \A q \in Periods : status'[q] = IF q = p THEN s ELSE status[q]
      /\ \A q \in Periods : adjustments'[q] = IF q = p THEN n ELSE adjustments[q]
  BY DEF TypeOK
<1>2. Endorsed' = [Endorsed EXCEPT ![p] = s \in {"approved", "exported", "paid", "reversed"}]
  BY <1>1 DEF Endorsed
<1>3. Money' = [Money EXCEPT ![p] = IF n > 0 THEN "refunded"
                                    ELSE IF s = "paid" THEN "paid" ELSE "none"]
  BY <1>1 DEF Money
<1> QED BY <1>2, <1>3

\* A move along SettlementTransitions endorses, withdraws, pays or refunds.
LEMMA WorkflowPromise ==
    ASSUME SettlementInv, NEW p \in Periods, NEW s, Become(p, s), lines' = lines,
           adjustments' = [adjustments EXCEPT ![p] = IF s = "reversed" THEN 1 ELSE 0]
    PROVE  SP!PromiseNext
<1> DEFINE n == IF s = "reversed" THEN 1 ELSE 0
           endorsing == s \in {"approved", "exported", "paid", "reversed"}
<1>0. PICK m : m = IF s = "reversed" THEN "refunded" ELSE IF s = "paid" THEN "paid" ELSE "none"
  OBVIOUS
<1>1. TypeOK /\ status[p] \in SettlementStatuses /\ s \in SettlementTransitions[status[p]]
      /\ status' = [status EXCEPT ![p] = s]
  BY DEF SettlementInv, TypeOK, Become, MayBecome
<1>2. /\ Endorsed' = [Endorsed EXCEPT ![p] = endorsing]
      /\ Money' = [Money EXCEPT ![p] = m]
  <2>1. n \in {0, 1} /\ adjustments' = [adjustments EXCEPT ![p] = n]
    OBVIOUS
  <2>2. m = IF n > 0 THEN "refunded" ELSE IF s = "paid" THEN "paid" ELSE "none"
    BY <1>0
  <2> HIDE DEF n
  <2> QED BY <1>1, <2>1, <2>2, MappedMove
<1>3. /\ status[p] \notin {"absent", "reversed"}
      /\ s \in {"approved", "exported"} => status[p] \in {"review", "approved"}
      /\ s = "paid" <=> status[p] = "exported" /\ s # "disputed"
      /\ s = "reversed" <=> status[p] = "paid"
      /\ s \in {"approved", "exported", "paid", "reversed", "disputed", "review", "failed"}
  BY <1>1 DEF SettlementTransitions, SettlementStatuses
<1>4. lines[p] # {} /\ adjustments[p] = 0
  BY <1>3 DEF SettlementInv, BatchInv
<1>5. /\ Endorsed \in [Periods -> BOOLEAN] /\ Money \in [Periods -> {"none", "paid", "refunded"}]
      /\ Endorsed[p] = (status[p] \in {"approved", "exported", "paid", "reversed"})
      /\ Money[p] = IF status[p] = "paid" THEN "paid" ELSE "none"
  BY <1>4 DEF Endorsed, Money
<1>6. CASE s \in {"approved", "exported"}
  <2>1. Money[p] = "none" /\ Endorsed' = [Endorsed EXCEPT ![p] = TRUE]
    BY <1>2, <1>3, <1>5, <1>6
  <2>2. Money' = Money
    <3>1. Money' = [Money EXCEPT ![p] = m] /\ m = "none"
      BY <1>0, <1>2, <1>6
    <3> QED BY <3>1, <2>1, <1>5
  <2>3. SP!Endorse(p)
    BY <2>1, <2>2, <1>4 DEF SP!Endorse, Endorsed, Money
  <2> QED BY <2>3 DEF SP!PromiseNext
<1>7. CASE s \in {"disputed", "review", "failed"}
  <2>1. Money[p] = "none" /\ Endorsed' = [Endorsed EXCEPT ![p] = FALSE]
    <3>1. status[p] # "paid"
      BY <1>3, <1>7
    <3>2. endorsing = FALSE
      BY <1>7
    <3> HIDE DEF endorsing
    <3> QED BY <3>1, <3>2, <1>2, <1>5
  <2>2. Money' = Money
    <3>1. Money' = [Money EXCEPT ![p] = m] /\ m = "none"
      BY <1>0, <1>2, <1>7
    <3> QED BY <3>1, <2>1, <1>5
  <2>3. SP!Withdraw(p)
    BY <2>1, <2>2 DEF SP!Withdraw, Endorsed, Money
  <2> QED BY <2>3 DEF SP!PromiseNext
<1>8. CASE s = "paid"
  <2>1. Money[p] = "none" /\ Endorsed[p] /\ Money' = [Money EXCEPT ![p] = "paid"]
    BY <1>0, <1>2, <1>3, <1>5, <1>8
  <2>2. Endorsed' = Endorsed
    <3>1. Endorsed' = [Endorsed EXCEPT ![p] = TRUE] /\ Endorsed[p] = TRUE
      BY <1>2, <1>3, <1>5, <1>8
    <3> QED BY <3>1, <1>5
  <2>3. SP!Pay(p)
    BY <2>1, <2>2, <1>4 DEF SP!Pay, Endorsed, Money
  <2> QED BY <2>3 DEF SP!PromiseNext
<1>9. CASE s = "reversed"
  <2>1. Money[p] = "paid" /\ Money' = [Money EXCEPT ![p] = "refunded"]
    BY <1>0, <1>2, <1>3, <1>5, <1>9
  <2>2. Endorsed' = Endorsed
    <3>1. Endorsed' = [Endorsed EXCEPT ![p] = TRUE] /\ Endorsed[p] = TRUE
      BY <1>2, <1>3, <1>5, <1>9
    <3> QED BY <3>1, <1>5
  <2>3. SP!Refund(p)
    BY <2>1, <2>2 DEF SP!Refund, Endorsed, Money
  <2> QED BY <2>3 DEF SP!PromiseNext
<1> QED BY <1>3, <1>6, <1>7, <1>8, <1>9

\* The insertion makes the claim, and endorses nothing.
LEMMA InsertPromise ==
    ASSUME SettlementInv, NEW r \in Requests, InsertBatch(r)
    PROVE  SP!PromiseNext
<1>0. TypeOK /\ RequestInv
  BY DEF SettlementInv
<1>1. PICK p \in Periods : p = period[r]
  BY <1>0 DEF InsertBatch, TypeOK
<1>2. PICK c \in SUBSET Line : c = found[r]
  BY <1>0 DEF TypeOK
<1>3. /\ status[p] = "absent" /\ c # {} /\ lines[p] = {} /\ adjustments[p] = 0
      /\ lines' = [lines EXCEPT ![p] = c] /\ status' = [status EXCEPT ![p] = "review"]
      /\ adjustments' = adjustments
  BY <1>0, <1>1, <1>2 DEF InsertBatch, RequestInv, SettlementInv, BatchInv
<1>4. Endorsed' = Endorsed /\ Money' = Money
  <2>1. \A q \in Periods : status'[q] = IF q = p THEN "review" ELSE status[q]
    BY <1>0, <1>3 DEF TypeOK
  <2>2. Endorsed' = Endorsed
    BY <2>1, <1>3 DEF Endorsed
  <2>3. Money' = Money
    BY <2>1, <1>3 DEF Money
  <2> QED BY <2>2, <2>3
<1>5. SP!MakeClaim(p)
  BY <1>3, <1>4 DEF SP!MakeClaim, Endorsed, Money
<1> QED BY <1>5 DEF SP!PromiseNext

LEMMA PromiseStep == SettlementInv /\ [Next]_vars => [SP!PromiseNext]_SP!promiseVars
<1> SUFFICES ASSUME SettlementInv, [Next]_vars, ~UNCHANGED SP!promiseVars
             PROVE  SP!PromiseNext
  OBVIOUS
<1>1. ~UNCHANGED <<lines, status, adjustments>>
  <2>1. UNCHANGED <<lines, status, adjustments>> => UNCHANGED SP!promiseVars
    BY DEF SP!promiseVars
  <2> QED BY <2>1
<1>2. \/ \E r \in Requests : InsertBatch(r)
      \/ \E p \in Periods, a \in Actors :
           \/ ApproveSettlementBatch(p, a)
           \/ DisputeSettlementBatch(p, a)
           \/ \E y \in BOOLEAN : ResolveSettlementDispute(p, a, y)
           \/ \E x \in Exports : ExportSettlementBatch(p, a, x)
           \/ MarkSettlementPaid(p, a)
           \/ ReverseSettlementBatch(p, a)
  BY <1>1 DEF Next, RecordTrade, IngestMeterInterval, SelectTrades, CalculateLine,
              AbandonRequest, vars, batchVars
<1>3. CASE \E r \in Requests : InsertBatch(r)
  BY <1>3, InsertPromise
<1>4. ASSUME NEW p \in Periods, NEW a \in Actors,
             \/ ApproveSettlementBatch(p, a)
             \/ DisputeSettlementBatch(p, a)
             \/ \E y \in BOOLEAN : ResolveSettlementDispute(p, a, y)
             \/ \E x \in Exports : ExportSettlementBatch(p, a, x)
             \/ MarkSettlementPaid(p, a)
      PROVE  SP!PromiseNext
  <2>1. PICK s \in {"approved", "disputed", "review", "failed", "exported", "paid"} :
          Become(p, s) /\ lines' = lines /\ adjustments' = adjustments
    BY <1>4 DEF ApproveSettlementBatch, DisputeSettlementBatch, ResolveSettlementDispute,
                ExportSettlementBatch, MarkSettlementPaid
  <2>2. adjustments[p] = 0 /\ adjustments \in [Periods -> 0..1]
    BY <2>1, RowFacts DEF Become
  <2>3. adjustments' = [adjustments EXCEPT ![p] = IF s = "reversed" THEN 1 ELSE 0]
    BY <2>1, <2>2
  <2> QED BY <2>1, <2>3, WorkflowPromise
<1>5. ASSUME NEW p \in Periods, NEW a \in Actors, ReverseSettlementBatch(p, a)
      PROVE  SP!PromiseNext
  <2>1. Become(p, "reversed") /\ lines' = lines /\ adjustments' = [adjustments EXCEPT ![p] = @ + 1]
    BY <1>5 DEF ReverseSettlementBatch
  <2>2. adjustments[p] = 0
    BY <2>1, RowFacts DEF Become
  <2>3. adjustments' = [adjustments EXCEPT ![p] = IF "reversed" = "reversed" THEN 1 ELSE 0]
    BY <2>1, <2>2
  <2> QED BY <2>1, <2>3, WorkflowPromise
<1> QED BY <1>2, <1>3, <1>4, <1>5

\* Settlement batches implement SettlementPromise: a claim is never
\* rewritten, and money moves once each way, after endorsement.
THEOREM SettlementKeepsPromise == Spec => KeepsSettlementPromise
<1>1. ASSUME Init PROVE SP!PromiseInit
  <2>1. /\ lines = [p \in Periods |-> {}] /\ status = [p \in Periods |-> "absent"]
        /\ adjustments = [p \in Periods |-> 0]
    BY <1>1 DEF Init
  <2>2. Endorsed = [p \in Periods |-> FALSE]
    <3>1. Endorsed \in [Periods -> BOOLEAN]
      BY DEF Endorsed
    <3>2. ASSUME NEW p \in Periods PROVE ~Endorsed[p]
      <4>1. status[p] = "absent"
        BY <2>1
      <4>2. Endorsed[p] <=> status[p] \in {"approved", "exported", "paid", "reversed"}
        BY DEF Endorsed
      <4> QED BY <4>1, <4>2
    <3> QED BY <3>1, <3>2
  <2>3. Money = [p \in Periods |-> "none"]
    BY <2>1 DEF Money
  <2> QED BY <2>1, <2>2, <2>3 DEF SP!PromiseInit, Endorsed, Money
<1> QED BY <1>1, Invariance, PromiseStep, PTL DEF Spec, KeepsSettlementPromise, SP!PromiseSpec
=============================================================================
