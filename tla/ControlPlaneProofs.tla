------------------------- MODULE ControlPlaneProofs -------------------------
(* What a site gateway promises, for any number of events, replayers,       *)
(* messages, calls, connections and commands: its evidence comes through,   *)
(* its acknowledged telemetry is ingested, and it keeps track of its charge *)
(* points. Then what the components of the control plane promise when they  *)
(* are put side by side.                                                    *)
EXTENDS MCControlPlane, DecisionProofs, RecordProofs, FiniteSetTheorems,
        WellFoundedInduction, TLAPS

-----------------------------------------------------------------------------
(* OfflineEvidence. What replay in order rests on: a batch holds every older*)
(* record that is still unreplayed, and its first record is received before *)
(* it is marked.                                                            *)
SequencesTell ==
    /\ accepted = 1 .. lastSequence
    /\ IsFiniteSet(rows)
    /\ \A r \in rows : r.sequence <= lastSequence
    /\ \A r, s \in rows : r.sequence = s.sequence => r = s

BatchesArePrefixes ==
    \A p \in Replayers : \A r \in batch[p] :
        /\ r.sequence <= lastSequence
        /\ ~r.replayed
        /\ \A u \in Unreplayed : u.sequence < r.sequence => u \in batch[p]

UploadedIsReceived ==
    \A p \in Replayers :
        batch[p] # {} /\ uploaded[p] => First(batch[p]).sequence \in received

EvidenceInv ==
    /\ EvidenceTypeOK
    /\ SequencesTell
    /\ BatchesArePrefixes
    /\ UploadedIsReceived
    /\ EvidenceComesThrough

(* Records have a first one (industrial_edge.py:60-69, ORDER BY sequence).  *)
LEMMA FirstIsLeast ==
    ASSUME NEW S \in SUBSET Record, S # {}
    PROVE  First(S) \in S /\ \A s \in S : First(S).sequence <= s.sequence
<1> DEFINE T == {s.sequence : s \in S}
<1>1. T \subseteq Nat /\ T # {}
  BY EvidenceAssumption DEF Record
<1>2. PICK x \in T : \A y \in T : ~(<<y, x>> \in OpToRel(<, Nat))
  <2> HIDE DEF T
  <2>1. QED  BY <1>1, NatLessThanWellFounded, WFMin
<1>3. \A y \in T : ~(y < x)
  BY <1>1, <1>2 DEF OpToRel
<1>4. PICK r \in S : r.sequence = x  OBVIOUS
<1>5. \A s \in S : r.sequence <= s.sequence
  <2> SUFFICES ASSUME NEW s \in S PROVE r.sequence <= s.sequence  OBVIOUS
  <2>1. s.sequence \in T /\ s.sequence \in Nat /\ x \in Nat  BY <1>1
  <2> HIDE DEF T
  <2>2. QED  BY <1>3, <1>4, <2>1
<1>6. QED  BY <1>4, <1>5 DEF First

(* The query reads a prefix of what is unreplayed, of whatever length       *)
(* (industrial_edge.py:60-69).                                              *)
LEMMA PendingIsPrefix ==
    ASSUME EvidenceTypeOK, IsFiniteSet(rows), NEW limit \in Limits,
           NEW r \in Pending(limit), NEW u \in Unreplayed, u.sequence < r.sequence
    PROVE  u \in Pending(limit)
<1> DEFINE Before(x) == {s \in Unreplayed : s.sequence < x.sequence}
<1>1. IsFiniteSet(Before(r))
  <2>1. Before(r) \subseteq rows  BY DEF Unreplayed
  <2>2. QED  BY <2>1, FS_Subset
<1>2. Before(u) \subseteq Before(r)
  <2>1. \A s \in Unreplayed : s.sequence \in Nat
    BY EvidenceAssumption DEF EvidenceTypeOK, Unreplayed, Record
  <2>2. r \in Unreplayed  BY DEF Pending
  <2>3. QED  BY <2>1, <2>2
<1>3. Cardinality(Before(u)) <= Cardinality(Before(r)) /\ IsFiniteSet(Before(u))
  BY <1>1, <1>2, FS_Subset
<1>4. Cardinality(Before(r)) < limit  BY DEF Pending
<1>5. Cardinality(Before(u)) \in Nat /\ Cardinality(Before(r)) \in Nat /\ limit \in Nat
  BY <1>1, <1>3, FS_CardinalityType, EvidenceAssumption
<1>6. Cardinality(Before(u)) < limit
  <2> HIDE DEF Before
  <2>1. QED  BY <1>3, <1>4, <1>5
<1>7. QED  BY <1>6 DEF Pending

LEMMA EvidenceInitInv == EvidenceInit => EvidenceInv
<1> SUFFICES ASSUME EvidenceInit PROVE EvidenceInv  OBVIOUS
<1>1. EvidenceTypeOK
  BY EvidenceAssumption DEF EvidenceInit, EvidenceTypeOK
<1>2. SequencesTell  BY FS_EmptySet DEF EvidenceInit, SequencesTell
<1>3. BatchesArePrefixes /\ UploadedIsReceived
  BY DEF EvidenceInit, BatchesArePrefixes, UploadedIsReceived
<1>4. EvidenceComesThrough
  BY DEF EvidenceInit, EvidenceComesThrough, NoEvidenceLost, ReplayInOrder
<1>5. QED  BY <1>1, <1>2, <1>3, <1>4 DEF EvidenceInv

(* A new record is the last of all (industrial_edge.py:36-58).              *)
LEMMA AppendKeepsInv ==
    ASSUME EvidenceInv, NEW e \in Events, AppendEvidence(e)
    PROVE  EvidenceInv'
<1> USE EvidenceAssumption
<1>0. EvidenceTypeOK /\ SequencesTell /\ BatchesArePrefixes /\ UploadedIsReceived
      /\ NoEvidenceLost /\ ReplayInOrder
  BY DEF EvidenceInv, EvidenceComesThrough
<1>1. CASE UNCHANGED <<rows, lastSequence, accepted>>
  BY <1>0, <1>1 DEF AppendEvidence, EvidenceInv, EvidenceTypeOK, SequencesTell,
     BatchesArePrefixes,
     UploadedIsReceived, EvidenceComesThrough, NoEvidenceLost, ReplayInOrder, Unreplayed
<1>2. CASE ~UNCHANGED <<rows, lastSequence, accepted>>
  <2> DEFINE new == [sequence |-> lastSequence + 1, event |-> e, replayed |-> FALSE]
  <2>1. /\ lastSequence < MaxSequence /\ lastSequence' = lastSequence + 1
        /\ rows' = rows \cup {new} /\ accepted' = accepted \cup {lastSequence + 1}
        /\ UNCHANGED <<batch, uploaded, received>>
    BY <1>2 DEF AppendEvidence
  <2>2. lastSequence \in Nat /\ new \in Record /\ lastSequence' \in 0 .. MaxSequence
    BY <1>0, <2>1 DEF EvidenceTypeOK, Record
  <2>3. new.sequence = lastSequence + 1 /\ new.replayed = FALSE  OBVIOUS
  <2>4. \A r \in rows : r.sequence \in Nat /\ r.sequence <= lastSequence
    BY <1>0 DEF EvidenceTypeOK, Record, SequencesTell
  <2>5. \A p \in Replayers : \A r \in batch[p] : r.sequence \in Nat /\ r.sequence <= lastSequence
    BY <1>0 DEF EvidenceTypeOK, Record, BatchesArePrefixes
  <2>6. Unreplayed' = Unreplayed \cup {new}
    BY <2>1, <2>3 DEF Unreplayed
  <2> HIDE DEF new
  <2>7. EvidenceTypeOK'
    BY <1>0, <2>1, <2>2 DEF EvidenceTypeOK
  <2>8. SequencesTell'
    <3>1. IsFiniteSet(rows')  BY <1>0, <2>1, FS_AddElement DEF SequencesTell
    <3>2. accepted' = 1 .. lastSequence'  BY <1>0, <2>1, <2>2 DEF SequencesTell
    <3>3. \A r \in rows' : r.sequence <= lastSequence'
      BY <2>1, <2>2, <2>3, <2>4
    <3>4. ASSUME NEW r \in rows', NEW s \in rows', r.sequence = s.sequence
          PROVE  r = s
      <4>1. r \in rows /\ s \in rows => r = s  BY <1>0, <3>4 DEF SequencesTell
      <4>2. QED  BY <2>1, <2>2, <2>3, <2>4, <3>4, <4>1
    <3>5. QED  BY <3>1, <3>2, <3>3, <3>4 DEF SequencesTell
  <2>9. BatchesArePrefixes'
    <3> SUFFICES ASSUME NEW p \in Replayers, NEW r \in batch[p]
                 PROVE  /\ r.sequence <= lastSequence'
                        /\ ~r.replayed
                        /\ \A u \in Unreplayed' : u.sequence < r.sequence => u \in batch[p]
      BY <2>1 DEF BatchesArePrefixes
    <3>1. r.sequence <= lastSequence'  BY <2>1, <2>2, <2>5
    <3>2. ~r.replayed /\ \A u \in Unreplayed : u.sequence < r.sequence => u \in batch[p]
      BY <1>0 DEF BatchesArePrefixes
    <3>3. ~(new.sequence < r.sequence)  BY <2>2, <2>3, <2>5
    <3>4. QED  BY <2>6, <3>1, <3>2, <3>3
  <2>10. UploadedIsReceived'
    BY <1>0, <2>1 DEF UploadedIsReceived
  <2>11. NoEvidenceLost'
    BY <1>0, <2>1, <2>3, <2>6 DEF NoEvidenceLost
  <2>12. ReplayInOrder'
    <3>1. ASSUME NEW r \in rows', NEW s \in rows', r.replayed, ~s.replayed
          PROVE  r.sequence < s.sequence
      <4>1. r \in rows  BY <2>1, <2>3, <3>1
      <4>2. CASE s \in rows  BY <1>0, <3>1, <4>1, <4>2 DEF ReplayInOrder
      <4>3. CASE s = new  BY <2>2, <2>3, <2>4, <4>1, <4>3
      <4>4. QED  BY <2>1, <4>2, <4>3
    <3>2. \A s \in received' : 1 .. s \subseteq received'  BY <1>0, <2>1 DEF ReplayInOrder
    <3>3. QED  BY <3>1, <3>2 DEF ReplayInOrder
  <2>13. QED
    BY <2>7, <2>8, <2>9, <2>10, <2>11, <2>12 DEF EvidenceInv, EvidenceComesThrough
<1>3. QED  BY <1>1, <1>2

(* Reading takes a prefix (industrial_edge.py:60-69).                       *)
LEMMA ReadKeepsInv ==
    ASSUME EvidenceInv, NEW p \in Replayers, NEW limit \in Limits, ReadPending(p, limit)
    PROVE  EvidenceInv'
<1> USE EvidenceAssumption
<1>0. EvidenceTypeOK /\ SequencesTell /\ BatchesArePrefixes /\ UploadedIsReceived
      /\ NoEvidenceLost /\ ReplayInOrder
  BY DEF EvidenceInv, EvidenceComesThrough
<1>1. /\ batch' = [batch EXCEPT ![p] = Pending(limit)]
      /\ uploaded' = [uploaded EXCEPT ![p] = FALSE]
      /\ UNCHANGED <<rows, lastSequence, accepted, received>>
  BY DEF ReadPending
<1>2. Pending(limit) \subseteq Unreplayed /\ Unreplayed \subseteq rows /\ Unreplayed' = Unreplayed
  BY <1>1 DEF Pending, Unreplayed
<1>3. EvidenceTypeOK'
  BY <1>0, <1>1, <1>2 DEF EvidenceTypeOK
<1>4. BatchesArePrefixes'
  <2> SUFFICES ASSUME NEW q \in Replayers, NEW r \in batch'[q]
               PROVE  /\ r.sequence <= lastSequence
                      /\ ~r.replayed
                      /\ \A u \in Unreplayed : u.sequence < r.sequence => u \in batch'[q]
    BY <1>1, <1>2 DEF BatchesArePrefixes
  <2>1. CASE q = p
    <3>1. batch'[q] = Pending(limit)  BY <1>0, <1>1, <2>1 DEF EvidenceTypeOK
    <3>2. \A u \in Unreplayed : u.sequence < r.sequence => u \in Pending(limit)
      BY <1>0, <3>1, PendingIsPrefix DEF SequencesTell
    <3>3. r \in rows /\ ~r.replayed  BY <1>2, <3>1 DEF Unreplayed
    <3>4. QED  BY <1>0, <3>1, <3>2, <3>3 DEF SequencesTell
  <2>2. CASE q # p
    <3>1. batch'[q] = batch[q]  BY <1>0, <1>1, <2>2 DEF EvidenceTypeOK
    <3>2. QED  BY <1>0, <3>1 DEF BatchesArePrefixes
  <2>3. QED  BY <2>1, <2>2
<1>5. UploadedIsReceived'
  BY <1>0, <1>1 DEF UploadedIsReceived, EvidenceTypeOK
<1>6. SequencesTell' /\ NoEvidenceLost' /\ ReplayInOrder'
  BY <1>0, <1>1, <1>2 DEF SequencesTell, NoEvidenceLost, ReplayInOrder
<1>7. QED  BY <1>3, <1>4, <1>5, <1>6 DEF EvidenceInv, EvidenceComesThrough

(* What is uploaded is the oldest record that may be missing: every older   *)
(* one is received or would be in the batch (industrial_edge.py:60-79).     *)
LEMMA UploadKeepsInv ==
    ASSUME EvidenceInv, NEW p \in Replayers, Upload(p)
    PROVE  EvidenceInv'
<1> USE EvidenceAssumption
<1>0. EvidenceTypeOK /\ SequencesTell /\ BatchesArePrefixes /\ UploadedIsReceived
      /\ NoEvidenceLost /\ ReplayInOrder
  BY DEF EvidenceInv, EvidenceComesThrough
<1> DEFINE head == First(batch[p])
<1>1. /\ batch[p] # {} /\ uploaded' = [uploaded EXCEPT ![p] = TRUE]
      /\ received' = received \cup {head.sequence}
      /\ UNCHANGED <<rows, lastSequence, accepted, batch>>
  BY DEF Upload
<1>2. head \in batch[p] /\ \A s \in batch[p] : head.sequence <= s.sequence
  BY <1>0, <1>1, FirstIsLeast DEF EvidenceTypeOK
<1>3. head.sequence \in 1 .. lastSequence /\ lastSequence \in Nat
  BY <1>0, <1>2 DEF EvidenceTypeOK, Record, BatchesArePrefixes
<1> HIDE DEF head
<1>4. ASSUME NEW s \in 1 .. head.sequence, s # head.sequence
      PROVE  s \in received
  <2>1. s \in accepted /\ s < head.sequence /\ s \in Nat
    BY <1>0, <1>3, <1>4 DEF SequencesTell
  <2>2. CASE \E u \in Unreplayed : u.sequence = s
    <3>1. PICK u \in Unreplayed : u.sequence = s  BY <2>2
    <3>2. u \in batch[p]  BY <1>0, <1>2, <2>1, <3>1 DEF BatchesArePrefixes
    <3>3. QED  BY <1>2, <1>3, <2>1, <3>1, <3>2
  <2>3. QED  BY <1>0, <2>1, <2>2 DEF NoEvidenceLost
<1>5. Unreplayed' = Unreplayed  BY <1>1 DEF Unreplayed
<1>6. EvidenceTypeOK'
  BY <1>0, <1>1, <1>3 DEF EvidenceTypeOK
<1>7. SequencesTell' /\ BatchesArePrefixes'
  BY <1>0, <1>1, <1>5 DEF SequencesTell, BatchesArePrefixes
<1>8. UploadedIsReceived'
  BY <1>0, <1>1 DEF UploadedIsReceived, EvidenceTypeOK, head
<1>9. NoEvidenceLost'
  BY <1>0, <1>1, <1>5 DEF NoEvidenceLost
<1>10. ReplayInOrder'
  <2>1. \A s \in received' : 1 .. s \subseteq received'
    BY <1>0, <1>1, <1>4 DEF ReplayInOrder
  <2>2. QED  BY <1>0, <1>1, <2>1 DEF ReplayInOrder
<1>11. QED
  BY <1>6, <1>7, <1>8, <1>9, <1>10 DEF EvidenceInv, EvidenceComesThrough

(* The first of the batch is marked, and nothing unreplayed is older; a     *)
(* record that another replayer has marked ends the batch                   *)
(* (industrial_edge.py:71-79).                                              *)
LEMMA MarkKeepsInv ==
    ASSUME EvidenceInv, NEW p \in Replayers, MarkReplayed(p)
    PROVE  EvidenceInv'
<1> USE EvidenceAssumption
<1>0. EvidenceTypeOK /\ SequencesTell /\ BatchesArePrefixes /\ UploadedIsReceived
      /\ NoEvidenceLost /\ ReplayInOrder
  BY DEF EvidenceInv, EvidenceComesThrough
<1> DEFINE head == First(batch[p])
           marked == [head EXCEPT !.replayed = TRUE]
<1>1. /\ batch[p] # {} /\ uploaded[p] /\ uploaded' = [uploaded EXCEPT ![p] = FALSE]
      /\ UNCHANGED <<lastSequence, accepted, received>>
  BY DEF MarkReplayed
<1>2. head \in batch[p] /\ \A s \in batch[p] : head.sequence <= s.sequence
  BY <1>0, <1>1, FirstIsLeast DEF EvidenceTypeOK
<1>3. head \in Record /\ ~head.replayed /\ head.sequence \in received
  BY <1>0, <1>1, <1>2 DEF EvidenceTypeOK, BatchesArePrefixes, UploadedIsReceived
<1>4. marked \in Record /\ marked.replayed /\ marked.sequence = head.sequence
  BY <1>3 DEF Record
<1>5. CASE head \in rows
  <2>1. /\ rows' = (rows \ {head}) \cup {marked}
        /\ batch' = [batch EXCEPT ![p] = batch[p] \ {head}]
    BY <1>5 DEF MarkReplayed
  <2> HIDE DEF marked, head
  <2>2. Unreplayed' = Unreplayed \ {head}
    BY <1>3, <1>4, <2>1 DEF Unreplayed
  <2>3. \A q \in Replayers : batch'[q] = IF q = p THEN batch[p] \ {head} ELSE batch[q]
    BY <1>0, <2>1 DEF EvidenceTypeOK
  <2>4. EvidenceTypeOK'
    BY <1>0, <1>1, <1>4, <2>1 DEF EvidenceTypeOK
  <2>5. SequencesTell'
    <3>1. IsFiniteSet(rows')
      BY <1>0, <2>1, FS_Subset, FS_AddElement DEF SequencesTell
    <3>2. QED  BY <1>0, <1>1, <1>4, <1>5, <2>1, <3>1 DEF SequencesTell
  <2>6. BatchesArePrefixes'
    <3> SUFFICES ASSUME NEW q \in Replayers, NEW r \in batch'[q]
                 PROVE  /\ r.sequence <= lastSequence
                        /\ ~r.replayed
                        /\ \A u \in Unreplayed' : u.sequence < r.sequence => u \in batch'[q]
      BY <1>1 DEF BatchesArePrefixes
    <3>1. r \in batch[q]  BY <2>3
    <3>2. QED  BY <1>0, <2>2, <2>3, <3>1 DEF BatchesArePrefixes
  <2>7. UploadedIsReceived'
    BY <1>0, <1>1, <2>3 DEF UploadedIsReceived, EvidenceTypeOK
  <2>8. NoEvidenceLost'
    BY <1>0, <1>1, <1>3, <2>2 DEF NoEvidenceLost
  <2>9. ReplayInOrder'
    <3>1. ASSUME NEW r \in rows', NEW s \in rows', r.replayed, ~s.replayed
          PROVE  r.sequence < s.sequence
      <4>1. s \in rows /\ s # head /\ s \in Unreplayed  BY <1>4, <2>1, <3>1 DEF Unreplayed
      <4>2. CASE r \in rows  BY <1>0, <3>1, <4>1, <4>2 DEF ReplayInOrder
      <4>3. CASE r = marked
        <5>1. s.sequence # head.sequence  BY <1>0, <1>5, <4>1 DEF SequencesTell
        <5>2. s.sequence \in Nat /\ head.sequence \in Nat
          BY <1>0, <1>3, <4>1 DEF EvidenceTypeOK, Record
        <5>3. ~(s.sequence < head.sequence)
          BY <1>0, <1>2, <4>1, <5>2 DEF BatchesArePrefixes
        <5>4. QED  BY <1>4, <4>3, <5>1, <5>2, <5>3
      <4>4. QED  BY <2>1, <4>2, <4>3
    <3>2. QED  BY <1>0, <1>1, <3>1 DEF ReplayInOrder
  <2>10. QED
    BY <2>4, <2>5, <2>6, <2>7, <2>8, <2>9 DEF EvidenceInv, EvidenceComesThrough
<1>6. CASE head \notin rows
  <2>1. batch' = [batch EXCEPT ![p] = {}] /\ UNCHANGED rows
    BY <1>6 DEF MarkReplayed
  <2>2. QED
    BY <1>0, <1>1, <2>1 DEF EvidenceInv, EvidenceTypeOK, SequencesTell, BatchesArePrefixes,
       UploadedIsReceived, EvidenceComesThrough, NoEvidenceLost, ReplayInOrder, Unreplayed
<1>7. QED  BY <1>5, <1>6

(* The purge takes replayed records only (industrial_edge.py:81-86).        *)
LEMMA PurgeKeepsInv ==
    ASSUME EvidenceInv, PurgeReplayed
    PROVE  EvidenceInv'
<1>0. EvidenceTypeOK /\ SequencesTell /\ BatchesArePrefixes /\ UploadedIsReceived
      /\ NoEvidenceLost /\ ReplayInOrder
  BY DEF EvidenceInv, EvidenceComesThrough
<1>1. PICK gone \in SUBSET {r \in rows : r.replayed} : rows' = rows \ gone
  BY DEF PurgeReplayed
<1>2. UNCHANGED <<lastSequence, accepted, batch, uploaded, received>>
  BY DEF PurgeReplayed
<1>3. rows' \subseteq rows /\ Unreplayed' = Unreplayed
  BY <1>1 DEF Unreplayed
<1>4. IsFiniteSet(rows')  BY <1>0, <1>3, FS_Subset DEF SequencesTell
<1>5. EvidenceTypeOK' /\ SequencesTell'
  BY <1>0, <1>2, <1>3, <1>4 DEF EvidenceTypeOK, SequencesTell
<1>6. BatchesArePrefixes' /\ UploadedIsReceived'
  BY <1>0, <1>2, <1>3 DEF BatchesArePrefixes, UploadedIsReceived
<1>7. NoEvidenceLost' /\ ReplayInOrder'
  BY <1>0, <1>2, <1>3 DEF NoEvidenceLost, ReplayInOrder
<1>8. QED  BY <1>5, <1>6, <1>7 DEF EvidenceInv, EvidenceComesThrough

LEMMA EvidenceStepsKeepInv == EvidenceInv /\ [EvidenceNext]_evidenceVars => EvidenceInv'
<1> SUFFICES ASSUME EvidenceInv, [EvidenceNext]_evidenceVars PROVE EvidenceInv'  OBVIOUS
<1>1. ASSUME NEW p \in Replayers, ReplayerStops(p)
      PROVE  EvidenceInv'
  BY <1>1 DEF ReplayerStops, EvidenceInv, EvidenceTypeOK, SequencesTell, BatchesArePrefixes,
     UploadedIsReceived, EvidenceComesThrough, NoEvidenceLost, ReplayInOrder, Unreplayed
<1>2. CASE UNCHANGED evidenceVars
  BY <1>2 DEF evidenceVars, EvidenceInv, EvidenceTypeOK, SequencesTell, BatchesArePrefixes,
     UploadedIsReceived, EvidenceComesThrough, NoEvidenceLost, ReplayInOrder, Unreplayed
<1>3. QED
  BY <1>1, <1>2, AppendKeepsInv, ReadKeepsInv, UploadKeepsInv, MarkKeepsInv, PurgeKeepsInv
  DEF EvidenceNext

(* The buffer stays in its types (industrial_edge.py:18-34).                *)
THEOREM EvidenceTypeCorrect == EvidenceSpec => []EvidenceTypeOK
<1>1. EvidenceInv => EvidenceTypeOK  BY DEF EvidenceInv
<1>2. QED  BY <1>1, EvidenceInitInv, EvidenceStepsKeepInv, PTL DEF EvidenceSpec

(* Evidence comes through, all of it and in order, however many replayers   *)
(* overlap and wherever they stop (industrial_edge.py:36-86).               *)
THEOREM EvidenceComesThroughHolds == EvidenceSpec => []EvidenceComesThrough
<1>1. EvidenceInv => EvidenceComesThrough  BY DEF EvidenceInv
<1>2. QED  BY <1>1, EvidenceInitInv, EvidenceStepsKeepInv, PTL DEF EvidenceSpec

(* An append accepts the next record, an upload hands over the first one    *)
(* that has not arrived or one that has; nothing else is seen.              *)
LEMMA AppendAccepts ==
    ASSUME EvidenceInv, NEW e \in Events, AppendEvidence(e)
    PROVE  [EC!ChannelNext]_<<accepted, received>>
<1>1. CASE \E r \in rows : r.event = e
  BY <1>1 DEF AppendEvidence
<1>2. CASE ~\E r \in rows : r.event = e
  <2>1. /\ lastSequence < MaxSequence /\ lastSequence' = lastSequence + 1
        /\ accepted' = accepted \cup {lastSequence'} /\ received' = received
    BY <1>2 DEF AppendEvidence
  <2>2. lastSequence \in 0 .. MaxSequence /\ accepted = 1 .. lastSequence
    BY DEF EvidenceInv, EvidenceTypeOK, SequencesTell
  <2>3. lastSequence' \in 1 .. MaxSequence /\ \A m \in accepted : m < lastSequence'
    BY <2>1, <2>2, EvidenceAssumption
  <2>4. EC!Accept(lastSequence')  BY <2>1, <2>3 DEF EC!Accept
  <2>5. QED  BY <2>3, <2>4 DEF EC!ChannelNext
<1>3. QED  BY <1>1, <1>2

LEMMA UploadArrives ==
    ASSUME EvidenceInv, EvidenceInv', NEW p \in Replayers, Upload(p)
    PROVE  [EC!ChannelNext]_<<accepted, received>>
<1> DEFINE n == First(batch[p]).sequence
<1>1. batch[p] \in SUBSET Record /\ batch[p] # {}
  BY DEF Upload, EvidenceInv, EvidenceTypeOK
<1>2. First(batch[p]) \in batch[p] /\ n \in 1 .. MaxSequence
  BY <1>1, FirstIsLeast DEF Record
<1>3. n <= lastSequence  BY <1>2 DEF EvidenceInv, BatchesArePrefixes
<1>4. accepted = 1 .. lastSequence /\ lastSequence \in 0 .. MaxSequence
  BY DEF EvidenceInv, EvidenceTypeOK, SequencesTell
<1>5. accepted' = accepted /\ received' = received \cup {n}  BY DEF Upload
<1>6. 1 .. n \subseteq received'
  <2>1. \A s \in received' : 1 .. s \subseteq received'
    BY DEF EvidenceInv, EvidenceComesThrough, ReplayInOrder
  <2> HIDE DEF n
  <2>2. QED  BY <1>5, <2>1
<1> HIDE DEF n
<1>7. CASE n \in received
  BY <1>5, <1>7
<1>8. CASE n \notin received
  <2>1. n \in accepted \ received  BY <1>2, <1>3, <1>4, <1>8, EvidenceAssumption
  <2>2. ASSUME NEW m \in accepted, m < n PROVE m \in received
    <3>1. m \in 1 .. n  BY <1>2, <1>4, <2>2, EvidenceAssumption
    <3>2. m # n  BY <1>2, <1>4, <2>2, EvidenceAssumption
    <3>3. QED  BY <1>5, <1>6, <3>1, <3>2
  <2>3. EC!Arrive(n)  BY <1>5, <2>1, <2>2 DEF EC!Arrive
  <2>4. QED  BY <1>2, <2>3 DEF EC!ChannelNext
<1>9. QED  BY <1>7, <1>8

LEMMA EvidenceStepsArrive ==
    EvidenceInv /\ EvidenceInv' /\ [EvidenceNext]_evidenceVars
        => [EC!ChannelNext]_<<accepted, received>>
<1> SUFFICES ASSUME EvidenceInv, EvidenceInv', [EvidenceNext]_evidenceVars
             PROVE  [EC!ChannelNext]_<<accepted, received>>
  OBVIOUS
<1>1. ASSUME NEW p \in Replayers,
             (\E limit \in Limits : ReadPending(p, limit)) \/ MarkReplayed(p) \/ ReplayerStops(p)
      PROVE  UNCHANGED <<accepted, received>>
  BY <1>1 DEF ReadPending, MarkReplayed, ReplayerStops
<1>2. PurgeReplayed => UNCHANGED <<accepted, received>>  BY DEF PurgeReplayed
<1>3. UNCHANGED evidenceVars => UNCHANGED <<accepted, received>>  BY DEF evidenceVars
<1>4. QED  BY <1>1, <1>2, <1>3, AppendAccepts, UploadArrives DEF EvidenceNext

(* The buffer implements EvidenceChannel: whoever replays and wherever one  *)
(* stops, records arrive in the order they were accepted in, none is        *)
(* skipped and none taken back (industrial_edge.py:36-86).                  *)
THEOREM EvidenceKeepsPromise == EvidenceSpec => KeepsEvidencePromise
<1>1. EvidenceInit => EC!ChannelInit  BY DEF EvidenceInit, EC!ChannelInit
<1>2. QED
  BY <1>1, EvidenceInitInv, EvidenceStepsKeepInv, EvidenceStepsArrive, PTL
  DEF EvidenceSpec, KeepsEvidencePromise, EC!ChannelSpec, EC!channelVars

-----------------------------------------------------------------------------
(* ProtocolIngress. How far a call has come, its transactions have          *)
(* committed, whoever executed them.                                        *)
StagesAreCommitted ==
    \A c \in calls :
        /\ c.stage \in {"stored", "ingested"} => c.key \in protocolRows
        /\ c.stage = "ingested" /\ IsTelemetry(c.key.message) => c.key \in ingestLog

IngressInv == IngressTypeOK /\ StagesAreCommitted /\ AckedIsIngested

LEMMA IngressInitInv == IngressInit => IngressInv
<1> SUFFICES ASSUME IngressInit PROVE IngressInv  OBVIOUS
<1>1. IngressTypeOK  BY IngressAssumption DEF IngressInit, IngressTypeOK
<1>2. StagesAreCommitted /\ AckedIsIngested
  BY DEF IngressInit, StagesAreCommitted, AckedIsIngested
<1>3. QED  BY <1>1, <1>2 DEF IngressInv

(* A delivery starts a call of its own (edge_runtime.py:45-85, 143-155).    *)
LEMMA CallKeepsInv ==
    ASSUME IngressInv, NEW m \in Messages, Call(m)
    PROVE  IngressInv'
<1> DEFINE k == Key(m, deliveries + 1)
           c == [key |-> k, call |-> deliveries + 1, stage |-> "received"]
<1>1. /\ deliveries \in Nat /\ deliveries' = deliveries + 1 /\ deliveries' \in 1 .. MaxDeliveries
      /\ broker' = [broker EXCEPT ![m] = "delivered"]
      /\ waitingFor' = waitingFor \cup {deliveries + 1}
      /\ calls' = calls \cup {c} /\ UNCHANGED <<protocolRows, ingestLog>>
  BY IngressAssumption DEF IngressInv, IngressTypeOK, Call
<1>2. c \in Calls /\ c.stage = "received"
  <2>1. 0 \in 0 .. MaxDeliveries /\ deliveries + 1 \in 0 .. MaxDeliveries
    BY <1>1, IngressAssumption
  <2>2. k \in Keys
    BY <2>1 DEF Keys, Key
  <2>3. deliveries + 1 \in 1 .. MaxDeliveries  BY <1>1
  <2> HIDE DEF k
  <2>4. QED  BY <2>2, <2>3 DEF Calls
<1> HIDE DEF c
<1>3. IngressTypeOK'  BY <1>1, <1>2 DEF IngressInv, IngressTypeOK
<1>4. StagesAreCommitted'  BY <1>1, <1>2 DEF IngressInv, StagesAreCommitted
<1>5. AckedIsIngested'  BY <1>1 DEF IngressInv, IngressTypeOK, AckedIsIngested
<1>6. QED  BY <1>3, <1>4, <1>5 DEF IngressInv

LEMMA IngressStepsKeepInv == IngressInv /\ [IngressNext]_ingressVars => IngressInv'
<1> SUFFICES ASSUME IngressInv, [IngressNext]_ingressVars PROVE IngressInv'  OBVIOUS
<1>0. IngressTypeOK /\ StagesAreCommitted /\ AckedIsIngested  BY DEF IngressInv
<1>1. ASSUME NEW m \in Messages, Publish(m)
      PROVE  IngressInv'
  BY <1>0, <1>1 DEF Publish, IngressInv, IngressTypeOK, StagesAreCommitted, AckedIsIngested
<1>2. ASSUME NEW m \in Messages, Forward(m) \/ Send(m)
      PROVE  IngressInv'
  BY <1>2, CallKeepsInv DEF Forward, Send
<1>3. ASSUME NEW c \in calls, PersistProtocolMessage(c)
      PROVE  IngressInv'
  <2> DEFINE d == [c EXCEPT !.stage = IF IsTelemetry(c.key.message) THEN "stored" ELSE "ingested"]
  <2>1. c \in Calls /\ d \in Calls /\ d.key = c.key
        /\ (d.stage = "stored" \/ (d.stage = "ingested" /\ ~IsTelemetry(c.key.message)))
    BY <1>0 DEF IngressTypeOK, Calls
  <2>2. /\ calls' = (calls \ {c}) \cup {d} /\ protocolRows' = protocolRows \cup {c.key}
        /\ UNCHANGED <<broker, deliveries, waitingFor, ingestLog>>
    BY <1>3 DEF PersistProtocolMessage, Advance
  <2>3. c.key \in Keys  BY <2>1 DEF Calls
  <2> HIDE DEF d
  <2>4. IngressTypeOK'  BY <1>0, <2>1, <2>2, <2>3 DEF IngressTypeOK
  <2>5. StagesAreCommitted'  BY <1>0, <2>1, <2>2 DEF StagesAreCommitted
  <2>6. AckedIsIngested'  BY <1>0, <2>2 DEF AckedIsIngested
  <2>7. QED  BY <2>4, <2>5, <2>6 DEF IngressInv
<1>4. ASSUME NEW c \in calls, IngestTelemetry(c)
      PROVE  IngressInv'
  <2> DEFINE d == [c EXCEPT !.stage = "ingested"]
  <2>1. c \in Calls /\ d \in Calls /\ d.key = c.key /\ d.stage = "ingested"
    BY <1>0 DEF IngressTypeOK, Calls
  <2>2. /\ calls' = (calls \ {c}) \cup {d} /\ ingestLog' = ingestLog \cup {c.key}
        /\ c.stage = "stored" /\ UNCHANGED <<broker, deliveries, waitingFor, protocolRows>>
    BY <1>4 DEF IngestTelemetry, Advance
  <2>3. c.key \in Keys  BY <2>1 DEF Calls
  <2> HIDE DEF d
  <2>4. IngressTypeOK'  BY <1>0, <2>1, <2>2, <2>3 DEF IngressTypeOK
  <2>5. StagesAreCommitted'  BY <1>0, <2>1, <2>2 DEF StagesAreCommitted
  <2>6. AckedIsIngested'  BY <1>0, <2>2 DEF AckedIsIngested
  <2>7. QED  BY <2>4, <2>5, <2>6 DEF IngressInv
<1>5. ASSUME NEW c \in calls, AnswerAndAck(c)
      PROVE  IngressInv'
  <2>1. c.key \in protocolRows /\ (IsTelemetry(c.key.message) => c.key \in ingestLog)
    BY <1>0, <1>5 DEF AnswerAndAck, StagesAreCommitted
  <2>2. c.key.message \in Messages  BY <1>0 DEF IngressTypeOK, Calls, Keys
  <2>3. IngressTypeOK'  BY <1>0, <1>5, <2>2 DEF AnswerAndAck, IngressTypeOK
  <2>4. StagesAreCommitted'  BY <1>0, <1>5 DEF AnswerAndAck, StagesAreCommitted
  <2>5. AckedIsIngested'
    <3> SUFFICES ASSUME NEW m \in Messages, broker'[m] = "acked"
                 PROVE  \E k \in protocolRows : k.message = m /\ (IsTelemetry(m) => k \in ingestLog)
      BY <1>5 DEF AnswerAndAck, AckedIsIngested
    <3>1. CASE m = c.key.message  BY <2>1, <3>1
    <3>2. CASE m # c.key.message
      <4>1. broker[m] = "acked"  BY <1>0, <1>5, <3>2 DEF AnswerAndAck, IngressTypeOK
      <4>2. QED  BY <1>0, <4>1 DEF AckedIsIngested
    <3>3. QED  BY <3>1, <3>2
  <2>6. QED  BY <2>3, <2>4, <2>5 DEF IngressInv
<1>6. ASSUME NEW c \in calls, CallFails(c) \/ CallerGivesUp(c)
      PROVE  IngressInv'
  <2>1. /\ calls' \subseteq calls /\ waitingFor' \subseteq waitingFor
        /\ UNCHANGED <<broker, deliveries, protocolRows, ingestLog>>
    BY <1>6 DEF CallFails, CallerGivesUp
  <2>2. IngressTypeOK'  BY <1>0, <2>1 DEF IngressTypeOK
  <2>3. StagesAreCommitted' /\ AckedIsIngested'
    BY <1>0, <2>1 DEF StagesAreCommitted, AckedIsIngested
  <2>4. QED  BY <2>2, <2>3 DEF IngressInv
<1>7. ASSUME Reconnect
      PROVE  IngressInv'
  BY <1>0, <1>7 DEF Reconnect, IngressInv, IngressTypeOK, StagesAreCommitted, AckedIsIngested
<1>8. CASE UNCHANGED ingressVars
  BY <1>0, <1>8 DEF ingressVars, IngressInv, IngressTypeOK, StagesAreCommitted, AckedIsIngested
<1>9. QED
  BY <1>1, <1>2, <1>3, <1>4, <1>5, <1>6, <1>7, <1>8 DEF IngressNext

(* The state of the ingress stays in its types (app.py:1547-1607).          *)
THEOREM IngressTypeCorrect == IngressSpec => []IngressTypeOK
<1>1. IngressInv => IngressTypeOK  BY DEF IngressInv
<1>2. QED  BY <1>1, IngressInitInv, IngressStepsKeepInv, PTL DEF IngressSpec

(* Whatever is lost, repeated or given up on the way: an acknowledged       *)
(* message is stored and, if it is telemetry, ingested (app.py:1554-1598,   *)
(* edge_runtime.py:143-162).                                                *)
THEOREM AckedIsIngestedHolds == IngressSpec => []AckedIsIngested
<1>1. IngressInv => AckedIsIngested  BY DEF IngressInv
<1>2. QED  BY <1>1, IngressInitInv, IngressStepsKeepInv, PTL DEF IngressSpec

-----------------------------------------------------------------------------
(* OcppGateway. A connection that has not begun or has ended is not         *)
(* registered; how far a command has come says what its answer may be.      *)
RegisteredServes ==
    \A c \in Connections : Registered(c) => handler[c] \in {"serving", "closed"}

CommandsProgress ==
    \A k \in Commands :
        /\ command[k] \in {"new", "looked_up"} => httpAnswer[k] = "none"
        /\ command[k] # "over" => httpAnswer[k] \in {"none", "timed_out"}
        /\ command[k] = "accepted" => k \in executed
        /\ command[k] \in {"new", "looked_up", "scheduled", "sent"} => k \notin executed

GatewayInv == GatewayTypeOK /\ RegisteredServes /\ CommandsProgress /\ GatewayKeepsTrack

LEMMA GatewayInitInv == GatewayInit => GatewayInv
<1> SUFFICES ASSUME GatewayInit PROVE GatewayInv  OBVIOUS
<1>1. GatewayTypeOK  BY GatewayAssumption DEF GatewayInit, GatewayTypeOK
<1>2. RegisteredServes
  BY GatewayAssumption DEF GatewayInit, RegisteredServes, Registered
<1>3. CommandsProgress  BY DEF GatewayInit, CommandsProgress
<1>4. ServingIsReachable
  BY GatewayAssumption DEF GatewayInit, ServingIsReachable, Registered
<1>5. AnswersMatchDevice  BY DEF GatewayInit, AnswersMatchDevice
<1>6. QED  BY <1>1, <1>2, <1>3, <1>4, <1>5 DEF GatewayInv, GatewayKeepsTrack

(* A handler that registers or unregisters displaces whoever was registered *)
(* (edge_runtime.py:289-299, 347-363).                                      *)
LEMMA ConnectionsKeepInv ==
    ASSUME GatewayInv, NEW c \in Connections, Connect(c) \/ ConnectionLost(c) \/ Unregister(c)
    PROVE  GatewayInv'
<1> USE GatewayAssumption
<1>0. GatewayTypeOK /\ RegisteredServes /\ CommandsProgress /\ ServingIsReachable
      /\ AnswersMatchDevice
  BY DEF GatewayInv, GatewayKeepsTrack
<1>1. UNCHANGED <<command, target, httpAnswer, executed>>
  BY DEF Connect, ConnectionLost, Unregister, commandVars
<1>2. CommandsProgress' /\ AnswersMatchDevice'
  BY <1>0, <1>1 DEF CommandsProgress, AnswersMatchDevice
<1>3. \A d \in Connections : PointOf[d] \in ChargePoints
  OBVIOUS
<1>4. CASE Connect(c)
  <2>1. /\ handler[c] = "none" /\ handler' = [handler EXCEPT ![c] = "serving"]
        /\ registry' = [registry EXCEPT ![PointOf[c]] = c]
        /\ displaced' = displaced \cup ({registry[PointOf[c]]} \ {NoConnection})
    BY <1>4 DEF Connect
  <2>2. GatewayTypeOK'  BY <1>0, <1>1, <1>3, <2>1 DEF GatewayTypeOK
  <2>3. \A d \in Connections : d # c =>
            /\ handler'[d] = handler[d]
            /\ Registered(d)' => Registered(d)
            /\ Registered(d) => Registered(d)' \/ d \in displaced'
    BY <1>0, <1>3, <2>1 DEF GatewayTypeOK, Registered
  <2>4. handler'[c] = "serving" /\ Registered(c)'
    BY <1>0, <1>3, <2>1 DEF GatewayTypeOK, Registered
  <2>5. displaced \subseteq displaced'  BY <2>1
  <2>6. RegisteredServes'  BY <1>0, <2>3, <2>4 DEF RegisteredServes
  <2>7. ServingIsReachable'  BY <1>0, <2>3, <2>4, <2>5 DEF ServingIsReachable
  <2>8. QED  BY <1>2, <2>2, <2>6, <2>7 DEF GatewayInv, GatewayKeepsTrack
<1>5. CASE ConnectionLost(c)
  <2>1. /\ handler[c] = "serving" /\ handler' = [handler EXCEPT ![c] = "closed"]
        /\ registry' = registry /\ displaced' = displaced
    BY <1>5 DEF ConnectionLost
  <2>2. GatewayTypeOK'  BY <1>0, <1>1, <2>1 DEF GatewayTypeOK
  <2>3. \A d \in Connections : handler'[d] = IF d = c THEN "closed" ELSE handler[d]
    BY <1>0, <2>1 DEF GatewayTypeOK
  <2>4. RegisteredServes' /\ ServingIsReachable'
    BY <1>0, <2>1, <2>3 DEF RegisteredServes, ServingIsReachable, Registered
  <2>5. QED  BY <1>2, <2>2, <2>4 DEF GatewayInv, GatewayKeepsTrack
<1>6. CASE Unregister(c)
  <2>1. /\ handler[c] = "closed" /\ handler' = [handler EXCEPT ![c] = "ended"]
        /\ registry' = [registry EXCEPT ![PointOf[c]] = NoConnection]
        /\ displaced' = displaced \cup ({registry[PointOf[c]]} \ {c, NoConnection})
    BY <1>6 DEF Unregister
  <2>2. GatewayTypeOK'  BY <1>0, <1>1, <1>3, <2>1 DEF GatewayTypeOK
  <2>3. \A d \in Connections : d # c =>
            /\ handler'[d] = handler[d]
            /\ Registered(d)' => Registered(d)
            /\ Registered(d) => Registered(d)' \/ d \in displaced'
    BY <1>0, <1>3, <2>1 DEF GatewayTypeOK, Registered
  <2>4. handler'[c] = "ended" /\ ~Registered(c)'
    BY <1>0, <1>3, <2>1 DEF GatewayTypeOK, Registered
  <2>5. displaced \subseteq displaced'  BY <2>1
  <2>6. RegisteredServes'  BY <1>0, <2>3, <2>4 DEF RegisteredServes
  <2>7. ServingIsReachable'  BY <1>0, <2>3, <2>4, <2>5 DEF ServingIsReachable
  <2>8. QED  BY <1>2, <2>2, <2>6, <2>7 DEF GatewayInv, GatewayKeepsTrack
<1>7. QED  BY <1>4, <1>5, <1>6

(* A command moves one stage at a time, and what it may be answered follows *)
(* from the stage (edge_runtime.py:301-307, 391-427, 467-507).              *)
LEMMA CommandsKeepInv ==
    ASSUME GatewayInv, NEW k \in Commands,
           \/ \E p \in ChargePoints : LookUp(k, p)
           \/ Schedule(k) \/ SendOnLoop(k) \/ DeviceAccepts(k) \/ DeviceRejects(k)
           \/ AnswerSucceeded(k) \/ TimeOut(k)
    PROVE  GatewayInv'
<1> USE GatewayAssumption
<1>0. GatewayTypeOK /\ RegisteredServes /\ CommandsProgress /\ ServingIsReachable
      /\ AnswersMatchDevice
  BY DEF GatewayInv, GatewayKeepsTrack
<1>1. UNCHANGED <<handler, registry, displaced>>
  BY DEF LookUp, Schedule, SendOnLoop, DeviceAccepts, DeviceRejects, AnswerSucceeded, TimeOut,
     connectionVars
<1>2. RegisteredServes' /\ ServingIsReachable'
  BY <1>0, <1>1 DEF RegisteredServes, ServingIsReachable, Registered
<1>3. ASSUME NEW stage \in {"new", "looked_up", "scheduled", "sent", "accepted", "over"},
             NEW said \in {"none", "succeeded", "failed", "timed_out"},
             command' = [command EXCEPT ![k] = stage],
             httpAnswer' = [httpAnswer EXCEPT ![k] = said],
             executed' \in {executed, executed \cup {k}},
             target' \in [Commands -> Connections \cup {NoConnection}],
             stage \in {"new", "looked_up"} => said = "none",
             stage # "over" => said \in {"none", "timed_out"},
             stage = "accepted" => k \in executed',
             stage \in {"new", "looked_up", "scheduled", "sent"} => k \notin executed',
             said = "succeeded" => k \in executed',
             said = "failed" => k \notin executed'
      PROVE  GatewayInv'
  <2>1. GatewayTypeOK'  BY <1>0, <1>1, <1>3 DEF GatewayTypeOK
  <2>2. ASSUME NEW j \in Commands
        PROVE  /\ j # k => command'[j] = command[j] /\ httpAnswer'[j] = httpAnswer[j]
               /\ j # k => (j \in executed' <=> j \in executed)
               /\ j = k => command'[j] = stage /\ httpAnswer'[j] = said
    BY <1>0, <1>3 DEF GatewayTypeOK
  <2>3. CommandsProgress'  BY <1>0, <1>3, <2>2 DEF CommandsProgress
  <2>4. AnswersMatchDevice'  BY <1>0, <1>3, <2>2 DEF AnswersMatchDevice
  <2>5. QED  BY <1>2, <2>1, <2>3, <2>4 DEF GatewayInv, GatewayKeepsTrack
<1>t. /\ httpAnswer[k] \in {"none", "succeeded", "failed", "timed_out"}
      /\ command[k] \in {"new", "looked_up", "scheduled", "sent", "accepted", "over"}
      /\ httpAnswer = [httpAnswer EXCEPT ![k] = httpAnswer[k]]
      /\ command = [command EXCEPT ![k] = command[k]]
      /\ target \in [Commands -> Connections \cup {NoConnection}]
  BY <1>0 DEF GatewayTypeOK
<1>p. /\ command[k] \in {"new", "looked_up"} => httpAnswer[k] = "none"
      /\ command[k] # "over" => httpAnswer[k] \in {"none", "timed_out"}
      /\ command[k] = "accepted" => k \in executed
      /\ command[k] \in {"new", "looked_up", "scheduled", "sent"} => k \notin executed
      /\ httpAnswer[k] = "succeeded" => k \in executed
      /\ httpAnswer[k] = "failed" => k \notin executed
  BY <1>0 DEF CommandsProgress, AnswersMatchDevice
<1>4. ASSUME NEW p \in ChargePoints, LookUp(k, p)
      PROVE  GatewayInv'
  <2>1. target' \in [Commands -> Connections \cup {NoConnection}] /\ executed' = executed
    BY <1>0, <1>4 DEF LookUp, GatewayTypeOK
  <2>2. \E stage \in {"looked_up", "over"}, said \in {"none", "failed"} :
            /\ command' = [command EXCEPT ![k] = stage]
            /\ httpAnswer' = [httpAnswer EXCEPT ![k] = said]
            /\ stage = "looked_up" => said = "none"
    BY <1>4, <1>t, <1>p DEF LookUp
  <2>3. command[k] = "new"  BY <1>4 DEF LookUp
  <2>4. QED  BY <1>3, <1>p, <2>1, <2>2, <2>3
<1>5. CASE Schedule(k)
  <2>1. /\ command[k] = "looked_up" /\ command' = [command EXCEPT ![k] = "scheduled"]
        /\ httpAnswer' = httpAnswer /\ executed' = executed /\ target' = target
    BY <1>5 DEF Schedule
  <2>2. QED  BY <1>3, <1>t, <1>p, <2>1
<1>6. CASE SendOnLoop(k)
  <2>1. command[k] = "scheduled" /\ executed' = executed /\ target' = target
    BY <1>6 DEF SendOnLoop
  <2>2. CASE command' = [command EXCEPT ![k] = "sent"] /\ httpAnswer' = httpAnswer
    BY <1>3, <1>t, <1>p, <2>1, <2>2
  <2>3. CASE command' = [command EXCEPT ![k] = "over"] /\ Answer(k, "failed")
    <3>1. PICK said \in {"failed", "timed_out"} : httpAnswer' = [httpAnswer EXCEPT ![k] = said]
      BY <1>p, <1>t, <2>1, <2>3 DEF Answer
    <3>2. k \notin executed' /\ executed' = executed  BY <1>p, <2>1
    <3>3. target' \in [Commands -> Connections \cup {NoConnection}]  BY <1>t, <2>1
    <3>4. command' = [command EXCEPT ![k] = "over"]  BY <2>3
    <3>5. QED  BY <1>3, <3>1, <3>2, <3>3, <3>4
  <2>4. QED  BY <1>6, <2>2, <2>3 DEF SendOnLoop
<1>7. CASE DeviceAccepts(k)
  <2>1. /\ command[k] = "sent" /\ command' = [command EXCEPT ![k] = "accepted"]
        /\ executed' = executed \cup {k} /\ httpAnswer' = httpAnswer /\ target' = target
    BY <1>7 DEF DeviceAccepts
  <2>2. k \in executed' /\ httpAnswer[k] \in {"none", "timed_out"}  BY <1>p, <2>1
  <2>3. QED  BY <1>3, <1>t, <2>1, <2>2
<1>8. CASE DeviceRejects(k)
  <2>1. /\ command[k] = "sent" /\ command' = [command EXCEPT ![k] = "over"]
        /\ executed' = executed /\ target' = target
    BY <1>8 DEF DeviceRejects
  <2>2. \E said \in {"failed", "timed_out"} : httpAnswer' = [httpAnswer EXCEPT ![k] = said]
    BY <1>8, <1>p, <1>t, <2>1 DEF Answer, DeviceRejects
  <2>3. QED  BY <1>3, <1>t, <1>p, <2>1, <2>2
<1>9. CASE AnswerSucceeded(k)
  <2>1. /\ command[k] = "accepted" /\ command' = [command EXCEPT ![k] = "over"]
        /\ executed' = executed /\ target' = target
    BY <1>9 DEF AnswerSucceeded
  <2>2. \E said \in {"succeeded", "timed_out"} : httpAnswer' = [httpAnswer EXCEPT ![k] = said]
    BY <1>9, <1>p, <1>t, <2>1 DEF Answer, AnswerSucceeded
  <2>3. QED  BY <1>3, <1>t, <1>p, <2>1, <2>2
<1>10. CASE TimeOut(k)
  <2>1. /\ command[k] \in {"scheduled", "sent", "accepted"} /\ command' = command
        /\ httpAnswer' = [httpAnswer EXCEPT ![k] = "timed_out"]
        /\ executed' = executed /\ target' = target
    BY <1>10 DEF TimeOut
  <2>2. QED  BY <1>3, <1>t, <1>p, <2>1
<1>11. QED  BY <1>4, <1>5, <1>6, <1>7, <1>8, <1>9, <1>10

LEMMA GatewayStepsKeepInv == GatewayInv /\ [GatewayNext]_gatewayVars => GatewayInv'
<1> SUFFICES ASSUME GatewayInv, [GatewayNext]_gatewayVars PROVE GatewayInv'  OBVIOUS
<1>1. CASE UNCHANGED gatewayVars
  BY <1>1 DEF gatewayVars, GatewayInv, GatewayTypeOK, RegisteredServes, CommandsProgress,
     GatewayKeepsTrack, ServingIsReachable, AnswersMatchDevice, Registered
<1>2. QED  BY <1>1, ConnectionsKeepInv, CommandsKeepInv DEF GatewayNext

(* The gateway stays in its types (edge_runtime.py:284-307).                *)
THEOREM GatewayTypeCorrect == GatewaySpec => []GatewayTypeOK
<1>1. GatewayInv => GatewayTypeOK  BY DEF GatewayInv
<1>2. QED  BY <1>1, GatewayInitInv, GatewayStepsKeepInv, PTL DEF GatewaySpec

(* However connections and commands interleave, the gateway keeps track:    *)
(* no ended connection is registered, a serving one is lost only by another *)
(* handler of its charge point, success means executed and failure means    *)
(* not executed (edge_runtime.py:289-307, 347-363, 417-427).                *)
THEOREM GatewayKeepsTrackHolds == GatewaySpec => []GatewayKeepsTrack
<1>1. GatewayInv => GatewayKeepsTrack  BY DEF GatewayInv
<1>2. QED  BY <1>1, GatewayInitInv, GatewayStepsKeepInv, PTL DEF GatewaySpec

-----------------------------------------------------------------------------
(* Side by side. A step of the whole is a step of the component in focus    *)
(* and leaves the others as they are, so that each behaves as on its own.   *)
InTypes ==
    /\ CacheTypeOK
    /\ EvidenceTypeOK
    /\ IngressTypeOK
    /\ GatewayTypeOK
    /\ TopologyTypeOK
    /\ RegistryTypeOK
    /\ DispatchTypeOK
    /\ LedgerTypeOK
    /\ MaintenanceTypeOK
    /\ AssuranceTypeOK
    /\ AccountsTypeOK
    /\ CheckTypeOK

(* Every component starts in one of its initial states.                     *)
LEMMA InitIsEverywhere ==
    Init => /\ focus \in Focuses
            /\ CacheInit
            /\ EvidenceInit
            /\ IngressInit
            /\ GatewayInit
            /\ TopologyInit
            /\ RegistryInit
            /\ DispatchInit
            /\ LedgerInit
            /\ MaintenanceInit
            /\ AssuranceInit
            /\ AccountsInit
            /\ CheckInit
BY DEF Init

(* What is not in focus does not move.                                      *)
LEMMA StepIsLocal ==
    ASSUME [Next]_vars
    PROVE  /\ UNCHANGED focus
           /\ [CacheNext]_cacheVars
           /\ [EvidenceNext]_evidenceVars
           /\ [IngressNext]_ingressVars
           /\ [GatewayNext]_gatewayVars
           /\ [TopologyNext]_topologyVars
           /\ [RegistryNext]_registryVars
           /\ [DispatchNext]_dispatchVars
           /\ [LedgerNext]_ledgerVars
           /\ [MaintenanceNext]_maintenanceVars
           /\ [AssuranceNext]_assuranceVars
           /\ [AccountsNext]_accountVars
           /\ [CheckNext]_checkVars
<1>0. CASE UNCHANGED vars
  BY <1>0 DEF vars, edgeVars, decisionVars, recordVars
<1>1. CASE Next
  BY <1>1 DEF Next, edgeVars, decisionVars, recordVars
<1>2. QED  BY <1>0, <1>1

(* The whole implements the specification of every component.               *)
THEOREM EachBehavesAlone ==
    Spec => /\ CacheSpec
            /\ EvidenceSpec
            /\ IngressSpec
            /\ GatewaySpec
            /\ TopologySpec
            /\ RegistrySpec
            /\ DispatchSpec
            /\ LedgerSpec
            /\ MaintenanceSpec
            /\ AssuranceSpec
            /\ AccountsSpec
            /\ CheckSpec
<1>1. QED
  BY InitIsEverywhere, StepIsLocal, PTL
  DEF Spec, CacheSpec, EvidenceSpec, IngressSpec, GatewaySpec, TopologySpec,
     RegistrySpec, DispatchSpec, LedgerSpec, MaintenanceSpec, AssuranceSpec,
     AccountsSpec, CheckSpec

(* Whichever component is in focus stays in its types.                      *)
THEOREM TypeCorrect == Spec => []TypeOK
<1>1. Init => focus \in Focuses  BY InitIsEverywhere
<1>2. focus \in Focuses /\ [Next]_vars => (focus \in Focuses)'  BY StepIsLocal
<1>3. focus \in Focuses /\ InTypes => TypeOK
  BY DEF Focuses, InTypes, TypeOK
<1>4. QED
  BY <1>1, <1>2, <1>3, EachBehavesAlone, CacheTypeCorrect, EvidenceTypeCorrect,
     IngressTypeCorrect, GatewayTypeCorrect, TopologyTypeCorrect, RegistryTypeCorrect,
     DispatchTypeCorrect, LedgerTypeCorrect, MaintenanceTypeCorrect,
     AssuranceTypeCorrect, AccountsTypeCorrect, CheckTypeCorrect, PTL
  DEF Spec, InTypes

(* What each component promises on its own it promises beside the others.   *)
THEOREM PromisesHoldTogether ==
    Spec => [](
        /\ EvidenceComesThrough
        /\ AckedIsIngested
        /\ GatewayKeepsTrack
        /\ ReadsOwnWrites
        /\ VerdictIsRight
        /\ OneVersionAtATime
        /\ ActiveIsGated
        /\ DecisionsAgree
        /\ AnswerIsEvidence
        /\ ClosedOnce
        /\ ReadyIsEarned
        /\ SessionsEndWithPassword
        /\ AdministratorMadeOnce)
<1>1. QED
  BY EachBehavesAlone, EvidenceComesThroughHolds, AckedIsIngestedHolds,
     GatewayKeepsTrackHolds, ReadsOwnWritesHolds, VerdictIsRightHolds,
     OneVersionAtATimeHolds, ActiveIsGatedHolds, DecisionsAgreeHolds,
     AnswerIsEvidenceHolds, ClosedOnceHolds, ReadyIsEarnedHolds,
     SessionsEndWithPasswordHolds, AdministratorMadeOnceHolds, PTL
=============================================================================
