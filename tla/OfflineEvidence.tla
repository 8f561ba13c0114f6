--------------------------- MODULE OfflineEvidence ---------------------------
(* The durable evidence buffer of a site gateway, industrial_edge.py:15-89,  *)
(* and the replay it is made for. The replayer is not in the repository: it  *)
(* reads pending(limit), uploads each record and acknowledges it with        *)
(* mark_replayed, as the tests do; two of them may overlap (a failover), and *)
(* either may stop anywhere. An event stands for the hash of its type, time  *)
(* and payload.                                                              *)
EXTENDS Integers, FiniteSets

CONSTANTS
    Events,
    Replayers,
    MaximumRows,    \* maximum_rows
    Limits,         \* the limits passed to pending
    MaxSequence     \* bound on the records of a behaviour

ASSUME EvidenceAssumption ==
    /\ MaximumRows \in Nat \ {0}
    /\ Limits \subseteq Nat \ {0}
    /\ MaxSequence \in Nat

VARIABLES
    rows,           \* the table evidence
    lastSequence,   \* its AUTOINCREMENT counter, which never goes back
    accepted,       \* sequences whose append returned
    batch,          \* replayer -> records it has read and not acknowledged
    uploaded,       \* replayer -> it has sent the first of them
    received        \* sequences the control plane has received

evidenceVars == <<rows, lastSequence, accepted, batch, uploaded, received>>

Record == [sequence: 1 .. MaxSequence, event: Events, replayed: BOOLEAN]
Unreplayed == {r \in rows : ~r.replayed}
First(records) == CHOOSE r \in records : \A s \in records : r.sequence <= s.sequence

EvidenceTypeOK ==
    /\ rows \subseteq Record
    /\ lastSequence \in 0 .. MaxSequence
    /\ accepted \subseteq 1 .. lastSequence
    /\ batch \in [Replayers -> SUBSET Record]
    /\ uploaded \in [Replayers -> BOOLEAN]
    /\ received \subseteq 1 .. lastSequence

EvidenceInit ==
    /\ rows = {}
    /\ lastSequence = 0
    /\ accepted = {}
    /\ batch = [p \in Replayers |-> {}]
    /\ uploaded = [p \in Replayers |-> FALSE]
    /\ received = {}

(* A buffer that makes room by dropping its oldest record.                  *)
AppendOverwrites(e) ==
    /\ \A r \in rows : r.event # e
    /\ lastSequence < MaxSequence
    /\ lastSequence' = lastSequence + 1
    /\ rows' = (IF Cardinality(Unreplayed) < MaximumRows THEN rows ELSE rows \ {First(rows)})
               \cup {[sequence |-> lastSequence', event |-> e, replayed |-> FALSE]}
    /\ accepted' = accepted \cup {lastSequence'}
    /\ UNCHANGED <<batch, uploaded, received>>

(* A full buffer refuses every event, one that it already holds too.        *)
AppendEvidence(e) ==
    /\ Cardinality(Unreplayed) < MaximumRows
    /\ IF \E r \in rows : r.event = e
       THEN UNCHANGED <<rows, lastSequence, accepted>>
       ELSE /\ lastSequence < MaxSequence
            /\ lastSequence' = lastSequence + 1
            /\ rows' = rows \cup {[sequence |-> lastSequence', event |-> e, replayed |-> FALSE]}
            /\ accepted' = accepted \cup {lastSequence'}
    /\ UNCHANGED <<batch, uploaded, received>>

(* The first limit records in the order of their sequence.                  *)
Pending(limit) ==
    {r \in Unreplayed : Cardinality({s \in Unreplayed : s.sequence < r.sequence}) < limit}

ReadPending(p, limit) ==
    /\ batch[p] = {}
    /\ Unreplayed # {}
    /\ batch' = [batch EXCEPT ![p] = Pending(limit)]
    /\ uploaded' = [uploaded EXCEPT ![p] = FALSE]
    /\ UNCHANGED <<rows, lastSequence, accepted, received>>

Upload(p) ==
    /\ batch[p] # {}
    /\ ~uploaded[p]
    /\ uploaded' = [uploaded EXCEPT ![p] = TRUE]
    /\ received' = received \cup {First(batch[p]).sequence}
    /\ UNCHANGED <<rows, lastSequence, accepted, batch>>

MarkReplayed(p) ==
    /\ batch[p] # {}
    /\ uploaded[p]
    /\ uploaded' = [uploaded EXCEPT ![p] = FALSE]
    /\ LET head == First(batch[p])
       IN  IF head \in rows
           THEN /\ rows' = (rows \ {head}) \cup {[head EXCEPT !.replayed = TRUE]}
                /\ batch' = [batch EXCEPT ![p] = @ \ {head}]
           ELSE /\ batch' = [batch EXCEPT ![p] = {}]    \* ValueError: read again
                /\ UNCHANGED rows
    /\ UNCHANGED <<lastSequence, accepted, received>>

(* older_than picks any replayed records: replayed_at is a wall clock.      *)
PurgeReplayed ==
    /\ \E gone \in SUBSET {r \in rows : r.replayed} :
        /\ gone # {}
        /\ rows' = rows \ gone
    /\ UNCHANGED <<lastSequence, accepted, batch, uploaded, received>>

ReplayerStops(p) ==
    /\ batch[p] # {}
    /\ batch' = [batch EXCEPT ![p] = {}]
    /\ uploaded' = [uploaded EXCEPT ![p] = FALSE]
    /\ UNCHANGED <<rows, lastSequence, accepted, received>>

EvidenceNext ==
    \/ \E e \in Events : AppendEvidence(e)
    \/ \E p \in Replayers :
        \/ \E limit \in Limits : ReadPending(p, limit)
        \/ Upload(p) \/ MarkReplayed(p) \/ ReplayerStops(p)
    \/ PurgeReplayed

EvidenceSpec == EvidenceInit /\ [][EvidenceNext]_evidenceVars

-----------------------------------------------------------------------------
(* An appended event is in the buffer until the control plane has received  *)
(* it: neither the bound nor the purge nor an overlapping replay drops it   *)
(* (industrial_edge.py:36-86).                                              *)
NoEvidenceLost ==
    \A s \in accepted : s \in received \/ \E r \in Unreplayed : r.sequence = s

(* Replay is in order, whoever replays: what the control plane has received *)
(* is everything up to some record, and no replayed record is younger than  *)
(* a pending one (industrial_edge.py:60-79).                                *)
ReplayInOrder ==
    /\ \A r, s \in rows : r.replayed /\ ~s.replayed => r.sequence < s.sequence
    /\ \A s \in received : 1 .. s \subseteq received

(* Both together: evidence comes through, all of it and in order.           *)
EvidenceComesThrough == NoEvidenceLost /\ ReplayInOrder

EC == INSTANCE EvidenceChannel WITH Numbers <- 1 .. MaxSequence, arrived <- received

(* The buffer and its replayers are an EvidenceChannel: every record arrives *)
(* after all that were accepted before it, and is never taken back           *)
(* (industrial_edge.py:60-86).                                               *)
KeepsEvidencePromise == EC!ChannelSpec
=============================================================================
