--------------------------- MODULE EvidenceChannel ---------------------------
(* What the offline buffer promises those who audit a site: the control      *)
(* plane receives the accepted records in their order, none is skipped, none *)
(* is received before it was accepted, and nothing is taken back. Nothing is *)
(* said of rows, batches or replayers: OfflineEvidence implements this.      *)
EXTENDS Naturals

CONSTANT Numbers

VARIABLES
    accepted,    \* the records whose append returned
    arrived      \* the records the control plane has

channelVars == <<accepted, arrived>>

ChannelInit == accepted = {} /\ arrived = {}

Accept(n) ==
    /\ \A m \in accepted : m < n
    /\ accepted' = accepted \cup {n}
    /\ UNCHANGED arrived

Arrive(n) ==
    /\ n \in accepted \ arrived
    /\ \A m \in accepted : m < n => m \in arrived
    /\ arrived' = arrived \cup {n}
    /\ UNCHANGED accepted

ChannelNext == \E n \in Numbers : Accept(n) \/ Arrive(n)

ChannelSpec == ChannelInit /\ [][ChannelNext]_channelVars
=============================================================================
