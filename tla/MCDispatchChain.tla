--------------------------- MODULE MCDispatchChain ---------------------------
(* A small instance of DispatchChain for TLC.                              *)
EXTENDS DispatchChain, TLC

CONSTANTS o1, x1, w1, i1

MCInstanceOf == w1 :> i1
MCAllocatedTo == [o \in Orders |-> Stations]
=============================================================================
