---------------------------- MODULE MCSettlement ----------------------------
(* A small instance of Settlement for TLC: one period with one trade, one  *)
(* meter interval that may be corrected, two requests to calculate the     *)
(* batch and two people who settle it.                                     *)
EXTENDS Settlement

CONSTANTS p1, t1, i1, alice, bob, json, csv, r1, r2

MCTradesIn == [p \in {p1} |-> {t1}]
MCMeteredBy == [t \in {t1} |-> {i1}]
=============================================================================
