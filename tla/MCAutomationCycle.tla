-------------------------- MODULE MCAutomationCycle --------------------------
(* A small instance of AutomationCycle for TLC.                            *)
EXTENDS AutomationCycle

CONSTANTS k1, k2, r1, r2
=============================================================================
