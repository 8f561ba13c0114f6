--------------------------- MODULE OrderLifecycle ---------------------------
(***************************************************************************)
(* What a market order promises whoever reads it: its status moves only    *)
(* along ORDER_TRANSITIONS (chargeopt/vpp_trading.py), an ended order      *)
(* stays ended, and trades are counted once, on one order, only while it   *)
(* is in the market, up to its quantity, every counted trade being the one *)
(* that is dispatched. Nothing is said of workers, leases or the venue:    *)
(* OrderOutbox implements this specification.                              *)
(***************************************************************************)
EXTENDS Naturals

CONSTANTS Orders, TradeIds, Quantity, Lifecycle

VARIABLES
    state,    \* the order's status, "absent" before it exists
    traded,   \* the quantity its counted trades sum up to
    counted,  \* the trades counted
    pledged   \* the trades for which delivery was arranged

orderVars == <<state, traded, counted, pledged>>

LifecycleInit ==
    /\ state = [o \in Orders |-> "absent"]
    /\ traded = [o \in Orders |-> 0]
    /\ counted = [o \in Orders |-> {}]
    /\ pledged = [o \in Orders |-> {}]

Move(o, s) ==
    /\ s \in Lifecycle[state[o]]
    /\ state' = [state EXCEPT ![o] = s]
    /\ UNCHANGED <<traded, counted, pledged>>

Trade(o, x, q, s) ==
    /\ state[o] \in {"submitted", "partially_filled"}
    /\ \A p \in Orders : x \notin counted[p]
    /\ traded[o] + q <= Quantity
    /\ s = IF traded[o] + q = Quantity THEN "filled" ELSE "partially_filled"
    /\ state' = [state EXCEPT ![o] = s]
    /\ traded' = [traded EXCEPT ![o] = @ + q]
    /\ counted' = [counted EXCEPT ![o] = @ \cup {x}]
    /\ pledged' = [pledged EXCEPT ![o] = @ \cup {x}]

LifecycleNext ==
    \E o \in Orders :
        \/ \E s \in Lifecycle[state[o]] : Move(o, s)
        \/ \E x \in TradeIds, q \in 1..Quantity, s \in {"filled", "partially_filled"} :
              Trade(o, x, q, s)

LifecycleSpec == LifecycleInit /\ [][LifecycleNext]_orderVars
=============================================================================
