--------------------------- MODULE SaleToDelivery ---------------------------
(***************************************************************************)
(* The way of a sale, as its buyer and the stations see it: the venue      *)
(* holds an order; a trade on it makes the allocated stations owe a        *)
(* delivery, once; a station is commanded only what it owes; and it        *)
(* acknowledges only what it was commanded. Nothing is taken back. Nothing *)
(* is said of outboxes, leases or retries: DispatchChain implements this.  *)
(***************************************************************************)
CONSTANTS Orders, TradeIds, Stations, AllocatedTo

VARIABLES
    held,         \* the orders the venue has taken
    owed,         \* the deliveries owed, as <<order, trade, station>>
    commanded,    \* those a station was commanded to make
    acknowledged  \* those a station says it made

saleVars == <<held, owed, commanded, acknowledged>>

SaleInit == held = {} /\ owed = {} /\ commanded = {} /\ acknowledged = {}

Place(o) ==
    /\ held' = held \cup {o}
    /\ UNCHANGED <<owed, commanded, acknowledged>>

Sell(o, x) ==
    /\ o \in held
    /\ \A s \in AllocatedTo[o] : <<o, x, s>> \notin owed
    /\ owed' = owed \cup {<<o, x, s>> : s \in AllocatedTo[o]}
    /\ UNCHANGED <<held, commanded, acknowledged>>

Command(d) ==
    /\ commanded' = commanded \cup {d}
    /\ UNCHANGED <<held, owed, acknowledged>>

Acknowledge(d) ==
    /\ acknowledged' = acknowledged \cup {d}
    /\ UNCHANGED <<held, owed, commanded>>

SaleNext ==
    \/ \E o \in Orders : Place(o)
    \/ \E o \in Orders, x \in TradeIds : Sell(o, x)
    \/ \E d \in owed : Command(d)
    \/ \E d \in commanded : Acknowledge(d)

SaleSpec == SaleInit /\ [][SaleNext]_saleVars
=============================================================================
