-------------------------- MODULE SettlementPromise --------------------------
(***************************************************************************)
(* What a settlement batch promises the people it pays: the claim, once    *)
(* made, is never rewritten; it may be endorsed and the endorsement        *)
(* withdrawn, but only an endorsed claim is paid, it is paid once, and     *)
(* what was paid can only be refunded, in full and once. Nothing is said   *)
(* of disputes, exports or event chains: Settlement implements this.       *)
(***************************************************************************)
CONSTANTS Periods, Claims, NoClaim

VARIABLES
    claim,     \* what is claimed for a period, NoClaim before
    endorsed,  \* somebody vouches for it
    money      \* "none", "paid" or "refunded"

promiseVars == <<claim, endorsed, money>>

PromiseInit ==
    /\ claim = [p \in Periods |-> NoClaim]
    /\ endorsed = [p \in Periods |-> FALSE]
    /\ money = [p \in Periods |-> "none"]

MakeClaim(p) ==
    /\ claim[p] = NoClaim
    /\ \E c \in Claims \ {NoClaim} : claim' = [claim EXCEPT ![p] = c]
    /\ UNCHANGED <<endorsed, money>>

Endorse(p) ==
    /\ claim[p] # NoClaim
    /\ money[p] = "none"
    /\ endorsed' = [endorsed EXCEPT ![p] = TRUE]
    /\ UNCHANGED <<claim, money>>

Withdraw(p) ==
    /\ money[p] = "none"
    /\ endorsed' = [endorsed EXCEPT ![p] = FALSE]
    /\ UNCHANGED <<claim, money>>

Pay(p) ==
    /\ endorsed[p]
    /\ money[p] = "none"
    /\ money' = [money EXCEPT ![p] = "paid"]
    /\ UNCHANGED <<claim, endorsed>>

Refund(p) ==
    /\ money[p] = "paid"
    /\ money' = [money EXCEPT ![p] = "refunded"]
    /\ UNCHANGED <<claim, endorsed>>

PromiseNext ==
    \E p \in Periods : MakeClaim(p) \/ Endorse(p) \/ Withdraw(p) \/ Pay(p) \/ Refund(p)

PromiseSpec == PromiseInit /\ [][PromiseNext]_promiseVars
=============================================================================
