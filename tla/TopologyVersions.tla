-------------------------- MODULE TopologyVersions --------------------------
(* The versions of one station's twin topology                              *)
(* (digital_twin_repository.py:14-247) or of one tenant's energy topology   *)
(* (energy_platform_repository.py:32-233): at most one is active, and a     *)
(* query for an instant finds the version whose validity window holds it.   *)
(* Activations run concurrently in the API processes. now() is the start of *)
(* the transaction, row locks make it wait, and the CHECK and the partial   *)
(* unique index of the table refuse the rest (migrations 015 and 018).      *)
EXTENDS Integers

CONSTANTS
    MaxVersion,     \* bound on the versions of a behaviour
    Activators,     \* API processes that activate
    MaxTime,        \* bound on the clock
    Open            \* NULL in valid_from and valid_to

ASSUME TopologyAssumption ==
    /\ MaxVersion \in Nat
    /\ MaxTime \in Nat
    /\ Open \notin Int

VARIABLES
    table,          \* "twin" or "energy": whose versions these are
    clock,
    topology,       \* version -> [status, from, to]
    activation      \* process -> [pc, version, start, active]

topologyVars == <<table, clock, topology, activation>>

Numbers == 1 .. MaxVersion
Times == 0 .. MaxTime
Row == [status: {"absent", "validated", "active", "retired"},
        from: Times \cup {Open}, to: Times \cup {Open}]
NoActivation == [pc |-> "idle", version |-> 0, start |-> 0, active |-> {}]
Activation == [pc: {"idle", "begun", "locked", "scanned", "retired"},
               version: 0 .. MaxVersion, start: Times, active: SUBSET Numbers]

TopologyTypeOK ==
    /\ table \in {"twin", "energy"}
    /\ clock \in Times
    /\ topology \in [Numbers -> Row]
    /\ activation \in [Activators -> Activation]

TopologyInit ==
    /\ table \in {"twin", "energy"}
    /\ clock = 0
    /\ topology = [v \in Numbers |-> [status |-> "absent", from |-> Open, to |-> Open]]
    /\ activation = [a \in Activators |-> NoActivation]

Is(v, status) == topology[v].status = status
Active == {v \in Numbers : Is(v, "active")}

(* The rows whose lock a transaction holds.                                 *)
Locks(a) ==
    LET t == activation[a]
    IN  CASE t.pc \in {"locked", "scanned"} -> {t.version}
          [] t.pc = "retired" -> {t.version} \cup t.active
          [] OTHER -> {}
Free(a, rows_) == \A b \in Activators \ {a} : Locks(b) \cap rows_ = {}

(* max(version) + 1; a concurrent creation of the same number is refused.   *)
Create(v) ==
    /\ Is(v, "absent")
    /\ \A w \in 1 .. v - 1 : ~Is(w, "absent")
    /\ topology' = [topology EXCEPT ![v].status = "validated"]
    /\ UNCHANGED <<table, clock, activation>>
CreateTopologyVersion(v) == table = "twin" /\ Create(v)
CreateEnergyTopology(v) == table = "energy" /\ Create(v)

Begin(a, v) ==
    /\ activation[a].pc = "idle"
    /\ ~Is(v, "absent")
    /\ activation' = [activation EXCEPT
            ![a] = [pc |-> "begun", version |-> v, start |-> clock, active |-> {}]]
    /\ UNCHANGED <<table, clock, topology>>

(* A twin version that is active may be activated again.                    *)
Activatable == IF table = "twin" THEN {"validated", "active"} ELSE {"validated"}

(* SELECT ... FOR UPDATE waits, and reads what the holder committed.        *)
LockVersion(a) ==
    LET t == activation[a]
    IN  /\ t.pc = "begun"
        /\ Free(a, {t.version})
        /\ activation' = [activation EXCEPT ![a] =
                IF topology[t.version].status \in Activatable
                THEN [t EXCEPT !.pc = "locked"] ELSE NoActivation]
        /\ UNCHANGED <<table, clock, topology>>

(* The UPDATE that retires finds its rows in the snapshot of the statement. *)
FindActive(a) ==
    LET t == activation[a]
    IN  /\ t.pc = "locked"
        /\ activation' = [activation EXCEPT
                ![a] = [t EXCEPT !.pc = "scanned", !.active = Active \ {t.version}]]
        /\ UNCHANGED <<table, clock, topology>>

(* It waits for the locks of those rows and keeps the ones still active.    *)
(* CHECK (valid_to > valid_from) refuses a window that ends before it began.*)
RetireOthers(a) ==
    LET t == activation[a]
        retiring == t.active \cap Active
    IN  /\ t.pc = "scanned"
        /\ Free(a, t.active)
        /\ activation' = [activation EXCEPT ![a] =
                IF \A w \in retiring : topology[w].from < t.start
                THEN [t EXCEPT !.pc = "retired", !.active = retiring] ELSE NoActivation]
        /\ UNCHANGED <<table, clock, topology>>

(* An activation that dates the window anew.                                *)
ActivatedAfresh(row, at) == [status |-> "active", from |-> at, to |-> Open]

Retired(row, at) == [row EXCEPT !.status = "retired", !.to = at]
Activated(row, at) ==
    [status |-> "active", from |-> IF row.from = Open THEN at ELSE row.from, to |-> Open]

(* A commit that the unique index does not watch.                           *)
ActivateUnchecked(a) ==
    LET t == activation[a]
    IN  /\ t.pc = "retired"
        /\ topology' = [v \in Numbers |->
                CASE v = t.version -> Activated(topology[v], t.start)
                  [] v \in t.active -> Retired(topology[v], t.start)
                  [] OTHER -> topology[v]]
        /\ activation' = [activation EXCEPT ![a] = NoActivation]
        /\ UNCHANGED <<table, clock>>

(* The second UPDATE and the commit; the unique index refuses a second      *)
(* active row and the transaction is rolled back.                           *)
Activate(a) ==
    LET t == activation[a]
    IN  /\ t.pc = "retired"
        /\ IF Active \subseteq t.active \cup {t.version}
           THEN topology' = [v \in Numbers |->
                    CASE v = t.version -> Activated(topology[v], t.start)
                      [] v \in t.active -> Retired(topology[v], t.start)
                      [] OTHER -> topology[v]]
           ELSE UNCHANGED topology
        /\ activation' = [activation EXCEPT ![a] = NoActivation]
        /\ UNCHANGED <<table, clock>>

ActivationFails(a) ==
    /\ activation[a].pc # "idle"
    /\ activation' = [activation EXCEPT ![a] = NoActivation]
    /\ UNCHANGED <<table, clock, topology>>

TimePasses ==
    /\ clock < MaxTime
    /\ clock' = clock + 1
    /\ UNCHANGED <<table, topology, activation>>

TopologyNext ==
    \/ \E v \in Numbers : CreateTopologyVersion(v) \/ CreateEnergyTopology(v)
    \/ \E a \in Activators :
        \/ \E v \in Numbers : Begin(a, v)
        \/ LockVersion(a) \/ FindActive(a) \/ RetireOthers(a) \/ Activate(a)
        \/ ActivationFails(a)
    \/ TimePasses

TopologySpec == TopologyInit /\ [][TopologyNext]_topologyVars

-----------------------------------------------------------------------------
(* get_topology(at): the versions whose window holds the instant.           *)
At(t) ==
    {v \in Numbers :
        LET row == topology[v]
        IN  row.from # Open /\ row.from <= t /\ (row.to = Open \/ row.to > t)}

(* However activations interleave, an instant belongs to one version at     *)
(* most, the windows never overlap, and the active version is the only one  *)
(* whose window is open (digital_twin_repository.py:129-146, 176-184).      *)
OneVersionAtATime ==
    /\ \A t \in Times : \A v, w \in At(t) : v = w
    /\ \A v, w \in Active : v = w
    /\ \A v \in Numbers : Is(v, "active") <=> topology[v].from # Open /\ topology[v].to = Open

(* What get_topology answers about the past it answers ever after: an       *)
(* activation changes only the answers for instants since it began, however *)
(* long it waited for its locks and whatever it finds active then           *)
(* (digital_twin_repository.py:127-147, 176-184).                           *)
PastIsStable ==
    [][\A t \in Times :
            (\A a \in Activators : activation[a].pc # "idle" => t < activation[a].start)
                => At(t)' = At(t)]_topologyVars
=============================================================================
