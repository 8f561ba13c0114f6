--------------------------- MODULE TwinMaintenance ---------------------------
(* Diagnostics and maintenance of the digital twin: persist_diagnostics and  *)
(* transition_maintenance_action (digital_twin_repository.py:484-595,        *)
(* 679-730; tables of migrations/015_digital_twin.sql:169-219). One station, *)
(* one diagnosis with the maintenance it recommends. Each is a transaction   *)
(* of two steps, the SELECT ... FOR UPDATE and the rest.                     *)
EXTENDS Naturals, FiniteSets

CONSTANTS
    Ingests,        \* telemetry requests that run the diagnostics
    Technicians,    \* PATCH requests on the maintenance actions
    DiagnosticIds, ActionIds,   \* bounds on the rows of a behaviour
    NoRow

ASSUME MaintenanceAssumption == NoRow \notin DiagnosticIds \cup ActionIds

VARIABLES
    diagnostics,    \* rows of twin_diagnostics; nothing ever resolves one
    ingest,         \* ingest -> its transaction and the row it has locked
    overlapped,     \* two ingests that found no row were open together
    actions,        \* twin_maintenance_actions: id -> status
    closings,       \* action -> the technicians who were told they closed it
    patch           \* technician -> the transition it is making

maintenanceVars == <<diagnostics, ingest, overlapped, actions, closings, patch>>

ActionStatuses == {"planned", "in_progress", "completed", "cancelled"}
OpenStatus == {"planned", "in_progress"}
NoPatch == [action |-> NoRow, target |-> "planned"]
Transitions(status) ==
    CASE status = "planned" -> {"in_progress", "cancelled"}
      [] status = "in_progress" -> {"completed", "cancelled"}
      [] OTHER -> {}
OpenActions == {a \in ActionIds : actions[a] \in OpenStatus}

MaintenanceTypeOK ==
    /\ diagnostics \subseteq DiagnosticIds
    /\ ingest \in [Ingests -> [at: {"idle", "insert", "refresh"}, row: DiagnosticIds \cup {NoRow}]]
    /\ overlapped \in BOOLEAN
    /\ actions \in [ActionIds -> ActionStatuses \cup {"none"}]
    /\ closings \in [ActionIds -> SUBSET Technicians]
    /\ patch \in [Technicians -> [action: ActionIds \cup {NoRow}, target: ActionStatuses]]

MaintenanceInit ==
    /\ diagnostics = {}
    /\ ingest = [i \in Ingests |-> [at |-> "idle", row |-> NoRow]]
    /\ overlapped = FALSE
    /\ actions = [a \in ActionIds |-> "none"]
    /\ closings = [a \in ActionIds |-> {}]
    /\ patch = [t \in Technicians |-> NoPatch]

(* The row is locked by the first ingest that finds it; when there is none, *)
(* nothing is locked.                                                       *)
FindDiagnostic(i) ==
    /\ ingest[i].at = "idle"
    /\ \/ /\ diagnostics = {}
          /\ ingest' = [ingest EXCEPT ![i].at = "insert"]
          /\ overlapped' = (overlapped \/ \E j \in Ingests : ingest[j].at = "insert")
       \/ /\ \E d \in diagnostics :
              /\ \A j \in Ingests : ingest[j].row # d
              /\ ingest' = [ingest EXCEPT ![i] = [at |-> "refresh", row |-> d]]
          /\ UNCHANGED overlapped
    /\ UNCHANGED <<diagnostics, actions, closings, patch>>

(* The recommended action is planned unless the station has an open one.    *)
RecommendMaintenance ==
    \/ OpenActions # {} /\ UNCHANGED actions
    \/ OpenActions = {} /\ \E a \in ActionIds :
        /\ actions[a] = "none"
        /\ actions' = [actions EXCEPT ![a] = "planned"]

PersistDiagnostics(i) ==
    /\ ingest[i].at # "idle"
    /\ IF ingest[i].at = "insert"
       THEN \E d \in DiagnosticIds \ diagnostics : diagnostics' = diagnostics \cup {d}
       ELSE UNCHANGED diagnostics
    /\ RecommendMaintenance
    /\ ingest' = [ingest EXCEPT ![i] = [at |-> "idle", row |-> NoRow]]
    /\ UNCHANGED <<overlapped, closings, patch>>

IngestRollsBack(i) ==
    /\ ingest[i].at # "idle"
    /\ ingest' = [ingest EXCEPT ![i] = [at |-> "idle", row |-> NoRow]]
    /\ UNCHANGED <<diagnostics, overlapped, actions, closings, patch>>

(* The transition without FOR UPDATE.                                       *)
ReadUnlocked(t, a, wanted) ==
    /\ patch[t].action = NoRow
    /\ actions[a] # "none"
    /\ wanted \in Transitions(actions[a])
    /\ patch' = [patch EXCEPT ![t] = [action |-> a, target |-> wanted]]
    /\ UNCHANGED <<diagnostics, ingest, overlapped, actions, closings>>

(* An illegal transition is refused and leaves nothing behind.              *)
ReadAction(t, a, wanted) ==
    /\ patch[t].action = NoRow
    /\ \A other \in Technicians : patch[other].action # a
    /\ actions[a] # "none"
    /\ wanted \in Transitions(actions[a])
    /\ patch' = [patch EXCEPT ![t] = [action |-> a, target |-> wanted]]
    /\ UNCHANGED <<diagnostics, ingest, overlapped, actions, closings>>

CommitTransition(t) ==
    LET p == patch[t]
    IN  /\ p.action # NoRow
        /\ actions' = [actions EXCEPT ![p.action] = p.target]
        /\ closings' = IF p.target \in OpenStatus THEN closings
                       ELSE [closings EXCEPT ![p.action] = @ \cup {t}]
        /\ patch' = [patch EXCEPT ![t] = NoPatch]
        /\ UNCHANGED <<diagnostics, ingest, overlapped>>

TransitionRollsBack(t) ==
    /\ patch[t].action # NoRow
    /\ patch' = [patch EXCEPT ![t] = NoPatch]
    /\ UNCHANGED <<diagnostics, ingest, overlapped, actions, closings>>

MaintenanceNext ==
    \/ \E i \in Ingests : FindDiagnostic(i) \/ PersistDiagnostics(i) \/ IngestRollsBack(i)
    \/ \E t \in Technicians :
        \/ \E a \in ActionIds, wanted \in ActionStatuses : ReadAction(t, a, wanted)
        \/ CommitTransition(t) \/ TransitionRollsBack(t)

MaintenanceSpec == MaintenanceInit /\ [][MaintenanceNext]_maintenanceVars

-----------------------------------------------------------------------------
(* A maintenance action is closed by one technician, so that the completion *)
(* or cancellation one was told of is the one on record; a station has one  *)
(* open action per cause; and one open diagnostic, unless two first         *)
(* detections overlapped: no unique key stops the second                    *)
(* (digital_twin_repository.py:501-528, 541-580, 693-728).                  *)
ClosedOnce ==
    /\ \A a \in ActionIds :
        /\ Cardinality(closings[a]) <= 1
        /\ actions[a] \in {"completed", "cancelled"} <=> closings[a] # {}
    /\ Cardinality(OpenActions) <= 1
    /\ Cardinality(diagnostics) <= 1 \/ overlapped

(* From any moment to the next, the action on record moves as the lifecycle *)
(* says, though it is checked when the row is read and written later        *)
(* (digital_twin_repository.py:541-580, 693-728).                           *)
ActionsMoveLegally ==
    [][\A a \in ActionIds :
        \/ actions'[a] = actions[a]
        \/ actions[a] = "none" /\ actions'[a] = "planned"
        \/ actions'[a] \in Transitions(actions[a])]_maintenanceVars
=============================================================================
