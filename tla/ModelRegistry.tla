---------------------------- MODULE ModelRegistry ----------------------------
(* The models of one scope, mlops.py:44-196: registered by a maker, put to  *)
(* a quality gate by evaluations, promoted by a checker. Evaluations and    *)
(* promotions run concurrently in the API processes; an evaluation is dated *)
(* with the start of its transaction and may wait for the model's row while *)
(* a later one goes ahead. Whether a forecast passes quality_gate           *)
(* (mlops.py:44-55) is an outcome, true or false.                           *)
EXTENDS Integers

CONSTANTS
    Models,
    Actors,
    Jobs,           \* API processes
    MaxStarts,      \* bound on the evaluations of a behaviour
    Nobody

ASSUME RegistryAssumption ==
    /\ MaxStarts \in Nat
    /\ Nobody \notin Actors

VARIABLES
    modelStatus,
    createdBy, approvedBy,
    evaluations,    \* [model, at, passed]
    starts,         \* evaluations begun so far, their clock
    lastGate,       \* model -> the outcome of the evaluation that ran last
    job             \* process -> [pc, model, at, passed, actor, active]

registryVars == <<modelStatus, createdBy, approvedBy, evaluations, starts, lastGate, job>>

Idle == [pc |-> "idle"]
Evaluation == [model: Models, at: 1 .. MaxStarts, passed: BOOLEAN]
Job == [pc: {"idle"}]
    \cup [pc: {"evaluating"}, model: Models, at: 1 .. MaxStarts, passed: BOOLEAN]
    \cup [pc: {"promoting"}, model: Models, actor: Actors, active: SUBSET Models]

RegistryTypeOK ==
    /\ modelStatus \in [Models -> {"absent", "candidate", "shadow", "active", "rejected", "retired"}]
    /\ createdBy \in [Models -> Actors \cup {Nobody}]
    /\ approvedBy \in [Models -> Actors \cup {Nobody}]
    /\ evaluations \subseteq Evaluation
    /\ starts \in 0 .. MaxStarts
    /\ lastGate \in [Models -> {"none", "passed", "failed"}]
    /\ job \in [Jobs -> Job]

RegistryInit ==
    /\ modelStatus = [m \in Models |-> "absent"]
    /\ createdBy = [m \in Models |-> Nobody]
    /\ approvedBy = [m \in Models |-> Nobody]
    /\ evaluations = {}
    /\ starts = 0
    /\ lastGate = [m \in Models |-> "none"]
    /\ job = [j \in Jobs |-> Idle]

ActiveModels == {m \in Models : modelStatus[m] = "active"}
Locked(m) == \E j \in Jobs : job[j].pc = "promoting" /\ job[j].model = m

RegisterModel(m, actor) ==
    /\ modelStatus[m] = "absent"
    /\ modelStatus' = [modelStatus EXCEPT ![m] = "candidate"]
    /\ createdBy' = [createdBy EXCEPT ![m] = actor]
    /\ UNCHANGED <<approvedBy, evaluations, starts, lastGate, job>>

BeginEvaluation(j, m, passed) ==
    /\ job[j].pc = "idle"
    /\ modelStatus[m] # "absent"
    /\ starts < MaxStarts
    /\ starts' = starts + 1
    /\ job' = [job EXCEPT ![j] =
            [pc |-> "evaluating", model |-> m, at |-> starts', passed |-> passed]]
    /\ UNCHANGED <<modelStatus, createdBy, approvedBy, evaluations, lastGate>>

(* The row is locked, whatever its status; an active model leaves service.  *)
EvaluateModel(j) ==
    LET t == job[j]
    IN  /\ t.pc = "evaluating"
        /\ ~Locked(t.model)
        /\ evaluations' = evaluations \cup {[model |-> t.model, at |-> t.at, passed |-> t.passed]}
        /\ modelStatus' = [modelStatus EXCEPT ![t.model] = IF t.passed THEN "shadow" ELSE "rejected"]
        /\ lastGate' = [lastGate EXCEPT ![t.model] = IF t.passed THEN "passed" ELSE "failed"]
        /\ job' = [job EXCEPT ![j] = Idle]
        /\ UNCHANGED <<createdBy, approvedBy, starts>>

LatestPassed(m) ==
    \E e \in evaluations :
        /\ e.model = m /\ e.passed
        /\ \A f \in evaluations : f.model = m => f.at <= e.at

(* A promotion that goes by the evaluations alone.                          *)
BeginPromotionByDate(j, m, actor) ==
    /\ job[j].pc = "idle"
    /\ modelStatus[m] \in {"shadow", "rejected"}
    /\ ~Locked(m)
    /\ createdBy[m] # actor
    /\ LatestPassed(m)
    /\ job' = [job EXCEPT ![j] =
            [pc |-> "promoting", model |-> m, actor |-> actor, active |-> ActiveModels]]
    /\ UNCHANGED <<modelStatus, createdBy, approvedBy, evaluations, starts, lastGate>>

(* promote_model locks the model, checks maker, status and the evaluation   *)
(* with the latest date, and finds the models it will retire.               *)
BeginPromotion(j, m, actor) ==
    /\ job[j].pc = "idle"
    /\ ~Locked(m)
    /\ createdBy[m] # actor
    /\ modelStatus[m] = "shadow"
    /\ LatestPassed(m)
    /\ job' = [job EXCEPT ![j] =
            [pc |-> "promoting", model |-> m, actor |-> actor, active |-> ActiveModels]]
    /\ UNCHANGED <<modelStatus, createdBy, approvedBy, evaluations, starts, lastGate>>

(* The index idx_chargeopt_active_model_scope refuses a second active model *)
(* of the scope and rolls the promotion back.                               *)
Promote(j) ==
    LET t == job[j]
    IN  /\ t.pc = "promoting"
        /\ \A m \in t.active : ~Locked(m)
        /\ IF ActiveModels \subseteq t.active
           THEN /\ modelStatus' = [m \in Models |->
                        IF m = t.model THEN "active"
                        ELSE IF m \in ActiveModels THEN "retired" ELSE modelStatus[m]]
                /\ approvedBy' = [approvedBy EXCEPT ![t.model] = t.actor]
           ELSE UNCHANGED <<modelStatus, approvedBy>>
        /\ job' = [job EXCEPT ![j] = Idle]
        /\ UNCHANGED <<createdBy, evaluations, starts, lastGate>>

JobFails(j) ==
    /\ job[j].pc # "idle"
    /\ job' = [job EXCEPT ![j] = Idle]
    /\ UNCHANGED <<modelStatus, createdBy, approvedBy, evaluations, starts, lastGate>>

RegistryNext ==
    \/ \E m \in Models, actor \in Actors : RegisterModel(m, actor)
    \/ \E j \in Jobs :
        \/ \E m \in Models, passed \in BOOLEAN : BeginEvaluation(j, m, passed)
        \/ \E m \in Models, actor \in Actors : BeginPromotion(j, m, actor)
        \/ EvaluateModel(j) \/ Promote(j) \/ JobFails(j)

RegistrySpec == RegistryInit /\ [][RegistryNext]_registryVars

-----------------------------------------------------------------------------
(* The model in service is alone in its scope, was approved by another than *)
(* its maker, and passed both the evaluation that ran last and the one with *)
(* the latest date, although these may be two different evaluations         *)
(* (mlops.py:103-196).                                                      *)
ActiveIsGated ==
    \A m \in ActiveModels :
        /\ ActiveModels = {m}
        /\ approvedBy[m] \in Actors \ {createdBy[m]}
        /\ lastGate[m] = "passed"
        /\ LatestPassed(m)
=============================================================================
