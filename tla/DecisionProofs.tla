---------------------------- MODULE DecisionProofs ----------------------------
(* What maker-checker decisions promise, for any number of models, actors,  *)
(* recommendations, versions and API processes: the model in service has    *)
(* passed its gates, an approved recommendation has its task, and an instant*)
(* has one topology.                                                        *)
EXTENDS ModelRegistry, DispatchApproval, TopologyVersions, TopologyCheck, FiniteSetTheorems,
        TLAPS

-----------------------------------------------------------------------------
(* ModelRegistry. A promotion under way holds the lock of its model, so that*)
(* what it has checked stays true until it commits (mlops.py:148-196).      *)
Promoting(j) == job[j].pc = "promoting"
ShadowsPassed == \A m \in Models : modelStatus[m] = "shadow" => lastGate[m] = "passed"
PromotionsAreChecked ==
    \A j \in Jobs, m \in Models : Promoting(j) /\ job[j].model = m =>
        /\ modelStatus[m] = "shadow"
        /\ job[j].actor # createdBy[m]
        /\ LatestPassed(m)
LocksAreExclusive ==
    \A i, j \in Jobs : Promoting(i) /\ Promoting(j) /\ job[i].model = job[j].model => i = j

RegistryInv ==
    /\ RegistryTypeOK
    /\ ShadowsPassed
    /\ PromotionsAreChecked
    /\ LocksAreExclusive
    /\ ActiveIsGated

LEMMA RegistryInitInv == RegistryInit => RegistryInv
<1> SUFFICES ASSUME RegistryInit PROVE RegistryInv  OBVIOUS
<1>1. RegistryTypeOK
  BY RegistryAssumption DEF RegistryInit, RegistryTypeOK, Job, Idle
<1>2. ShadowsPassed /\ ActiveIsGated
  BY DEF RegistryInit, ShadowsPassed, ActiveIsGated, ActiveModels
<1>3. \A j \in Jobs : ~Promoting(j)
  BY DEF RegistryInit, Promoting, Idle
<1>4. QED  BY <1>1, <1>2, <1>3 DEF RegistryInv, PromotionsAreChecked, LocksAreExclusive

(* The jobs by their stage (mlops.py:103-196).                              *)
LEMMA JobFields ==
    ASSUME RegistryTypeOK, NEW j \in Jobs
    PROVE  /\ job[j].pc = "evaluating" =>
                job[j].model \in Models /\ job[j].at \in 1 .. MaxStarts /\ job[j].passed \in BOOLEAN
           /\ job[j].pc = "promoting" =>
                job[j].model \in Models /\ job[j].actor \in Actors /\ job[j].active \subseteq Models
BY DEF RegistryTypeOK, Job

(* What leaves the models, their evaluations and the other promotions alone *)
(* keeps the invariant (mlops.py:103-196).                                  *)
LEMMA JobStepKeepsInv ==
    ASSUME RegistryInv, NEW j \in Jobs, NEW t \in Job, t.pc # "promoting",
           job' = [job EXCEPT ![j] = t], starts' \in 0 .. MaxStarts,
           UNCHANGED <<modelStatus, createdBy, approvedBy, evaluations, lastGate>>
    PROVE  RegistryInv'
<1>0. RegistryTypeOK /\ ShadowsPassed /\ PromotionsAreChecked /\ LocksAreExclusive /\ ActiveIsGated
  BY DEF RegistryInv
<1>1. RegistryTypeOK'  BY <1>0 DEF RegistryTypeOK
<1>2. \A i \in Jobs : Promoting(i)' => i # j /\ job'[i] = job[i] /\ Promoting(i)
  BY <1>0 DEF RegistryTypeOK, Promoting
<1>3. PromotionsAreChecked'  BY <1>0, <1>2 DEF PromotionsAreChecked, LatestPassed
<1>4. LocksAreExclusive'  BY <1>0, <1>2 DEF LocksAreExclusive
<1>5. ShadowsPassed' /\ ActiveIsGated'
  BY <1>0 DEF ShadowsPassed, ActiveIsGated, ActiveModels, LatestPassed
<1>6. QED  BY <1>1, <1>3, <1>4, <1>5 DEF RegistryInv

(* A registration makes a candidate of an absent model (mlops.py:58-100).   *)
LEMMA RegisterKeepsInv ==
    ASSUME RegistryInv, NEW m \in Models, NEW actor \in Actors, RegisterModel(m, actor)
    PROVE  RegistryInv'
<1>0. RegistryTypeOK /\ ShadowsPassed /\ PromotionsAreChecked /\ LocksAreExclusive /\ ActiveIsGated
  BY DEF RegistryInv
<1>1. /\ modelStatus[m] = "absent" /\ modelStatus' = [modelStatus EXCEPT ![m] = "candidate"]
      /\ createdBy' = [createdBy EXCEPT ![m] = actor]
      /\ UNCHANGED <<approvedBy, evaluations, starts, lastGate, job>>
  BY DEF RegisterModel
<1>2. RegistryTypeOK'  BY <1>0, <1>1 DEF RegistryTypeOK
<1>3. \A n \in Models : modelStatus'[n] = IF n = m THEN "candidate" ELSE modelStatus[n]
  BY <1>0, <1>1 DEF RegistryTypeOK
<1>4. \A n \in Models : n # m => createdBy'[n] = createdBy[n]
  BY <1>0, <1>1 DEF RegistryTypeOK
<1>5. ShadowsPassed'  BY <1>0, <1>1, <1>3 DEF ShadowsPassed
<1>6. PromotionsAreChecked'
  <2> SUFFICES ASSUME NEW j \in Jobs, NEW n \in Models, Promoting(j), job[j].model = n
               PROVE  modelStatus'[n] = "shadow" /\ job[j].actor # createdBy'[n] /\ LatestPassed(n)
    BY <1>1 DEF PromotionsAreChecked, Promoting, LatestPassed
  <2>1. modelStatus[n] = "shadow" /\ job[j].actor # createdBy[n] /\ LatestPassed(n)
    BY <1>0 DEF PromotionsAreChecked
  <2>2. n # m  BY <1>1, <2>1
  <2>3. QED  BY <1>3, <1>4, <2>1, <2>2
<1>7. LocksAreExclusive'  BY <1>0, <1>1 DEF LocksAreExclusive, Promoting
<1>8. ActiveIsGated'
  <2>1. ActiveModels' = ActiveModels /\ m \notin ActiveModels
    BY <1>1, <1>3 DEF ActiveModels
  <2>2. ActiveModels \subseteq Models  BY DEF ActiveModels
  <2>3. QED  BY <1>0, <1>1, <1>4, <2>1, <2>2 DEF ActiveIsGated, LatestPassed
<1>9. QED  BY <1>2, <1>5, <1>6, <1>7, <1>8 DEF RegistryInv

(* An evaluation decides the status of its model and leaves the others      *)
(* (mlops.py:103-145).                                                      *)
LEMMA EvaluateKeepsInv ==
    ASSUME RegistryInv, NEW j \in Jobs, EvaluateModel(j)
    PROVE  RegistryInv'
<1>0. RegistryTypeOK /\ ShadowsPassed /\ PromotionsAreChecked /\ LocksAreExclusive /\ ActiveIsGated
  BY DEF RegistryInv
<1>m. PICK m \in Models : m = job[j].model
  BY <1>0, JobFields DEF EvaluateModel
<1> DEFINE e == [model |-> m, at |-> job[j].at, passed |-> job[j].passed]
           status == IF job[j].passed THEN "shadow" ELSE "rejected"
           gate == IF job[j].passed THEN "passed" ELSE "failed"
<1>1. /\ job[j].pc = "evaluating" /\ ~Locked(m)
      /\ evaluations' = evaluations \cup {e}
      /\ modelStatus' = [modelStatus EXCEPT ![m] = status]
      /\ lastGate' = [lastGate EXCEPT ![m] = gate]
      /\ job' = [job EXCEPT ![j] = Idle]
      /\ UNCHANGED <<createdBy, approvedBy, starts>>
  BY <1>m DEF EvaluateModel
<1>2. e \in Evaluation /\ e.model = m /\ Idle \in Job
  BY <1>0, <1>1, JobFields DEF Evaluation, Job, Idle
<1>3. /\ status \in {"shadow", "rejected"} /\ gate \in {"passed", "failed"}
      /\ status = "shadow" => gate = "passed"
  OBVIOUS
<1> HIDE DEF e, status, gate
<1>4. RegistryTypeOK'  BY <1>0, <1>1, <1>2, <1>3 DEF RegistryTypeOK
<1>5. \A n \in Models : /\ modelStatus'[n] = IF n = m THEN status ELSE modelStatus[n]
                        /\ lastGate'[n] = IF n = m THEN gate ELSE lastGate[n]
  BY <1>0, <1>1 DEF RegistryTypeOK
<1>6. \A n \in Models : n # m /\ LatestPassed(n) => LatestPassed(n)'
  BY <1>1, <1>2 DEF LatestPassed
<1>7. \A i \in Jobs : Promoting(i)' =>
            i # j /\ job'[i] = job[i] /\ Promoting(i) /\ job[i].model # m
  BY <1>0, <1>1 DEF RegistryTypeOK, Promoting, Locked, Idle
<1>8. ShadowsPassed'  BY <1>0, <1>3, <1>5 DEF ShadowsPassed
<1>9. PromotionsAreChecked'
  <2> SUFFICES ASSUME NEW i \in Jobs, NEW n \in Models, Promoting(i)', job'[i].model = n
               PROVE  modelStatus'[n] = "shadow" /\ job'[i].actor # createdBy'[n] /\ LatestPassed(n)'
    BY DEF PromotionsAreChecked
  <2>1. job'[i] = job[i] /\ Promoting(i) /\ n # m  BY <1>7
  <2>2. modelStatus[n] = "shadow" /\ job[i].actor # createdBy[n] /\ LatestPassed(n)
    BY <1>0, <2>1 DEF PromotionsAreChecked
  <2>3. QED  BY <1>1, <1>5, <1>6, <2>1, <2>2
<1>10. LocksAreExclusive'  BY <1>0, <1>7 DEF LocksAreExclusive
<1>11. ActiveIsGated'
  <2>1. ActiveModels' = ActiveModels \ {m}
    BY <1>3, <1>5 DEF ActiveModels
  <2>2. ASSUME NEW n \in ActiveModels'
        PROVE  n \in ActiveModels /\ n # m /\ n \in Models /\ lastGate'[n] = lastGate[n]
    BY <1>5, <2>1 DEF ActiveModels
  <2>3. QED  BY <1>0, <1>1, <1>6, <2>1, <2>2 DEF ActiveIsGated
<1>12. QED  BY <1>4, <1>8, <1>9, <1>10, <1>11 DEF RegistryInv

(* A promotion begins with the lock and the checks (mlops.py:148-170).      *)
LEMMA BeginPromotionKeepsInv ==
    ASSUME RegistryInv, NEW j \in Jobs, NEW m \in Models, NEW actor \in Actors,
           BeginPromotion(j, m, actor)
    PROVE  RegistryInv'
<1>0. RegistryTypeOK /\ ShadowsPassed /\ PromotionsAreChecked /\ LocksAreExclusive /\ ActiveIsGated
  BY DEF RegistryInv
<1> DEFINE t == [pc |-> "promoting", model |-> m, actor |-> actor, active |-> ActiveModels]
<1>1. /\ ~Locked(m) /\ createdBy[m] # actor /\ modelStatus[m] = "shadow" /\ LatestPassed(m)
      /\ job' = [job EXCEPT ![j] = t]
      /\ UNCHANGED <<modelStatus, createdBy, approvedBy, evaluations, starts, lastGate>>
  BY DEF BeginPromotion
<1>2. t \in Job /\ t.pc = "promoting" /\ t.model = m /\ t.actor = actor
  BY DEF Job, ActiveModels
<1> HIDE DEF t
<1>3. RegistryTypeOK'  BY <1>0, <1>1, <1>2 DEF RegistryTypeOK
<1>4. \A i \in Jobs : /\ i = j => job'[i] = t
                      /\ i # j => job'[i] = job[i] /\ (Promoting(i)' <=> Promoting(i))
  BY <1>0, <1>1 DEF RegistryTypeOK, Promoting
<1>5. PromotionsAreChecked'
  BY <1>0, <1>1, <1>2, <1>4 DEF PromotionsAreChecked, LatestPassed
<1>6. \A i \in Jobs : Promoting(i) => job[i].model # m
  BY <1>1 DEF Locked, Promoting
<1>7. LocksAreExclusive'  BY <1>0, <1>2, <1>4, <1>6 DEF LocksAreExclusive
<1>8. ShadowsPassed' /\ ActiveIsGated'
  BY <1>0, <1>1 DEF ShadowsPassed, ActiveIsGated, ActiveModels, LatestPassed
<1>9. QED  BY <1>3, <1>5, <1>7, <1>8 DEF RegistryInv

(* The promotion retires every active model it knew of and is refused when  *)
(* there is another (mlops.py:171-196).                                     *)
LEMMA PromoteKeepsInv ==
    ASSUME RegistryInv, NEW j \in Jobs, Promote(j)
    PROVE  RegistryInv'
<1>0. RegistryTypeOK /\ ShadowsPassed /\ PromotionsAreChecked /\ LocksAreExclusive /\ ActiveIsGated
  BY DEF RegistryInv
<1>i. Idle \in Job /\ Idle.pc # "promoting"  BY DEF Job, Idle
<1>m. PICK m \in Models : m = job[j].model
  BY <1>0, JobFields DEF Promote
<1>1. Promoting(j) /\ job' = [job EXCEPT ![j] = Idle]
      /\ UNCHANGED <<createdBy, evaluations, starts, lastGate>>
  BY DEF Promote, Promoting
<1>2. CASE ~(ActiveModels \subseteq job[j].active)
  <2>1. UNCHANGED <<modelStatus, approvedBy>>  BY <1>2 DEF Promote
  <2>2. starts' \in 0 .. MaxStarts  BY <1>0, <1>1 DEF RegistryTypeOK
  <2>3. QED  BY <1>i, <1>1, <2>1, <2>2, JobStepKeepsInv
<1>3. CASE ActiveModels \subseteq job[j].active
  <2>1. /\ modelStatus' = [n \in Models |->
                IF n = m THEN "active"
                ELSE IF n \in ActiveModels THEN "retired" ELSE modelStatus[n]]
        /\ approvedBy' = [approvedBy EXCEPT ![m] = job[j].actor]
    BY <1>3, <1>m DEF Promote
  <2>2. /\ m \in Models /\ job[j].actor \in Actors
        /\ modelStatus[m] = "shadow" /\ job[j].actor # createdBy[m] /\ LatestPassed(m)
    BY <1>0, <1>1, <1>m, JobFields DEF PromotionsAreChecked, Promoting
  <2>3. \A i \in Jobs : Promoting(i)' =>
            i # j /\ job'[i] = job[i] /\ Promoting(i) /\ job[i].model # m
    BY <1>0, <1>i, <1>1, <1>m DEF RegistryTypeOK, Promoting, LocksAreExclusive
  <2>4. RegistryTypeOK'
    <3>1. modelStatus' \in [Models -> {"absent", "candidate", "shadow", "active", "rejected", "retired"}]
      BY <1>0, <2>1 DEF RegistryTypeOK
    <3>2. approvedBy' \in [Models -> Actors \cup {Nobody}] /\ job' \in [Jobs -> Job]
      BY <1>0, <1>i, <1>1, <2>1, <2>2 DEF RegistryTypeOK
    <3>3. QED  BY <1>0, <1>1, <3>1, <3>2 DEF RegistryTypeOK
  <2>5. \A n \in Models : modelStatus'[n] = IF n = m THEN "active"
                ELSE IF n \in ActiveModels THEN "retired" ELSE modelStatus[n]
    BY <2>1
  <2>6. ShadowsPassed'  BY <1>0, <1>1, <2>5 DEF ShadowsPassed
  <2>7. PromotionsAreChecked'
    <3> SUFFICES ASSUME NEW i \in Jobs, NEW n \in Models, Promoting(i)', job'[i].model = n
                 PROVE  /\ modelStatus'[n] = "shadow"
                        /\ job'[i].actor # createdBy'[n]
                        /\ LatestPassed(n)'
      BY DEF PromotionsAreChecked
    <3>1. job'[i] = job[i] /\ Promoting(i) /\ n # m  BY <2>3
    <3>2. modelStatus[n] = "shadow" /\ job[i].actor # createdBy[n] /\ LatestPassed(n)
      BY <1>0, <3>1 DEF PromotionsAreChecked
    <3>3. n \notin ActiveModels  BY <3>2 DEF ActiveModels
    <3>4. LatestPassed(n)'  BY <1>1, <3>2 DEF LatestPassed
    <3>5. QED  BY <1>1, <2>5, <3>1, <3>2, <3>3, <3>4
  <2>8. LocksAreExclusive'  BY <1>0, <2>3 DEF LocksAreExclusive
  <2>9. ActiveIsGated'
    <3>1. ActiveModels' = {m}
      <4>1. \A n \in Models : modelStatus'[n] = "active" <=> n = m
        BY <2>5 DEF ActiveModels
      <4>2. QED  BY <2>2, <4>1 DEF ActiveModels
    <3>2. approvedBy'[m] = job[j].actor /\ createdBy' = createdBy
      BY <1>0, <1>1, <2>1, <2>2 DEF RegistryTypeOK
    <3>3. lastGate'[m] = "passed" /\ LatestPassed(m)'
      BY <1>0, <1>1, <2>2 DEF ShadowsPassed, LatestPassed
    <3>4. QED  BY <2>2, <3>1, <3>2, <3>3 DEF ActiveIsGated
  <2>10. QED  BY <2>4, <2>6, <2>7, <2>8, <2>9 DEF RegistryInv
<1>4. QED  BY <1>2, <1>3

LEMMA RegistryStepsKeepInv == RegistryInv /\ [RegistryNext]_registryVars => RegistryInv'
<1> SUFFICES ASSUME RegistryInv, [RegistryNext]_registryVars PROVE RegistryInv'  OBVIOUS
<1>0. RegistryTypeOK  BY DEF RegistryInv
<1>1. ASSUME NEW j \in Jobs, NEW m \in Models, NEW passed \in BOOLEAN, BeginEvaluation(j, m, passed)
      PROVE  RegistryInv'
  <2> DEFINE t == [pc |-> "evaluating", model |-> m, at |-> starts + 1, passed |-> passed]
  <2>1. starts + 1 \in 1 .. MaxStarts /\ starts' = starts + 1
    BY <1>0, <1>1, RegistryAssumption DEF BeginEvaluation, RegistryTypeOK
  <2>2. t \in Job /\ t.pc # "promoting"  BY <2>1 DEF Job
  <2>3. job' = [job EXCEPT ![j] = t]  BY <1>1, <2>1 DEF BeginEvaluation
  <2>4. UNCHANGED <<modelStatus, createdBy, approvedBy, evaluations, lastGate>>
    BY <1>1 DEF BeginEvaluation
  <2>5. starts' \in 0 .. MaxStarts  BY <2>1
  <2> HIDE DEF t
  <2>6. QED  BY <2>2, <2>3, <2>4, <2>5, JobStepKeepsInv
<1>2. ASSUME NEW j \in Jobs, JobFails(j)
      PROVE  RegistryInv'
  <2>1. Idle \in Job /\ Idle.pc # "promoting"  BY DEF Job, Idle
  <2>2. job' = [job EXCEPT ![j] = Idle] /\ starts' \in 0 .. MaxStarts
        /\ UNCHANGED <<modelStatus, createdBy, approvedBy, evaluations, lastGate>>
    BY <1>0, <1>2 DEF JobFails, RegistryTypeOK
  <2>3. QED  BY <2>1, <2>2, JobStepKeepsInv
<1>3. CASE UNCHANGED registryVars
  BY <1>3 DEF registryVars, RegistryInv, RegistryTypeOK, ShadowsPassed, PromotionsAreChecked,
     LocksAreExclusive, ActiveIsGated, ActiveModels, LatestPassed, Promoting
<1>4. QED
  BY <1>1, <1>2, <1>3, RegisterKeepsInv, EvaluateKeepsInv, BeginPromotionKeepsInv,
     PromoteKeepsInv DEF RegistryNext

(* The registry stays in its types (mlops.py:58-196).                       *)
THEOREM RegistryTypeCorrect == RegistrySpec => []RegistryTypeOK
<1>1. RegistryInv => RegistryTypeOK  BY DEF RegistryInv
<1>2. QED  BY <1>1, RegistryInitInv, RegistryStepsKeepInv, PTL DEF RegistrySpec

(* However evaluations and promotions interleave, the model in service is   *)
(* alone, approved by another than its maker, and passed its last gate and  *)
(* its latest evaluation (mlops.py:103-196).                                *)
THEOREM ActiveIsGatedHolds == RegistrySpec => []ActiveIsGated
<1>1. RegistryInv => ActiveIsGated  BY DEF RegistryInv
<1>2. QED  BY <1>1, RegistryInitInv, RegistryStepsKeepInv, PTL DEF RegistrySpec

-----------------------------------------------------------------------------
(* DispatchApproval. A review carries a command that was generated before it*)
(* began (repository.py:1231-1309).                                         *)
ReviewsAreOfThePast ==
    \A v \in Reviewers : review[v] # NoReview => review[v].payload <= payload[review[v].rec]

DispatchInv ==
    /\ DispatchTypeOK
    /\ IsFiniteSet(dispatchTasks)
    /\ ReviewsAreOfThePast
    /\ DecisionsAgree

LEMMA ReviewFields ==
    ASSUME DispatchTypeOK, NEW v \in Reviewers, review[v] # NoReview
    PROVE  /\ review[v] \in Review /\ review[v].rec \in Recommendations
           /\ review[v].payload \in 1 .. MaxPayloads
<1>1. review[v] \in Review  BY DEF DispatchTypeOK
<1>2. QED  BY <1>1 DEF Review

LEMMA DispatchInitInv == DispatchInit => DispatchInv
<1> SUFFICES ASSUME DispatchInit PROVE DispatchInv  OBVIOUS
<1>1. DispatchTypeOK
  BY DispatchAssumption DEF DispatchInit, DispatchTypeOK, Statuses
<1>2. IsFiniteSet(dispatchTasks)  BY FS_EmptySet DEF DispatchInit
<1>3. ReviewsAreOfThePast /\ DecisionsAgree
  BY DEF DispatchInit, ReviewsAreOfThePast, DecisionsAgree
<1>4. QED  BY <1>1, <1>2, <1>3 DEF DispatchInv

(* A later command only makes the approved one older (repository.py:469-522)*)
LEMMA GenerationKeepsInv ==
    ASSUME DispatchInv, NEW r \in Recommendations, PersistDispatchRecommendation(r)
    PROVE  DispatchInv'
<1>0. DispatchTypeOK /\ IsFiniteSet(dispatchTasks) /\ ReviewsAreOfThePast /\ DecisionsAgree
  BY DEF DispatchInv
<1>1. /\ payload[r] < MaxPayloads /\ payload' = [payload EXCEPT ![r] = payload[r] + 1]
      /\ UNCHANGED <<recStatus, approval, patched, dispatchTasks, review>>
  BY DEF PersistDispatchRecommendation
<1>2. \A s \in Recommendations : payload[s] \in 0 .. MaxPayloads /\ payload[s] \in Nat
  BY <1>0, DispatchAssumption DEF DispatchTypeOK
<1>3. \A s \in Recommendations : payload'[s] \in Nat /\ payload[s] <= payload'[s]
  BY <1>0, <1>1, <1>2 DEF DispatchTypeOK
<1>4. DispatchTypeOK'
  BY <1>0, <1>1, <1>2, DispatchAssumption DEF DispatchTypeOK
<1>5. ReviewsAreOfThePast'
  <2> SUFFICES ASSUME NEW v \in Reviewers, review[v] # NoReview
               PROVE  review[v].payload <= payload'[review[v].rec]
    BY <1>1 DEF ReviewsAreOfThePast
  <2>1. review[v].rec \in Recommendations /\ review[v].payload \in Nat
    BY <1>0, ReviewFields
  <2>2. review[v].payload <= payload[review[v].rec]  BY <1>0 DEF ReviewsAreOfThePast
  <2>3. QED  BY <1>2, <1>3, <2>1, <2>2
<1>6. DecisionsAgree'
  <2> SUFFICES ASSUME NEW s \in Recommendations,
                      approval[s] \in {"approved", "rejected"}, ~patched[s]
               PROVE  /\ recStatus[s] = approval[s]
                      /\ approval[s] = "approved" =>
                            \E t \in dispatchTasks : t.rec = s /\ t.payload <= payload'[s]
    BY <1>1 DEF DecisionsAgree
  <2>1. recStatus[s] = approval[s]  BY <1>0 DEF DecisionsAgree
  <2>2. ASSUME approval[s] = "approved"
        PROVE  \E t \in dispatchTasks : t.rec = s /\ t.payload <= payload'[s]
    <3>1. PICK t \in dispatchTasks : t.rec = s /\ t.payload <= payload[s]
      BY <1>0, <2>2 DEF DecisionsAgree
    <3>2. t.payload \in Nat  BY <1>0 DEF DispatchTypeOK, DispatchTask
    <3>3. QED  BY <1>2, <1>3, <3>1, <3>2
  <2>3. QED  BY <2>1, <2>2
<1>7. QED  BY <1>0, <1>1, <1>4, <1>5, <1>6 DEF DispatchInv

(* The commit of a review writes the decision, the status and, if it        *)
(* approves, the task in one transaction (repository.py:1269-1300).         *)
LEMMA CommitReviewKeepsInv ==
    ASSUME DispatchInv, NEW v \in Reviewers, CommitReview(v)
    PROVE  DispatchInv'
<1>0. DispatchTypeOK /\ IsFiniteSet(dispatchTasks) /\ ReviewsAreOfThePast /\ DecisionsAgree
  BY DEF DispatchInv
<1>m. review[v] # NoReview  BY DEF CommitReview
<1>r. PICK r \in Recommendations : r = review[v].rec
  BY <1>0, <1>m, ReviewFields
<1> DEFINE decision == IF review[v].approved THEN "approved" ELSE "rejected"
           nth == Cardinality(dispatchTasks) + 1
           task == [rec |-> r, payload |-> review[v].payload, nth |-> nth]
<1>1. /\ review[v].approved => nth <= MaxTasks
      /\ approval' = [approval EXCEPT ![r] = decision]
      /\ recStatus' = [recStatus EXCEPT ![r] = decision]
      /\ patched' = [patched EXCEPT ![r] = FALSE]
      /\ dispatchTasks' = IF review[v].approved THEN dispatchTasks \cup {task} ELSE dispatchTasks
      /\ review' = [review EXCEPT ![v] = NoReview]
      /\ UNCHANGED payload
  BY <1>r DEF CommitReview
<1>2. review[v].payload \in 1 .. MaxPayloads /\ review[v].payload <= payload[r]
  BY <1>0, <1>m, <1>r, ReviewFields DEF ReviewsAreOfThePast
<1>3. decision \in {"approved", "rejected"} /\ (decision = "approved" <=> review[v].approved)
  BY <1>0, <1>m, ReviewFields DEF Review
<1>4. nth \in Nat /\ nth >= 1
  BY <1>0, FS_CardinalityType
<1>5. review[v].approved => task \in DispatchTask
  BY <1>1, <1>2, <1>4, DispatchAssumption DEF DispatchTask
<1>6. task.rec = r /\ task.payload = review[v].payload  OBVIOUS
<1> HIDE DEF decision, task, nth
<1>7. IsFiniteSet(dispatchTasks')  BY <1>0, <1>1, FS_AddElement
<1>8. DispatchTypeOK'
  <2>1. dispatchTasks' \subseteq DispatchTask  BY <1>0, <1>1, <1>5 DEF DispatchTypeOK
  <2>2. /\ approval' \in [Recommendations -> {"none", "pending", "approved", "rejected"}]
        /\ recStatus' \in [Recommendations -> Statuses]
        /\ patched' \in [Recommendations -> BOOLEAN]
        /\ review' \in [Reviewers -> Review \cup {NoReview}]
    BY <1>0, <1>1, <1>3 DEF DispatchTypeOK, Statuses
  <2>3. QED  BY <1>0, <1>1, <2>1, <2>2 DEF DispatchTypeOK
<1>9. ReviewsAreOfThePast'
  BY <1>0, <1>1 DEF ReviewsAreOfThePast, DispatchTypeOK
<1>10. DecisionsAgree'
  <2> SUFFICES ASSUME NEW s \in Recommendations,
                      approval'[s] \in {"approved", "rejected"}, ~patched'[s]
               PROVE  /\ recStatus'[s] = approval'[s]
                      /\ approval'[s] = "approved" =>
                            \E t \in dispatchTasks' : t.rec = s /\ t.payload <= payload[s]
    BY <1>1 DEF DecisionsAgree
  <2>1. CASE s = r
    <3>1. approval'[s] = decision /\ recStatus'[s] = decision
      BY <1>0, <1>1, <2>1 DEF DispatchTypeOK
    <3>2. decision = "approved" => task \in dispatchTasks'  BY <1>1, <1>3
    <3>3. QED  BY <1>2, <1>6, <2>1, <3>1, <3>2
  <2>2. CASE s # r
    <3>1. approval'[s] = approval[s] /\ recStatus'[s] = recStatus[s] /\ patched'[s] = patched[s]
      BY <1>0, <1>1, <2>2 DEF DispatchTypeOK
    <3>2. dispatchTasks \subseteq dispatchTasks'  BY <1>1
    <3>3. QED  BY <1>0, <3>1, <3>2 DEF DecisionsAgree
  <2>3. QED  BY <2>1, <2>2
<1>11. QED  BY <1>7, <1>8, <1>9, <1>10 DEF DispatchInv

LEMMA DispatchStepsKeepInv == DispatchInv /\ [DispatchNext]_dispatchVars => DispatchInv'
<1> SUFFICES ASSUME DispatchInv, [DispatchNext]_dispatchVars PROVE DispatchInv'  OBVIOUS
<1>0. DispatchTypeOK /\ IsFiniteSet(dispatchTasks) /\ ReviewsAreOfThePast /\ DecisionsAgree
  BY DEF DispatchInv
<1>1. ASSUME NEW r \in Recommendations, RequestDispatchApproval(r)
      PROVE  DispatchInv'
  <2>1. /\ approval' = [approval EXCEPT ![r] = IF approval[r] = "none" THEN "pending" ELSE approval[r]]
        /\ UNCHANGED <<payload, recStatus, patched, dispatchTasks, review>>
    BY <1>1 DEF RequestDispatchApproval
  <2>2. approval' \in [Recommendations -> {"none", "pending", "approved", "rejected"}]
    BY <1>0, <2>1 DEF DispatchTypeOK
  <2>3. \A s \in Recommendations :
            approval'[s] \in {"approved", "rejected"} => approval[s] = approval'[s]
    BY <1>0, <2>1 DEF DispatchTypeOK
  <2>4. DispatchTypeOK' /\ ReviewsAreOfThePast'
    BY <1>0, <2>1, <2>2 DEF DispatchTypeOK, ReviewsAreOfThePast
  <2>5. DecisionsAgree'  BY <1>0, <2>1, <2>3 DEF DecisionsAgree
  <2>6. QED  BY <1>0, <2>1, <2>4, <2>5 DEF DispatchInv
<1>2. ASSUME NEW r \in Recommendations, NEW s \in Statuses, UpdateDispatchStatus(r, s)
      PROVE  DispatchInv'
  <2>1. /\ recStatus' = [recStatus EXCEPT ![r] = s] /\ patched' = [patched EXCEPT ![r] = TRUE]
        /\ UNCHANGED <<payload, approval, dispatchTasks, review>>
    BY <1>2 DEF UpdateDispatchStatus
  <2>2. DispatchTypeOK' /\ ReviewsAreOfThePast'
    BY <1>0, <2>1 DEF DispatchTypeOK, ReviewsAreOfThePast
  <2>3. \A q \in Recommendations : ~patched'[q] => ~patched[q] /\ recStatus'[q] = recStatus[q]
    BY <1>0, <2>1 DEF DispatchTypeOK
  <2>4. DecisionsAgree'  BY <1>0, <2>1, <2>3 DEF DecisionsAgree
  <2>5. QED  BY <1>0, <2>1, <2>2, <2>4 DEF DispatchInv
<1>3. ASSUME NEW v \in Reviewers, NEW r \in Recommendations, NEW approved \in BOOLEAN,
             ReadForReview(v, r, approved)
      PROVE  DispatchInv'
  <2> DEFINE t == [rec |-> r, approved |-> approved, payload |-> payload[r]]
  <2>1. /\ payload[r] > 0 /\ review' = [review EXCEPT ![v] = t]
        /\ UNCHANGED <<payload, recStatus, approval, patched, dispatchTasks>>
    BY <1>3 DEF ReadForReview, Generated
  <2>2. payload[r] \in 1 .. MaxPayloads  BY <1>0, <2>1, DispatchAssumption DEF DispatchTypeOK
  <2>3. t \in Review /\ t.payload <= payload[t.rec]  BY <2>2 DEF Review
  <2> HIDE DEF t
  <2>4. DispatchTypeOK'  BY <1>0, <2>1, <2>3 DEF DispatchTypeOK
  <2>5. ReviewsAreOfThePast'
    BY <1>0, <2>1, <2>3 DEF ReviewsAreOfThePast, DispatchTypeOK
  <2>6. DecisionsAgree'  BY <1>0, <2>1 DEF DecisionsAgree
  <2>7. QED  BY <1>0, <2>1, <2>4, <2>5, <2>6 DEF DispatchInv
<1>4. ASSUME NEW v \in Reviewers, ReviewFails(v)
      PROVE  DispatchInv'
  BY <1>0, <1>4 DEF ReviewFails, DispatchInv, DispatchTypeOK, ReviewsAreOfThePast, DecisionsAgree
<1>5. CASE UNCHANGED dispatchVars
  BY <1>0, <1>5 DEF dispatchVars, DispatchInv, DispatchTypeOK, ReviewsAreOfThePast, DecisionsAgree
<1>6. QED
  BY <1>1, <1>2, <1>3, <1>4, <1>5, GenerationKeepsInv, CommitReviewKeepsInv DEF DispatchNext

(* The approvals stay in their types (repository.py:1199-1309).             *)
THEOREM DispatchTypeCorrect == DispatchSpec => []DispatchTypeOK
<1>1. DispatchInv => DispatchTypeOK  BY DEF DispatchInv
<1>2. QED  BY <1>1, DispatchInitInv, DispatchStepsKeepInv, PTL DEF DispatchSpec

(* Whatever generations, requests and reviews interleave, a recommendation  *)
(* that nobody has patched shows its decision, and an approved one has its  *)
(* task (repository.py:469-522, 1199-1309).                                 *)
THEOREM DecisionsAgreeHolds == DispatchSpec => []DecisionsAgree
<1>1. DispatchInv => DecisionsAgree  BY DEF DispatchInv
<1>2. QED  BY <1>1, DispatchInitInv, DispatchStepsKeepInv, PTL DEF DispatchSpec

-----------------------------------------------------------------------------
(* TopologyVersions. Windows of retired versions end before the others      *)
(* begin; row locks keep what an activation has seen until it commits       *)
(* (digital_twin_repository.py:108-154, energy_platform_repository.py:158-181)*)
RowsTell ==
    \A v \in Numbers :
        /\ Is(v, "absent") \/ Is(v, "validated") =>
                topology[v].from = Open /\ topology[v].to = Open
        /\ Is(v, "active") => topology[v].from \in Times /\ topology[v].to = Open
        /\ Is(v, "retired") =>
                /\ topology[v].from \in Times /\ topology[v].to \in Times
                /\ topology[v].from < topology[v].to

WindowsApart ==
    /\ \A v, w \in Numbers : Is(v, "active") /\ Is(w, "active") => v = w
    /\ \A v, w \in Numbers :
            Is(v, "retired") /\ Is(w, "active") => topology[v].to <= topology[w].from
    /\ \A v, w \in Numbers : Is(v, "retired") /\ Is(w, "retired") /\ v # w =>
            topology[v].to <= topology[w].from \/ topology[w].to <= topology[v].from
    /\ \A v \in Numbers : Is(v, "retired") => \E w \in Numbers : Is(w, "active")

LocksOf(t) ==
    CASE t.pc \in {"locked", "scanned"} -> {t.version}
      [] t.pc = "retired" -> {t.version} \cup t.active
      [] OTHER -> {}
Grounded(t) ==
    /\ t.pc # "idle" => t.version \in Numbers
    /\ t.pc \in {"locked", "scanned", "retired"} => Is(t.version, "validated") \/ Is(t.version, "active")
    /\ t.pc \in {"scanned", "retired"} => t.version \notin t.active
    /\ t.pc = "retired" => \A w \in t.active : Is(w, "active") /\ topology[w].from < t.start

ActivationsApart ==
    \A a, b \in Activators : a # b => LocksOf(activation[a]) \cap LocksOf(activation[b]) = {}
ActivationsGrounded == \A a \in Activators : Grounded(activation[a])

VersionsInv ==
    /\ TopologyTypeOK
    /\ RowsTell
    /\ WindowsApart
    /\ ActivationsApart
    /\ ActivationsGrounded

LEMMA StatusIsOne ==
    ASSUME TopologyTypeOK, NEW v \in Numbers
    PROVE  /\ topology[v] \in Row
           /\ Is(v, "absent") \/ Is(v, "validated") \/ Is(v, "active") \/ Is(v, "retired")
BY DEF TopologyTypeOK, Row, Is

LEMMA TimesAreIntegers == Times \subseteq Int /\ Open \notin Times
BY TopologyAssumption DEF Times

(* The windows of the invariant hold an instant once (get_topology(at),     *)
(* digital_twin_repository.py:157-247, energy_platform_repository.py:184-233)*)
LEMMA VersionsInvImplies == VersionsInv => OneVersionAtATime
<1> SUFFICES ASSUME VersionsInv PROVE OneVersionAtATime  OBVIOUS
<1>0. TopologyTypeOK /\ RowsTell /\ WindowsApart  BY DEF VersionsInv
<1>1. ASSUME NEW t \in Times, NEW v \in At(t), NEW w \in At(t), v # w
      PROVE  FALSE
  <2>1. /\ v \in Numbers /\ topology[v].from # Open /\ topology[v].from <= t
        /\ topology[v].to = Open \/ topology[v].to > t
        /\ w \in Numbers /\ topology[w].from # Open /\ topology[w].from <= t
        /\ topology[w].to = Open \/ topology[w].to > t
    BY DEF At
  <2>2. (Is(v, "active") \/ Is(v, "retired")) /\ (Is(w, "active") \/ Is(w, "retired"))
    BY <1>0, <2>1, StatusIsOne DEF RowsTell
  <2>3. t \in Int /\ topology[v].from \in Int /\ topology[w].from \in Int
    BY <1>0, <2>1, <2>2, TimesAreIntegers DEF RowsTell
  <2>4. CASE Is(v, "active") /\ Is(w, "active")
    BY <1>0, <1>1, <2>1, <2>4 DEF WindowsApart
  <2>5. CASE Is(v, "retired") /\ Is(w, "active")
    <3>1. topology[v].to \in Int /\ topology[v].to # Open /\ topology[v].to <= topology[w].from
      BY <1>0, <2>1, <2>5, TimesAreIntegers DEF RowsTell, WindowsApart
    <3>2. QED  BY <2>1, <2>3, <3>1
  <2>6. CASE Is(v, "active") /\ Is(w, "retired")
    <3>1. topology[w].to \in Int /\ topology[w].to # Open /\ topology[w].to <= topology[v].from
      BY <1>0, <2>1, <2>6, TimesAreIntegers DEF RowsTell, WindowsApart
    <3>2. QED  BY <2>1, <2>3, <3>1
  <2>7. CASE Is(v, "retired") /\ Is(w, "retired")
    <3>1. /\ topology[v].to \in Int /\ topology[v].to # Open
          /\ topology[w].to \in Int /\ topology[w].to # Open
          /\ topology[v].to <= topology[w].from \/ topology[w].to <= topology[v].from
      BY <1>0, <1>1, <2>1, <2>7, TimesAreIntegers DEF RowsTell, WindowsApart
    <3>2. QED  BY <2>1, <2>3, <3>1
  <2>8. QED  BY <2>2, <2>4, <2>5, <2>6, <2>7
<1>2. \A v, w \in Active : v = w  BY <1>0 DEF Active, WindowsApart
<1>3. ASSUME NEW v \in Numbers
      PROVE  Is(v, "active") <=> topology[v].from # Open /\ topology[v].to = Open
  BY <1>0, StatusIsOne, TimesAreIntegers DEF RowsTell
<1>4. QED  BY <1>1, <1>2, <1>3 DEF OneVersionAtATime

LEMMA VersionsInitInv == TopologyInit => VersionsInv
<1> SUFFICES ASSUME TopologyInit PROVE VersionsInv  OBVIOUS
<1>1. TopologyTypeOK
  <2>1. 0 \in Times /\ 0 \in 0 .. MaxVersion  BY TopologyAssumption DEF Times
  <2>2. NoActivation \in Activation  BY <2>1 DEF NoActivation, Activation
  <2>3. QED  BY <2>1, <2>2 DEF TopologyInit, TopologyTypeOK, Row
<1>2. RowsTell /\ WindowsApart  BY DEF TopologyInit, RowsTell, WindowsApart, Is
<1>3. \A a \in Activators : activation[a] = NoActivation  BY DEF TopologyInit
<1>4. ActivationsApart /\ ActivationsGrounded
  BY <1>3 DEF ActivationsApart, ActivationsGrounded, LocksOf, Grounded, NoActivation
<1>5. QED  BY <1>1, <1>2, <1>4 DEF VersionsInv

(* An activation that moves on without a commit: what it now knows and locks*)
(* is all there is to show (digital_twin_repository.py:108-141).            *)
LEMMA ActivationMoves ==
    ASSUME VersionsInv, NEW a \in Activators, NEW t \in Activation,
           activation' = [activation EXCEPT ![a] = t], UNCHANGED <<table, clock, topology>>,
           Grounded(t),
           \A b \in Activators \ {a} : LocksOf(t) \cap LocksOf(activation[b]) = {}
    PROVE  VersionsInv'
<1>0. TopologyTypeOK /\ RowsTell /\ WindowsApart /\ ActivationsApart /\ ActivationsGrounded
  BY DEF VersionsInv
<1>1. TopologyTypeOK'  BY <1>0 DEF TopologyTypeOK
<1>2. RowsTell' /\ WindowsApart'  BY <1>0 DEF RowsTell, WindowsApart, Is
<1>3. \A b \in Activators : activation'[b] = IF b = a THEN t ELSE activation[b]
  BY <1>0 DEF TopologyTypeOK
<1>4. ActivationsGrounded'
  BY <1>0, <1>3 DEF ActivationsGrounded, Grounded, Is
<1>5. ActivationsApart'
  <2> SUFFICES ASSUME NEW b \in Activators, NEW c \in Activators, b # c
               PROVE  LocksOf(activation'[b]) \cap LocksOf(activation'[c]) = {}
    BY DEF ActivationsApart, LocksOf
  <2>1. CASE b = a  BY <1>3, <2>1
  <2>2. CASE c = a
    <3>1. LocksOf(t) \cap LocksOf(activation[b]) = {}  BY <2>2
    <3>2. QED  BY <1>3, <2>2, <3>1
  <2>3. CASE b # a /\ c # a  BY <1>0, <1>3, <2>3 DEF ActivationsApart
  <2>4. QED  BY <2>1, <2>2, <2>3
<1>6. QED  BY <1>1, <1>2, <1>4, <1>5 DEF VersionsInv

(* Free is about the locks of what the others hold.                         *)
LEMMA LocksAreOfActivations == \A a \in Activators : Locks(a) = LocksOf(activation[a])
BY DEF Locks, LocksOf

(* A new version is validated and none that an activation has locked        *)
(* (digital_twin_repository.py:14-105, energy_platform_repository.py:32-155)*)
LEMMA CreationKeepsInv ==
    ASSUME VersionsInv, NEW v \in Numbers, Create(v)
    PROVE  VersionsInv'
<1>0. TopologyTypeOK /\ RowsTell /\ WindowsApart /\ ActivationsApart /\ ActivationsGrounded
  BY DEF VersionsInv
<1>1. /\ topology[v].status = "absent" /\ topology[v] \in Row
      /\ topology' = [topology EXCEPT ![v].status = "validated"]
      /\ UNCHANGED <<table, clock, activation>>
  BY <1>0 DEF Create, Is, TopologyTypeOK
<1>2. /\ topology'[v].status = "validated"
      /\ topology'[v].from = topology[v].from /\ topology'[v].to = topology[v].to
      /\ topology'[v] \in Row
      /\ \A w \in Numbers : w # v => topology'[w] = topology[w]
  BY <1>0, <1>1 DEF TopologyTypeOK, Row
<1>3. TopologyTypeOK'
  <2>1. topology' \in [Numbers -> Row]  BY <1>0, <1>1, <1>2 DEF TopologyTypeOK
  <2>2. QED  BY <1>0, <1>1, <2>1 DEF TopologyTypeOK
<1>4. RowsTell'
  BY <1>0, <1>1, <1>2 DEF RowsTell, Is
<1>5. WindowsApart'
  BY <1>0, <1>1, <1>2 DEF WindowsApart, Is
<1>6. ActivationsApart'  BY <1>0, <1>1 DEF ActivationsApart, LocksOf
<1>7. ActivationsGrounded'
  <2> SUFFICES ASSUME NEW a \in Activators PROVE Grounded(activation[a])'
    BY DEF ActivationsGrounded
  <2>1. Grounded(activation[a]) /\ activation'[a] = activation[a]
    BY <1>0, <1>1 DEF ActivationsGrounded
  <2>2. \A w \in Numbers : Is(w, "validated") \/ Is(w, "active") => topology'[w] = topology[w]
    BY <1>1, <1>2 DEF Is
  <2>3. activation[a].active \subseteq Numbers  BY <1>0 DEF TopologyTypeOK, Activation
  <2>4. QED  BY <2>1, <2>2, <2>3 DEF Grounded, Is
<1>8. QED  BY <1>3, <1>4, <1>5, <1>6, <1>7 DEF VersionsInv

(* An activation that has just begun, or gives up, knows and holds nothing. *)
LEMMA BeginKeepsInv ==
    ASSUME VersionsInv, NEW a \in Activators, NEW v \in Numbers, Begin(a, v)
    PROVE  VersionsInv'
<1> DEFINE t == [pc |-> "begun", version |-> v, start |-> clock, active |-> {}]
<1>1. v \in 0 .. MaxVersion /\ clock \in Times
  BY TopologyAssumption DEF Numbers, VersionsInv, TopologyTypeOK
<1>2. t \in Activation /\ Grounded(t) /\ LocksOf(t) = {}
  BY <1>1 DEF Activation, Grounded, LocksOf
<1>3. activation' = [activation EXCEPT ![a] = t] /\ UNCHANGED <<table, clock, topology>>
  BY DEF Begin
<1> HIDE DEF t
<1>4. QED  BY <1>2, <1>3, ActivationMoves

LEMMA FailureKeepsInv ==
    ASSUME VersionsInv, NEW a \in Activators,
           activation' = [activation EXCEPT ![a] = NoActivation],
           UNCHANGED <<table, clock, topology>>
    PROVE  VersionsInv'
<1>1. 0 \in 0 .. MaxVersion /\ 0 \in Times  BY TopologyAssumption DEF Times
<1>2. NoActivation \in Activation /\ Grounded(NoActivation) /\ LocksOf(NoActivation) = {}
  BY <1>1 DEF Activation, NoActivation, Grounded, LocksOf
<1>3. QED  BY <1>2, ActivationMoves

(* What an activation knows while it waits, by its stage.                   *)
LEMMA ActivationFields ==
    ASSUME TopologyTypeOK, NEW a \in Activators
    PROVE  /\ activation[a] \in Activation
           /\ activation[a].start \in Times /\ activation[a].start \in Int
           /\ activation[a].active \subseteq Numbers
BY TimesAreIntegers DEF TopologyTypeOK, Activation

(* The lock is taken when no other transaction holds it, and only a version *)
(* that may be activated keeps it (digital_twin_repository.py:117-128,      *)
(* energy_platform_repository.py:160-168).                                  *)
LEMMA LockKeepsInv ==
    ASSUME VersionsInv, NEW a \in Activators, LockVersion(a)
    PROVE  VersionsInv'
<1>0. TopologyTypeOK /\ ActivationsGrounded  BY DEF VersionsInv
<1> DEFINE o == activation[a]
           t == [o EXCEPT !.pc = "locked"]
<1>1. /\ o.pc = "begun" /\ Free(a, {o.version})
      /\ activation' = [activation EXCEPT ![a] =
            IF topology[o.version].status \in Activatable THEN t ELSE NoActivation]
      /\ UNCHANGED <<table, clock, topology>>
  BY DEF LockVersion
<1>2. o \in Activation /\ o.version \in Numbers
  BY <1>0, <1>1, ActivationFields DEF ActivationsGrounded, Grounded
<1>3. t \in Activation /\ t.pc = "locked" /\ t.version = o.version
  BY <1>2 DEF Activation
<1>4. \A b \in Activators \ {a} : LocksOf(activation[b]) \cap {o.version} = {}
  BY <1>1, LocksAreOfActivations DEF Free
<1>5. LocksOf(t) = {o.version}
  BY <1>3 DEF LocksOf
<1> HIDE DEF t, o
<1>6. CASE topology[o.version].status \in Activatable
  <2>1. Is(t.version, "validated") \/ Is(t.version, "active")
    BY <1>3, <1>6 DEF Activatable, Is
  <2>2. Grounded(t)  BY <1>2, <1>3, <2>1 DEF Grounded
  <2>3. activation' = [activation EXCEPT ![a] = t]  BY <1>1, <1>6
  <2>4. QED  BY <1>1, <1>3, <1>4, <1>5, <2>2, <2>3, ActivationMoves
<1>7. CASE topology[o.version].status \notin Activatable
  BY <1>1, <1>7, FailureKeepsInv
<1>8. QED  BY <1>6, <1>7

(* The scan holds no more than the version (digital_twin_repository.py:123, *)
(* energy_platform_repository.py:169).                                      *)
LEMMA FindKeepsInv ==
    ASSUME VersionsInv, NEW a \in Activators, FindActive(a)
    PROVE  VersionsInv'
<1>0. TopologyTypeOK /\ ActivationsGrounded /\ ActivationsApart  BY DEF VersionsInv
<1> DEFINE o == activation[a]
           t == [o EXCEPT !.pc = "scanned", !.active = Active \ {o.version}]
<1>1. /\ o.pc = "locked"
      /\ activation' = [activation EXCEPT ![a] = t]
      /\ UNCHANGED <<table, clock, topology>>
  BY DEF FindActive
<1>2. o \in Activation /\ Grounded(o)
  BY <1>0, ActivationFields DEF ActivationsGrounded
<1>3. /\ t \in Activation /\ t.pc = "scanned" /\ t.version = o.version
      /\ t.active = Active \ {o.version}
  BY <1>2 DEF Activation, Active
<1>4. LocksOf(t) = LocksOf(o)  BY <1>1, <1>3 DEF LocksOf
<1>5. \A b \in Activators \ {a} : LocksOf(o) \cap LocksOf(activation[b]) = {}
  BY <1>0 DEF ActivationsApart
<1> HIDE DEF t, o
<1>6. Grounded(t)  BY <1>1, <1>2, <1>3 DEF Grounded
<1>7. QED  BY <1>1, <1>3, <1>4, <1>5, <1>6, ActivationMoves

(* The rows to retire are locked as well, and their windows are not empty   *)
(* (migrations 015 and 018, CHECK (valid_to > valid_from)).                 *)
LEMMA RetireKeepsInv ==
    ASSUME VersionsInv, NEW a \in Activators, RetireOthers(a)
    PROVE  VersionsInv'
<1>0. TopologyTypeOK /\ ActivationsGrounded /\ ActivationsApart  BY DEF VersionsInv
<1> DEFINE o == activation[a]
           retiring == o.active \cap Active
           t == [o EXCEPT !.pc = "retired", !.active = retiring]
<1>1. /\ o.pc = "scanned" /\ Free(a, o.active)
      /\ activation' = [activation EXCEPT ![a] =
            IF \A w \in retiring : topology[w].from < o.start THEN t ELSE NoActivation]
      /\ UNCHANGED <<table, clock, topology>>
  BY DEF RetireOthers
<1>2. o \in Activation /\ Grounded(o)
  BY <1>0, ActivationFields DEF ActivationsGrounded
<1>3. /\ t \in Activation /\ t.pc = "retired" /\ t.version = o.version
      /\ t.active = retiring /\ t.start = o.start
  BY <1>2 DEF Activation
<1>4. LocksOf(t) = {o.version} \cup retiring /\ LocksOf(o) = {o.version}
  BY <1>1, <1>3 DEF LocksOf
<1>5. \A b \in Activators \ {a} : LocksOf(activation[b]) \cap (o.active \cup {o.version}) = {}
  BY <1>0, <1>1, <1>4, LocksAreOfActivations DEF ActivationsApart, Free
<1>6. \A b \in Activators \ {a} : LocksOf(t) \cap LocksOf(activation[b]) = {}
  BY <1>4, <1>5
<1>7. \A w \in retiring : Is(w, "active")  BY DEF Active
<1>8. retiring \subseteq o.active  OBVIOUS
<1> HIDE DEF t, o, retiring
<1>9. CASE \A w \in retiring : topology[w].from < o.start
  <2>1. Grounded(t)  BY <1>1, <1>2, <1>3, <1>7, <1>8, <1>9 DEF Grounded
  <2>2. QED  BY <1>1, <1>3, <1>6, <1>9, <2>1, ActivationMoves
<1>10. CASE ~(\A w \in retiring : topology[w].from < o.start)
  BY <1>1, <1>10, FailureKeepsInv
<1>11. QED  BY <1>9, <1>10

(* What the unique index lets through: the version was the active one, or it*)
(* takes over from the one that the transaction retires, if there is one    *)
(* (digital_twin_repository.py:129-154, energy_platform_repository.py:      *)
(* 169-181).                                                                *)
LEMMA CommitsOfActivate ==
    ASSUME VersionsInv, NEW a \in Activators, activation[a].pc = "retired",
           Active \subseteq activation[a].active \cup {activation[a].version},
           ~Is(activation[a].version, "active")
    PROVE  /\ Is(activation[a].version, "validated")
           /\ activation[a].active = Active
           /\ \A w \in Active : topology[w].from < activation[a].start
           /\ \A w \in Numbers : Is(w, "retired") => topology[w].to <= activation[a].start
<1>0. TopologyTypeOK /\ RowsTell /\ WindowsApart /\ Grounded(activation[a])
  BY DEF VersionsInv, ActivationsGrounded
<1> DEFINE t == activation[a]
<1>1. /\ t.version \in Numbers /\ Is(t.version, "validated")
      /\ \A w \in t.active : Is(w, "active") /\ topology[w].from < t.start
  BY <1>0 DEF Grounded
<1>2. t.active \subseteq Numbers /\ t.start \in Int  BY <1>0, ActivationFields
<1>3. t.active = Active
  <2>1. Active \subseteq t.active  BY <1>1 DEF Active, Is
  <2>2. t.active \subseteq Active  BY <1>1, <1>2 DEF Active
  <2>3. QED  BY <2>1, <2>2
<1>4. ASSUME NEW w \in Numbers, Is(w, "retired")
      PROVE  topology[w].to <= t.start
  <2>1. PICK u \in Numbers : Is(u, "active")  BY <1>0, <1>4 DEF WindowsApart
  <2>2. topology[w].to <= topology[u].from  BY <1>0, <1>4, <2>1 DEF WindowsApart
  <2>3. topology[u].from < t.start  BY <1>1, <1>3, <2>1 DEF Active
  <2>4. topology[w].to \in Int /\ topology[u].from \in Int
    BY <1>0, <1>4, <2>1, TimesAreIntegers DEF RowsTell
  <2>5. QED  BY <1>2, <2>2, <2>3, <2>4
<1>5. QED  BY <1>1, <1>3, <1>4

(* An active version that is activated again stays as it is.                *)
LEMMA ActivatedAgain ==
    ASSUME VersionsInv, NEW a \in Activators, activation[a].pc = "retired",
           Active \subseteq activation[a].active \cup {activation[a].version},
           Is(activation[a].version, "active"),
           NEW at \in Times
    PROVE  /\ activation[a].active = {}
           /\ Activated(topology[activation[a].version], at) = topology[activation[a].version]
<1>0. TopologyTypeOK /\ RowsTell /\ WindowsApart /\ Grounded(activation[a])
  BY DEF VersionsInv, ActivationsGrounded
<1> DEFINE t == activation[a]
<1>1. /\ t.version \in Numbers /\ t.version \notin t.active /\ t.active \subseteq Numbers
      /\ \A w \in t.active : Is(w, "active")
  BY <1>0, ActivationFields DEF Grounded
<1>2. t.active = {}  BY <1>0, <1>1 DEF WindowsApart
<1>3. PICK row \in Row : row = topology[t.version]  BY <1>0, <1>1 DEF TopologyTypeOK
<1>4. row.status = "active" /\ row.from \in Times /\ row.to = Open
  BY <1>0, <1>1, <1>3 DEF RowsTell, Is
<1>5. row.from # Open  BY <1>4, TimesAreIntegers
<1>6. Activated(row, at) = [status |-> "active", from |-> row.from, to |-> Open]
  BY <1>5 DEF Activated
<1>7. row = [status |-> row.status, from |-> row.from, to |-> row.to]  BY <1>3 DEF Row
<1>8. QED  BY <1>2, <1>3, <1>4, <1>6, <1>7

LEMMA RetiredRow ==
    ASSUME NEW row \in Row, NEW at \in Times
    PROVE  /\ Retired(row, at) \in Row
           /\ Retired(row, at).status = "retired" /\ Retired(row, at).to = at
           /\ Retired(row, at).from = row.from
BY DEF Retired, Row

(* The version takes over: the window of the one before it ends where its   *)
(* own begins, and the rows of the other activations are not touched        *)
(* (digital_twin_repository.py:123-154, energy_platform_repository.py:      *)
(* 169-181).                                                                *)
LEMMA TakeOverKeepsInv ==
    ASSUME VersionsInv, NEW a \in Activators, Activate(a),
           Active \subseteq activation[a].active \cup {activation[a].version},
           ~Is(activation[a].version, "active")
    PROVE  VersionsInv'
<1>0. TopologyTypeOK /\ RowsTell /\ WindowsApart /\ ActivationsApart /\ ActivationsGrounded
  BY DEF VersionsInv
<1>t. PICK t \in Activation : t = activation[a]  BY <1>0, ActivationFields
<1>1. /\ t.pc = "retired"
      /\ topology' = [v \in Numbers |->
            CASE v = t.version -> Activated(topology[v], t.start)
              [] v \in t.active -> Retired(topology[v], t.start)
              [] OTHER -> topology[v]]
      /\ activation' = [activation EXCEPT ![a] = NoActivation]
      /\ UNCHANGED <<table, clock>>
  BY <1>t DEF Activate
<1>2. /\ Is(t.version, "validated") /\ t.active = Active
      /\ \A w \in Active : topology[w].from < t.start
      /\ \A w \in Numbers : Is(w, "retired") => topology[w].to <= t.start
  BY <1>t, <1>1, CommitsOfActivate
<1>3. /\ t.version \in Numbers /\ t.version \notin Active
      /\ t.start \in Times /\ t.start \in Int
  BY <1>0, <1>t, <1>1, <1>2, ActivationFields DEF ActivationsGrounded, Grounded, Active, Is
<1>4. /\ topology'[t.version].status = "active"
      /\ topology'[t.version].from = t.start /\ topology'[t.version].to = Open
      /\ topology'[t.version] \in Row
  <2>1. topology[t.version].from = Open  BY <1>0, <1>2, <1>3 DEF RowsTell
  <2>2. PICK row \in Row : row = topology[t.version]  BY <1>0, <1>3 DEF TopologyTypeOK
  <2>3. Activated(row, t.start) = [status |-> "active", from |-> t.start, to |-> Open]
    BY <2>1, <2>2 DEF Activated
  <2>4. ASSUME NEW v \in Numbers, v = t.version
        PROVE  topology'[v] = Activated(topology[v], t.start)
    BY <1>1, <1>2, <1>3, <2>4
  <2>5. QED  BY <1>3, <2>2, <2>3, <2>4 DEF Row
<1>5. ASSUME NEW w \in Active
      PROVE  /\ topology'[w].status = "retired" /\ topology'[w].to = t.start
             /\ topology'[w].from = topology[w].from
             /\ topology'[w] \in Row
  <2>1. w \in Numbers /\ w # t.version /\ w \in t.active  BY <1>2, <1>3 DEF Active
  <2>2. PICK row \in Row : row = topology[w]  BY <1>0, <2>1 DEF TopologyTypeOK
  <2>3. topology'[w] = Retired(row, t.start)  BY <1>1, <2>1, <2>2
  <2>4. QED  BY <1>3, <2>2, <2>3, RetiredRow
<1>6. ASSUME NEW w \in Numbers, w # t.version, w \notin Active
      PROVE  topology'[w] = topology[w]
  BY <1>1, <1>2, <1>6
<1>7. TopologyTypeOK'
  <2>1. \A w \in Numbers : topology'[w] \in Row
    BY <1>0, <1>4, <1>5, <1>6 DEF TopologyTypeOK
  <2>2. topology' \in [Numbers -> Row]  BY <1>1, <2>1
  <2>3. 0 \in 0 .. MaxVersion /\ 0 \in Times  BY TopologyAssumption DEF Times
  <2>4. NoActivation \in Activation  BY <2>3 DEF NoActivation, Activation
  <2>5. activation' \in [Activators -> Activation]  BY <1>0, <1>1, <2>4 DEF TopologyTypeOK
  <2>6. QED  BY <1>0, <1>1, <2>2, <2>5 DEF TopologyTypeOK
(* The rows afterwards: the version is active, the active one retired.      *)
<1>8. \A w \in Numbers :
        /\ Is(w, "active")' <=> w = t.version
        /\ Is(w, "retired")' <=> w \in Active \/ Is(w, "retired")
        /\ Is(w, "retired") => topology'[w] = topology[w]
  <2> SUFFICES ASSUME NEW w \in Numbers
               PROVE  /\ topology'[w].status = "active" <=> w = t.version
                      /\ topology'[w].status = "retired" <=> w \in Active \/ Is(w, "retired")
                      /\ Is(w, "retired") => topology'[w] = topology[w]
    BY DEF Is
  <2>1. CASE w = t.version  BY <1>2, <1>3, <1>4, <2>1 DEF Is
  <2>2. CASE w \in Active  BY <1>3, <1>5, <2>2 DEF Active, Is
  <2>3. CASE w # t.version /\ w \notin Active  BY <1>6, <2>3 DEF Active, Is
  <2>4. QED  BY <2>1, <2>2, <2>3
<1>9. RowsTell'
  <2> SUFFICES ASSUME NEW w \in Numbers
               PROVE  /\ Is(w, "absent")' \/ Is(w, "validated")' =>
                            topology'[w].from = Open /\ topology'[w].to = Open
                      /\ Is(w, "active")' => topology'[w].from \in Times /\ topology'[w].to = Open
                      /\ Is(w, "retired")' =>
                            /\ topology'[w].from \in Times /\ topology'[w].to \in Times
                            /\ topology'[w].from < topology'[w].to
    BY DEF RowsTell, Is
  <2>1. CASE w = t.version  BY <1>3, <1>4, <2>1 DEF Is
  <2>2. CASE w \in Active
    <3>1. topology[w].from \in Times /\ topology[w].from < t.start
      BY <1>0, <1>2, <2>2 DEF RowsTell, Active
    <3>2. QED  BY <1>3, <1>5, <2>2, <3>1 DEF Is
  <2>3. CASE w # t.version /\ w \notin Active
    BY <1>0, <1>6, <2>3 DEF RowsTell, Active, Is
  <2>4. QED  BY <2>1, <2>2, <2>3
<1>10. ASSUME NEW w \in Numbers, Is(w, "retired")'
       PROVE  topology'[w].to <= t.start
  <2>1. CASE w \in Active  BY <1>3, <1>5, <2>1
  <2>2. CASE Is(w, "retired")  BY <1>2, <1>8, <2>2
  <2>3. QED  BY <1>8, <1>10, <2>1, <2>2
<1>11. ASSUME NEW u \in Numbers, NEW w \in Numbers, Is(u, "retired")', Is(w, "retired")', u # w
       PROVE  topology'[u].to <= topology'[w].from \/ topology'[w].to <= topology'[u].from
  <2>1. ~(u \in Active /\ w \in Active)  BY <1>0, <1>11 DEF WindowsApart, Active
  <2>2. CASE u \in Active /\ Is(w, "retired")
    BY <1>0, <1>5, <1>8, <2>2 DEF WindowsApart, Active
  <2>3. CASE Is(u, "retired") /\ w \in Active
    BY <1>0, <1>5, <1>8, <2>3 DEF WindowsApart, Active
  <2>4. CASE Is(u, "retired") /\ Is(w, "retired")
    BY <1>0, <1>8, <1>11, <2>4 DEF WindowsApart
  <2>5. QED  BY <1>8, <1>11, <2>1, <2>2, <2>3, <2>4
<1>12. WindowsApart'
  <2>1. \A v, w \in Numbers : Is(v, "active")' /\ Is(w, "active")' => v = w  BY <1>8
  <2>2. \A v, w \in Numbers : Is(v, "retired")' /\ Is(w, "active")' =>
            topology'[v].to <= topology'[w].from
    BY <1>4, <1>8, <1>10
  <2>3. \A v \in Numbers : Is(v, "retired")' => \E w \in Numbers : Is(w, "active")'
    BY <1>3, <1>8
  <2>4. QED  BY <1>11, <2>1, <2>2, <2>3 DEF WindowsApart, Is
<1>13. /\ \A b \in Activators : activation'[b] = IF b = a THEN NoActivation ELSE activation[b]
       /\ LocksOf(NoActivation) = {}
  BY <1>0, <1>1 DEF TopologyTypeOK, LocksOf, NoActivation
<1>14. ActivationsApart'
  <2> SUFFICES ASSUME NEW b \in Activators, NEW c \in Activators, b # c
               PROVE  LocksOf(activation'[b]) \cap LocksOf(activation'[c]) = {}
    BY DEF ActivationsApart, LocksOf
  <2>1. QED  BY <1>0, <1>13 DEF ActivationsApart
<1>15. ActivationsGrounded'
  <2> SUFFICES ASSUME NEW b \in Activators PROVE Grounded(activation[b])'
    BY DEF ActivationsGrounded
  <2>1. CASE b = a
    <3>1. activation'[b].pc = "idle"  BY <1>13, <2>1 DEF NoActivation
    <3>2. QED  BY <3>1 DEF Grounded
  <2>2. CASE b # a
    <3>u. PICK u \in Activation : u = activation[b]  BY <1>0, ActivationFields
    <3>1. activation'[b] = u /\ Grounded(u) /\ u.active \subseteq Numbers
      BY <1>0, <1>13, <2>2, <3>u, ActivationFields DEF ActivationsGrounded
    <3>2. LocksOf(u) \cap ({t.version} \cup t.active) = {}
      <4>1. LocksOf(t) = {t.version} \cup t.active  BY <1>1 DEF LocksOf
      <4>2. QED  BY <1>0, <1>t, <2>2, <3>u, <4>1 DEF ActivationsApart
    <3>3. \A w \in LocksOf(u) \cap Numbers : topology'[w] = topology[w]
      BY <1>2, <1>6, <3>2
    <3>4. /\ u.pc \in {"locked", "scanned", "retired"} => u.version \in LocksOf(u)
          /\ u.pc = "retired" => u.active \subseteq LocksOf(u)
      BY DEF LocksOf
    <3>5. QED  BY <3>1, <3>3, <3>4 DEF Grounded, Is
  <2>3. QED  BY <2>1, <2>2
<1>16. QED  BY <1>7, <1>9, <1>12, <1>14, <1>15 DEF VersionsInv

(* The commit takes over, leaves the active version as it is, or is refused *)
(* by the unique index.                                                     *)
LEMMA ActivateKeepsInv ==
    ASSUME VersionsInv, NEW a \in Activators, Activate(a)
    PROVE  VersionsInv'
<1>0. TopologyTypeOK  BY DEF VersionsInv
<1>1. activation[a].pc = "retired" /\ activation[a].start \in Times
  BY <1>0, ActivationFields DEF Activate
<1>2. CASE /\ Active \subseteq activation[a].active \cup {activation[a].version}
           /\ ~Is(activation[a].version, "active")
  BY <1>2, TakeOverKeepsInv
<1>3. CASE /\ Active \subseteq activation[a].active \cup {activation[a].version}
           /\ Is(activation[a].version, "active")
  <2>t. PICK t \in Activation : t = activation[a]  BY <1>0, ActivationFields
  <2>1. t.active = {} /\ Activated(topology[t.version], t.start) = topology[t.version]
    BY <1>1, <1>3, <2>t, ActivatedAgain
  <2>2. /\ topology' = [v \in Numbers |->
            CASE v = t.version -> Activated(topology[v], t.start)
              [] v \in t.active -> Retired(topology[v], t.start)
              [] OTHER -> topology[v]]
        /\ activation' = [activation EXCEPT ![a] = NoActivation]
        /\ UNCHANGED <<table, clock>>
    BY <1>3, <2>t DEF Activate
  <2>3. \A v \in Numbers : topology'[v] = topology[v]  BY <2>1, <2>2
  <2>4. topology' = topology  BY <1>0, <2>2, <2>3 DEF TopologyTypeOK
  <2>5. QED  BY <2>2, <2>4, FailureKeepsInv
<1>4. CASE ~(Active \subseteq activation[a].active \cup {activation[a].version})
  <2>1. /\ UNCHANGED <<table, clock, topology>>
        /\ activation' = [activation EXCEPT ![a] = NoActivation]
    BY <1>4 DEF Activate
  <2>2. QED  BY <2>1, FailureKeepsInv
<1>5. QED  BY <1>2, <1>3, <1>4

LEMMA VersionsStepsKeepInv == VersionsInv /\ [TopologyNext]_topologyVars => VersionsInv'
<1> SUFFICES ASSUME VersionsInv, [TopologyNext]_topologyVars PROVE VersionsInv'  OBVIOUS
<1>0. TopologyTypeOK /\ RowsTell /\ WindowsApart /\ ActivationsApart /\ ActivationsGrounded
  BY DEF VersionsInv
<1>1. ASSUME NEW a \in Activators, ActivationFails(a)
      PROVE  VersionsInv'
  BY <1>1, FailureKeepsInv DEF ActivationFails
<1>2. ASSUME UNCHANGED <<table, topology, activation>>, clock' \in Times
      PROVE  VersionsInv'
  <2>1. TopologyTypeOK'  BY <1>0, <1>2 DEF TopologyTypeOK
  <2>2. RowsTell' /\ WindowsApart'  BY <1>0, <1>2 DEF RowsTell, WindowsApart, Is
  <2>3. ActivationsApart'  BY <1>0, <1>2 DEF ActivationsApart, LocksOf
  <2>4. ActivationsGrounded'  BY <1>0, <1>2 DEF ActivationsGrounded, Grounded, Is
  <2>5. QED  BY <2>1, <2>2, <2>3, <2>4 DEF VersionsInv
<1>3. CASE TimePasses
  <2>1. clock' \in Times
    BY <1>0, <1>3, TopologyAssumption DEF TimePasses, TopologyTypeOK, Times
  <2>2. QED  BY <1>2, <1>3, <2>1 DEF TimePasses
<1>4. CASE UNCHANGED topologyVars
  BY <1>0, <1>2, <1>4 DEF topologyVars, TopologyTypeOK
<1>5. QED
  BY <1>1, <1>3, <1>4, CreationKeepsInv, BeginKeepsInv, LockKeepsInv, FindKeepsInv,
     RetireKeepsInv, ActivateKeepsInv
     DEF TopologyNext, CreateTopologyVersion, CreateEnergyTopology

(* Versions and activations stay within their types                         *)
(* (digital_twin_repository.py:14-154, energy_platform_repository.py:32-181).*)
THEOREM TopologyTypeCorrect == TopologySpec => []TopologyTypeOK
<1>1. VersionsInv => TopologyTypeOK  BY DEF VersionsInv
<1>2. QED  BY <1>1, VersionsInitInv, VersionsStepsKeepInv, PTL DEF TopologySpec

(* However the activations of a station's or a tenant's topology interleave,*)
(* an instant belongs to one version at most and the active one is alone    *)
(* (digital_twin_repository.py:108-154, energy_platform_repository.py:      *)
(* 158-181).                                                                *)
THEOREM OneVersionAtATimeHolds == TopologySpec => []OneVersionAtATime
<1>1. QED
  BY VersionsInitInv, VersionsStepsKeepInv, VersionsInvImplies, PTL DEF TopologySpec

(* A commit moves no boundary of a window into the past: what begins, begins*)
(* at the start of the activation, and so ends what was open                *)
(* (digital_twin_repository.py:127-147, energy_platform_repository.py:      *)
(* 168-180).                                                                *)
LEMMA ActivateKeepsPast ==
    ASSUME VersionsInv, NEW a \in Activators, Activate(a),
           NEW t \in Times, t < activation[a].start
    PROVE  At(t)' = At(t)
<1> DEFINE r == activation[a]
<1>0. TopologyTypeOK /\ RowsTell /\ ActivationsGrounded  BY DEF VersionsInv
<1>1. r \in Activation /\ r.pc = "retired" /\ Grounded(r) /\ r.start \in Times
  BY <1>0 DEF TopologyTypeOK, ActivationsGrounded, Activate, Activation
<1>2. t \in Int /\ r.start \in Int /\ r.start # Open /\ t < r.start
  BY <1>1, TimesAreIntegers
<1>3. CASE UNCHANGED topology  BY <1>3 DEF At
<1>4. CASE topology' = [v \in Numbers |->
                    CASE v = r.version -> Activated(topology[v], r.start)
                      [] v \in r.active -> Retired(topology[v], r.start)
                      [] OTHER -> topology[v]]
  <2> SUFFICES ASSUME NEW v \in Numbers PROVE v \in At(t)' <=> v \in At(t)
    BY DEF At
  <2>0. topology[v] \in Row /\ (Is(v, "active") => topology[v].from \in Times /\ topology[v].to = Open)
        /\ (Is(v, "validated") => topology[v].from = Open)
    BY <1>0 DEF TopologyTypeOK, RowsTell
  <2>1. CASE v = r.version
    <3>1. Is(v, "validated") \/ Is(v, "active")  BY <1>1, <2>1 DEF Grounded
    <3>2. topology'[v] = Activated(topology[v], r.start)
      <4>1. v \notin r.active  BY <1>1, <2>1 DEF Grounded
      <4>2. QED  BY <1>4, <2>1, <4>1
    <3>3. CASE topology[v].from = Open
      <4>1. topology'[v].from = r.start  BY <3>2, <3>3 DEF Activated
      <4>2. QED  BY <1>2, <3>3, <4>1 DEF At
    <3>4. CASE topology[v].from # Open
      <4>1. topology[v].to = Open  BY <2>0, <3>1, <3>4
      <4>2. topology'[v].from = topology[v].from /\ topology'[v].to = Open
        BY <3>2, <3>4 DEF Activated
      <4>3. QED  BY <4>1, <4>2 DEF At
    <3>5. QED  BY <3>3, <3>4
  <2>2. CASE v # r.version /\ v \in r.active
    <3>1. Is(v, "active")  BY <1>1, <2>2 DEF Grounded
    <3>2. topology'[v] = Retired(topology[v], r.start)  BY <1>4, <2>2
    <3>3. topology'[v].from = topology[v].from /\ topology'[v].to = r.start
      BY <2>0, <3>2 DEF Retired, Row
    <3>4. topology[v].to = Open  BY <2>0, <3>1
    <3>5. QED  BY <1>2, <3>3, <3>4 DEF At
  <2>3. CASE v # r.version /\ v \notin r.active
    <3>1. topology'[v] = topology[v]  BY <1>4, <2>3
    <3>2. QED  BY <3>1 DEF At
  <2>4. QED  BY <2>1, <2>2, <2>3
<1>5. QED  BY <1>3, <1>4 DEF Activate

(* For any versions, activators and times, no step rewrites the topology of *)
(* an instant before the activations under way (digital_twin_repository.py: *)
(* 127-147, 176-184).                                                       *)
THEOREM PastIsStableHolds == TopologySpec => PastIsStable
<1> DEFINE Stable(t) ==
        (\A a \in Activators : activation[a].pc # "idle" => t < activation[a].start)
            => At(t)' = At(t)
<1>1. ASSUME VersionsInv, [TopologyNext]_topologyVars, NEW t \in Times
      PROVE  Stable(t)
  <2>0. TopologyTypeOK  BY <1>1 DEF VersionsInv
  <2>1. CASE UNCHANGED topology  BY <2>1 DEF At
  <2>2. ASSUME NEW v \in Numbers, Create(v) PROVE At(t)' = At(t)
    <3>1. \A w \in Numbers : topology'[w].from = topology[w].from /\ topology'[w].to = topology[w].to
      BY <2>0, <2>2 DEF Create, TopologyTypeOK, Row
    <3>2. QED  BY <3>1 DEF At
  <2>3. ASSUME NEW a \in Activators, Activate(a) PROVE Stable(t)
    <3>1. activation[a].pc # "idle"  BY <2>3 DEF Activate
    <3>2. QED  BY <1>1, <2>3, <3>1, ActivateKeepsPast
  <2>4. CASE UNCHANGED topologyVars  BY <2>1, <2>4 DEF topologyVars
  <2>5. CASE TimePasses  BY <2>1, <2>5 DEF TimePasses
  <2>6. ASSUME NEW a \in Activators,
               (\E v \in Numbers : Begin(a, v)) \/ LockVersion(a) \/ FindActive(a)
                    \/ RetireOthers(a) \/ ActivationFails(a)
        PROVE  UNCHANGED topology
    BY <2>6 DEF Begin, LockVersion, FindActive, RetireOthers, ActivationFails
  <2>7. QED
    BY <1>1, <2>1, <2>2, <2>3, <2>4, <2>5, <2>6
    DEF TopologyNext, CreateTopologyVersion, CreateEnergyTopology
<1>2. VersionsInv /\ [TopologyNext]_topologyVars =>
        [\A t \in Times : Stable(t)]_topologyVars
  BY <1>1
<1> HIDE DEF Stable
<1>3. TopologySpec => [][\A t \in Times : Stable(t)]_topologyVars
  BY <1>2, VersionsInitInv, VersionsStepsKeepInv, PTL DEF TopologySpec
<1>4. QED  BY <1>3 DEF PastIsStable, Stable

-----------------------------------------------------------------------------
(* TopologyCheck. A node is on the stack of calls exactly while it is       *)
(* visiting; every call was made for a child of the call below it, and what *)
(* a call has still to visit, what is done and the call above it are all the*)
(* children it has (digital_twin.py:1078-1096, energy_platform.py:854-871). *)
(* open is the child that the topmost call is about to visit.               *)
VisitCall == [node: Assets, left: SUBSET Assets]
IsPath(s, ing, ed, open) ==
    /\ ing = {s[i].node : i \in 1 .. Len(s)}
    /\ ing \cap ed = {}
    /\ \A i, j \in 1 .. Len(s) : s[i].node = s[j].node => i = j
    /\ \A i \in 2 .. Len(s) : s[i - 1].node \in Children(s[i].node)
    /\ \A i \in 1 .. Len(s) :
            Children(s[i].node) \subseteq
                s[i].left \cup ed \cup (IF i > 1 THEN {s[i - 1].node} ELSE open)
    /\ \A i \in 1 .. Len(s) : s[i].left \subseteq Children(s[i].node)

IsClosed(S) == \A a \in S : Children(a) \subseteq S
SourcesCome ==
    \A a \in Assets : Children(a) # {} => a \in sources \cup visited \cup visiting
(* What is visited is closed, and has neither a group in which everybody    *)
(* contains another nor one in which everybody is contained by another.     *)
IsSettled(S) ==
    /\ IsClosed(S)
    /\ \A G \in SUBSET S : G # {} => \E a \in G : Children(a) \cap G = {}
    /\ \A G \in SUBSET S : G # {} => \E a \in G : Containers(a) \cap G = {}
SearchIsRight ==
    IF cyclic THEN ~Acyclic
    ELSE IsPath(stack, visiting, visited, {}) /\ SourcesCome /\ IsSettled(visited)
ReachIsRight ==
    IF phase = "search" THEN reached = {}
    ELSE
        /\ cyclic \/ (stack = <<>> /\ sources = {})
        /\ Children(Root) \subseteq frontier \cup reached
        /\ \A a \in reached : Children(a) \subseteq frontier \cup reached
        /\ \A S \in SUBSET Assets : Root \in S /\ IsClosed(S) => frontier \cup reached \subseteq S
CheckInv ==
    /\ CheckTypeOK
    /\ SearchIsRight
    /\ ReachIsRight
    /\ phase = "done" =>
        /\ frontier = {}
        /\ "twin" \in valid <=> TwinAccepts
        /\ "energy" \in valid <=> EnergyAccepts(doubled)

(* Relationships are between assets (energy_platform.py:134-143).            *)
LEMMA ChildrenAreAssets == \A a : Children(a) \subseteq Assets /\ Containers(a) \subseteq Assets
BY DEF Children, Containers

(* The stack after a call, by its calls.                                    *)
LEMMA Pushed ==
    ASSUME NEW T, NEW s \in Seq(T), NEW e \in T
    PROVE  /\ <<e>> \o s \in Seq(T)
           /\ Len(<<e>> \o s) = Len(s) + 1 /\ Len(s) \in Nat
           /\ (<<e>> \o s)[1] = e
           /\ \A i \in 2 .. Len(s) + 1 : (<<e>> \o s)[i] = s[i - 1]
BY SMT

(* The stack after a return.                                                *)
LEMMA Popped ==
    ASSUME NEW T, NEW s \in Seq(T), s # <<>>
    PROVE  /\ Len(s) \in Nat \ {0}
           /\ Head(s) = s[1] /\ Head(s) \in T
           /\ Tail(s) \in Seq(T)
           /\ Len(Tail(s)) = Len(s) - 1
           /\ \A i \in 1 .. Len(s) - 1 : Tail(s)[i] = s[i + 1]
BY SMT

(* Nothing is on the path at the start (energy_platform.py:854-858).        *)
LEMMA CheckInitInv == CheckInit => CheckInv
<1> SUFFICES ASSUME CheckInit PROVE CheckInv  OBVIOUS
<1>1. CheckTypeOK
  <2>1. contains \subseteq Assets \X Assets  BY DEF CheckInit
  <2>2. stack \in Seq([node: Assets, left: SUBSET Assets])  BY DEF CheckInit
  <2>3. QED  BY <2>1, <2>2 DEF CheckInit, CheckTypeOK
<1>2. /\ ~cyclic /\ stack = <<>> /\ visiting = {} /\ visited = {} /\ phase = "search"
      /\ reached = {}
  BY DEF CheckInit
<1>3. Len(stack) = 0  BY <1>2
<1>4. IsPath(stack, visiting, visited, {})  BY <1>2, <1>3 DEF IsPath
<1>5. SourcesCome  BY DEF SourcesCome, CheckInit
<1>6. IsSettled(visited)  BY <1>2 DEF IsSettled, IsClosed
<1>7. QED  BY <1>1, <1>2, <1>4, <1>5, <1>6 DEF CheckInv, SearchIsRight, ReachIsRight

(* The topmost call takes a child n out of what it has left to visit.       *)
LEMMA ChildIsOpen ==
    ASSUME NEW s \in Seq(VisitCall), s # <<>>, NEW ing, NEW ed, IsPath(s, ing, ed, {}),
           NEW n \in s[1].left,
           NEW t \in Seq(VisitCall), Len(t) = Len(s),
           t[1].node = s[1].node, t[1].left = s[1].left \ {n},
           \A i \in 2 .. Len(s) : t[i] = s[i]
    PROVE  IsPath(t, ing, ed, {n}) /\ n \in Children(t[1].node)
<1>1. Len(s) \in Nat \ {0} /\ 1 \in 1 .. Len(s) /\ \A i \in 1 .. Len(s) : i = 1 \/ i \in 2 .. Len(s)
  BY Popped
<1>2. \A i \in 1 .. Len(s) : t[i].node = s[i].node
  BY <1>1
<1>3. n \in Children(s[1].node)
  BY <1>1 DEF IsPath
<1>4. ASSUME NEW i \in 1 .. Len(s)
      PROVE  /\ Children(t[i].node) \subseteq
                    t[i].left \cup ed \cup (IF i > 1 THEN {t[i - 1].node} ELSE {n})
             /\ t[i].left \subseteq Children(t[i].node)
  <2>1. CASE i = 1
    <3>1. /\ Children(s[1].node) \subseteq s[1].left \cup ed
          /\ s[1].left \subseteq Children(s[1].node)
      BY <1>1 DEF IsPath
    <3>2. QED  BY <2>1, <3>1
  <2>2. CASE i \in 2 .. Len(s)
    <3>1. t[i] = s[i] /\ t[i - 1].node = s[i - 1].node /\ i > 1
      BY <2>2, <1>1, <1>2
    <3>2. /\ Children(s[i].node) \subseteq s[i].left \cup ed \cup {s[i - 1].node}
          /\ s[i].left \subseteq Children(s[i].node)
      BY <3>1 DEF IsPath
    <3>3. QED  BY <3>1, <3>2
  <2>3. QED  BY <2>1, <2>2, <1>1
<1>5. ASSUME NEW i \in 2 .. Len(s) PROVE t[i - 1].node \in Children(t[i].node)
  <2>1. t[i - 1].node = s[i - 1].node  BY <1>1, <1>2
  <2>2. QED  BY <2>1 DEF IsPath
<1>6. ing = {t[i].node : i \in 1 .. Len(t)}
  <2>1. ing = {s[i].node : i \in 1 .. Len(s)}  BY DEF IsPath
  <2>2. QED  BY <1>2, <2>1
<1>7. \A i, j \in 1 .. Len(t) : t[i].node = t[j].node => i = j
  BY <1>2 DEF IsPath
<1>8. ing \cap ed = {}  BY DEF IsPath
<1>9. IsPath(t, ing, ed, {n})
  BY <1>4, <1>5, <1>6, <1>7, <1>8 DEF IsPath
<1>10. QED  BY <1>2, <1>1, <1>3, <1>9

(* What is on the stack once the topmost call has taken a child             *)
(* (energy_platform.py:866-868).                                            *)
LEMMA TakeChild ==
    ASSUME NEW s \in Seq(VisitCall), s # <<>>, NEW n,
           NEW e \in VisitCall, e.node = Head(s).node, e.left = Head(s).left \ {n},
           NEW t, t = <<e>> \o Tail(s)
    PROVE  /\ t \in Seq(VisitCall) /\ t # <<>> /\ Len(t) = Len(s)
           /\ t[1].node = s[1].node /\ t[1].left = s[1].left \ {n}
           /\ \A i \in 2 .. Len(s) : t[i] = s[i]
<1>1. /\ Len(s) \in Nat \ {0}
      /\ Head(s) = s[1] /\ Head(s) \in VisitCall
      /\ Tail(s) \in Seq(VisitCall)
      /\ Len(Tail(s)) = Len(s) - 1
      /\ \A i \in 1 .. Len(s) - 1 : Tail(s)[i] = s[i + 1]
  BY Popped
<1>2. e.node = s[1].node /\ e.left = s[1].left \ {n}
  BY <1>1
<1>3. t = <<e>> \o Tail(s)  OBVIOUS
<1>4. /\ <<e>> \o Tail(s) \in Seq(VisitCall)
      /\ Len(<<e>> \o Tail(s)) = Len(Tail(s)) + 1
      /\ (<<e>> \o Tail(s))[1] = e
      /\ \A i \in 2 .. Len(Tail(s)) + 1 : (<<e>> \o Tail(s))[i] = Tail(s)[i - 1]
  BY <1>1, <1>2, Pushed
<1>5. Len(Tail(s)) + 1 = Len(s)  BY <1>1
<1>6. /\ t \in Seq(VisitCall) /\ Len(t) = Len(s) /\ t[1] = e
      /\ \A i \in 2 .. Len(s) : t[i] = Tail(s)[i - 1]
  BY <1>3, <1>4, <1>5
<1>7. \A i \in 2 .. Len(s) : i - 1 \in 1 .. Len(s) - 1 /\ (i - 1) + 1 = i
  BY <1>1
<1>8. \A i \in 2 .. Len(s) : t[i] = s[i]
  BY <1>1, <1>6, <1>7
<1>9. t # <<>>  BY <1>1, <1>6
<1>10. QED  BY <1>2, <1>6, <1>8, <1>9

(* A node on the path closes a cycle: each node up to its own contains the  *)
(* one before it, and the first contains it again.                          *)
LEMMA PathCloses ==
    ASSUME NEW s \in Seq(VisitCall), NEW ing, NEW ed, NEW n \in ing, IsPath(s, ing, ed, {n}),
           s # <<>>, n \in Children(s[1].node)
    PROVE  ~Acyclic
<1>0. Len(s) \in Nat \ {0}  BY Popped
<1>1. PICK j \in 1 .. Len(s) : s[j].node = n  BY DEF IsPath
<1> DEFINE S == {s[i].node : i \in 1 .. j}
<1>2. S \subseteq Assets
  <2>1. \A i \in 1 .. Len(s) : s[i] \in VisitCall  OBVIOUS
  <2>2. QED  BY <1>0, <2>1 DEF VisitCall
<1>3. n \in S  BY <1>0, <1>1
<1>4. ASSUME NEW a \in S PROVE Children(a) \cap S # {}
  <2>1. PICK i \in 1 .. j : a = s[i].node  OBVIOUS
  <2>2. CASE i = 1  BY <1>3, <2>1, <2>2
  <2>3. CASE i > 1
    <3>1. i - 1 \in 1 .. j /\ i \in 2 .. Len(s)  BY <1>0, <2>3
    <3>2. s[i - 1].node \in Children(s[i].node)  BY <3>1 DEF IsPath
    <3>3. s[i - 1].node \in S  BY <3>1
    <3>4. QED  BY <2>1, <3>2, <3>3
  <2>4. QED  BY <2>2, <2>3
<1> HIDE DEF S
<1>5. S \in (SUBSET Assets) \ {{}}  BY <1>2, <1>3
<1>6. QED  BY <1>4, <1>5 DEF Acyclic

(* A call for a node that is new to the search lengthens the path.          *)
LEMMA PathGrows ==
    ASSUME NEW s \in Seq(VisitCall), NEW ing, NEW ed, NEW n \in Assets, IsPath(s, ing, ed, {n}),
           n \notin ing \cup ed, s # <<>> => n \in Children(s[1].node),
           NEW t, t = <<[node |-> n, left |-> Children(n)]>> \o s
    PROVE  /\ t \in Seq(VisitCall)
           /\ IsPath(t, ing \cup {n}, ed, {})
<1> DEFINE e == [node |-> n, left |-> Children(n)]
<1>1. e \in VisitCall /\ e.node = n /\ e.left = Children(n)
  BY ChildrenAreAssets DEF VisitCall
<1> HIDE DEF e
<1>2. /\ t \in Seq(VisitCall)
      /\ Len(t) = Len(s) + 1 /\ Len(s) \in Nat
      /\ t[1] = e
      /\ \A i \in 2 .. Len(s) + 1 : t[i] = s[i - 1]
  <2>1. t = <<e>> \o s  BY DEF e
  <2>2. QED  BY <1>1, <2>1, Pushed
<1>3. \A i \in 2 .. Len(t) : i - 1 \in 1 .. Len(s) /\ t[i] = s[i - 1]
  BY <1>2
<1>4. \A i \in 1 .. Len(s) : i + 1 \in 2 .. Len(t) /\ t[i + 1] = s[i]
  BY <1>2
<1>5. 1 \in 1 .. Len(t) /\ \A i \in 1 .. Len(t) : i = 1 \/ i \in 2 .. Len(t)
  BY <1>2
<1>6. ing \cup {n} = {t[i].node : i \in 1 .. Len(t)}
  <2>1. ing = {s[i].node : i \in 1 .. Len(s)}  BY DEF IsPath
  <2>2. ASSUME NEW i \in 1 .. Len(t) PROVE t[i].node \in ing \cup {n}
    BY <1>1, <1>2, <1>3, <1>5, <2>1
  <2>3. n \in {t[i].node : i \in 1 .. Len(t)}  BY <1>1, <1>2, <1>5
  <2>4. ASSUME NEW i \in 1 .. Len(s) PROVE s[i].node \in {t[k].node : k \in 1 .. Len(t)}
    BY <1>4, <1>2
  <2>5. QED  BY <2>1, <2>2, <2>3, <2>4
<1>7. (ing \cup {n}) \cap ed = {}  BY DEF IsPath
<1>8. ASSUME NEW i \in 1 .. Len(t), NEW j \in 1 .. Len(t), t[i].node = t[j].node PROVE i = j
  <2>1. \A k \in 2 .. Len(t) : t[k].node \in ing  BY <1>3 DEF IsPath
  <2>2. CASE i = 1 \/ j = 1  BY <1>1, <1>2, <1>5, <1>8, <2>1, <2>2
  <2>3. CASE i # 1 /\ j # 1
    <3>1. /\ i - 1 \in 1 .. Len(s) /\ t[i] = s[i - 1]
          /\ j - 1 \in 1 .. Len(s) /\ t[j] = s[j - 1]
      BY <1>3, <1>5, <2>3
    <3>2. s[i - 1].node = s[j - 1].node  BY <1>8, <3>1
    <3>3. \A k, l \in 1 .. Len(s) : s[k].node = s[l].node => k = l  BY DEF IsPath
    <3>4. i - 1 = j - 1  BY <3>1, <3>2, <3>3
    <3>5. QED  BY <3>4, <1>2
  <2>4. QED  BY <2>2, <2>3
<1>9. ASSUME NEW i \in 2 .. Len(t) PROVE t[i - 1].node \in Children(t[i].node)
  <2>1. CASE i = 2
    <3>1. s # <<>> /\ t[2] = s[1]  BY <2>1, <1>2
    <3>2. QED  BY <2>1, <3>1, <1>1, <1>2
  <2>2. CASE i > 2
    <3>1. t[i] = s[i - 1] /\ t[i - 1] = s[i - 2] /\ i - 1 \in 2 .. Len(s) /\ i - 2 = (i - 1) - 1
      BY <2>2, <1>2
    <3>2. QED  BY <3>1 DEF IsPath
  <2>3. QED  BY <2>1, <2>2, <1>2
<1>10. ASSUME NEW i \in 1 .. Len(t)
       PROVE  /\ Children(t[i].node) \subseteq
                    t[i].left \cup ed \cup (IF i > 1 THEN {t[i - 1].node} ELSE {})
              /\ t[i].left \subseteq Children(t[i].node)
  <2>1. CASE i = 1  BY <2>1, <1>1, <1>2
  <2>2. CASE i = 2
    <3>1. t[2] = s[1] /\ 1 \in 1 .. Len(s)  BY <2>2, <1>2
    <3>2. /\ Children(s[1].node) \subseteq s[1].left \cup ed \cup {n}
          /\ s[1].left \subseteq Children(s[1].node)
      BY <3>1 DEF IsPath
    <3>3. QED  BY <2>2, <3>1, <3>2, <1>1, <1>2
  <2>3. CASE i > 2
    <3>1. t[i] = s[i - 1] /\ t[i - 1] = s[i - 2] /\ i - 1 \in 2 .. Len(s) /\ i - 2 = (i - 1) - 1
      BY <2>3, <1>2
    <3>2. /\ Children(s[i - 1].node) \subseteq s[i - 1].left \cup ed \cup {s[i - 2].node}
          /\ s[i - 1].left \subseteq Children(s[i - 1].node)
      BY <3>1, <1>2 DEF IsPath
    <3>3. QED  BY <2>3, <3>1, <3>2
  <2>4. QED  BY <2>1, <2>2, <2>3, <1>2
<1>11. IsPath(t, ing \cup {n}, ed, {})  BY <1>6, <1>7, <1>8, <1>9, <1>10 DEF IsPath
<1>12. QED  BY <1>2, <1>11

(* A call that has no child left to visit returns: its node is visited.     *)
LEMMA PathShrinks ==
    ASSUME stack \in Seq(VisitCall), stack # <<>>, IsPath(stack, visiting, visited, {}),
           NEW n, n = stack[1].node, stack[1].left = {}, stack' = Tail(stack)
    PROVE  /\ IsPath(stack', visiting \ {n}, visited \cup {n}, {})
           /\ Children(n) \subseteq visited
           /\ n \in visiting /\ n \in Assets /\ n \notin visited
<1>1. /\ Len(stack) \in Nat \ {0} /\ stack[1] \in VisitCall
      /\ Len(stack') = Len(stack) - 1
      /\ \A i \in 1 .. Len(stack) - 1 : stack'[i] = stack[i + 1]
  BY Popped
<1>2. /\ Len(stack') = Len(stack) - 1
      /\ \A i \in 1 .. Len(stack') : i + 1 \in 2 .. Len(stack) /\ stack'[i] = stack[i + 1]
  BY <1>1
<1>3. 1 \in 1 .. Len(stack) /\ \A i \in 1 .. Len(stack) : i = 1 \/ i - 1 \in 1 .. Len(stack')
  BY <1>1
<1>4. n = stack[1].node /\ stack[1].left = {}  BY <1>1
<1>5. n \in visiting /\ n \in Assets  BY <1>1, <1>3, <1>4 DEF IsPath, VisitCall
<1>6. Children(n) \subseteq visited  BY <1>3, <1>4 DEF IsPath
<1>7. \A i \in 2 .. Len(stack) : stack[i].node # n  BY <1>1, <1>3, <1>4 DEF IsPath
<1>8. visiting \ {n} = {stack'[i].node : i \in 1 .. Len(stack')}
  <2>1. visiting = {stack[i].node : i \in 1 .. Len(stack)}  BY DEF IsPath
  <2>2. ASSUME NEW i \in 1 .. Len(stack') PROVE stack'[i].node \in visiting \ {n}
    BY <1>1, <1>2, <1>7, <2>1
  <2>3. ASSUME NEW i \in 1 .. Len(stack), stack[i].node # n PROVE stack[i].node \in {stack'[k].node : k \in 1 .. Len(stack')}
    <3>1. i - 1 \in 1 .. Len(stack')  BY <1>3, <1>4, <2>3
    <3>2. stack'[i - 1] = stack[i]  BY <1>1, <1>2, <3>1
    <3>3. QED  BY <3>1, <3>2
  <2>4. QED  BY <2>1, <2>2, <2>3
<1>9. (visiting \ {n}) \cap (visited \cup {n}) = {}  BY DEF IsPath
<1>10. ASSUME NEW i \in 1 .. Len(stack'), NEW j \in 1 .. Len(stack'), stack'[i].node = stack'[j].node PROVE i = j
  <2>1. i + 1 = j + 1  BY <1>1, <1>2, <1>10 DEF IsPath
  <2>2. QED  BY <2>1
<1>11. ASSUME NEW i \in 2 .. Len(stack') PROVE stack'[i - 1].node \in Children(stack'[i].node)
  <2>1. stack'[i] = stack[i + 1] /\ stack'[i - 1] = stack[i] /\ i + 1 \in 2 .. Len(stack) /\ (i + 1) - 1 = i
    BY <1>1, <1>2
  <2>2. QED  BY <2>1 DEF IsPath
<1>12. ASSUME NEW i \in 1 .. Len(stack')
       PROVE  /\ Children(stack'[i].node) \subseteq
                    stack'[i].left \cup (visited \cup {n}) \cup (IF i > 1 THEN {stack'[i - 1].node} ELSE {})
              /\ stack'[i].left \subseteq Children(stack'[i].node)
  <2>1. /\ stack'[i] = stack[i + 1] /\ i + 1 \in 1 .. Len(stack) /\ i + 1 > 1 /\ (i + 1) - 1 = i
        /\ i > 1 => stack'[i - 1] = stack[i]
    BY <1>1, <1>2
  <2>2. /\ Children(stack[i + 1].node) \subseteq stack[i + 1].left \cup visited \cup {stack[i].node}
        /\ stack[i + 1].left \subseteq Children(stack[i + 1].node)
    BY <2>1 DEF IsPath
  <2>3. i = 1 \/ i > 1  OBVIOUS
  <2>4. QED  BY <2>1, <2>2, <2>3, <1>4
<1>13. IsPath(stack', visiting \ {n}, visited \cup {n}, {})
  BY <1>8, <1>9, <1>10, <1>11, <1>12 DEF IsPath
<1>14. n \notin visited  BY <1>5 DEF IsPath
<1>15. QED  BY <1>5, <1>6, <1>13, <1>14

(* A node whose children are visited may join them.                         *)
LEMMA SettledGrows ==
    ASSUME NEW S \in SUBSET Assets, IsSettled(S), NEW n \in Assets, n \notin S, Children(n) \subseteq S
    PROVE  IsSettled(S \cup {n})
<1>1. IsClosed(S \cup {n})  BY DEF IsSettled, IsClosed
<1>2. ASSUME NEW G \in SUBSET (S \cup {n}), G # {} PROVE \E a \in G : Children(a) \cap G = {}
  <2>1. CASE G \cap S = {}
    <3>1. n \in G  BY <1>2, <2>1
    <3>2. QED  BY <2>1, <3>1
  <2>2. CASE G \cap S # {}
    <3>1. PICK a \in G \cap S : Children(a) \cap (G \cap S) = {}  BY <2>2 DEF IsSettled
    <3>2. n \notin Children(a)  BY DEF IsSettled, IsClosed
    <3>3. QED  BY <3>1, <3>2
  <2>3. QED  BY <2>1, <2>2
<1>3. ASSUME NEW G \in SUBSET (S \cup {n}), G # {} PROVE \E a \in G : Containers(a) \cap G = {}
  <2>1. \A a \in S \cup {n} : n \notin Children(a)  BY DEF IsSettled, IsClosed
  <2>2. \A a \in S : a \notin Containers(n)  BY <2>1 DEF Containers, Children
  <2>3. n \notin Containers(n)  BY <2>1 DEF Containers, Children
  <2>4. CASE n \in G  BY <2>2, <2>3, <2>4
  <2>5. CASE n \notin G  BY <1>3, <2>5 DEF IsSettled
  <2>6. QED  BY <2>4, <2>5
<1>4. QED  BY <1>1, <1>2, <1>3 DEF IsSettled

(* The state by its parts (energy_platform.py:854-871).                     *)
LEMMA CheckFacts ==
    ASSUME CheckInv
    PROVE  /\ contains \subseteq Assets \X Assets
           /\ stack \in Seq(VisitCall)
           /\ visited \subseteq Assets /\ visiting \subseteq Assets /\ sources \subseteq Assets
           /\ frontier \subseteq Assets /\ reached \subseteq Assets
           /\ CheckTypeOK /\ SearchIsRight /\ ReachIsRight
BY DEF CheckInv, CheckTypeOK, VisitCall

(* Either caller of visit: it leaves the path open at n, and no source but n*)
(* is lost (energy_platform.py:859-871, digital_twin.py:1083-1096).         *)
LEMMA VisitKeepsInv ==
    ASSUME CheckInv, phase = "search", ~cyclic, NEW n \in Assets, NEW calls_ \in Seq(VisitCall),
           IsPath(calls_, visiting, visited, {n}),
           calls_ # <<>> => n \in Children(calls_[1].node),
           sources' \subseteq sources, \A a \in sources : a \in sources' \/ a = n,
           Visit(n, calls_)
    PROVE  CheckInv'
<1>0. /\ contains \subseteq Assets \X Assets
      /\ visited \subseteq Assets /\ visiting \subseteq Assets /\ sources \subseteq Assets
      /\ CheckTypeOK /\ SearchIsRight /\ ReachIsRight
  BY CheckFacts
<1>1. /\ cyclic' = (n \in visiting)
      /\ UNCHANGED <<visited, contains, doubled, phase, frontier, reached, valid>>
  BY DEF Visit
<1>2. Children(n)' = Children(n) /\ \A a : Children(a)' = Children(a) /\ Containers(a)' = Containers(a)
  BY <1>1 DEF Children, Containers
<1>3. ReachIsRight' /\ phase' = "search"  BY <1>0, <1>1 DEF ReachIsRight
<1>4. stack' \in Seq(VisitCall) /\ visiting' \subseteq Assets
  <2>1. CASE n \in visiting \cup visited  BY <1>0, <2>1 DEF Visit
  <2>2. CASE n \notin visiting \cup visited
    <3>1. stack' = <<[node |-> n, left |-> Children(n)]>> \o calls_ /\ visiting' = visiting \cup {n}
      BY <2>2 DEF Visit
    <3>2. stack' \in Seq(VisitCall)  BY <2>2, <3>1, PathGrows
    <3>3. QED  BY <1>0, <3>1, <3>2
  <2>3. QED  BY <2>1, <2>2
<1>5. CheckTypeOK'
  <2>1. cyclic' \in BOOLEAN  BY <1>1
  <2>2. sources' \subseteq Assets  BY <1>0
  <2>3. stack' \in Seq([node: Assets, left: SUBSET Assets])  BY <1>4 DEF VisitCall
  <2>4. QED  BY <1>0, <1>1, <1>4, <2>1, <2>2, <2>3 DEF CheckTypeOK
<1>6. SearchIsRight'
  <2>1. CASE n \in visiting
    <3>1. calls_ # <<>> => ~Acyclic  BY <2>1, PathCloses
    <3>2. calls_ # <<>>
      <4>1. SUFFICES ASSUME calls_ = <<>> PROVE FALSE  OBVIOUS
      <4>2. Len(calls_) = 0  BY <4>1
      <4>3. QED  BY <2>1, <4>2 DEF IsPath
    <3>3. ~Acyclic'  BY <3>1, <3>2, <1>2 DEF Acyclic
    <3>4. QED  BY <1>1, <2>1, <3>3 DEF SearchIsRight
  <2>2. CASE n \notin visiting
    <3>1. SourcesCome'
      <4>1. SourcesCome  BY DEF SearchIsRight, CheckInv
      <4>2. n \in visiting' \cup visited'  BY <1>1, <2>2 DEF Visit
      <4>3. visiting \subseteq visiting'  BY DEF Visit
      <4>4. QED  BY <1>1, <1>2, <4>1, <4>2, <4>3 DEF SourcesCome
    <3>2. IsSettled(visited)'
      BY <1>0, <1>1, <1>2 DEF SearchIsRight, IsSettled, IsClosed
    <3>3. IsPath(stack', visiting', visited, {})
      <4>1. CASE n \in visited
        <5>1. stack' = calls_ /\ visiting' = visiting  BY <4>1 DEF Visit
        <5>2. IsPath(calls_, visiting, visited, {})  BY <4>1 DEF IsPath
        <5>3. QED  BY <5>1, <5>2
      <4>2. CASE n \notin visited
        <5>1. stack' = <<[node |-> n, left |-> Children(n)]>> \o calls_ /\ visiting' = visiting \cup {n}
          BY <2>2, <4>2 DEF Visit
        <5>2. IsPath(stack', visiting \cup {n}, visited, {})  BY <2>2, <4>2, <5>1, PathGrows
        <5>3. QED  BY <5>1, <5>2
      <4>3. QED  BY <4>1, <4>2
    <3>4. IsPath(stack, visiting, visited, {})'
      BY <3>3, <1>1, <1>2 DEF IsPath
    <3>5. QED  BY <1>1, <2>2, <3>1, <3>2, <3>4 DEF SearchIsRight
  <2>3. QED  BY <2>1, <2>2
<1>7. QED  BY <1>3, <1>5, <1>6 DEF CheckInv

(* Only an empty path lets the loop over the graph go on (870-871).         *)
LEMMA VisitSourceKeepsInv ==
    ASSUME CheckInv, NEW n \in Assets, VisitSource(n)
    PROVE  CheckInv'
<1>1. /\ phase = "search" /\ ~cyclic /\ stack = <<>>
      /\ sources' = sources \ {n} /\ Visit(n, stack)
  BY DEF VisitSource
<1>2. IsPath(stack, visiting, visited, {})  BY <1>1 DEF CheckInv, SearchIsRight
<1>3. IsPath(stack, visiting, visited, {n})
  <2>1. Len(stack) = 0  BY <1>1
  <2>2. QED  BY <1>2, <2>1 DEF IsPath
<1>4. stack \in Seq(VisitCall)  BY CheckFacts
<1>5. QED  BY <1>1, <1>3, <1>4, VisitKeepsInv

(* The topmost call visits the next child (866-868).                        *)
LEMMA VisitChildKeepsInv ==
    ASSUME CheckInv, NEW n \in Assets, VisitChild(n)
    PROVE  CheckInv'
<1> DEFINE e == [Head(stack) EXCEPT !.left = @ \ {n}]
           t == <<e>> \o Tail(stack)
<1>1. /\ phase = "search" /\ ~cyclic /\ stack # <<>> /\ n \in Head(stack).left
      /\ sources' = sources /\ Visit(n, t)
  BY DEF VisitChild
<1>2. stack \in Seq(VisitCall) /\ SearchIsRight  BY CheckFacts
<1>3. IsPath(stack, visiting, visited, {})  BY <1>1, <1>2 DEF SearchIsRight
<1>4. Head(stack) = stack[1] /\ Head(stack) \in VisitCall  BY <1>1, <1>2, Popped
<1>5. e \in VisitCall /\ e.node = Head(stack).node /\ e.left = Head(stack).left \ {n}
  BY <1>4 DEF VisitCall
<1>6. t = <<e>> \o Tail(stack)  BY DEF t
<1> HIDE DEF e, t
<1>7. /\ t \in Seq(VisitCall) /\ t # <<>> /\ Len(t) = Len(stack)
      /\ t[1].node = stack[1].node /\ t[1].left = stack[1].left \ {n}
      /\ \A i \in 2 .. Len(stack) : t[i] = stack[i]
  BY <1>1, <1>2, <1>5, <1>6, TakeChild
<1>8. IsPath(t, visiting, visited, {n}) /\ n \in Children(t[1].node)
  BY <1>1, <1>2, <1>3, <1>4, <1>7, ChildIsOpen
<1>9. QED  BY <1>1, <1>7, <1>8, VisitKeepsInv

(* A call returns: its node joins the visited, off the path (866-869).      *)
LEMMA LeaveNodeKeepsInv ==
    ASSUME CheckInv, LeaveNode
    PROVE  CheckInv'
<1> DEFINE n == Head(stack).node
<1>0. /\ contains \subseteq Assets \X Assets /\ stack \in Seq(VisitCall)
      /\ visited \subseteq Assets /\ visiting \subseteq Assets
      /\ CheckTypeOK /\ SearchIsRight /\ ReachIsRight
  BY CheckFacts
<1>1. /\ phase = "search" /\ ~cyclic /\ stack # <<>> /\ Head(stack).left = {}
      /\ visiting' = visiting \ {n} /\ visited' = visited \cup {n} /\ stack' = Tail(stack)
      /\ UNCHANGED <<sources, cyclic, contains, doubled, phase, frontier, reached, valid>>
  BY DEF LeaveNode
<1> HIDE DEF n
<1>2. \A a : Children(a)' = Children(a) /\ Containers(a)' = Containers(a)
  BY <1>1 DEF Children, Containers
<1>3. IsPath(stack, visiting, visited, {}) /\ SourcesCome /\ IsSettled(visited)
  BY <1>0, <1>1 DEF SearchIsRight
<1>4. /\ IsPath(stack', visiting \ {n}, visited \cup {n}, {})
      /\ Children(n) \subseteq visited
      /\ n \in visiting /\ n \in Assets /\ n \notin visited
  <2>1. stack \in Seq(VisitCall) /\ stack # <<>> /\ Head(stack) = stack[1]  BY <1>0, <1>1, Popped
  <2>2. stack[1].left = {} /\ n = stack[1].node  BY <1>1, <2>1 DEF n
  <2>3. IsPath(stack, visiting, visited, {})  BY <1>3
  <2>4. stack' = Tail(stack)  BY <1>1
  <2>5. QED  BY <2>1, <2>2, <2>3, <2>4, PathShrinks
<1>5. IsPath(stack', visiting', visited', {})  BY <1>1, <1>4
<1>6. IsPath(stack, visiting, visited, {})'  BY <1>5, <1>2 DEF IsPath
<1>7. IsSettled(visited \cup {n})  BY <1>0, <1>3, <1>4, SettledGrows
<1>8. IsSettled(visited)'  BY <1>7, <1>1, <1>2 DEF IsSettled, IsClosed
<1>9. SourcesCome'  BY <1>1, <1>2, <1>3 DEF SourcesCome
<1>10. SearchIsRight'  BY <1>1, <1>6, <1>8, <1>9 DEF SearchIsRight
<1>11. ReachIsRight' /\ phase' = "search"  BY <1>0, <1>1 DEF ReachIsRight
<1>12. CheckTypeOK'
  <2>1. Tail(stack) \in Seq(VisitCall)  BY <1>0, <1>1, Popped
  <2>2. stack' \in Seq([node: Assets, left: SUBSET Assets])  BY <1>1, <2>1 DEF VisitCall
  <2>3. visiting' \subseteq Assets /\ visited' \subseteq Assets  BY <1>0, <1>1, <1>4
  <2>4. QED  BY <1>0, <1>1, <2>2, <2>3 DEF CheckTypeOK
<1>13. QED  BY <1>10, <1>11, <1>12 DEF CheckInv

(* The worklist: what is on it or done with is in every closed group around *)
(* the root (energy_platform.py:872-882).                                   *)
LEMMA SearchEndsKeepsInv ==
    ASSUME CheckInv, SearchEnds
    PROVE  CheckInv'
<1>0. CheckTypeOK /\ SearchIsRight /\ ReachIsRight  BY CheckFacts
<1>1. /\ phase = "search" /\ (cyclic \/ (stack = <<>> /\ sources = {}))
      /\ phase' = "reach" /\ frontier' = Children(Root)
      /\ UNCHANGED <<sources, stack, visiting, visited, cyclic, contains, doubled, reached, valid>>
  BY DEF SearchEnds, searchVars
<1>2. \A a : Children(a)' = Children(a) /\ Containers(a)' = Containers(a)
  BY <1>1 DEF Children, Containers
<1>3. CheckTypeOK'
  <2>1. Children(Root) \subseteq Assets  BY ChildrenAreAssets
  <2>2. QED  BY <1>0, <1>1, <2>1 DEF CheckTypeOK
<1>4. SearchIsRight'
  BY <1>0, <1>1, <1>2 DEF SearchIsRight, IsPath, SourcesCome, IsSettled, IsClosed, Acyclic
<1>5. reached = {}  BY <1>0, <1>1 DEF ReachIsRight
<1>6. ReachIsRight'  BY <1>1, <1>2, <1>5, CheckAssumption DEF ReachIsRight, IsClosed
<1>7. QED  BY <1>1, <1>3, <1>4, <1>6 DEF CheckInv

(* A node off the worklist puts its children on it once (876-881).          *)
LEMMA ReachNodeKeepsInv ==
    ASSUME CheckInv, NEW n \in Assets, ReachNode(n)
    PROVE  CheckInv'
<1>0. CheckTypeOK /\ SearchIsRight /\ ReachIsRight  BY CheckFacts
<1>1. /\ phase = "reach" /\ n \in frontier
      /\ frontier' = (frontier \ {n}) \cup (IF n \in reached THEN {} ELSE Children(n))
      /\ reached' = reached \cup {n}
      /\ UNCHANGED <<sources, stack, visiting, visited, cyclic, contains, doubled, phase, valid>>
  BY DEF ReachNode, searchVars
<1>2. \A a : Children(a)' = Children(a) /\ Containers(a)' = Containers(a)
  BY <1>1 DEF Children, Containers
<1>3. CheckTypeOK'
  <2>1. Children(n) \subseteq Assets  BY ChildrenAreAssets
  <2>2. QED  BY <1>0, <1>1, <2>1 DEF CheckTypeOK
<1>4. SearchIsRight'
  BY <1>0, <1>1, <1>2 DEF SearchIsRight, IsPath, SourcesCome, IsSettled, IsClosed, Acyclic
<1>5. /\ cyclic \/ (stack = <<>> /\ sources = {})
      /\ Children(Root) \subseteq frontier \cup reached
      /\ \A a \in reached : Children(a) \subseteq frontier \cup reached
      /\ \A S \in SUBSET Assets : Root \in S /\ IsClosed(S) => frontier \cup reached \subseteq S
  BY <1>0, <1>1 DEF ReachIsRight
<1>6. frontier' \cup reached' = frontier \cup reached \cup Children(n)
  <2>1. n \in reached => Children(n) \subseteq frontier \cup reached  BY <1>5
  <2>2. QED  BY <1>1, <2>1
<1>7. \A S \in SUBSET Assets : Root \in S /\ IsClosed(S) => frontier' \cup reached' \subseteq S
  BY <1>1, <1>5, <1>6 DEF IsClosed
<1>8. ReachIsRight'
  <2>1. \A a \in reached' : Children(a) \subseteq frontier' \cup reached'  BY <1>1, <1>5, <1>6
  <2>2. Children(Root) \subseteq frontier' \cup reached'  BY <1>5, <1>6
  <2>3. \A S : IsClosed(S)' = IsClosed(S)  BY <1>2 DEF IsClosed
  <2>4. QED  BY <1>1, <1>2, <1>5, <1>7, <2>1, <2>2, <2>3 DEF ReachIsRight
<1>9. QED  BY <1>1, <1>3, <1>4, <1>8 DEF CheckInv

(* The validators answer by what the two searches left (166-175).           *)
LEMMA ConcludeKeepsInv ==
    ASSUME CheckInv, Conclude
    PROVE  CheckInv'
<1>0. CheckTypeOK /\ SearchIsRight /\ ReachIsRight  BY CheckFacts
<1>1. /\ phase = "reach" /\ frontier = {} /\ phase' = "done"
      /\ doubled' \in {FALSE, contains # {}}
      /\ valid' = (IF TwinAccepts THEN {"twin"} ELSE {})
                  \cup (IF EnergyAccepts(doubled') THEN {"energy"} ELSE {})
      /\ UNCHANGED <<sources, stack, visiting, visited, cyclic, contains, frontier, reached>>
  BY DEF Conclude, searchVars
<1>2. \A a : Children(a)' = Children(a) /\ Containers(a)' = Containers(a)
  BY <1>1 DEF Children, Containers
<1>3. CheckTypeOK'
  BY <1>0, <1>1 DEF CheckTypeOK
<1>4. SearchIsRight'
  BY <1>0, <1>1, <1>2 DEF SearchIsRight, IsPath, SourcesCome, IsSettled, IsClosed, Acyclic
<1>5. ReachIsRight'
  BY <1>0, <1>1, <1>2 DEF ReachIsRight, IsClosed
<1>6. TwinAccepts' <=> TwinAccepts  BY <1>1, <1>2 DEF TwinAccepts
<1>7. EnergyAccepts(doubled)' <=> EnergyAccepts(doubled')
  BY <1>1, <1>2, <1>6 DEF EnergyAccepts
<1>8. "twin" \in valid' <=> TwinAccepts  BY <1>1
<1>9. "energy" \in valid' <=> EnergyAccepts(doubled')  BY <1>1
<1>10. QED  BY <1>1, <1>3, <1>4, <1>5, <1>6, <1>7, <1>8, <1>9 DEF CheckInv

(* Every step keeps the invariant (energy_platform.py:854-882).             *)
LEMMA CheckNextInv == CheckInv /\ [CheckNext]_checkVars => CheckInv'
<1> SUFFICES ASSUME CheckInv, [CheckNext]_checkVars PROVE CheckInv'  OBVIOUS
<1>1. CASE \E n \in Assets : VisitSource(n)  BY <1>1, VisitSourceKeepsInv
<1>2. CASE \E n \in Assets : VisitChild(n)  BY <1>2, VisitChildKeepsInv
<1>3. CASE \E n \in Assets : ReachNode(n)  BY <1>3, ReachNodeKeepsInv
<1>4. CASE LeaveNode  BY <1>4, LeaveNodeKeepsInv
<1>5. CASE SearchEnds  BY <1>5, SearchEndsKeepsInv
<1>6. CASE Conclude  BY <1>6, ConcludeKeepsInv
<1>7. CASE UNCHANGED checkVars
  <2>0. CheckTypeOK /\ SearchIsRight /\ ReachIsRight  BY CheckFacts
  <2>1. UNCHANGED <<contains, doubled, phase, sources, stack, visiting, visited, cyclic,
                    frontier, reached, valid>>
    BY <1>7 DEF checkVars, searchVars
  <2>2. \A a : Children(a)' = Children(a) /\ Containers(a)' = Containers(a)
    BY <2>1 DEF Children, Containers
  <2>3. CheckTypeOK'  BY <2>0, <2>1 DEF CheckTypeOK
  <2>4. SearchIsRight'
    BY <2>0, <2>1, <2>2 DEF SearchIsRight, IsPath, SourcesCome, IsSettled, IsClosed, Acyclic
  <2>5. ReachIsRight'  BY <2>0, <2>1, <2>2 DEF ReachIsRight, IsClosed
  <2>6. (TwinAccepts' <=> TwinAccepts) /\ (EnergyAccepts(doubled)' <=> EnergyAccepts(doubled))
    BY <2>1, <2>2 DEF TwinAccepts, EnergyAccepts
  <2>7. QED  BY <2>1, <2>3, <2>4, <2>5, <2>6 DEF CheckInv
<1>8. QED  BY <1>1, <1>2, <1>3, <1>4, <1>5, <1>6, <1>7 DEF CheckNext

(* What the search says of the containment when it ends (digital_twin.py:   *)
(* 226-231, energy_platform.py:170-175).                                    *)
LEMMA SearchDecides ==
    ASSUME CheckInv, phase = "done"
    PROVE  /\ TwinAccepts <=> Acyclic
           /\ Acyclic => \A a \in Assets : Children(a) # {} => a \in visited
           /\ Acyclic => IsSettled(visited)
<1>0. /\ contains \subseteq Assets \X Assets /\ visited \subseteq Assets
      /\ SearchIsRight /\ ReachIsRight
  BY CheckFacts
<1>1. cyclic => ~Acyclic  BY <1>0 DEF SearchIsRight
<1>2. ASSUME ~cyclic
      PROVE  /\ Acyclic
             /\ \A a \in Assets : Children(a) # {} => a \in visited
             /\ IsSettled(visited)
  <2>1. stack = <<>> /\ sources = {}  BY <1>0, <1>2 DEF ReachIsRight
  <2>2. IsPath(stack, visiting, visited, {}) /\ SourcesCome /\ IsSettled(visited)
    BY <1>0, <1>2 DEF SearchIsRight
  <2>3. visiting = {}
    <3>1. Len(stack) = 0  BY <2>1
    <3>2. QED  BY <2>2, <3>1 DEF IsPath
  <2>4. \A a \in Assets : Children(a) # {} => a \in visited
    BY <2>1, <2>2, <2>3 DEF SourcesCome
  <2>5. Acyclic
    <3>1. SUFFICES ASSUME NEW S \in (SUBSET Assets) \ {{}}
                   PROVE  \E a \in S : Children(a) \cap S = {}
      BY DEF Acyclic
    <3>2. CASE S \subseteq visited  BY <2>2, <3>2 DEF IsSettled
    <3>3. CASE ~(S \subseteq visited)
      <4>1. PICK a \in S : a \notin visited  BY <3>3
      <4>2. Children(a) = {}  BY <2>4, <4>1
      <4>3. QED  BY <4>1, <4>2
    <3>4. QED  BY <3>2, <3>3
  <2>6. QED  BY <2>2, <2>4, <2>5
<1>3. ASSUME Acyclic, NEW a \in Assets PROVE a \notin Children(a)
  <2>1. {a} \in (SUBSET Assets) \ {{}}  OBVIOUS
  <2>2. PICK b \in {a} : Children(b) \cap {a} = {}  BY <1>3, <2>1 DEF Acyclic
  <2>3. QED  BY <2>2
<1>4. QED  BY <1>1, <1>2, <1>3 DEF TwinAccepts

(* What the worklist has done with is what the root reaches                 *)
(* (energy_platform.py:167-169, 872-882).                                   *)
LEMMA WorklistDecides ==
    ASSUME CheckInv, phase = "done"
    PROVE  RootReachesAll <=> Assets \ (reached \cup {Root}) = {}
<1>0. ReachIsRight /\ reached \subseteq Assets /\ frontier = {}
  BY CheckFacts DEF CheckInv
<1>1. /\ Children(Root) \subseteq reached
      /\ \A a \in reached : Children(a) \subseteq reached
      /\ \A S \in SUBSET Assets : Root \in S /\ IsClosed(S) => reached \subseteq S
  BY <1>0 DEF ReachIsRight
<1>2. reached \cup {Root} \in SUBSET Assets  BY <1>0, CheckAssumption
<1>3. \A a \in reached \cup {Root} : Children(a) \subseteq reached \cup {Root}  BY <1>1
<1>4. RootReachesAll => reached \cup {Root} = Assets  BY <1>2, <1>3 DEF RootReachesAll
<1>5. reached \cup {Root} = Assets => RootReachesAll  BY <1>1 DEF RootReachesAll, IsClosed
<1>6. QED  BY <1>2, <1>4, <1>5

(* Nothing contains the root of an acyclic containment all of which the root*)
(* reaches: of the assets that every closed group without the root leaves   *)
(* out, one contains none of the others.                                    *)
LEMMA RootIsUncontained ==
    ASSUME contains \subseteq Assets \X Assets, Acyclic, RootReachesAll
    PROVE  Containers(Root) = {}
<1> DEFINE Below == {S \in SUBSET Assets : Root \notin S /\ IsClosed(S)}
           U == UNION Below
           W == Assets \ U
<1>1. U \subseteq Assets /\ Root \notin U  OBVIOUS
<1>2. \A a \in U : Children(a) \subseteq U
  <2>1. SUFFICES ASSUME NEW a \in U PROVE Children(a) \subseteq U  OBVIOUS
  <2>2. PICK S \in Below : a \in S  OBVIOUS
  <2>3. Children(a) \subseteq S  BY <2>2 DEF IsClosed
  <2>4. QED  BY <2>3
<1>3. W \in (SUBSET Assets) \ {{}}  BY <1>1, CheckAssumption
<1>4. PICK a \in W : Children(a) \cap W = {}  BY <1>3 DEF Acyclic
<1>5. Children(a) \subseteq U  BY <1>4, ChildrenAreAssets
<1>6. a = Root
  <2>1. SUFFICES ASSUME a # Root PROVE FALSE  OBVIOUS
  <2>2. U \cup {a} \in SUBSET Assets /\ Root \notin U \cup {a}  BY <1>1, <1>4, <2>1
  <2>3. IsClosed(U \cup {a})  BY <1>2, <1>5 DEF IsClosed
  <2>4. U \cup {a} \in Below  BY <2>2, <2>3
  <2>5. a \in U  BY <2>4
  <2>6. QED  BY <1>4, <2>5
<1> HIDE DEF Below, U, W
<1>7. U \cup {Root} \in SUBSET Assets  BY <1>1, CheckAssumption
<1>8. \A b \in U \cup {Root} : Children(b) \subseteq U \cup {Root}  BY <1>2, <1>5, <1>6
<1>9. U \cup {Root} = Assets  BY <1>7, <1>8 DEF RootReachesAll
<1>10. ASSUME NEW p \in Containers(Root) PROVE FALSE
  <2>1. p \in Assets /\ Root \in Children(p)  BY CheckAssumption DEF Containers, Children
  <2>2. Root \in U  BY <1>2, <1>5, <1>6, <1>9, <2>1
  <2>3. QED  BY <1>1, <2>2
<1>11. QED  BY <1>10

(* An asset that the station does not reach in an acyclic containment hangs,*)
(* directly or not, below one that nothing contains (digital_twin.py:226).  *)
LEMMA NothingHangsLoose ==
    ASSUME contains \subseteq Assets \X Assets, Uncontained = {},
           \A a \in Assets : Children(a) # {} => a \in visited, IsSettled(visited)
    PROVE  RootReachesAll
<1>1. SUFFICES ASSUME NEW S \in SUBSET Assets, Root \in S, \A a \in S : Children(a) \subseteq S,
                      S # Assets
               PROVE  FALSE
  BY DEF RootReachesAll
<1> DEFINE T == {a \in Assets \ S : Children(a) # {}}
<1>2. ASSUME NEW a \in Assets \ S PROVE Containers(a) \cap T # {}
  <2>1. Containers(a) # {}  BY <1>1 DEF Uncontained
  <2>2. PICK b \in Assets : a \in Children(b)  BY <2>1 DEF Containers, Children
  <2>3. b \in T  BY <1>1, <2>2
  <2>4. b \in Containers(a)  BY <2>2 DEF Containers, Children
  <2>5. QED  BY <2>3, <2>4
<1>3. T # {}  BY <1>1, <1>2
<1>4. T \subseteq visited  OBVIOUS
<1>5. \A a \in T : Containers(a) \cap T # {}  BY <1>2
<1> HIDE DEF T
<1>6. QED  BY <1>3, <1>4, <1>5 DEF IsSettled

(* The verdict follows from the end of the two searches                     *)
(* (energy_platform.py:166-175, digital_twin.py:226-231).                   *)
LEMMA CheckInvImpliesVerdict == CheckInv => VerdictIsRight
<1> SUFFICES ASSUME CheckInv, phase = "done"
             PROVE  /\ "energy" \in valid <=>
                        /\ Acyclic /\ RootReachesAll /\ ~doubled
                        /\ Containers(Root) = {}
                        /\ \A a, b, c \in Assets : {a, b} \subseteq Containers(c) => a = b
                    /\ "twin" \in valid <=> Acyclic
                    /\ "twin" \in valid /\ Uncontained = {} => RootReachesAll
  BY DEF VerdictIsRight
<1>0. contains \subseteq Assets \X Assets  BY CheckFacts
<1>1. ("twin" \in valid <=> TwinAccepts) /\ ("energy" \in valid <=> EnergyAccepts(doubled))
  BY DEF CheckInv
<1>2. /\ TwinAccepts <=> Acyclic
      /\ Acyclic => \A a \in Assets : Children(a) # {} => a \in visited
      /\ Acyclic => IsSettled(visited)
  BY SearchDecides
<1>3. RootReachesAll <=> Assets \ (reached \cup {Root}) = {}  BY WorklistDecides
<1>4. Acyclic /\ RootReachesAll => Containers(Root) = {}  BY <1>0, RootIsUncontained
<1>5. Acyclic /\ Uncontained = {} => RootReachesAll  BY <1>0, <1>2, NothingHangsLoose
<1>6. QED  BY <1>1, <1>2, <1>3, <1>4, <1>5 DEF EnergyAccepts

(* The searches stay within their types (energy_platform.py:854-882).       *)
THEOREM CheckTypeCorrect == CheckSpec => []CheckTypeOK
<1>1. CheckInv => CheckTypeOK  BY DEF CheckInv
<1>2. QED  BY <1>1, CheckInitInv, CheckNextInv, PTL DEF CheckSpec

(* Whatever the assets and whatever the order of the relationships: an      *)
(* energy topology is valid exactly when it is a tree under the root, a twin*)
(* topology when it is acyclic (energy_platform.py:166-175, 854-882,        *)
(* digital_twin.py:226-231, 1078-1096).                                     *)
THEOREM VerdictIsRightHolds == CheckSpec => []VerdictIsRight
BY CheckInitInv, CheckNextInv, CheckInvImpliesVerdict, PTL DEF CheckSpec
=============================================================================
