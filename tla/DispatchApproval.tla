-------------------------- MODULE DispatchApproval --------------------------
(* Dispatch recommendations and their approval: generated again and again   *)
(* (repository.py:469-522), set by PATCH (525-569), put up for approval     *)
(* (1199-1228) and reviewed (1231-1309; app.py:1480-1525, 1681-1728). A     *)
(* review reads the command it will enqueue, then locks the approval; the   *)
(* API processes run reviews, generations and PATCHes side by side.         *)
EXTENDS Integers, FiniteSets

CONSTANTS
    Recommendations,
    Reviewers,      \* API processes with a review under way
    MaxPayloads,    \* bound on the generations of a recommendation
    MaxTasks        \* bound on the tasks of a behaviour

ASSUME DispatchAssumption == MaxPayloads \in Nat /\ MaxTasks \in Nat

VARIABLES
    payload,        \* recommendation -> generation of its command, 0: none yet
    recStatus,      \* dispatch_recommendations.status
    approval,       \* dispatch_approvals.status, or "none"
    patched,        \* a PATCH has set recStatus since the last review
    dispatchTasks,  \* dispatch.execute tasks: [rec, payload, nth]
    review          \* process -> none or [rec, approved, payload]

dispatchVars == <<payload, recStatus, approval, patched, dispatchTasks, review>>

Statuses == {"pending", "approved", "rejected", "executed", "failed", "rolled_back"}
NoReview == [rec |-> "none"]
Review == [rec: Recommendations, approved: BOOLEAN, payload: 1 .. MaxPayloads]
DispatchTask == [rec: Recommendations, payload: 1 .. MaxPayloads, nth: 1 .. MaxTasks]
Generated(r) == payload[r] > 0

DispatchTypeOK ==
    /\ payload \in [Recommendations -> 0 .. MaxPayloads]
    /\ recStatus \in [Recommendations -> Statuses]
    /\ approval \in [Recommendations -> {"none", "pending", "approved", "rejected"}]
    /\ patched \in [Recommendations -> BOOLEAN]
    /\ dispatchTasks \subseteq DispatchTask
    /\ review \in [Reviewers -> Review \cup {NoReview}]

DispatchInit ==
    /\ payload = [r \in Recommendations |-> 0]
    /\ recStatus = [r \in Recommendations |-> "pending"]
    /\ approval = [r \in Recommendations |-> "none"]
    /\ patched = [r \in Recommendations |-> FALSE]
    /\ dispatchTasks = {}
    /\ review = [v \in Reviewers |-> NoReview]

(* A generation that starts the recommendation afresh.                      *)
PersistAfresh(r) ==
    /\ payload[r] < MaxPayloads
    /\ payload' = [payload EXCEPT ![r] = @ + 1]
    /\ recStatus' = [recStatus EXCEPT ![r] = "pending"]
    /\ UNCHANGED <<approval, patched, dispatchTasks, review>>

(* The upsert replaces the command and leaves the status.                   *)
PersistDispatchRecommendation(r) ==
    /\ payload[r] < MaxPayloads
    /\ payload' = [payload EXCEPT ![r] = @ + 1]
    /\ UNCHANGED <<recStatus, approval, patched, dispatchTasks, review>>

UpdateDispatchStatus(r, status_) ==
    /\ Generated(r)
    /\ recStatus' = [recStatus EXCEPT ![r] = status_]
    /\ patched' = [patched EXCEPT ![r] = TRUE]
    /\ UNCHANGED <<payload, approval, dispatchTasks, review>>

(* A second request changes the reason only.                                *)
RequestDispatchApproval(r) ==
    /\ Generated(r)
    /\ approval' = [approval EXCEPT ![r] = IF @ = "none" THEN "pending" ELSE @]
    /\ UNCHANGED <<payload, recStatus, patched, dispatchTasks, review>>

ReadForReview(v, r, approved_) ==
    /\ review[v] = NoReview
    /\ Generated(r)
    /\ review' = [review EXCEPT
            ![v] = [rec |-> r, approved |-> approved_, payload |-> payload[r]]]
    /\ UNCHANGED <<payload, recStatus, approval, patched, dispatchTasks>>

(* The present status is not asked for: a recommendation may be approved    *)
(* twice, and rejected after its task was enqueued.                         *)
CommitReview(v) ==
    LET t == review[v]
        decision == IF t.approved THEN "approved" ELSE "rejected"
        nth == Cardinality(dispatchTasks) + 1
    IN  /\ t # NoReview
        /\ t.approved => nth <= MaxTasks
        /\ approval' = [approval EXCEPT ![t.rec] = decision]
        /\ recStatus' = [recStatus EXCEPT ![t.rec] = decision]
        /\ patched' = [patched EXCEPT ![t.rec] = FALSE]
        /\ dispatchTasks' = IF t.approved
                THEN dispatchTasks \cup {[rec |-> t.rec, payload |-> t.payload, nth |-> nth]}
                ELSE dispatchTasks
        /\ review' = [review EXCEPT ![v] = NoReview]
        /\ UNCHANGED payload

(* Also the unique index on recommendation_id, when two first reviews both  *)
(* found no approval to update.                                             *)
ReviewFails(v) ==
    /\ review[v] # NoReview
    /\ review' = [review EXCEPT ![v] = NoReview]
    /\ UNCHANGED <<payload, recStatus, approval, patched, dispatchTasks>>

DispatchNext ==
    \/ \E r \in Recommendations :
        \/ PersistDispatchRecommendation(r) \/ RequestDispatchApproval(r)
        \/ \E s \in Statuses : UpdateDispatchStatus(r, s)
        \/ \E v \in Reviewers, approved \in BOOLEAN : ReadForReview(v, r, approved)
    \/ \E v \in Reviewers : CommitReview(v) \/ ReviewFails(v)

DispatchSpec == DispatchInit /\ [][DispatchNext]_dispatchVars

-----------------------------------------------------------------------------
(* Until somebody PATCHes it, a recommendation shows the decision of its    *)
(* approval, through later generations and requests, and an approved one    *)
(* has a task, whose command is no newer than the recommendation's          *)
(* (repository.py:470, 485-497, 1269-1300).                                 *)
DecisionsAgree ==
    \A r \in Recommendations :
        approval[r] \in {"approved", "rejected"} /\ ~patched[r] =>
            /\ recStatus[r] = approval[r]
            /\ approval[r] = "approved" =>
                \E t \in dispatchTasks : t.rec = r /\ t.payload <= payload[r]
=============================================================================
