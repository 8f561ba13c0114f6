------------------------------ MODULE Assurance ------------------------------
(* Shadow-run evidence and the live-market gate it feeds,                    *)
(* operations_assurance.py and its cron route (app.py:647-657). Time is in   *)
(* UTC days; a fault of a day stands for whatever of the day's counts fails  *)
(* its check. Some rows that are counted are never rewritten: dead letters,  *)
(* and cycles that never complete. The others are: a late receipt rewrites a *)
(* failed dispatch with its date (repository.py:1385-1390), an order's       *)
(* mismatch is marked matched (vpp_repository.py:491-494), a dispute is      *)
(* reviewed, a cycle that still runs completes.                              *)
EXTENDS Integers

CONSTANTS
    CronRuns,       \* overlapping calls of the cron route
    RequiredDays,   \* 30
    LastDay         \* bound on the days of a behaviour

ASSUME AssuranceAssumption == RequiredDays \in Nat \ {0} /\ LastDay \in Nat

VARIABLES
    today,
    fault,          \* day -> "passing" while all it shows may yet be cleared
    incidents,      \* critical rows of operational_incidents
    shadow,         \* day -> its row of shadow_run_evidence
    cronDay,        \* cron run -> the day it records, or NoDay
    readyOn         \* the day of the last readiness answer if it was ready

assuranceVars == <<today, fault, incidents, shadow, cronDay, readyOn>>

Days == 0 .. LastDay
NoDay == -1
Unresolved == LastDay + 1     \* resolved_at IS NULL
Touches(incident, day) == incident.first <= day /\ day <= incident.resolved

AssuranceTypeOK ==
    /\ today \in Days
    /\ fault \in [Days -> {"none", "passing", "lasting"}]
    /\ incidents \subseteq [first: Days, resolved: Days \cup {Unresolved}]
    /\ shadow \in [Days -> {"none", "qualified", "unqualified"}]
    /\ cronDay \in [CronRuns -> Days \cup {NoDay}]
    /\ readyOn \in Days \cup {NoDay}

AssuranceInit ==
    /\ today = 0
    /\ fault = [d \in Days |-> "none"]
    /\ incidents = {}
    /\ shadow = [d \in Days |-> "none"]
    /\ cronDay = [c \in CronRuns |-> NoDay]
    /\ readyOn = NoDay

DayEnds ==
    /\ today < LastDay
    /\ today' = today + 1
    /\ UNCHANGED <<fault, incidents, shadow, cronDay, readyOn>>

(* A dead letter is dated by the day it died, a cycle by its start.         *)
LastingFault ==
    /\ fault' = [fault EXCEPT ![today] = "lasting"]
    /\ UNCHANGED <<today, incidents, shadow, cronDay, readyOn>>

(* A dispatch fails today; an order or a settlement batch of an earlier day *)
(* can turn out to be a mismatch or be disputed today.                      *)
FaultShows(d) ==
    /\ d <= today /\ fault[d] = "none"
    /\ fault' = [fault EXCEPT ![d] = "passing"]
    /\ UNCHANGED <<today, incidents, shadow, cronDay, readyOn>>

FaultClears(d) ==
    /\ fault[d] = "passing"
    /\ fault' = [fault EXCEPT ![d] = "none"]
    /\ UNCHANGED <<today, incidents, shadow, cronDay, readyOn>>

(* A check that is not compliant opens one incident or refreshes the open   *)
(* one, whose first detection stays.                                        *)
RunAssuranceChecks ==
    /\ incidents' = IF \E i \in incidents : i.resolved = Unresolved THEN incidents
                    ELSE incidents \cup {[first |-> today, resolved |-> Unresolved]}
    /\ UNCHANGED <<today, fault, shadow, cronDay, readyOn>>

(* No code resolves an incident; an operator does, in the database.         *)
IncidentResolved ==
    /\ \E i \in incidents :
        /\ i.resolved = Unresolved
        /\ incidents' = (incidents \ {i}) \cup {[i EXCEPT !.resolved = today]}
    /\ UNCHANGED <<today, fault, shadow, cronDay, readyOn>>

(* The cron route records yesterday, and only yesterday.                    *)
CronLooks(c) ==
    /\ cronDay[c] = NoDay
    /\ today > 0
    /\ shadow[today - 1] = "none"       \* otherwise the stored row is the answer
    /\ cronDay' = [cronDay EXCEPT ![c] = today - 1]
    /\ UNCHANGED <<today, fault, incidents, shadow, readyOn>>

(* Only the incidents that are still open count.                            *)
CriticalNow(d) == \E i \in incidents : i.first <= d /\ i.resolved = Unresolved

CriticalOn(d) == \E i \in incidents : Touches(i, d)

(* The first row of a day stays, by its unique key and by its trigger.      *)
RecordShadowDay(c) ==
    LET d == cronDay[c]
    IN  /\ d # NoDay
        /\ shadow' = IF shadow[d] # "none" THEN shadow      \* a unique violation
                     ELSE [shadow EXCEPT ![d] =
                            IF fault[d] # "none" \/ CriticalOn(d)
                            THEN "unqualified" ELSE "qualified"]
        /\ cronDay' = [cronDay EXCEPT ![c] = NoDay]
        /\ UNCHANGED <<today, fault, incidents, readyOn>>

CronStops(c) ==
    /\ cronDay[c] # NoDay
    /\ cronDay' = [cronDay EXCEPT ![c] = NoDay]
    /\ UNCHANGED <<today, fault, incidents, shadow, readyOn>>

(* Whether the market connection passes its checks is an input.             *)
LiveMarketReadiness(connected) ==
    /\ readyOn' = IF connected /\ \A d \in today - RequiredDays .. today - 1 :
                                    d >= 0 /\ shadow[d] = "qualified"
                  THEN today ELSE NoDay
    /\ UNCHANGED <<today, fault, incidents, shadow, cronDay>>

AssuranceNext ==
    \/ DayEnds \/ LastingFault \/ RunAssuranceChecks \/ IncidentResolved
    \/ \E connected \in BOOLEAN : LiveMarketReadiness(connected)
    \/ \E d \in Days : FaultShows(d) \/ FaultClears(d)
    \/ \E c \in CronRuns : CronLooks(c) \/ RecordShadowDay(c) \/ CronStops(c)

AssuranceSpec == AssuranceInit /\ [][AssuranceNext]_assuranceVars

-----------------------------------------------------------------------------
(* Whenever the gate said ready, each of the days before had passed and left*)
(* its row, no critical incident had touched it, however soon it was        *)
(* resolved and however late the row was written, and no dead letter or     *)
(* cycle that never completed is dated on it. Of faults that can be cleared *)
(* it says nothing: one that was cleared before the cron read the counts, or*)
(* that showed after it, leaves a qualified row                             *)
(* (operations_assurance.py:18-71, 149-180).                                *)
ReadyIsEarned ==
    readyOn # NoDay =>
        \A d \in readyOn - RequiredDays .. readyOn - 1 :
            /\ d \in Days /\ d < today /\ shadow[d] = "qualified"
            /\ \A i \in incidents : ~Touches(i, d)
            /\ fault[d] # "lasting"
=============================================================================
