----------------------------- MODULE RecordProofs -----------------------------
(* What the records of the control plane promise, for any number of         *)
(* processes, requests, technicians, days and users: reads see a process's  *)
(* own writes, answers are evidence, maintenance is closed once, readiness  *)
(* is earned, sessions end with their password.                             *)
EXTENDS RepositoryCache, EvidenceStore, TwinMaintenance, Assurance, Accounts,
        FiniteSetTheorems, TLAPS

(* A set whose members are all the same has one at most (the counts of      *)
(* digital_twin_repository.py:484-595 and repository.py:658-692).           *)
LEMMA AtMostOne ==
    ASSUME NEW S, \A x, y \in S : x = y
    PROVE  Cardinality(S) <= 1
<1>1. CASE S = {}  BY <1>1, FS_EmptySet
<1>2. CASE S # {}
  <2>1. PICK x \in S : TRUE  BY <1>2
  <2>2. S = {x}  BY <2>1
  <2>3. Cardinality(S) = 1  BY <2>2, FS_Singleton
  <2>4. QED  BY <2>3
<1>3. QED  BY <1>1, <1>2

-----------------------------------------------------------------------------
(* EvidenceStore. Only an answered request has an answer, and what was asked*)
(* or told is an input.                                                     *)
RequestsTell ==
    \A q \in Requests :
        /\ request[q].at # "idle" => request[q].input \in Inputs
        /\ answer[q].of # "none" => request[q].at = "answered" /\ answer[q].input \in Inputs

LedgerInv == LedgerTypeOK /\ RequestsTell /\ AnswerIsEvidence

LEMMA LedgerInitInv == LedgerInit => LedgerInv
<1> SUFFICES ASSUME LedgerInit PROVE LedgerInv  OBVIOUS
<1>1. NoRequest \in [at: Stages, key: IdempotencyKeys, input: Inputs \cup {NoInput}]
  <2>1. (CHOOSE k \in IdempotencyKeys : TRUE) \in IdempotencyKeys  BY LedgerAssumption
  <2>2. QED  BY <2>1 DEF NoRequest, Stages
<1>2. NoAnswer \in [of: Ledgers \cup {"none"}, input: Inputs \cup {NoInput}, replayed: BOOLEAN]
  BY DEF NoAnswer
<1>3. LedgerTypeOK  BY <1>1, <1>2 DEF LedgerInit, LedgerTypeOK
<1>4. \A q \in Requests : request[q].at = "idle" /\ answer[q].of = "none"
  BY DEF LedgerInit, NoRequest, NoAnswer
<1>5. QED  BY <1>3, <1>4 DEF LedgerInit, LedgerInv, RequestsTell, AnswerIsEvidence, AnswersAreKept,
                              OneRowPerKey, FirstStays

(* A request that moves on unanswered (advanced_ems_repository.py:12-47).   *)
LEMMA MoveKeepsInv ==
    ASSUME LedgerInv, NEW q \in Requests, request[q].at # "answered",
           NEW r \in [at: Stages, key: IdempotencyKeys, input: Inputs \cup {NoInput}],
           r.input \in Inputs, request' = [request EXCEPT ![q] = r],
           UNCHANGED <<ledger, answer>>
    PROVE  LedgerInv'
<1>0. LedgerTypeOK /\ RequestsTell /\ AnswerIsEvidence  BY DEF LedgerInv
<1>1. LedgerTypeOK'  BY <1>0 DEF LedgerTypeOK
<1>2. \A p \in Requests : request'[p] = IF p = q THEN r ELSE request[p]
  BY <1>0 DEF LedgerTypeOK
<1>3. answer[q].of = "none"  BY <1>0 DEF RequestsTell
<1>4. RequestsTell'  BY <1>0, <1>2, <1>3 DEF RequestsTell
<1>5. AnswerIsEvidence'
  BY <1>0, <1>2, <1>3 DEF AnswerIsEvidence, AnswersAreKept, OneRowPerKey, FirstStays
<1>6. QED  BY <1>1, <1>4, <1>5 DEF LedgerInv

(* An answer is true when it is given and stays true: no row of a ledger    *)
(* ever changes or goes (advanced_ems_repository.py:48-91,                  *)
(* energy_platform_repository.py:236-286).                                  *)
LEMMA ReplyKeepsInv ==
    ASSUME LedgerInv, NEW q \in Requests, request[q].at \in {"look", "insert"},
           NEW l \in Ledgers, NEW i \in Inputs, NEW replayed \in BOOLEAN,
           Reply(q, l, i, replayed),
           ledger' \in [Ledgers -> [IdempotencyKeys -> SUBSET Inputs]],
           \A m \in Ledgers, k \in IdempotencyKeys : ledger[m][k] \subseteq ledger'[m][k],
           OneRowPerKey',
           l = "ems" => /\ i \in ledger'[l][request[q].key]
                        /\ i.hashed = request[q].input.hashed
                        /\ ~replayed => i = request[q].input,
           l \in FirstStays /\ ~replayed => i \in ledger'[l][request[q].key]
    PROVE  LedgerInv'
<1>0. LedgerTypeOK /\ RequestsTell /\ AnswerIsEvidence  BY DEF LedgerInv
<1> DEFINE told == [of |-> l, input |-> i, replayed |-> replayed]
<1>1. request' = [request EXCEPT ![q].at = "answered"] /\ answer' = [answer EXCEPT ![q] = told]
  BY DEF Reply
<1>2. /\ told \in [of: Ledgers \cup {"none"}, input: Inputs \cup {NoInput}, replayed: BOOLEAN]
      /\ told.of = l /\ told.input = i /\ told.replayed = replayed
  OBVIOUS
<1> HIDE DEF told
<1>3. LedgerTypeOK'
  <2>1. "answered" \in Stages  BY DEF Stages
  <2>2. request' \in [Requests -> [at: Stages, key: IdempotencyKeys, input: Inputs \cup {NoInput}]]
    <3>1. request[q] \in [at: Stages, key: IdempotencyKeys, input: Inputs \cup {NoInput}]
      BY <1>0 DEF LedgerTypeOK
    <3>2. [request[q] EXCEPT !.at = "answered"]
            \in [at: Stages, key: IdempotencyKeys, input: Inputs \cup {NoInput}]
      BY <2>1, <3>1
    <3>3. request' = [request EXCEPT ![q] = [request[q] EXCEPT !.at = "answered"]]
      BY <1>0, <1>1 DEF LedgerTypeOK
    <3>4. QED  BY <1>0, <3>2, <3>3 DEF LedgerTypeOK
  <2>3. answer' \in [Requests -> [of: Ledgers \cup {"none"}, input: Inputs \cup {NoInput},
                                  replayed: BOOLEAN]]
    BY <1>0, <1>1, <1>2 DEF LedgerTypeOK
  <2>4. QED  BY <2>2, <2>3 DEF LedgerTypeOK
<1>4. /\ \A p \in Requests : p # q => request'[p] = request[p] /\ answer'[p] = answer[p]
      /\ request'[q].at = "answered" /\ request'[q].key = request[q].key
      /\ request'[q].input = request[q].input /\ answer'[q] = told
  BY <1>0, <1>1 DEF LedgerTypeOK
<1>5. RequestsTell'
  BY <1>0, <1>2, <1>4 DEF RequestsTell
<1>6. AnswersAreKept'
  <2> SUFFICES ASSUME NEW p \in Requests
               PROVE  /\ answer'[p].of = "ems" =>
                            /\ answer'[p].input \in ledger'["ems"][request'[p].key]
                            /\ answer'[p].input.hashed = request'[p].input.hashed
                            /\ ~answer'[p].replayed => answer'[p].input = request'[p].input
                      /\ answer'[p].of \in FirstStays /\ ~answer'[p].replayed =>
                            answer'[p].input \in ledger'[answer'[p].of][request'[p].key]
    BY DEF AnswersAreKept
  <2>1. CASE p = q  BY <1>2, <1>4, <2>1
  <2>2. CASE p # q
    <3>1. request'[p] = request[p] /\ answer'[p] = answer[p]  BY <1>4, <2>2
    <3>2. request[p].key \in IdempotencyKeys  BY <1>0 DEF LedgerTypeOK
    <3>3. /\ answer[p].of = "ems" =>
                /\ answer[p].input \in ledger["ems"][request[p].key]
                /\ answer[p].input.hashed = request[p].input.hashed
                /\ ~answer[p].replayed => answer[p].input = request[p].input
          /\ answer[p].of \in FirstStays /\ ~answer[p].replayed =>
                answer[p].input \in ledger[answer[p].of][request[p].key]
      BY <1>0 DEF AnswerIsEvidence, AnswersAreKept
    <3>4. QED  BY <3>1, <3>2, <3>3 DEF Ledgers, FirstStays
  <2>3. QED  BY <2>1, <2>2
<1>7. QED  BY <1>3, <1>5, <1>6 DEF LedgerInv, AnswerIsEvidence

(* A new row is the first one under its key, or evidence without a station  *)
(* (migrations/015_digital_twin.sql:252).                                   *)
LEMMA InsertedFacts ==
    ASSUME LedgerInv, NEW l \in Ledgers, NEW k \in IdempotencyKeys, NEW i \in Inputs,
           Inserted(l, k, i), Stored(l, k) => l = "qualification" /\ k \in Unscoped
    PROVE  /\ ledger' \in [Ledgers -> [IdempotencyKeys -> SUBSET Inputs]]
           /\ \A m \in Ledgers, n \in IdempotencyKeys : ledger[m][n] \subseteq ledger'[m][n]
           /\ i \in ledger'[l][k]
           /\ OneRowPerKey'
<1>0. LedgerTypeOK /\ OneRowPerKey  BY DEF LedgerInv, AnswerIsEvidence
<1>1. \A m \in Ledgers, n \in IdempotencyKeys :
        ledger'[m][n] = IF m = l /\ n = k THEN ledger[l][k] \cup {i} ELSE ledger[m][n]
  BY <1>0 DEF Inserted, LedgerTypeOK
<1>2. ledger' \in [Ledgers -> [IdempotencyKeys -> SUBSET Inputs]]
  BY <1>0 DEF Inserted, LedgerTypeOK
<1>3. OneRowPerKey'  BY <1>0, <1>1 DEF OneRowPerKey, Stored
<1>4. QED  BY <1>1, <1>2, <1>3

LEMMA LedgerStepsKeepInv == LedgerInv /\ [LedgerNext]_ledgerVars => LedgerInv'
<1> SUFFICES ASSUME LedgerInv, [LedgerNext]_ledgerVars PROVE LedgerInv'  OBVIOUS
<1>0. LedgerTypeOK /\ RequestsTell /\ AnswerIsEvidence  BY DEF LedgerInv
<1>t. \A q \in Requests :
        /\ request[q].key \in IdempotencyKeys
        /\ request[q].at \in {"look", "insert"} => request[q].input \in Inputs
        /\ \A at \in Stages : [request[q] EXCEPT !.at = at]
                \in [at: Stages, key: IdempotencyKeys, input: Inputs \cup {NoInput}]
  BY <1>0 DEF LedgerTypeOK, RequestsTell
<1>1. ASSUME NEW q \in Requests, NEW k \in IdempotencyKeys, NEW i \in Inputs, Compute(q, k, i)
      PROVE  LedgerInv'
  <2> DEFINE r == [at |-> "look", key |-> k, input |-> i]
  <2>1. r \in [at: Stages, key: IdempotencyKeys, input: Inputs \cup {NoInput}] /\ r.input \in Inputs
    BY DEF Stages
  <2>2. request[q].at # "answered" /\ request' = [request EXCEPT ![q] = r]
        /\ UNCHANGED <<ledger, answer>>
    BY <1>1 DEF Compute
  <2> HIDE DEF r
  <2>3. QED  BY <2>1, <2>2, MoveKeepsInv
<1>m. ASSUME NEW q \in Requests, NEW at \in Stages, request[q].at \in {"look", "insert"},
             request' = [request EXCEPT ![q].at = at], UNCHANGED <<ledger, answer>>
      PROVE  LedgerInv'
  <2> DEFINE r == [request[q] EXCEPT !.at = at]
  <2>1. r \in [at: Stages, key: IdempotencyKeys, input: Inputs \cup {NoInput}]
        /\ r.input = request[q].input /\ request[q].input \in Inputs
    BY <1>0, <1>m, <1>t DEF LedgerTypeOK
  <2>2. request' = [request EXCEPT ![q] = r]  BY <1>m
  <2> HIDE DEF r
  <2>3. QED  BY <1>m, <2>1, <2>2, MoveKeepsInv
<1>2. ASSUME NEW q \in Requests, EmsLooks(q)
      PROVE  LedgerInv'
  <2>1. request[q].at = "look" /\ UNCHANGED ledger  BY <1>2 DEF EmsLooks
  <2>2. CASE request' = [request EXCEPT ![q].at = "insert"] /\ UNCHANGED answer
    BY <1>m, <2>1, <2>2 DEF Stages
  <2>3. CASE request' = [request EXCEPT ![q].at = "conflict"] /\ UNCHANGED answer
    BY <1>m, <2>1, <2>3 DEF Stages
  <2>4. ASSUME NEW row \in ledger["ems"][request[q].key],
               row.hashed = request[q].input.hashed, Reply(q, "ems", row, TRUE)
        PROVE  LedgerInv'
    <3>1. row \in Inputs /\ "ems" \in Ledgers
      BY <1>0, <1>t DEF LedgerTypeOK, Ledgers
    <3>2. /\ ledger' \in [Ledgers -> [IdempotencyKeys -> SUBSET Inputs]]
          /\ OneRowPerKey' /\ row \in ledger'["ems"][request[q].key]
      BY <1>0, <2>1, <2>4 DEF LedgerTypeOK, AnswerIsEvidence, OneRowPerKey
    <3>3. "ems" \notin FirstStays  BY DEF FirstStays
    <3>4. QED  BY <2>1, <2>4, <3>1, <3>2, <3>3, ReplyKeepsInv
  <2>5. QED  BY <1>2, <2>2, <2>3, <2>4 DEF EmsLooks
<1>3. ASSUME NEW q \in Requests, EmsInserts(q)
      PROVE  LedgerInv'
  <2>1. request[q].at = "insert"  BY <1>3 DEF EmsInserts
  <2>2. CASE Stored("ems", request[q].key)
    BY <1>m, <1>3, <2>1, <2>2 DEF EmsInserts, Stages
  <2>3. CASE ~Stored("ems", request[q].key)
    <3>1. /\ Inserted("ems", request[q].key, request[q].input)
          /\ Reply(q, "ems", request[q].input, FALSE)
      BY <1>3, <2>3 DEF EmsInserts
    <3>2. request[q].input \in Inputs /\ request[q].key \in IdempotencyKeys
          /\ "ems" \in Ledgers /\ "ems" \notin FirstStays
      BY <1>t, <2>1 DEF Ledgers, FirstStays
    <3>3. /\ ledger' \in [Ledgers -> [IdempotencyKeys -> SUBSET Inputs]]
          /\ \A m \in Ledgers, n \in IdempotencyKeys : ledger[m][n] \subseteq ledger'[m][n]
          /\ request[q].input \in ledger'["ems"][request[q].key]
          /\ OneRowPerKey'
      BY <2>3, <3>1, <3>2, InsertedFacts
    <3>4. QED  BY <2>1, <3>1, <3>2, <3>3, ReplyKeepsInv
  <2>4. QED  BY <2>2, <2>3
<1>4. ASSUME NEW q \in Requests, NEW l \in FirstStays, NEW duplicate \in BOOLEAN,
             InsertUnless(q, l, duplicate),
             ~duplicate /\ Stored(l, request[q].key) =>
                l = "qualification" /\ request[q].key \in Unscoped
      PROVE  LedgerInv'
  <2>1. /\ request[q].at = "look"
        /\ duplicate => ledger' = ledger
        /\ ~duplicate => Inserted(l, request[q].key, request[q].input)
        /\ Reply(q, l, request[q].input, duplicate)
    BY <1>4 DEF InsertUnless
  <2>2. request[q].input \in Inputs /\ request[q].key \in IdempotencyKeys
        /\ l \in Ledgers /\ l # "ems"
    BY <1>t, <1>4, <2>1 DEF Ledgers, FirstStays
  <2>3. /\ ledger' \in [Ledgers -> [IdempotencyKeys -> SUBSET Inputs]]
        /\ \A m \in Ledgers, n \in IdempotencyKeys : ledger[m][n] \subseteq ledger'[m][n]
        /\ ~duplicate => request[q].input \in ledger'[l][request[q].key]
        /\ OneRowPerKey'
    <3>1. CASE duplicate
      BY <1>0, <2>1, <3>1 DEF LedgerTypeOK, AnswerIsEvidence, OneRowPerKey
    <3>2. CASE ~duplicate
      BY <1>4, <2>1, <2>2, <3>2, InsertedFacts
    <3>3. QED  BY <3>1, <3>2
  <2>4. QED  BY <2>1, <2>2, <2>3, ReplyKeepsInv
<1>5. CASE UNCHANGED ledgerVars
  BY <1>0, <1>5 DEF ledgerVars, LedgerInv, LedgerTypeOK, RequestsTell, AnswerIsEvidence,
                    AnswersAreKept, OneRowPerKey
<1>6. ASSUME NEW q \in Requests,
             EnergyPersists(q) \/ PersistSimulation(q) \/ RecordQualificationEvidence(q)
      PROVE  LedgerInv'
  <2>1. CASE EnergyPersists(q)
    BY <1>4, <2>1 DEF EnergyPersists, FirstStays, Stored
  <2>2. CASE PersistSimulation(q)
    BY <1>4, <2>2 DEF PersistSimulation, FirstStays, Stored
  <2>3. CASE RecordQualificationEvidence(q)
    BY <1>4, <2>3 DEF RecordQualificationEvidence, FirstStays, Stored
  <2>4. QED  BY <1>6, <2>1, <2>2, <2>3
<1>7. QED  BY <1>1, <1>2, <1>3, <1>5, <1>6 DEF LedgerNext

(* The ledger stays within its types (energy_platform_repository.py).       *)
THEOREM LedgerTypeCorrect == LedgerSpec => []LedgerTypeOK
<1>1. LedgerInv => LedgerTypeOK  BY DEF LedgerInv
<1>2. QED  BY <1>1, LedgerInitInv, LedgerStepsKeepInv, PTL DEF LedgerSpec

(* Whoever is answered holds the result the ledger keeps, however requests  *)
(* with one key interleave (advanced_ems_repository.py:38-60,               *)
(* app.py:690-770).                                                         *)
THEOREM AnswerIsEvidenceHolds == LedgerSpec => []AnswerIsEvidence
<1>1. LedgerInv => AnswerIsEvidence  BY DEF LedgerInv
<1>2. QED  BY <1>1, LedgerInitInv, LedgerStepsKeepInv, PTL DEF LedgerSpec

-----------------------------------------------------------------------------
(* TwinMaintenance. A transition under way holds the lock of its action, so *)
(* that it is still legal when it commits; one request has found no         *)
(* diagnostic, unless two overlapped (digital_twin_repository.py:484-595,   *)
(* 679-730).                                                                *)
Closed == {"completed", "cancelled"}
PatchesAreLegal ==
    \A t \in Technicians : patch[t].action # NoRow =>
        patch[t].target \in Transitions(actions[patch[t].action])
PatchesAreExclusive ==
    \A t, u \in Technicians : patch[t].action # NoRow /\ patch[t].action = patch[u].action => t = u
ClosingsTell ==
    \A a \in ActionIds :
        /\ \A t, u \in closings[a] : t = u
        /\ actions[a] \in Closed <=> closings[a] # {}
OneOpenAction == \A a, b \in OpenActions : a = b
OneDiagnostic ==
    overlapped \/ /\ \A d, e \in diagnostics : d = e
                  /\ \A i, j \in Ingests : ingest[i].at = "insert" /\ ingest[j].at = "insert" => i = j
                  /\ \A i \in Ingests : ingest[i].at = "insert" => diagnostics = {}

MaintenanceInv ==
    /\ MaintenanceTypeOK
    /\ PatchesAreLegal
    /\ PatchesAreExclusive
    /\ ClosingsTell
    /\ OneOpenAction
    /\ OneDiagnostic

LEMMA MaintenanceInvImplies == MaintenanceInv => ClosedOnce
<1> SUFFICES ASSUME MaintenanceInv PROVE ClosedOnce  OBVIOUS
<1>1. \A a \in ActionIds : Cardinality(closings[a]) <= 1
  BY AtMostOne DEF MaintenanceInv, ClosingsTell
<1>2. Cardinality(OpenActions) <= 1
  BY AtMostOne DEF MaintenanceInv, OneOpenAction
<1>3. Cardinality(diagnostics) <= 1 \/ overlapped
  BY AtMostOne DEF MaintenanceInv, OneDiagnostic
<1>4. QED
  BY <1>1, <1>2, <1>3 DEF MaintenanceInv, ClosingsTell, Closed, ClosedOnce

LEMMA MaintenanceInitInv == MaintenanceInit => MaintenanceInv
<1> SUFFICES ASSUME MaintenanceInit PROVE MaintenanceInv  OBVIOUS
<1>1. MaintenanceTypeOK
  BY DEF MaintenanceInit, MaintenanceTypeOK, NoPatch, ActionStatuses
<1>2. PatchesAreLegal /\ PatchesAreExclusive
  BY DEF MaintenanceInit, PatchesAreLegal, PatchesAreExclusive, NoPatch
<1>3. ClosingsTell /\ OneOpenAction /\ OneDiagnostic
  BY DEF MaintenanceInit, ClosingsTell, OneOpenAction, OneDiagnostic, Closed, OpenActions, OpenStatus
<1>4. QED  BY <1>1, <1>2, <1>3 DEF MaintenanceInv

(* What an ingest does (digital_twin_repository.py:484-595).                *)
LEMMA IngestKeepsInv ==
    ASSUME MaintenanceInv, NEW i \in Ingests,
           FindDiagnostic(i) \/ PersistDiagnostics(i) \/ IngestRollsBack(i)
    PROVE  MaintenanceInv'
<1>0. MaintenanceTypeOK /\ PatchesAreLegal /\ PatchesAreExclusive /\ ClosingsTell
      /\ OneOpenAction /\ OneDiagnostic
  BY DEF MaintenanceInv
<1>1. UNCHANGED <<closings, patch>>
  BY DEF FindDiagnostic, PersistDiagnostics, IngestRollsBack
<1>2. CASE FindDiagnostic(i)
  <2>1. UNCHANGED <<diagnostics, actions>> /\ overlapped' \in BOOLEAN
    BY <1>0, <1>2 DEF FindDiagnostic, MaintenanceTypeOK
  <2>2. ingest' \in [Ingests -> [at: {"idle", "insert", "refresh"}, row: DiagnosticIds \cup {NoRow}]]
    BY <1>0, <1>2 DEF FindDiagnostic, MaintenanceTypeOK
  <2>3. MaintenanceTypeOK'
    BY <1>0, <1>1, <2>1, <2>2 DEF MaintenanceTypeOK
  <2>4. PatchesAreLegal' /\ PatchesAreExclusive' /\ ClosingsTell' /\ OneOpenAction'
    BY <1>0, <1>1, <2>1 DEF PatchesAreLegal, PatchesAreExclusive, ClosingsTell, OneOpenAction,
       OpenActions
  <2>5. OneDiagnostic'
    <3>1. CASE /\ diagnostics = {} /\ ingest' = [ingest EXCEPT ![i].at = "insert"]
               /\ overlapped' = (overlapped \/ \E j \in Ingests : ingest[j].at = "insert")
      <4>1. \A j \in Ingests : j # i => ingest'[j] = ingest[j]
        BY <1>0, <3>1 DEF MaintenanceTypeOK
      <4>2. QED  BY <1>0, <2>1, <3>1, <4>1 DEF OneDiagnostic
    <3>2. CASE /\ UNCHANGED overlapped
               /\ \E d \in diagnostics : ingest' = [ingest EXCEPT ![i] = [at |-> "refresh", row |-> d]]
      <4>1. \A j \in Ingests : ingest'[j].at = "insert" => ingest[j].at = "insert"
        BY <1>0, <3>2 DEF MaintenanceTypeOK
      <4>2. QED  BY <1>0, <2>1, <3>2, <4>1 DEF OneDiagnostic
    <3>3. QED  BY <1>2, <3>1, <3>2 DEF FindDiagnostic
  <2>6. QED  BY <2>3, <2>4, <2>5 DEF MaintenanceInv
<1>3. CASE PersistDiagnostics(i)
  <2>1. /\ ingest[i].at # "idle" /\ RecommendMaintenance
        /\ ingest' = [ingest EXCEPT ![i] = [at |-> "idle", row |-> NoRow]]
        /\ overlapped' = overlapped
    BY <1>3 DEF PersistDiagnostics
  <2>2. \/ ingest[i].at = "insert" /\ \E d \in DiagnosticIds : diagnostics' = diagnostics \cup {d}
        \/ ingest[i].at # "insert" /\ diagnostics' = diagnostics
    BY <1>3 DEF PersistDiagnostics
  <2>3. \A j \in Ingests : ingest'[j].at = "insert" => j # i /\ ingest[j].at = "insert"
    BY <1>0, <2>1 DEF MaintenanceTypeOK
  <2>4. OneDiagnostic'  BY <1>0, <2>1, <2>2, <2>3 DEF OneDiagnostic
  <2>5. CASE UNCHANGED actions
    <3>1. MaintenanceTypeOK'
      BY <1>0, <1>1, <2>1, <2>2, <2>5 DEF MaintenanceTypeOK
    <3>2. PatchesAreLegal' /\ PatchesAreExclusive' /\ ClosingsTell' /\ OneOpenAction'
      BY <1>0, <1>1, <2>5 DEF PatchesAreLegal, PatchesAreExclusive, ClosingsTell, OneOpenAction,
         OpenActions
    <3>3. QED  BY <2>4, <3>1, <3>2 DEF MaintenanceInv
  <2>6. CASE OpenActions = {} /\ \E a \in ActionIds :
                actions[a] = "none" /\ actions' = [actions EXCEPT ![a] = "planned"]
    <3>1. PICK a \in ActionIds : actions[a] = "none" /\ actions' = [actions EXCEPT ![a] = "planned"]
      BY <2>6
    <3>2. \A b \in ActionIds : actions'[b] = IF b = a THEN "planned" ELSE actions[b]
      BY <1>0, <3>1 DEF MaintenanceTypeOK
    <3>3. MaintenanceTypeOK'
      BY <1>0, <1>1, <2>1, <2>2, <3>1 DEF MaintenanceTypeOK, ActionStatuses
    <3>4. PatchesAreLegal'
      <4> SUFFICES ASSUME NEW t \in Technicians, patch[t].action # NoRow
                   PROVE  patch[t].target \in Transitions(actions'[patch[t].action])
        BY <1>1 DEF PatchesAreLegal, Transitions
      <4>1. patch[t].action \in ActionIds  BY <1>0 DEF MaintenanceTypeOK
      <4>2. patch[t].target \in Transitions(actions[patch[t].action])
        BY <1>0 DEF PatchesAreLegal
      <4>3. patch[t].action # a  BY <3>1, <4>2 DEF Transitions
      <4>4. QED  BY <3>2, <4>1, <4>2, <4>3
    <3>5. PatchesAreExclusive'  BY <1>0, <1>1 DEF PatchesAreExclusive
    <3>6. ClosingsTell'
      BY <1>0, <1>1, <3>1, <3>2 DEF ClosingsTell, Closed
    <3>7. OneOpenAction'
      <4>1. \A b \in OpenActions' : b = a  BY <2>6, <3>2 DEF OpenActions
      <4>2. QED  BY <4>1 DEF OneOpenAction
    <3>8. QED  BY <2>4, <3>3, <3>4, <3>5, <3>6, <3>7 DEF MaintenanceInv
  <2>7. QED  BY <2>1, <2>5, <2>6 DEF RecommendMaintenance
<1>4. CASE IngestRollsBack(i)
  <2>1. /\ ingest' = [ingest EXCEPT ![i] = [at |-> "idle", row |-> NoRow]]
        /\ UNCHANGED <<diagnostics, overlapped, actions>>
    BY <1>4 DEF IngestRollsBack
  <2>2. \A j \in Ingests : ingest'[j].at = "insert" => ingest[j].at = "insert"
    BY <1>0, <2>1 DEF MaintenanceTypeOK
  <2>3. MaintenanceTypeOK'  BY <1>0, <1>1, <2>1 DEF MaintenanceTypeOK
  <2>4. OneDiagnostic'  BY <1>0, <2>1, <2>2 DEF OneDiagnostic
  <2>5. QED
    BY <1>0, <1>1, <2>1, <2>3, <2>4 DEF MaintenanceInv, PatchesAreLegal, PatchesAreExclusive,
       ClosingsTell, OneOpenAction, OpenActions
<1>5. QED  BY <1>2, <1>3, <1>4

(* What a technician's request does (digital_twin_repository.py:679-730).   *)
LEMMA TransitionKeepsInv ==
    ASSUME MaintenanceInv, NEW t \in Technicians,
           \/ \E a \in ActionIds, wanted \in ActionStatuses : ReadAction(t, a, wanted)
           \/ CommitTransition(t) \/ TransitionRollsBack(t)
    PROVE  MaintenanceInv'
<1>0. MaintenanceTypeOK /\ PatchesAreLegal /\ PatchesAreExclusive /\ ClosingsTell
      /\ OneOpenAction /\ OneDiagnostic
  BY DEF MaintenanceInv
<1>1. UNCHANGED <<diagnostics, ingest, overlapped>>
  BY DEF ReadAction, CommitTransition, TransitionRollsBack
<1>2. OneDiagnostic'  BY <1>0, <1>1 DEF OneDiagnostic
<1>3. ASSUME NEW a \in ActionIds, NEW wanted \in ActionStatuses, ReadAction(t, a, wanted)
      PROVE  MaintenanceInv'
  <2> DEFINE p == [action |-> a, target |-> wanted]
  <2>1. /\ patch' = [patch EXCEPT ![t] = p] /\ UNCHANGED <<actions, closings>>
        /\ \A u \in Technicians : patch[u].action # a
        /\ wanted \in Transitions(actions[a])
    BY <1>3 DEF ReadAction
  <2>2. p \in [action: ActionIds \cup {NoRow}, target: ActionStatuses]
        /\ p.action = a /\ p.target = wanted
    OBVIOUS
  <2> HIDE DEF p
  <2>3. MaintenanceTypeOK'  BY <1>0, <1>1, <2>1, <2>2 DEF MaintenanceTypeOK
  <2>4. \A u \in Technicians : patch'[u] = IF u = t THEN p ELSE patch[u]
    BY <1>0, <2>1 DEF MaintenanceTypeOK
  <2>5. PatchesAreLegal'  BY <1>0, <2>1, <2>2, <2>4 DEF PatchesAreLegal, Transitions
  <2>6. PatchesAreExclusive'  BY <1>0, <2>1, <2>2, <2>4 DEF PatchesAreExclusive
  <2>7. ClosingsTell' /\ OneOpenAction'
    BY <1>0, <2>1 DEF ClosingsTell, OneOpenAction, OpenActions
  <2>8. QED  BY <1>2, <2>3, <2>5, <2>6, <2>7 DEF MaintenanceInv
<1>n. NoPatch \in [action: ActionIds \cup {NoRow}, target: ActionStatuses] /\ NoPatch.action = NoRow
  BY DEF NoPatch, ActionStatuses
<1>4. CASE CommitTransition(t)
  <2>1. PICK a \in ActionIds : a = patch[t].action
    BY <1>0, <1>4 DEF CommitTransition, MaintenanceTypeOK
  <2>2. PICK wanted \in ActionStatuses : wanted = patch[t].target
    BY <1>0 DEF MaintenanceTypeOK
  <2>3. /\ a # NoRow /\ actions' = [actions EXCEPT ![a] = wanted]
        /\ closings' = IF wanted \in OpenStatus THEN closings
                       ELSE [closings EXCEPT ![a] = closings[a] \cup {t}]
        /\ patch' = [patch EXCEPT ![t] = NoPatch]
    BY <1>4, <2>1, <2>2 DEF CommitTransition
  <2>4. wanted \in Transitions(actions[a])
    BY <1>0, <2>1, <2>2, <2>3 DEF PatchesAreLegal
  <2>5. actions[a] \in OpenStatus /\ wanted # "planned" /\ closings[a] = {}
    <3>1. actions[a] \in OpenStatus /\ wanted # "planned"
      BY <2>4 DEF Transitions, OpenStatus
    <3>2. actions[a] \notin Closed  BY <3>1 DEF OpenStatus, Closed
    <3>3. QED  BY <1>0, <3>1, <3>2 DEF ClosingsTell
  <2>6. wanted \in Closed <=> wanted \notin OpenStatus
    BY <2>5 DEF ActionStatuses, Closed, OpenStatus
  <2>7. \A b \in ActionIds : /\ actions'[b] = IF b = a THEN wanted ELSE actions[b]
                             /\ b # a => closings'[b] = closings[b]
                             /\ closings'[a] = IF wanted \in OpenStatus THEN {} ELSE {t}
    BY <1>0, <2>3, <2>5 DEF MaintenanceTypeOK
  <2>8. \A u \in Technicians : patch'[u].action # NoRow =>
            u # t /\ patch'[u] = patch[u] /\ patch[u].action # a /\ patch[u].action \in ActionIds
    BY <1>0, <1>n, <2>1, <2>3 DEF MaintenanceTypeOK, PatchesAreExclusive
  <2>9. MaintenanceTypeOK'
    <3>1. actions' \in [ActionIds -> ActionStatuses \cup {"none"}]
      BY <1>0, <2>3 DEF MaintenanceTypeOK
    <3>2. closings' \in [ActionIds -> SUBSET Technicians]
      BY <1>0, <2>3 DEF MaintenanceTypeOK
    <3>3. patch' \in [Technicians -> [action: ActionIds \cup {NoRow}, target: ActionStatuses]]
      BY <1>0, <1>n, <2>3 DEF MaintenanceTypeOK
    <3>4. QED  BY <1>0, <1>1, <3>1, <3>2, <3>3 DEF MaintenanceTypeOK
  <2>10. PatchesAreLegal'
    <3> SUFFICES ASSUME NEW u \in Technicians, patch'[u].action # NoRow
                 PROVE  patch'[u].target \in Transitions(actions'[patch'[u].action])
      BY DEF PatchesAreLegal, Transitions
    <3>1. patch'[u] = patch[u] /\ patch[u].action # a /\ patch[u].action \in ActionIds
      BY <2>8
    <3>2. actions'[patch[u].action] = actions[patch[u].action]  BY <2>7, <3>1
    <3>3. patch[u].action # NoRow  BY <3>1
    <3>4. patch[u].target \in Transitions(actions[patch[u].action])
      BY <1>0, <3>3 DEF PatchesAreLegal
    <3>5. QED  BY <3>1, <3>2, <3>4
  <2>11. PatchesAreExclusive'
    BY <1>0, <1>n, <2>8 DEF PatchesAreExclusive
  <2>12. ClosingsTell'
    BY <1>0, <2>6, <2>7 DEF ClosingsTell
  <2>13. OneOpenAction'
    <3>1. OpenActions' \subseteq OpenActions  BY <2>5, <2>7 DEF OpenActions
    <3>2. QED  BY <1>0, <3>1 DEF OneOpenAction
  <2>14. QED  BY <1>2, <2>9, <2>10, <2>11, <2>12, <2>13 DEF MaintenanceInv
<1>5. CASE TransitionRollsBack(t)
  <2>1. patch' = [patch EXCEPT ![t] = NoPatch] /\ UNCHANGED <<actions, closings>>
    BY <1>5 DEF TransitionRollsBack
  <2>2. \A u \in Technicians : patch'[u] = IF u = t THEN NoPatch ELSE patch[u]
    BY <1>0, <2>1 DEF MaintenanceTypeOK
  <2>3. MaintenanceTypeOK'  BY <1>0, <1>1, <1>n, <2>1 DEF MaintenanceTypeOK
  <2>4. PatchesAreLegal'
    BY <1>0, <1>n, <2>1, <2>2 DEF PatchesAreLegal, Transitions
  <2>5. PatchesAreExclusive'
    BY <1>0, <1>n, <2>2 DEF PatchesAreExclusive
  <2>6. ClosingsTell' /\ OneOpenAction'
    BY <1>0, <2>1 DEF ClosingsTell, OneOpenAction, OpenActions
  <2>7. QED  BY <1>2, <2>3, <2>4, <2>5, <2>6 DEF MaintenanceInv
<1>6. QED  BY <1>3, <1>4, <1>5

LEMMA MaintenanceStepsKeepInv == MaintenanceInv /\ [MaintenanceNext]_maintenanceVars => MaintenanceInv'
<1> SUFFICES ASSUME MaintenanceInv, [MaintenanceNext]_maintenanceVars PROVE MaintenanceInv'
  OBVIOUS
<1>1. CASE UNCHANGED maintenanceVars
  BY <1>1 DEF maintenanceVars, MaintenanceInv, MaintenanceTypeOK, PatchesAreLegal,
     PatchesAreExclusive, ClosingsTell, OneOpenAction, OneDiagnostic, OpenActions, Transitions
<1>2. QED  BY <1>1, IngestKeepsInv, TransitionKeepsInv DEF MaintenanceNext

(* Diagnostics, actions and closings stay within their types                *)
(* (digital_twin_repository.py:484-730).                                    *)
THEOREM MaintenanceTypeCorrect == MaintenanceSpec => []MaintenanceTypeOK
<1>1. MaintenanceInv => MaintenanceTypeOK  BY DEF MaintenanceInv
<1>2. QED  BY <1>1, MaintenanceInitInv, MaintenanceStepsKeepInv, PTL DEF MaintenanceSpec

(* However ingests and technicians interleave: one closing, one open action,*)
(* one open diagnostic unless two first detections overlapped               *)
(* (digital_twin_repository.py:484-595, 679-730).                           *)
THEOREM ClosedOnceHolds == MaintenanceSpec => []ClosedOnce
<1>1. QED
  BY MaintenanceInitInv, MaintenanceStepsKeepInv, MaintenanceInvImplies, PTL DEF MaintenanceSpec

LEMMA StepMovesActions ==
    ASSUME MaintenanceInv, [MaintenanceNext]_maintenanceVars, NEW a \in ActionIds
    PROVE  \/ actions'[a] = actions[a]
           \/ actions[a] = "none" /\ actions'[a] = "planned"
           \/ actions'[a] \in Transitions(actions[a])
<1>0. MaintenanceTypeOK /\ PatchesAreLegal  BY DEF MaintenanceInv
<1>1. ASSUME NEW i \in Ingests, PersistDiagnostics(i)
      PROVE  actions'[a] = actions[a] \/ (actions[a] = "none" /\ actions'[a] = "planned")
  <2>1. RecommendMaintenance  BY <1>1 DEF PersistDiagnostics
  <2>2. QED  BY <1>0, <2>1 DEF RecommendMaintenance, MaintenanceTypeOK
<1>2. ASSUME NEW t \in Technicians, CommitTransition(t)
      PROVE  actions'[a] = actions[a] \/ actions'[a] \in Transitions(actions[a])
  <2>1. /\ patch[t].action # NoRow
        /\ actions' = [actions EXCEPT ![patch[t].action] = patch[t].target]
    BY <1>2 DEF CommitTransition
  <2>2. patch[t].target \in Transitions(actions[patch[t].action])
    BY <1>0, <2>1 DEF PatchesAreLegal
  <2>3. CASE patch[t].action = a
    <3>1. actions'[a] = patch[t].target  BY <1>0, <2>1, <2>3 DEF MaintenanceTypeOK
    <3>2. QED  BY <2>2, <2>3, <3>1
  <2>4. CASE patch[t].action # a  BY <1>0, <2>1, <2>4 DEF MaintenanceTypeOK
  <2>5. QED  BY <2>3, <2>4
<1>3. CASE \/ \E i \in Ingests : FindDiagnostic(i) \/ IngestRollsBack(i)
           \/ \E t \in Technicians :
                \/ \E b \in ActionIds, wanted \in ActionStatuses : ReadAction(t, b, wanted)
                \/ TransitionRollsBack(t)
           \/ UNCHANGED maintenanceVars
  BY <1>3 DEF FindDiagnostic, IngestRollsBack, ReadAction, TransitionRollsBack, maintenanceVars
<1>4. QED  BY <1>1, <1>2, <1>3 DEF MaintenanceNext

(* The lock taken when an action is read still justifies the transition     *)
(* when it is written: no step takes an action off its lifecycle            *)
(* (digital_twin_repository.py:541-580, 693-728).                           *)
THEOREM ActionsMoveLegallyHolds == MaintenanceSpec => ActionsMoveLegally
<1>1. MaintenanceInv /\ [MaintenanceNext]_maintenanceVars =>
        [\A a \in ActionIds :
            \/ actions'[a] = actions[a]
            \/ actions[a] = "none" /\ actions'[a] = "planned"
            \/ actions'[a] \in Transitions(actions[a])]_maintenanceVars
  BY StepMovesActions
<1>2. QED
  BY <1>1, MaintenanceInitInv, MaintenanceStepsKeepInv, PTL DEF MaintenanceSpec, ActionsMoveLegally

-----------------------------------------------------------------------------
(* Assurance. A qualified day is over and clean, and stays so: what comes   *)
(* later to last is dated on a later day, as a later incident is            *)
(* (operations_assurance.py:18-132).                                        *)
QualifiedIsClean ==
    \A d \in Days : shadow[d] = "qualified" =>
        /\ d < today
        /\ \A i \in incidents : ~Touches(i, d)
        /\ fault[d] # "lasting"
CronIsLate == \A c \in CronRuns : cronDay[c] # NoDay => cronDay[c] < today
ReadyWasEarned ==
    readyOn # NoDay => \A d \in readyOn - RequiredDays .. readyOn - 1 :
                            d \in Days /\ shadow[d] = "qualified"

AssuranceInv == AssuranceTypeOK /\ QualifiedIsClean /\ CronIsLate /\ ReadyWasEarned

LEMMA AssuranceInvImplies == AssuranceInv => ReadyIsEarned
BY DEF AssuranceInv, QualifiedIsClean, ReadyWasEarned, ReadyIsEarned

LEMMA AssuranceInitInv == AssuranceInit => AssuranceInv
<1> SUFFICES ASSUME AssuranceInit PROVE AssuranceInv  OBVIOUS
<1>1. AssuranceTypeOK
  BY AssuranceAssumption DEF AssuranceInit, AssuranceTypeOK, Days, NoDay
<1>2. QualifiedIsClean /\ CronIsLate /\ ReadyWasEarned
  BY DEF AssuranceInit, QualifiedIsClean, CronIsLate, ReadyWasEarned
<1>3. QED  BY <1>1, <1>2 DEF AssuranceInv

LEMMA AssuranceStepsKeepInv == AssuranceInv /\ [AssuranceNext]_assuranceVars => AssuranceInv'
<1> SUFFICES ASSUME AssuranceInv, [AssuranceNext]_assuranceVars PROVE AssuranceInv'  OBVIOUS
<1> USE AssuranceAssumption
<1>0. AssuranceTypeOK /\ QualifiedIsClean /\ CronIsLate /\ ReadyWasEarned
  BY DEF AssuranceInv
<1>t. /\ today \in Nat /\ today <= LastDay /\ LastDay \in Nat
      /\ \A d \in Days : d \in Nat /\ d <= LastDay
      /\ \A c \in CronRuns : cronDay[c] \in Int
      /\ \A i \in incidents : i.first \in Nat /\ i.resolved \in Nat
  BY <1>0 DEF AssuranceTypeOK, Days, NoDay, Unresolved
<1>1. ASSUME DayEnds
      PROVE  AssuranceInv'
  <2>1. today' = today + 1 /\ today < LastDay
        /\ UNCHANGED <<fault, incidents, shadow, cronDay, readyOn>>
    BY <1>1 DEF DayEnds
  <2>2. AssuranceTypeOK'  BY <1>0, <1>t, <2>1 DEF AssuranceTypeOK, Days
  <2>3. QualifiedIsClean'  BY <1>0, <1>t, <2>1 DEF QualifiedIsClean, Touches
  <2>4. CronIsLate'  BY <1>0, <1>t, <2>1 DEF CronIsLate
  <2>5. ReadyWasEarned'  BY <1>0, <2>1 DEF ReadyWasEarned
  <2>6. QED  BY <2>2, <2>3, <2>4, <2>5 DEF AssuranceInv
<1>2. ASSUME RunAssuranceChecks
      PROVE  AssuranceInv'
  <2> DEFINE new == [first |-> today, resolved |-> Unresolved]
  <2>1. incidents' \in {incidents, incidents \cup {new}}
        /\ UNCHANGED <<today, fault, shadow, cronDay, readyOn>>
    BY <1>2 DEF RunAssuranceChecks
  <2>2. new \in [first: Days, resolved: Days \cup {Unresolved}] /\ new.first = today
    BY <1>0 DEF AssuranceTypeOK
  <2> HIDE DEF new
  <2>3. AssuranceTypeOK'  BY <1>0, <2>1, <2>2 DEF AssuranceTypeOK
  <2>4. QualifiedIsClean'
    <3>1. \A d \in Days : d < today => ~Touches(new, d)  BY <1>t, <2>2 DEF Touches
    <3>2. QED  BY <1>0, <2>1, <3>1 DEF QualifiedIsClean, Touches
  <2>5. QED  BY <1>0, <2>1, <2>3, <2>4 DEF AssuranceInv, CronIsLate, ReadyWasEarned
<1>3. ASSUME IncidentResolved
      PROVE  AssuranceInv'
  <2>1. PICK i \in incidents : /\ i.resolved = Unresolved
                               /\ incidents' = (incidents \ {i}) \cup {[i EXCEPT !.resolved = today]}
    BY <1>3 DEF IncidentResolved
  <2> DEFINE j == [i EXCEPT !.resolved = today]
  <2>2. UNCHANGED <<today, fault, shadow, cronDay, readyOn>>
    BY <1>3 DEF IncidentResolved
  <2>3. /\ j \in [first: Days, resolved: Days \cup {Unresolved}]
        /\ j.first = i.first /\ j.resolved = today
    BY <1>0, <2>1 DEF AssuranceTypeOK
  <2>4. incidents' = (incidents \ {i}) \cup {j}  BY <2>1
  <2> HIDE DEF j
  <2>5. AssuranceTypeOK'  BY <1>0, <2>2, <2>3, <2>4 DEF AssuranceTypeOK
  <2>6. \A d \in Days : Touches(j, d) => Touches(i, d)
    BY <1>t, <2>1, <2>3 DEF Touches, Unresolved
  <2>7. QualifiedIsClean'
    BY <1>0, <2>1, <2>2, <2>4, <2>6 DEF QualifiedIsClean, Touches
  <2>8. QED  BY <1>0, <2>2, <2>5, <2>7 DEF AssuranceInv, CronIsLate, ReadyWasEarned
<1>4. ASSUME NEW connected \in BOOLEAN, LiveMarketReadiness(connected)
      PROVE  AssuranceInv'
  <2>1. UNCHANGED <<today, fault, incidents, shadow, cronDay>>
    BY <1>4 DEF LiveMarketReadiness
  <2>2. \/ readyOn' = NoDay
        \/ /\ readyOn' = today
           /\ \A d \in today - RequiredDays .. today - 1 : d >= 0 /\ shadow[d] = "qualified"
    BY <1>4 DEF LiveMarketReadiness
  <2>3. AssuranceTypeOK'  BY <1>0, <2>1, <2>2 DEF AssuranceTypeOK
  <2>4. ReadyWasEarned'
    BY <1>t, <2>1, <2>2 DEF ReadyWasEarned, Days, NoDay
  <2>5. QED  BY <1>0, <2>1, <2>3, <2>4 DEF AssuranceInv, QualifiedIsClean, CronIsLate, Touches
<1>5. ASSUME NEW d \in Days, FaultShows(d) \/ FaultClears(d)
      PROVE  AssuranceInv'
  <2>1. /\ fault[d] # "lasting"
        /\ fault' = [fault EXCEPT ![d] = "passing"] \/ fault' = [fault EXCEPT ![d] = "none"]
        /\ UNCHANGED <<today, incidents, shadow, cronDay, readyOn>>
    BY <1>5 DEF FaultShows, FaultClears
  <2>2. AssuranceTypeOK'  BY <1>0, <2>1 DEF AssuranceTypeOK
  <2>3. \A e \in Days : fault'[e] = "lasting" => fault[e] = "lasting"
    BY <1>0, <2>1 DEF AssuranceTypeOK
  <2>4. QualifiedIsClean'
    BY <1>0, <2>1, <2>3 DEF QualifiedIsClean, Touches
  <2>5. QED  BY <1>0, <2>1, <2>2, <2>4 DEF AssuranceInv, CronIsLate, ReadyWasEarned
<1>10. ASSUME LastingFault
       PROVE  AssuranceInv'
  <2>1. /\ fault' = [fault EXCEPT ![today] = "lasting"]
        /\ UNCHANGED <<today, incidents, shadow, cronDay, readyOn>>
    BY <1>10 DEF LastingFault
  <2>2. AssuranceTypeOK'  BY <1>0, <2>1 DEF AssuranceTypeOK
  <2>3. \A e \in Days : e < today => fault'[e] = fault[e]
    BY <1>0, <1>t, <2>1 DEF AssuranceTypeOK
  <2>4. QualifiedIsClean'
    BY <1>0, <1>t, <2>1, <2>3 DEF QualifiedIsClean, Touches
  <2>5. QED  BY <1>0, <2>1, <2>2, <2>4 DEF AssuranceInv, CronIsLate, ReadyWasEarned
<1>6. ASSUME NEW c \in CronRuns, CronLooks(c)
      PROVE  AssuranceInv'
  <2>1. /\ today > 0 /\ cronDay' = [cronDay EXCEPT ![c] = today - 1]
        /\ UNCHANGED <<today, fault, incidents, shadow, readyOn>>
    BY <1>6 DEF CronLooks
  <2>2. AssuranceTypeOK'  BY <1>0, <1>t, <2>1 DEF AssuranceTypeOK, Days
  <2>3. CronIsLate'  BY <1>0, <1>t, <2>1 DEF CronIsLate, AssuranceTypeOK
  <2>4. QED
    BY <1>0, <2>1, <2>2, <2>3 DEF AssuranceInv, QualifiedIsClean, ReadyWasEarned, Touches
<1>7. ASSUME NEW c \in CronRuns, RecordShadowDay(c)
      PROVE  AssuranceInv'
  <2>1. PICK d \in Days : d = cronDay[c] /\ d # NoDay
    BY <1>0, <1>7 DEF RecordShadowDay, AssuranceTypeOK
  <2>2. /\ shadow' = IF shadow[d] # "none" THEN shadow
                     ELSE [shadow EXCEPT ![d] =
                        IF fault[d] # "none" \/ CriticalOn(d)
                        THEN "unqualified" ELSE "qualified"]
        /\ cronDay' = [cronDay EXCEPT ![c] = NoDay]
        /\ UNCHANGED <<today, fault, incidents, readyOn>>
    BY <1>7, <2>1 DEF RecordShadowDay
  <2>3. \A e \in Days : /\ e # d => shadow'[e] = shadow[e]
                        /\ shadow[e] = "qualified" => shadow'[e] = "qualified"
    BY <1>0, <2>2 DEF AssuranceTypeOK
  <2>4. shadow'[d] = "qualified" =>
            shadow[d] = "qualified" \/ (fault[d] # "lasting" /\ \A i \in incidents : ~Touches(i, d))
    BY <1>0, <2>2 DEF AssuranceTypeOK, CriticalOn
  <2>5. d < today  BY <1>0, <2>1 DEF CronIsLate
  <2>6. AssuranceTypeOK'
    BY <1>0, <2>2 DEF AssuranceTypeOK
  <2>7. QualifiedIsClean'
    BY <1>0, <2>2, <2>3, <2>4, <2>5 DEF QualifiedIsClean, Touches
  <2>8. CronIsLate'  BY <1>0, <2>2 DEF CronIsLate, AssuranceTypeOK
  <2>9. ReadyWasEarned'  BY <1>0, <2>2, <2>3 DEF ReadyWasEarned
  <2>10. QED  BY <2>6, <2>7, <2>8, <2>9 DEF AssuranceInv
<1>8. ASSUME NEW c \in CronRuns, CronStops(c)
      PROVE  AssuranceInv'
  <2>1. cronDay' = [cronDay EXCEPT ![c] = NoDay]
        /\ UNCHANGED <<today, fault, incidents, shadow, readyOn>>
    BY <1>8 DEF CronStops
  <2>2. AssuranceTypeOK' /\ CronIsLate'  BY <1>0, <2>1 DEF AssuranceTypeOK, CronIsLate
  <2>3. QED  BY <1>0, <2>1, <2>2 DEF AssuranceInv, QualifiedIsClean, ReadyWasEarned, Touches
<1>9. CASE UNCHANGED assuranceVars
  BY <1>0, <1>9 DEF assuranceVars, AssuranceInv, AssuranceTypeOK, QualifiedIsClean, CronIsLate,
     ReadyWasEarned, Touches
<1>11. QED
  BY <1>1, <1>2, <1>3, <1>4, <1>5, <1>6, <1>7, <1>8, <1>9, <1>10 DEF AssuranceNext

(* Days, incidents and the gate stay within their types                     *)
(* (operations_assurance.py:18-180).                                        *)
THEOREM AssuranceTypeCorrect == AssuranceSpec => []AssuranceTypeOK
<1>1. AssuranceInv => AssuranceTypeOK  BY DEF AssuranceInv
<1>2. QED  BY <1>1, AssuranceInitInv, AssuranceStepsKeepInv, PTL DEF AssuranceSpec

(* Readiness is earned whatever the number of required days, however late   *)
(* the cron runs and however soon incidents are resolved                    *)
(* (operations_assurance.py:18-180).                                        *)
THEOREM ReadyIsEarnedHolds == AssuranceSpec => []ReadyIsEarned
<1>1. QED
  BY AssuranceInitInv, AssuranceStepsKeepInv, AssuranceInvImplies, PTL DEF AssuranceSpec

-----------------------------------------------------------------------------
(* Accounts. A session is as old as the password of its user, unless it was *)
(* spared; a setup under way is the only one and has seen what it needs     *)
(* (repository.py:650-788).                                                 *)
SessionsAreCurrent ==
    \A l \in Logins :
        /\ login[l].at \in {"verified", "session"} => login[l].email \in Emails
        /\ login[l].at = "session" =>
               login[l].opened = users[login[l].email].password \/ login[l].spared
InitialAdmin(e) == users[e].active /\ users[e].initial
SetupsAreExclusive ==
    \A s, t \in Setups : setup[s] # NoSetup /\ setup[t] # NoSetup => s = t
SetupsAreGrounded ==
    \A s \in Setups : setup[s] # NoSetup =>
        /\ setup[s].email \in Emails
        /\ setup[s].recovery => recoveries = 0
        /\ ~setup[s].recovery => \A e \in Emails : ~InitialAdmin(e)
AdministratorsAreFew ==
    /\ \A e \in Emails : users[e].initial => users[e].admin
    /\ \A e, f \in Emails : InitialAdmin(e) /\ InitialAdmin(f) => e = f
    /\ recoveries <= 1

AccountsInv ==
    /\ AccountsTypeOK
    /\ SessionsAreCurrent
    /\ SetupsAreExclusive
    /\ SetupsAreGrounded
    /\ AdministratorsAreFew

LEMMA AccountsInvImplies == AccountsInv => SessionsEndWithPassword /\ AdministratorMadeOnce
<1> SUFFICES ASSUME AccountsInv PROVE SessionsEndWithPassword /\ AdministratorMadeOnce  OBVIOUS
<1>1. SessionsEndWithPassword
  BY DEF AccountsInv, SessionsAreCurrent, SessionsEndWithPassword, Live
<1>2. Cardinality({e \in Emails : users[e].active /\ users[e].initial}) <= 1
  BY AtMostOne DEF AccountsInv, AdministratorsAreFew, InitialAdmin
<1>3. QED
  BY <1>1, <1>2 DEF AccountsInv, AdministratorsAreFew, AdministratorMadeOnce

LEMMA AccountsInitInv == AccountsInit => AccountsInv
<1> SUFFICES ASSUME AccountsInit PROVE AccountsInv  OBVIOUS
<1>1. AccountsTypeOK
  <2>1. 0 \in 0 .. MaxPasswords  BY AccountsAssumption
  <2>2. NoUser \in UserRow  BY <2>1 DEF NoUser, UserRow
  <2>3. NoLogin \in LoginRow  BY <2>1 DEF NoLogin, LoginRow
  <2>4. NoSetup \in [email: Emails \cup {NoEmail}, existed: BOOLEAN, recovery: BOOLEAN]
    BY DEF NoSetup
  <2>5. NoPrompt \in [email: Emails \cup {NoEmail}, existed: BOOLEAN]  BY DEF NoPrompt
  <2>6. QED  BY <2>2, <2>3, <2>4, <2>5 DEF AccountsInit, AccountsTypeOK
<1>2. SessionsAreCurrent  BY DEF AccountsInit, SessionsAreCurrent, NoLogin
<1>3. SetupsAreExclusive /\ SetupsAreGrounded
  BY DEF AccountsInit, SetupsAreExclusive, SetupsAreGrounded
<1>4. AdministratorsAreFew
  BY DEF AccountsInit, AdministratorsAreFew, InitialAdmin, NoUser
<1>5. QED  BY <1>1, <1>2, <1>3, <1>4 DEF AccountsInv

LEMMA EndedFits == Ended \in LoginRow /\ Ended.at = "revoked"
<1>1. 0 \in 0 .. MaxPasswords  BY AccountsAssumption
<1>2. QED  BY <1>1 DEF Ended, LoginRow

(* Logins and their sessions (repository.py:739-788).                       *)
LEMMA LoginKeepsInv ==
    ASSUME AccountsInv, NEW l \in Logins,
           (\E e \in Emails : VerifyPassword(l, e)) \/ OpenSession(l) \/ SessionExpires(l)
    PROVE  AccountsInv'
<1>0. AccountsTypeOK /\ SessionsAreCurrent /\ SetupsAreExclusive /\ SetupsAreGrounded
      /\ AdministratorsAreFew
  BY DEF AccountsInv
<1>1. UNCHANGED <<users, setup, prompt, recoveryId, initialSetups, recoveries>>
  BY DEF VerifyPassword, OpenSession, SessionExpires
<1>2. SetupsAreExclusive' /\ SetupsAreGrounded' /\ AdministratorsAreFew'
  BY <1>0, <1>1 DEF SetupsAreExclusive, SetupsAreGrounded, AdministratorsAreFew, InitialAdmin
<1>3. ASSUME NEW r \in LoginRow, login' = [login EXCEPT ![l] = r],
             r.at \in {"verified", "session"} => r.email \in Emails,
             r.at = "session" => r.opened = users[r.email].password
      PROVE  AccountsInv'
  <2>1. AccountsTypeOK'  BY <1>0, <1>1, <1>3 DEF AccountsTypeOK
  <2>2. \A m \in Logins : login'[m] = IF m = l THEN r ELSE login[m]
    BY <1>0, <1>3 DEF AccountsTypeOK
  <2>3. SessionsAreCurrent'
    BY <1>0, <1>1, <1>3, <2>2 DEF SessionsAreCurrent
  <2>4. QED  BY <1>2, <2>1, <2>3 DEF AccountsInv
<1>4. ASSUME NEW e \in Emails, VerifyPassword(l, e)
      PROVE  AccountsInv'
  <2> DEFINE r == [login[l] EXCEPT !.at = "verified", !.email = e]
  <2>1. login[l] \in LoginRow  BY <1>0 DEF AccountsTypeOK
  <2>2. r \in LoginRow /\ r.at = "verified" /\ r.email = e  BY <2>1 DEF LoginRow
  <2>3. login' = [login EXCEPT ![l] = r]  BY <1>0, <1>4 DEF VerifyPassword, AccountsTypeOK
  <2> HIDE DEF r
  <2>4. QED  BY <1>3, <2>2, <2>3
<1>5. CASE OpenSession(l)
  <2> DEFINE r == [login[l] EXCEPT !.at = "session", !.opened = users[login[l].email].password]
  <2>1. login[l].email \in Emails /\ login[l] \in LoginRow
    BY <1>0, <1>5 DEF OpenSession, SessionsAreCurrent, AccountsTypeOK
  <2>2. users[login[l].email].password \in 0 .. MaxPasswords
    BY <1>0, <2>1 DEF AccountsTypeOK, UserRow
  <2>3. r \in LoginRow /\ r.email = login[l].email /\ r.opened = users[login[l].email].password
    BY <2>1, <2>2 DEF LoginRow
  <2>4. login' = [login EXCEPT ![l] = r]  BY <1>0, <1>5 DEF OpenSession, AccountsTypeOK
  <2> HIDE DEF r
  <2>5. QED  BY <1>3, <2>1, <2>3, <2>4
<1>6. CASE SessionExpires(l)
  BY <1>3, <1>6, EndedFits DEF SessionExpires
<1>7. QED  BY <1>4, <1>5, <1>6

(* Whatever replaces the password of a user ends its open sessions or marks *)
(* them spared (repository.py:704-719, manage_user.py:63-90).               *)
LEMMA ActivationIsTyped ==
    ASSUME AccountsInv, NEW e \in Emails, NEW admin \in BOOLEAN, NEW initial \in BOOLEAN,
           Activates(e, admin, initial),
           login' \in [Logins -> LoginRow],
           \A l \in Logins : \/ login'[l] = login[l] /\ l \notin SessionsOf(e)
                            \/ login'[l].at = "revoked"
                            \/ /\ login'[l].at = "session" /\ login'[l].spared
                               /\ login'[l].email = e
    PROVE  /\ users' \in [Emails -> UserRow]
           /\ SessionsAreCurrent'
           /\ \A f \in Emails : f # e => users'[f] = users[f]
           /\ users'[e].active /\ users'[e].admin = admin /\ users'[e].initial = initial
<1>0. AccountsTypeOK /\ SessionsAreCurrent  BY DEF AccountsInv
<1> DEFINE new == [active |-> TRUE, admin |-> admin, initial |-> initial,
                   password |-> users[e].password + 1]
<1>1. users[e].password + 1 \in 0 .. MaxPasswords
  BY <1>0, AccountsAssumption DEF AccountsTypeOK, UserRow, Activates
<1>2. users' = [users EXCEPT ![e] = new]  BY DEF Activates
<1>3. new \in UserRow /\ new.active /\ new.admin = admin /\ new.initial = initial
  BY <1>1 DEF UserRow
<1> HIDE DEF new
<1>4. /\ users' \in [Emails -> UserRow]
      /\ \A f \in Emails : users'[f] = IF f = e THEN new ELSE users[f]
  BY <1>0, <1>2, <1>3 DEF AccountsTypeOK
<1>5. SessionsAreCurrent'
  <2> SUFFICES ASSUME NEW l \in Logins
               PROVE  /\ login'[l].at \in {"verified", "session"} => login'[l].email \in Emails
                      /\ login'[l].at = "session" =>
                            \/ login'[l].opened = users'[login'[l].email].password
                            \/ login'[l].spared
    BY DEF SessionsAreCurrent
  <2>1. CASE login'[l] = login[l] /\ l \notin SessionsOf(e)
    <3>1. login[l].at = "session" =>
              login[l].email \in Emails /\ users'[login[l].email] = users[login[l].email]
      BY <1>0, <1>4, <2>1 DEF SessionsAreCurrent, SessionsOf
    <3>2. QED  BY <1>0, <2>1, <3>1 DEF SessionsAreCurrent
  <2>2. QED  BY <2>1
<1>6. QED  BY <1>3, <1>4, <1>5

(* What Revokes does to the logins, as the lemma above needs it             *)
(* (repository.py:714-719, manage_user.py:49-52, 86-90).                    *)
LEMMA RevokesEnds ==
    ASSUME AccountsTypeOK, NEW e \in Emails, Revokes(e)
    PROVE  /\ login' \in [Logins -> LoginRow]
           /\ \A l \in Logins : \/ login'[l] = login[l] /\ l \notin SessionsOf(e)
                               \/ login'[l].at = "revoked"
BY EndedFits DEF AccountsTypeOK, Revokes

(* The operator's script never makes an initial administrator, and marks    *)
(* the sessions it does not revoke (manage_user.py:38-91).                  *)
LEMMA ScriptKeepsInv ==
    ASSUME AccountsInv, NEW m \in Scripts,
           \/ \E e \in Emails : BeginManage(m, e)
           \/ \E admin \in BOOLEAN : CommitManage(m, admin)
           \/ ManageStops(m)
    PROVE  AccountsInv'
<1>0. AccountsTypeOK /\ SessionsAreCurrent /\ SetupsAreExclusive /\ SetupsAreGrounded
      /\ AdministratorsAreFew
  BY DEF AccountsInv
<1>n. NoPrompt \in [email: Emails \cup {NoEmail}, existed: BOOLEAN]  BY DEF NoPrompt
<1>1. UNCHANGED <<setup, recoveryId, initialSetups, recoveries>>
  BY DEF BeginManage, CommitManage, ManageStops
<1>2. ASSUME prompt' \in [Scripts -> [email: Emails \cup {NoEmail}, existed: BOOLEAN]],
             UNCHANGED <<users, login>>
      PROVE  AccountsInv'
  BY <1>0, <1>1, <1>2 DEF AccountsInv, AccountsTypeOK, SessionsAreCurrent, SetupsAreExclusive,
     SetupsAreGrounded, AdministratorsAreFew, InitialAdmin
<1>3. ASSUME NEW e \in Emails, BeginManage(m, e)
      PROVE  AccountsInv'
  <2>1. UNCHANGED <<users, login>>  BY <1>3 DEF BeginManage
  <2>2. prompt' = [prompt EXCEPT ![m] = [email |-> e, existed |-> users[e] # NoUser]]
    BY <1>3 DEF BeginManage
  <2>3. prompt' \in [Scripts -> [email: Emails \cup {NoEmail}, existed: BOOLEAN]]
    BY <1>0, <2>2 DEF AccountsTypeOK
  <2>4. QED  BY <1>2, <2>1, <2>3
<1>4. CASE ManageStops(m)
  <2>1. UNCHANGED <<users, login>> /\ prompt' = [prompt EXCEPT ![m] = NoPrompt]
    BY <1>4 DEF ManageStops
  <2>2. prompt' \in [Scripts -> [email: Emails \cup {NoEmail}, existed: BOOLEAN]]
    BY <1>0, <1>n, <2>1 DEF AccountsTypeOK
  <2>3. QED  BY <1>2, <2>1, <2>2
<1>5. ASSUME NEW admin \in BOOLEAN, CommitManage(m, admin)
      PROVE  AccountsInv'
  <2>1. PICK e \in Emails : e = prompt[m].email
    BY <1>0, <1>5 DEF CommitManage, AccountsTypeOK
  <2>2. /\ Activates(e, admin, FALSE)
        /\ \/ Revokes(e)
           \/ login' = [l \in Logins |-> IF l \in SessionsOf(e)
                          THEN [login[l] EXCEPT !.spared = TRUE] ELSE login[l]]
        /\ prompt' = [prompt EXCEPT ![m] = NoPrompt]
    BY <1>5, <2>1 DEF CommitManage
  <2>3. /\ login' \in [Logins -> LoginRow]
        /\ \A l \in Logins : \/ login'[l] = login[l] /\ l \notin SessionsOf(e)
                            \/ login'[l].at = "revoked"
                            \/ /\ login'[l].at = "session" /\ login'[l].spared
                               /\ login'[l].email = e
    <3>1. CASE Revokes(e)
      BY <1>0, <3>1, RevokesEnds
    <3>2. CASE login' = [l \in Logins |-> IF l \in SessionsOf(e)
                          THEN [login[l] EXCEPT !.spared = TRUE] ELSE login[l]]
      <4>1. \A l \in Logins : login[l] \in LoginRow  BY <1>0 DEF AccountsTypeOK
      <4>2. \A l \in Logins : [login[l] EXCEPT !.spared = TRUE] \in LoginRow
        BY <4>1 DEF LoginRow
      <4>3. \A l \in Logins : /\ [login[l] EXCEPT !.spared = TRUE].spared
                              /\ [login[l] EXCEPT !.spared = TRUE].at = login[l].at
                              /\ [login[l] EXCEPT !.spared = TRUE].email = login[l].email
        BY <4>1 DEF LoginRow
      <4>4. QED  BY <3>2, <4>1, <4>2, <4>3 DEF SessionsOf
    <3>3. QED  BY <2>2, <3>1, <3>2
  <2>4. /\ users' \in [Emails -> UserRow]
        /\ SessionsAreCurrent'
        /\ \A f \in Emails : f # e => users'[f] = users[f]
        /\ ~users'[e].initial
    BY <2>2, <2>3, ActivationIsTyped
  <2>5. prompt' \in [Scripts -> [email: Emails \cup {NoEmail}, existed: BOOLEAN]]
    BY <1>0, <1>n, <2>2 DEF AccountsTypeOK
  <2>6. AccountsTypeOK'  BY <1>0, <1>1, <2>3, <2>4, <2>5 DEF AccountsTypeOK
  <2>7. \A f \in Emails :
            users'[f].initial => users[f].initial /\ users'[f] = users[f]
    BY <2>4
  <2>8. SetupsAreExclusive' /\ SetupsAreGrounded' /\ AdministratorsAreFew'
    BY <1>0, <1>1, <2>7 DEF SetupsAreExclusive, SetupsAreGrounded, AdministratorsAreFew,
       InitialAdmin
  <2>9. QED  BY <2>4, <2>6, <2>8 DEF AccountsInv
<1>6. QED  BY <1>3, <1>4, <1>5

(* Disabling a user keeps its password and its rank (manage_user.py:45-54). *)
LEMMA DisableKeepsInv ==
    ASSUME AccountsInv, NEW e \in Emails, DisableUser(e)
    PROVE  AccountsInv'
<1>0. AccountsTypeOK /\ SessionsAreCurrent /\ SetupsAreExclusive /\ SetupsAreGrounded
      /\ AdministratorsAreFew
  BY DEF AccountsInv
<1>1. /\ users' = [users EXCEPT ![e].active = FALSE] /\ Revokes(e)
      /\ UNCHANGED <<setup, prompt, recoveryId, initialSetups, recoveries>>
  BY DEF DisableUser
<1>2. /\ users' \in [Emails -> UserRow]
      /\ \A f \in Emails :
            /\ users'[f].initial = users[f].initial /\ users'[f].admin = users[f].admin
            /\ users'[f].password = users[f].password
            /\ users'[f].active => users[f].active
  BY <1>0, <1>1 DEF AccountsTypeOK, UserRow
<1>3. /\ login' \in [Logins -> LoginRow]
      /\ \A l \in Logins : login'[l] = login[l] \/ login'[l].at = "revoked"
  BY <1>0, <1>1, RevokesEnds
<1>4. AccountsTypeOK'  BY <1>0, <1>1, <1>2, <1>3 DEF AccountsTypeOK
<1>5. SessionsAreCurrent'  BY <1>0, <1>2, <1>3 DEF SessionsAreCurrent
<1>6. \A f \in Emails : InitialAdmin(f)' => InitialAdmin(f)  BY <1>2 DEF InitialAdmin
<1>7. SetupsAreExclusive' /\ SetupsAreGrounded'
  BY <1>0, <1>1, <1>6 DEF SetupsAreExclusive, SetupsAreGrounded
<1>8. AdministratorsAreFew'  BY <1>0, <1>1, <1>2, <1>6 DEF AdministratorsAreFew
<1>9. QED  BY <1>4, <1>5, <1>7, <1>8 DEF AccountsInv

(* A setup takes the lock of the tenant before it reads                     *)
(* (repository.py:650-692).                                                 *)
LEMMA BeginSetupKeepsInv ==
    ASSUME AccountsInv, NEW s \in Setups, NEW e \in Emails, BeginSetup(s, e)
    PROVE  AccountsInv'
<1>0. AccountsTypeOK /\ SessionsAreCurrent /\ SetupsAreExclusive /\ SetupsAreGrounded
      /\ AdministratorsAreFew
  BY DEF AccountsInv
<1> DEFINE r == [email |-> e, existed |-> users[e] # NoUser, recovery |-> recoveryId]
<1>1. /\ \A t \in Setups : setup[t] = NoSetup
      /\ IF recoveryId THEN recoveries = 0 ELSE ~Initialized
      /\ setup' = [setup EXCEPT ![s] = r]
      /\ UNCHANGED <<users, login, prompt, recoveryId, initialSetups, recoveries>>
  BY DEF BeginSetup
<1>2. r \in [email: Emails \cup {NoEmail}, existed: BOOLEAN, recovery: BOOLEAN]
      /\ r.email = e /\ r.recovery = recoveryId
  BY <1>0 DEF AccountsTypeOK
<1> HIDE DEF r
<1>3. AccountsTypeOK'  BY <1>0, <1>1, <1>2 DEF AccountsTypeOK
<1>4. \A t \in Setups : setup'[t] = IF t = s THEN r ELSE NoSetup
  BY <1>0, <1>1 DEF AccountsTypeOK
<1>5. SetupsAreExclusive'  BY <1>4 DEF SetupsAreExclusive
<1>6. ~recoveryId => \A f \in Emails : ~InitialAdmin(f)
  BY <1>0, <1>1 DEF Initialized, InitialAdmin, AdministratorsAreFew
<1>7. SetupsAreGrounded'
  BY <1>1, <1>2, <1>4, <1>6 DEF SetupsAreGrounded, InitialAdmin
<1>8. SessionsAreCurrent' /\ AdministratorsAreFew'
  BY <1>0, <1>1 DEF SessionsAreCurrent, AdministratorsAreFew, InitialAdmin
<1>9. QED  BY <1>3, <1>5, <1>7, <1>8 DEF AccountsInv

(* What the setup has seen still holds when it commits                      *)
(* (repository.py:693-736).                                                 *)
LEMMA CommitSetupKeepsInv ==
    ASSUME AccountsInv, NEW s \in Setups, CommitSetup(s)
    PROVE  AccountsInv'
<1>0. AccountsTypeOK /\ SessionsAreCurrent /\ SetupsAreExclusive /\ SetupsAreGrounded
      /\ AdministratorsAreFew
  BY DEF AccountsInv
<1>n. /\ NoSetup \in [email: Emails \cup {NoEmail}, existed: BOOLEAN, recovery: BOOLEAN]
      /\ NoSetup.email = NoEmail
  BY DEF NoSetup
<1>1. PICK e \in Emails : e = setup[s].email
  BY <1>0 DEF CommitSetup, AccountsTypeOK
<1>2. PICK recovery \in BOOLEAN : recovery = setup[s].recovery
  BY <1>0 DEF AccountsTypeOK
<1>3. /\ setup[s] # NoSetup /\ Activates(e, TRUE, ~recovery) /\ Revokes(e)
      /\ setup' = [setup EXCEPT ![s] = NoSetup]
      /\ initialSetups' = IF recovery THEN initialSetups ELSE initialSetups + 1
      /\ recoveries' = IF recovery THEN recoveries + 1 ELSE recoveries
      /\ UNCHANGED <<prompt, recoveryId>>
  BY <1>n, <1>1, <1>2 DEF CommitSetup
<1>4. /\ recovery => recoveries = 0
      /\ ~recovery => \A f \in Emails : ~InitialAdmin(f)
  BY <1>0, <1>2, <1>3 DEF SetupsAreGrounded
<1>r. /\ login' \in [Logins -> LoginRow]
      /\ \A l \in Logins : \/ login'[l] = login[l] /\ l \notin SessionsOf(e)
                          \/ login'[l].at = "revoked"
  BY <1>0, <1>3, RevokesEnds
<1>5. /\ users' \in [Emails -> UserRow]
      /\ SessionsAreCurrent'
      /\ \A f \in Emails : f # e => users'[f] = users[f]
      /\ users'[e].active /\ users'[e].admin /\ users'[e].initial = ~recovery
  BY <1>3, <1>r, ActivationIsTyped
<1>6. AccountsTypeOK'  BY <1>0, <1>n, <1>3, <1>5, <1>r DEF AccountsTypeOK
<1>7. \A t \in Setups : setup'[t] = NoSetup
  BY <1>0, <1>3 DEF SetupsAreExclusive, AccountsTypeOK
<1>8. SetupsAreExclusive' /\ SetupsAreGrounded'
  BY <1>7 DEF SetupsAreExclusive, SetupsAreGrounded
<1>9. AdministratorsAreFew'
  <2>1. \A f \in Emails : users'[f].initial => users'[f].admin
    BY <1>0, <1>5 DEF AdministratorsAreFew
  <2>2. \A f \in Emails : InitialAdmin(f)' => (f = e /\ ~recovery) \/ (f # e /\ InitialAdmin(f))
    BY <1>5 DEF InitialAdmin
  <2>3. \A f, g \in Emails : InitialAdmin(f)' /\ InitialAdmin(g)' => f = g
    BY <1>0, <1>4, <2>2 DEF AdministratorsAreFew
  <2>4. recoveries' <= 1
    <3>1. recoveries \in Nat /\ recoveries <= 1  BY <1>0 DEF AccountsTypeOK, AdministratorsAreFew
    <3>2. QED  BY <1>3, <1>4, <3>1
  <2>5. QED  BY <2>1, <2>3, <2>4 DEF AdministratorsAreFew
<1>10. QED  BY <1>5, <1>6, <1>8, <1>9 DEF AccountsInv

LEMMA AccountsStepsKeepInv == AccountsInv /\ [AccountsNext]_accountVars => AccountsInv'
<1> SUFFICES ASSUME AccountsInv, [AccountsNext]_accountVars PROVE AccountsInv'  OBVIOUS
<1>0. AccountsTypeOK /\ SessionsAreCurrent /\ SetupsAreExclusive /\ SetupsAreGrounded
      /\ AdministratorsAreFew
  BY DEF AccountsInv
<1>1. ASSUME NEW s \in Setups, SetupFails(s)
      PROVE  AccountsInv'
  <2>1. setup' = [setup EXCEPT ![s] = NoSetup]
        /\ UNCHANGED <<users, login, prompt, recoveryId, initialSetups, recoveries>>
    BY <1>1 DEF SetupFails
  <2>2. \A t \in Setups : setup'[t] # NoSetup => setup'[t] = setup[t]
    BY <1>0, <2>1 DEF AccountsTypeOK
  <2>3. AccountsTypeOK'  BY <1>0, <2>1 DEF AccountsTypeOK, NoSetup
  <2>4. SetupsAreExclusive' /\ SetupsAreGrounded'
    BY <1>0, <2>1, <2>2 DEF SetupsAreExclusive, SetupsAreGrounded, InitialAdmin
  <2>5. SessionsAreCurrent' /\ AdministratorsAreFew'
    BY <1>0, <2>1 DEF SessionsAreCurrent, AdministratorsAreFew, InitialAdmin
  <2>6. QED  BY <2>3, <2>4, <2>5 DEF AccountsInv
<1>2. ASSUME recoveryId' \in BOOLEAN, UNCHANGED <<users, login, setup, prompt, initialSetups, recoveries>>
      PROVE  AccountsInv'
  BY <1>0, <1>2 DEF AccountsInv, AccountsTypeOK, SessionsAreCurrent, SetupsAreExclusive,
     SetupsAreGrounded, AdministratorsAreFew, InitialAdmin
<1>3. CASE Redeploy
  BY <1>0, <1>2, <1>3 DEF Redeploy, AccountsTypeOK
<1>4. CASE UNCHANGED accountVars
  BY <1>0, <1>2, <1>4 DEF accountVars, AccountsTypeOK
<1>5. QED
  BY <1>1, <1>3, <1>4, LoginKeepsInv, ScriptKeepsInv, DisableKeepsInv,
     BeginSetupKeepsInv, CommitSetupKeepsInv
  DEF AccountsNext

(* Users, logins and setups stay within their types (repository.py:650-788).*)
THEOREM AccountsTypeCorrect == AccountsSpec => []AccountsTypeOK
<1>1. AccountsInv => AccountsTypeOK  BY DEF AccountsInv
<1>2. QED  BY <1>1, AccountsInitInv, AccountsStepsKeepInv, PTL DEF AccountsSpec

(* However logins, scripts and setups interleave, no session outlives the   *)
(* password it was opened under, but one that a script spares whose prompt  *)
(* was there before the user (repository.py:704-788, manage_user.py:41-90). *)
THEOREM SessionsEndWithPasswordHolds == AccountsSpec => []SessionsEndWithPassword
<1>1. AccountsInv => SessionsEndWithPassword  BY AccountsInvImplies
<1>2. QED  BY <1>1, AccountsInitInv, AccountsStepsKeepInv, PTL DEF AccountsSpec

(* However many setups and scripts race, one initial administrator at most  *)
(* is active and a recovery id works once (repository.py:650-736).          *)
THEOREM AdministratorMadeOnceHolds == AccountsSpec => []AdministratorMadeOnce
<1>1. AccountsInv => AdministratorMadeOnce  BY AccountsInvImplies
<1>2. QED  BY <1>1, AccountsInitInv, AccountsStepsKeepInv, PTL DEF AccountsSpec

-----------------------------------------------------------------------------
(* RepositoryCache. The snapshot cache never hides a process's own announced*)
(* writes. The invariant adds what a load under way knows: its first SELECT *)
(* came after the last such write of its own process, because the process   *)
(* runs one handler at a time.                                              *)
LoadsAreRecent ==
    \A p \in Processes :
        /\ ownWrite[p] <= written
        /\ loadingKey[p] # NoKey => ownWrite[p] <= sawFirst[p] /\ sawFirst[p] <= written

CacheInv == CacheTypeOK /\ LoadsAreRecent /\ ReadsOwnWrites

(* A fresh entry is an entry, an aged one too and with the same snapshot    *)
(* while it serves (repository.py:69-84).                                   *)
LEMMA EntriesStayEntries ==
    ASSUME TTL \in Nat \ {0}, MaxWrites \in Nat
    PROVE  /\ NoEntry \in Entry
           /\ \A v \in Versions : Fresh(v) \in Entry
           /\ \A entry \in Entry :
                /\ Aged(entry) \in Entry
                /\ Aged(entry).left > 0 => entry.left > 0 /\ Aged(entry).snapshot = entry.snapshot
<1>1. NoEntry \in Entry /\ \A v \in Versions : Fresh(v) \in Entry
  BY DEF NoEntry, Entry, Fresh, Versions, Fixtures
<1>2. ASSUME NEW entry \in Entry
      PROVE  /\ Aged(entry) \in Entry
             /\ Aged(entry).left > 0 => entry.left > 0 /\ Aged(entry).snapshot = entry.snapshot
  <2>1. CASE entry.left > 1
    <3>1. Aged(entry) = [snapshot |-> entry.snapshot, left |-> entry.left - 1]
      BY <1>2, <2>1 DEF Aged, Entry
    <3>2. QED  BY <1>2, <2>1, <3>1 DEF Entry
  <2>2. CASE ~(entry.left > 1)
    BY <1>1, <2>2 DEF Aged, NoEntry
  <2>3. QED  BY <2>1, <2>2
<1>3. QED  BY <1>1, <1>2

(* The caches of all processes start empty (repository.py:36-43).           *)
LEMMA CacheInitInv == CacheInit => CacheInv
<1> SUFFICES ASSUME CacheInit PROVE CacheInv  OBVIOUS
<1>0. NoEntry \in Entry  BY CacheAssumption, EntriesStayEntries
<1>1. CacheTypeOK
  BY CacheAssumption, <1>0 DEF CacheInit, CacheTypeOK, Empty
<1>2. ASSUME NEW p \in Processes
      PROVE  ownWrite[p] <= written /\ loadingKey[p] = NoKey
  <2>1. ownWrite[p] = 0 /\ written = 0  BY DEF CacheInit
  <2>2. loadingKey[p] = NoKey  BY Zenon DEF CacheInit
  <2>3. 0 <= 0  OBVIOUS
  <2>4. QED  BY <2>1, <2>2, <2>3
<1>3. ReadsOwnWrites
  BY DEF CacheInit, ReadsOwnWrites, Serving, Empty, NoEntry
<1>4. LoadsAreRecent  BY <1>2 DEF LoadsAreRecent
<1>5. QED  BY <1>1, <1>3, <1>4 DEF CacheInv

(* What one process does to its own caches keeps what the others serve      *)
(* (repository.py:57-86): it is enough to look at the process that steps.   *)
LEMMA OwnCacheSuffices ==
    ASSUME CacheInv, NEW p \in Processes,
           written' \in 0 .. MaxWrites, written <= written',
           NEW v \in 0 .. MaxWrites, ownWrite' = [ownWrite EXCEPT ![p] = v], v <= written',
           NEW c \in [CacheKeys -> Entry], cached' = [cached EXCEPT ![p] = c],
           \A k \in CacheKeys :
               c[k].left > 0 => c[k].snapshot \in {Fixtures} \cup v .. written'
    PROVE  ReadsOwnWrites'
<1> SUFFICES ASSUME NEW q \in Processes, NEW k \in CacheKeys, Serving(q, k)'
             PROVE  cached'[q][k].snapshot \in {Fixtures} \cup ownWrite'[q] .. written'
  BY DEF ReadsOwnWrites
<1>1. CASE q = p
  BY <1>1 DEF CacheInv, CacheTypeOK, Serving
<1>2. CASE q # p
  <2>1. cached'[q] = cached[q] /\ ownWrite'[q] = ownWrite[q]
    BY <1>2 DEF CacheInv, CacheTypeOK
  <2>2. cached[q][k].snapshot \in {Fixtures} \cup ownWrite[q] .. written
    BY <2>1 DEF CacheInv, ReadsOwnWrites, Serving
  <2>3. written \in 0 .. MaxWrites /\ ownWrite[q] \in 0 .. MaxWrites /\ MaxWrites \in Nat
    BY CacheAssumption DEF CacheInv, CacheTypeOK
  <2>4. QED  BY <2>1, <2>2, <2>3
<1>3. QED  BY <1>1, <1>2

(* Every step keeps the invariant (repository.py:36-283).                   *)
LEMMA CacheNextInv == CacheInv /\ [CacheNext]_cacheVars => CacheInv'
<1> SUFFICES ASSUME CacheInv, [CacheNext]_cacheVars PROVE CacheInv'  OBVIOUS
<1> USE CacheAssumption
<1>0. /\ NoEntry \in Entry
      /\ \A v \in Versions : Fresh(v) \in Entry
      /\ Empty \in [CacheKeys -> Entry]
      /\ \A entry \in Entry : Aged(entry) \in Entry
  BY EntriesStayEntries DEF Empty
<1>t. CacheTypeOK /\ LoadsAreRecent /\ ReadsOwnWrites  BY DEF CacheInv
<1>1. ASSUME NEW p \in Processes, NEW k \in CacheKeys, Hit(p, k)
      PROVE  CacheInv'
  BY <1>1, <1>t DEF Hit, cacheVars, CacheInv, CacheTypeOK, LoadsAreRecent, ReadsOwnWrites, Serving
<1>2. ASSUME NEW p \in Processes, NEW k \in CacheKeys, LoadBegins(p, k)
      PROVE  CacheInv'
  <2>1. CacheTypeOK'  BY <1>2, <1>t DEF LoadBegins, CacheTypeOK
  <2>2. LoadsAreRecent'  BY <1>2, <1>t DEF LoadBegins, CacheTypeOK, LoadsAreRecent
  <2>3. ReadsOwnWrites'  BY <1>2, <1>t DEF LoadBegins, ReadsOwnWrites, Serving
  <2>4. QED  BY <2>1, <2>2, <2>3 DEF CacheInv
<1>3. ASSUME NEW p \in Processes, LoadEnds(p)
      PROVE  CacheInv'
  <2> DEFINE k == loadingKey[p]
             c == [cached[p] EXCEPT ![k] = Fresh(sawFirst[p])]
  <2>1. k \in CacheKeys /\ sawFirst[p] \in Versions /\ Fresh(sawFirst[p]) \in Entry
    BY <1>0, <1>3, <1>t DEF LoadEnds, LoadReturns, CacheTypeOK, Versions, Fixtures
  <2>2. c \in [CacheKeys -> Entry] /\ cached' = [cached EXCEPT ![p] = c]
    BY <1>3, <1>t, <2>1 DEF LoadEnds, CacheTypeOK
  <2>3. CacheTypeOK'
    BY <1>3, <1>t, <2>2 DEF LoadEnds, LoadReturns, CacheTypeOK
  <2>4. LoadsAreRecent'
    BY <1>3, <1>t DEF LoadEnds, LoadReturns, CacheTypeOK, LoadsAreRecent
  <2>5. /\ ownWrite' = [ownWrite EXCEPT ![p] = ownWrite[p]]
        /\ written' = written /\ ownWrite[p] \in 0 .. MaxWrites /\ written \in 0 .. MaxWrites
        /\ ownWrite[p] <= sawFirst[p] /\ sawFirst[p] <= written /\ sawFirst[p] \in 0 .. MaxWrites
    BY <1>3, <1>t DEF LoadEnds, LoadReturns, CacheTypeOK, LoadsAreRecent
  <2>6. \A j \in CacheKeys :
            c[j].left > 0 => c[j].snapshot \in {Fixtures} \cup ownWrite[p] .. written
    <3> SUFFICES ASSUME NEW j \in CacheKeys, c[j].left > 0
                 PROVE  c[j].snapshot \in {Fixtures} \cup ownWrite[p] .. written
      OBVIOUS
    <3>1. CASE j = k
      BY <1>t, <2>1, <2>5, <3>1 DEF Fresh, CacheTypeOK
    <3>2. CASE j # k
      <4>1. c[j] = cached[p][j]  BY <1>t, <2>1, <3>2 DEF CacheTypeOK
      <4>2. QED  BY <1>t, <4>1 DEF ReadsOwnWrites, Serving
    <3>3. QED  BY <3>1, <3>2
  <2>7. ReadsOwnWrites'
    <3>1. written' \in 0 .. MaxWrites /\ written <= written' /\ ownWrite[p] <= written'
      BY <2>5
    <3> HIDE DEF c
    <3>2. QED  BY <2>2, <2>5, <2>6, <3>1, OwnCacheSuffices
  <2>8. QED  BY <2>3, <2>4, <2>7 DEF CacheInv
<1>4. ASSUME NEW p \in Processes, LoadFails(p)
      PROVE  CacheInv'
  <2>1. LoadsAreRecent'
    BY <1>4, <1>t DEF LoadFails, LoadReturns, CacheTypeOK, LoadsAreRecent
  <2>2. written' = written /\ ownWrite' = ownWrite
    BY <1>4 DEF LoadFails, LoadReturns
  <2>3. loadingKey' \in [Processes -> CacheKeys \cup {NoKey}] /\ sawFirst' \in [Processes -> 0 .. MaxWrites]
        /\ production' \in BOOLEAN
    BY <1>4, <1>t DEF LoadFails, LoadReturns, CacheTypeOK
  <2>4. CASE production
    <3>1. cached' = cached  BY <1>4, <2>4 DEF LoadFails
    <3>2. CacheTypeOK' /\ ReadsOwnWrites'
      BY <1>t, <2>2, <2>3, <3>1 DEF CacheTypeOK, ReadsOwnWrites, Serving
    <3>3. QED  BY <2>1, <3>2 DEF CacheInv
  <2>5. CASE ~production
    <3>1. loadingKey[p] \in CacheKeys /\ Fresh(Fixtures) \in Entry
      BY <1>0, <1>4, <1>t DEF LoadFails, LoadReturns, CacheTypeOK, Versions, Fixtures
    <3>2. cached' = [cached EXCEPT ![p][loadingKey[p]] = Fresh(Fixtures)]
      BY <1>4, <2>5 DEF LoadFails
    <3>3. cached' \in [Processes -> [CacheKeys -> Entry]]
      BY <1>t, <3>1, <3>2 DEF CacheTypeOK
    <3>4. ASSUME NEW q \in Processes, NEW k \in CacheKeys
          PROVE  cached'[q][k] = cached[q][k] \/ cached'[q][k].snapshot = Fixtures
      BY <1>t, <3>1, <3>2 DEF CacheTypeOK, Fresh
    <3>5. CacheTypeOK'  BY <1>t, <2>2, <2>3, <3>3 DEF CacheTypeOK
    <3>6. ReadsOwnWrites'
      BY <1>t, <2>2, <3>4 DEF ReadsOwnWrites, Serving
    <3>7. QED  BY <2>1, <3>5, <3>6 DEF CacheInv
  <2>6. QED  BY <2>4, <2>5
<1>5. ASSUME NEW p \in Processes, Write(p)
      PROVE  CacheInv'
  <2>1. written' = written + 1 /\ written \in Nat /\ written' \in 0 .. MaxWrites
    BY <1>5, <1>t DEF Write, CacheTypeOK
  <2>2. ownWrite' = [ownWrite EXCEPT ![p] = written'] /\ cached' = [cached EXCEPT ![p] = Empty]
    BY <1>5 DEF Write
  <2>3. CacheTypeOK'
    BY <1>0, <1>5, <1>t, <2>1, <2>2 DEF Write, CacheTypeOK
  <2>4. LoadsAreRecent'
    <3> SUFFICES ASSUME NEW q \in Processes
                 PROVE  /\ ownWrite'[q] <= written'
                        /\ loadingKey'[q] # NoKey => ownWrite'[q] <= sawFirst'[q] /\ sawFirst'[q] <= written'
      BY DEF LoadsAreRecent
    <3>1. CASE q = p
      BY <1>5, <1>t, <2>1, <2>2, <3>1 DEF Write, CacheTypeOK
    <3>2. CASE q # p
      <4>1. ownWrite'[q] = ownWrite[q] /\ loadingKey' = loadingKey /\ sawFirst' = sawFirst
        BY <1>5, <1>t, <2>2, <3>2 DEF Write, CacheTypeOK
      <4>2. ownWrite[q] \in Nat /\ sawFirst[q] \in Nat  BY <1>t DEF CacheTypeOK
      <4>3. QED  BY <1>t, <2>1, <4>1, <4>2 DEF LoadsAreRecent
    <3>3. QED  BY <3>1, <3>2
  <2>5. ReadsOwnWrites'
    <3>1. \A k \in CacheKeys : ~(Empty[k].left > 0)  BY DEF Empty, NoEntry
    <3>2. \A k \in CacheKeys :
             Empty[k].left > 0 => Empty[k].snapshot \in {Fixtures} \cup written' .. written'
      BY <3>1
    <3>3. written <= written' /\ written' <= written'  BY <2>1
    <3>4. QED  BY <1>0, <2>1, <2>2, <3>2, <3>3, OwnCacheSuffices
  <2>6. QED  BY <2>3, <2>4, <2>5 DEF CacheInv
<1>6. ASSUME WriteUnannounced
      PROVE  CacheInv'
  <2>1. written' = written + 1 /\ written \in Nat /\ written' \in 0 .. MaxWrites
    BY <1>6, <1>t DEF WriteUnannounced, CacheTypeOK
  <2>2. UNCHANGED <<production, ownWrite, cached, loadingKey, sawFirst>>
    BY <1>6 DEF WriteUnannounced
  <2>3. CacheTypeOK'  BY <1>t, <2>1, <2>2 DEF CacheTypeOK
  <2>4. LoadsAreRecent'  BY <1>t, <2>1, <2>2 DEF LoadsAreRecent, CacheTypeOK
  <2>5. ReadsOwnWrites'
    BY <1>t, <2>1, <2>2 DEF ReadsOwnWrites, Serving, CacheTypeOK
  <2>6. QED  BY <2>3, <2>4, <2>5 DEF CacheInv
<1>7. ASSUME NEW p \in Processes, ProcessRestarts(p)
      PROVE  CacheInv'
  <2>1. /\ ownWrite' = [ownWrite EXCEPT ![p] = 0] /\ cached' = [cached EXCEPT ![p] = Empty]
        /\ written' = written /\ written \in 0 .. MaxWrites
    BY <1>7, <1>t DEF ProcessRestarts, CacheTypeOK
  <2>2. CacheTypeOK'
    BY <1>0, <1>7, <1>t DEF ProcessRestarts, CacheTypeOK
  <2>3. LoadsAreRecent'
    BY <1>7, <1>t DEF ProcessRestarts, CacheTypeOK, LoadsAreRecent
  <2>4. ReadsOwnWrites'
    <3>1. \A k \in CacheKeys : ~(Empty[k].left > 0)  BY DEF Empty, NoEntry
    <3>2. \A k \in CacheKeys :
             Empty[k].left > 0 => Empty[k].snapshot \in {Fixtures} \cup 0 .. written'
      BY <3>1
    <3>3. 0 <= written' /\ written <= written' /\ 0 \in 0 .. MaxWrites  BY <2>1
    <3>4. QED  BY <1>0, <2>1, <3>2, <3>3, OwnCacheSuffices
  <2>5. QED  BY <2>2, <2>3, <2>4 DEF CacheInv
<1>8. ASSUME Tick
      PROVE  CacheInv'
  <2>1. /\ cached' = [p \in Processes |-> [k \in CacheKeys |-> Aged(cached[p][k])]]
        /\ UNCHANGED <<production, written, ownWrite, loadingKey, sawFirst>>
    BY <1>8 DEF Tick
  <2>2. \A p \in Processes, k \in CacheKeys : cached[p][k] \in Entry  BY <1>t DEF CacheTypeOK
  <2>3. CacheTypeOK'
    BY <1>0, <1>t, <2>1, <2>2 DEF CacheTypeOK
  <2>4. LoadsAreRecent'  BY <1>t, <2>1 DEF LoadsAreRecent
  <2>5. ReadsOwnWrites'
    <3> SUFFICES ASSUME NEW p \in Processes, NEW k \in CacheKeys, Serving(p, k)'
                 PROVE  cached'[p][k].snapshot \in {Fixtures} \cup ownWrite'[p] .. written'
      BY DEF ReadsOwnWrites
    <3>1. cached'[p][k] = Aged(cached[p][k])  BY <2>1
    <3>2. Aged(cached[p][k]).left > 0  BY <3>1 DEF Serving
    <3>3. cached[p][k].left > 0 /\ Aged(cached[p][k]).snapshot = cached[p][k].snapshot
      BY <2>2, <3>2, EntriesStayEntries
    <3>4. QED  BY <1>t, <2>1, <3>1, <3>3 DEF ReadsOwnWrites, Serving
  <2>6. QED  BY <2>3, <2>4, <2>5 DEF CacheInv
<1>9. CASE UNCHANGED cacheVars
  BY <1>9, <1>t DEF cacheVars, CacheInv, CacheTypeOK, LoadsAreRecent, ReadsOwnWrites, Serving
<1>10. QED
  BY <1>1, <1>2, <1>3, <1>4, <1>5, <1>6, <1>7, <1>8, <1>9 DEF CacheNext

(* The invariant holds in every reachable state (repository.py:36-283).     *)
LEMMA CacheInvHolds == CacheSpec => []CacheInv
<1>1. QED  BY CacheInitInv, CacheNextInv, PTL DEF CacheSpec

(* The state of the cache stays within its types (repository.py:36-43).     *)
THEOREM CacheTypeCorrect == CacheSpec => []CacheTypeOK
<1>1. CacheInv => CacheTypeOK  BY DEF CacheInv
<1>2. QED  BY <1>1, CacheInvHolds, PTL

(* Whatever the number of processes, keys and commits: what a process serves*)
(* from its cache holds every write the process made and announced itself,  *)
(* or is the fixtures of a failed load (repository.py:46-49, 57-86).        *)
THEOREM ReadsOwnWritesHolds == CacheSpec => []ReadsOwnWrites
<1>1. CacheInv => ReadsOwnWrites  BY DEF CacheInv
<1>2. QED  BY <1>1, CacheInvHolds, PTL
=============================================================================
