---------------------------- MODULE EvidenceStore ----------------------------
(* The append-only evidence ledgers behind an idempotency key. The ledger of *)
(* the advanced EMS looks for the key and then inserts, in one transaction   *)
(* under READ COMMITTED (advanced_ems_repository.py:12-91); those of the     *)
(* energy platform, of the simulations and of the field qualification insert *)
(* ON CONFLICT DO NOTHING (energy_platform_repository.py:236-286,            *)
(* digital_twin_repository.py:425-481, 776-830). An input stands for what a  *)
(* request asks and for the result computed from it; the input_hash of an EMS*)
(* request covers only a part of it: the station, and for several evidence   *)
(* types the evidence class, are left out or set after the hash was taken    *)
(* (grid_ems.py:111-114, 166-176, advanced_ems.py:173-186, app.py:2137).     *)
EXTENDS Naturals

CONSTANTS
    Requests,       \* HTTP calls that compute and persist
    IdempotencyKeys,\* of one tenant and one evidence type
    Unscoped,       \* the keys of qualification evidence that name no station
    Hashed,         \* what of a request its input_hash covers
    Unhashed,       \* what it leaves out: station and evidence class
    NoInput         \* a request that was not made yet

Inputs == [hashed: Hashed, unhashed: Unhashed]

ASSUME LedgerAssumption ==
    /\ NoInput \notin Inputs
    /\ IdempotencyKeys # {}
    /\ Unscoped \subseteq IdempotencyKeys

FirstStays == {"energy", "simulation", "qualification"}
Ledgers == {"ems"} \cup FirstStays

VARIABLES
    ledger,         \* ledger -> key -> the inputs of its immutable rows
    request,        \* request -> where it is and what it asks
    answer          \* request -> what the client was told

ledgerVars == <<ledger, request, answer>>

NoRequest == [at |-> "idle", key |-> CHOOSE k \in IdempotencyKeys : TRUE, input |-> NoInput]
Stages == {"idle", "look", "insert", "answered", "conflict", "failed"}
NoAnswer == [of |-> "none", input |-> NoInput, replayed |-> FALSE]
Stored(l, k) == ledger[l][k] # {}

LedgerTypeOK ==
    /\ ledger \in [Ledgers -> [IdempotencyKeys -> SUBSET Inputs]]
    /\ request \in [Requests -> [at: Stages, key: IdempotencyKeys, input: Inputs \cup {NoInput}]]
    /\ answer \in [Requests -> [of: Ledgers \cup {"none"}, input: Inputs \cup {NoInput},
                                replayed: BOOLEAN]]

LedgerInit ==
    /\ ledger = [l \in Ledgers |-> [k \in IdempotencyKeys |-> {}]]
    /\ request = [q \in Requests |-> NoRequest]
    /\ answer = [q \in Requests |-> NoAnswer]

Compute(q, k, i) ==
    /\ request[q].at = "idle"
    /\ request' = [request EXCEPT ![q] = [at |-> "look", key |-> k, input |-> i]]
    /\ UNCHANGED <<ledger, answer>>

Reply(q, l, i, replayed) ==
    /\ request' = [request EXCEPT ![q].at = "answered"]
    /\ answer' = [answer EXCEPT ![q] = [of |-> l, input |-> i, replayed |-> replayed]]

(* A replay that does not compare the inputs.                               *)
EmsLooksUnchecked(q) ==
    LET asked == request[q]
        rows == ledger["ems"][asked.key]
    IN  /\ asked.at = "look"
        /\ \/ \E row \in rows : Reply(q, "ems", row, TRUE)
           \/ rows = {} /\ request' = [request EXCEPT ![q].at = "insert"] /\ UNCHANGED answer
        /\ UNCHANGED ledger

(* The stored result is replayed for inputs of the same hash, and a key that*)
(* was used with another hash is refused.                                   *)
EmsLooks(q) ==
    LET asked == request[q]
        rows == ledger["ems"][asked.key]
    IN  /\ asked.at = "look"
        /\ \/ \E row \in rows :
                /\ row.hashed = asked.input.hashed
                /\ Reply(q, "ems", row, TRUE)
           \/ /\ \E row \in rows : row.hashed # asked.input.hashed
              /\ request' = [request EXCEPT ![q].at = "conflict"]
              /\ UNCHANGED answer
           \/ rows = {} /\ request' = [request EXCEPT ![q].at = "insert"] /\ UNCHANGED answer
        /\ UNCHANGED ledger

Inserted(l, k, i) == ledger' = [ledger EXCEPT ![l][k] = @ \cup {i}]

(* The unique key: the request that looked first and inserts second fails.  *)
EmsInserts(q) ==
    LET asked == request[q]
    IN  /\ asked.at = "insert"
        /\ IF Stored("ems", asked.key)
           THEN /\ request' = [request EXCEPT ![q].at = "failed"]
                /\ UNCHANGED <<ledger, answer>>
           ELSE /\ Inserted("ems", asked.key, asked.input)
                /\ Reply(q, "ems", asked.input, FALSE)

(* The other ledgers keep the first row and say so, but answer with what    *)
(* this request computed.                                                   *)
InsertUnless(q, l, duplicate) ==
    LET asked == request[q]
    IN  /\ asked.at = "look"
        /\ IF duplicate THEN UNCHANGED ledger ELSE Inserted(l, asked.key, asked.input)
        /\ Reply(q, l, asked.input, duplicate)

EnergyPersists(q) == InsertUnless(q, "energy", Stored("energy", request[q].key))
PersistSimulation(q) == InsertUnless(q, "simulation", Stored("simulation", request[q].key))

(* NULL stations are distinct to the UNIQUE constraint: evidence without a  *)
(* station never conflicts, and each request adds a row.                    *)
RecordQualificationEvidence(q) ==
    InsertUnless(q, "qualification",
                 request[q].key \notin Unscoped /\ Stored("qualification", request[q].key))

LedgerNext ==
    \E q \in Requests :
        \/ \E k \in IdempotencyKeys, i \in Inputs : Compute(q, k, i)
        \/ EmsLooks(q) \/ EmsInserts(q)
        \/ EnergyPersists(q) \/ PersistSimulation(q) \/ RecordQualificationEvidence(q)

LedgerSpec == LedgerInit /\ [][LedgerNext]_ledgerVars

-----------------------------------------------------------------------------
(* Whoever is answered by the EMS ledger holds the result that the ledger   *)
(* keeps under its key, computed from inputs of the hash of those it sent,  *)
(* and unless it is told of a replay from the very inputs, whatever else was*)
(* sent under that key at the same time. A replay may be another station's, *)
(* or of another evidence class. An answer of the other ledgers may differ  *)
(* from the row it names, but only one that says it is a replay             *)
(* (advanced_ems_repository.py:38-60, app.py:759-770, 706-724).             *)
AnswersAreKept ==
    \A q \in Requests :
        LET told == answer[q]
            asked == request[q].input
            kept == ledger[told.of][request[q].key]
        IN  /\ told.of = "ems" =>
                 /\ told.input \in kept /\ told.input.hashed = asked.hashed
                 /\ ~told.replayed => told.input = asked
            /\ told.of \in FirstStays /\ ~told.replayed => told.input \in kept

(* Only qualification evidence without a station has several rows           *)
(* (migrations/015_digital_twin.sql:252).                                   *)
OneRowPerKey ==
    \A l \in Ledgers, k \in IdempotencyKeys :
        (l = "qualification" /\ k \in Unscoped) \/ \A i, j \in ledger[l][k] : i = j

(* Both: what a client is told is the one row of its key.                   *)
AnswerIsEvidence == AnswersAreKept /\ OneRowPerKey
=============================================================================
