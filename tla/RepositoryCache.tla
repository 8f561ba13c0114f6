--------------------------- MODULE RepositoryCache ---------------------------
(* The snapshot cache of every API process, repository.py:36-283. A process *)
(* runs one handler at a time (the routes are coroutines that never await   *)
(* in here), so what interleaves is the processes: uvicorn workers, pods    *)
(* and the trading workers share the database and nothing else. A load is a *)
(* sequence of SELECTs, each seeing the commits before it (READ COMMITTED); *)
(* a snapshot is named after the oldest of them, its first SELECT.          *)
EXTENDS Integers

CONSTANTS
    Processes,
    CacheKeys,      \* tenants, and "*" for the platform
    TTL,            \* _CACHE_TTL_SECONDS in ticks
    MaxWrites,      \* bound on the commits of a behaviour
    NoKey

ASSUME CacheAssumption ==
    /\ TTL \in Nat \ {0}
    /\ MaxWrites \in Nat
    /\ NoKey \notin CacheKeys

VARIABLES
    production,     \* settings.is_production
    written,        \* commits so far, by anyone
    ownWrite,       \* process -> its last commit that clears the cache
    cached,         \* process -> key -> the snapshot and the ticks it is good for
    loadingKey,     \* process -> the key it loads, or NoKey
    sawFirst        \* process -> what the first SELECT of the load saw

cacheVars == <<production, written, ownWrite, cached, loadingKey, sawFirst>>

Fixtures == -1      \* load_repository(): older than every commit
Versions == Fixtures .. MaxWrites
Entry == [snapshot: Versions, left: 0 .. TTL]
NoEntry == [snapshot |-> Fixtures, left |-> 0]
Empty == [k \in CacheKeys |-> NoEntry]
Fresh(snapshot) == [snapshot |-> snapshot, left |-> TTL]
Serving(p, k) == cached[p][k].left > 0
Outdated(p, k) == Serving(p, k) /\ cached[p][k].snapshot < written

CacheTypeOK ==
    /\ production \in BOOLEAN
    /\ written \in 0 .. MaxWrites
    /\ ownWrite \in [Processes -> 0 .. MaxWrites]
    /\ cached \in [Processes -> [CacheKeys -> Entry]]
    /\ loadingKey \in [Processes -> CacheKeys \cup {NoKey}]
    /\ sawFirst \in [Processes -> 0 .. MaxWrites]

CacheInit ==
    /\ production \in BOOLEAN
    /\ written = 0
    /\ ownWrite = [p \in Processes |-> 0]
    /\ cached = [p \in Processes |-> Empty]
    /\ loadingKey = [p \in Processes |-> NoKey]
    /\ sawFirst = [p \in Processes |-> 0]

(* A cache whose hits renew the expiry.                                     *)
HitRenews(p, k) ==
    /\ loadingKey[p] = NoKey
    /\ Serving(p, k)
    /\ cached' = [cached EXCEPT ![p][k].left = TTL]
    /\ UNCHANGED <<production, written, ownWrite, loadingKey, sawFirst>>

Hit(p, k) ==
    /\ loadingKey[p] = NoKey
    /\ Serving(p, k)
    /\ UNCHANGED cacheVars

LoadBegins(p, k) ==
    /\ loadingKey[p] = NoKey
    /\ ~Serving(p, k)
    /\ loadingKey' = [loadingKey EXCEPT ![p] = k]
    /\ sawFirst' = [sawFirst EXCEPT ![p] = written]
    /\ UNCHANGED <<production, written, ownWrite, cached>>

LoadReturns(p) ==
    /\ loadingKey[p] # NoKey
    /\ loadingKey' = [loadingKey EXCEPT ![p] = NoKey]
    /\ sawFirst' = [sawFirst EXCEPT ![p] = 0]
    /\ UNCHANGED <<production, written, ownWrite>>

LoadEnds(p) ==
    /\ LoadReturns(p)
    /\ cached' = [cached EXCEPT ![p][loadingKey[p]] = Fresh(sawFirst[p])]

(* Production reports the failure, any other environment serves and caches  *)
(* the fixtures.                                                            *)
LoadFails(p) ==
    /\ LoadReturns(p)
    /\ cached' = IF production THEN cached
                 ELSE [cached EXCEPT ![p][loadingKey[p]] = Fresh(Fixtures)]

(* A write that drops the snapshot of one tenant only.                      *)
WriteClearsOne(p) ==
    /\ loadingKey[p] = NoKey
    /\ written < MaxWrites
    /\ written' = written + 1
    /\ ownWrite' = [ownWrite EXCEPT ![p] = written']
    /\ \E k \in CacheKeys : cached' = [cached EXCEPT ![p][k] = NoEntry]
    /\ UNCHANGED <<production, loadingKey, sawFirst>>

(* A write of this process commits, then invalidate_repository_cache clears *)
(* every key; no other handler of the process runs in between.              *)
Write(p) ==
    /\ loadingKey[p] = NoKey
    /\ written < MaxWrites
    /\ written' = written + 1
    /\ ownWrite' = [ownWrite EXCEPT ![p] = written']
    /\ cached' = [cached EXCEPT ![p] = Empty]
    /\ UNCHANGED <<production, loadingKey, sawFirst>>

(* A write that clears no API process: by a trading worker or a cron run of *)
(* one, by enqueue_task and request_dispatch_approval, which skip it, or by *)
(* the repositories of the VPP, the twin, the energy platform, the EMS, the *)
(* models and the assurance, whose audit entries the snapshots hold.        *)
WriteUnannounced ==
    /\ written < MaxWrites
    /\ written' = written + 1
    /\ UNCHANGED <<production, ownWrite, cached, loadingKey, sawFirst>>

ProcessRestarts(p) ==
    /\ ownWrite' = [ownWrite EXCEPT ![p] = 0]
    /\ cached' = [cached EXCEPT ![p] = Empty]
    /\ loadingKey' = [loadingKey EXCEPT ![p] = NoKey]
    /\ sawFirst' = [sawFirst EXCEPT ![p] = 0]
    /\ UNCHANGED <<production, written>>

(* An entry that outlives its time to live.                                 *)
AgedPastZero(entry) == [entry EXCEPT !.left = @ - 1]

Aged(entry) == IF entry.left > 1 THEN [entry EXCEPT !.left = @ - 1] ELSE NoEntry

Tick ==
    /\ \E p \in Processes, k \in CacheKeys : Serving(p, k)
    /\ cached' = [p \in Processes |-> [k \in CacheKeys |-> Aged(cached[p][k])]]
    /\ UNCHANGED <<production, written, ownWrite, loadingKey, sawFirst>>

CacheNext ==
    \/ \E p \in Processes :
        \/ \E k \in CacheKeys : Hit(p, k) \/ LoadBegins(p, k)
        \/ LoadEnds(p) \/ LoadFails(p) \/ Write(p) \/ ProcessRestarts(p)
    \/ WriteUnannounced
    \/ Tick

CacheSpec == CacheInit /\ [][CacheNext]_cacheVars

-----------------------------------------------------------------------------
(* A process never serves a snapshot of the database that lacks one of its  *)
(* own announced writes, those that end in invalidate_repository_cache,     *)
(* whichever tenant wrote and whichever key is read (repository.py:46-49,   *)
(* 70-86): only the fixtures of a failed load are older. Of its other writes*)
(* it promises no more than StaleExpires does.                              *)
ReadsOwnWrites ==
    \A p \in Processes, k \in CacheKeys :
        Serving(p, k) => cached[p][k].snapshot \in {Fixtures} \cup ownWrite[p] .. written

(* What a process serves but the database has outgrown, by a write of       *)
(* another process, during the load, or because the fixtures were cached,   *)
(* it serves for a time only, however often it is read (repository.py:41,   *)
(* 73, 84).                                                                 *)
StaleExpires ==
    \A p \in Processes, k \in CacheKeys : Outdated(p, k) ~> ~Outdated(p, k)
=============================================================================
