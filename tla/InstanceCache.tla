--------------------------- MODULE InstanceCache ---------------------------
(***************************************************************************)
(* The instance cache of one server (src/cache/instance.go on top of the   *)
(* baseCache of src/cache/cache.go) and the instance table it polls. The   *)
(* writers are transactions on the master database; the cache reads a      *)
(* replica, a window of DiffTime at a time, and compares its number of     *)
(* instances with the master's once in a while (checkAll). All instances   *)
(* belong to one service name, whose service may be deleted and created    *)
(* again, with another identifier.                                         *)
(***************************************************************************)
EXTENDS Integers, FiniteSets

CONSTANTS Instance,    \* identifiers of instances
          DiffTime,    \* the overlap of two fetches (cache.DefaultTimeDiff, in seconds)
          Delay,       \* a write is visible in the replica this long after its mtime
          StartTime,   \* the clock of the database at the start
          MaxTime,     \* bound on the clock
          MaxWrites,   \* bound on the statements
          MaxService,  \* bound on the identifiers of the service
          MaxFail,     \* bound on the fetches that fail
          MayClean     \* TRUE iff deleted rows may be removed

ASSUME InstanceCacheConstants ==
    /\ DiffTime \in Nat /\ Delay \in Nat /\ StartTime \in Nat /\ MaxTime \in Nat
    /\ MaxWrites \in Nat /\ MaxService \in Nat /\ MaxFail \in Nat
    /\ 1 <= StartTime /\ DiffTime <= StartTime /\ StartTime <= MaxTime
    /\ 1 <= MaxService
    /\ MayClean \in BOOLEAN
    /\ IsFiniteSet(Instance)

VARIABLES
    now,            \* the clock of the database
    service,        \* the identifier of the service
    writes,         \* the number of statements so far, which also names revisions
    open,           \* the instances a transaction has written and locks
    tx,             \* tx[i]: the row that the transaction on i writes
    master,         \* master[i]: the committed row of i
    slave,          \* slave[i]: the row of i in the replica
    pc,             \* where the update of the cache is
    cur,            \* curStoreTime of the update
    lastFetchTime, firtstUpdate, ids, services, instanceCount, instanceCounts,
    fails           \* the number of failed fetches

store == <<service, writes, open, tx, master, slave>>
index == <<ids, services, instanceCount, instanceCounts>>
cache == <<pc, cur, lastFetchTime, firtstUpdate, index, fails>>
vars == <<now, store, cache>>

Service == 1..MaxService
Time == 0..MaxTime
Row == [svc : 0..MaxService, rev : 0..MaxWrites, flag : {0, 1}, mtime : Time]
NoRow == [svc |-> 0, rev |-> 0, flag |-> 1, mtime |-> 0]
Inst == [svc : 0..MaxService, rev : 0..MaxWrites]
NoInst == [svc |-> 0, rev |-> 0]

TypeOK ==
    /\ now \in StartTime..MaxTime
    /\ service \in Service /\ writes \in 0..MaxWrites
    /\ open \subseteq Instance
    /\ tx \in [Instance -> Row]
    /\ master \in [Instance -> Row]
    /\ slave \in [Instance -> Row]
    /\ pc \in {"idle", "fetch", "check"}
    /\ cur \in 1..MaxTime /\ lastFetchTime \in 1..MaxTime
    /\ firtstUpdate \in BOOLEAN
    /\ ids \in [Instance -> Inst]
    /\ services \in [Service -> [Instance -> Inst]]
    /\ instanceCount \in Int
    /\ instanceCounts \in [Service -> Nat]
    /\ fails \in 0..MaxFail

Init ==
    /\ now = StartTime /\ service = 1 /\ writes = 0
    /\ open = {}
    /\ tx = [i \in Instance |-> NoRow]
    /\ master = [i \in Instance |-> NoRow]
    /\ slave = [i \in Instance |-> NoRow]
    /\ pc = "idle" /\ cur = 1 /\ lastFetchTime = 1 /\ firtstUpdate = TRUE
    /\ ids = [i \in Instance |-> NoInst]
    /\ services = [s \in Service |-> [i \in Instance |-> NoInst]]
    /\ instanceCount = 0
    /\ instanceCounts = [s \in Service |-> 0]
    /\ fails = 0
-----------------------------------------------------------------------------
(***************************************************************************)
(* The store. A statement takes the lock of the row and its mtime          *)
(* (sysdate()); others see the row once the transaction commits.           *)
(***************************************************************************)
Exec(i, row) ==
    /\ i \notin open /\ writes < MaxWrites
    /\ open' = open \cup {i}
    /\ tx' = [tx EXCEPT ![i] = row]
    /\ writes' = writes + 1
    /\ UNCHANGED <<now, service, master, slave, cache>>

\* addInstance and batchAddInstances: "replace into instance".
AddInstance(i) ==
    Exec(i, [svc |-> service, rev |-> writes + 1, flag |-> 0, mtime |-> now])

\* A mutant: the update keeps the mtime of the row.
UpdateKeepsMtime(i) ==
    /\ master[i] # NoRow
    /\ Exec(i, [master[i] EXCEPT !.rev = writes + 1])

\* updateInstance, SetInstanceHealthStatus and the other updates by id. None
\* of them looks at the flag of the row.
UpdateInstance(i) ==
    /\ master[i] # NoRow
    /\ Exec(i, [master[i] EXCEPT !.rev = writes + 1, !.mtime = now])

\* DeleteInstance sets the flag and keeps the row.
DeleteInstance(i) ==
    /\ master[i] # NoRow
    /\ Exec(i, [master[i] EXCEPT !.flag = 1, !.mtime = now])

\* CleanInstance removes a deleted row, however recent the deletion.
CleanInstance(i) ==
    /\ MayClean
    /\ master[i] # NoRow /\ master[i].flag = 1
    /\ Exec(i, NoRow)

EndTx(i) ==
    /\ i \in open
    /\ open' = open \ {i}
    /\ tx' = [tx EXCEPT ![i] = NoRow]
    /\ UNCHANGED <<now, service, writes, slave, cache>>

Commit(i) == EndTx(i) /\ master' = [master EXCEPT ![i] = tx[i]]
Rollback(i) == EndTx(i) /\ UNCHANGED master

\* The replica catches up.
Replicate ==
    /\ slave # master
    /\ slave' = master
    /\ UNCHANGED <<now, service, writes, open, tx, master, cache>>

\* DeleteService, which wants no instance left, and CreateService: the same
\* name has a new identifier, and its instances the same ones as before.
RecreateService ==
    /\ service < MaxService
    /\ \A i \in Instance : master[i].svc = service => master[i].flag = 1
    /\ service' = service + 1
    /\ UNCHANGED <<now, writes, open, tx, master, slave, cache>>

\* Time does not outrun a write that the replica has yet to show.
Tick ==
    /\ now < MaxTime
    /\ \A i \in open : tx[i] # NoRow => now - tx[i].mtime < Delay
    /\ \A i \in Instance :
          master[i] # slave[i] /\ master[i] # NoRow => now - master[i].mtime < Delay
    /\ now' = now + 1
    /\ UNCHANGED <<store, cache>>
-----------------------------------------------------------------------------
(***************************************************************************)
(* The update of the cache (one at a time, by the singleflight group).     *)
(***************************************************************************)
\* A mutant: without an answer it takes the 0 that GetUnixSecond returns.
ReadTimeZero ==
    /\ pc = "idle"
    /\ cur' \in {now, 0}
    /\ pc' = "fetch"
    /\ UNCHANGED <<now, store, lastFetchTime, firtstUpdate, index, fails>>

\* doCacheUpdate reads the time of the master, before it fetches. Without an
\* answer it keeps the time of the fetch before.
ReadTime ==
    /\ pc = "idle"
    /\ cur' \in {now, lastFetchTime}
    /\ pc' = "fetch"
    /\ UNCHANGED <<now, store, lastFetchTime, firtstUpdate, index, fails>>

\* A mutant: the window of a fetch starts where the last one ended.
NoOverlap == lastFetchTime

\* The lower bound of the window.
LastFetchTime ==
    IF lastFetchTime - DiffTime < 0 THEN lastFetchTime ELSE lastFetchTime - DiffTime

\* The instances whose row the query returns.
GetMoreInstances ==
    {i \in Instance : /\ slave[i] # NoRow
                      /\ slave[i].mtime >= LastFetchTime
                      /\ firtstUpdate => slave[i].flag # 1}

\* What the cache holds for a row.
Cached(row) == IF row.flag = 1 THEN NoInst ELSE [svc |-> row.svc, rev |-> row.rev]

Present(map) == {i \in Instance : map[i] # NoInst}

\* A mutant: a deletion is counted each time it is fetched.
CountEveryDeletion(ins) ==
    instanceCount + Cardinality({i \in ins : slave[i].flag = 0 /\ ids[i] = NoInst})
                  - Cardinality({i \in ins : slave[i].flag = 1})

\* instanceCount after setInstances: created minus deleted instances.
CountAfter(ins) ==
    instanceCount + Cardinality({i \in ins : slave[i].flag = 0 /\ ids[i] = NoInst})
                  - Cardinality({i \in ins : slave[i].flag = 1 /\ ids[i] # NoInst})

\* The two maps after setInstances. A map of a service other than the one in
\* the row is not touched.
SetMaps(ins) ==
    /\ ids' = [i \in Instance |-> IF i \in ins THEN Cached(slave[i]) ELSE ids[i]]
    /\ services' = [s \in Service |-> [i \in Instance |->
                       IF i \in ins /\ slave[i].svc = s
                       THEN Cached(slave[i]) ELSE services[s][i]]]

\* setInstances, with the counts of postProcessUpdatedServices.
SetInstances(ins) ==
    /\ SetMaps(ins)
    /\ instanceCount' = CountAfter(ins)
    /\ instanceCounts' = [s \in Service |->
                             IF \E i \in ins : slave[i].svc = s
                             THEN Cardinality(Present(services'[s]))
                             ELSE instanceCounts[s]]

\* realUpdate and the rest of doCacheUpdate.
RealUpdate ==
    /\ pc = "fetch"
    /\ SetInstances(GetMoreInstances)
    /\ firtstUpdate' = FALSE
    /\ lastFetchTime' = cur
    /\ cur' = 1 /\ pc' = "check"
    /\ UNCHANGED <<now, store, fails>>

\* GetMoreInstances fails; the deferred assignment moves lastFetchTime on.
FetchFails ==
    /\ pc = "fetch" /\ fails < MaxFail
    /\ fails' = fails + 1
    /\ lastFetchTime' = cur
    /\ cur' = 1 /\ pc' = "check"
    /\ UNCHANGED <<now, store, firtstUpdate, index>>

\* GetInstancesCount.
StoreCount == Cardinality({i \in Instance : master[i].flag = 0})

\* A mutant: as in serviceCache.checkAll, the next fetch is not a full one.
CheckResetsNothing ==
    /\ pc = "check"
    /\ pc' = "idle"
    /\ UNCHANGED <<now, store, cur, lastFetchTime, firtstUpdate, index, fails>>

\* checkAll when it is due, every checkAllIntervalSec.
CheckAll ==
    /\ pc = "check"
    /\ lastFetchTime' = IF instanceCount = StoreCount THEN lastFetchTime ELSE 1
    /\ pc' = "idle"
    /\ UNCHANGED <<now, store, cur, firtstUpdate, index, fails>>

\* checkAll when it is not due, or cannot count the instances of the store.
SkipCheck ==
    /\ pc = "check"
    /\ pc' = "idle"
    /\ UNCHANGED <<now, store, cur, lastFetchTime, firtstUpdate, index, fails>>
-----------------------------------------------------------------------------
StoreNext ==
    \/ \E i \in Instance : \/ AddInstance(i) \/ UpdateInstance(i)
                           \/ DeleteInstance(i) \/ CleanInstance(i)
                           \/ Commit(i) \/ Rollback(i)
    \/ Replicate \/ RecreateService \/ Tick

Update == ReadTime \/ RealUpdate \/ FetchFails \/ CheckAll \/ SkipCheck

Next == StoreNext \/ Update

Spec == Init /\ [][Next]_vars

\* Transactions end, the replica catches up, the ticker of CacheManager.Start
\* drives the updates, and checkAll is due again and again.
Fairness ==
    /\ \A i \in Instance : WF_vars(Commit(i) \/ Rollback(i))
    /\ WF_vars(Replicate)
    /\ WF_vars(Update)
    /\ SF_vars(CheckAll)

FairSpec == Spec /\ Fairness
-----------------------------------------------------------------------------
(***************************************************************************)
(* Safety.                                                                 *)
(***************************************************************************)
\* A committed change that the cache does not show has an mtime inside the
\* window of the next fetch: the overlap of DiffTime covers a slow commit, a
\* replica that is behind, a time that could not be read, and the seconds
\* between the reading of the time and the fetch (doCacheUpdate), unless a fetch
\* has failed.
NothingMissed ==
    fails = 0 =>
        \A i \in Instance :
            master[i] # NoRow /\ ids[i] # Cached(master[i]) => master[i].mtime >= LastFetchTime

\* What GetInstance returns is what the lists by service return, and the
\* counts are those of the maps, however often a row is fetched again
\* (setInstances).
IndexAgrees ==
    /\ \A i \in Present(ids) : services[ids[i].svc][i] = ids[i]
    /\ instanceCount = Cardinality(Present(ids))
    /\ \A s \in Service : instanceCounts[s] = Cardinality(Present(services[s]))

\* The maps of the cache are well-formed and agree with each other.
CacheSound == TypeOK /\ IndexAgrees

\* GetInstancesByServiceID lists only instances of that service.
ListedInService ==
    \A s \in Service : \A i \in Present(services[s]) : ids[i] = services[s][i]
-----------------------------------------------------------------------------
(***************************************************************************)
(* Liveness.                                                               *)
(***************************************************************************)
\* Once the writes end, the cache shows the rows of the store as they are,
\* unless a fetch has failed (update and its window).
CacheSettles ==
    <>[](fails = 0 => \A i \in Instance : master[i] # NoRow => ids[i] = Cached(master[i]))

\* Once the writes and the failures end, checkAll has brought the number of
\* instances to that of the store, even where fetches failed and their
\* changes are out of the window; an instance whose row was removed before the
\* cache had seen its deletion is beyond checkAll.
CountSettles ==
    <>[]((\A i \in Instance : master[i] = NoRow => ids[i] = NoInst) => instanceCount = StoreCount)

\* Once the writes and the failures end, the cache has caught up with the store.
CatchesUp == CacheSettles /\ CountSettles
=============================================================================
