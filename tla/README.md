# Formal model of the Polaris server

TLA+ modules, model-checking configurations and TLAPS proofs for this server (under
`src/`): the parts in which several actors share state (servers that elect a leader
through a database row, goroutines behind channels, caches that follow tables, clients
that wait for news), and the handlers, tables and caches of the registry, the
configuration centre and the management of users.

A server registers services and their instances, checks their health, answers discovery
requests from caches and pushes configuration files. Several servers share one MySQL
database, or one server has an embedded one; servers talk to each other only for
heartbeats.

```
 clients ── HTTP, gRPC, Eureka, L5, xDS ──► service / config / auth / namespace
                                                │ writes          ▲ reads
                                                ▼                 │
   leader election ◄──► store (MySQL or bolt) ─► replica ──► caches ──► revisions
        │ events              ▲                               │ events
        ▼ (event hub)         │ status                        ▼
   leader or redis health checker ◄── heartbeats     check scheduler (time wheel)
```

## 1. Inventory

| Part | State | Operations | What is hard |
|---|---|---|---|
| leader election, `store/mysql/admin.go` | the row, one state machine per server and key | tick: heartbeat, check, elect; release; start | statements of several servers interleave, fail, or come late; clocks of the database |
| batch controller, `common/batchjob` | task channel, one channel per worker, idle tokens | submit, gather, hand over, answer, two kinds of stop | channels that are full or closed, a stop in any state |
| leader health checker, `plugin/healthchecker/leader` | role, peer, streams, records | leader events, Report, Check, Query, Delete | events out of order, retries of old connections, records lost with a leader |
| configuration watch, `config` | connections, watchers per file | hold, notify, time out, remove | notifier and timeout worker answer the same request |
| release scanner and file cache, `config/scanner.go`, `cache/config_file.go` | time of the last scan, entries, load locks | scan, get, load, reload, remove, expire | loads that overlap publications |
| cache framework and instance cache, `cache/cache.go`, `cache/instance.go` | window, indexes, count | poll, check all | transactions and replica behind the clock, failed polls |
| revisions and discovery of instances, `cache/cache.go`, `service/client_v1.go` | revision per service | notify, compute, answer | two workers on one service, answers put together from several reads |
| health check, `service/healthcheck`, `plugin/healthchecker/redis` | known, scheduled and adopted instances, time wheel, heartbeat records | poll, dispatch, callback, write, report, start, stop | servers that share the checks, outages, callbacks of removed instances |
| stores, `store/mysql`, `store/boltdb` | some 25 tables, twice | the methods of `store.Store` | two programs for one interface |
| registry, `namespace`, `service`, `service/batch`, `admin` | namespaces, services, aliases, instances, clients, rules | handlers, batches, jobs | deletions that depend on other tables, rules of two versions |
| caches of services, rules, users | indexes of several levels, revisions, counts | poll, query | rows that move between buckets, polled in any order |
| configuration centre, `config` | files, groups, tags, templates, releases, history | handlers, import, export | five tables written one after the other |
| users, groups, strategies, `auth/defaultauth` | accounts, memberships, strategies with principals and resources | handlers, hook after a write | links of three kinds, default strategies |
| HTTP, gRPC, Eureka, L5, xDS servers, plugins, libraries | application lists, replication queues | translate, replicate | see section 6 |

`PROJECT.json` lists all parts with what is modelled of each, and the hazards with the
line where each of them bites.

Properties the server is expected to have, in words: there is at most one leader once
things are calm, and there is one again after failures; an accepted task is answered
once; a live instance is not taken down and a dead one is; every instance is checked by
one server; a client that watches a file gets the next release, never an older one; a
cache ends with what the table has; a client that trusts a revision has the data of that
revision; nothing outlives what it belongs to; it makes no difference which store is used.

## 2. Modules

`MC*` modules give the constants of a component the values that a configuration cannot
write. Operators named as mutants in comments (`...NoReset`, `...Anyway`) are plausible
mistakes that the properties have to notice; no specification uses them.

### Processes and their interleavings

**LeaderElection.** One row (`leader`, version, age) and one machine per server. The
steps of `tick` are separate actions wherever the code talks to the database:
`Heartbeat`, then `HeartbeatOk`, `HeartbeatAbort` or `HeartbeatError`; `CheckLeaderDead`
with `CheckAlive`, `CheckDead`, `CheckError`; `GetVersion`; `Swap` with its three ends. Faults
are failing statements, stalls, crashes with restarts, and releases; each takes one off
`MaxFaults`. Time is counted in ticks of the database; `DiffTime` models the subtraction
of datetimes as MySQL does it, on their digits, with `carry` for the end of a minute or
a year. Versions are `0..VersionSize-1`, an int64 made small.

**BatchController.** Callers (`Submit`, `Enqueue`, `SubmitTimeout`, `Done`,
`DoneTimeout`), the main loop (`MainReceive`, `MainTicker`, `TakeIdle`, `SendBatch`, and
the stop function step by step), workers, and callers of `Stop` and `GracefulStop`. The
channels are sequences with their capacity, and closing one is a step. A handler may
panic `MaxPanics` times, after it has replied to any of the futures of its batch: the
worker recovers and goes on, and nobody replies to the others (`outcome` is `"dropped"`).

**LeaderChecker.** One instance, several servers. `Elect`, `Notice` and `Release` are
the election as the checker sees it; the event hub holds a set of events under way, of
which any may come next. `OnEvent` is the handler with `becomeLeader` and `becomeFollower`
inside; failed connections leave goroutines (`retry`) that act only while `fresh`.
`Report`, `Check` and `Delete` are routed through peers as the code does, without
the mark of a forwarded request, which the code does not send: `Ends` is where such a way
through the remote peers ends, if it does. Ages are counted up to `Expire` (three ttl).
`Disturbances` are the mixes of what may happen beside ordinary elections (a change of
leader, a release, a crash, an error of a connection), each up to `Times` times.

**ConfigWatch.** Requests, the scanner, the notifier and the timeout worker, each step a
goroutine can be interrupted at: the lookup, the double check and the store of
`AddWatcher`; send, close, remove and delete of the callback; range, send, remove and
delete of the timeout worker. A send on a closed channel ends the process (`crashed`).
`Overdue` is the passing of 30 seconds. With `MayFail` the store may fail where the file
cache loads: for a request (which ends it), for a fetch, and for the scanner. `Fetch`
follows the code in one more case: the entry is tested for being empty before the reload
only, so that a client that is ahead of a release deleted meanwhile gets version 0. The
file cache is one step here and has a module of its own:

**ConfigFileCache.** One file: `Lookup`, `Lock`, read of the store, `Store`, `Remove`,
by readers (`GetConfigFileForClient`, which reloads for a client that is ahead) and
by the scanner; administrators whose publication and deletion read in one step
and write in another; expiry of entries; failing loads. The scanner looks at the releases
of the last second or so; `ScanRead` takes the row at any time, so that a scan that finds
nothing new stands for one whose window the row has left.

**InstanceCache.** The table at the master, one open transaction per instance, the
replica, and the update of the cache: `ReadTime` at the master, `RealUpdate` or
`FetchFails` at the replica, `CheckAll`. `DiffTime` is the overlap of the windows;
`Delay` bounds how far a transaction and the replica together are behind (`Tick` waits
for them). `RecreateService` gives a service a new identifier.

**ServiceRevision.** Service cache and instance cache poll concurrently, notify the
revision workers through a channel, and clients ask with the revision they have. Data
are versions, a revision is the pair of versions it was computed from, so that equal
revisions mean equal data. A poll starts when the workers have finished with the one
before, which a second of pause is taken to guarantee.

**HealthCheck.** Several servers check instances and clients, and the leader checks the
servers, over the redis checker. A server's record has what its cache provider knows
(`known`, `provider`), the servers it believes in (`buckets`), what it has taken over
(`managed`, `scheduled`), the callbacks in its time wheel (`wheel`, a count per
instance), and the verdicts being written (`verdicts`). `Poll` is the event of a cache,
`processEnsure` the dispatcher with `reloadSelfContinuum` and `reloadManaged`,
`checkCallbackInstance` and `setInsDbStatus` the two halves of a check, `checkRedis` the
pool that notices outages and recoveries. Requests, clients that start and stop, outages
with and without loss of the records, crashes, shutdowns, restarts and failing writes
come in the mixes of `Mixes`. Which server an item belongs to is the function `Hash` of
the healthy servers. A status is written before the next callback of its instance; the
code has a lock per scheduled item, so that the callbacks of an instance that was taken
off and put back may overlap there. No server is isolated.

### The stores, the handlers and the caches

A table is a function from keys to rows. An operator that writes takes a database and
returns the database it leaves with a code; handlers are operators of the same form, so
that a request is one step. `StoreTables` explains the two fields all rows have: `valid`
(the negation of `flag`), and `fresh`, which stands for the modification time: every
statement that writes it sets `fresh`, and a poll that has read the row clears it.

| Modules | Model |
|---|---|
| `MySQLNaming`, `MySQLRules`, `MySQLConfig`, `MySQLAuth` | `store/mysql`, method by method, as transactions |
| `BoltNaming`, `BoltRules`, `BoltConfig`, `BoltAuth` | `store/boltdb`; a method that opens several transactions is their composition |
| `Storage` | the interface `store.Store`, which picks the engine |
| `ServerCommon` | replies, batches of requests, errors of the store, checks that handlers share |
| `NamespaceHandlers`, `NamingHandlers`, `RuleHandlers` with `Routing` | `namespace`, `service`: namespaces, services, aliases, instances, the rules, and the conversion between the two versions of routing rules |
| `DiscoverHandlers` | what clients ask for and report |
| `BatchHandlers` | what the store workers do with a batch, and the jobs of `admin` |
| `NamingCaches`, `RuleCaches`, `Routing`, `AuthCaches` | the caches, with their indexes and queries |
| `ConfigHandlers` | `config`, with tags, history, encryption, import and export |
| `AuthHandlers` | the management half of `auth/defaultauth` |

Three modules compose them. Each gives every request to two servers, one per engine, so
that a state shows what both have made of the same history:

**Registry.** `theme` picks a kind of object, since a registry of everything at once is
out of reach and kinds that do not interact need not be interleaved: namespaces,
services, aliases, instances (registration, batches, heartbeats), registrations through a
lagging cache of services (`lag`), jobs, clients, limits,
breakers, tags (circuit breakers of version 1), fault detection, routing (both versions).
Polls of the caches come in between, on rows in any order where the code ranges over a map.

**ConfigCenter.** Files, tags, groups, templates, imports, publications and deletions,
and the deletion of the namespace. `ReleaseLog` is the abstract specification of what
clients rely on: a register per file with a version that grows by exactly one with every
change. `MyLog` and `BoltLog` are the refinement mappings, one per engine.

**AuthCenter.** Users, groups, strategies, and the hook that runs after a namespace is
written. Polls of users and strategies come in any order.

**The `...Proofs` modules** (LeaderElection, BatchController, LeaderChecker, ConfigWatch,
ServiceRevision, HealthCheck) hold the theorems about the module they are named after,
CacheProofs those about ConfigFileCache and InstanceCache, and AuthProofs those about
MySQLAuth and BoltAuth; section 5 says what they show.


## 3. Runs that pass

A property that is a conjunction is checked as one; its parts are defined, with their
meaning, next to it.

| Run | Shows | Bounds, and why they are enough |
|---|---|---|
| `election` | `MachineSound`: what IsLeader, the leader's name and the events say agrees (`ViewConsistent`), and a released machine abstains (`ReleaseAbstains`). `CalmUniqueLeader`: five quiet rounds after a fault there is one leader at most (a lease and three ticks), until the end of the year (section 5 says why). `RowDecides`: `TickAgreement` and `RowFenced`. `OneLeaderAgain`: after the faults there is exactly one leader again and again | 2 servers, 2 faults and a new year: a race needs two servers, a stall and a failure together two faults; 5 versions, so that they wrap around |
| `batch` | `Handover`: no task is lost, copied or answered twice (`HeldOnce`, `ExitedAllAnswered`). `ChannelsSafe`: `NoSendOnClosed`, `IdleOnce`. `AcceptedAnswered`: what was accepted is answered unless Stop is called or the handler panicked over its batch | 2 tasks, 2 workers, a queue of 1, batches of 2, both stops, 1 panic: a full queue, a full and a partial batch, two batches under way |
| `checker` | `PeersSound`: `OnePeer`, `RecordsAtLeader`, `ViewFollows`. `NoFalseDown` as long as one change of leader at most has disturbed the servers. `Recovers`: `StoppedFound`, `LiveHeals` unless a server crashed, `LeaderKnown` | 2 servers and, one mix at a time, a change of leader, a release with a connection error, a crash; news within less than the suspension of checks (`Lag + Interval < Expire`), one event under way |
| `watch` | `WatchSound`: what waits is registered (`HeldConnected`), what is answered leaves nothing behind (`NoLeak`). `KnownForward`: no client goes back to an older release; version 0 is only answered for a file without a release | 1 client with 2 requests under way, 2 releases with deletions, evictions, failing loads and late scans, a queue of 1: an old and a new release are what a client can be taken back between. Both properties are proved for any number of clients, requests and releases |
| `file_cache` | `LoadsSound`: `OneLoader`, `GetFresh`. `FileCacheSettles` | 2 readers, the scanner, 1 administrator, 3 writes, failing loads |
| `instances` | `CacheSound`: `IndexAgrees`. `NothingMissed`. `CatchesUp`: `CacheSettles` when no fetch fails, `CountSettles` in any case | 1 instance, 3 writes, 2 identifiers of the service, rows cleaned early, 2 failing fetches, overlap and delay of 1 second, clock up to 5. `NothingMissed` is proved for any number of instances |
| `revision` | `KnownSound`: `InstancesNotOlder`. `Settles`: `RevisionSettles`, `ClientSettles` | 2 workers, which is what a race needs, 1 client, 1 change of the service and 2 of the instance: an answer and a worker can each hold what the next change makes old. `KnownSound` is proved for any number |
| `registry` | `Interchangeable`: the stores give the same codes and show the same objects. `NoOrphans`: no request and no job leaves an instance, alias, rule or service without what it belongs to, except the registration of an instance for a service whose deletion the cache has not polled. `NamingDelivered` and `RulesDelivered`: once polled, the caches hand out what is stored. `RevisionTells`: no change hides behind an equal revision. `JobsSpare`: no job deletes a service in use | per theme 3 requests (6 for tags, which need a master, a tag and a release first; 4 for jobs and clients) on 2 namespaces, 2 services, 2 hosts, 3 limits, 2 rules per kind; up to 2 polls between requests; in theme `lag` the cache of services may be behind when instances are registered. Three requests are create, change, delete, or two objects that meet and one that goes |
| `config_center` | `Interchangeable`, `NoStrays`, `HistoryTells`, `StaysReadable`: an encrypted file keeps the key its content is encrypted with, unless somebody else's export is imported over it, and `Implements`: both engines refine `ReleaseLog` | 4 requests by two users, one of whom may also delete and publish, on 2 files of 1 group, 2 texts, 1 algorithm, pages of 4. Four requests are create, publish, withdraw, publish |
| `auth` | `Interchangeable`, `OneDefault`, `LinksMatch`, `AuthDelivered` | 4 requests on users and groups, 3 on strategies and resources, from a state with the objects the theme needs; polls in any order |
| `health` | `NeverForgotten`: an instance in the scheduler has a callback. `NoFalseAlarm`: nothing that beats is found dead. `Owned`: in the end one server checks each item. `StatusFollows`: in the end statuses are what the heartbeats say | 2 servers, an instance and a client that belong to different servers; four mixes: 3 requests; a request, a client and a failed write; a client and 2 outages; a server that stops and a failed write |

Deadlock is checked, except where nothing is left to do after the last request or change
(the three compositions, HealthCheck, ServiceRevision), for ConfigWatch (a panic ends
the process) and the batch controller (two of the disagreements below are deadlocks,
and `AcceptedAnswered` covers what must not stop). Only `watch` uses symmetry, over the
request ids (`RequestSymmetry`): they are uuids that the code only compares, and both
properties of the run are safety properties. Its properties hold as well for two clients with three requests and
loads that do not fail, for one release with late scans and evictions (1.9 million states)
and for two releases with deletions (16 million states, 21 minutes with four workers),
which is where the requests of two clients race to be the first watcher of a file. For one
release, three requests and nothing else, `HeldAnswered` and `LearnsLatest` of the module hold too: what waits is
answered and the client learns the last release, unless the process panics.

**Requests one at a time.** In Registry, ConfigCenter and AuthCenter a request runs to
its end before the next. This is exact for the embedded store, whose methods are serial,
up to interleavings of the methods of one handler; for MySQL it is what the row locks of
some handlers are for, and the places where they do not suffice are in section 4. Polls
and jobs do interleave with requests.

**Fairness.** Weak fairness of goroutines that can run, of tickers, and of clients that
ask again; restarts of crashed servers. Strong fairness in two places:
`ConfigFileCache!Lock`, because a `sync.Mutex` in starvation mode serves its waiters in
order, and `InstanceCache!CheckAll`, because it is due once in 60 seconds of polls.
LeaderChecker needs only that some server goes on reporting, checking, handling events
and retrying. HealthCheck needs only that some poll, some dispatch, some check of every kind and some
passing event go on. Faults, writes by users and calls of stop are never assumed to
happen. Transactions are assumed to end, the replica to catch up, redis to come back.
The three compositions have no fairness: their properties about polls are about states
in which everything has been polled.

## 4. Disagreements between code and text

A run with the expectation *violation* checks a statement of a comment against what the
code does; `PROJECT.json` quotes the lines.

| Run | What happens |
|---|---|
| `watch_notifier_stuck` | the notifier waits for ever for the reader of a request that has timed out; nobody is notified after that |

The modules define more properties of this kind, each violated under the constants
given here (everything else as in the passing run of the module). They are kept to be
turned into passing runs when the code changes.

| Property | Constants | What happens |
|---|---|---|
| `LeaderElection!ErrorMeansFollower` | `MaxFaults = 3` | after a failed heartbeat and a failed check a leader stays leader, though `admin.go:267` logs that it stays follower |
| `LeaderElection!ExpiredMeansExpired` | `MaxFaults = 0` | the age of the row jumps by 40 at the end of a minute (`admin.go:139`) |
| `LeaderElection!LeaderElected` | `MaxFaults = 1` | at the end of a year the age no longer fits the int32 (`admin.go:143`), and no leader is elected until the row is written |
| `BatchController!StopAnswers` | `Worker = {w1}`, `QueueSize = 2`, `MaxBatchCount = 1`, `StopKinds = {"now"}` | Stop leaves accepted tasks unanswered: the main loop waits for an idle token that the worker kept (`batch.go:195`) |
| `BatchController!StopCompletes` | `Task = {t1}`, `MaxBatchCount = 1`, `StopKinds = {"graceful"}` | a worker reads its closed channel, blocks on the idle channel, and GracefulStop never ends (`batch.go:183`) |
| `BatchController!DoneReturns` | as in the run | the handler panics, `recover` logs it (`batch.go:73`), and who waits in `Done` for a future of the batch waits for ever |
| `LeaderChecker!RedirectOnce` | three servers, no faults | a forwarded request is forwarded again, since the mark is never sent (`peer.go:244`) |
| `LeaderChecker!DeleteHasPeer` | no faults | Delete before the first leader event uses a nil peer (`checker_leader.go:380`) |
| `~LeaderChecker!FalseDown` | `Disturbances = {{"switch"}}`, `Times = 2` | the leadership goes to another server and back within two ticks; a server that has handled neither event goes on checking, while the returned leader cleaned its records when it lost the leadership (`checker_leader.go:187`) |
| `~LeaderChecker!FalseDown` | `Disturbances = {{"release"}}` | between release and election followers take live instances down (`checker_leader.go:424`) |
| `LeaderChecker!ReportRecorded` | `Disturbances = {{"crash"}}` | streams to a restarted leader are not renewed, and heartbeats are lost (`checker_leader.go:215`) |
| `ConfigWatch!HeldWatched` | two clients, three requests | the second of two first watchers of a file is not registered (`watcher.go:84`) |
| `ConfigWatch!Pushed` | two clients, three requests | a release that a reload brought into the cache is not announced (`scanner.go:137`) |
| `ConfigWatch!OverdueAnswered` | `MaxVersion = 1` | the timeout worker sends on the closed channel of an answered request (`connection_manager.go:119`) |
| `ConfigWatch!DeletedDropped` | `MaxVersion = 2`, `MayExpire`, `MayDelete` | a deletion scanned late stays in the cache (`scanner.go:140`) |
| `ConfigFileCache!FileCacheSettles` | `Admin = {a1, a2}` | two publications get one version, and the cache keeps the first content (`config_file_release.go:158`) |
| `InstanceCache!NothingMissed` without `fails = 0` | as in the run | a fetch that fails moves the window all the same (`cache.go:210`), and the changes before it are never fetched, though the store's comment calls the poll complete (`discover_api.go:143`) |
| `InstanceCache!ListedInService` | `MaxService = 2` | an instance that changes the identifier of its service stays in the list of the old one (`instance.go:281`) |
| `ServiceRevision!ServiceNotOlder` | `MaxSvc = 2` | an answer carries a service older than its revision (`client_v1.go:205`) |
| `Registry!DeletedStayEmpty` | `Themes = {"lag"}` | an instance is registered through the cache of services after its service was deleted (`service/instance.go:956`); the comment on `DeleteService` (`service/service.go:182-185`) says that a lock excludes it, and there is none. Only MySQL then lists the instance |
| `ConfigCenter!AlwaysReadable` | as in the run | the export of a user who has not created an encrypted file leaves its key out (`config_file.go:672-675`), and an import of it over the file deletes the key and keeps the encrypted content |
| `ConfigCenter!FilesHaveGroups` | 3 files, `MaxPageSize = 2` | a group of more than a page of files is deleted and some files stay (`config_file_group.go:297` skips a page after each deletion) |

The following was met while translating the stores, the handlers and the caches. Where it
would make a property of section 3 false, the property or the requests exclude it, with
a comment at the place.

*The two stores.* `Interchangeable` compares what both do for the requests of the runs;
outside of them they differ: bolt's poll of instances does not report deletions
(`store/discover_api.go:143` says all changes), so caches over it keep ghosts; its polls of rules report deleted rows the first time; its `CleanInstance`
removes live rows as well, and `GetUnHealthyInstances` compares the wrong way round
(`store/admin_api.go:47`); it deletes namespaces for good, counts aliases among their
services, and needs a token and an owner in every update of a service; it finds the files
of a group by a part of its name; it stores `enable` with an update of a routing rule but not
of a breaker, MySQL the other way round; an update of a circuit breaker or a detection
rule brings a deleted one back; a deleted user stays in its groups and strategies, a
deleted group in its strategies; default strategies have no modification time, so no
poll sees them until they are changed. MySQL writes metadata of a re-registered instance
only if there is any, so that old metadata come back with it; it commits the owner of an
alias before it knows whether the alias was updated; it leaves the default strategy of a
deleted main account.

*Handlers.* `DeleteService` checks and deletes without the lock its comment speaks of.
`CreateServiceAlias` reads its source outside of the transaction that writes. A namespace
is locked for deletion, but services are created without that lock. `PublishConfigFile`
reads the version in one statement and writes its successor in another. The content of a release is
decrypted with tags looked up under the name of the release. An import that names a
file twice is an error on MySQL only. The event of an isolation is never
sent. `DeleteEmptyAutoCreatedService` deletes every empty service, created automatically
or not. `AfterResourceOperation` leaves the links of a deleted resource, against its comment.

*Caches.* A rate limit that moves leaves the revision of its old service as it was, and
breakers, detection rules and routing rules that move stay in their old buckets too
(`TargetsMove = TRUE`; `cleanOldCircuitBreakerToServiceCache` is empty). A service named by a
detection rule for the first time does not inherit the rules for all services. A pending
routing rule of version 1 is retried only when another one is polled. The count of
services goes down with every fetch of a deletion, and `checkAll` announces a reload
(`cache/service.go:173`) that does not follow. An alias that is pointed to another service
is listed under both. Links from users to deleted groups stay.

*Health check.* An instance whose check is turned off and that is deleted before the next
poll stays in the provider. An instance that is removed from the scheduler and put
back has two callbacks from then on. The worker of an offline event may remove the
record of an instance that has registered again. A restart of redis within the second
between two looks of the pool costs the records without a period of recovery.

## 5. Proofs

All theorems hold for every value of the constants that the named assumptions of the
modules admit: natural numbers and positive sizes, disjoint names, finite sets of workers
(`BatchAssumption`), servers (`CheckerAssumption`) and instances
(`InstanceCacheConstants`), and in `HashAssumption` that the hash of a set of servers is
one of them. Hypotheses beyond that are part of a theorem's statement and named here.
Each inductive invariant was model-checked on the instance of the module's run before it
was proved.

| Theorem | Property of a run | Hypotheses |
|---|---|---|
| `ElectionTypes`, `ElectionSound`, `ElectionRow` | `TypeOK`, `MachineSound`, `RowDecides` | |
| `ElectionCalm` | `CalmUniqueLeader` | `CalmAssumption` |
| `BatchHandover`, `BatchChannelsSafe` | `Handover`, `ChannelsSafe` | |
| `CheckerPeers`, `CheckerPeersSound` | the second: `PeersSound` | the second: `MaxBacklog = 1` |
| `CheckerNoFalseDown` | `NoFalseDown` | `MaxBacklog = 1`, `Lag + Interval < Expire` |
| `WatchIsSound`, `WatchKnownForward` | `WatchSound`, `KnownForward` | |
| `CacheTypes`, `CacheOneLoader`, `CacheLoadsSound` | the last: `LoadsSound` | the last: `OneAdmin` |
| `CacheImplementsLog` | | |
| `InstanceCacheTypes`, `InstanceCacheIndex` | the second: `CacheSound` | |
| `InstanceCacheNothingMissed` | `NothingMissed` | `Covered` |
| `RevisionKnownSound` | `KnownSound` | |
| `HealthTypes`, `HealthNeverForgotten`, `HealthNoFalseAlarm` | `TypeOK`, `NeverForgotten`, `NoFalseAlarm` | |
| `MyDefaults`, `BoltDefaults` | | in the guards of `MyNext` and `BoltNext`, see below |

*Election.* `ElectionTypes`, `ElectionView` and `ElectionRelease` follow from the inductive
invariant `IInv` (`ElectionInvariant`), `ElectionAgreement` and `ElectionFenced` from `IInv`
and one step; `ElectionSound` and `ElectionRow` put them together for `MachineSound` and
`RowDecides`. `IInv` adds three facts to the properties: the version to be written is the
successor of the one to be compared with (`SwapReady`), without which a swap could
skip versions; a machine that abstains is outside its tick (`Abstains`), also when it
is stopped; and a stopped machine is idle and no leader (`StoppedIdle`).

`ElectionCalm` says that there is one leader at most once the row has been left alone for
a lease and two more rounds of ticks. Its hypothesis `CalmAssumption` is what the code's
numbers give: finitely many servers, more versions than servers (an int64 against a
handful), a tick of at most a lease (2 and 10 seconds), a minute of at most 100 of the
seconds that `now` is read as, and `CalmRounds` long enough; the constants of the run
satisfy it. The invariant `CalmInv` goes through the rounds in phases (`Phases`). As long as
the lease may still be running, either somebody renewed the row since the calm began
(`Holder`) or the row is as old as the calm. When a lease must have run out, the row is
either expired and nobody has renewed it (`Unrenewed`), or it is held and whoever has
had its turn since is behind the row by no more renewals than there were turns
(`Renewed`, with the distance `Behind` on the circle of versions and the count `Served`).
One round later every other leader is behind the row, so that its heartbeat fails, or
nobody leads (`Settling`, `Vacant`), and after its next turn it follows (`Settled`).
This is where versions must outnumber servers: a leader that is behind by a multiple of
the circle would renew the row of another one. The property is about the time before
the end of the year because afterwards the age of the row overflows and no machine
learns who holds it: with three faults before it, two leaders stay leaders as long as
their heartbeats neither succeed nor are answered. `CalmInv` was model-checked with two
servers and four faults (4.9 million states) and with three servers and one fault.

*Batch controller.* The counts of `HeldOnce` are no good for induction; `Places` says the
same without counting: channel, gathered batch and batches of the workers have no task in
common or twice, and a task is in one of them exactly while its caller was accepted and
it has no outcome; to be dropped by a panic is one. `Loop` is what each place of the main loop implies, above all that a closed
channel has no sender left, and `Idle` that a worker on offer waits for a batch.

*Leader checker.* `Peers` makes `OnePeer` independent of whether a server is ready, and
`Retrying` says that a goroutine which may still connect waits alone, on a server that is
not ready; both with the types and `RecordsAtLeader` are inductive for any number of
events under way. For `ViewFollows`, `Heard` adds that the event under way is the one
published last, which needs that there is one at a time. `CheckerNoFalseDown` is about the
states with at most one change of leader and nothing else (`Calm`). There every server is
up and connects at once (`Quiet`), the server that the row names knows it (`RowKnown`),
and the ages are in order (`Fresh`): as long as some server has not settled, those that
follow the new leader have heard of it since the change; and if the leader's record is
older than the last report, a follower changed its leader at most `Lag` before that
report. So its checks are suspended, or the record is younger than `Expire`.

*Watch.* `Served`, `Watched`, `Notifying` and `Timing` say which of handlers, notifier and
timeout worker may still touch a connection: a worker removes one only after its
answer, its watchers first, and a finished request is connected only while one of the
two workers is at it. `KnownForward` rests on `Waiting` (a client's request carries the
versions it has) and on answers being newer than the request (`Served`), which holds
because the double check of `AddWatcher` and the notifier compare versions. The answer
with version 0 comes from a reload that found no release, in the same step.

*File cache.* `CacheTypes` needs that no version exceeds the number of writes
(`Bounded`). `CacheOneLoader` is inductive with the types. `CacheGetFresh`, and with it
`CacheLoadsSound`, assumes that publications do not overlap (`OneAdmin`). Its invariant
`FreshInv` says what a reader that reloads may rely on: whoever is about to store has read
something fresh enough (`ReloadFresh`), what an administrator read is still the row
(`AdminAlone`), no client wants a version that does not exist (`WantKnown`).
`CacheImplementsLog` shows the releases of the file to be the register of `ReleaseLog`
(`FileRegister`), for any number of administrators: a step that writes is one publication
or deletion of the register, every other step leaves it alone. The one exception is part
of the statement: an administrator writes although another has changed the row since it
read it (`Overtaken`), as when two publications get one version (section 4). Its
invariant `LogInv` says that a deletion follows a read of a release that is there
(`DeleteSees`), and that a row with a version, also as an administrator has read it, has a
content (`Written`).

*Instance cache.* `InstanceCacheNothingMissed` assumes `Covered`: the overlap is at least the
delay, and no fetch fails; section 4 says what happens without the second half.
`FetchInv`: uncommitted and unreplicated rows are recent (`Lag`), the window's times
are behind the clock (`Clocks`), the cache is empty before its first load (`Empty`),
and a row of the replica that the cache does not show is in the window (`Window`).
`InstanceCacheIndex` needs no such hypothesis: its invariant `IndexInv` is about the maps
and their cardinalities alone.

*Revisions.* Versions grow on their way from the table through a poll to the cache
(`Polled`), what a worker or a client read was in the cache before (`Read`), and a client
that has its revision read the instances after it (`Answering`). `Notified` bounds the
channel to one notification of each cache.

*Health check.* `Sound` is about one server at a time: what it has scheduled has a
callback. For `NoFalseAlarm`, either all records of what beats are there (`Recorded`), or
every running server does not ask redis or holds still (`Covered`).

*Users, groups and strategies.* `MyDefaults` and `BoltDefaults` state of each store what
`OneDefault` states of the servers of AuthCenter, with the same predicate (`OneEach` of
StoreTables): every live user and group has exactly one live default strategy, which
names it alone, and every live default strategy has its principal. `MySpec` and `BoltSpec`
call the methods of MySQLAuth and BoltAuth, the ones the runs use, in any order and with
any arguments, under what the handlers make sure of: created strategies are not default
ones, the principals of a default strategy are not changed (`Fixed`), default
strategies are not deleted, and only live rows are. Reading a row and deleting it is one
step. On MySQL no main account is deleted, because `DeleteUser` leaves its default
strategy (section 4); on boltdb new rows have new ids (`NewPrincipal`), for it would
write over a row that is there. The handlers draw a uuid, but `CreateUser` takes an id
that the request brings along.
The invariant for MySQL, `MyInv`, adds to the property the columns of the tables, that no
link outlives its strategy (`MyLinks`), without which a strategy that gets a used id
would inherit principals, and that a default strategy has the owner of its principal
(`MyOwners`), by which `cleanLinkStrategy` finds it. boltdb keeps the principals in the
strategy and looks for them alone, so that `BoltInv` needs only the columns. Each method
has a lemma, over a few about what one statement does to a table (`Cleaned`,
`Assigned`, `Deleted`, `Inserted`) and what a principal's coming and going means for the
property (`MyKept`, `MyAdded`, `MyRemoved`). Both invariants were model-checked
on two ids before they were proved.

Only model-checked are:

- all liveness properties, which TLAPS does not prove;
- the properties of Registry, ConfigCenter and AuthCenter, and the refinement of
  `ReleaseLog` by the two servers of ConfigCenter: a request is an expression over a whole
  database, with folds over batches and rows picked by `CHOOSE`. A proof needs a lemma for
  every method of two stores, as AuthProofs has them for one property of one group of
  tables; of `OneDefault` only the way through the handlers and the initial databases is
  left to TLC.

## 6. What is not modelled

- Formats, logging, metrics, and the checks of request fields beyond those that depend on
  other data. Texts are opaque, so that patterns match only as `Substr` and `Prefix` say;
  pages follow keys where the code orders by time.
- How credentials are verified and what a strategy permits (`auth_checker.go`,
  `*_authability.go`, `IsResourceEditable`): the modules start after that decision.
- The HTTP, gRPC, L5 and xDS servers, which translate between messages and the handlers or
  caches that are modelled. The Eureka server, whose lists and replication are state of
  their own: it is the next module of the plan.
- The memory health checker (the local half of the leader checker), rate limits of the
  API, white lists, statistics and CMDB plugins: local computations.
- Retries of database connections: a statement of the compositions succeeds or is refused
  by its conditions. Failing statements are in LeaderElection, InstanceCache,
  ConfigFileCache and HealthCheck, where the code goes on after them.
- The suspension of the leader checker by the dispatcher, and the isolation of servers.
  Statements that fail while a batch of registrations is written
  (`service/batch/instance.go:290-292`, `:369-383`).
- Slots and delays of the time wheel, the workers of the redis pool, a full channel of
  instance events.
- Reordered leader events can leave a server without a leader until the next change (the
  empty event may be handled last): the runs have one event under way, which is the usual
  case at a tick of two seconds. `OnePeer` and `RecordsAtLeader` hold with
  any `MaxBacklog` (`CheckerPeers`), `LeaderKnown` and `NoFalseDown` do not.
- The release queue of 10240 messages has one or two places in the models, so that it fills.

## 7. Plan

1. *EurekaWorkers*: delta lists against full lists, replication between peers.
2. *EventHub*: subscribe, publish, unsubscribe, shutdown; an abstract multicast that it
   implements, used by LeaderChecker and HealthCheck.
3. Statement-level interleavings of two handlers on MySQL for the pairs of section 4
   (deletion of a service against registration, of a namespace against creation).
4. Abstract specifications: an eventually consistent copy for the caches, a lease for the
   election, an atomic batch for BatchController and BatchHandlers.
5. Proofs: `LinksMatch` and `NoStrays`, method by method.
