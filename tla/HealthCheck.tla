----------------------------- MODULE HealthCheck -----------------------------
(***************************************************************************)
(* The health check of instances and clients by several servers            *)
(* (service/healthcheck) over the redis checker (plugin/healthchecker/     *)
(* redis, common/redispool).  Every server keeps what it knows of the      *)
(* instances (cache.go), works out from the healthy servers which of them  *)
(* it has to check (dispatch.go) and checks those with callbacks of a time *)
(* wheel (check.go).  The servers are instances themselves, and the leader *)
(* checks them (leader.go).                                                *)
(*                                                                         *)
(*   db       the rows of instances and clients; a deleted row stays       *)
(*   record   the heartbeat record in redis: fresh or old, none, or        *)
(*            removed by the worker of the offline events                  *)
(*   redis    whether redis answers                                        *)
(*   beating  the instances and clients that send heartbeats               *)
(*   up       the servers that run; leader: the one that checks them       *)
(*   srv      the state of each server, see Started                        *)
(*   left     how often there may still be a request, a client that starts *)
(*            or stops, an outage, a server that stops, a failed write     *)
(*                                                                         *)
(* Time is in the records: one of an item that beats stays fresh while     *)
(* redis answers, the others grow old.  The delays of the callbacks and    *)
(* the TTL of an instance are left out, and so are the sets in redis that  *)
(* tell which server checks what, for nothing reads them (doAdopt).        *)
(***************************************************************************)
EXTENDS Naturals, FiniteSets

CONSTANTS Servers, Instances, Clients,
          Hash,        \* common/hash: the server of an item, given the buckets
          Mixes        \* how often each of the events may happen that do not have to

Items == Servers \cup Instances \cup Clients

ASSUME HashAssumption ==
  /\ Servers \cap (Instances \cup Clients) = {} /\ Instances \cap Clients = {}
  /\ \A b \in SUBSET Servers \ {{}} : \A i \in Instances \cup Clients : Hash[b][i] \in b

VARIABLES db, record, redis, beating, up, leader, srv, left

vars == <<db, record, redis, beating, up, leader, srv, left>>

\* A server that has just started; its redis pool counts as just recovered.
Started ==
  [known |-> {},                 \* the instance and client caches
   provider |-> << >>,           \* CacheProvider: what may have to be checked
   changed |-> {},               \* the three flags of the dispatcher
   buckets |-> {},               \* the servers on the hash ring
   noAvailableServers |-> FALSE,
   managed |-> {},               \* managedInstances and managedClients
   scheduled |-> {},             \* scheduledInstances and scheduledClients
   wheel |-> [i \in Instances |-> 0],  \* callbacks that wait in the time wheel
   verdicts |-> << >>,           \* checks whose result is being written
   offline |-> {},               \* instanceEventChannel
   dead |-> FALSE,               \* redisDead
   quiet |-> {"recover"}]        \* the periods in which nothing is changed

Put(f, i, v) == [x \in DOMAIN f \cup {i} |-> IF x = i THEN v ELSE f[x]]
Without(f, i) == [x \in DOMAIN f \ {i} |-> f[x]]

Kind(i) == IF i \in Servers THEN "self" ELSE IF i \in Clients THEN "client" ELSE "instance"

May(event) == left[event] > 0 /\ left' = [left EXCEPT ![event] = @ - 1]

Set(s, v) == srv' = [srv EXCEPT ![s] = v]

Row(valid, healthy, check) == [valid |-> valid, healthy |-> healthy, check |-> check]

\* A server that has been running for some time, and has seen all the rows.
Settled(s, rows) ==
  LET mine == {i \in Instances \cup Clients : Hash[Servers][i] = s}
  IN  [Started EXCEPT !.known = Items, !.provider = rows, !.buckets = Servers,
                      !.managed = mine, !.scheduled = mine, !.quiet = {},
                      !.wheel = [i \in Instances |-> IF i \in mine THEN 1 ELSE 0]]

\* All is well; how a server starts is seen when one restarts.
Init ==
  /\ db = [i \in Items |-> Row(TRUE, TRUE, TRUE)]
  /\ record = [i \in Items |-> "fresh"]
  /\ redis = "up"
  /\ beating = Instances \cup Clients
  /\ up = Servers
  /\ leader \in Servers
  /\ srv = [s \in Servers |-> Settled(s, db)]
  /\ left \in Mixes

-----------------------------------------------------------------------------
\* Requests of clients, on any server

Valid(i) == i \in DOMAIN db /\ db[i].valid

\* An instance or a client is registered; it is taken to be healthy.
Register(i) ==
  /\ May("request")
  /\ ~Valid(i)
  /\ db' = Put(db, i, Row(TRUE, TRUE, TRUE))
  /\ UNCHANGED <<record, redis, beating, up, leader, srv>>

\* An update turns the health check of an instance on or off.
UpdateInstance(i) ==
  /\ May("request")
  /\ i \in Instances /\ Valid(i)
  /\ db' = [db EXCEPT ![i].check = ~@]
  /\ UNCHANGED <<record, redis, beating, up, leader, srv>>

\* The server that deletes an instance publishes that it is offline.
Deregister(s, i) ==
  /\ May("request")
  /\ i \in Instances /\ Valid(i)
  /\ db' = [db EXCEPT ![i].valid = FALSE]
  /\ Set(s, [srv[s] EXCEPT !.offline = @ \cup {i}])
  /\ UNCHANGED <<record, redis, beating, up, leader>>

\* Query and Report: the pool fails at once when it holds redis for dead.
Answers(sv) == redis = "up" /\ ~sv.dead

\* The checker records a heartbeat, unless redis does not take it: its sender is
\* told that all is well.
Report(sv, i) == IF Answers(sv) THEN [record EXCEPT ![i] = "fresh"] ELSE record

Delete(sv, i) == IF Answers(sv) THEN [record EXCEPT ![i] = "deleted"] ELSE record

\* Whether the record the checker finds is in time; none if redis fails.
Query(sv, i) == IF Answers(sv) THEN {record[i] = "fresh"} ELSE {}

\* What sends heartbeats starts with one that arrives.
Start(s, i) ==
  /\ May("client")
  /\ i \in (Instances \cup Clients) \ beating /\ Answers(srv[s])
  /\ beating' = beating \cup {i}
  /\ record' = Report(srv[s], i)
  /\ UNCHANGED <<db, redis, up, leader, srv>>

Stop(i) ==
  /\ May("client")
  /\ i \in beating
  /\ beating' = beating \ {i}
  /\ UNCHANGED <<db, record, redis, up, leader, srv>>

\* What sends heartbeats: the clients, and each server for itself.
Beats == beating \cup up

Beat(s, i) ==
  /\ i \in Beats /\ (i \in Servers => i = s)
  /\ record' = Report(srv[s], i)
  /\ UNCHANGED <<db, redis, beating, up, leader, srv, left>>

\* No heartbeat has been sent for as long as a record takes to expire.
Age(i) ==
  /\ record[i] = "fresh" /\ i \notin Beats
  /\ record' = [record EXCEPT ![i] = "old"]
  /\ UNCHANGED <<db, redis, beating, up, leader, srv, left>>

-----------------------------------------------------------------------------
\* cache.go: the events of the caches.  Rows with the same content have the same
\* revision.

isHealthCheckEnable(row) == row.check

\* The provider and the flag to raise, if any.
Kept(p) == [provider |-> p, changed |-> {}]
Moved(p, i) == [provider |-> p, changed |-> {Kind(i)}]

OnCreated(p, i, row) ==
  IF Kind(i) = "instance" /\ ~isHealthCheckEnable(row) THEN Kept(p) ELSE Moved(Put(p, i, row), i)

\* Mutant: the row that is there already is kept.
OnUpdatedKeeps(p, i, row) ==
  CASE Kind(i) = "instance" /\ ~isHealthCheckEnable(row) ->
         IF i \in DOMAIN p THEN Moved(Without(p, i), i) ELSE Kept(p)
    [] i \in DOMAIN p -> Kept(p)
    [] OTHER -> Moved(Put(p, i, row), i)

OnUpdated(p, i, row) ==
  LET same == i \in DOMAIN p /\ (Kind(i) = "client" \/ p[i] = row)
  IN  CASE Kind(i) = "instance" /\ ~isHealthCheckEnable(row) ->
             IF i \in DOMAIN p THEN Moved(Without(p, i), i) ELSE Kept(p)
        [] same -> Kept(p)
        [] OTHER -> Moved(Put(p, i, row), i)

\* Mutant: a deleted instance stays.
OnDeletedStays(p, i, row) == IF Kind(i) = "instance" THEN Kept(p) ELSE Moved(Without(p, i), i)

\* An instance whose health check was off when it was deleted stays.
OnDeleted(p, i, row) ==
  IF Kind(i) = "instance" /\ ~isHealthCheckEnable(row) THEN Kept(p) ELSE Moved(Without(p, i), i)

\* The caches poll the store (cache/instance.go, cache/client.go) and tell the
\* provider of every row.
Poll(s) ==
  LET sv == srv[s]
      next(i) == CASE i \notin DOMAIN db -> Kept(sv.provider)
                   [] db[i].valid /\ i \notin sv.known -> OnCreated(sv.provider, i, db[i])
                   [] db[i].valid /\ i \in sv.known -> OnUpdated(sv.provider, i, db[i])
                   [] ~db[i].valid /\ i \in sv.known -> OnDeleted(sv.provider, i, db[i])
                   [] OTHER -> Kept(sv.provider)
      after == {i \in Items : i \in DOMAIN next(i).provider}
  IN  /\ Set(s, [sv EXCEPT !.known = {i \in Items : Valid(i)},
                           !.provider = [i \in after |-> next(i).provider[i]],
                           !.changed = @ \cup UNION {next(i).changed : i \in Items}])
      /\ UNCHANGED <<db, record, redis, beating, up, leader, left>>

-----------------------------------------------------------------------------
\* dispatch.go

\* The servers on the ring and whether the ring is another one.  When there are
\* servers again after there were none, the checkers are suspended.  The isolate
\* flag is left out: the servers are taken to register themselves without it, and
\* no request here sets it.
reloadSelfContinuum(sv) ==
  LET next == {h \in Servers \cap DOMAIN sv.provider : sv.provider[h].healthy}
      none == sv.noAvailableServers \/ next = {}
      back == none /\ next # {}
  IN  IF next = sv.buckets /\ next # {}
      THEN [reloaded |-> FALSE, sv |-> [sv EXCEPT !.noAvailableServers = none]]
      ELSE [reloaded |-> TRUE,
            sv |-> [sv EXCEPT !.buckets = next,
                              !.noAvailableServers = none /\ ~back,
                              !.quiet = IF back THEN @ \cup {"suspend"} ELSE @]]

\* UpsertInstance and AddClient: an instance that is not scheduled yet gets a
\* callback.
UpsertInstance(sv, items) ==
  [sv EXCEPT !.scheduled = @ \cup items,
             !.wheel = [i \in Instances |->
                          IF i \in items \ sv.scheduled THEN @[i] + 1 ELSE @[i]]]

\* Mutant: what is no longer checked here stays scheduled.
DelNothing(sv, items) == sv

\* DelInstance and DelClient: the callback stays in the wheel.
DelInstance(sv, items) == [sv EXCEPT !.scheduled = @ \ items]

\* reloadManagedInstances and reloadManagedClients
reloadManaged(sv, s, items) ==
  LET next == IF sv.buckets = {} THEN {}
              ELSE {i \in items \cap DOMAIN sv.provider : Hash[sv.buckets][i] = s}
      moved == [sv EXCEPT !.managed = (@ \ items) \cup next]
  IN  DelInstance(UpsertInstance(moved, next), (sv.managed \cap items) \ next)

\* A flag is not taken back when the ring has been reloaded anyway.
processEvent(s) ==
  \E self \in {IF "self" \in srv[s].changed THEN reloadSelfContinuum(srv[s])
               ELSE [reloaded |-> FALSE, sv |-> srv[s]]} :
    LET items == {i \in Instances \cup Clients : self.reloaded \/ Kind(i) \in srv[s].changed}
    IN  /\ Set(s, [reloadManaged(self.sv, s, items) EXCEPT
                     !.changed = IF self.reloaded THEN @ \ {"self"} ELSE {}])
        /\ UNCHANGED <<db, record, redis, beating, up, leader, left>>

processEnsure(s) ==
  \E self \in {reloadSelfContinuum(srv[s])} :
    /\ Set(s, reloadManaged(self.sv, s, Instances \cup Clients))
    /\ UNCHANGED <<db, record, redis, beating, up, leader, left>>

-----------------------------------------------------------------------------
\* The redis checker

skipCheck(sv) == sv.quiet # {}

\* The status the checker finds, unless it fails, holds still or finds the one
\* that the cache has.
Check(sv, i, healthy) == IF skipCheck(sv) THEN {} ELSE Query(sv, i) \ {healthy}

\* Mutant: the checks go on as soon as redis is back.
checkRedisAtOnce(s) ==
  /\ srv[s].dead = (redis = "up")
  /\ Set(s, [srv[s] EXCEPT !.dead = ~@, !.quiet = @ \ {"recover"}])
  /\ UNCHANGED <<db, record, redis, beating, up, leader, left>>

\* checkRedis: an outage ends the period of recovery, its end starts one.
checkRedis(s) ==
  LET sv == srv[s]
  IN  /\ sv.dead = (redis = "up")
      /\ Set(s, [sv EXCEPT !.dead = ~@,
                           !.quiet = IF sv.dead THEN @ \cup {"recover"} ELSE @ \ {"recover"}])
      /\ UNCHANGED <<db, record, redis, beating, up, leader, left>>

\* A quiet period is as long as it takes a record to expire: when it ends, every
\* server has pinged redis and whoever beats has beaten, if redis was there.
Lapse(s, w) ==
  /\ w \in srv[s].quiet
  /\ srv[s].dead \/ (/\ \A h \in up : ~srv[h].dead
                     /\ \A i \in Beats : record[i] = "fresh")
  /\ Set(s, [srv[s] EXCEPT !.quiet = @ \ {w}])
  /\ UNCHANGED <<db, record, redis, beating, up, leader, left>>

-----------------------------------------------------------------------------
\* check.go and leader.go

\* A callback of the wheel.  It comes again unless the instance is not scheduled
\* any more; the status it has found is written first.  The lock is that of the
\* scheduled item: callbacks of an instance that was taken off and put back could
\* overlap, and here the second one waits for the first.
checkCallbackInstance(s, i) ==
  LET sv == srv[s]
      found == IF i \in DOMAIN sv.provider THEN Check(sv, i, sv.provider[i].healthy) ELSE {}
  IN  /\ i \in Instances /\ sv.wheel[i] > 0 /\ i \notin DOMAIN sv.verdicts
      /\ CASE i \notin sv.scheduled -> Set(s, [sv EXCEPT !.wheel[i] = @ - 1])
           [] i \in sv.scheduled /\ found = {} -> UNCHANGED srv
           [] OTHER -> \E healthy \in found :
                Set(s, [sv EXCEPT !.wheel[i] = @ - 1, !.verdicts = Put(@, i, healthy)])
      /\ UNCHANGED <<db, record, redis, beating, up, leader, left>>

checkCallbackClient(s, c) ==
  LET sv == srv[s]
  IN  /\ c \in Clients \cap sv.scheduled /\ c \in DOMAIN sv.provider
      /\ c \notin DOMAIN sv.verdicts
      /\ FALSE \in Check(sv, c, TRUE)
      /\ Set(s, [sv EXCEPT !.verdicts = Put(@, c, FALSE)])
      /\ UNCHANGED <<db, record, redis, beating, up, leader, left>>

doCheckSelfServiceInstance(s, h) ==
  LET sv == srv[s]
  IN  /\ s = leader
      /\ h \in Servers \cap DOMAIN sv.provider /\ h \notin DOMAIN sv.verdicts
      /\ \E healthy \in Check(sv, h, sv.provider[h].healthy) :
           Set(s, [sv EXCEPT !.verdicts = Put(@, h, healthy)])
      /\ UNCHANGED <<db, record, redis, beating, up, leader, left>>

\* Mutant: the callback is not added again.
WrittenOnce(sv, i) == [sv EXCEPT !.verdicts = Without(@, i)]

\* What follows the write, done or failed: the callback of an instance.
Written(sv, i) ==
  [sv EXCEPT !.verdicts = Without(@, i),
             !.wheel = [x \in Instances |-> IF x = i THEN @[x] + 1 ELSE @[x]]]

\* The status goes to the row whatever has become of it; a client is deleted.
setInsDbStatus(s, i) ==
  /\ i \in DOMAIN srv[s].verdicts
  /\ db' = IF i \in Clients THEN [db EXCEPT ![i].valid = FALSE]
           ELSE [db EXCEPT ![i].healthy = srv[s].verdicts[i]]
  /\ Set(s, Written(srv[s], i))
  /\ UNCHANGED <<record, redis, beating, up, leader, left>>

setInsDbStatusFails(s, i) ==
  /\ May("write")
  /\ i \in DOMAIN srv[s].verdicts
  /\ Set(s, Written(srv[s], i))
  /\ UNCHANGED <<db, record, redis, beating, up, leader>>

\* server.go: the worker of the offline events removes the record, if the
\* instance is still known here.
handleInstanceEventWorker(s, i) ==
  /\ i \in srv[s].offline
  /\ Set(s, [srv[s] EXCEPT !.offline = @ \ {i}])
  /\ record' = IF i \in DOMAIN srv[s].provider THEN Delete(srv[s], i) ELSE record
  /\ UNCHANGED <<db, redis, beating, up, leader, left>>

-----------------------------------------------------------------------------
\* What surrounds the servers

RedisDown ==
  /\ May("outage")
  /\ redis = "up" /\ redis' = "down"
  /\ UNCHANGED <<db, record, beating, up, leader, srv>>

\* Redis comes back.  If it was away for so long that every server has noticed,
\* the records may be lost or too old.
RedisUp(lost) ==
  /\ redis = "down" /\ redis' = "up"
  /\ lost => \A s \in up : srv[s].dead
  /\ record' = IF lost THEN [i \in Items |-> "none"] ELSE record
  /\ UNCHANGED <<db, beating, up, leader, srv, left>>

Crash(s) ==
  /\ May("stop")
  /\ up # {s} /\ up' = up \ {s}
  /\ Set(s, Started)
  /\ UNCHANGED <<db, record, redis, beating, leader>>

\* SelfDeregister: a server that is shut down deregisters first.
Shutdown(s) ==
  /\ May("stop")
  /\ up # {s} /\ up' = up \ {s}
  /\ Set(s, Started)
  /\ db' = [db EXCEPT ![s].valid = FALSE]
  /\ UNCHANGED <<record, redis, beating, leader>>

\* selfRegister, once the checker has reached redis (registerSelf).  The row of a
\* server that has crashed keeps its status.
Restart(s) ==
  /\ s \notin up /\ redis = "up"
  /\ up' = up \cup {s}
  /\ db' = IF Valid(s) THEN db ELSE [db EXCEPT ![s] = Row(TRUE, TRUE, TRUE)]
  /\ UNCHANGED <<record, redis, beating, leader, srv, left>>

\* The election for the checker of the servers, see LeaderElection.
Elect(s) ==
  /\ leader \notin up /\ leader' = s
  /\ UNCHANGED <<db, record, redis, beating, up, srv, left>>

-----------------------------------------------------------------------------
Requests ==
  \/ \E i \in Instances \cup Clients : Register(i) \/ Stop(i)
  \/ \E i \in Instances : UpdateInstance(i)
  \/ \E s \in up, i \in Items : Deregister(s, i) \/ Start(s, i)

\* What a server does by itself.
Runs(s) ==
  \/ Poll(s) \/ processEvent(s) \/ processEnsure(s) \/ checkRedis(s) \/ Elect(s)
  \/ \E w \in {"recover", "suspend"} : Lapse(s, w)
  \/ \E i \in Items :
       \/ Beat(s, i) \/ checkCallbackInstance(s, i) \/ checkCallbackClient(s, i)
       \/ doCheckSelfServiceInstance(s, i) \/ setInsDbStatus(s, i)
       \/ handleInstanceEventWorker(s, i)

Faults ==
  \/ RedisDown
  \/ \E s \in up : Crash(s) \/ Shutdown(s)
  \/ \E s \in up, i \in Items : setInsDbStatusFails(s, i)

Next ==
  \/ Requests \/ Faults
  \/ \E s \in up : Runs(s)
  \/ \E i \in Items : Age(i)
  \/ \E lost \in BOOLEAN : RedisUp(lost)
  \/ \E s \in Servers : Restart(s)

\* What a check of the item comes to.
Checks(s, i) ==
  \/ checkCallbackInstance(s, i) \/ checkCallbackClient(s, i) \/ doCheckSelfServiceInstance(s, i)
  \/ setInsDbStatus(s, i) \/ setInsDbStatusFails(s, i)

\* What comes to an end by itself.
Passes ==
  \/ \E s \in up : checkRedis(s) \/ Elect(s) \/ \E w \in {"recover", "suspend"} : Lapse(s, w)
  \/ \E s \in up, i \in Items : Beat(s, i) \/ handleInstanceEventWorker(s, i)
  \/ \E i \in Items : Age(i)
  \/ \E lost \in BOOLEAN : RedisUp(lost)

\* The tickers and workers of the servers go on, records grow old, redis comes
\* back and a server is elected.  The code promises this of every server and
\* item and of each of the steps; less is enough here.
Fairness ==
  /\ WF_vars(\E s \in up : Poll(s))
  /\ WF_vars(\E s \in up : processEnsure(s))
  /\ WF_vars(Passes)
  /\ \A kind \in {Servers, Instances, Clients} : WF_vars(\E s \in up, i \in kind : Checks(s, i))

Spec == Init /\ [][Next]_vars /\ Fairness

-----------------------------------------------------------------------------
\* The types of the variables.
TypeOK ==
  /\ DOMAIN db = Items
  /\ \A i \in Items : db[i] \in [valid : BOOLEAN, healthy : BOOLEAN, check : BOOLEAN]
  /\ record \in [Items -> {"fresh", "old", "none", "deleted"}]
  /\ redis \in {"up", "down"} /\ beating \subseteq Items /\ up \subseteq Servers
  /\ leader \in Servers
  /\ \A s \in Servers :
       /\ srv[s].known \subseteq Items /\ DOMAIN srv[s].provider \subseteq Items
       /\ srv[s].changed \subseteq {"self", "instance", "client"}
       /\ srv[s].buckets \subseteq Servers
       /\ srv[s].managed = srv[s].scheduled
       /\ srv[s].scheduled \cap Servers = {}
       /\ srv[s].wheel \in [Instances -> Nat]
       /\ DOMAIN srv[s].verdicts \subseteq Items

\* An instance that a server has taken over always has a callback: it waits in
\* the time wheel or its check is being written.  The callback adds the next one
\* itself (checkCallbackInstance), and DelInstance leaves the old one in place.
NeverForgotten ==
  \A s \in up : \A i \in srv[s].scheduled \cap Instances :
    srv[s].wheel[i] > 0 \/ i \in DOMAIN srv[s].verdicts

\* Nothing that beats is found dead, whatever becomes of redis and of the
\* servers, except where the worker of an offline event has removed the record:
\* the period of recovery (skipCheck) covers the records that an outage has cost.
NoFalseAlarm ==
  [][\A s \in Servers : \A i \in beating :
       (i \in DOMAIN srv'[s].verdicts /\ i \notin DOMAIN srv[s].verdicts /\ ~srv'[s].verdicts[i])
       => record[i] = "deleted"]_vars

Owners(i) == {s \in up : i \in srv[s].scheduled}

\* In the end exactly one server checks an instance or a client, and none one
\* that is deleted or has no health check (Dispatcher).  The exception is an
\* instance whose check is turned off and that is deleted before the next poll.
Owned ==
  <>[](\A i \in Instances \cup Clients :
         IF Valid(i) /\ db[i].check THEN Cardinality(Owners(i)) = 1
         ELSE Valid(i) \/ db[i].check => Owners(i) = {})

\* In the end an instance that is checked and a server are healthy exactly if
\* they beat, and clients that do not beat are gone (CheckScheduler).
StatusFollows ==
  <>[](/\ \A i \in Instances \cup Servers :
            Valid(i) /\ db[i].check => (db[i].healthy <=> i \in Beats)
       /\ \A c \in Clients : Valid(c) => c \in beating)
=============================================================================
