------------------------------ MODULE Registry ------------------------------
(***************************************************************************)
(* The registry over both stores: namespaces, services, aliases, instances *)
(* and the governance rules.  Every request is given to two servers, one   *)
(* on store/mysql and one on store/boltdb, and runs to its end before the  *)
(* next one; in between the caches of both servers poll their stores.      *)
(*                                                                         *)
(*   theme    the kind of object the behaviour is about: kinds that do not *)
(*            interact are explored one after the other                    *)
(*   dbs      the database of each engine                                  *)
(*   caches   the caches of each server; first: those that have not polled *)
(*   answer   the code each server gave to the last request                *)
(*   polls    how often the caches have polled since the last request      *)
(*   writes   the requests so far, at most MaxWrites[theme]                *)
(***************************************************************************)
EXTENDS BatchHandlers

CONSTANTS Themes, MaxWrites, NamespaceNames, ServiceNames, Hosts, Checks,
          MaxPolls, Clients, RuleNames, Targets,
          TargetsMove       \* whether an update may move a rule to another service

VARIABLES theme, dbs, caches, answer, polls, writes

vars == <<theme, dbs, caches, answer, polls, writes>>

Engines == {"mysql", "boltdb"}

Srv(e) == [db |-> dbs[e], cache |-> caches[e]]

EmptyCaches ==
  [first |-> {"namespace", "service", "instance", "client", "limit", "breaker", "fault", "routing"},
   namespace |-> << >>, instance |-> << >>, client |-> << >>, empty |-> {},
   service |-> naming!EmptyServices, limit |-> rules!EmptyLimits,
   breaker |-> rules!EmptyRules, fault |-> rules!EmptyRules,
   routing |-> routing!newRouteRuleBucket]

ServiceRequest(n, ns, business, owner, meta, uuid) ==
  [name |-> n, namespace |-> ns, business |-> business, owner |-> owner, meta |-> meta,
   uuid |-> uuid]

\* What is there at the start is older than what a poll looks back on.
Started(e) ==
  LET srv == [db |-> storage!Initialize(e), cache |-> EmptyCaches]
      req(n) == ServiceRequest(n, "n1", NoRow, {"o"}, NoMeta, n)
      db == IF theme \in {"alias", "instance", "lag", "job", "tag", "routing"}
            THEN Naming!CreateServices(srv, SetToSeq({req(n) : n \in ServiceNames})).db
            ELSE srv.db
  IN  [db EXCEPT !.service = Polled(@, DOMAIN @), !.namespace = Polled(@, DOMAIN @)]

Init ==
  /\ theme \in Themes
  /\ dbs = [e \in Engines |-> Started(e)]
  /\ caches = [e \in Engines |-> EmptyCaches]
  /\ answer = [e \in Engines |-> Success]
  /\ polls = 0
  /\ writes = 0

\* The request runs on both servers and leaves them these caches.
RequestCaches(reply, left) ==
  /\ writes < MaxWrites[theme]
  /\ writes' = writes + 1
  /\ dbs' = [e \in Engines |-> reply[e].db]
  /\ answer' = [e \in Engines |-> reply[e].code]
  /\ caches' = left
  /\ polls' = 0
  /\ UNCHANGED theme

Request(reply) == RequestCaches(reply, caches)

\* No two requests draw the same identifier.
Uuid == "u" \o ToString(writes)

\* No metadata, or some no object has had before: an update of store/boltdb
\* that leaves the metadata alone deletes them.
NewMetas == {NoMeta, {Uuid}}

-----------------------------------------------------------------------------
\* Namespaces and services

NamespaceRequest(n, comment) == [name |-> n, comment |-> comment, owner |-> NoRow, uuid |-> Uuid]

\* A namespace that is deleted leaves the names of the cache of services
\* (CleanNamespace, the last step of DeleteNamespace).
DeleteNamespaceRequest(n) ==
  LET reply == [e \in Engines |->
                  Naming!Namespace!DeleteNamespaces(Srv(e), <<NamespaceRequest(n, NoRow)>>)]
      gone(e) == /\ storage!GetNamespace(dbs[e], n) # NoRow
                 /\ storage!GetNamespace(reply[e].db, n) = NoRow
      clean(e) == [caches[e] EXCEPT !.service = naming!CleanNamespace(@, n)]
  IN  RequestCaches(reply, [e \in Engines |-> IF gone(e) THEN clean(e) ELSE caches[e]])

NamespaceStep ==
  /\ theme = "namespace"
  /\ \E n \in NamespaceNames :
       \/ Request([e \in Engines |->
            Naming!Namespace!CreateNamespaces(Srv(e), <<NamespaceRequest(n, "new")>>)])
       \/ Request([e \in Engines |->
            Naming!Namespace!UpdateNamespaces(Srv(e), <<NamespaceRequest(n, "upd")>>)])
       \/ Request([e \in Engines |->
            Naming!Namespace!UpdateNamespaceToken(Srv(e), NamespaceRequest(n, NoRow))])
       \/ DeleteNamespaceRequest(n)
       \/ LET req == ServiceRequest("s1", n, NoRow, {"o"}, NoMeta, Uuid)
          IN  \/ Request([e \in Engines |-> Naming!CreateServices(Srv(e), <<req>>)])
              \/ Request([e \in Engines |-> Naming!DeleteServices(Srv(e), <<req>>)])

ServiceStep ==
  /\ theme = "service"
  /\ \E n \in ServiceNames, ns \in {"n1"} :
       LET plain == ServiceRequest(n, ns, NoRow, {"o"}, NoMeta, Uuid)
       IN  \/ \E meta \in NewMetas :
                LET req == [plain EXCEPT !.meta = meta]
                IN  Request([e \in Engines |-> Naming!CreateServices(Srv(e), <<req>>)])
           \/ \E meta \in NewMetas, business \in {NoRow, "b"}, owner \in {NoRow, {"o"}, {"p"}} :
                LET req == ServiceRequest(n, ns, business, owner, meta, Uuid)
                IN  Request([e \in Engines |-> Naming!UpdateServices(Srv(e), <<req>>)])
           \/ Request([e \in Engines |-> Naming!UpdateServiceToken(Srv(e), plain)])
           \/ Request([e \in Engines |-> Naming!DeleteServices(Srv(e), <<plain>>)])

-----------------------------------------------------------------------------
\* Aliases and instances

AliasRequest(alias, n, owner) ==
  [service |-> n, namespace |-> "n1", alias |-> alias, alias_namespace |-> "n1",
   type |-> "DEFAULT", owner |-> owner, uuid |-> Uuid]

AliasStep ==
  /\ theme = "alias"
  /\ \/ \E alias \in {"a1", "a2"} :
          \/ \E n \in ServiceNames \cup {"a1"} :
               \/ Request([e \in Engines |->
                    Naming!CreateServiceAlias(Srv(e), AliasRequest(alias, n, {"o"}))])
               \/ \E owner \in {NoRow, {"p"}} :
                    Request([e \in Engines |->
                      Naming!UpdateServiceAlias(Srv(e), AliasRequest(alias, n, owner))])
          \/ Request([e \in Engines |->
               Naming!DeleteServiceAliases(Srv(e), <<AliasRequest(alias, "s1", NoRow)>>)])
     \/ \E n \in {"s1", "a1"} :
          LET req == ServiceRequest(n, "n1", "b", {"o"}, NoMeta, Uuid)
          IN  \/ Request([e \in Engines |-> Naming!DeleteServices(Srv(e), <<req>>)])
              \/ Request([e \in Engines |-> Naming!UpdateServices(Srv(e), <<req>>)])

InstanceRequest(host, healthy, isolate, check, enable, meta) ==
  [id |-> NoRow, service |-> "s1", namespace |-> "n1", host |-> host, healthy |-> healthy,
   isolate |-> isolate, check |-> check, enable |-> enable, meta |-> meta, uuid |-> Uuid]

InstanceStep ==
  /\ theme = "instance"
  /\ \E host \in Hosts :
       LET plain == InstanceRequest(host, NoRow, NoRow, NoCheck, NoRow, NoMeta)
           one == <<1>>
       IN  \/ \E check \in Checks \ {NoCheck}, meta \in NewMetas \ {NoMeta} :
                LET req == [plain EXCEPT !.check = check, !.meta = meta]
                IN  Request([e \in Engines |-> Naming!CreateInstances(Srv(e), <<req>>, one)])
           \/ \E check \in Checks, isolate \in {NoRow, TRUE} :
                LET req == [plain EXCEPT !.check = check, !.isolate = isolate]
                IN  Request([e \in Engines |-> Naming!UpdateInstances(Srv(e), <<req>>, one)])
           \/ Request([e \in Engines |-> Naming!DeleteInstances(Srv(e), <<plain>>, one)])
           \/ Request([e \in Engines |-> Naming!DeleteInstancesByHost(Srv(e), <<plain>>, one)])
           \/ \E isolate \in BOOLEAN :
                Request([e \in Engines |->
                  Naming!UpdateInstancesIsolate(Srv(e), <<[plain EXCEPT !.isolate = isolate]>>, one)])
           \/ \E check \in Checks \ {NoCheck} :
                LET req == [plain EXCEPT !.check = check, !.meta = {Uuid}]
                IN  Request([e \in Engines |-> asyncCreateInstance(Srv(e), req)])
           \/ Request([e \in Engines |-> asyncDeleteInstance(Srv(e), plain)])
           \/ Request([e \in Engines |->
                Naming!DeleteServices(Srv(e), <<ServiceRequest("s1", "n1", NoRow, {"o"}, NoMeta, Uuid)>>)])

\* A service comes and goes while the cache of services lags behind, which the
\* registration of an instance asks first.
LagStep ==
  /\ theme = "lag"
  /\ LET svc == ServiceRequest("s1", "n1", NoRow, {"o"}, NoMeta, Uuid)
         req == [InstanceRequest("h1", NoRow, NoRow, NoCheck, NoRow, {Uuid}) EXCEPT !.check = 3]
         one == <<1>>
     IN  \/ Request([e \in Engines |-> Naming!CreateServices(Srv(e), <<svc>>)])
         \/ Request([e \in Engines |-> Naming!DeleteServices(Srv(e), <<svc>>)])
         \/ Request([e \in Engines |-> Naming!CreateInstances(Srv(e), <<req>>, one)])
         \/ Request([e \in Engines |-> asyncCreateInstance(Srv(e), req)])
         \/ Request([e \in Engines |-> Naming!DeleteInstances(Srv(e), <<req>>, one)])

\* A batch of two heartbeats, of one instance or of two; if they leave two statuses
\* to write, either is written first.
HeartbeatStep ==
  /\ theme = "instance"
  /\ \E h1, h2 \in Hosts, b1, b2 \in BOOLEAN : \E up \in {TRUE, h1 = h2 \/ b1 = b2} :
       LET plain(h) == InstanceRequest(h, NoRow, NoRow, NoCheck, NoRow, NoMeta)
           at(h, b) == [id |-> Naming!InstanceID(plain(h)), healthy |-> b]
           out(e) == heartbeatHandler(dbs[e], <<at(h1, b1), at(h2, b2)>>, <<up, ~up>>, Uuid)
       IN  \/ Request([e \in Engines |-> Reply(out(e).db, out(e).codes[1])])
           \/ /\ h1 = h2 /\ b1 = b2 /\ up
              /\ Request([e \in Engines |-> serialSetInsDbStatus(dbs[e], at(h1, b1).id, b1, Uuid)])

-----------------------------------------------------------------------------
\* The jobs of the leader, on the caches as they are.  What a job or a maintainer
\* removes was deleted long before, and the caches have polled since.

OldRows(e, t) == {k \in DOMAIN dbs[e][t] : ~dbs[e][t][k].fresh}

JobStep ==
  /\ theme = "job"
  /\ \/ \E host \in Hosts :
          LET req == [InstanceRequest(host, NoRow, NoRow, NoCheck, NoRow, {Uuid}) EXCEPT !.check = 3]
          IN  \/ Request([e \in Engines |-> asyncCreateInstance(Srv(e), req)])
              \/ Request([e \in Engines |-> asyncDeleteInstance(Srv(e), req)])
              \/ /\ \A e \in Engines : Naming!InstanceID(req) \in OldRows(e, "instance")
                                            \ ValidKeys(dbs[e].instance)
                 /\ Request([e \in Engines |-> CleanInstance(Srv(e), req)])
     \/ Request([e \in Engines |->
          Reply(cleanDeletedInstancesJob(dbs[e], OldRows(e, "instance")), Success)])
     \/ Request([e \in Engines |-> deleteUnHealthyInstanceJob(Srv(e), OldRows(e, "instance"))])

EmptyServicesJob(late) ==
  LET out == [e \in Engines |-> deleteEmptyAutoCreatedServices(Srv(e), caches[e].empty, late)]
  IN  /\ dbs' = [e \in Engines |-> out[e].db]
      /\ caches' = [e \in Engines |-> [caches[e] EXCEPT !.empty = out[e].emptyServices]]

\* The job runs as the leader, or forgets what it knows.
EmptyServicesStep ==
  /\ theme = "job"
  /\ writes < MaxWrites[theme]
  /\ writes' = writes + 1
  /\ polls' = 0
  /\ \/ \E late \in {{}, UNION {caches[e].empty : e \in Engines}} : EmptyServicesJob(late)
     \/ /\ caches' = [e \in Engines |-> [caches[e] EXCEPT !.empty = {}]]
        /\ UNCHANGED dbs
  /\ UNCHANGED <<theme, answer>>

-----------------------------------------------------------------------------
\* Clients that report themselves

ClientStep ==
  /\ theme = "client"
  /\ \E id \in Clients :
       \/ \E host \in Hosts, stat \in SUBSET {"9100"} :
            Request([e \in Engines |-> ReportClient(Srv(e), [id |-> id, host |-> host, stat |-> stat])])
       \/ Request([e \in Engines |-> deregisterClients(dbs[e], {id})])
       \/ Request([e \in Engines |->
            Reply(cleanDeletedClientsJob(dbs[e], OldRows(e, "client")), Success)])

-----------------------------------------------------------------------------
\* Rules.  A rule is changed under an identifier an earlier request drew.

OldIds == {"u" \o ToString(i) : i \in 0 .. writes - 1}

LimitRequest(id, conf, disable) ==
  [id |-> id, namespace |-> LimitedService[conf][1], service |-> LimitedService[conf][2],
   name |-> "limit", amounts |-> <<1>>, disable |-> disable, conf |-> conf, uuid |-> Uuid]

MayLimit(id, conf) ==
  \/ TargetsMove
  \/ \A e \in Engines : id \in DOMAIN dbs[e].ratelimit_config =>
       LimitedService[dbs[e].ratelimit_config[id].conf] = LimitedService[conf]

LimitStep ==
  /\ theme = "limit"
  /\ \/ \E conf \in DOMAIN LimitedService :
          \/ Request([e \in Engines |-> CreateRateLimits(Srv(e), <<LimitRequest("", conf, FALSE)>>)])
          \/ \E id \in OldIds :
               /\ MayLimit(id, conf)
               /\ Request([e \in Engines |->
                    UpdateRateLimits(Srv(e), <<LimitRequest(id, conf, FALSE)>>)])
     \/ \E id \in OldIds, conf \in {CHOOSE c \in DOMAIN LimitedService : TRUE} :
          \/ Request([e \in Engines |-> EnableRateLimits(Srv(e), <<LimitRequest(id, conf, TRUE)>>)])
          \/ Request([e \in Engines |-> DeleteRateLimits(Srv(e), <<LimitRequest(id, conf, FALSE)>>)])

RuleRequest(id, name, dst, enable) ==
  [id |-> id, name |-> name, namespace |-> "n1", src |-> dst, dst |-> dst, enable |-> enable,
   conf |-> "body", uuid |-> Uuid]

\* The table a cache polls.
TableOf(e, c) ==
  CASE c = "limit" -> "ratelimit_config"
    [] c = "breaker" -> "circuitbreaker_rule_v2"
    [] c = "fault" /\ e = "mysql" -> "fault_detect_rule"
    [] c = "fault" /\ e = "boltdb" -> "faultdetect_rule"
    [] c = "routing" -> "routing_config_v2"
    [] OTHER -> c

\* An update moves a rule to another service only if TargetsMove.
MayTarget(c, id, dst) ==
  \/ TargetsMove
  \/ \A e \in Engines : id \in DOMAIN dbs[e][TableOf(e, c)] => dbs[e][TableOf(e, c)][id].dst = dst

AnyTarget == CHOOSE dst \in Targets : TRUE

BreakerStep ==
  /\ theme = "breaker"
  /\ \/ \E name \in RuleNames, dst \in Targets :
          \/ Request([e \in Engines |->
               CreateCircuitBreakerRules(Srv(e), <<RuleRequest("", name, dst, TRUE)>>)])
          \/ \E id \in OldIds :
               /\ MayTarget("breaker", id, dst)
               /\ Request([e \in Engines |->
                    UpdateCircuitBreakerRules(Srv(e), <<RuleRequest(id, name, dst, TRUE)>>)])
     \/ \E id \in OldIds :
          \/ Request([e \in Engines |->
               EnableCircuitBreakerRules(Srv(e), <<RuleRequest(id, "", AnyTarget, FALSE)>>)])
          \/ Request([e \in Engines |->
               DeleteCircuitBreakerRules(Srv(e), <<RuleRequest(id, "", AnyTarget, FALSE)>>)])

\* Breakers of version 1: a rule has a master and tagged versions, and a service
\* is bound to one of them.  No handler calls these operations of the stores.
Bound(e, v) ==
  IF v = "master" THEN storage!GetCircuitBreakerMasterRelation(dbs[e], "r") # {}
  ELSE storage!GetCircuitBreakerRelation(dbs[e], "r", v) # {}

TagStep ==
  /\ theme = "tag"
  /\ \E v \in {"master", "v1"} :
       LET cb == [id |-> "r", version |-> v, name |-> "r", conf |-> Uuid, revision |-> Uuid]
           exists(k) == \A e \in Engines : storage!GetCircuitBreaker(dbs[e], "r", k) # NoRow
       IN  \/ /\ v = "master" /\ ~exists(v)
              /\ Request([e \in Engines |-> StoreReply(storage!CreateCircuitBreaker(dbs[e], cb))])
           \/ /\ v # "master" /\ exists("master") /\ ~exists(v)
              /\ Request([e \in Engines |-> StoreReply(storage!TagCircuitBreaker(dbs[e], cb))])
           \/ /\ exists(v)
              /\ Request([e \in Engines |-> StoreReply(storage!UpdateCircuitBreaker(dbs[e], cb))])
           \/ /\ exists(v) /\ \A e \in Engines : ~Bound(e, v)
              /\ Request([e \in Engines |-> StoreReply(
                   IF v = "master" THEN storage!DeleteMasterCircuitBreaker(dbs[e], "r")
                   ELSE storage!DeleteTagCircuitBreaker(dbs[e], "r", v))])
           \/ \E n \in ServiceNames :
                \/ Request([e \in Engines |-> StoreReply(storage!ReleaseCircuitBreaker(dbs[e],
                     [service_id |-> n, rule_id |-> "r", rule_version |-> v]))])
                \/ /\ \A e \in Engines : n \in storage!GetCircuitBreakerRelation(dbs[e], "r", v)
                   /\ Request([e \in Engines |->
                     StoreReply(storage!UnbindCircuitBreaker(dbs[e], n, "r", v))])

FaultStep ==
  /\ theme = "fault"
  /\ \/ \E name \in RuleNames, dst \in Targets :
          \/ Request([e \in Engines |->
               CreateFaultDetectRules(Srv(e), <<RuleRequest("", name, dst, TRUE)>>)])
          \/ \E id \in OldIds :
               /\ MayTarget("fault", id, dst)
               /\ Request([e \in Engines |->
                    UpdateFaultDetectRules(Srv(e), <<RuleRequest(id, name, dst, TRUE)>>)])
     \/ \E id \in OldIds :
          Request([e \in Engines |->
            DeleteFaultDetectRules(Srv(e), <<RuleRequest(id, "", AnyTarget, TRUE)>>)])

RoutingRequest(id, conf, enable) ==
  [id |-> id, name |-> "route", namespace |-> "n1", enable |-> enable, priority |-> 0,
   policy |-> "RulePolicy", conf |-> conf, uuid |-> Uuid]

RoutingV1Request(n, body) ==
  [service |-> n, namespace |-> "n1", in |-> Routes[body].in, out |-> Routes[body].out,
   uuid |-> Uuid]

\* The rules the cache made of rules of version 1, rows of version 2, and an id of
\* neither.
RoutingIds == {"none"} \cup UNION {DOMAIN caches[e].routing.v1rulesToOld : e \in Engines}
                \cup UNION {DOMAIN dbs[e].routing_config_v2 : e \in Engines}

RoutingStep ==
  /\ theme = "routing"
  /\ \/ \E conf \in DOMAIN Rules :
          Request([e \in Engines |->
               CreateRoutingConfigsV2(Srv(e), <<RoutingRequest("", conf, TRUE)>>)])
     \/ \E id \in RoutingIds, conf \in {CHOOSE c \in DOMAIN Rules : TRUE} :
          \/ Request([e \in Engines |->
               UpdateRoutingConfigsV2(Srv(e), <<RoutingRequest(id, conf, TRUE)>>)])
          \/ Request([e \in Engines |-> EnableRoutings(Srv(e), <<RoutingRequest(id, conf, TRUE)>>)])
          \/ Request([e \in Engines |->
               DeleteRoutingConfigsV2(Srv(e), <<RoutingRequest(id, conf, FALSE)>>)])
     \/ \E body \in DOMAIN Routes :
          LET req == RoutingV1Request("s1", body)
          IN  \/ Request([e \in Engines |-> CreateRoutingConfigs(Srv(e), <<req>>)])
              \/ Request([e \in Engines |-> CreateRoutingConfig(Srv(e), req)])
              \/ Request([e \in Engines |-> UpdateRoutingConfigs(Srv(e), <<req>>)])
              \/ Request([e \in Engines |-> UpdateRoutingConfig(Srv(e), req)])
              \/ Request([e \in Engines |-> DeleteRoutingConfigs(Srv(e), <<req>>)])

-----------------------------------------------------------------------------
\* The polls of the caches

CachesOf ==
  [t \in Themes |-> CASE t = "namespace" -> {"namespace", "service"}
                      [] t \in {"alias", "lag"} -> {"service"}
                      [] t = "tag" -> {}
                      [] t = "job" -> {"service", "instance"}
                      [] t = "routing" -> {"service", "routing"}
                      [] OTHER -> {t}]

\* A row without the mark of the poll.
Content(row) == [f \in DOMAIN row \ {"fresh"} |-> row[f]]

\* What the poll of a cache returns, by id.
PolledBy(e, c) ==
  LET db == dbs[e]
      first == c \in caches[e].first
      out == CASE c = "namespace" -> storage!GetMoreNamespaces(db)
               [] c = "service" -> storage!GetMoreServices(db, first, FALSE)
               [] c = "instance" -> storage!GetMoreInstances(db, first, {})
               [] c = "client" -> storage!GetMoreClients(db, first)
               [] c = "limit" -> storage!GetRateLimitsForCache(db, first)
               [] c = "breaker" -> storage!GetCircuitBreakerRulesForCache(db, first)
               [] c = "fault" -> storage!GetFaultDetectRulesForCache(db, first)
               [] c = "routing" -> storage!GetRoutingConfigsV2ForCache(db, first)
  IN  [id \in DOMAIN out |-> Content(out[id])]

\* The service of each rule of version 1, from the cache or else the store.
ServiceOfRule(e, ids) == [id \in ids |-> loadServiceByID(Srv(e), id)]

\* realUpdate of the cache with what the poll returned, in this order.
RealUpdate(e, c, order) ==
  LET own == caches[e]
      polled == PolledBy(e, c)
      mine == SelectSeq(order, LAMBDA id : id \in DOMAIN polled)
      v1 == storage!GetRoutingConfigsForCache(dbs[e], "routing" \in own.first)
  IN  CASE c = "namespace" -> naming!setNamespaces(own.namespace, polled)
        [] c = "service" -> naming!setServices(own.service, polled, mine)
        [] c = "instance" -> Mirror(own.instance, polled)
        [] c = "client" -> naming!setClients(own.client, polled).clients
        [] c = "limit" -> rules!setRateLimit(own.limit, polled, mine)
        [] c = "breaker" -> rules!setCircuitBreaker(own.breaker, polled, mine)
        [] c = "fault" -> rules!setFaultDetectRules(own.fault, polled, mine)
        [] c = "routing" ->
             routing!setRoutingConfigV2(
               routing!setRoutingConfigV1(own.routing, [id \in DOMAIN v1 |-> Content(v1[id])],
                                          ServiceOfRule(e, DOMAIN v1 \cup DOMAIN own.routing.pending)),
               polled)

\* Every poll looks back a few seconds: unless some time has passed (later),
\* the next one returns the same rows again.
Read(e, c, later) ==
  LET v1 == IF e = "mysql" THEN "routing_config" ELSE "routing"
      seen(db, t) == [db EXCEPT ![t] = Polled(@, DOMAIN @)]
      one == seen(dbs[e], TableOf(e, c))
  IN  CASE ~later -> dbs[e]
        [] c = "instance" /\ e = "boltdb" ->
             [one EXCEPT !.instance = Assign(@, DOMAIN @, [protoFresh |-> FALSE])]
        [] c = "routing" -> seen(one, v1)
        [] OTHER -> one

\* Go visits the rows of these polls in any order; the other caches treat
\* every row by itself.
Orders(c, ids) ==
  LET some == SetToSeq(ids)
  IN  IF c \in {"namespace", "instance", "client", "routing"} THEN {some}
      ELSE {[i \in DOMAIN some |-> p[some[i]]] : p \in Permutations(ids)}

Poll ==
  /\ polls < MaxPolls
  /\ \E c \in CachesOf[theme] :
       /\ caches' \in {[e \in Engines |->
                         [caches[e] EXCEPT ![c] = RealUpdate(e, c, order), !.first = @ \ {c}]] :
                       order \in Orders(c, UNION {DOMAIN PolledBy(e, c) : e \in Engines})}
       /\ \E later \in BOOLEAN : dbs' = [e \in Engines |-> Read(e, c, later)]
  /\ polls' = polls + 1
  /\ UNCHANGED <<theme, answer, writes>>

Next == NamespaceStep \/ ServiceStep \/ AliasStep \/ InstanceStep \/ LagStep \/ HeartbeatStep
        \/ JobStep \/ EmptyServicesStep \/ ClientStep
        \/ LimitStep \/ BreakerStep \/ TagStep \/ FaultStep \/ RoutingStep \/ Poll

Spec == Init /\ [][Next]_vars

-----------------------------------------------------------------------------
\* Properties

\* A row without the fields of which the stores are known to differ.
Shown(row, hidden) ==
  IF row = NoRow THEN NoRow ELSE [f \in DOMAIN row \ ({"fresh"} \cup hidden) |-> row[f]]

\* The rows of the table of a cache that are not deleted.
Live(e, c, hidden) ==
  LET t == dbs[e][TableOf(e, c)] IN [id \in ValidKeys(t) |-> Shown(t[id], hidden)]

\* store/mysql keeps the statistics in a table of their own.
LiveClients(e) ==
  LET t == dbs[e].client
      stat(id) == IF e = "mysql" THEN {x[2] : x \in {y \in dbs[e].client_stat : y[1] = id}}
                  ELSE t[id].stat
  IN  [id \in ValidKeys(t) |-> [id |-> id, host |-> t[id].host, stat |-> stat(id), valid |-> TRUE]]

\* What the console shows of the objects of the theme: by name or id, and listed.
View(e) ==
  LET db == dbs[e]
      srv == Srv(e)
      at(h) == Naming!InstanceID(InstanceRequest(h, NoRow, NoRow, NoCheck, NoRow, NoMeta))
      exact(text) == [text |-> text, wild |-> FALSE]
  IN  CASE theme = "namespace" ->
             [n \in NamespaceNames |->
                <<Shown(storage!GetNamespace(db, n), {}),
                  Naming!Namespace!GetNamespaceToken(srv, [name |-> n]),
                  Naming!Namespace!GetNamespaces(srv, [name |-> {exact(n)}], 10)>>]
        [] theme \in {"service", "alias"} ->
             [n \in ServiceNames \cup {"a1", "a2"} |->
                <<Shown(storage!GetService(db, n, "n1"), {"meta"}),
                  Naming!GetServiceToken(srv, ServiceRequest(n, "n1", NoRow, NoRow, NoMeta, "")),
                  Naming!GetServiceOwner(srv, {<<n, "n1">>}) \cap ValidKeys(db.service),
                  Naming!GetServiceAliases(srv, [service |-> exact(n)], 10)>>]
        [] theme = "instance" ->
             <<[h \in Hosts |-> Shown(storage!GetInstance(db, at(h)), {"meta"})],
               Naming!GetInstances(srv, [service |-> exact("s1")], 10),
               Naming!GetInstancesCount(srv)>>
        [] theme = "client" -> LiveClients(e)
        [] theme = "limit" ->
             <<[id \in OldIds |-> Shown(storage!GetRateLimitWithID(db, id), {})],
               storage!GetExtendRateLimits(db, << >>),
               [n \in RuleNames |-> storage!GetExtendRateLimits(db, [name |-> n])],
               [off \in BOOLEAN |-> storage!GetExtendRateLimits(db, [disable |-> off])]>>
        [] theme = "breaker" -> <<GetCircuitBreakerRules(srv, << >>),
                                  [n \in RuleNames |-> GetCircuitBreakerRules(srv, [name |-> n])],
                                  Live(e, "breaker", {"enable"})>>
        [] theme = "tag" ->
             <<storage!GetCircuitBreakerVersions(db, "r"),
               [v \in {"master", "v1"} |->
                  <<Shown(storage!GetCircuitBreaker(db, "r", v), {}),
                    storage!GetCircuitBreakerRelation(db, "r", v)>>],
               [n \in ServiceNames |->
                  Shown(storage!GetCircuitBreakersByService(db, n, "n1"), {})],
               LET polled == storage!GetCircuitBreakerForCache(db, TRUE)
               IN  [k \in ValidKeys(polled) |-> polled[k].rule],
               storage!ListMasterCircuitBreakers(db, << >>),
               storage!ListReleaseCircuitBreakers(db, << >>).num>>
        [] theme = "fault" -> <<GetFaultDetectRules(srv, << >>),
                                [n \in RuleNames |-> GetFaultDetectRules(srv, [name |-> n])],
                                Live(e, "fault", {})>>
        [] theme = "routing" ->
             <<[id \in RoutingIds |-> Shown(storage!GetRoutingConfigV2WithID(db, id), {})],
               [n \in ServiceNames |-> GetRoutingConfigs(srv, [service |-> n]).out]>>
        [] OTHER -> << >>

\* The two stores are interchangeable: they answer every sequence of requests
\* with the same codes and show the same objects after it (service/*.go and
\* namespace/*.go on either store).  The jobs are excepted: they act on what the
\* caches have, and the poll of instances of store/boltdb reports no deletion.
Interchangeable ==
  theme # "job" => answer["mysql"] = answer["boltdb"] /\ View("mysql") = View("boltdb")

\* The instances that have lost their service.
Orphans(e) ==
  {i \in ValidKeys(dbs[e].instance) : dbs[e].instance[i].service_id \notin ValidKeys(dbs[e].service)}

\* Aliases have their source, rules of version 1 their service and services
\* their namespace.
RestBelongs(e) ==
  LET db == dbs[e]
      live == ValidKeys(db.service)
  IN  /\ \A s \in live : /\ db.service[s].reference \in live \cup {""}
                         /\ storage!GetNamespace(db, db.service[s].namespace) # NoRow
      /\ ValidKeys(IF e = "mysql" THEN db.routing_config ELSE db.routing) \subseteq live

\* The cache of services still has a service that is deleted in the store.
Lags(e, s) ==
  /\ naming!GetServiceByID(caches[e].service, s) # NoRow
  /\ s \notin ValidKeys(dbs[e].service)

\* No request and no job leaves anything without what it belongs to (the checks
\* of DeleteService and DeleteNamespace), whatever the caches have polled, but
\* for one: the registration of an instance for a service that is deleted in
\* the store and that the cache still has (createServiceIfAbsent).
NoOrphans ==
  [][writes # writes' => \A e \in Engines :
       /\ RestBelongs(e)'
       /\ \A i \in Orphans(e)' \ Orphans(e) : Lags(e, dbs'[e].instance[i].service_id)]_vars

\* No job deletes a service in use: it may have been empty in the caches, but it
\* has no instance in the store when it goes (DeleteEmptyAutoCreatedService).
JobsSpare ==
  [][\A e \in Engines : \A s \in ValidKeys(dbs[e].service) \ ValidKeys(dbs'[e].service) :
       \A i \in ValidKeys(dbs'[e].instance) : dbs'[e].instance[i].service_id # s]_vars

\* No instance is added to a service that has been deleted.
DeletedStayEmpty == \A e \in Engines : Orphans(e) = {}

\* The cache has polled everything there is.
Settled(e, c) == FreshKeys(dbs[e][TableOf(e, c)]) = {} /\ c \notin caches[e].first

\* Once it has polled, the cache of services finds every service by id and by
\* name, finds no deleted one by name, tells where an alias leads and counts
\* the services of a namespace, in whatever order the rows came.
ServicesDelivered ==
  \A e \in Engines : Settled(e, "service") =>
    LET live == Live(e, "service", {})
        c == caches[e].service
        named(ns) == {live[id].name : id \in {x \in DOMAIN live : live[x].namespace = ns}}
    IN  /\ e = "mysql" => Naming!GetServicesCount(Srv(e)) = Cardinality(DOMAIN live)
        /\ \A id \in DOMAIN live :
             /\ naming!GetServiceByID(c, id) # NoRow
             /\ naming!GetServiceByName(c, live[id].name, live[id].namespace).id = id
             /\ live[id].reference # "" =>
                  /\ naming!GetAliasFor(c, live[id].name, live[id].namespace).id = live[id].reference
                  /\ id \in naming!getServiceAliases(c, live[live[id].reference].namespace,
                                                        live[live[id].reference].name)
        /\ \A ns \in DOMAIN c.names \cup DOMAIN c.list :
             /\ DOMAIN naming!Bucket(c.names, ns) = named(ns)
             /\ DOMAIN naming!ListServices(c, ns).names = named(ns)
             /\ naming!GetNamespaceCntInfo(c, ns) = Cardinality(named(ns))
             /\ GetServices(Srv(e), [namespace |-> [text |-> ns, wild |-> FALSE]], 10).out
                  = {id \in DOMAIN live : live[id].namespace = ns /\ live[id].reference = ""}

\* Once it has polled, the cache of instances has every instance as it is
\* stored, and on store/mysql no deleted one; so has the cache of clients.
InstancesDelivered ==
  \A e \in Engines :
    /\ Settled(e, "instance") =>
         LET live == ValidKeys(dbs[e].instance)
         IN  /\ live \subseteq DOMAIN caches[e].instance
             /\ e = "mysql" => DOMAIN caches[e].instance \subseteq live
             /\ \A i \in live : Content(storage!GetInstance(dbs[e], i)) = caches[e].instance[i]
    /\ Settled(e, "client") =>
         LET live == LiveClients(e)
         IN  /\ caches[e].client = live
             /\ GetPrometheusTargets(Srv(e)) = UNION {{id} \X live[id].stat : id \in DOMAIN live}
             /\ \A h \in Hosts : GetReportClients(Srv(e), [host |-> h]).amount
                                 = Cardinality({id \in DOMAIN live : live[id].host = h})

\* The cached view of the registry catches up with the store.
NamingDelivered == ServicesDelivered /\ InstancesDelivered

Probes == {<<"n1", "s1">>, <<"n1", "s2">>, <<"n2", "s1">>}

Ask(key, revision) == [namespace |-> key[1], name |-> key[2], revision |-> revision]

\* Once it has polled, the cache of rate limits hands out exactly the rules of
\* the service that are not deleted, and counts and lists those.
LimitsDelivered ==
  \A e \in Engines : Settled(e, "limit") =>
    LET live == Live(e, "limit", {})
        c == caches[e].limit
        of(key) == {id \in DOMAIN live : LimitedService[live[id].conf] = key}
    IN  /\ \A key \in Probes :
             /\ DOMAIN GetRateLimitWithCache(Srv(e), Ask(key, NoRevision)).out = of(key)
             /\ GetRateLimits(Srv(e), [namespace |-> key[1], service |-> key[2]]) = of(key)
        /\ rules!GetRateLimitsCount(c) = Cardinality(DOMAIN live)

\* The answer to a request of discovery for the objects of the theme.
Answer(srv, req) ==
  CASE theme = "limit" -> GetRateLimitWithCache(srv, req)
    [] theme = "breaker" -> GetCircuitBreakerWithCache(srv, req)
    [] theme = "fault" -> GetFaultDetectWithCache(srv, req)
    [] theme = "routing" -> GetRoutingConfigWithCache(srv, req)
    [] OTHER -> GetServiceWithCache(srv, req)

\* A client that sends the revision it knows misses no change: it is told that
\* nothing changed only if it would be handed the same again.
RevisionTells ==
  [][\A e \in Engines : caches[e] # caches'[e] => \A key \in Probes :
       LET before == Answer(Srv(e), Ask(key, NoRevision))
       IN  Answer(Srv(e)', Ask(key, before.revision)).code = "DataNoChange" =>
             Answer(Srv(e)', Ask(key, NoRevision)).out = before.out]_vars

Covers(dst, key) ==
  <<dst.serviceNamespace, dst.service>> \in {key, <<key[1], "*">>, <<"*", "*">>}

\* Once they have polled, the caches of breakers and of detection rules hand
\* out no deleted rule and none of another service, every breaker that covers
\* the service, whatever came first, and every detection rule that names it.
BreakersDelivered ==
  \A e \in Engines :
    /\ Settled(e, "breaker") => \A key \in Probes :
         LET live == Live(e, "breaker", {})
         IN  DOMAIN GetCircuitBreakerWithCache(Srv(e), Ask(key, NoRevision)).out
               = {id \in DOMAIN live : Covers(live[id].dst, key)}
    /\ Settled(e, "fault") => \A key \in Probes :
         LET live == Live(e, "fault", {})
             out == DOMAIN GetFaultDetectWithCache(Srv(e), Ask(key, NoRevision)).out
             exact(id) == <<live[id].dst.serviceNamespace, live[id].dst.service>> = key
         IN  /\ out \subseteq {id \in DOMAIN live : Covers(live[id].dst, key)}
             /\ {id \in DOMAIN live : exact(id)} \subseteq out

\* Once it has polled, the cache of routing rules hands out every enabled rule
\* that names the service on either side, directly or by a wildcard, and no
\* deleted or disabled one.
RoutesDelivered ==
  \A e \in Engines : Settled(e, "routing") =>
    LET live == Live(e, "routing", {})
        enabled == {id \in DOMAIN live : live[id].enable}
        names(id, key) == \E sub \in Range(Rules[live[id].conf]) :
                            \E s \in sub.sources \cup sub.destinations :
                              routing!MatchService(s, key[1], key[2])
        listed == QueryRoutingConfigsV2(Srv(e), << >>, <<NoRow, NoRow>>)
    IN  /\ \A key \in Probes :
             LET out == DOMAIN GetRoutingConfigWithCache(Srv(e), Ask(key, NoRevision)).out
             IN  {id \in enabled : names(id, key)} \subseteq out /\ out \subseteq enabled
        /\ DOMAIN live \subseteq listed
        /\ listed \subseteq DOMAIN live \cup DOMAIN caches[e].routing.v1rulesToOld
        /\ routing!size(caches[e].routing) >= Cardinality(listed)

\* The rules the clients are handed catch up with the stored ones.
RulesDelivered == LimitsDelivered /\ BreakersDelivered /\ RoutesDelivered
=============================================================================
