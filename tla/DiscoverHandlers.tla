-------------------------- MODULE DiscoverHandlers --------------------------
(***************************************************************************)
(* What the clients ask for (service/client_v1.go, client_info.go).  A     *)
(* request of discovery is [name, namespace, revision], with the revision  *)
(* of the last answer; the answer is [code, revision, out].  All of it     *)
(* comes from the caches: an alias is answered with the rules of the       *)
(* service it stands for, and a revision the client has already with       *)
(* DataNoChange.  A client reports itself as [id, host, stat], where host  *)
(* stands for the fields that are compared and copied one by one.          *)
(***************************************************************************)
EXTENDS RuleHandlers

CONSTANT LimitedService

naming == INSTANCE NamingCaches
rules == INSTANCE RuleCaches

\* The empty revision of a request or an answer.
NoRevision == NoRow

Discovered(code, revision, out) == [code |-> code, revision |-> revision, out |-> out]

commonCheckDiscoverRequest(req) ==
  FirstFailure(<< <<req.name # "", "InvalidServiceName">>,
                  <<req.namespace # "", "InvalidNamespaceName">> >>)

\* The service, or the source of the alias, of the name.
getServiceCache(srv, name, namespace) ==
  LET service == naming!GetServiceByName(srv.cache.service, name, namespace)
  IN  IF service # NoRow /\ service.reference # ""
      THEN naming!GetServiceByID(srv.cache.service, service.reference)
      ELSE service

\* A service the cache does not know is asked for under the name of the request.
AliasFor(srv, req) ==
  LET service == getServiceCache(srv, req.name, req.namespace)
  IN  IF service = NoRow THEN <<req.namespace, req.name>> ELSE <<service.namespace, service.name>>

\* The list of a namespace, or of all of them; what the cache has never heard
\* of has no revision.
GetServiceWithCache(srv, req) ==
  LET one == naming!ListServices(srv.cache.service, req.namespace)
      all == naming!ListAllServices(srv.cache.service)
      revision == IF req.namespace # "" THEN one.revisions ELSE all.revision
      svcs == IF req.namespace # "" THEN Range(one.names) ELSE all.out
      known == IF req.namespace # "" THEN req.namespace \in DOMAIN srv.cache.service.list
               ELSE srv.cache.service # naming!EmptyServices
  IN  CASE ~known -> Discovered(Success, NoRevision, {})
        [] revision = req.revision -> Discovered("DataNoChange", req.revision, {})
        [] OTHER -> Discovered(Success, revision, {<<s.namespace, s.name>> : s \in svcs})

GetRoutingConfigWithCache(srv, req) ==
  LET check == commonCheckDiscoverRequest(req)
      key == AliasFor(srv, req)
      out == routing!GetRouterConfig(srv.cache.routing, key[2], key[1])
  IN  CASE check # Success -> Discovered(check, req.revision, << >>)
        [] out.revision = req.revision -> Discovered("DataNoChange", req.revision, << >>)
        [] OTHER -> Discovered(Success, out.revision, Restrict(srv.cache.routing.rules, out.rules))

GetRateLimitWithCache(srv, req) ==
  LET check == commonCheckDiscoverRequest(req)
      key == AliasFor(srv, req)
      out == rules!getRules(srv.cache.limit, key)
  IN  CASE check # Success -> Discovered(check, req.revision, << >>)
        [] out.rules = << >> \/ out.revision = {} -> Discovered(Success, NoRevision, << >>)
        [] out.revision = req.revision -> Discovered("DataNoChange", req.revision, << >>)
        [] OTHER -> Discovered(Success, out.revision, out.rules)

\* The answer made of a bucket of rules.
OfBucket(req, bucket) ==
  LET revision == rules!reloadRuleRevision(bucket)
  IN  CASE revision = {} -> Discovered(Success, NoRevision, << >>)
        [] revision = req.revision -> Discovered("DataNoChange", req.revision, << >>)
        [] OTHER -> Discovered(Success, revision, bucket)

GetFaultDetectWithCache(srv, req) ==
  LET check == commonCheckDiscoverRequest(req)
      key == AliasFor(srv, req)
  IN  IF check # Success THEN Discovered(check, req.revision, << >>)
      ELSE OfBucket(req, rules!GetFaultDetectConfig(srv.cache.fault, key[2], key[1]))

GetCircuitBreakerWithCache(srv, req) ==
  LET check == commonCheckDiscoverRequest(req)
      key == AliasFor(srv, req)
  IN  IF check # Success THEN Discovered(check, req.revision, << >>)
      ELSE OfBucket(req, rules!GetCircuitBreakerConfig(srv.cache.breaker, key[2], key[1]))

-----------------------------------------------------------------------------
\* service/client_info.go, with the batch controller of clients open

clientEquals(client, req) ==
  client.id = req.id /\ client.host = req.host /\ client.stat = req.stat

\* What the batch controller does with a batch (service/batch/client.go).
registerClients(db, clients) == StoreReply(storage!BatchAddClients(db, clients))

deregisterClients(db, ids) == StoreReply(storage!BatchDeleteClients(db, ids))

asyncCreateClient(db, req) == registerClients(db, req.id :> req)

\* The client is stored only when the cache does not have it as it is.  The
\* heartbeat that follows is reported to the health checker.
checkAndStoreClient(srv, req) ==
  LET client == RowOf(srv.cache.client, req.id)
      needStore == client = NoRow \/ ~clientEquals(client, req)
      stored == asyncCreateClient(srv.db, req)
  IN  IF ~needStore THEN Reply(srv.db, Success)
      ELSE IF stored.code \notin {Success, ExistedResource} THEN stored
      ELSE Reply(stored.db, Success)

ReportClient(srv, req) ==
  IF req.id = "" THEN Reply(srv.db, Success) ELSE checkAndStoreClient(srv, req)

\* What the clients say they export to Prometheus.
GetPrometheusTargets(srv) ==
  UNION {{id} \X srv.cache.client[id].stat : id \in DOMAIN srv.cache.client}

\* The list is made of a variable that stays empty, not of what the query found.
GetReportClients(srv, filter) ==
  LET found == naming!GetClientsByFilter(srv.cache.client, filter)
  IN  [amount |-> Cardinality(found), size |-> Cardinality(found), clients |-> {}]

-----------------------------------------------------------------------------
\* What the console lists: service/service.go, ratelimit_config.go,
\* routing_config_v1.go, routing_config_v2.go.  Limits that are asked for are
\* those of the page.

\* The cache has just polled.  filter maps a field to [text, wild].
GetServices(srv, filter, limit) ==
  LET found == naming!GetServicesByFilter(srv.cache.service, filter, limit)
  IN  [num |-> found.num, size |-> found.shown, out |-> {svc.id : svc \in found.out}]

parseRateLimitArgs(query) ==
  FirstFailure(<< <<DOMAIN query \subseteq {"id", "name", "service", "namespace", "disable"},
                    "InvalidParameter">> >>)

GetRateLimits(srv, query) ==
  IF parseRateLimitArgs(query) # Success THEN {}
  ELSE rules!QueryRateLimitRules(srv.cache.limit, query)

\* service is the name of the service for the store.
GetRoutingConfigs(srv, query) ==
  LET filter == [f \in {IF k = "service" THEN "name" ELSE k : k \in DOMAIN query} |->
                   query[IF f = "name" THEN "service" ELSE f]]
  IN  IF DOMAIN query \subseteq {"service", "namespace"}
      THEN storage!GetRoutingConfigs(srv.db, filter) ELSE [num |-> 0, out |-> {}]

QueryRoutingConfigsV2(srv, filter, of) ==
  routing!QueryRoutingConfigsV2(srv.cache.routing, filter, of)
=============================================================================
