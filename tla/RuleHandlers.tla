---------------------------- MODULE RuleHandlers ----------------------------
(***************************************************************************)
(* The handlers of the governance rules (service/ratelimit_config.go,      *)
(* faultdetect_config.go, circuitbreaker_rule.go, routing_config_v2.go,    *)
(* routing_config_v1.go, routing_config_v1tov2.go).  A request names the   *)
(* fields the code looks at and puts the body of the rule in conf:         *)
(*   rate limit     [id, namespace, service, name, amounts, disable, conf] *)
(*   fault detect   [id, name, namespace, dst, conf]                       *)
(*   breaker        the same with src and enable                           *)
(*   routing        [id, name, namespace, enable, priority, policy, conf]  *)
(*   routing v1     [service, namespace, in, out], in and out sequences of *)
(*                  the routes of Routing                                  *)
(* and each has the uuid the handler draws.  The cache of routing rules    *)
(* srv.cache.routing tells which rules of version 2 stand for a stored     *)
(* rule of version 1 (v1rulesToOld).                                       *)
(***************************************************************************)
EXTENDS ServerCommon

CONSTANTS AutoCreate, Routes, Rules

routing == INSTANCE Routing

Naming == INSTANCE NamingHandlers

DefaultNamespace == "default"

OrDefault(namespace) == IF namespace = "" THEN DefaultNamespace ELSE namespace

-----------------------------------------------------------------------------
\* service/ratelimit_config.go

checkRateLimitParamsDbLen(req) ==
  FirstFailure(<< <<CheckDbStrFieldLen(req.service), "InvalidServiceName">>,
                  <<CheckDbStrFieldLen(req.namespace), "InvalidNamespaceName">>,
                  <<CheckDbStrFieldLen(req.name), "InvalidRateLimitName">> >>)

checkRateLimitParams(req) ==
  FirstFailure(<< <<checkResourceName(req.namespace), "InvalidNamespaceName">>,
                  <<checkResourceName(req.service), "InvalidServiceName">>,
                  <<checkRateLimitParamsDbLen(req) = Success, checkRateLimitParamsDbLen(req)>> >>)

\* No period occurs twice among the amounts.
checkRateLimitRuleParams(req) ==
  IF Len(req.amounts) = Cardinality(Range(req.amounts)) THEN Success
  ELSE "InvalidRateLimitAmounts"

checkRevisedRateLimitParams(req) == IF req.id = "" THEN "InvalidRateLimitID" ELSE Success

checkRateLimitExisted(db, id) ==
  IF storage!GetRateLimitWithID(db, id) = NoRow THEN "NotFoundRateLimit" ELSE Success

\* The service is part of the body; the id of the service is left empty.
api2RateLimit(req) ==
  [id |-> req.uuid, name |-> req.name, service_id |-> "", disable |-> req.disable,
   conf |-> req.conf, revision |-> req.uuid]

CreateRateLimit(srv, req) ==
  LET check == FirstFailure(
        << <<checkRateLimitParams(req) = Success, checkRateLimitParams(req)>>,
           <<checkRateLimitRuleParams(req) = Success, checkRateLimitRuleParams(req)>> >>)
  IN  IF check # Success THEN Reply(srv.db, check)
      ELSE storeError2Response(storage!CreateRateLimit(srv.db, api2RateLimit(req)))

DeleteRateLimit(srv, req) ==
  LET check == checkRevisedRateLimitParams(req)
  IN  CASE check # Success -> Reply(srv.db, check)
        [] checkRateLimitExisted(srv.db, req.id) # Success -> Reply(srv.db, Success)
        [] OTHER -> storeError2Response(
             storage!DeleteRateLimit(srv.db, [id |-> req.id, revision |-> req.uuid]))

EnableRateLimit(srv, req) ==
  LET check == FirstFailure(
        << <<checkRevisedRateLimitParams(req) = Success, checkRevisedRateLimitParams(req)>>,
           <<checkRateLimitExisted(srv.db, req.id) = Success,
             checkRateLimitExisted(srv.db, req.id)>> >>)
  IN  IF check # Success THEN Reply(srv.db, check)
      ELSE storeError2Response(storage!EnableRateLimit(srv.db,
             [id |-> req.id, disable |-> req.disable, revision |-> req.uuid]))

UpdateRateLimit(srv, req) ==
  LET check == FirstFailure(
        << <<checkRevisedRateLimitParams(req) = Success, checkRevisedRateLimitParams(req)>>,
           <<checkRateLimitRuleParams(req) = Success, checkRateLimitRuleParams(req)>>,
           <<checkRateLimitParamsDbLen(req) = Success, checkRateLimitParamsDbLen(req)>>,
           <<checkRateLimitExisted(srv.db, req.id) = Success,
             checkRateLimitExisted(srv.db, req.id)>> >>)
  IN  IF check # Success THEN Reply(srv.db, check)
      ELSE storeError2Response(
             storage!UpdateRateLimit(srv.db, [api2RateLimit(req) EXCEPT !.id = req.id]))

CreateRateLimits(srv, reqs) == Batch(CreateRateLimit, srv, reqs)

DeleteRateLimits(srv, reqs) == Batch(DeleteRateLimit, srv, reqs)

EnableRateLimits(srv, reqs) == Batch(EnableRateLimit, srv, reqs)

UpdateRateLimits(srv, reqs) == Batch(UpdateRateLimit, srv, reqs)

-----------------------------------------------------------------------------
\* service/faultdetect_config.go

checkFaultDetectRuleParamsDbLen(req) ==
  FirstFailure(<< <<CheckDbStrFieldLen(req.dst.service), "InvalidServiceName">>,
                  <<CheckDbStrFieldLen(req.dst.serviceNamespace), "InvalidNamespaceName">>,
                  <<CheckDbStrFieldLen(req.name), "InvalidRateLimitName">>,
                  <<CheckDbStrFieldLen(req.namespace), "InvalidNamespaceName">> >>)

checkFaultDetectRuleParams(req, idRequired, nameRequired) ==
  FirstFailure(<< <<checkFaultDetectRuleParamsDbLen(req) = Success,
                    checkFaultDetectRuleParamsDbLen(req)>>,
                  <<nameRequired => req.name # "", "InvalidCircuitBreakerName">>,
                  <<idRequired => req.id # "", "InvalidCircuitBreakerID">> >>)

checkFaultDetectRuleExists(db, id) ==
  IF storage!HasFaultDetectRule(db, id) THEN Success ELSE NotFoundResource

api2FaultDetectRule(req, id) ==
  [id |-> id, name |-> req.name, namespace |-> OrDefault(req.namespace), dst |-> req.dst,
   conf |-> req.conf, revision |-> req.uuid]

createFaultDetectRule(srv, req) ==
  LET check == checkFaultDetectRuleParams(req, FALSE, TRUE)
      data == api2FaultDetectRule(req, req.uuid)
  IN  CASE check # Success -> Reply(srv.db, check)
        [] storage!HasFaultDetectRuleByName(srv.db, data.name, data.namespace)
             -> Reply(srv.db, "FaultDetectRuleExisted")
        [] OTHER -> storeError2Response(storage!CreateFaultDetectRule(srv.db, data))

updateFaultDetectRule(srv, req) ==
  LET check == checkFaultDetectRuleParams(req, TRUE, TRUE)
      data == api2FaultDetectRule(req, req.id)
  IN  CASE check # Success -> Reply(srv.db, check)
        [] checkFaultDetectRuleExists(srv.db, req.id) # Success
             -> Reply(srv.db, NotFoundResource)
        [] storage!HasFaultDetectRuleByNameExcludeId(srv.db, data.name, data.namespace, req.id)
             -> Reply(srv.db, "FaultDetectRuleExisted")
        [] OTHER -> storeError2Response(storage!UpdateFaultDetectRule(srv.db, data))

deleteFaultDetectRule(srv, req) ==
  LET check == checkFaultDetectRuleParams(req, TRUE, FALSE)
      deleted == storage!DeleteFaultDetectRule(srv.db, req.id)
  IN  CASE check # Success -> Reply(srv.db, check)
        [] checkFaultDetectRuleExists(srv.db, req.id) # Success -> Reply(srv.db, Success)
        [] deleted.err # OK -> Reply(srv.db, "ParseException")
        [] OTHER -> Reply(deleted.db, Success)

CreateFaultDetectRules(srv, reqs) == Batch(createFaultDetectRule, srv, reqs)

DeleteFaultDetectRules(srv, reqs) == Batch(deleteFaultDetectRule, srv, reqs)

UpdateFaultDetectRules(srv, reqs) == Batch(updateFaultDetectRule, srv, reqs)

FaultDetectRuleFilters ==
  {"id", "name", "namespace", "service", "serviceNamespace", "dstService", "dstNamespace"}

GetFaultDetectRules(srv, query) ==
  IF ~(DOMAIN query \subseteq FaultDetectRuleFilters) THEN [num |-> 0, out |-> {}]
  ELSE storage!GetFaultDetectRules(srv.db, query)

-----------------------------------------------------------------------------
\* service/circuitbreaker_rule.go

checkCircuitBreakerRuleParamsDbLen(req) ==
  FirstFailure(<< <<CheckDbStrFieldLen(req.src.service), "InvalidServiceName">>,
                  <<CheckDbStrFieldLen(req.src.serviceNamespace), "InvalidNamespaceName">>,
                  <<CheckDbStrFieldLen(req.name), "InvalidCircuitBreakerName">>,
                  <<CheckDbStrFieldLen(req.namespace), "InvalidNamespaceName">> >>)

checkCircuitBreakerRuleParams(req, idRequired, nameRequired) ==
  FirstFailure(<< <<checkCircuitBreakerRuleParamsDbLen(req) = Success,
                    checkCircuitBreakerRuleParamsDbLen(req)>>,
                  <<nameRequired => req.name # "", "InvalidCircuitBreakerName">>,
                  <<idRequired => req.id # "", "InvalidCircuitBreakerID">> >>)

checkCircuitBreakerRuleExists(db, id) ==
  IF storage!HasCircuitBreakerRule(db, id) THEN Success ELSE "NotFoundCircuitBreaker"

api2CircuitBreakerRule(req, id) ==
  [id |-> id, name |-> req.name, namespace |-> OrDefault(req.namespace), src |-> req.src,
   dst |-> req.dst, enable |-> req.enable, conf |-> req.conf, revision |-> req.uuid]

createCircuitBreakerRule(srv, req) ==
  LET check == checkCircuitBreakerRuleParams(req, FALSE, TRUE)
      data == api2CircuitBreakerRule(req, req.uuid)
  IN  CASE check # Success -> Reply(srv.db, check)
        [] storage!HasCircuitBreakerRuleByName(srv.db, data.name, data.namespace)
             -> Reply(srv.db, "ServiceExistedCircuitBreakers")
        [] OTHER -> storeError2Response(storage!CreateCircuitBreakerRule(srv.db, data))

deleteCircuitBreakerRule(srv, req) ==
  LET check == checkCircuitBreakerRuleParams(req, TRUE, FALSE)
      deleted == storage!DeleteCircuitBreakerRule(srv.db, req.id)
  IN  CASE check # Success -> Reply(srv.db, check)
        [] checkCircuitBreakerRuleExists(srv.db, req.id) # Success -> Reply(srv.db, Success)
        [] deleted.err # OK -> Reply(srv.db, "ParseCircuitBreakerException")
        [] OTHER -> Reply(deleted.db, Success)

enableCircuitBreakerRule(srv, req) ==
  LET check == checkCircuitBreakerRuleParams(req, TRUE, FALSE)
  IN  CASE check # Success -> Reply(srv.db, check)
        [] checkCircuitBreakerRuleExists(srv.db, req.id) # Success
             -> Reply(srv.db, "NotFoundCircuitBreaker")
        [] OTHER -> storeError2Response(storage!EnableCircuitBreakerRule(srv.db,
                      [id |-> req.id, enable |-> req.enable, revision |-> req.uuid]))

updateCircuitBreakerRule(srv, req) ==
  LET check == checkCircuitBreakerRuleParams(req, TRUE, TRUE)
      data == api2CircuitBreakerRule(req, req.id)
  IN  CASE check # Success -> Reply(srv.db, check)
        [] checkCircuitBreakerRuleExists(srv.db, req.id) # Success
             -> Reply(srv.db, "NotFoundCircuitBreaker")
        [] storage!HasCircuitBreakerRuleByNameExcludeId(srv.db, data.name, data.namespace, req.id)
             -> Reply(srv.db, "ServiceExistedCircuitBreakers")
        [] OTHER -> storeError2Response(storage!UpdateCircuitBreakerRule(srv.db, data))

CreateCircuitBreakerRules(srv, reqs) == Batch(createCircuitBreakerRule, srv, reqs)

DeleteCircuitBreakerRules(srv, reqs) == Batch(deleteCircuitBreakerRule, srv, reqs)

EnableCircuitBreakerRules(srv, reqs) == Batch(enableCircuitBreakerRule, srv, reqs)

UpdateCircuitBreakerRules(srv, reqs) == Batch(updateCircuitBreakerRule, srv, reqs)

CircuitBreakerRuleFilters ==
  {"id", "name", "namespace", "enable", "service", "serviceNamespace", "srcService",
   "srcNamespace", "dstService", "dstNamespace"}

GetCircuitBreakerRules(srv, query) ==
  IF ~(DOMAIN query \subseteq CircuitBreakerRuleFilters) THEN [num |-> 0, out |-> {}]
  ELSE storage!GetCircuitBreakerRules(srv.db, query)

-----------------------------------------------------------------------------
\* service/routing_config_v1.go, routing_config_v1tov2.go

checkRoutingConfig(req) ==
  FirstFailure(<< <<checkResourceName(req.service), "InvalidServiceName">>,
                  <<checkResourceName(req.namespace), "InvalidNamespaceName">>,
                  <<CheckDbStrFieldLen(req.service), "InvalidServiceName">>,
                  <<CheckDbStrFieldLen(req.namespace), "InvalidNamespaceName">> >>)

\* The service of a request that changes a rule, from the store.
routingConfigCommonCheck(db, req) ==
  LET check == checkRoutingConfig(req)
      service == storage!GetService(db, req.service, req.namespace)
  IN  CASE check # Success -> [code |-> check]
        [] Failed(service) -> [code |-> StoreLayerException]
        [] service = NoRow -> [code |-> "NotFoundService"]
        [] OTHER -> [code |-> Success, id |-> service.id]

\* Replace the rule of version 1 of a service by rules of version 2, in one
\* transaction: any error rolls it back.
saveRoutingV1toV2(db, svcId, inRules, outRules, uuid) ==
  LET create(acc, item) ==
        IF acc.err # OK THEN acc
        ELSE storage!CreateRoutingConfigV2Tx(acc.db,
               [item EXCEPT !.revision = uuid \o "/" \o item.id, !.enable = TRUE])
      deleted == storage!DeleteRoutingConfigTx(db, svcId)
      saved == FoldLeft(create, deleted, inRules \o outRules)
  IN  IF saved.err # OK THEN Reply(db, StoreLayerException) ELSE Reply(saved.db, Success)

\* The inbound rules are named after the service, the outbound ones are not.
batchBuildV2Routings(req) ==
  [in |-> [i \in DOMAIN req.in |->
             [routing!BuildV2RoutingFromV1Route(req.in[i], req.uuid \o "in" \o ToString(i))
                EXCEPT !.name = req.namespace \o "." \o req.service]],
   out |-> [i \in DOMAIN req.out |->
              routing!BuildV2RoutingFromV1Route(req.out[i], req.uuid \o "out" \o ToString(i))]]

createRoutingConfigV1toV2(srv, req) ==
  LET check == checkRoutingConfig(req)
      svc == Naming!loadService(srv, req.namespace, req.service)
      rules == batchBuildV2Routings(req)
  IN  CASE check # Success -> Reply(srv.db, check)
        [] svc.code # Success -> Reply(srv.db, StoreLayerException)
        [] svc.id = "" -> Reply(srv.db, "NotFoundService")
        [] OTHER -> saveRoutingV1toV2(srv.db, svc.id, rules.in, rules.out, req.uuid)

updateRoutingConfigV1toV2(srv, req) ==
  LET svc == routingConfigCommonCheck(srv.db, req)
      locked == storage!LockService(srv.db, req.service, req.namespace)
      conf == storage!GetRoutingConfigWithService(srv.db, req.service, req.namespace)
      rules == batchBuildV2Routings(req)
  IN  CASE svc.code # Success -> Reply(srv.db, svc.code)
        [] Failed(locked) -> Reply(srv.db, StoreLayerException)
        [] Failed(conf) -> Reply(srv.db, StoreLayerException)
        [] conf = NoRow -> Reply(srv.db, "NotFoundRouting")
        [] OTHER -> saveRoutingV1toV2(srv.db, svc.id, rules.in, rules.out, req.uuid)

DeleteRoutingConfig(srv, req) ==
  LET svc == routingConfigCommonCheck(srv.db, req)
  IN  IF svc.code # Success THEN Reply(srv.db, svc.code)
      ELSE storeError2Response(storage!DeleteRoutingConfig(srv.db, svc.id))

CreateRoutingConfigs(srv, reqs) == Batch(createRoutingConfigV1toV2, srv, reqs)

UpdateRoutingConfigs(srv, reqs) == Batch(updateRoutingConfigV1toV2, srv, reqs)

DeleteRoutingConfigs(srv, reqs) == Batch(DeleteRoutingConfig, srv, reqs)

api2RoutingConfig(serviceID, req) ==
  [id |-> serviceID, conf |-> routing!Marshal(Routes, [in |-> req.in, out |-> req.out]),
   revision |-> req.uuid]

\* The two writers of rules of version 1, kept for the rows of old versions.
CreateRoutingConfig(srv, req) ==
  LET check == checkRoutingConfig(req)
      svc == Naming!loadService(srv, req.namespace, req.service)
      conf == storage!GetRoutingConfigWithService(srv.db, req.service, req.namespace)
  IN  CASE check # Success -> Reply(srv.db, check)
        [] svc.code # Success -> Reply(srv.db, StoreLayerException)
        [] svc.id = "" -> Reply(srv.db, "NotFoundService")
        [] Failed(conf) -> Reply(srv.db, StoreLayerException)
        [] conf # NoRow -> Reply(srv.db, ExistedResource)
        [] OTHER -> storeError2Response(
                      storage!CreateRoutingConfig(srv.db, api2RoutingConfig(svc.id, req)))

UpdateRoutingConfig(srv, req) ==
  LET svc == routingConfigCommonCheck(srv.db, req)
      conf == storage!GetRoutingConfigWithService(srv.db, req.service, req.namespace)
  IN  CASE svc.code # Success -> Reply(srv.db, svc.code)
        [] Failed(conf) -> Reply(srv.db, StoreLayerException)
        [] conf = NoRow -> Reply(srv.db, "NotFoundRouting")
        [] OTHER -> storeError2Response(
                      storage!UpdateRoutingConfig(srv.db, api2RoutingConfig(svc.id, req)))

-----------------------------------------------------------------------------
\* service/routing_config_v2.go

checkRoutingNameAndNamespace(req) ==
  FirstFailure(<< <<CheckDbStrFieldLen(req.name), "InvalidRoutingName">>,
                  <<CheckDbStrFieldLen(req.namespace), "InvalidNamespaceName">> >>)

checkRoutingConfigIDV2(req) == IF req.id = "" THEN "InvalidRoutingID" ELSE Success

checkRoutingConfigPriorityV2(req) ==
  IF req.priority > 10 THEN "InvalidRoutingPriority" ELSE Success

checkRoutingPolicyV2(req) ==
  IF req.policy # "RulePolicy" THEN "InvalidRoutingPolicy" ELSE Success

checkRoutingConfigV2(req) ==
  FirstFailure(<< <<checkRoutingNameAndNamespace(req) = Success, checkRoutingNameAndNamespace(req)>>,
                  <<checkRoutingConfigPriorityV2(req) = Success, checkRoutingConfigPriorityV2(req)>>,
                  <<checkRoutingPolicyV2(req) = Success, checkRoutingPolicyV2(req)>> >>)

checkUpdateRoutingConfigV2(req) ==
  FirstFailure(<< <<checkRoutingConfigIDV2(req) = Success, checkRoutingConfigIDV2(req)>>,
                  <<checkRoutingConfigV2(req) = Success, checkRoutingConfigV2(req)>> >>)

Api2RoutingConfigV2(req) ==
  [id |-> IF req.id = "" THEN req.uuid ELSE req.id, name |-> req.name, enable |-> req.enable,
   conf |-> req.conf, revision |-> req.uuid]

createRoutingConfigV2(srv, req) ==
  LET check == checkRoutingConfigV2(req)
  IN  IF check # Success THEN Reply(srv.db, check)
      ELSE StoreReply(storage!CreateRoutingConfigV2(srv.db, Api2RoutingConfigV2(req)))

loadServiceByID(srv, svcID) ==
  LET cached == Naming!caches!GetServiceByID(srv.cache.service, svcID)
  IN  IF cached # NoRow THEN cached ELSE storage!GetServiceByID(srv.db, svcID)

\* A rule the cache made of a rule of version 1 has no row to change: all the
\* rules of that rule become rows first.
transferV1toV2OnModify(srv, req) ==
  LET svcId == srv.cache.routing.v1rulesToOld[req.id]
      v1conf == storage!GetRoutingConfigWithID(srv.db, svcId)
      svc == loadServiceByID(srv, svcId)
      v2 == routing!ConvertRoutingV1ToExtendV2([id |-> svcId] @@ v1conf)
  IN  CASE v1conf = NoRow -> Reply(srv.db, Success)
        [] svc = NoRow \/ Naming!IsAlias(svc) -> Reply(srv.db, "NotFoundService")
        [] OTHER -> saveRoutingV1toV2(srv.db, svcId, v2.in, v2.out, req.uuid)

TransferIfConverted(srv, req) ==
  IF req.id \in DOMAIN srv.cache.routing.v1rulesToOld
  THEN transferV1toV2OnModify(srv, req) ELSE Reply(srv.db, Success)

deleteRoutingConfigV2(srv, req) ==
  LET check == checkRoutingConfigIDV2(req)
      moved == TransferIfConverted(srv, req)
  IN  CASE check # Success -> Reply(srv.db, check)
        [] moved.code # Success -> moved
        [] OTHER -> StoreReply(storage!DeleteRoutingConfigV2(moved.db, req.id))

\* The transfer comes before the checks: a refused update keeps its effect.
updateRoutingConfigV2(srv, req) ==
  LET moved == TransferIfConverted(srv, req)
      check == checkUpdateRoutingConfigV2(req)
  IN  CASE moved.code # Success -> moved
        [] check # Success -> Reply(moved.db, check)
        [] storage!GetRoutingConfigV2WithID(moved.db, req.id) = NoRow
             -> Reply(moved.db, "NotFoundRouting")
        [] OTHER -> StoreReply(
             storage!UpdateRoutingConfigV2(moved.db, Api2RoutingConfigV2(req)))

enableRoutings(srv, req) ==
  LET check == checkRoutingConfigIDV2(req)
      moved == TransferIfConverted(srv, req)
      conf == storage!GetRoutingConfigV2WithID(moved.db, req.id)
  IN  CASE check # Success -> Reply(srv.db, check)
        [] moved.code # Success -> moved
        [] conf = NoRow -> Reply(moved.db, "NotFoundRouting")
        [] OTHER -> StoreReply(storage!EnableRouting(moved.db,
                      [id |-> req.id, enable |-> req.enable, revision |-> req.uuid]))

CreateRoutingConfigsV2(srv, reqs) == Batch(createRoutingConfigV2, srv, reqs)

DeleteRoutingConfigsV2(srv, reqs) == Batch(deleteRoutingConfigV2, srv, reqs)

UpdateRoutingConfigsV2(srv, reqs) == Batch(updateRoutingConfigV2, srv, reqs)

\* The one batch without a check of its size.
EnableRoutings(srv, reqs) == FormatBatchWriteResponse(Each(enableRoutings, srv, reqs))
=============================================================================
