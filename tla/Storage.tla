------------------------------ MODULE Storage ------------------------------
(***************************************************************************)
(* The interface store.Store (store/*_api.go) as the handlers use it: each *)
(* method runs the implementation of the engine behind the database, which *)
(* is "mysql" (store/mysql) or "boltdb" (store/boltdb).  A database is one *)
(* record of all the tables.                                               *)
(***************************************************************************)
EXTENDS StoreTables

CONSTANTS NoMeta, NoCheck, SystemNamespace, Substr, RangeSize, InterfaceSize,
          ButLast, Prefix, MaxBatchSize

MyN == INSTANCE MySQLNaming
MyR == INSTANCE MySQLRules
MyC == INSTANCE MySQLConfig
MyA == INSTANCE MySQLAuth
BoltN == INSTANCE BoltNaming
BoltR == INSTANCE BoltRules
BoltC == INSTANCE BoltConfig
BoltA == INSTANCE BoltAuth

MySQL(db) == db.engine = "mysql"

\* A new database of the engine.
Initialize(engine) ==
  [engine |-> engine] @@
    IF engine = "mysql"
    THEN MyN!EmptyNaming @@ MyR!EmptyRules @@ MyC!EmptyConfig @@ MyA!EmptyAuth
    ELSE BoltN!EmptyNaming @@ BoltR!EmptyRules @@ BoltC!EmptyConfig @@ BoltA!EmptyAuth

-----------------------------------------------------------------------------
\* namespaces, services and instances (store/discover_api.go, store/api.go)

BatchCleanDeletedInstances(db, old, batchSize) ==
  IF MySQL(db) THEN MyN!BatchCleanDeletedInstances(db, old, batchSize)
  ELSE BoltN!BatchCleanDeletedInstances(db, old, batchSize)

GetUnHealthyInstances(db, old, limit) ==
  IF MySQL(db) THEN MyN!GetUnHealthyInstances(db, old, limit)
  ELSE BoltN!GetUnHealthyInstances(db, old, limit)

BatchCleanDeletedClients(db, old, batchSize) ==
  IF MySQL(db) THEN MyN!BatchCleanDeletedClients(db, old, batchSize)
  ELSE BoltN!BatchCleanDeletedClients(db, old, batchSize)

AddNamespace(db, ns) ==
  IF MySQL(db) THEN MyN!AddNamespace(db, ns) ELSE BoltN!AddNamespace(db, ns)

UpdateNamespace(db, ns) ==
  IF MySQL(db) THEN MyN!UpdateNamespace(db, ns) ELSE BoltN!UpdateNamespace(db, ns)

UpdateNamespaceToken(db, name, token) ==
  IF MySQL(db) THEN MyN!UpdateNamespaceToken(db, name, token)
  ELSE BoltN!UpdateNamespaceToken(db, name, token)

GetNamespace(db, name) ==
  IF MySQL(db) THEN MyN!GetNamespace(db, name) ELSE BoltN!GetNamespace(db, name)

GetNamespaces(db, filter, limit) ==
  IF MySQL(db) THEN MyN!GetNamespaces(db, filter, limit) ELSE BoltN!GetNamespaces(db, filter, limit)

GetMoreNamespaces(db) ==
  IF MySQL(db) THEN MyN!GetMoreNamespaces(db) ELSE BoltN!GetMoreNamespaces(db)

LockNamespace(db, name) ==
  IF MySQL(db) THEN MyN!LockNamespace(MyN!Begin(db), name) ELSE BoltN!LockNamespace(db, name)

LockService(db, name, namespace) ==
  IF MySQL(db) THEN MyN!LockService(MyN!Begin(db), name, namespace)
  ELSE BoltN!LockService(db, name, namespace)

AddService(db, s) ==
  IF MySQL(db) THEN MyN!AddService(db, s) ELSE BoltN!AddService(db, s)

DeleteService(db, id, name, namespace) ==
  IF MySQL(db) THEN MyN!DeleteService(db, id, name, namespace)
  ELSE BoltN!DeleteService(db, id, name, namespace)

DeleteServiceAlias(db, name, namespace) ==
  IF MySQL(db) THEN MyN!DeleteServiceAlias(db, name, namespace)
  ELSE BoltN!DeleteServiceAlias(db, name, namespace)

UpdateServiceAlias(db, alias, needUpdateOwner) ==
  IF MySQL(db) THEN MyN!UpdateServiceAlias(db, alias, needUpdateOwner)
  ELSE BoltN!UpdateServiceAlias(db, alias, needUpdateOwner)

UpdateService(db, s, needUpdateOwner) ==
  IF MySQL(db) THEN MyN!UpdateService(db, s, needUpdateOwner)
  ELSE BoltN!UpdateService(db, s, needUpdateOwner)

UpdateServiceToken(db, id, token, revision) ==
  IF MySQL(db) THEN MyN!UpdateServiceToken(db, id, token, revision)
  ELSE BoltN!UpdateServiceToken(db, id, token, revision)

GetSourceServiceToken(db, name, namespace) ==
  IF MySQL(db) THEN MyN!GetSourceServiceToken(db, name, namespace)
  ELSE BoltN!GetSourceServiceToken(db, name, namespace)

GetService(db, name, namespace) ==
  IF MySQL(db) THEN MyN!GetService(db, name, namespace) ELSE BoltN!GetService(db, name, namespace)

GetServiceByID(db, id) ==
  IF MySQL(db) THEN MyN!GetServiceByID(db, id) ELSE BoltN!GetServiceByID(db, id)

GetServices(db, filter, metas, hosts, limit) ==
  IF MySQL(db) THEN MyN!GetServices(db, filter, metas, hosts, limit)
  ELSE BoltN!GetServices(db, filter, metas, hosts, limit)

GetServicesCount(db) ==
  IF MySQL(db) THEN MyN!GetServicesCount(db) ELSE BoltN!GetServicesCount(db)

GetMoreServices(db, firstUpdate, disableBusiness) ==
  IF MySQL(db) THEN MyN!GetMoreServices(db, firstUpdate, disableBusiness)
  ELSE BoltN!GetMoreServices(db, firstUpdate, disableBusiness)

GetServiceAliases(db, filter, limit) ==
  IF MySQL(db) THEN MyN!GetServiceAliases(db, filter, limit)
  ELSE BoltN!GetServiceAliases(db, filter, limit)

GetServicesBatch(db, names) ==
  IF MySQL(db) THEN MyN!GetServicesBatch(db, names) ELSE BoltN!GetServicesBatch(db, names)

AddInstance(db, ins) ==
  IF MySQL(db) THEN MyN!AddInstance(db, ins) ELSE BoltN!AddInstance(db, ins)

BatchAddInstances(db, inss) ==
  IF MySQL(db) THEN MyN!BatchAddInstances(db, inss) ELSE BoltN!BatchAddInstances(db, inss)

UpdateInstance(db, ins) ==
  IF MySQL(db) THEN MyN!UpdateInstance(db, ins) ELSE BoltN!UpdateInstance(db, ins)

DeleteInstance(db, id) ==
  IF MySQL(db) THEN MyN!DeleteInstance(db, id) ELSE BoltN!DeleteInstance(db, id)

BatchDeleteInstances(db, ids) ==
  IF MySQL(db) THEN MyN!BatchDeleteInstances(db, ids) ELSE BoltN!BatchDeleteInstances(db, ids)

CleanInstance(db, id) ==
  IF MySQL(db) THEN MyN!CleanInstance(db, id) ELSE BoltN!CleanInstance(db, id)

BatchGetInstanceIsolate(db, ids) ==
  IF MySQL(db) THEN MyN!BatchGetInstanceIsolate(db, ids) ELSE BoltN!BatchGetInstanceIsolate(db, ids)

GetInstancesBrief(db, ids) ==
  IF MySQL(db) THEN MyN!GetInstancesBrief(db, ids) ELSE BoltN!GetInstancesBrief(db, ids)

GetInstance(db, id) ==
  IF MySQL(db) THEN MyN!GetInstance(db, id) ELSE BoltN!GetInstance(db, id)

GetInstancesCount(db) ==
  IF MySQL(db) THEN MyN!GetInstancesCount(db) ELSE BoltN!GetInstancesCount(db)

GetInstancesMainByService(db, service_id, host) ==
  IF MySQL(db) THEN MyN!GetInstancesMainByService(db, service_id, host)
  ELSE BoltN!GetInstancesMainByService(db, service_id, host)

GetExpandInstances(db, filter, metaFilter, limit) ==
  IF MySQL(db) THEN MyN!GetExpandInstances(db, filter, metaFilter, limit)
  ELSE BoltN!GetExpandInstances(db, filter, metaFilter, limit)

GetMoreInstances(db, firstUpdate, services) ==
  IF MySQL(db) THEN MyN!GetMoreInstances(db, firstUpdate, services)
  ELSE BoltN!GetMoreInstances(db, firstUpdate, services)

SetInstanceHealthStatus(db, id, healthy, revision) ==
  IF MySQL(db) THEN MyN!SetInstanceHealthStatus(db, id, healthy, revision)
  ELSE BoltN!SetInstanceHealthStatus(db, id, healthy, revision)

BatchSetInstanceHealthStatus(db, ids, healthy, revision) ==
  IF MySQL(db) THEN MyN!BatchSetInstanceHealthStatus(db, ids, healthy, revision)
  ELSE BoltN!BatchSetInstanceHealthStatus(db, ids, healthy, revision)

BatchSetInstanceIsolate(db, ids, isolate, revision) ==
  IF MySQL(db) THEN MyN!BatchSetInstanceIsolate(db, ids, isolate, revision)
  ELSE BoltN!BatchSetInstanceIsolate(db, ids, isolate, revision)

BatchAppendInstanceMetadata(db, requests) ==
  IF MySQL(db) THEN MyN!BatchAppendInstanceMetadata(db, requests)
  ELSE BoltN!BatchAppendInstanceMetadata(db, requests)

BatchRemoveInstanceMetadata(db, requests) ==
  IF MySQL(db) THEN MyN!BatchRemoveInstanceMetadata(db, requests)
  ELSE BoltN!BatchRemoveInstanceMetadata(db, requests)

TxDeleteNamespace(db, name) ==
  IF MySQL(db) THEN MyN!TxDeleteNamespace(db, MyN!Begin(db), name)
  ELSE BoltN!TxDeleteNamespace(db, name)

-----------------------------------------------------------------------------
\* rules, clients and L5 (store/discover_api.go and its neighbours)

GenNextL5Sid(db, layoutID) ==
  IF MySQL(db) THEN MyR!GenNextL5Sid(db, layoutID) ELSE BoltR!GenNextL5Sid(db, layoutID)

CreateRoutingConfig(db, conf) ==
  IF MySQL(db) THEN MyR!CreateRoutingConfig(db, conf) ELSE BoltR!CreateRoutingConfig(db, conf)

UpdateRoutingConfig(db, conf) ==
  IF MySQL(db) THEN MyR!UpdateRoutingConfig(db, conf) ELSE BoltR!UpdateRoutingConfig(db, conf)

DeleteRoutingConfig(db, id) ==
  IF MySQL(db) THEN MyR!DeleteRoutingConfig(db, id) ELSE BoltR!DeleteRoutingConfig(db, id)

DeleteRoutingConfigTx(db, id) ==
  IF MySQL(db) THEN MyR!DeleteRoutingConfigTx(db, id) ELSE BoltR!DeleteRoutingConfigTx(db, id)

GetRoutingConfigsForCache(db, firstUpdate) ==
  IF MySQL(db) THEN MyR!GetRoutingConfigsForCache(db, firstUpdate)
  ELSE BoltR!GetRoutingConfigsForCache(db, firstUpdate)

GetRoutingConfigWithService(db, name, namespace) ==
  IF MySQL(db) THEN MyR!GetRoutingConfigWithService(db, name, namespace)
  ELSE BoltR!GetRoutingConfigWithService(db, name, namespace)

GetRoutingConfigWithID(db, id) ==
  IF MySQL(db) THEN MyR!GetRoutingConfigWithID(db, id) ELSE BoltR!GetRoutingConfigWithID(db, id)

GetRoutingConfigs(db, filter) ==
  IF MySQL(db) THEN MyR!GetRoutingConfigs(db, filter) ELSE BoltR!GetRoutingConfigs(db, filter)

CreateRateLimit(db, limit) ==
  IF MySQL(db) THEN MyR!CreateRateLimit(db, limit) ELSE BoltR!CreateRateLimit(db, limit)

UpdateRateLimit(db, limit) ==
  IF MySQL(db) THEN MyR!UpdateRateLimit(db, limit) ELSE BoltR!UpdateRateLimit(db, limit)

EnableRateLimit(db, limit) ==
  IF MySQL(db) THEN MyR!EnableRateLimit(db, limit) ELSE BoltR!EnableRateLimit(db, limit)

DeleteRateLimit(db, limit) ==
  IF MySQL(db) THEN MyR!DeleteRateLimit(db, limit) ELSE BoltR!DeleteRateLimit(db, limit)

GetExtendRateLimits(db, filter) ==
  IF MySQL(db) THEN MyR!GetExtendRateLimits(db, filter) ELSE BoltR!GetExtendRateLimits(db, filter)

GetRateLimitWithID(db, id) ==
  IF MySQL(db) THEN MyR!GetRateLimitWithID(db, id) ELSE BoltR!GetRateLimitWithID(db, id)

GetRateLimitsForCache(db, firstUpdate) ==
  IF MySQL(db) THEN MyR!GetRateLimitsForCache(db, firstUpdate)
  ELSE BoltR!GetRateLimitsForCache(db, firstUpdate)

CreateCircuitBreaker(db, cb) ==
  IF MySQL(db) THEN MyR!CreateCircuitBreaker(db, cb) ELSE BoltR!CreateCircuitBreaker(db, cb)

TagCircuitBreaker(db, cb) ==
  IF MySQL(db) THEN MyR!TagCircuitBreaker(db, cb) ELSE BoltR!TagCircuitBreaker(db, cb)

ReleaseCircuitBreaker(db, cbr) ==
  IF MySQL(db) THEN MyR!ReleaseCircuitBreaker(db, cbr) ELSE BoltR!ReleaseCircuitBreaker(db, cbr)

UnbindCircuitBreaker(db, service_id, rule_id, rule_version) ==
  IF MySQL(db) THEN MyR!UnbindCircuitBreaker(db, service_id, rule_id, rule_version)
  ELSE BoltR!UnbindCircuitBreaker(db, service_id, rule_id, rule_version)

DeleteTagCircuitBreaker(db, id, version) ==
  IF MySQL(db) THEN MyR!DeleteTagCircuitBreaker(db, id, version)
  ELSE BoltR!DeleteTagCircuitBreaker(db, id, version)

DeleteMasterCircuitBreaker(db, id) ==
  IF MySQL(db) THEN MyR!DeleteMasterCircuitBreaker(db, id)
  ELSE BoltR!DeleteMasterCircuitBreaker(db, id)

UpdateCircuitBreaker(db, cb) ==
  IF MySQL(db) THEN MyR!UpdateCircuitBreaker(db, cb) ELSE BoltR!UpdateCircuitBreaker(db, cb)

GetCircuitBreaker(db, id, version) ==
  IF MySQL(db) THEN MyR!GetCircuitBreaker(db, id, version)
  ELSE BoltR!GetCircuitBreaker(db, id, version)

GetCircuitBreakerVersions(db, id) ==
  IF MySQL(db) THEN MyR!GetCircuitBreakerVersions(db, id)
  ELSE BoltR!GetCircuitBreakerVersions(db, id)

GetCircuitBreakerMasterRelation(db, rule_id) ==
  IF MySQL(db) THEN MyR!GetCircuitBreakerMasterRelation(db, rule_id)
  ELSE BoltR!GetCircuitBreakerMasterRelation(db, rule_id)

GetCircuitBreakerRelation(db, rule_id, rule_version) ==
  IF MySQL(db) THEN MyR!GetCircuitBreakerRelation(db, rule_id, rule_version)
  ELSE BoltR!GetCircuitBreakerRelation(db, rule_id, rule_version)

GetCircuitBreakerForCache(db, firstUpdate) ==
  IF MySQL(db) THEN MyR!GetCircuitBreakerForCache(db, firstUpdate)
  ELSE BoltR!GetCircuitBreakerForCache(db, firstUpdate)

ListMasterCircuitBreakers(db, filter) ==
  IF MySQL(db) THEN MyR!ListMasterCircuitBreakers(db, filter)
  ELSE BoltR!ListMasterCircuitBreakers(db, filter)

ListReleaseCircuitBreakers(db, filter) ==
  IF MySQL(db) THEN MyR!ListReleaseCircuitBreakers(db, filter)
  ELSE BoltR!ListReleaseCircuitBreakers(db, filter)

GetCircuitBreakersByService(db, name, namespace) ==
  IF MySQL(db) THEN MyR!GetCircuitBreakersByService(db, name, namespace)
  ELSE BoltR!GetCircuitBreakersByService(db, name, namespace)

CreateCircuitBreakerRule(db, rule) ==
  IF MySQL(db) THEN MyR!CreateCircuitBreakerRule(db, rule)
  ELSE BoltR!CreateCircuitBreakerRule(db, rule)

UpdateCircuitBreakerRule(db, rule) ==
  IF MySQL(db) THEN MyR!UpdateCircuitBreakerRule(db, rule)
  ELSE BoltR!UpdateCircuitBreakerRule(db, rule)

DeleteCircuitBreakerRule(db, id) ==
  IF MySQL(db) THEN MyR!DeleteCircuitBreakerRule(db, id) ELSE BoltR!DeleteCircuitBreakerRule(db, id)

HasCircuitBreakerRule(db, id) ==
  IF MySQL(db) THEN MyR!HasCircuitBreakerRule(db, id) ELSE BoltR!HasCircuitBreakerRule(db, id)

HasCircuitBreakerRuleByName(db, name, namespace) ==
  IF MySQL(db) THEN MyR!HasCircuitBreakerRuleByName(db, name, namespace)
  ELSE BoltR!HasCircuitBreakerRuleByName(db, name, namespace)

HasCircuitBreakerRuleByNameExcludeId(db, name, namespace, id) ==
  IF MySQL(db) THEN MyR!HasCircuitBreakerRuleByNameExcludeId(db, name, namespace, id)
  ELSE BoltR!HasCircuitBreakerRuleByNameExcludeId(db, name, namespace, id)

GetCircuitBreakerRules(db, filter) ==
  IF MySQL(db) THEN MyR!GetCircuitBreakerRules(db, filter, FALSE)
  ELSE BoltR!GetCircuitBreakerRules(db, filter)

GetCircuitBreakerRulesForCache(db, firstUpdate) ==
  IF MySQL(db) THEN MyR!GetCircuitBreakerRulesForCache(db, firstUpdate)
  ELSE BoltR!GetCircuitBreakerRulesForCache(db, firstUpdate)

EnableCircuitBreakerRule(db, rule) ==
  IF MySQL(db) THEN MyR!EnableCircuitBreakerRule(db, rule)
  ELSE BoltR!EnableCircuitBreakerRule(db, rule)

BatchAddClients(db, clients) ==
  IF MySQL(db) THEN MyR!BatchAddClients(db, clients) ELSE BoltR!BatchAddClients(db, clients)

BatchDeleteClients(db, ids) ==
  IF MySQL(db) THEN MyR!BatchDeleteClients(db, ids) ELSE BoltR!BatchDeleteClients(db, ids)

GetMoreClients(db, firstUpdate) ==
  IF MySQL(db) THEN MyR!GetMoreClients(db, firstUpdate) ELSE BoltR!GetMoreClients(db, firstUpdate)

EnableRouting(db, conf) ==
  IF MySQL(db) THEN MyR!EnableRouting(db, conf) ELSE BoltR!EnableRouting(db, conf)

CreateRoutingConfigV2(db, conf) ==
  IF MySQL(db) THEN MyR!CreateRoutingConfigV2(db, conf) ELSE BoltR!CreateRoutingConfigV2(db, conf)

CreateRoutingConfigV2Tx(db, conf) ==
  IF MySQL(db) THEN MyR!CreateRoutingConfigV2Tx(db, conf)
  ELSE BoltR!CreateRoutingConfigV2Tx(db, conf)

UpdateRoutingConfigV2(db, conf) ==
  IF MySQL(db) THEN MyR!UpdateRoutingConfigV2(db, conf) ELSE BoltR!UpdateRoutingConfigV2(db, conf)

DeleteRoutingConfigV2(db, id) ==
  IF MySQL(db) THEN MyR!DeleteRoutingConfigV2(db, id) ELSE BoltR!DeleteRoutingConfigV2(db, id)

GetRoutingConfigsV2ForCache(db, firstUpdate) ==
  IF MySQL(db) THEN MyR!GetRoutingConfigsV2ForCache(db, firstUpdate)
  ELSE BoltR!GetRoutingConfigsV2ForCache(db, firstUpdate)

GetRoutingConfigV2WithID(db, id) ==
  IF MySQL(db) THEN MyR!GetRoutingConfigV2WithID(db, id) ELSE BoltR!GetRoutingConfigV2WithID(db, id)

CreateFaultDetectRule(db, rule) ==
  IF MySQL(db) THEN MyR!CreateFaultDetectRule(db, rule) ELSE BoltR!CreateFaultDetectRule(db, rule)

UpdateFaultDetectRule(db, rule) ==
  IF MySQL(db) THEN MyR!UpdateFaultDetectRule(db, rule) ELSE BoltR!UpdateFaultDetectRule(db, rule)

DeleteFaultDetectRule(db, id) ==
  IF MySQL(db) THEN MyR!DeleteFaultDetectRule(db, id) ELSE BoltR!DeleteFaultDetectRule(db, id)

HasFaultDetectRule(db, id) ==
  IF MySQL(db) THEN MyR!HasFaultDetectRule(db, id) ELSE BoltR!HasFaultDetectRule(db, id)

HasFaultDetectRuleByName(db, name, namespace) ==
  IF MySQL(db) THEN MyR!HasFaultDetectRuleByName(db, name, namespace)
  ELSE BoltR!HasFaultDetectRuleByName(db, name, namespace)

HasFaultDetectRuleByNameExcludeId(db, name, namespace, id) ==
  IF MySQL(db) THEN MyR!HasFaultDetectRuleByNameExcludeId(db, name, namespace, id)
  ELSE BoltR!HasFaultDetectRuleByNameExcludeId(db, name, namespace, id)

GetFaultDetectRules(db, filter) ==
  IF MySQL(db) THEN MyR!GetFaultDetectRules(db, filter, FALSE)
  ELSE BoltR!GetFaultDetectRules(db, filter)

GetFaultDetectRulesForCache(db, firstUpdate) ==
  IF MySQL(db) THEN MyR!GetFaultDetectRulesForCache(db, firstUpdate)
  ELSE BoltR!GetFaultDetectRulesForCache(db, firstUpdate)

-----------------------------------------------------------------------------
\* the configuration centre (store/config_file_api.go)

CreateConfigFileGroup(db, group) ==
  IF MySQL(db) THEN MyC!CreateConfigFileGroup(db, group) ELSE BoltC!CreateConfigFileGroup(db, group)

GetConfigFileGroup(db, namespace, name) ==
  IF MySQL(db) THEN MyC!GetConfigFileGroup(db, namespace, name)
  ELSE BoltC!GetConfigFileGroup(db, namespace, name)

QueryConfigFileGroups(db, namespace, name, offset, limit) ==
  IF MySQL(db) THEN MyC!QueryConfigFileGroups(db, namespace, name, offset, limit)
  ELSE BoltC!QueryConfigFileGroups(db, namespace, name, offset, limit)

DeleteConfigFileGroup(db, namespace, name) ==
  IF MySQL(db) THEN MyC!DeleteConfigFileGroup(db, namespace, name)
  ELSE BoltC!DeleteConfigFileGroup(db, namespace, name)

UpdateConfigFileGroup(db, group) ==
  IF MySQL(db) THEN MyC!UpdateConfigFileGroup(db, group) ELSE BoltC!UpdateConfigFileGroup(db, group)

FindConfigFileGroups(db, namespace, names) ==
  IF MySQL(db) THEN MyC!FindConfigFileGroups(db, namespace, names)
  ELSE BoltC!FindConfigFileGroups(db, namespace, names)

GetConfigFileGroupById(db, id) ==
  IF MySQL(db) THEN MyC!GetConfigFileGroupById(db, id) ELSE BoltC!GetConfigFileGroupById(db, id)

CountGroupEachNamespace(db) ==
  IF MySQL(db) THEN MyC!CountGroupEachNamespace(db) ELSE BoltC!CountGroupEachNamespace(db)

CreateConfigFile(db, file) ==
  IF MySQL(db) THEN MyC!CreateConfigFile(db, file) ELSE BoltC!CreateConfigFile(db, file)

GetConfigFile(db, key) ==
  IF MySQL(db) THEN MyC!GetConfigFile(db, key) ELSE BoltC!GetConfigFile(db, key)

QueryConfigFiles(db, namespace, group, name, offset, limit) ==
  IF MySQL(db) THEN MyC!QueryConfigFiles(db, namespace, group, name, offset, limit)
  ELSE BoltC!QueryConfigFiles(db, namespace, group, name, offset, limit)

QueryConfigFilesByGroup(db, namespace, group, offset, limit) ==
  IF MySQL(db) THEN MyC!QueryConfigFilesByGroup(db, namespace, group, offset, limit)
  ELSE BoltC!QueryConfigFilesByGroup(db, namespace, group, offset, limit)

UpdateConfigFile(db, file) ==
  IF MySQL(db) THEN MyC!UpdateConfigFile(db, file) ELSE BoltC!UpdateConfigFile(db, file)

DeleteConfigFile(db, key) ==
  IF MySQL(db) THEN MyC!DeleteConfigFile(db, key) ELSE BoltC!DeleteConfigFile(db, key)

CountByConfigFileGroup(db, namespace, group) ==
  IF MySQL(db) THEN MyC!CountByConfigFileGroup(db, namespace, group)
  ELSE BoltC!CountByConfigFileGroup(db, namespace, group)

CountConfigFileEachGroup(db) ==
  IF MySQL(db) THEN MyC!CountConfigFileEachGroup(db) ELSE BoltC!CountConfigFileEachGroup(db)

CreateConfigFileRelease(db, r) ==
  IF MySQL(db) THEN MyC!CreateConfigFileRelease(db, r) ELSE BoltC!CreateConfigFileRelease(db, r)

UpdateConfigFileRelease(db, r) ==
  IF MySQL(db) THEN MyC!UpdateConfigFileRelease(db, r) ELSE BoltC!UpdateConfigFileRelease(db, r)

GetConfigFileRelease(db, key) ==
  IF MySQL(db) THEN MyC!GetConfigFileRelease(db, key) ELSE BoltC!GetConfigFileRelease(db, key)

GetConfigFileReleaseWithAllFlag(db, key) ==
  IF MySQL(db) THEN MyC!GetConfigFileReleaseWithAllFlag(db, key)
  ELSE BoltC!GetConfigFileReleaseWithAllFlag(db, key)

DeleteConfigFileRelease(db, key, deleteBy) ==
  IF MySQL(db) THEN MyC!DeleteConfigFileRelease(db, key, deleteBy)
  ELSE BoltC!DeleteConfigFileRelease(db, key, deleteBy)

FindConfigFileReleaseByModifyTimeAfter(db) ==
  IF MySQL(db) THEN MyC!FindConfigFileReleaseByModifyTimeAfter(db)
  ELSE BoltC!FindConfigFileReleaseByModifyTimeAfter(db)

CountConfigFileReleaseEachGroup(db) ==
  IF MySQL(db) THEN MyC!CountConfigFileReleaseEachGroup(db)
  ELSE BoltC!CountConfigFileReleaseEachGroup(db)

CreateConfigFileReleaseHistory(db, h) ==
  IF MySQL(db) THEN MyC!CreateConfigFileReleaseHistory(db, h)
  ELSE BoltC!CreateConfigFileReleaseHistory(db, h)

QueryConfigFileReleaseHistories(db, namespace, group, fileName, offset, limit, endId) ==
  IF MySQL(db) THEN MyC!QueryConfigFileReleaseHistories(db, namespace, group, fileName, offset, limit, endId)
  ELSE BoltC!QueryConfigFileReleaseHistories(db, namespace, group, fileName, offset, limit, endId)

GetLatestConfigFileReleaseHistory(db, key) ==
  IF MySQL(db) THEN MyC!GetLatestConfigFileReleaseHistory(db, key)
  ELSE BoltC!GetLatestConfigFileReleaseHistory(db, key)

CreateConfigFileTag(db, file, key, value) ==
  IF MySQL(db) THEN MyC!CreateConfigFileTag(db, file, key, value)
  ELSE BoltC!CreateConfigFileTag(db, file, key, value)

QueryConfigFileByTag(db, namespace, group, fileName, tags) ==
  IF MySQL(db) THEN MyC!QueryConfigFileByTag(db, namespace, group, fileName, tags)
  ELSE BoltC!QueryConfigFileByTag(db, namespace, group, fileName, tags)

QueryTagByConfigFile(db, file) ==
  IF MySQL(db) THEN MyC!QueryTagByConfigFile(db, file) ELSE BoltC!QueryTagByConfigFile(db, file)

DeleteConfigFileTag(db, file, key, value) ==
  IF MySQL(db) THEN MyC!DeleteConfigFileTag(db, file, key, value)
  ELSE BoltC!DeleteConfigFileTag(db, file, key, value)

DeleteTagByConfigFile(db, file) ==
  IF MySQL(db) THEN MyC!DeleteTagByConfigFile(db, file) ELSE BoltC!DeleteTagByConfigFile(db, file)

QueryAllConfigFileTemplates(db) ==
  IF MySQL(db) THEN MyC!QueryAllConfigFileTemplates(db) ELSE BoltC!QueryAllConfigFileTemplates(db)

CreateConfigFileTemplate(db, t) ==
  IF MySQL(db) THEN MyC!CreateConfigFileTemplate(db, t) ELSE BoltC!CreateConfigFileTemplate(db, t)

GetConfigFileTemplate(db, name) ==
  IF MySQL(db) THEN MyC!GetConfigFileTemplate(db, name) ELSE BoltC!GetConfigFileTemplate(db, name)

-----------------------------------------------------------------------------
\* users, groups and strategies (store/auth_api.go)

AddUser(db, u) ==
  IF MySQL(db) THEN MyA!AddUser(db, u) ELSE BoltA!AddUser(db, u)

UpdateUser(db, u) ==
  IF MySQL(db) THEN MyA!UpdateUser(db, u) ELSE BoltA!UpdateUser(db, u)

DeleteUser(db, u) ==
  IF MySQL(db) THEN MyA!DeleteUser(db, u) ELSE BoltA!DeleteUser(db, u)

GetSubCount(db, id) ==
  IF MySQL(db) THEN MyA!GetSubCount(db, id) ELSE BoltA!GetSubCount(db, id)

GetUser(db, id) ==
  IF MySQL(db) THEN MyA!GetUser(db, id) ELSE BoltA!GetUser(db, id)

GetUserByName(db, name, owner) ==
  IF MySQL(db) THEN MyA!GetUserByName(db, name, owner) ELSE BoltA!GetUserByName(db, name, owner)

GetUserByIds(db, ids) ==
  IF MySQL(db) THEN MyA!GetUserByIds(db, ids) ELSE BoltA!GetUserByIds(db, ids)

GetUsers(db, filters) ==
  IF MySQL(db) THEN MyA!GetUsers(db, filters) ELSE BoltA!GetUsers(db, filters)

GetUsersForCache(db, firstUpdate) ==
  IF MySQL(db) THEN MyA!GetUsersForCache(db, firstUpdate)
  ELSE BoltA!GetUsersForCache(db, firstUpdate)

AddGroup(db, g) ==
  IF MySQL(db) THEN MyA!AddGroup(db, g) ELSE BoltA!AddGroup(db, g)

UpdateGroup(db, g) ==
  IF MySQL(db) THEN MyA!UpdateGroup(db, g) ELSE BoltA!UpdateGroup(db, g)

DeleteGroup(db, g) ==
  IF MySQL(db) THEN MyA!DeleteGroup(db, g) ELSE BoltA!DeleteGroup(db, g)

GetGroup(db, id) ==
  IF MySQL(db) THEN MyA!GetGroup(db, id) ELSE BoltA!GetGroup(db, id)

GetGroupByName(db, name, owner) ==
  IF MySQL(db) THEN MyA!GetGroupByName(db, name, owner) ELSE BoltA!GetGroupByName(db, name, owner)

GetGroups(db, filters) ==
  IF MySQL(db) THEN MyA!GetGroups(db, filters) ELSE BoltA!GetGroups(db, filters)

GetGroupsForCache(db, firstUpdate) ==
  IF MySQL(db) THEN MyA!GetGroupsForCache(db, firstUpdate)
  ELSE BoltA!GetGroupsForCache(db, firstUpdate)

AddStrategy(db, s) ==
  IF MySQL(db) THEN MyA!AddStrategy(db, s) ELSE BoltA!AddStrategy(db, s)

UpdateStrategy(db, s) ==
  IF MySQL(db) THEN MyA!UpdateStrategy(db, s) ELSE BoltA!UpdateStrategy(db, s)

DeleteStrategy(db, id) ==
  IF MySQL(db) THEN MyA!DeleteStrategy(db, id) ELSE BoltA!DeleteStrategy(db, id)

LooseAddStrategyResources(db, rs) ==
  IF MySQL(db) THEN MyA!LooseAddStrategyResources(db, rs)
  ELSE BoltA!LooseAddStrategyResources(db, rs)

RemoveStrategyResources(db, rs) ==
  IF MySQL(db) THEN MyA!RemoveStrategyResources(db, rs) ELSE BoltA!RemoveStrategyResources(db, rs)

GetStrategyResources(db, id, role) ==
  IF MySQL(db) THEN MyA!GetStrategyResources(db, id, role)
  ELSE BoltA!GetStrategyResources(db, id, role)

GetDefaultStrategyDetailByPrincipal(db, id, role) ==
  IF MySQL(db) THEN MyA!GetDefaultStrategyDetailByPrincipal(db, id, role)
  ELSE BoltA!GetDefaultStrategyDetailByPrincipal(db, id, role)

GetStrategyDetail(db, id) ==
  IF MySQL(db) THEN MyA!GetStrategyDetail(db, id) ELSE BoltA!GetStrategyDetail(db, id)

GetStrategies(db, filters) ==
  IF MySQL(db) THEN MyA!GetStrategies(db, filters) ELSE BoltA!GetStrategies(db, filters)

GetStrategyDetailsForCache(db, firstUpdate) ==
  IF MySQL(db) THEN MyA!GetStrategyDetailsForCache(db, firstUpdate)
  ELSE BoltA!GetStrategyDetailsForCache(db, firstUpdate)
=============================================================================
