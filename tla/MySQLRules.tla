----------------------------- MODULE MySQLRules -----------------------------
(***************************************************************************)
(* The governance rules in the relational store (store/mysql): routing     *)
(* rules of both versions, rate limits, circuit breaking rules with their  *)
(* tags and releases, rules of version 2, fault detection rules, the       *)
(* reported clients and the sequence of L5 identifiers.  The body of a     *)
(* rule is the field conf.  service holds what the joins look at.          *)
(***************************************************************************)
EXTENDS StoreTables

CONSTANTS Substr,          \* the pairs <<t, v>> where text t occurs in value v
          RangeSize,       \* range_num runs below it: 65536 in the code
          InterfaceSize    \* interface_id runs below it: 4096 in the code

HasText(v, t) == <<t, v>> \in Substr

BadParam == "missing_params"
NotFoundMaster == "not_found_master_config"
NotFoundTagOrService == "not_found_tag_config_or_service"
EmptyRules ==
  [service |-> << >>, routing_config |-> << >>, routing_config_v2 |-> << >>,
   ratelimit_config |-> << >>, circuitbreaker_rule |-> << >>,
   circuitbreaker_rule_relation |-> << >>, circuitbreaker_rule_v2 |-> << >>,
   fault_detect_rule |-> << >>, client |-> << >>, client_stat |-> {},
   cl5_module |-> [mid |-> 3000001, iid |-> 1, rnum |-> 0]]

New(cols) == [valid |-> TRUE, fresh |-> TRUE] @@ cols

\* An insert fails when the primary key is taken, by a deleted row as well.
Insert(db, table, k, cols) ==
  IF k \in DOMAIN db[table] THEN Fail(db, Duplicate)
  ELSE Done([db EXCEPT ![table] = Put(@, k, New(cols))])

Update(db, table, ks, cols) == Done([db EXCEPT ![table] = Assign(@, ks, Touched(cols))])

Delete(db, table, ks) == Done([db EXCEPT ![table] = Assign(@, ks, Removed)])

PolledKeys(t, firstUpdate) == {k \in FreshKeys(t) : firstUpdate => t[k].valid}

-----------------------------------------------------------------------------
\* routing_config: the key is the id of the service

fetchRoutingConfigRows(t, ks) == [k \in ks |-> [id |-> k] @@ t[k]]

cleanRoutingConfig(db, id) ==
  [db EXCEPT !.routing_config = Without(@, {k \in {id} \cap DOMAIN @ : ~@[k].valid})]

CreateRoutingConfig(db, conf) ==
  IF "" \in {conf.id, conf.revision, conf.conf} THEN Fail(db, EmptyParams)
  ELSE LET r == Insert(cleanRoutingConfig(db, conf.id), "routing_config", conf.id,
                       [conf |-> conf.conf, revision |-> conf.revision])
       IN  IF r.err = OK THEN r ELSE Fail(db, r.err)

UpdateRoutingConfig(db, conf) ==
  IF "" \in {conf.id, conf.revision, conf.conf} THEN Fail(db, EmptyParams)
  ELSE Update(db, "routing_config", {conf.id},
              [conf |-> conf.conf, revision |-> conf.revision])

DeleteRoutingConfig(db, id) ==
  IF id = "" THEN Fail(db, EmptyParams) ELSE Delete(db, "routing_config", {id})

\* Inside a transaction: db is its view.
DeleteRoutingConfigTx(db, id) ==
  IF id = "" THEN Fail(db, EmptyParams) ELSE Delete(db, "routing_config", {id})

GetRoutingConfigsForCache(db, firstUpdate) ==
  fetchRoutingConfigRows(db.routing_config, PolledKeys(db.routing_config, firstUpdate))

GetRoutingConfigWithID(db, id) ==
  IF id \in ValidKeys(db.routing_config) THEN db.routing_config[id] ELSE NoRow

\* The service is found by name, deleted or not.
GetRoutingConfigWithService(db, name, namespace) ==
  LET found == {k \in DOMAIN db.service \cap ValidKeys(db.routing_config) :
                  db.service[k].name = name /\ db.service[k].namespace = namespace}
  IN  IF found = {} THEN NoRow ELSE db.routing_config[CHOOSE k \in found : TRUE]

genFilterRoutingConfigSQL(row, filter) == \A key \in DOMAIN filter : row[key] = filter[key]

genQueryRoutingConfigSQL(db) == ValidKeys(db.routing_config) \cap DOMAIN db.service

genQueryRoutingConfigCountSQL(db) == ValidKeys(db.routing_config) \cap DOMAIN db.service

GetRoutingConfigs(db, filter) ==
  LET matches(k) == genFilterRoutingConfigSQL(db.service[k] @@ db.routing_config[k], filter)
  IN  [num |-> Cardinality({k \in genQueryRoutingConfigCountSQL(db) : matches(k)}),
       out |-> {k \in genQueryRoutingConfigSQL(db) : matches(k)}]

-----------------------------------------------------------------------------
\* routing_config_v2: an update leaves the column enable alone

fetchRoutingConfigV2Rows(t, ks) == [k \in ks |-> [id |-> k] @@ t[k]]

createRoutingConfigV2Tx(db, conf) ==
  LET cleaned == [db EXCEPT !.routing_config_v2 =
                    Without(@, {k \in {conf.id} \cap DOMAIN @ : ~@[k].valid})]
      r == Insert(cleaned, "routing_config_v2", conf.id,
                  [name |-> conf.name, conf |-> conf.conf, enable |-> conf.enable,
                   revision |-> conf.revision])
  IN  IF r.err = OK THEN r ELSE Fail(db, r.err)

CreateRoutingConfigV2(db, conf) ==
  IF "" \in {conf.id, conf.revision, conf.conf} THEN Fail(db, EmptyParams)
  ELSE createRoutingConfigV2Tx(db, conf)

CreateRoutingConfigV2Tx(db, conf) == createRoutingConfigV2Tx(db, conf)

updateRoutingConfigV2Tx(db, conf) ==
  IF "" \in {conf.id, conf.revision, conf.conf} THEN Fail(db, EmptyParams)
  ELSE Update(db, "routing_config_v2", {conf.id},
              [name |-> conf.name, conf |-> conf.conf, revision |-> conf.revision])

UpdateRoutingConfigV2(db, conf) == updateRoutingConfigV2Tx(db, conf)

EnableRouting(db, conf) ==
  IF "" \in {conf.id, conf.revision} THEN Fail(db, BadParam)
  ELSE Update(db, "routing_config_v2", {conf.id},
              [enable |-> conf.enable, revision |-> conf.revision])

DeleteRoutingConfigV2(db, id) ==
  IF id = "" THEN Fail(db, EmptyParams) ELSE Delete(db, "routing_config_v2", {id})

GetRoutingConfigsV2ForCache(db, firstUpdate) ==
  fetchRoutingConfigV2Rows(db.routing_config_v2, PolledKeys(db.routing_config_v2, firstUpdate))

getRoutingConfigV2WithIDTx(db, id) ==
  IF id \in ValidKeys(db.routing_config_v2)
  THEN fetchRoutingConfigV2Rows(db.routing_config_v2, {id})[id] ELSE NoRow

GetRoutingConfigV2WithID(db, id) == getRoutingConfigV2WithIDTx(db, id)

-----------------------------------------------------------------------------
\* ratelimit_config

createRateLimit(db, limit) ==
  Insert(db, "ratelimit_config", limit.id,
         [name |-> limit.name, service_id |-> limit.service_id, disable |-> limit.disable,
          conf |-> limit.conf, revision |-> limit.revision])

CreateRateLimit(db, limit) ==
  IF "" \in {limit.id, limit.revision} THEN Fail(db, BadParam) ELSE createRateLimit(db, limit)

updateRateLimit(db, limit) ==
  Update(db, "ratelimit_config", {limit.id},
         [name |-> limit.name, service_id |-> limit.service_id, disable |-> limit.disable,
          conf |-> limit.conf, revision |-> limit.revision])

UpdateRateLimit(db, limit) ==
  IF "" \in {limit.id, limit.revision} THEN Fail(db, BadParam) ELSE updateRateLimit(db, limit)

enableRateLimit(db, limit) ==
  Update(db, "ratelimit_config", {limit.id},
         [disable |-> limit.disable, revision |-> limit.revision])

EnableRateLimit(db, limit) ==
  IF "" \in {limit.id, limit.revision} THEN Fail(db, BadParam) ELSE enableRateLimit(db, limit)

deleteRateLimit(db, limit) == Delete(db, "ratelimit_config", {limit.id})

DeleteRateLimit(db, limit) ==
  IF "" \in {limit.id, limit.revision} THEN Fail(db, BadParam) ELSE deleteRateLimit(db, limit)

fetchRateLimitRows(t, ks) == [k \in ks |-> [id |-> k] @@ t[k]]

GetRateLimitWithID(db, id) ==
  IF id \in ValidKeys(db.ratelimit_config)
  THEN fetchRateLimitRows(db.ratelimit_config, {id})[id] ELSE NoRow

fetchRateLimitCacheRows(t, ks) == [k \in ks |-> [id |-> k] @@ t[k]]

GetRateLimitsForCache(db, firstUpdate) ==
  fetchRateLimitCacheRows(db.ratelimit_config, PolledKeys(db.ratelimit_config, firstUpdate))

\* A key that is no column of the table is skipped.
genFilterRateLimitSQL(id, row, filter) ==
  \A key \in DOMAIN filter \cap {"id", "name", "disable"} :
    CASE key = "id" -> id = filter[key]
      [] key = "name" -> HasText(row.name, filter[key])
      [] key = "disable" -> row.disable = filter[key]

getExpandRateLimits(db, filter) ==
  {k \in ValidKeys(db.ratelimit_config) :
     genFilterRateLimitSQL(k, db.ratelimit_config[k], filter)}

\* The same rows with fewer columns.
getBriefRateLimits(db, filter) ==
  {k \in ValidKeys(db.ratelimit_config) :
     genFilterRateLimitSQL(k, db.ratelimit_config[k], filter)}

getExpandRateLimitsCount(db, filter) ==
  Cardinality({k \in ValidKeys(db.ratelimit_config) :
                 genFilterRateLimitSQL(k, db.ratelimit_config[k], filter)})

GetExtendRateLimits(db, filter) ==
  [num |-> getExpandRateLimitsCount(db, filter),
   out |-> IF "brief" \in DOMAIN filter THEN getBriefRateLimits(db, filter)
           ELSE getExpandRateLimits(db, filter)]

-----------------------------------------------------------------------------
\* circuitbreaker_rule, keyed by <<id, version>>, and circuitbreaker_rule_relation,
\* keyed by the service

cleanCircuitBreaker(db, id, version) ==
  [db EXCEPT !.circuitbreaker_rule =
     Without(@, {k \in {<<id, version>>} \cap DOMAIN @ : ~@[k].valid})]

CreateCircuitBreaker(db, cb) ==
  LET r == Insert(cleanCircuitBreaker(db, cb.id, cb.version), "circuitbreaker_rule",
                  <<cb.id, cb.version>>, [name |-> cb.name, conf |-> cb.conf,
                                          revision |-> cb.revision])
  IN  IF r.err = OK THEN r ELSE Fail(db, r.err)

\* insert ... select: a row goes in when the master has a row, deleted or not.
tagCircuitBreaker(db, cb) ==
  IF <<cb.id, "master">> \notin DOMAIN db.circuitbreaker_rule THEN Fail(db, NotFoundMaster)
  ELSE Insert(db, "circuitbreaker_rule", <<cb.id, cb.version>>,
              [name |-> cb.name, conf |-> cb.conf, revision |-> cb.revision])

TagCircuitBreaker(db, cb) ==
  LET r == tagCircuitBreaker(cleanCircuitBreaker(db, cb.id, cb.version), cb)
  IN  IF r.err = OK THEN r ELSE Fail(db, r.err)

\* Runs on a connection of its own, outside the transaction of the release.
cleanCircuitBreakerRelation(db, cbr) ==
  [db EXCEPT !.circuitbreaker_rule_relation =
     Without(@, {k \in {cbr.service_id} \cap DOMAIN @ : ~@[k].valid})]

releaseCircuitBreaker(db, cbr) ==
  IF /\ cbr.service_id \in ValidKeys(db.service)
     /\ <<cbr.rule_id, cbr.rule_version>> \in ValidKeys(db.circuitbreaker_rule)
  THEN Done([db EXCEPT !.circuitbreaker_rule_relation =
               Put(@, cbr.service_id, New([rule_id |-> cbr.rule_id,
                                           rule_version |-> cbr.rule_version]))])
  ELSE Fail(db, NotFoundTagOrService)

\* The cleaning stays when the release is rolled back.
ReleaseCircuitBreaker(db, cbr) ==
  releaseCircuitBreaker(cleanCircuitBreakerRelation(db, cbr), cbr)

UnbindCircuitBreaker(db, service_id, rule_id, rule_version) ==
  LET bound == {k \in {service_id} \cap DOMAIN db.circuitbreaker_rule_relation :
                  /\ db.circuitbreaker_rule_relation[k].rule_id = rule_id
                  /\ db.circuitbreaker_rule_relation[k].rule_version = rule_version}
  IN  Delete(db, "circuitbreaker_rule_relation", bound)

\* The services bound to a version of the rule.
GetCircuitBreakerRelation(db, rule_id, rule_version) ==
  {k \in ValidKeys(db.circuitbreaker_rule_relation) :
     /\ db.circuitbreaker_rule_relation[k].rule_id = rule_id
     /\ db.circuitbreaker_rule_relation[k].rule_version = rule_version}

\* The services bound to any version of it.
GetCircuitBreakerMasterRelation(db, rule_id) ==
  {k \in ValidKeys(db.circuitbreaker_rule_relation) :
     db.circuitbreaker_rule_relation[k].rule_id = rule_id}

DeleteTagCircuitBreaker(db, id, version) ==
  IF GetCircuitBreakerRelation(db, id, version) # {} THEN Done(db)
  ELSE Delete(db, "circuitbreaker_rule", {<<id, version>>})

DeleteMasterCircuitBreaker(db, id) ==
  IF GetCircuitBreakerMasterRelation(db, id) # {} THEN Done(db)
  ELSE Delete(db, "circuitbreaker_rule", {<<id, "master">>})

UpdateCircuitBreaker(db, cb) ==
  Update(db, "circuitbreaker_rule", {<<cb.id, cb.version>>},
         [conf |-> cb.conf, revision |-> cb.revision])

fetchCircuitBreakerRows(t, ks) == [k \in ks |-> [id |-> k[1], version |-> k[2]] @@ t[k]]

GetCircuitBreaker(db, id, version) ==
  IF <<id, version>> \in ValidKeys(db.circuitbreaker_rule)
  THEN fetchCircuitBreakerRows(db.circuitbreaker_rule, {<<id, version>>})[<<id, version>>]
  ELSE NoRow

\* A binding joined with its rule; valid is the flag of the binding.
fetchCircuitBreakerAndServiceRows(db, ks) ==
  [k \in ks |->
     LET rel == db.circuitbreaker_rule_relation[k]
     IN  rel @@ [rule |-> db.circuitbreaker_rule[<<rel.rule_id, rel.rule_version>>].conf]]

\* A binding whose rule was deleted is not reported, an unbinding included.
GetCircuitBreakerForCache(db, firstUpdate) ==
  fetchCircuitBreakerAndServiceRows(db,
    {k \in PolledKeys(db.circuitbreaker_rule_relation, firstUpdate) :
       LET rel == db.circuitbreaker_rule_relation[k]
       IN  <<rel.rule_id, rel.rule_version>> \in ValidKeys(db.circuitbreaker_rule)})

GetCircuitBreakerVersions(db, id) ==
  {k[2] : k \in {x \in ValidKeys(db.circuitbreaker_rule) : x[1] = id}}

ListMasterCircuitBreakers(db, filter) ==
  LET out == {k \in ValidKeys(db.circuitbreaker_rule) :
                /\ k[2] = "master"
                /\ \A key \in DOMAIN filter : db.circuitbreaker_rule[k][key] = filter[key]}
  IN  [num |-> Cardinality(out), out |-> out]

\* The count does not join the service, the list does.
ListReleaseCircuitBreakers(db, filter) ==
  LET matches == {k \in ValidKeys(db.circuitbreaker_rule_relation) :
                    \A key \in DOMAIN filter :
                      db.circuitbreaker_rule_relation[k][key] = filter[key]}
  IN  [num |-> Cardinality(matches), out |-> matches \cap DOMAIN db.service]

GetCircuitBreakersByService(db, name, namespace) ==
  LET bound == {k \in ValidKeys(db.circuitbreaker_rule_relation) \cap ValidKeys(db.service) :
                  LET rel == db.circuitbreaker_rule_relation[k] IN
                  /\ db.service[k].name = name /\ db.service[k].namespace = namespace
                  /\ <<rel.rule_id, rel.rule_version>> \in ValidKeys(db.circuitbreaker_rule)}
  IN  IF bound = {} THEN NoRow
      ELSE LET rel == db.circuitbreaker_rule_relation[CHOOSE k \in bound : TRUE]
           IN  GetCircuitBreaker(db, rel.rule_id, rel.rule_version)

-----------------------------------------------------------------------------
\* circuitbreaker_rule_v2 and fault_detect_rule.  An insert never cleans: the
\* id of a rule is drawn fresh.

createCircuitBreakerRule(db, rule) ==
  Insert(db, "circuitbreaker_rule_v2", rule.id,
         [name |-> rule.name, namespace |-> rule.namespace, enable |-> rule.enable,
          src |-> rule.src, dst |-> rule.dst, conf |-> rule.conf,
          revision |-> rule.revision])

CreateCircuitBreakerRule(db, rule) == createCircuitBreakerRule(db, rule)

updateCircuitBreakerRule(db, rule) ==
  Update(db, "circuitbreaker_rule_v2", {rule.id},
         [name |-> rule.name, namespace |-> rule.namespace, enable |-> rule.enable,
          src |-> rule.src, dst |-> rule.dst, conf |-> rule.conf,
          revision |-> rule.revision])

UpdateCircuitBreakerRule(db, rule) == updateCircuitBreakerRule(db, rule)

deleteCircuitBreakerRule(db, id) == Delete(db, "circuitbreaker_rule_v2", {id})

DeleteCircuitBreakerRule(db, id) == deleteCircuitBreakerRule(db, id)

enableCircuitBreakerRule(db, rule) ==
  Update(db, "circuitbreaker_rule_v2", {rule.id},
         [enable |-> rule.enable, revision |-> rule.revision])

EnableCircuitBreakerRule(db, rule) == enableCircuitBreakerRule(db, rule)

\* service and serviceNamespace select the rules for the callee or for any.
genCircuitBreakerRuleSQL(id, row, filter) ==
  \A key \in {k \in DOMAIN filter : filter[k] # ""} :
    CASE key \in {"service", "serviceNamespace"} -> row.dst[key] \in {filter[key], "*"}
      [] key = "name" -> HasText(row.name, filter[key])
      [] key = "exactName" -> row.name = filter[key]
      [] key = "id" -> id = filter[key]
      [] key = "excludeId" -> id # filter[key]
      [] OTHER -> row[key] = filter[key]

getCircuitBreakerRulesCount(db, filter) ==
  Cardinality({k \in ValidKeys(db.circuitbreaker_rule_v2) :
                 genCircuitBreakerRuleSQL(k, db.circuitbreaker_rule_v2[k], filter)})

getFullCircuitBreakerRules(db, filter) ==
  {k \in ValidKeys(db.circuitbreaker_rule_v2) :
     genCircuitBreakerRuleSQL(k, db.circuitbreaker_rule_v2[k], filter)}

getBriefCircuitBreakerRules(db, filter) ==
  {k \in ValidKeys(db.circuitbreaker_rule_v2) :
     genCircuitBreakerRuleSQL(k, db.circuitbreaker_rule_v2[k], filter)}

GetCircuitBreakerRules(db, filter, brief) ==
  [num |-> getCircuitBreakerRulesCount(db, filter),
   out |-> IF brief THEN getBriefCircuitBreakerRules(db, filter)
                    ELSE getFullCircuitBreakerRules(db, filter)]

HasCircuitBreakerRule(db, id) == getCircuitBreakerRulesCount(db, [id |-> id]) > 0

HasCircuitBreakerRuleByName(db, name, namespace) ==
  getCircuitBreakerRulesCount(db, [exactName |-> name, namespace |-> namespace]) > 0

HasCircuitBreakerRuleByNameExcludeId(db, name, namespace, id) ==
  getCircuitBreakerRulesCount(db,
    [exactName |-> name, namespace |-> namespace, excludeId |-> id]) > 0

fetchCircuitBreakerRuleRows(t, ks) == [k \in ks |-> [id |-> k] @@ t[k]]

GetCircuitBreakerRulesForCache(db, firstUpdate) ==
  fetchCircuitBreakerRuleRows(db.circuitbreaker_rule_v2,
                              PolledKeys(db.circuitbreaker_rule_v2, firstUpdate))

createFaultDetectRule(db, rule) ==
  Insert(db, "fault_detect_rule", rule.id,
         [name |-> rule.name, namespace |-> rule.namespace, dst |-> rule.dst,
          conf |-> rule.conf, revision |-> rule.revision])

CreateFaultDetectRule(db, rule) == createFaultDetectRule(db, rule)

updateFaultDetectRule(db, rule) ==
  Update(db, "fault_detect_rule", {rule.id},
         [name |-> rule.name, namespace |-> rule.namespace, dst |-> rule.dst,
          conf |-> rule.conf, revision |-> rule.revision])

UpdateFaultDetectRule(db, rule) == updateFaultDetectRule(db, rule)

deleteFaultDetectRule(db, id) == Delete(db, "fault_detect_rule", {id})

DeleteFaultDetectRule(db, id) == deleteFaultDetectRule(db, id)

genFaultDetectRuleSQL(id, row, filter) ==
  \A key \in {k \in DOMAIN filter : filter[k] # ""} :
    CASE key \in {"service", "serviceNamespace"} -> row.dst[key] \in {filter[key], "*"}
      [] key = "name" -> HasText(row.name, filter[key])
      [] key = "exactName" -> row.name = filter[key]
      [] key = "id" -> id = filter[key]
      [] key = "excludeId" -> id # filter[key]
      [] OTHER -> row[key] = filter[key]

getFaultDetectRulesCount(db, filter) ==
  Cardinality({k \in ValidKeys(db.fault_detect_rule) :
                 genFaultDetectRuleSQL(k, db.fault_detect_rule[k], filter)})

getFullFaultDetectRules(db, filter) ==
  {k \in ValidKeys(db.fault_detect_rule) :
     genFaultDetectRuleSQL(k, db.fault_detect_rule[k], filter)}

getBriefFaultDetectRules(db, filter) ==
  {k \in ValidKeys(db.fault_detect_rule) :
     genFaultDetectRuleSQL(k, db.fault_detect_rule[k], filter)}

GetFaultDetectRules(db, filter, brief) ==
  [num |-> getFaultDetectRulesCount(db, filter),
   out |-> IF brief THEN getBriefFaultDetectRules(db, filter)
                    ELSE getFullFaultDetectRules(db, filter)]

HasFaultDetectRule(db, id) == getFaultDetectRulesCount(db, [id |-> id]) > 0

HasFaultDetectRuleByName(db, name, namespace) ==
  getFaultDetectRulesCount(db, [exactName |-> name, namespace |-> namespace]) > 0

HasFaultDetectRuleByNameExcludeId(db, name, namespace, id) ==
  getFaultDetectRulesCount(db,
    [exactName |-> name, namespace |-> namespace, excludeId |-> id]) > 0

fetchFaultDetectRulesRows(t, ks) == [k \in ks |-> [id |-> k] @@ t[k]]

GetFaultDetectRulesForCache(db, firstUpdate) ==
  fetchFaultDetectRulesRows(db.fault_detect_rule,
                            PolledKeys(db.fault_detect_rule, firstUpdate))

-----------------------------------------------------------------------------
\* client and client_stat

batchCleanClientStats(db, ids) == [db EXCEPT !.client_stat = {s \in @ : s[1] \notin ids}]

\* replace into client
batchAddClientMain(db, clients) ==
  [db EXCEPT !.client = [i \in DOMAIN clients |-> New([host |-> clients[i].host])] @@ @]

batchAddClientStat(db, clients) ==
  [db EXCEPT !.client_stat = @ \cup UNION {{i} \X clients[i].stat : i \in DOMAIN clients}]

batchAddClients(db, clients) ==
  batchAddClientStat(batchAddClientMain(batchCleanClientStats(db, DOMAIN clients), clients),
                     clients)

BatchAddClients(db, clients) == Done(batchAddClients(db, clients))

batchDeleteClientsMain(db, ids) == [db EXCEPT !.client = Assign(@, ids, Removed)]

batchDeleteClients(db, ids) == batchDeleteClientsMain(batchCleanClientStats(db, ids), ids)

BatchDeleteClients(db, ids) == Done(batchDeleteClients(db, ids))

callFetchClientRows(db, ks) ==
  [k \in ks |-> [stat |-> {s[2] : s \in {x \in db.client_stat : x[1] = k}}, id |-> k]
                  @@ db.client[k]]

GetMoreClients(db, firstUpdate) ==
  callFetchClientRows(db, PolledKeys(db.client, firstUpdate))

-----------------------------------------------------------------------------
\* cl5_module: the sequence of L5 identifiers

L5Step(m) ==
  LET rolled == m.rnum + 1 >= RangeSize
      iid == IF rolled THEN m.iid + 1 ELSE m.iid
  IN  [rnum |-> IF rolled THEN 0 ELSE m.rnum + 1,
       iid |-> IF iid >= InterfaceSize THEN 1 ELSE iid,
       mid |-> IF iid >= InterfaceSize THEN m.mid + 1 ELSE m.mid]

\* The sid is modID:cmdID: mid<<6 + layoutID and iid<<16 + rnum.
genNextL5Sid(db, layoutID) ==
  LET m == L5Step(db.cl5_module)
  IN  [db |-> [db EXCEPT !.cl5_module = m], err |-> OK,
       sid |-> <<m.mid * 64 + layoutID, m.iid * RangeSize + m.rnum>>]

GenNextL5Sid(db, layoutID) == genNextL5Sid(db, layoutID)
=============================================================================
