----------------------------- MODULE BoltRules -----------------------------
(***************************************************************************)
(* The governance rules in the embedded store (store/boltdb), with the     *)
(* rows of MySQLRules.  A save replaces whatever row the key has.          *)
(***************************************************************************)
EXTENDS StoreTables

CONSTANTS Substr, RangeSize, InterfaceSize

HasText(v, t) == <<t, v>> \in Substr

BadParam == "missing_params"
NotFoundMaster == "not_found_master_config"
NotFoundCircuitBreaker == "not_found_circuitbreaker"

EmptyRules ==
  [service |-> << >>, routing |-> << >>, routing_config_v2 |-> << >>,
   ratelimit_config |-> << >>, circuitbreaker_rule |-> << >>,
   circuitbreaker_rule_relation |-> << >>, circuitbreaker_rule_v2 |-> << >>,
   faultdetect_rule |-> << >>, client |-> << >>,
   l5 |-> [mid |-> 3000001, iid |-> 1, rnum |-> 0]]

New(cols) == [valid |-> TRUE, fresh |-> TRUE] @@ cols

Save(db, table, k, cols) == Done([db EXCEPT ![table] = Put(@, k, New(cols))])

Update(db, table, ks, cols) == Done([db EXCEPT ![table] = Assign(@, ks, Touched(cols))])

Delete(db, table, ks) == Done([db EXCEPT ![table] = Assign(@, ks, Removed)])

Load(t, k) == IF k \in ValidKeys(t) THEN [id |-> k] @@ t[k] ELSE NoRow

\* The first poll starts at the zero time and reports deleted rows as well.
PolledRows(t, firstUpdate) ==
  [k \in {x \in DOMAIN t : firstUpdate \/ t[x].fresh} |-> [id |-> k] @@ t[k]]

\* A field the row has not is read as a nil map, which equals no value.
HasValue(row, key, value) == key \in DOMAIN row /\ row[key] = value

-----------------------------------------------------------------------------
\* routing

initRouting(conf) == [conf |-> conf.conf, revision |-> conf.revision]

cleanRoutingConfig(db, id) == [db EXCEPT !.routing = Without(@, {id})]

CreateRoutingConfig(db, conf) ==
  IF "" \in {conf.id, conf.revision, conf.conf} THEN Fail(db, EmptyParams)
  ELSE Save(cleanRoutingConfig(db, conf.id), "routing", conf.id, initRouting(conf))

UpdateRoutingConfig(db, conf) ==
  IF "" \in {conf.id, conf.revision, conf.conf} THEN Fail(db, EmptyParams)
  ELSE Update(db, "routing", {conf.id}, [conf |-> conf.conf, revision |-> conf.revision])

DeleteRoutingConfig(db, id) ==
  IF id = "" THEN Fail(db, EmptyParams) ELSE Delete(db, "routing", {id})

DeleteRoutingConfigTx(db, id) ==
  IF id = "" THEN Fail(db, EmptyParams) ELSE Delete(db, "routing", {id})

\* firstUpdate is not looked at; the caller's first mtime is the zero time.
GetRoutingConfigsForCache(db, firstUpdate) == PolledRows(db.routing, firstUpdate)

getWithID(db, id) == Load(db.routing, id)

GetRoutingConfigWithID(db, id) == getWithID(db, id)

GetRoutingConfigWithService(db, name, namespace) ==
  LET found == {k \in ValidKeys(db.service) :
                  db.service[k].name = name /\ db.service[k].namespace = namespace}
  IN  IF found = {} THEN NoRow ELSE getWithID(db, CHOOSE k \in found : TRUE)

\* The number counts the rules before the service filter.
GetRoutingConfigs(db, filter) ==
  LET rules == {k \in ValidKeys(db.routing) :
                  \A key \in DOMAIN filter \cap {"conf", "revision"} :
                    db.routing[k][key] = filter[key]}
      services == {k \in ValidKeys(db.service) :
                     \A key \in DOMAIN filter \cap {"name", "namespace"} :
                       db.service[k][key] = filter[key]}
  IN  [num |-> Cardinality(rules), out |-> rules \cap services]

-----------------------------------------------------------------------------
\* routing_config_v2: an update writes Enable as well

cleanRoutingConfigV2(db, id) == [db EXCEPT !.routing_config_v2 = Without(@, {id})]

createRoutingConfigV2(db, conf) ==
  Save(cleanRoutingConfigV2(db, conf.id), "routing_config_v2", conf.id,
       [name |-> conf.name, conf |-> conf.conf, enable |-> conf.enable,
        revision |-> conf.revision])

CreateRoutingConfigV2(db, conf) ==
  IF "" \in {conf.id, conf.revision, conf.conf} THEN Fail(db, EmptyParams)
  ELSE createRoutingConfigV2(db, conf)

CreateRoutingConfigV2Tx(db, conf) == createRoutingConfigV2(db, conf)

updateRoutingConfigV2Tx(db, conf) ==
  Update(db, "routing_config_v2", {conf.id},
         [enable |-> conf.enable, name |-> conf.name, conf |-> conf.conf,
          revision |-> conf.revision])

UpdateRoutingConfigV2(db, conf) ==
  IF "" \in {conf.id, conf.revision, conf.conf} THEN Fail(db, EmptyParams)
  ELSE updateRoutingConfigV2Tx(db, conf)

EnableRouting(db, conf) ==
  IF "" \in {conf.id, conf.revision} THEN Fail(db, BadParam)
  ELSE Update(db, "routing_config_v2", {conf.id},
              [enable |-> conf.enable, revision |-> conf.revision])

DeleteRoutingConfigV2(db, id) ==
  IF id = "" THEN Fail(db, EmptyParams) ELSE Delete(db, "routing_config_v2", {id})

GetRoutingConfigsV2ForCache(db, firstUpdate) == PolledRows(db.routing_config_v2, firstUpdate)

getRoutingConfigV2WithIDTx(db, id) == Load(db.routing_config_v2, id)

GetRoutingConfigV2WithID(db, id) == getRoutingConfigV2WithIDTx(db, id)

-----------------------------------------------------------------------------
\* ratelimit_config

LimitRow(limit) ==
  [name |-> limit.name, service_id |-> limit.service_id, disable |-> limit.disable,
   conf |-> limit.conf, revision |-> limit.revision]

createRateLimit(db, limit) == Save(db, "ratelimit_config", limit.id, LimitRow(limit))

CreateRateLimit(db, limit) ==
  IF "" \in {limit.id, limit.revision} THEN Fail(db, BadParam) ELSE createRateLimit(db, limit)

updateRateLimit(db, limit) == Update(db, "ratelimit_config", {limit.id}, LimitRow(limit))

UpdateRateLimit(db, limit) ==
  IF "" \in {limit.id, limit.revision} THEN Fail(db, BadParam) ELSE updateRateLimit(db, limit)

enableRateLimit(db, limit) ==
  Update(db, "ratelimit_config", {limit.id},
         [disable |-> limit.disable, revision |-> limit.revision])

EnableRateLimit(db, limit) ==
  IF "" \in {limit.id, limit.revision} THEN Fail(db, BadParam) ELSE enableRateLimit(db, limit)

deleteRateLimit(db, limit) == Delete(db, "ratelimit_config", {limit.id})

DeleteRateLimit(db, limit) ==
  IF "" \in {limit.id, limit.revision} THEN Fail(db, BadParam) ELSE deleteRateLimit(db, limit)

GetRateLimitWithID(db, id) == Load(db.ratelimit_config, id)

GetRateLimitsForCache(db, firstUpdate) == PolledRows(db.ratelimit_config, firstUpdate)

GetExtendRateLimits(db, filter) ==
  LET out == {k \in ValidKeys(db.ratelimit_config) :
                \A key \in DOMAIN filter :
                  CASE key = "name" -> HasText(db.ratelimit_config[k].name, filter[key])
                    [] key = "disable" -> db.ratelimit_config[k].disable = filter[key]
                    [] OTHER -> HasValue([id |-> k] @@ db.ratelimit_config[k], key, filter[key])}
  IN  [num |-> Cardinality(out), out |-> out]

-----------------------------------------------------------------------------
\* circuitbreaker_rule and circuitbreaker_rule_relation

initCircuitBreaker(cb) == [name |-> cb.name, conf |-> cb.conf, revision |-> cb.revision]

buildKey(id, version) == <<id, version>>

cleanCircuitBreaker(db, id, version) ==
  [db EXCEPT !.circuitbreaker_rule = Without(@, {buildKey(id, version)})]

CreateCircuitBreaker(db, cb) ==
  Save(cleanCircuitBreaker(db, cb.id, cb.version), "circuitbreaker_rule",
       buildKey(cb.id, cb.version), initCircuitBreaker(cb))

GetCircuitBreaker(db, id, version) ==
  LET k == buildKey(id, version)
  IN  IF k \in ValidKeys(db.circuitbreaker_rule)
      THEN [id |-> id, version |-> version] @@ db.circuitbreaker_rule[k] ELSE NoRow

tagCircuitBreaker(db, cb) ==
  IF GetCircuitBreaker(db, cb.id, "master") = NoRow THEN Fail(db, NotFoundCircuitBreaker)
  ELSE Save(db, "circuitbreaker_rule", buildKey(cb.id, cb.version), initCircuitBreaker(cb))

\* The old tag is gone even when the master is not found.
TagCircuitBreaker(db, cb) == tagCircuitBreaker(cleanCircuitBreaker(db, cb.id, cb.version), cb)

releaseCircuitBreaker(db, cbr) ==
  IF GetCircuitBreaker(db, cbr.rule_id, cbr.rule_version) = NoRow THEN Fail(db, NotFoundMaster)
  ELSE Save(db, "circuitbreaker_rule_relation", cbr.service_id,
            [rule_id |-> cbr.rule_id, rule_version |-> cbr.rule_version])

ReleaseCircuitBreaker(db, cbr) == releaseCircuitBreaker(db, cbr)

\* Whatever rule the service is bound to.
UnbindCircuitBreaker(db, service_id, rule_id, rule_version) ==
  Delete(db, "circuitbreaker_rule_relation", {service_id})

\* The bindings are looked up by the id of the rule in a map that is keyed by
\* services: a bound rule is deleted.
DeleteTagCircuitBreaker(db, id, version) ==
  LET values == {k \in ValidKeys(db.circuitbreaker_rule_relation) :
                   /\ db.circuitbreaker_rule_relation[k].rule_id = id
                   /\ version = "master"
                      \/ db.circuitbreaker_rule_relation[k].rule_version = version}
  IN  IF id \in values THEN Done(db)
      ELSE Delete(db, "circuitbreaker_rule", {buildKey(id, version)})

DeleteMasterCircuitBreaker(db, id) == DeleteTagCircuitBreaker(db, id, "master")

UpdateCircuitBreaker(db, cb) ==
  Save(db, "circuitbreaker_rule", buildKey(cb.id, cb.version), initCircuitBreaker(cb))

GetCircuitBreakerVersions(db, id) ==
  {k[2] : k \in {x \in ValidKeys(db.circuitbreaker_rule) : x[1] = id}}

getServiceIDS(db, rule_id) ==
  {k \in DOMAIN db.circuitbreaker_rule_relation :
     db.circuitbreaker_rule_relation[k].rule_id = rule_id}

GetCircuitBreakerRelation(db, rule_id, rule_version) ==
  {k \in getServiceIDS(db, rule_id) :
     /\ db.circuitbreaker_rule_relation[k].valid
     /\ db.circuitbreaker_rule_relation[k].rule_version = rule_version}

\* Only the bindings of the version master: the other versions are not asked.
GetCircuitBreakerMasterRelation(db, rule_id) ==
  GetCircuitBreakerRelation(db, rule_id, "master")

\* Here the rule may be deleted, as long as its row is there.
GetCircuitBreakerForCache(db, firstUpdate) ==
  LET rels == db.circuitbreaker_rule_relation
      polled == {k \in DOMAIN rels :
                   /\ firstUpdate \/ rels[k].fresh
                   /\ buildKey(rels[k].rule_id, rels[k].rule_version)
                        \in DOMAIN db.circuitbreaker_rule}
  IN  [k \in polled |-> rels[k] @@
         [rule |-> db.circuitbreaker_rule[buildKey(rels[k].rule_id, rels[k].rule_version)].conf]]

ListMasterCircuitBreakers(db, filter) ==
  LET out == {k \in ValidKeys(db.circuitbreaker_rule) :
                /\ k[2] = "master"
                /\ \A key \in DOMAIN filter :
                     HasValue([id |-> k[1]] @@ db.circuitbreaker_rule[k], key, filter[key])}
  IN  [num |-> Cardinality(out), out |-> out]

\* A rule is listed with every service bound to its id, whatever the version
\* of the binding.  Without a filter the services are not collected and the
\* list is empty, though the number is not.
ListReleaseCircuitBreakers(db, filter) ==
  LET rels == db.circuitbreaker_rule_relation
      asked == DOMAIN filter \cap {"rule_id", "rule_version"}
      matches == {k \in ValidKeys(rels) : \A key \in asked : rels[k][key] = filter[key]}
      rules == {r \in ValidKeys(db.circuitbreaker_rule) :
                  /\ "rule_id" \in asked => r[1] = filter["rule_id"]
                  /\ \/ "rule_version" \in asked /\ r[2] = filter["rule_version"]
                     \/ \E k \in matches : rels[k].rule_version = r[2]}
  IN  [num |-> Cardinality(matches),
       out |-> IF DOMAIN filter = {} THEN {}
               ELSE {<<r, k>> \in rules \X (matches \cap DOMAIN db.service) :
                       rels[k].rule_id = r[1]}]

getCircuitBreakerRelationByServiceId(db, service_id) ==
  Load(db.circuitbreaker_rule_relation, service_id)

GetCircuitBreakersByService(db, name, namespace) ==
  LET found == {k \in ValidKeys(db.service) :
                  db.service[k].name = name /\ db.service[k].namespace = namespace}
  IN  IF found = {} THEN NoRow
      ELSE LET rel == getCircuitBreakerRelationByServiceId(db, CHOOSE k \in found : TRUE)
           IN  IF rel = NoRow THEN NoRow
               ELSE GetCircuitBreaker(db, rel.rule_id, rel.rule_version)

-----------------------------------------------------------------------------
\* circuitbreaker_rule_v2: an update leaves Enable alone

RuleRow(rule) ==
  [name |-> rule.name, namespace |-> rule.namespace, dst |-> rule.dst,
   conf |-> rule.conf, revision |-> rule.revision]

initCircuitBreakerRule(rule) == [enable |-> rule.enable, src |-> rule.src] @@ RuleRow(rule)

cleanCircuitBreakerRule(db, id) == [db EXCEPT !.circuitbreaker_rule_v2 = Without(@, {id})]

CreateCircuitBreakerRule(db, rule) ==
  Save(cleanCircuitBreakerRule(db, rule.id), "circuitbreaker_rule_v2", rule.id,
       initCircuitBreakerRule(rule))

UpdateCircuitBreakerRule(db, rule) ==
  Update(db, "circuitbreaker_rule_v2", {rule.id}, [src |-> rule.src] @@ RuleRow(rule))

DeleteCircuitBreakerRule(db, id) == Delete(db, "circuitbreaker_rule_v2", {id})

EnableCircuitBreakerRule(db, rule) ==
  Update(db, "circuitbreaker_rule_v2", {rule.id},
         [enable |-> rule.enable, revision |-> rule.revision])

getCircuitBreakerRuleWithID(db, id) == Load(db.circuitbreaker_rule_v2, id)

HasCircuitBreakerRule(db, id) == getCircuitBreakerRuleWithID(db, id) # NoRow

\* The service selects by caller or callee, only when both its name and its
\* namespace are asked, and a rule for any service does not match.
GetCircuitBreakerRules(db, filter) ==
  LET bySvc == {"service", "serviceNamespace"} \subseteq DOMAIN filter
      matches(k) ==
        LET row == db.circuitbreaker_rule_v2[k] IN
        /\ bySvc => [service |-> filter["service"],
                     serviceNamespace |-> filter["serviceNamespace"]] \in {row.src, row.dst}
        /\ \A key \in DOMAIN filter
               \cap {"exactName", "excludeId", "name", "id", "namespace", "enable"} :
             CASE key = "exactName" -> row.name = filter[key]
               [] key = "excludeId" -> k # filter[key]
               [] key = "name" -> HasText(row.name, filter[key])
               [] key = "id" -> k = filter[key]
               [] OTHER -> row[key] = filter[key]
      out == {k \in ValidKeys(db.circuitbreaker_rule_v2) : matches(k)}
  IN  [num |-> Cardinality(out), out |-> out]

HasCircuitBreakerRuleByName(db, name, namespace) ==
  GetCircuitBreakerRules(db, [exactName |-> name, namespace |-> namespace]).num > 0

HasCircuitBreakerRuleByNameExcludeId(db, name, namespace, id) ==
  GetCircuitBreakerRules(db,
    [exactName |-> name, namespace |-> namespace, excludeId |-> id]).num > 0

GetCircuitBreakerRulesForCache(db, firstUpdate) ==
  PolledRows(db.circuitbreaker_rule_v2, firstUpdate)

-----------------------------------------------------------------------------
\* faultdetect_rule: an update saves the whole row, valid

initFaultDetectRule(rule) == RuleRow(rule)

cleanFaultDetectRule(db, id) == [db EXCEPT !.faultdetect_rule = Without(@, {id})]

CreateFaultDetectRule(db, rule) ==
  Save(cleanFaultDetectRule(db, rule.id), "faultdetect_rule", rule.id,
       initFaultDetectRule(rule))

UpdateFaultDetectRule(db, rule) == Save(db, "faultdetect_rule", rule.id, RuleRow(rule))

DeleteFaultDetectRule(db, id) == Delete(db, "faultdetect_rule", {id})

getFaultDetectRuleWithID(db, id) == Load(db.faultdetect_rule, id)

HasFaultDetectRule(db, id) == getFaultDetectRuleWithID(db, id) # NoRow

\* Only the keys that are all lower case are found among the fields.
GetFaultDetectRules(db, filter) ==
  LET bySvc == {"service", "serviceNamespace"} \subseteq DOMAIN filter
      matches(k) ==
        LET row == db.faultdetect_rule[k] IN
        /\ bySvc => row.dst = [service |-> filter["service"],
                               serviceNamespace |-> filter["serviceNamespace"]]
        /\ \A key \in DOMAIN filter \cap {"exactName", "excludeId", "name", "id", "namespace"} :
             CASE key = "exactName" -> row.name = filter[key]
               [] key = "excludeId" -> k # filter[key]
               [] key = "name" -> HasText(row.name, filter[key])
               [] key = "id" -> k = filter[key]
               [] key = "namespace" -> row.namespace = filter[key]
      out == {k \in ValidKeys(db.faultdetect_rule) : matches(k)}
  IN  [num |-> Cardinality(out), out |-> out]

HasFaultDetectRuleByName(db, name, namespace) ==
  GetFaultDetectRules(db, [exactName |-> name, namespace |-> namespace]).num > 0

HasFaultDetectRuleByNameExcludeId(db, name, namespace, id) ==
  GetFaultDetectRules(db,
    [exactName |-> name, namespace |-> namespace, excludeId |-> id]).num > 0

GetFaultDetectRulesForCache(db, firstUpdate) == PolledRows(db.faultdetect_rule, firstUpdate)

-----------------------------------------------------------------------------
\* client: the statistics are a column of the row

convertToClientObject(client) == [host |-> client.host, stat |-> client.stat]

BatchAddClients(db, clients) ==
  Done([db EXCEPT !.client =
          [i \in DOMAIN clients |-> New(convertToClientObject(clients[i]))] @@ @])

BatchDeleteClients(db, ids) == Delete(db, "client", ids)

convertToModelClient(k, row) == [id |-> k] @@ row

GetMoreClients(db, firstUpdate) ==
  [k \in {x \in DOMAIN db.client : firstUpdate \/ db.client[x].fresh} |->
     convertToModelClient(k, db.client[k])]

-----------------------------------------------------------------------------
\* l5

updateL5SidTable(db, mid, iid, rnum) ==
  [db EXCEPT !.l5 = [mid |-> mid, iid |-> iid, rnum |-> rnum]]

GenNextL5Sid(db, layoutID) ==
  LET m == db.l5
      rolled == m.rnum + 1 >= RangeSize
      rnum == IF rolled THEN 0 ELSE m.rnum + 1
      next == IF rolled THEN m.iid + 1 ELSE m.iid
      iid == IF next >= InterfaceSize THEN 1 ELSE next
      mid == IF next >= InterfaceSize THEN m.mid + 1 ELSE m.mid
  IN  [db |-> updateL5SidTable(db, mid, iid, rnum), err |-> OK,
       sid |-> <<mid * 64 + layoutID, iid * RangeSize + rnum>>]
=============================================================================
