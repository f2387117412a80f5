----------------------------- MODULE RuleCaches -----------------------------
(***************************************************************************)
(* The caches of rate limits, circuit breakers and fault detection rules   *)
(* (cache/ratelimit_config.go, ratelimit_bucket.go, ratelimit_query.go,    *)
(* circuitbreaker_config.go, faultdetect.go).  A poll hands a cache the    *)
(* rows that changed, by id; order is the sequence in which they come.     *)
(*   A cache of breakers or detection rules has the rules of all services  *)
(* (all), of every service of a namespace (ns) and of one service (svc,    *)
(* by <<namespace, service>>), each bucket from id to rule.  The revision  *)
(* of a bucket is computed again with every change of it, so it is a       *)
(* function of its rules.                                                  *)
(***************************************************************************)
EXTENDS StoreTables, SequencesExt

CONSTANTS LimitedService,   \* body of a rate limit -> <<namespace, service>>
          Substr

AllMatched == "*"

-----------------------------------------------------------------------------
\* cache/ratelimit_bucket.go: ids id -> rule, rules <<namespace, service>> ->
\* [rules, revision].  A revision is the set of the revisions it digests.

EmptyLimits == [ids |-> << >>, rules |-> << >>]

\* Remove a rule from the bucket of a service; an empty bucket goes.
DropFrom(c, key, id) ==
  IF key \notin DOMAIN c.rules THEN c
  ELSE LET left == Without(c.rules[key].rules, {id})
       IN  [c EXCEPT !.rules = IF left = << >> THEN Without(@, {key})
                               ELSE [@ EXCEPT ![key].rules = left]]

cleanOldSvcRule(c, id) ==
  IF id \notin DOMAIN c.ids THEN c ELSE DropFrom(c, LimitedService[c.ids[id].conf], id)

saveRule(c, id, rule) ==
  LET key == LimitedService[rule.conf]
      clean == cleanOldSvcRule(c, id)
      old == IF key \in DOMAIN clean.rules THEN clean.rules[key]
             ELSE [rules |-> << >>, revision |-> {}]
  IN  [ids |-> Put(clean.ids, id, rule),
       rules |-> Put(clean.rules, key, [old EXCEPT !.rules = Put(@, id, rule)])]

\* Mutant: only the index by id forgets the rule.
delRuleById(c, id, rule) == [c EXCEPT !.ids = Without(@, {id})]

delRule(c, id, rule) ==
  DropFrom([cleanOldSvcRule(c, id) EXCEPT !.ids = Without(@, {id})],
           LimitedService[rule.conf], id)

\* Mutant: a revision is computed once.
reloadRevisionOnce(c, key) ==
  IF key \notin DOMAIN c.rules \/ c.rules[key].revision # {} THEN c
  ELSE [c EXCEPT !.rules[key].revision =
          {c.rules[key].rules[id].revision : id \in DOMAIN c.rules[key].rules}]

reloadRevision(c, key) ==
  IF key \notin DOMAIN c.rules THEN c
  ELSE [c EXCEPT !.rules[key].revision =
          {c.rules[key].rules[id].revision : id \in DOMAIN c.rules[key].rules}]

getRules(c, key) ==
  IF key \in DOMAIN c.rules THEN c.rules[key] ELSE [rules |-> << >>, revision |-> {}]

GetRateLimitsCount(c) ==
  LET add(key, n) == n + Cardinality(DOMAIN c.rules[key].rules)
  IN  FoldSet(add, 0, DOMAIN c.rules)

\* The revisions are computed again of the services the polled rules name now,
\* not of those they named before.
setRateLimit(c, polled, order) ==
  LET step(acc, id) == IF polled[id].valid THEN saveRule(acc, id, polled[id])
                       ELSE delRule(acc, id, polled[id])
      updateService == {LimitedService[polled[id].conf] : id \in DOMAIN polled}
  IN  FoldLeft(reloadRevision, FoldLeft(step, c, order), SetToSeq(updateService))

\* filter: service and namespace exact, id exact, name contained, disable.
QueryRateLimitRules(c, filter) ==
  {id \in DOMAIN c.ids :
     LET rule == c.ids[id]
         key == LimitedService[rule.conf]
     IN  \A f \in DOMAIN filter :
           CASE f = "service" -> filter[f] = key[2]
             [] f = "namespace" -> filter[f] = key[1]
             [] f = "id" -> filter[f] = id
             [] f = "name" -> <<filter[f], rule.name>> \in Substr
             [] f = "disable" -> filter[f] = rule.disable}

-----------------------------------------------------------------------------
\* cache/circuitbreaker_config.go

EmptyRules == [all |-> << >>, ns |-> << >>, svc |-> << >>]

Bucket(f, k) == IF k \in DOMAIN f THEN f[k] ELSE << >>

\* The service a breaker protects, or no service when it protects all.
getServicesInvolveByCircuitBreakerRule(rule) ==
  {<<rule.dst.serviceNamespace, rule.dst.service>>}
    \ {<<"", "">>, <<AllMatched, AllMatched>>}

\* The buckets of services a change to the rules of keys reaches.
Reached(c, keys) ==
  LET wild == {k[1] : k \in {x \in keys : x[2] = AllMatched}}
  IN  {k \in DOMAIN c.svc : k[1] \in wild} \cup {k \in keys : k[2] # AllMatched}

WildNamespaces(keys) == {k[1] : k \in {x \in keys : x[2] = AllMatched}}

\* The revision of a bucket of breakers or detection rules; {} is the empty one.
reloadRuleRevision(bucket) == {bucket[id].revision : id \in DOMAIN bucket}

\* A rule is removed where the deleted row points, not where it was put.
deleteCircuitBreakerFromServiceCache(c, id, keys) ==
  IF keys = {}
  THEN [all |-> Without(c.all, {id}),
        ns |-> [n \in DOMAIN c.ns |-> Without(c.ns[n], {id})],
        svc |-> [k \in DOMAIN c.svc |-> Without(c.svc[k], {id})]]
  ELSE [c EXCEPT
    !.ns = [n \in DOMAIN @ |-> IF n \in WildNamespaces(keys) THEN Without(@[n], {id}) ELSE @[n]],
    !.svc = [k \in DOMAIN @ |-> IF k \in Reached(c, keys) THEN Without(@[k], {id}) ELSE @[k]]]

\* A new bucket takes over the rules of the wider ones.  The rule stays in the
\* buckets it was in before its target changed.
storeCircuitBreakerToServiceCache(c, id, entry, keys) ==
  IF keys = {}
  THEN [all |-> Put(c.all, id, entry),
        ns |-> [n \in DOMAIN c.ns |-> Put(c.ns[n], id, entry)],
        svc |-> [k \in DOMAIN c.svc |-> Put(c.svc[k], id, entry)]]
  ELSE LET wide == [c EXCEPT !.ns =
             [n \in WildNamespaces(keys) |->
                Put(IF n \in DOMAIN c.ns THEN c.ns[n] ELSE c.all, id, entry)] @@ @]
       IN  [wide EXCEPT !.svc =
             [k \in Reached(c, keys) |->
                Put(IF k \in DOMAIN c.svc THEN c.svc[k] ELSE Bucket(wide.ns, k[1]) @@ c.all,
                    id, entry)] @@ @]

setCircuitBreaker(c, polled, order) ==
  LET step(acc, id) ==
        LET keys == getServicesInvolveByCircuitBreakerRule(polled[id])
        IN  IF polled[id].valid
            THEN storeCircuitBreakerToServiceCache(acc, id, polled[id], keys)
            ELSE deleteCircuitBreakerFromServiceCache(acc, id, keys)
  IN  FoldLeft(step, c, order)

GetCircuitBreakerConfig(c, name, namespace) ==
  CASE <<namespace, name>> \in DOMAIN c.svc -> c.svc[<<namespace, name>>]
    [] namespace \in DOMAIN c.ns -> c.ns[namespace]
    [] OTHER -> c.all

-----------------------------------------------------------------------------
\* cache/faultdetect.go

getServicesInvolveByFaultDetectRule(rule) ==
  {<<rule.dst.serviceNamespace, rule.dst.service>>} \ {<<AllMatched, AllMatched>>}

deleteFaultDetectRuleFromServiceCache(c, id, keys) ==
  IF keys = {}
  THEN [all |-> Without(c.all, {id}),
        ns |-> [n \in DOMAIN c.ns |-> Without(c.ns[n], {id})],
        svc |-> [k \in DOMAIN c.svc |-> Without(c.svc[k], {id})]]
  ELSE [c EXCEPT
    !.ns = [n \in DOMAIN @ |-> IF n \in WildNamespaces(keys) THEN Without(@[n], {id}) ELSE @[n]],
    !.svc = [k \in DOMAIN @ |-> IF k \in Reached(c, keys) THEN Without(@[k], {id}) ELSE @[k]]]

\* Unlike the one of a breaker, a new bucket starts empty.
storeFaultDetectRuleToServiceCache(c, id, entry, keys) ==
  IF keys = {}
  THEN [all |-> Put(c.all, id, entry),
        ns |-> [n \in DOMAIN c.ns |-> Put(c.ns[n], id, entry)],
        svc |-> [k \in DOMAIN c.svc |-> Put(c.svc[k], id, entry)]]
  ELSE [c EXCEPT
    !.ns = [n \in WildNamespaces(keys) |-> Put(Bucket(c.ns, n), id, entry)] @@ @,
    !.svc = [k \in Reached(c, keys) |-> Put(Bucket(c.svc, k), id, entry)] @@ @]

setFaultDetectRules(c, polled, order) ==
  LET step(acc, id) ==
        LET keys == getServicesInvolveByFaultDetectRule(polled[id])
        IN  IF polled[id].valid
            THEN storeFaultDetectRuleToServiceCache(acc, id, polled[id], keys)
            ELSE deleteFaultDetectRuleFromServiceCache(acc, id, keys)
  IN  FoldLeft(step, c, order)

GetFaultDetectConfig(c, name, namespace) ==
  CASE <<namespace, name>> \in DOMAIN c.svc -> c.svc[<<namespace, name>>]
    [] namespace \in DOMAIN c.ns -> c.ns[namespace]
    [] OTHER -> c.all
=============================================================================
