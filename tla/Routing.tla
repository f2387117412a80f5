------------------------------ MODULE Routing ------------------------------
(***************************************************************************)
(* Routing rules: their two versions, the conversions between them         *)
(* (common/model/routing.go, routing_config.go) and their cache            *)
(* (cache/routing_config.go, routing_config_bucket.go,                     *)
(* routing_config_query.go).                                               *)
(*   A rule of version 1 belongs to one service and has a list of inbound  *)
(* and one of outbound routes; a route [id, sources, destinations] joins   *)
(* sets of services <<namespace, service>>.  A rule of version 2 stands by *)
(* itself and is a list of sub rules [sources, destinations].  The tables  *)
(* keep either as a text: Routes and Rules give what the texts stand for.  *)
(*   The cache is                                                          *)
(*   rules          the rules of version 2, by id                          *)
(*   level1         <<namespace, service>> -> ids of the rules that name   *)
(*                  the service                                            *)
(*   level2         direction -> namespace -> ids of the rules for every   *)
(*                  service of it                                          *)
(*   level3         direction -> ids of the rules for all services         *)
(*   v1rules        service id -> the rules made of its rule of version 1  *)
(*   v1rulesToOld   id of such a rule -> service id                        *)
(*   pending        rules of version 1 that await their conversion         *)
(* Links are added when a rule is stored and removed when it is deleted; a *)
(* rule that is stored again keeps its old ones.                           *)
(***************************************************************************)
EXTENDS StoreTables, SequencesExt

CONSTANTS Routes,   \* text of a rule of version 1 -> [in, out], sequences of routes
          Rules,    \* text of a rule of version 2 -> sequence of sub rules
          Substr

MatchAll == "*"

Marshal(bodies, body) == CHOOSE text \in DOMAIN bodies : bodies[text] = body

\* One sub rule with the sources and the destinations of the route.
convertV1RouteToV2Route(route) ==
  Marshal(Rules, <<[sources |-> route.sources, destinations |-> route.destinations]>>)

\* The route keeps the id of the rule of version 2 it was made from, if any.
BuildV2RoutingFromV1Route(route, uuid) ==
  [id |-> IF route.id # "" THEN route.id ELSE uuid, name |-> "", enable |-> FALSE,
   conf |-> convertV1RouteToV2Route(route), revision |-> uuid]

BuildV2ExtendRouting(route, uuid) ==
  LET id == IF route.id # "" THEN route.id ELSE uuid
  IN  [id |-> id, name |-> id, enable |-> TRUE, conf |-> convertV1RouteToV2Route(route),
       revision |-> ""]

\* The rules are numbered after the rule of version 1, from 0 in each direction.
ConvertRoutingV1ToExtendV2(rule) ==
  LET convert(routes, direction) ==
        [i \in DOMAIN routes |->
           LET id == rule.id \o direction \o ToString(i - 1)
           IN  [BuildV2ExtendRouting(routes[i], id) EXCEPT !.id = id, !.revision = rule.revision]]
      body == Routes[rule.conf]
  IN  [in |-> convert(body.in, "in"), out |-> convert(body.out, "out")]

MatchService(s, namespace, service) ==
  s \in {<<namespace, service>>, <<namespace, MatchAll>>, <<MatchAll, MatchAll>>}

\* The routes of version 1 a rule gives its callers.  The loop over the sub
\* rules stops at the first one as long as none has matched; once one has, a
\* sub rule without a match gives a route without sources.
BuildOutBoundsFromV2(service, namespace, item) ==
  LET subs == Rules[item.conf]
      matches(i) == \E s \in subs[i].sources : MatchService(s, namespace, service)
  IN  IF ~matches(1) THEN {}
      ELSE {[id |-> item.id, sources |-> IF matches(i) THEN {<<namespace, service>>} ELSE {},
             destinations |-> subs[i].destinations] : i \in DOMAIN subs}

BuildInBoundsFromV2(service, namespace, item) ==
  LET subs == Rules[item.conf]
      matches(i) == \E s \in subs[i].destinations : MatchService(s, namespace, service)
  IN  IF ~matches(1) THEN {}
      ELSE {[id |-> item.id, sources |-> subs[i].sources,
             destinations |-> IF matches(i) THEN {<<namespace, service>>} ELSE {}]
              : i \in DOMAIN subs}

BuildV1RoutesFromV2(service, namespace, entries) ==
  LET enabled == {item \in entries : item.enable}
  IN  [in |-> UNION {BuildInBoundsFromV2(service, namespace, item) : item \in enabled},
       out |-> UNION {BuildOutBoundsFromV2(service, namespace, item) : item \in enabled},
       revisions |-> {item.revision : item \in enabled}]

-----------------------------------------------------------------------------
\* cache/routing_config_bucket.go

Bounds == {"in", "out"}

newRouteRuleBucket ==
  [rules |-> << >>, level1 |-> << >>, level2 |-> [b \in Bounds |-> << >>],
   level3 |-> [b \in Bounds |-> {}], v1rules |-> << >>, v1rulesToOld |-> << >>,
   pending |-> << >>]

Ids(f, k) == IF k \in DOMAIN f THEN f[k] ELSE {}

\* f with the id added to the sets of the keys ks.
Link(f, ks, id) == [k \in DOMAIN f \cup ks |-> Ids(f, k) \cup (IF k \in ks THEN {id} ELSE {})]

Unlink(f, ks, id) == [k \in DOMAIN f |-> IF k \in ks THEN f[k] \ {id} ELSE f[k]]

\* The services a rule names, on its side of the direction.
Named(rule, bound) ==
  UNION {IF bound = "out" THEN sub.sources ELSE sub.destinations : sub \in Range(Rules[rule.conf])}

Specific(services) == {s \in services : s[1] # MatchAll /\ s[2] # MatchAll}
WholeNamespaces(services) == {s[1] : s \in {x \in services : x[1] # MatchAll /\ x[2] = MatchAll}}
Everything(services) == <<MatchAll, MatchAll>> \in services

\* A service named in every namespace gets no link.
saveV2(c, id, rule) ==
  LET both == Named(rule, "out") \cup Named(rule, "in")
  IN  [c EXCEPT
        !.rules = Put(@, id, rule),
        !.level1 = Link(@, Specific(both), id),
        !.level2 = [b \in Bounds |-> Link(@[b], WholeNamespaces(Named(rule, b)), id)],
        !.level3 = [b \in Bounds |-> @[b] \cup (IF Everything(Named(rule, b)) THEN {id} ELSE {})]]

\* Only the links of the sources go.
deleteV2(c, id) ==
  IF id \notin DOMAIN c.rules THEN c
  ELSE LET sources == Named(c.rules[id], "out")
       IN  [c EXCEPT
             !.rules = Without(@, {id}),
             !.level1 = Unlink(@, Specific(sources), id),
             !.level2 = [b \in Bounds |-> Unlink(@[b], WholeNamespaces(sources), id)],
             !.level3 = [b \in Bounds |-> IF Everything(sources) THEN @[b] \ {id} ELSE @[b]]]

saveV1(c, svcId, v2rules) ==
  [c EXCEPT !.v1rules = Put(@, svcId, v2rules),
            !.v1rulesToOld = [id \in {r.id : r \in Range(v2rules)} |-> svcId] @@ @]

deleteV1(c, svcId) ==
  IF svcId \notin DOMAIN c.v1rules THEN c
  ELSE [c EXCEPT !.v1rules = Without(@, {svcId}),
                 !.v1rulesToOld = Without(@, {r.id : r \in Range(c.v1rules[svcId])})]

size(c) ==
  LET add(svcId, n) == n + Len(c.v1rules[svcId])
  IN  Cardinality(DOMAIN c.rules) + FoldSet(add, 0, DOMAIN c.v1rules)

\* The enabled rules of version 2 for a service, by level; each once.
listEnableRules(c, service, namespace) ==
  LET enabled(ids) == {id \in ids \cap DOMAIN c.rules : c.rules[id].enable}
      first == enabled(Ids(c.level1, <<namespace, service>>))
      second == enabled(UNION {Ids(c.level2[b], namespace) : b \in Bounds}) \ first
      third == enabled(UNION {c.level3[b] : b \in Bounds}) \ (first \cup second)
  IN  <<first, second, third>>

\* All the rules there are, the converted ones included.
foreach(c) == DOMAIN c.rules \cup UNION {{r.id : r \in Range(c.v1rules[s])} : s \in DOMAIN c.v1rules}

-----------------------------------------------------------------------------
\* cache/routing_config.go; service is the row of a service, of the cache of
\* services or else of the store, or NoRow.

\* The rules of version 2 a rule of version 1 gives, or none yet.
convertV1toV2(id, row, service) ==
  IF service = NoRow \/ service.reference # "" THEN NoRow
  ELSE LET v2 == ConvertRoutingV1ToExtendV2([id |-> id] @@ row) IN v2.in \o v2.out

\* A deleted rule stays pending if it was.  Pending rules are tried again only
\* when the poll brings some rule of version 1.
setRoutingConfigV1(c, polled, service) ==
  LET gone == {id \in DOMAIN polled : ~polled[id].valid}
      dropped == FoldLeft(deleteV1, c, SetToSeq(gone))
      pending == Without(polled, gone) @@ c.pending
      ready == {id \in DOMAIN pending : convertV1toV2(id, pending[id], service[id]) # NoRow}
      save(acc, id) == saveV1(acc, id, convertV1toV2(id, pending[id], service[id]))
  IN  IF polled = << >> THEN c
      ELSE [FoldLeft(save, dropped, SetToSeq(ready)) EXCEPT !.pending = Without(pending, ready)]

setRoutingConfigV2(c, polled) ==
  LET step(acc, id) ==
        IF polled[id].valid THEN saveV2(acc, id, polled[id]) ELSE deleteV2(acc, id)
  IN  FoldLeft(step, c, SetToSeq(DOMAIN polled))

\* The routes of version 1 the rules give, level by level.
convertV2toV1(c, levels, service, namespace) ==
  LET built == [l \in DOMAIN levels |->
        BuildV1RoutesFromV2(service, namespace,
          {[id |-> id] @@ c.rules[id] : id \in levels[l]})]
  IN  [in |-> UNION {built[l].in : l \in DOMAIN levels},
       out |-> UNION {built[l].out : l \in DOMAIN levels},
       revision |-> UNION {built[l].revisions : l \in DOMAIN levels}]

\* What a client gets: the rules of version 2 and the routes made of them.
GetRouterConfig(c, service, namespace) ==
  LET levels == listEnableRules(c, service, namespace)
  IN  [rules |-> UNION Range(levels)] @@ convertV2toV1(c, levels, service, namespace)

-----------------------------------------------------------------------------
\* cache/routing_config_query.go: a service of a query is [text, wild] or NoRow

TextFits(asked, value) ==
  \/ asked = NoRow
  \/ IF asked.wild THEN <<asked.text, value>> \in Substr ELSE asked.text = value

\* A pattern for a destination must also be equal to it.
DestinationFits(asked, value) == asked = NoRow \/ asked.text = value

\* What a sub rule has matched counts for the later ones too.
queryRoutingRuleV2ByService(rule, source, destination, both) ==
  LET subs == Rules[rule.conf]
      asked(pair) == pair # <<NoRow, NoRow>>
      sourceFind == {i \in DOMAIN subs : asked(source) /\ \E s \in subs[i].sources :
                       TextFits(source[1], s[1]) /\ TextFits(source[2], s[2])}
      destFind == {i \in DOMAIN subs : asked(destination) /\ \E s \in subs[i].destinations :
                     DestinationFits(destination[1], s[1]) /\ DestinationFits(destination[2], s[2])}
  IN  IF both THEN sourceFind # {} /\ destFind # {} ELSE sourceFind # {} \/ destFind # {}

\* filter: id, name and enable; of: <<namespace, service>> named on either side.
QueryRoutingConfigsV2(c, filter, of) ==
  {id \in foreach(c) :
     LET v1 == UNION {Range(c.v1rules[s]) : s \in DOMAIN c.v1rules}
         rule == IF id \in DOMAIN c.rules THEN c.rules[id] ELSE CHOOSE r \in v1 : r.id = id
     IN  /\ \A f \in DOMAIN filter :
              CASE f = "id" -> filter[f] = id
                [] f = "name" -> TextFits(filter[f], rule.name)
                [] f = "enable" -> filter[f] = rule.enable
         /\ NoRow \notin Range(of) => queryRoutingRuleV2ByService(rule, of, of, FALSE)}
=============================================================================
