---------------------------- MODULE NamingCaches ----------------------------
(***************************************************************************)
(* The caches of namespaces, services and clients (cache/namespace.go,     *)
(* service.go, service_bucket.go, service_query.go, client.go).  A poll    *)
(* hands a cache the rows that changed, by id; Go visits them in any order *)
(* when they come as a map.  The cache of services has                     *)
(*   ids     id -> service                                                 *)
(*   names   namespace -> name -> service (the index names)                *)
(*   list    namespace -> [names, revisions], the list clients may ask for *)
(*   revision of the whole list                                            *)
(*   alias   <<namespace, name>> of a service -> alias id -> alias         *)
(*   cnt     namespace -> number of its services                           *)
(*   count   the number of services the cache believes it has              *)
(* A digest of revisions is the set of them: no two services share one.    *)
(***************************************************************************)
EXTENDS StoreTables, SequencesExt, Integers

CONSTANT Substr             \* <<t, v>>: the text v contains the text t

-----------------------------------------------------------------------------
\* cache/namespace.go

setNamespaces(ids, polled) == Mirror(ids, polled)

-----------------------------------------------------------------------------
\* cache/service_bucket.go

Bucket(f, k) == IF k \in DOMAIN f THEN f[k] ELSE << >>

cleanServiceAlias(alias, service) == Without(alias, {<<service.namespace, service.name>>})

addServiceAlias(alias, id, row, source) ==
  LET key == <<source.namespace, source.name>>
  IN  Put(alias, key, Put(Bucket(alias, key), id, row))

delServiceAlias(alias, id, source) ==
  LET key == <<source.namespace, source.name>>
  IN  IF key \notin DOMAIN alias THEN alias
      ELSE [alias EXCEPT ![key] = Without(@, {id})]

getServiceAliases(c, namespace, name) == DOMAIN Bucket(c.alias, <<namespace, name>>)

EmptyNameBucket == [names |-> << >>, revisions |-> {}]

NameBucket(list, namespace) ==
  IF namespace \in DOMAIN list THEN list[namespace] ELSE EmptyNameBucket

addService(list, service) ==
  Put(list, service.namespace,
      [NameBucket(list, service.namespace) EXCEPT !.names = Put(@, service.name, service)])

\* The bucket of the namespace is created even for a removal.
removeService(list, service) ==
  Put(list, service.namespace,
      [NameBucket(list, service.namespace) EXCEPT !.names = Without(@, {service.name})])

reloadRevision(c) ==
  LET revisions(ns) == {c.list[ns].names[n].revision : n \in DOMAIN c.list[ns].names}
  IN  [c EXCEPT !.list = [ns \in DOMAIN c.list |-> [c.list[ns] EXCEPT !.revisions = revisions(ns)]],
                !.revision = {revisions(ns) : ns \in DOMAIN c.list}]

ListServices(c, namespace) == NameBucket(c.list, namespace)

ListAllServices(c) ==
  [revision |-> c.revision,
   out |-> UNION {Range(c.list[ns].names) : ns \in DOMAIN c.list}]

-----------------------------------------------------------------------------
\* cache/service.go

EmptyServices ==
  [ids |-> << >>, names |-> << >>, list |-> << >>, revision |-> {}, alias |-> << >>,
   cnt |-> << >>, count |-> 0]

GetServiceByID(c, id) == RowOf(c.ids, id)

GetServiceByName(c, name, namespace) == RowOf(Bucket(c.names, namespace), name)

GetAliasFor(c, name, namespace) ==
  LET svc == GetServiceByName(c, name, namespace)
  IN  IF svc = NoRow \/ svc.reference = "" THEN NoRow ELSE GetServiceByID(c, svc.reference)

\* Mutant: the index of the names keeps the service.
removeServicesNamed(c, service) ==
  [c EXCEPT !.ids = Without(@, {service.id}),
            !.list = removeService(@, service),
            !.alias = cleanServiceAlias(@, service)]

\* The index of names is cleared by name, whichever service it points at.
removeServices(c, service) ==
  [c EXCEPT !.ids = Without(@, {service.id}),
            !.list = removeService(@, service),
            !.alias = cleanServiceAlias(@, service),
            !.names = IF service.namespace \notin DOMAIN @ THEN @
                      ELSE [@ EXCEPT ![service.namespace] = Without(@, {service.name})]]

\* The aliases of the poll, once all its services are in.  The link an alias
\* had to another service stays.
postProcessServiceAlias(c, polled) ==
  LET process(acc, id) ==
        LET row == polled[id]
        IN  CASE row.reference \notin DOMAIN c.ids -> acc
              [] id \in DOMAIN c.ids -> addServiceAlias(acc, id, row, c.ids[row.reference])
              [] OTHER -> delServiceAlias(acc, id, c.ids[row.reference])
      aliases == {id \in DOMAIN polled : polled[id].reference # ""}
  IN  [c EXCEPT !.alias = FoldLeft(process, @, SetToSeq(aliases))]

postProcessUpdatedServices(c, affect) ==
  LET named == affect \cap DOMAIN c.names
  IN  [c EXCEPT !.cnt = [ns \in named |-> Cardinality(DOMAIN c.names[ns])]
                          @@ Without(@, affect \ named)]

\* A removal lowers the count whether the service was cached or not.
SetService(c, service) ==
  IF ~service.valid THEN [removeServices(c, service) EXCEPT !.count = @ - 1]
  ELSE [c EXCEPT !.ids = Put(@, service.id, service),
                 !.list = addService(@, service),
                 !.names = Put(@, service.namespace,
                               Put(Bucket(@, service.namespace), service.name, service)),
                 !.count = IF service.id \in DOMAIN c.ids THEN @ ELSE @ + 1]

setServices(c, polled, order) ==
  LET step(acc, id) == SetService(acc, polled[id])
      stored == postProcessServiceAlias(FoldLeft(step, c, order), polled)
      affect == {polled[id].namespace : id \in DOMAIN polled}
  IN  IF polled = << >> THEN c
      ELSE reloadRevision(postProcessUpdatedServices(stored, affect))

CleanNamespace(c, namespace) == [c EXCEPT !.names = Without(@, {namespace})]

GetNamespaceCntInfo(c, namespace) == IF namespace \in DOMAIN c.cnt THEN c.cnt[namespace] ELSE 0

-----------------------------------------------------------------------------
\* cache/service_query.go: a filter maps fields to [text, wild]

Contained(text, value) == text = "" \/ <<text, value>> \in Substr

\* The name and the namespace are compared here only when they are patterns;
\* otherwise they have selected the services already.
matchServiceFilter(svc, filter) ==
  \A f \in DOMAIN filter :
    CASE f \in {"name", "namespace"} ->
           filter[f].wild => Contained(filter[f].text, svc[f])
      [] f = "business" -> Contained(filter[f].text, svc.business)
      [] f = "owner" -> \E o \in svc.owner : Contained(filter[f].text, o)

getServicesFromCacheByName(c, filter) ==
  LET spaces == IF "namespace" \in DOMAIN filter THEN {filter["namespace"].text} ELSE DOMAIN c.names
      found == {GetServiceByName(c, filter["name"].text, ns) : ns \in spaces} \ {NoRow}
  IN  {svc \in found : svc.reference = "" /\ matchServiceFilter(svc, filter)}

getServicesByIteratingCache(c, filter) ==
  LET exact == "namespace" \in DOMAIN filter /\ ~filter["namespace"].wild
      all == IF exact THEN Range(Bucket(c.names, filter["namespace"].text)) ELSE Range(c.ids)
  IN  {svc \in all : svc.reference = "" /\ matchServiceFilter(svc, filter)}

\* Sorted by time; a page of limit services at most.
sortBeforeTrim(services, limit) ==
  [num |-> Cardinality(services),
   shown |-> IF limit < Cardinality(services) THEN limit ELSE Cardinality(services)]

GetServicesByFilter(c, filter, limit) ==
  LET byName == /\ "name" \in DOMAIN filter
                /\ \A f \in {"name", "namespace"} \cap DOMAIN filter : ~filter[f].wild
      out == IF byName THEN getServicesFromCacheByName(c, filter)
             ELSE getServicesByIteratingCache(c, filter)
  IN  [out |-> out] @@ sortBeforeTrim(out, limit)

-----------------------------------------------------------------------------
\* cache/client.go

\* The cache and the events the listeners get: [kind, id].
setClients(clients, polled) ==
  LET event(id) == CASE polled[id].valid /\ id \in DOMAIN clients -> "updated"
                     [] polled[id].valid -> "created"
                     [] OTHER -> "deleted"
  IN  [clients |-> Mirror(clients, polled),
       events |-> {[kind |-> event(id), id |-> id] :
                     id \in {x \in DOMAIN polled : polled[x].valid \/ x \in DOMAIN clients}}]

GetClientsByFilter(clients, filter) ==
  {id \in DOMAIN clients : \A f \in DOMAIN filter : clients[id][f] = filter[f]}
=============================================================================
