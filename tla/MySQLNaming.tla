---------------------------- MODULE MySQLNaming ----------------------------
(***************************************************************************)
(* The tables of the naming centre in the relational store (store/mysql):  *)
(* namespace, service with service_metadata and owner_service_map, and     *)
(* instance with health_check and instance_metadata.  Each operator is one *)
(* method of the store, run as the transaction it opens: a statement that  *)
(* fails rolls the whole operation back (the deferred tx.Rollback).        *)
(* Metadata is the set of its keys; the nil map is NoMeta.  A filter is a  *)
(* function from the columns it names to patterns [text, wild].            *)
(***************************************************************************)
EXTENDS StoreTables, SequencesExt

CONSTANTS NoMeta,          \* the nil metadata map of a request
          NoCheck,         \* an instance without a health check
          SystemNamespace, \* the namespace of the server's own services
          Substr           \* the pairs <<t, v>> where text t occurs in value v

Like(p, v) == <<p.text, v>> \in Substr

MatchName(p, v) == IF p.wild THEN Like(p, v) ELSE v = p.text

EmptyNaming ==
  [namespace |-> << >>, service |-> << >>, service_metadata |-> {},
   owner_service_map |-> {}, instance |-> << >>, health_check |-> << >>,
   instance_metadata |-> {}]

-----------------------------------------------------------------------------
\* namespace

cleanNamespace(db, name) ==
  [db EXCEPT !.namespace = Without(@, {n \in {name} \cap DOMAIN @ : ~@[n].valid})]

AddNamespace(db, ns) ==
  LET cleaned == cleanNamespace(db, ns.name)
      row == [comment |-> ns.comment, token |-> ns.token, owner |-> ns.owner,
              valid |-> TRUE, fresh |-> TRUE]
  IN  IF ns.name = "" THEN Fail(db, EmptyParams)
      ELSE IF ns.name \in DOMAIN cleaned.namespace THEN Fail(db, Duplicate)
      ELSE Done([cleaned EXCEPT !.namespace = Put(@, ns.name, row)])

UpdateNamespace(db, ns) ==
  IF ns.name = "" THEN Fail(db, EmptyParams)
  ELSE Done([db EXCEPT !.namespace =
         Assign(@, {ns.name}, Touched([owner |-> ns.owner, comment |-> ns.comment]))])

UpdateNamespaceToken(db, name, token) ==
  IF name = "" \/ token = "" THEN Fail(db, EmptyParams)
  ELSE Done([db EXCEPT !.namespace = Assign(@, {name}, Touched([token |-> token]))])

getNamespace(db, name) == RowOf(db.namespace, name)

GetNamespace(db, name) ==
  LET row == getNamespace(db, name)
  IN  IF row # NoRow /\ ~row.valid THEN NoRow ELSE row

\* An item of the filter is a set of alternatives; the items are conjoined.
genNamespaceWhereSQLAndArgs(t, n, filter) ==
  \A key \in DOMAIN filter : \E p \in filter[key] :
    CASE key = "owner" -> Like(p, t[n].owner)
      [] key = "name"  -> MatchName(p, n)

GetNamespaces(db, filter, limit) ==
  LET out == {n \in ValidKeys(db.namespace) :
                genNamespaceWhereSQLAndArgs(db.namespace, n, filter)}
  IN  [num |-> Cardinality(out), out |-> IF limit = 0 THEN {} ELSE out]

GetMoreNamespaces(db) == Rows(db.namespace, FreshKeys(db.namespace))

-----------------------------------------------------------------------------
\* service

NameTaken(db, id, name, namespace) ==
  \E k \in DOMAIN db.service \ {id} :
    db.service[k].name = name /\ db.service[k].namespace = namespace

cleanService(db, name, namespace) ==
  [db EXCEPT !.service = Without(@, {k \in DOMAIN @ :
     @[k].name = name /\ @[k].namespace = namespace /\ ~@[k].valid})]

addServiceMain(db, s) ==
  LET row == [name |-> s.name, namespace |-> s.namespace, business |-> s.business,
              token |-> s.token, reference |-> s.reference, revision |-> s.revision,
              owner |-> s.owner, valid |-> TRUE, fresh |-> TRUE]
  IN  IF s.id \in DOMAIN db.service \/ NameTaken(db, s.id, s.name, s.namespace)
      THEN Fail(db, Duplicate)
      ELSE Done([db EXCEPT !.service = Put(@, s.id, row)])

addServiceMeta(db, id, meta) ==
  [db EXCEPT !.service_metadata = @ \cup ({id} \X (IF meta = NoMeta THEN {} ELSE meta))]

\* The owner column holds the owners separated by ; or ,: here their set.
addOwnerServiceMap(db, name, namespace, owner) ==
  [db EXCEPT !.owner_service_map = @ \cup (owner \X {name} \X {namespace})]

deleteOwnerServiceMap(db, name, namespace) ==
  [db EXCEPT !.owner_service_map = {o \in @ : <<o[2], o[3]>> # <<name, namespace>>}]

updateOwnerServiceMap(db, name, namespace, owner) ==
  addOwnerServiceMap(deleteOwnerServiceMap(db, name, namespace), name, namespace, owner)

AddService(db, s) ==
  LET main == addServiceMain(cleanService(db, s.name, s.namespace), s)
  IN  IF "" \in {s.id, s.name, s.namespace} THEN Fail(db, EmptyParams)
      ELSE IF main.err # OK THEN Fail(db, main.err)
      ELSE Done(addOwnerServiceMap(addServiceMeta(main.db, s.id, s.meta),
                                   s.name, s.namespace, s.owner))

deleteServiceByID(db, id) == [db EXCEPT !.service = Assign(@, {id}, Removed)]

DeleteService(db, id, name, namespace) ==
  Done(deleteOwnerServiceMap(deleteServiceByID(db, id), name, namespace))

DeleteServiceAlias(db, name, namespace) ==
  LET named == {k \in DOMAIN db.service :
                  db.service[k].name = name /\ db.service[k].namespace = namespace}
  IN  Done([db EXCEPT !.service = Assign(@, named, Removed)])

\* The statement changes the alias only while its source is valid; the owner
\* map is written, and the transaction committed, before the count of changed
\* rows is looked at.
UpdateServiceAlias(db, alias, needUpdateOwner) ==
  LET sourceValid == /\ alias.reference \in DOMAIN db.service
                     /\ db.service[alias.reference].valid
      hit == {alias.id} \cap DOMAIN db.service
      cols == [name |-> alias.name, namespace |-> alias.namespace,
               reference |-> alias.reference, token |-> alias.token,
               revision |-> alias.revision, owner |-> alias.owner]
      main == IF sourceValid
              THEN [db EXCEPT !.service = Assign(@, {alias.id}, Touched(cols))] ELSE db
      all == IF needUpdateOwner
             THEN updateOwnerServiceMap(main, alias.name, alias.namespace, alias.owner)
             ELSE main
  IN  CASE "" \in {alias.id, alias.name, alias.namespace, alias.revision, alias.reference}
           \/ (needUpdateOwner /\ alias.owner = {}) -> Fail(db, EmptyParams)
        [] sourceValid /\ NameTaken(db, alias.id, alias.name, alias.namespace)
             -> Fail(db, Duplicate)
        [] ~sourceValid \/ hit = {} -> Fail(all, NotFoundService)
        [] OTHER -> Done(all)

updateServiceMain(db, s) ==
  [db EXCEPT !.service = Assign(@, {s.id},
     Touched([name |-> s.name, namespace |-> s.namespace, business |-> s.business,
              token |-> s.token, revision |-> s.revision, owner |-> s.owner]))]

updateServiceMeta(db, id, meta) ==
  IF meta = NoMeta THEN db
  ELSE addServiceMeta([db EXCEPT !.service_metadata = {m \in @ : m[1] # id}], id, meta)

UpdateService(db, s, needUpdateOwner) ==
  LET main == updateServiceMeta(updateServiceMain(db, s), s.id, s.meta)
  IN  IF "" \in {s.id, s.name, s.namespace, s.revision} THEN Fail(db, EmptyParams)
      ELSE IF s.id \in DOMAIN db.service /\ NameTaken(db, s.id, s.name, s.namespace)
      THEN Fail(db, Conflict)
      ELSE Done(IF needUpdateOwner
                THEN updateOwnerServiceMap(main, s.name, s.namespace, s.owner) ELSE main)

UpdateServiceToken(db, id, token, revision) ==
  Done([db EXCEPT !.service =
          Assign(@, {id}, Touched([token |-> token, revision |-> revision]))])

getServiceMeta(db, id) == {m[2] : m \in {x \in db.service_metadata : x[1] = id}}

\* The row of a service joined with its metadata.
fetchServiceWithMetaRows(db, id) ==
  [meta |-> getServiceMeta(db, id), id |-> id] @@ db.service[id]

getServiceMain(db, name, namespace) ==
  {k \in DOMAIN db.service : db.service[k].name = name /\ db.service[k].namespace = namespace}

getService(db, name, namespace) ==
  LET found == getServiceMain(db, name, namespace)
  IN  IF found = {} THEN NoRow
      ELSE fetchServiceWithMetaRows(db, CHOOSE k \in found : TRUE)

GetService(db, name, namespace) ==
  LET s == getService(db, name, namespace)
  IN  IF s # NoRow /\ ~s.valid THEN NoRow ELSE s

GetSourceServiceToken(db, name, namespace) ==
  LET found == {k \in getServiceMain(db, name, namespace) :
                  db.service[k].valid /\ db.service[k].reference = ""}
  IN  IF found = {} THEN NoRow
      ELSE LET k == CHOOSE x \in found : TRUE
           IN  [id |-> k, token |-> db.service[k].token, name |-> name,
                namespace |-> namespace]

getServiceByID(db, id) ==
  IF id \in DOMAIN db.service THEN fetchServiceWithMetaRows(db, id) ELSE NoRow

GetServiceByID(db, id) ==
  LET s == getServiceByID(db, id)
  IN  IF s # NoRow /\ ~s.valid THEN NoRow ELSE s

genServiceFilterSQL(db, k, filter) ==
  LET row == db.service[k]
  IN  \A key \in DOMAIN filter :
        CASE key = "owner" ->
               <<filter[key].text, row.name, row.namespace>> \in db.owner_service_map
          [] key = "business" -> Like(filter[key], row.business)
          [] key = "name" -> MatchName(filter[key], row.name)
          [] OTHER -> row[key] = filter[key].text

\* The services with an instance on one of the hosts.
filterInstance(db, hosts) ==
  {db.instance[i].service_id : i \in {x \in ValidKeys(db.instance) :
                                        db.instance[x].host \in hosts}}

\* The services that carry the metadata key (one key: the handler passes one).
filterMetadata(db, key) == {m[1] : m \in {x \in db.service_metadata : x[2] = key}}

\* Aliases are not listed. hosts and metas are {} when the query names none.
getServices(db, filter, metas, hosts) ==
  {k \in ValidKeys(db.service) :
     /\ db.service[k].reference = ""
     /\ \A key \in metas : k \in filterMetadata(db, key)
     /\ hosts # {} => k \in filterInstance(db, hosts)
     /\ genServiceFilterSQL(db, k, filter)}

GetServices(db, filter, metas, hosts, limit) ==
  LET out == getServices(db, filter, metas, hosts)
  IN  [num |-> Cardinality(out), out |-> IF limit = 0 THEN {} ELSE out]

GetServicesCount(db) == Cardinality(ValidKeys(db.service))

getMoreServiceMain(db, firstUpdate, disableBusiness) ==
  {k \in DOMAIN db.service :
     /\ disableBusiness => db.service[k].namespace = SystemNamespace
     /\ IF firstUpdate THEN db.service[k].valid ELSE db.service[k].fresh}

GetMoreServices(db, firstUpdate, disableBusiness) ==
  [k \in getMoreServiceMain(db, firstUpdate, disableBusiness) |->
     fetchServiceWithMetaRows(db, k)]

\* The join keeps an alias while its source has a row, deleted or not.
getServiceAliasesInfo(db, filter) ==
  {k \in ValidKeys(db.service) :
     /\ db.service[k].reference \in DOMAIN db.service
     /\ LET source == db.service[db.service[k].reference]
            alias == db.service[k]
        IN  \A key \in DOMAIN filter :
              CASE key = "service" -> source.name = filter[key].text
                [] key = "namespace" -> source.namespace = filter[key].text
                [] key = "alias" -> alias.name = filter[key].text
                [] key = "alias_namespace" -> alias.namespace = filter[key].text
                [] key = "owner" -> <<filter[key].text, alias.name, alias.namespace>>
                                      \in db.owner_service_map}

GetServiceAliases(db, filter, limit) ==
  LET out == getServiceAliasesInfo(db, filter)
  IN  [num |-> Cardinality(out), out |-> IF limit = 0 THEN {} ELSE out]

GetServicesBatch(db, names) ==
  {k \in ValidKeys(db.service) : <<db.service[k].name, db.service[k].namespace>> \in names}

-----------------------------------------------------------------------------
\* instance.  Three tables: instance, health_check and instance_metadata.

cleanInstance(db, id) ==
  [db EXCEPT !.instance = Without(@, {i \in {id} \cap DOMAIN @ : ~@[i].valid})]

CleanInstance(db, id) == Done(cleanInstance(db, id))

\* replace into instance: a row of the same id is overwritten, whatever its flag.
addMainInstance(db, ins) ==
  LET row == [service_id |-> ins.service_id, host |-> ins.host, healthy |-> ins.healthy,
              isolate |-> ins.isolate, revision |-> ins.revision,
              valid |-> TRUE, fresh |-> TRUE]
  IN  [db EXCEPT !.instance = Put(@, ins.id, row)]

batchAddMainInstances(db, inss) ==
  FoldFunction(LAMBDA ins, d : addMainInstance(d, ins), db, inss)

addInstanceCheck(db, ins) ==
  IF ins.check = NoCheck THEN db
  ELSE [db EXCEPT !.health_check = Put(@, ins.id, ins.check)]

batchAddInstanceCheck(db, inss) ==
  FoldFunction(LAMBDA ins, d : addInstanceCheck(d, ins), db, inss)

addInstanceMeta(db, id, meta) ==
  [db EXCEPT !.instance_metadata = @ \cup ({id} \X (IF meta = NoMeta THEN {} ELSE meta))]

batchDeleteInstanceMeta(db, inss) ==
  [db EXCEPT !.instance_metadata = {m \in @ : m[1] \notin {inss[i].id : i \in DOMAIN inss}}]

batchAddInstanceMeta(db, inss) ==
  FoldFunction(LAMBDA ins, d : addInstanceMeta(d, ins.id, ins.meta), db, inss)

\* A nil map leaves the stored metadata alone, an empty one deletes it.
updateInstanceMeta(db, ins) ==
  IF ins.meta = NoMeta THEN db
  ELSE addInstanceMeta([db EXCEPT !.instance_metadata = {m \in @ : m[1] # ins.id}],
                       ins.id, ins.meta)

AddInstance(db, ins) ==
  Done(updateInstanceMeta(addInstanceCheck(addMainInstance(cleanInstance(db, ins.id),
                                                           ins), ins), ins))

BatchAddInstances(db, inss) ==
  Done(batchAddInstanceMeta(batchDeleteInstanceMeta(batchAddInstanceCheck(
         batchAddMainInstances(db, inss), inss), inss), inss))

updateInstanceMain(db, ins) ==
  [db EXCEPT !.instance = Assign(@, {ins.id},
     Touched([healthy |-> ins.healthy, isolate |-> ins.isolate,
              revision |-> ins.revision]))]

deleteInstanceCheck(db, id) == [db EXCEPT !.health_check = Without(@, {id})]

updateInstanceCheck(db, ins) ==
  IF ins.check = NoCheck THEN deleteInstanceCheck(db, ins.id)
  ELSE [db EXCEPT !.health_check = Put(@, ins.id, ins.check)]

UpdateInstance(db, ins) ==
  Done(updateInstanceMeta(updateInstanceCheck(updateInstanceMain(db, ins), ins), ins))

DeleteInstance(db, id) ==
  IF id = "" THEN Fail(db, EmptyParams)
  ELSE Done([db EXCEPT !.instance = Assign(@, {id}, Removed)])

BatchDeleteInstances(db, ids) == Done([db EXCEPT !.instance = Assign(@, ids, Removed)])

SetInstanceHealthStatus(db, id, healthy, revision) ==
  Done([db EXCEPT !.instance =
          Assign(@, {id}, Touched([healthy |-> healthy, revision |-> revision]))])

BatchSetInstanceHealthStatus(db, ids, healthy, revision) ==
  Done([db EXCEPT !.instance =
          Assign(@, ids, Touched([healthy |-> healthy, revision |-> revision]))])

BatchSetInstanceIsolate(db, ids, isolate, revision) ==
  Done([db EXCEPT !.instance =
          Assign(@, ids, Touched([isolate |-> isolate, revision |-> revision]))])

\* requests: a sequence of [id, meta, revision]; instance_metadata is written
\* whether or not the instance exists, and the last revision of an id stays.
BatchAppendInstanceMetadata(db, requests) ==
  LET append(d, r) ==
        [d EXCEPT !.instance_metadata = @ \cup ({r.id} \X r.meta),
                  !.instance = Assign(@, {r.id}, Touched([revision |-> r.revision]))]
  IN  Done(FoldLeft(append, db, requests))

BatchRemoveInstanceMetadata(db, requests) ==
  LET remove(d, r) ==
        [d EXCEPT !.instance_metadata = @ \ ({r.id} \X r.meta),
                  !.instance = Assign(@, {r.id}, Touched([revision |-> r.revision]))]
  IN  Done(FoldLeft(remove, db, requests))

GetInstanceMeta(db, id) == {m[2] : m \in {x \in db.instance_metadata : x[1] = id}}

\* An instance as callers see it: the row joined with the other two tables.
fetchInstanceWithMetaRows(db, id) ==
  [id |-> id, meta |-> GetInstanceMeta(db, id),
   check |-> IF id \in DOMAIN db.health_check THEN db.health_check[id] ELSE NoCheck]
    @@ db.instance[id]

getInstance(db, id) ==
  IF id \in DOMAIN db.instance THEN fetchInstanceWithMetaRows(db, id) ELSE NoRow

GetInstance(db, id) ==
  LET ins == getInstance(db, id)
  IN  IF ins # NoRow /\ ~ins.valid THEN NoRow ELSE ins

\* Only the instances that exist are keys of the answer.
BatchGetInstanceIsolate(db, ids) ==
  [i \in DOMAIN ids \cap ValidKeys(db.instance) |-> db.instance[i].isolate]

GetInstancesBrief(db, ids) ==
  [err |-> OK, ids |-> {i \in ids \cap ValidKeys(db.instance) :
                          db.instance[i].service_id \in ValidKeys(db.service)}]

GetInstancesCount(db) == Cardinality(ValidKeys(db.instance))

GetInstancesMainByService(db, service_id, host) ==
  {i \in ValidKeys(db.instance) :
     db.instance[i].service_id = service_id /\ db.instance[i].host = host}

\* The columns of the service are joined in; its flag is not looked at.
genWhereSQLAndArgs(db, i, filter, metaFilter) ==
  LET row == db.instance[i]
  IN  /\ \A key \in DOMAIN filter :
           CASE key = "id" -> MatchName(filter[key], i)
             [] key \in {"name", "namespace"} ->
                  MatchName(filter[key], db.service[row.service_id][key])
             [] OTHER -> row[key] = filter[key].text
      /\ \A key \in metaFilter : <<i, key>> \in db.instance_metadata

GetExpandInstances(db, filter, metaFilter, limit) ==
  LET joined == {i \in ValidKeys(db.instance) :
                   /\ db.instance[i].service_id \in DOMAIN db.service
                   /\ genWhereSQLAndArgs(db, i, filter, metaFilter)}
  IN  [num |-> Cardinality(joined), out |-> IF limit = 0 THEN {} ELSE joined]

getMoreInstancesMain(db, firstUpdate, services) ==
  {i \in DOMAIN db.instance :
     /\ services # {} => db.instance[i].service_id \in services
     /\ IF firstUpdate THEN db.instance[i].valid ELSE db.instance[i].fresh}

GetMoreInstances(db, firstUpdate, services) ==
  [i \in getMoreInstancesMain(db, firstUpdate, services) |->
     fetchInstanceWithMetaRows(db, i)]

-----------------------------------------------------------------------------
\* admin.go; old: the rows modified longer ago than the timeout.  A limit takes
\* some of the rows.

Limited(rows, limit) ==
  CHOOSE some \in SUBSET rows :
    Cardinality(some) = IF Cardinality(rows) < limit THEN Cardinality(rows) ELSE limit

BatchCleanDeletedInstances(db, old, batchSize) ==
  LET rows == Limited({i \in old : ~db.instance[i].valid}, batchSize)
  IN  [count |-> Cardinality(rows), db |-> [db EXCEPT !.instance = Without(@, rows)]]

GetUnHealthyInstances(db, old, limit) ==
  Limited({i \in old \cap ValidKeys(db.instance) :
             i \in DOMAIN db.health_check /\ ~db.instance[i].healthy}, limit)

BatchCleanDeletedClients(db, old, batchSize) ==
  LET rows == Limited({i \in old : ~db.client[i].valid}, batchSize)
  IN  [count |-> Cardinality(rows), db |-> [db EXCEPT !.client = Without(@, rows)]]

-----------------------------------------------------------------------------
\* transaction: a handle the handlers keep open over several statements.  The
\* statements work on its view; Commit publishes the view, unless a statement
\* failed.

Begin(db) == [view |-> db, failed |-> FALSE, commit |-> FALSE]

finish(tx) == ~(tx.failed \/ tx.commit)

\* The database Commit leaves.
Commit(db, tx) == IF tx.commit \/ tx.failed THEN db ELSE tx.view

LockNamespace(tx, name) == GetNamespace(tx.view, name)

\* Marks the namespace and commits: the database it leaves.
TxDeleteNamespace(db, tx, name) ==
  IF ~finish(tx) THEN db
  ELSE Commit(db, [tx EXCEPT !.view.namespace = Assign(@, {name}, Removed)])

LockService(tx, name, namespace) == GetService(tx.view, name, namespace)

=============================================================================
