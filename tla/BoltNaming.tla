----------------------------- MODULE BoltNaming -----------------------------
(***************************************************************************)
(* The tables of the naming centre in the embedded store (store/boltdb).   *)
(* A table is a bucket of buckets, one per key.  An operation is one or    *)
(* more bolt transactions through the handler; a method that opens several *)
(* is written as their composition.  An instance carries two modification  *)
(* times: ModifyTime of the row (fresh) and Mtime inside its protobuf      *)
(* message (protoFresh), and they are not always written together.         *)
(***************************************************************************)
EXTENDS StoreTables, SequencesExt

CONSTANTS NoMeta, NoCheck, SystemNamespace, Substr

Like(p, v) == <<p.text, v>> \in Substr

EmptyNaming == [namespace |-> << >>, service |-> << >>, instance |-> << >>]

-----------------------------------------------------------------------------
\* The handler (handler.go)

\* An existing bucket of the key is dropped first; the row is marked valid.
SaveValue(t, k, value) == Put(t, k, [value EXCEPT !.valid = TRUE])

LoadValues(t, ks) == Restrict(t, ks \cap DOMAIN t)

DeleteValues(t, ks) == Without(t, ks)

CountValues(t) == Cardinality({k \in DOMAIN t : t[k].valid})

\* A key without a bucket is skipped without an error.
UpdateValue(t, k, properties) == Assign(t, {k}, properties)

-----------------------------------------------------------------------------
\* namespace

cleanNamespace(db, name) == [db EXCEPT !.namespace = DeleteValues(@, {name})]

AddNamespace(db, ns) ==
  LET row == [comment |-> ns.comment, token |-> ns.token, owner |-> ns.owner,
              valid |-> TRUE, fresh |-> TRUE]
  IN  IF ns.name = "" THEN Fail(db, EmptyParams)
      ELSE Done([cleanNamespace(db, ns.name) EXCEPT !.namespace = SaveValue(@, ns.name, row)])

UpdateNamespace(db, ns) ==
  IF ns.name = "" THEN Fail(db, EmptyParams)
  ELSE Done([db EXCEPT !.namespace =
         UpdateValue(@, ns.name, Touched([owner |-> ns.owner, comment |-> ns.comment]))])

UpdateNamespaceToken(db, name, token) ==
  IF name = "" \/ token = "" THEN Fail(db, EmptyParams)
  ELSE Done([db EXCEPT !.namespace = UpdateValue(@, name, Touched([token |-> token]))])

GetNamespace(db, name) == RowOf(LoadValues(db.namespace, {name}), name)

matchFieldValueByPatterns(v, patterns) ==
  \E p \in patterns : IF p.wild THEN Like(p, v) ELSE p.text = v

GetNamespaces(db, filter, limit) ==
  LET matched(n) == \A key \in DOMAIN filter :
        CASE key = "owner" -> matchFieldValueByPatterns(db.namespace[n].owner, filter[key])
          [] key = "name"  -> matchFieldValueByPatterns(n, filter[key])
      ret == {n \in ValidKeys(db.namespace) : matched(n)}
  IN  [num |-> Cardinality(ret), out |-> IF limit = 0 THEN {} ELSE ret]

GetMoreNamespaces(db) == Rows(db.namespace, FreshKeys(db.namespace))

\* The transaction handle of this store locks nothing (transaction.go).
loadNamespace(db, name) == RowOf(db.namespace, name)

LockNamespace(db, name) == loadNamespace(db, name)

\* The row goes at once; nothing is left for a poll to report.
TxDeleteNamespace(db, name) == [db EXCEPT !.namespace = DeleteValues(@, {name})]

-----------------------------------------------------------------------------
\* service

Named(db, name, namespace) ==
  {k \in DOMAIN db.service : db.service[k].name = name /\ db.service[k].namespace = namespace}

\* Valid or not: the row the next AddService of the name replaces.
getServiceByNameAndNsIgnoreValid(db, name, namespace) == Named(db, name, namespace)

cleanInValidService(db, name, namespace) ==
  LET old == getServiceByNameAndNsIgnoreValid(db, name, namespace)
  IN  IF Cardinality(old) > 1 THEN Fail(db, Multiple)
      ELSE Done([db EXCEPT !.service = DeleteValues(@, old)])

AddService(db, s) ==
  LET cleaned == cleanInValidService(db, s.name, s.namespace)
      row == [name |-> s.name, namespace |-> s.namespace, business |-> s.business,
              token |-> s.token, reference |-> s.reference, revision |-> s.revision,
              owner |-> s.owner, meta |-> IF s.meta = NoMeta THEN {} ELSE s.meta,
              valid |-> TRUE, fresh |-> TRUE]
  IN  IF cleaned.err # OK THEN cleaned
      ELSE IF "" \in {s.id, s.name, s.namespace} THEN Fail(cleaned.db, EmptyParams)
      ELSE Done([cleaned.db EXCEPT !.service = SaveValue(@, s.id, row)])

DeleteService(db, id, name, namespace) ==
  IF id = "" THEN Fail(db, EmptyParams)
  ELSE Done([db EXCEPT !.service = UpdateValue(@, id, Removed)])

getServiceByNameAndNsCommon(db, name, namespace) ==
  {k \in ValidKeys(db.service) :
     /\ name.text # "" => IF name.wild THEN Like(name, db.service[k].name)
                                       ELSE db.service[k].name = name.text
     /\ namespace.text # "" => IF namespace.wild THEN Like(namespace, db.service[k].namespace)
                               ELSE db.service[k].namespace = namespace.text}

getServiceByNameAndNs(db, name, namespace) ==
  LET out == getServiceByNameAndNsCommon(db, [text |-> name, wild |-> FALSE],
                                             [text |-> namespace, wild |-> FALSE])
  IN  IF out = {} THEN NoRow
      ELSE LET k == CHOOSE x \in out : TRUE IN [id |-> k] @@ db.service[k]

DeleteServiceAlias(db, name, namespace) ==
  LET svc == getServiceByNameAndNs(db, name, namespace)
  IN  IF name = "" \/ namespace = "" THEN Fail(db, EmptyParams)
      ELSE IF svc = NoRow THEN Done(db)
      ELSE Done([db EXCEPT !.service = UpdateValue(@, svc.id, Removed)])

UpdateServiceAlias(db, alias, needUpdateOwner) ==
  LET properties == [name |-> alias.name, namespace |-> alias.namespace,
                     revision |-> alias.revision, token |-> alias.token,
                     owner |-> alias.owner, reference |-> alias.reference]
  IN  IF \/ "" \in {alias.id, alias.name, alias.namespace, alias.revision, alias.reference}
         \/ needUpdateOwner /\ alias.owner = {}
      THEN Fail(db, EmptyParams)
      ELSE Done([db EXCEPT !.service = UpdateValue(@, alias.id, Touched(properties))])

\* The nil map deletes the stored metadata, as an empty one does.
UpdateService(db, s, needUpdateOwner) ==
  LET properties == [name |-> s.name, namespace |-> s.namespace, business |-> s.business,
                     meta |-> IF s.meta = NoMeta THEN {} ELSE s.meta,
                     revision |-> s.revision, token |-> s.token, owner |-> s.owner,
                     reference |-> s.reference]
  IN  IF "" \in {s.id, s.name, s.namespace, s.token, s.revision} \/ s.owner = {}
      THEN Fail(db, EmptyParams)
      ELSE Done([db EXCEPT !.service = UpdateValue(@, s.id, Touched(properties))])

UpdateServiceToken(db, id, token, revision) ==
  Done([db EXCEPT !.service =
          UpdateValue(@, id, Touched([token |-> token, revision |-> revision]))])

GetSourceServiceToken(db, name, namespace) ==
  LET s == getServiceByNameAndNs(db, name, namespace)
  IN  IF s = NoRow THEN NoRow
      ELSE [id |-> s.id, token |-> s.token, name |-> name, namespace |-> namespace]

GetService(db, name, namespace) == getServiceByNameAndNs(db, name, namespace)

\* Defined for an id that has a row; the type assertion fails for another.
GetServiceByID(db, id) ==
  IF db.service[id].valid THEN [id |-> id] @@ db.service[id] ELSE NoRow

\* The services with an instance that the hosts select.
filteredByInstance(db, hosts) ==
  {db.instance[i].service_id : i \in {x \in ValidKeys(db.instance) :
                                        db.instance[x].host \in hosts}}

\* A prefix pattern answers for the row at once: the columns after it in the
\* order namespace, name, metadata, business are not looked at.
serviceMatches(row, filter, metas) ==
  LET Has(key) == key \in DOMAIN filter
      Wild(key) == Has(key) /\ filter[key].wild
      Equal(key) == Has(key) => row[key] = filter[key].text
  IN  IF Wild("namespace") THEN Like(filter["namespace"], row.namespace)
      ELSE /\ Equal("namespace")
           /\ IF Wild("name") THEN Like(filter["name"], row.name)
              ELSE /\ Equal("name")
                   /\ metas \subseteq row.meta
                   /\ IF Wild("business") THEN Like(filter["business"], row.business)
                      ELSE Equal("business")

\* An instance filter that selects no service does not filter at all.
getServices(db, filter, metas, hosts) ==
  LET byInstance == filteredByInstance(db, hosts)
  IN  {k \in ValidKeys(db.service) :
         /\ byInstance # {} => k \in byInstance
         /\ serviceMatches(db.service[k], filter, metas)}

GetServices(db, filter, metas, hosts, limit) ==
  LET out == getServices(db, filter, metas, hosts)
  IN  [num |-> Cardinality(out), out |-> IF limit = 0 THEN {} ELSE out]

GetServicesCount(db) == CountValues(db.service)

\* firstUpdate is not looked at: the first poll reports deleted rows as well.
GetMoreServices(db, firstUpdate, disableBusiness) ==
  [k \in {x \in DOMAIN db.service :
            /\ disableBusiness => db.service[x].namespace = SystemNamespace
            /\ firstUpdate \/ db.service[x].fresh} |-> [id |-> k] @@ db.service[k]]

\* A wildcard on the alias must occur in the name and also equal it.
getServiceAliases(db, filter) ==
  {k \in ValidKeys(db.service) :
     /\ db.service[k].reference # ""
     /\ "alias" \in DOMAIN filter => db.service[k].name = filter["alias"].text
     /\ "alias_namespace" \in DOMAIN filter =>
          db.service[k].namespace = filter["alias_namespace"].text
     /\ "keys" \in DOMAIN filter =>
          db.service[k].meta # NoMeta /\ filter["keys"].text \in db.service[k].meta
     /\ "business" \in DOMAIN filter => db.service[k].business = filter["business"].text}

GetServiceAliases(db, filter, limit) ==
  LET source(k) == db.service[k].reference
      out == {k \in getServiceAliases(db, filter) :
                /\ source(k) \in ValidKeys(db.service)
                /\ "service" \in DOMAIN filter =>
                     db.service[source(k)].name = filter["service"].text
                /\ "namespace" \in DOMAIN filter =>
                     db.service[source(k)].namespace = filter["namespace"].text}
  IN  [num |-> Cardinality(out), out |-> IF limit = 0 THEN {} ELSE out]

\* Deleted rows of the name are returned as well.
GetServicesBatch(db, names) ==
  {k \in DOMAIN db.service : <<db.service[k].name, db.service[k].namespace>> \in names}

\* The service locks of a transaction read the row.
loadService(db, name, namespace) ==
  LET found == Named(db, name, namespace) \cap ValidKeys(db.service)
  IN  IF found = {} THEN NoRow
      ELSE LET k == CHOOSE x \in found : TRUE IN [id |-> k] @@ db.service[k]

LockService(db, name, namespace) == loadService(db, name, namespace)

-----------------------------------------------------------------------------
\* instance

\* A new instance carries no Mtime of its own: both times are now.
initInstance(ins) ==
  [service_id |-> ins.service_id, host |-> ins.host, healthy |-> ins.healthy,
   isolate |-> ins.isolate, revision |-> ins.revision, check |-> ins.check,
   meta |-> IF ins.meta = NoMeta THEN {} ELSE ins.meta,
   valid |-> TRUE, fresh |-> TRUE, protoFresh |-> TRUE]

AddInstance(db, ins) ==
  Done([db EXCEPT !.instance =
          SaveValue(DeleteValues(@, {ins.id}), ins.id, initInstance(ins))])

\* One transaction deletes the old rows, one more per instance saves it.
BatchAddInstances(db, inss) ==
  LET save(ins, t) == SaveValue(t, ins.id, initInstance(ins))
  IN  Done([db EXCEPT !.instance = FoldFunction(save, DeleteValues(@, DOMAIN inss), inss)])

\* The message is replaced; its Mtime is set after the properties were filled,
\* through the same pointer.
UpdateInstance(db, ins) ==
  Done([db EXCEPT !.instance = UpdateValue(@, ins.id,
     [healthy |-> ins.healthy, isolate |-> ins.isolate, revision |-> ins.revision,
      check |-> ins.check, meta |-> IF ins.meta = NoMeta THEN {} ELSE ins.meta,
      fresh |-> TRUE, protoFresh |-> TRUE])])

\* The Mtime of the message is left as it was.
DeleteInstance(db, id) == Done([db EXCEPT !.instance = UpdateValue(@, id, Removed)])

BatchDeleteInstances(db, ids) == Done([db EXCEPT !.instance = Assign(@, ids, Removed)])

CleanInstance(db, id) == Done([db EXCEPT !.instance = DeleteValues(@, {id})])

\* Mutant: the revision stays.
SetHealthKeepsRevision(db, id, healthy, revision) ==
  Done([db EXCEPT !.instance = UpdateValue(@, id,
     [healthy |-> healthy, fresh |-> TRUE, protoFresh |-> TRUE])])

SetInstanceHealthStatus(db, id, healthy, revision) ==
  Done([db EXCEPT !.instance = UpdateValue(@, id,
     [healthy |-> healthy, revision |-> revision, fresh |-> TRUE, protoFresh |-> TRUE])])

BatchSetInstanceHealthStatus(db, ids, healthy, revision) ==
  LET set(id, d) == SetInstanceHealthStatus(d, id, healthy, revision).db
  IN  Done(FoldFunction(set, db, [i \in ids |-> i]))

BatchSetInstanceIsolate(db, ids, isolate, revision) ==
  Done([db EXCEPT !.instance = Assign(@, ids,
     [isolate |-> isolate, revision |-> revision, fresh |-> TRUE, protoFresh |-> TRUE])])

\* The revision goes to a column of the row that no reader of an instance looks
\* at and the Mtime of the message stays.  An unknown instance ends the batch
\* without an error.
BatchAppendInstanceMetadata(db, requests) ==
  LET served == {j \in DOMAIN requests :
                   \A q \in 1..j : requests[q].id \in ValidKeys(db.instance)}
      added(i) == UNION {requests[j].meta : j \in {q \in served : requests[q].id = i}}
  IN  Done([db EXCEPT !.instance =
        [i \in DOMAIN @ |-> IF \E j \in served : requests[j].id = i
           THEN [@[i] EXCEPT !.meta = @ \cup added(i), !.fresh = TRUE] ELSE @[i]]])

BatchRemoveInstanceMetadata(db, requests) ==
  LET removed(i) == UNION {requests[j].meta : j \in {q \in DOMAIN requests : requests[q].id = i}}
  IN  Done([db EXCEPT !.instance =
        [i \in DOMAIN @ |-> IF @[i].valid /\ \E j \in DOMAIN requests : requests[j].id = i
           THEN [@[i] EXCEPT !.meta = @ \ removed(i), !.fresh = TRUE] ELSE @[i]]])

\* Every id asked for is a key of the answer; one that is unknown keeps the
\* value it came with.
BatchGetInstanceIsolate(db, ids) ==
  [i \in DOMAIN ids |-> IF i \in ValidKeys(db.instance) THEN db.instance[i].isolate ELSE ids[i]]

\* One instance whose service is gone fails the whole query.
GetInstancesBrief(db, ids) ==
  LET inss == ids \cap ValidKeys(db.instance)
  IN  IF \E i \in inss : db.instance[i].service_id \notin ValidKeys(db.service)
      THEN [err |-> NotFoundService, ids |-> {}] ELSE [err |-> OK, ids |-> inss]

GetInstance(db, id) ==
  IF id \in ValidKeys(db.instance)
  THEN [f \in (DOMAIN db.instance[id] \cup {"id"}) \ {"protoFresh"} |->
          IF f = "id" THEN id ELSE db.instance[id][f]]
  ELSE NoRow

GetInstancesCount(db) == CountValues(db.instance)

GetInstancesMainByService(db, service_id, host) ==
  {i \in ValidKeys(db.instance) :
     db.instance[i].service_id = service_id /\ db.instance[i].host = host}

\* A limit of 0 answers before anything is counted; only the first metadata
\* key is looked at; an instance without a service row fails the query.
GetExpandInstances(db, filter, metaFilter, limit) ==
  LET AnyName == [text |-> "", wild |-> FALSE]
      byService == {"name", "namespace"} \cap DOMAIN filter # {}
      services == getServiceByNameAndNsCommon(db,
                    IF "name" \in DOMAIN filter THEN filter["name"] ELSE AnyName,
                    IF "namespace" \in DOMAIN filter THEN filter["namespace"] ELSE AnyName)
      matches(i) ==
        LET row == db.instance[i] IN
        /\ \A key \in DOMAIN filter \ {"name", "namespace"} :
             IF key = "id" THEN (IF filter[key].wild THEN Like(filter[key], i)
                                                     ELSE i = filter[key].text)
             ELSE row[key] = filter[key].text
        /\ byService => row.service_id \in services
        /\ metaFilter \subseteq row.meta
      out == {i \in ValidKeys(db.instance) : matches(i)}
  IN  IF limit = 0 \/ (byService /\ services = {}) THEN [num |-> 0, out |-> {}]
      ELSE IF \E i \in out : db.instance[i].service_id \notin DOMAIN db.service
      THEN [num |-> 0, out |-> NotFoundService]
      ELSE [num |-> Cardinality(out), out |-> out]

\* The poll compares the Mtime of the message.
GetMoreInstances(db, firstUpdate, services) ==
  LET polled == {i \in DOMAIN db.instance :
                   /\ firstUpdate => db.instance[i].valid
                   /\ firstUpdate \/ db.instance[i].protoFresh
                   /\ services # {} => db.instance[i].service_id \in services}
  IN  [i \in polled |->
         [f \in (DOMAIN db.instance[i] \cup {"id"}) \ {"protoFresh"} |->
            IF f = "id" THEN i ELSE db.instance[i][f]]]

-----------------------------------------------------------------------------
\* admin.go; old: the rows modified longer ago than the timeout

Limited(rows, limit) ==
  CHOOSE some \in SUBSET rows :
    Cardinality(some) = IF Cardinality(rows) < limit THEN Cardinality(rows) ELSE limit

BatchCleanDeletedInstances(db, old, batchSize) ==
  LET rows == Limited({i \in old : ~db.instance[i].valid}, batchSize)
  IN  [count |-> Cardinality(rows), db |-> [db EXCEPT !.instance = DeleteValues(@, rows)]]

\* The comparison of the times is the wrong way round.
getUnHealthyInstancesBefore(db, old, limit) ==
  Limited({i \in ValidKeys(db.instance) \ old :
             db.instance[i].check # NoCheck /\ ~db.instance[i].healthy}, limit)

GetUnHealthyInstances(db, old, limit) == getUnHealthyInstancesBefore(db, old, limit)

BatchCleanDeletedClients(db, old, batchSize) ==
  LET rows == Limited({i \in old : ~db.client[i].valid}, batchSize)
  IN  [count |-> Cardinality(rows), db |-> [db EXCEPT !.client = DeleteValues(@, rows)]]
=============================================================================
