--------------------------- MODULE NamingHandlers ---------------------------
(***************************************************************************)
(* The handlers of services, aliases and instances (service/service.go,    *)
(* service_alias.go, instance.go).  A service request is a record [name,   *)
(* namespace, business, owner, meta, uuid] where business stands for the   *)
(* columns that are copied without being looked at; an alias request is    *)
(* [service, namespace, alias, alias_namespace, type, owner, uuid]; an     *)
(* instance request is [id, service, namespace, host, healthy, isolate, check, *)
(* enable, meta, uuid].  An owner is the set of the names its string lists. *)
(* The batch controller is closed: instances are written one by one (the   *)
(* open one is module BatchController), and no rate limit is configured.   *)
(***************************************************************************)
EXTENDS ServerCommon

CONSTANT AutoCreate

Namespace == INSTANCE NamespaceHandlers

caches == INSTANCE NamingCaches

Or(value, default) == IF value = NoRow THEN default ELSE value

IsAlias(service) == service.reference # ""

-----------------------------------------------------------------------------
\* service/service.go

CheckDbServiceFieldLen(req) ==
  FirstFailure(<< <<CheckDbStrFieldLen(req.name), "InvalidServiceName">>,
                  <<CheckDbStrFieldLen(req.namespace), "InvalidNamespaceName">>,
                  <<CheckDbStrFieldLen(req.meta), "InvalidMetadata">>,
                  <<CheckDbStrFieldLen(req.business), "InvalidServiceBusiness">>,
                  <<CheckDbStrFieldLen(req.owner), "InvalidServiceOwners">> >>)

checkCreateService(req) ==
  FirstFailure(<< <<checkResourceName(req.name), "InvalidServiceName">>,
                  <<checkResourceName(req.namespace), "InvalidNamespaceName">>,
                  <<CheckDbServiceFieldLen(req) = Success, CheckDbServiceFieldLen(req)>> >>)

checkReviseService(req) ==
  FirstFailure(<< <<checkResourceName(req.name), "InvalidServiceName">>,
                  <<checkResourceName(req.namespace), "InvalidNamespaceName">>,
                  <<CheckDbServiceFieldLen(req) = Success, CheckDbServiceFieldLen(req)>> >>)

createNamespaceIfAbsent(srv, req) ==
  Namespace!CreateNamespaceIfAbsent(srv,
    [name |-> req.namespace, comment |-> NoRow, owner |-> NoRow, uuid |-> req.uuid])

createServiceModel(req) ==
  [id |-> req.uuid, name |-> req.name, namespace |-> req.namespace,
   business |-> Or(req.business, ""), owner |-> Or(req.owner, {}), meta |-> req.meta,
   reference |-> "", token |-> req.uuid, revision |-> req.uuid]

\* The reply of CreateService carries the id of the service; that of one the
\* store says to exist is looked up.
AddedService(req, result) ==
  LET existed == StoreCode2APICode(result.err) = ExistedResource
      other == storage!GetService(result.db, req.name, req.namespace)
  IN  CASE result.err = OK -> [id |-> req.uuid] @@ Reply(result.db, Success)
        [] existed /\ Failed(other) -> Reply(result.db, StoreLayerException)
        [] existed /\ other # NoRow -> [id |-> other.id] @@ Reply(result.db, ExistedResource)
        [] OTHER -> [id |-> ""] @@ storeError2Response(result)

AddNewService(db, req) ==
  LET old == storage!GetService(db, req.name, req.namespace)
  IN  CASE storage!GetNamespace(db, req.namespace) = NoRow -> Reply(db, "NotFoundNamespace")
        [] Failed(old) -> Reply(db, StoreLayerException)
        [] old # NoRow -> [id |-> old.id] @@ Reply(db, ExistedResource)
        [] OTHER -> AddedService(req, storage!AddService(db, createServiceModel(req)))

\* The namespace is created first, in a write of its own.
CreateService(srv, req) ==
  LET check == checkCreateService(req)
  IN  IF check # Success THEN Reply(srv.db, check)
      ELSE Then(createNamespaceIfAbsent(srv, req), LAMBDA db : AddNewService(db, req))

CreateServices(srv, reqs) == Batch(CreateService, srv, reqs)

getInstancesCountWithService(db, s) ==
  storage!GetExpandInstances(db, [name |-> [text |-> s.name, wild |-> FALSE],
                                  namespace |-> [text |-> s.namespace, wild |-> FALSE]], {}, 1).num

getServiceAliasCountWithService(db, s) ==
  storage!GetServiceAliases(db, [service |-> [text |-> s.name, wild |-> FALSE],
                                 namespace |-> [text |-> s.namespace, wild |-> FALSE]], 1).num

getRoutingCountWithService(db, id) ==
  IF storage!GetRoutingConfigWithID(db, id) = NoRow THEN 0 ELSE 1

\* Mutant: the aliases are not asked for.
isServiceExistedButAlias(db, s) ==
  IF IsAlias(s) THEN Success
  ELSE FirstFailure(
    << <<getInstancesCountWithService(db, s) = 0, "ServiceExistedInstances">>,
       <<getRoutingCountWithService(db, s.id) = 0, "ServiceExistedRoutings">> >>)

\* Mutant: the instances are not asked for.
isServiceExistedButInstance(db, s) ==
  IF IsAlias(s) THEN Success
  ELSE FirstFailure(
    << <<getServiceAliasCountWithService(db, s) = 0, "ServiceExistedAlias">>,
       <<getRoutingCountWithService(db, s.id) = 0, "ServiceExistedRoutings">> >>)

isServiceExistedResource(db, s) ==
  IF IsAlias(s) THEN Success
  ELSE FirstFailure(
    << <<getInstancesCountWithService(db, s) = 0, "ServiceExistedInstances">>,
       <<getServiceAliasCountWithService(db, s) = 0, "ServiceExistedAlias">>,
       <<getRoutingCountWithService(db, s.id) = 0, "ServiceExistedRoutings">> >>)

DeleteService(srv, req) ==
  LET check == checkReviseService(req)
      s == storage!GetService(srv.db, req.name, req.namespace)
  IN  CASE check # Success -> Reply(srv.db, check)
        [] Failed(s) -> Reply(srv.db, StoreLayerException)
        [] s = NoRow -> Reply(srv.db, Success)
        [] isServiceExistedResource(srv.db, s) # Success
             -> Reply(srv.db, isServiceExistedResource(srv.db, s))
        [] OTHER -> storeError2Response(
                      storage!DeleteService(srv.db, s.id, req.name, req.namespace))

DeleteServices(srv, reqs) == Batch(DeleteService, srv, reqs)

FoundService(s) ==
  [service |-> s, code |-> IF s = NoRow THEN NotFoundResource
                           ELSE IF Failed(s) THEN StoreLayerException ELSE Success]

\* The service of the request, or the one the alias of that name points at.
checkServiceAuthority(srv, req) ==
  LET named == storage!GetService(srv.db, req.name, req.namespace)
  IN  FoundService(IF named # NoRow /\ ~Failed(named) /\ IsAlias(named)
                   THEN storage!GetServiceByID(srv.db, named.reference) ELSE named)

serviceMetaNeedUpdate(req, s) == req.meta # NoMeta /\ req.meta # s.meta

\* The metadata are nil in the model handed to the store unless they change.
updateServiceAttribute(req, s) ==
  LET meta == serviceMetaNeedUpdate(req, s)
      business == req.business # NoRow /\ req.business # s.business
      owner == req.owner # NoRow /\ req.owner # s.owner
  IN  [needUpdate |-> meta \/ business \/ owner,
       needUpdateOwner |-> owner,
       service |-> [s EXCEPT !.meta = IF meta THEN req.meta ELSE NoMeta,
                             !.business = IF business THEN req.business ELSE @,
                             !.owner = IF owner THEN req.owner ELSE @,
                             !.revision = IF meta THEN req.uuid ELSE @]]

ReviseService(db, req, old) ==
  LET new == updateServiceAttribute(req, old.service)
  IN  CASE old.code # Success -> Reply(db, old.code)
        [] IsAlias(old.service) -> Reply(db, "NotAllowAliasUpdate")
        [] ~new.needUpdate -> Reply(db, NoNeedUpdate)
        [] OTHER -> storeError2Response(storage!UpdateService(db, new.service, new.needUpdateOwner))

UpdateService(srv, req) ==
  LET check == checkReviseService(req)
  IN  IF check # Success THEN Reply(srv.db, check)
      ELSE ReviseService(srv.db, req, checkServiceAuthority(srv, req))

UpdateServices(srv, reqs) == Batch(UpdateService, srv, reqs)

RenewToken(db, req, old) ==
  CASE old.code # Success -> Reply(db, old.code)
    [] IsAlias(old.service) -> Reply(db, "NotAllowAliasUpdate")
    [] OTHER -> storeError2Response(
                  storage!UpdateServiceToken(db, old.service.id, req.uuid, req.uuid))

UpdateServiceToken(srv, req) ==
  LET check == checkReviseService(req)
  IN  IF check # Success THEN Reply(srv.db, check)
      ELSE RenewToken(srv.db, req, checkServiceAuthority(srv, req))

GetServiceToken(srv, req) ==
  LET old == checkServiceAuthority(srv, req)
  IN  IF checkReviseService(req) # Success \/ old.code # Success THEN "" ELSE old.service.token

GetServicesCount(srv) == storage!GetServicesCount(srv.db)

\* names: the set of the pairs <<name, namespace>> of the request.
GetServiceOwner(srv, names) == storage!GetServicesBatch(srv.db, names)

-----------------------------------------------------------------------------
\* service/service_alias.go

preCheckAlias(req) ==
  FirstFailure(<< <<checkResourceName(req.service), "InvalidServiceName">>,
                  <<checkResourceName(req.namespace), "InvalidNamespaceName">>,
                  <<checkResourceName(req.alias_namespace), "InvalidNamespaceWithAlias">>,
                  <<req.type = "DEFAULT" => checkResourceName(req.alias),
                    "InvalidServiceAlias">> >>)

CheckDbServiceAliasFieldLen(req) ==
  FirstFailure(<< <<CheckDbStrFieldLen(req.service), "InvalidServiceName">>,
                  <<CheckDbStrFieldLen(req.namespace), "InvalidNamespaceName">>,
                  <<CheckDbStrFieldLen(req.alias), "InvalidServiceAlias">>,
                  <<CheckDbStrFieldLen(req.alias_namespace), "InvalidNamespaceWithAlias">>,
                  <<CheckDbStrFieldLen(req.owner), "InvalidServiceAliasOwners">> >>)

checkCreateServiceAliasReq(req) ==
  FirstFailure(<< <<preCheckAlias(req) = Success, preCheckAlias(req)>>,
                  <<CheckDbServiceAliasFieldLen(req) = Success, CheckDbServiceAliasFieldLen(req)>> >>)

checkDeleteServiceAliasReq(req) ==
  FirstFailure(<< <<checkResourceName(req.alias), "InvalidServiceAlias">>,
                  <<checkResourceName(req.alias_namespace), "InvalidNamespaceWithAlias">>,
                  <<CheckDbServiceAliasFieldLen(req) = Success, CheckDbServiceAliasFieldLen(req)>> >>)

checkReviseServiceAliasReq(req) ==
  FirstFailure(<< <<checkDeleteServiceAliasReq(req) = Success, checkDeleteServiceAliasReq(req)>>,
                  <<checkResourceName(req.service), "InvalidServiceName">>,
                  <<checkResourceName(req.namespace), "InvalidNamespaceName">> >>)

checkPointServiceAlias(db, req) ==
  LET s == storage!LockService(db, req.service, req.namespace)
  IN  [service |-> s,
       code |-> IF s = NoRow THEN NotFoundService
                ELSE IF IsAlias(s) THEN "NotAllowCreateAliasForAlias" ELSE Success]

Namespace2SidLayoutID ==
  [n \in {"Production", "Development", "Pre-release", "Test", "Polaris", "default"} |->
     CASE n = "Production" -> 1 [] n = "Development" -> 2 [] n = "Pre-release" -> 3
       [] n = "Test" -> 4 [] n = "Polaris" -> 5 [] n = "default" -> 6]

\* An alias of type CL5SID is named after a fresh sid, drawn in a write of its own.
createServiceAliasModel(db, req, svcId) ==
  LET sid == storage!GenNextL5Sid(db, Namespace2SidLayoutID[req.alias_namespace])
      named(name) == [id |-> req.uuid, name |-> name, namespace |-> req.alias_namespace,
                      reference |-> svcId, token |-> req.uuid, revision |-> req.uuid,
                      owner |-> Or(req.owner, {}), business |-> "", meta |-> NoMeta]
  IN  CASE req.type = "DEFAULT" -> [alias |-> named(req.alias)] @@ Reply(db, Success)
        [] req.alias_namespace \notin DOMAIN Namespace2SidLayoutID
             -> [alias |-> NoRow] @@ Reply(db, "InvalidNamespaceWithAlias")
        [] OTHER -> [alias |-> named(ToString(sid.sid[1]) \o ":" \o ToString(sid.sid[2]))]
                      @@ Reply(sid.db, Success)

\* The namespace of the alias is not looked up; the alias is written outside
\* the transaction that locks the source.
AddAlias(input) ==
  IF input.code # Success THEN Reply(input.db, input.code)
  ELSE StoreReply(storage!AddService(input.db, input.alias))

CreateServiceAlias(srv, req) ==
  LET check == checkCreateServiceAliasReq(req)
      source == checkPointServiceAlias(srv.db, req)
      old == IF req.alias = "" THEN NoRow
             ELSE storage!GetService(srv.db, req.alias, req.alias_namespace)
  IN  CASE check # Success -> Reply(srv.db, check)
        [] source.code # Success -> Reply(srv.db, source.code)
        [] Failed(old) -> Reply(srv.db, StoreLayerException)
        [] old # NoRow -> Reply(srv.db, ExistedResource)
        [] OTHER -> AddAlias(createServiceAliasModel(srv.db, req, source.service.id))

DeleteServiceAlias(srv, req) ==
  LET check == checkDeleteServiceAliasReq(req)
      alias == storage!GetService(srv.db, req.alias, req.alias_namespace)
  IN  CASE check # Success -> Reply(srv.db, check)
        [] Failed(alias) -> Reply(srv.db, StoreLayerException)
        [] alias = NoRow -> Reply(srv.db, "NotFoundServiceAlias")
        [] OTHER -> StoreReply(storage!DeleteServiceAlias(srv.db, req.alias, req.alias_namespace))

DeleteServiceAliases(srv, reqs) == Batch(DeleteServiceAlias, srv, reqs)

\* An empty owner leaves the stored one, as a nil one does.
updateServiceAliasAttribute(db, req, alias, serviceID) ==
  LET current == storage!GetServiceByID(db, alias.reference)
      moved == current.id # serviceID
      owner == Or(req.owner, {}) \notin {{}, alias.owner}
  IN  [needUpdate |-> moved \/ owner,
       needUpdateOwner |-> owner,
       alias |-> [alias EXCEPT !.reference = serviceID,
                               !.owner = IF owner THEN req.owner ELSE @,
                               !.revision = IF moved \/ owner THEN req.uuid ELSE @]]

\* Whether the service named as the alias is one is not checked; of a service
\* that is none, the current source is nil and its use panics.
UpdateServiceAlias(srv, req) ==
  LET check == checkReviseServiceAliasReq(req)
      alias == storage!GetService(srv.db, req.alias, req.alias_namespace)
      s == storage!GetService(srv.db, req.service, req.namespace)
      new == updateServiceAliasAttribute(srv.db, req, alias, s.id)
  IN  CASE check # Success -> Reply(srv.db, check)
        [] alias = NoRow -> Reply(srv.db, "NotFoundServiceAlias")
        [] s = NoRow -> Reply(srv.db, NotFoundService)
        [] IsAlias(s) -> Reply(srv.db, "NotAllowCreateAliasForAlias")
        [] ~IsAlias(alias) -> Reply(srv.db, "panic")
        [] ~new.needUpdate -> Reply(srv.db, NoNeedUpdate)
        [] OTHER -> storeError2Response(
                      storage!UpdateServiceAlias(srv.db, new.alias, new.needUpdateOwner))

GetServiceAliases(srv, filter, limit) == storage!GetServiceAliases(srv.db, filter, limit)

-----------------------------------------------------------------------------
\* service/instance.go

CheckDbInstanceFieldLen(req) ==
  FirstFailure(<< <<CheckDbStrFieldLen(req.service), "InvalidServiceName">>,
                  <<CheckDbStrFieldLen(req.namespace), "InvalidNamespaceName">>,
                  <<CheckDbStrFieldLen(req.host), "InvalidInstanceHost">>,
                  <<CheckDbStrFieldLen(req.meta), "InvalidMetadata">> >>)

checkInstanceHost(host) == host \notin {NoRow, ""}

CheckInstanceTetrad(req) ==
  FirstFailure(<< <<checkResourceName(req.service), "InvalidServiceName">>,
                  <<checkResourceName(req.namespace), "InvalidNamespaceName">>,
                  <<checkInstanceHost(req.host), "InvalidInstanceHost">> >>)

\* The digest of the address stands for itself.
InstanceID(req) ==
  IF req.id \notin {NoRow, ""} THEN req.id ELSE req.namespace \o "/" \o req.service \o "/" \o req.host

checkCreateInstance(req) ==
  FirstFailure(<< <<CheckDbInstanceFieldLen(req) = Success, CheckDbInstanceFieldLen(req)>>,
                  <<CheckInstanceTetrad(req) = Success, CheckInstanceTetrad(req)>> >>)

checkReviseInstance(req) ==
  IF req.id # NoRow THEN FirstFailure(<< <<req.id # "", "InvalidInstanceID">> >>)
  ELSE checkCreateInstance(req)

\* The id of the service, or the code that says why there is none.
loadService(srv, namespace, name) ==
  LET cached == caches!GetServiceByName(srv.cache.service, name, namespace)
      s == IF cached # NoRow THEN cached ELSE storage!GetService(srv.db, name, namespace)
  IN  CASE s = NoRow -> [id |-> "", code |-> Success]
        [] Failed(s) -> [id |-> "", code |-> StoreLayerException]
        [] IsAlias(s) -> [id |-> "", code |-> "BadRequest"]
        [] OTHER -> [id |-> s.id, code |-> Success]

\* A service that was created by another request in between will do.
CreatedOrExisted(created) ==
  IF created.code \in {Success, ExistedResource}
  THEN [db |-> created.db, id |-> created.id, code |-> Success]
  ELSE [db |-> created.db, id |-> "", code |-> created.code]

createServiceIfAbsent(srv, namespace, name, uuid) ==
  LET loaded == loadService(srv, namespace, name)
  IN  IF loaded.code # Success \/ loaded.id # "" THEN [db |-> srv.db] @@ loaded
      ELSE CreatedOrExisted(
             CreateService(srv, [name |-> name, namespace |-> namespace, business |-> NoRow,
                                 owner |-> {"Polaris"}, meta |-> NoMeta, uuid |-> uuid]))

\* A check is the TTL of its heartbeats, in seconds.
Ttl(check) == IF check = 0 \/ check > 60 THEN 5 ELSE check

\* A heartbeat check counts unless enable_health_check is false.
CreateInstanceModel(serviceID, req, isolate) ==
  [id |-> InstanceID(req), service_id |-> serviceID, host |-> req.host,
   healthy |-> Or(req.healthy, TRUE), isolate |-> Or(isolate, FALSE), revision |-> req.uuid,
   check |-> IF req.check # NoCheck /\ Or(req.enable, TRUE) THEN Ttl(req.check) ELSE NoCheck,
   meta |-> req.meta]

\* An instance registered again keeps the isolation its user set.
serialCreateInstance(db, svcId, req) ==
  LET old == storage!GetInstance(db, InstanceID(req))
      isolate == IF old # NoRow /\ req.isolate = NoRow THEN old.isolate ELSE req.isolate
  IN  storeError2Response(storage!AddInstance(db, CreateInstanceModel(svcId, req, isolate)))

createInstance(s, req) ==
  CASE s.code # Success -> Reply(s.db, s.code)
    [] s.id = "" -> Reply(s.db, "BadRequest")
    [] OTHER -> serialCreateInstance(s.db, s.id, req)

CreateInstance(srv, req) ==
  LET check == checkCreateInstance(req)
  IN  IF check # Success THEN Reply(srv.db, check)
      ELSE createInstance(createServiceIfAbsent(srv, req.namespace, req.service, req.uuid), req)

\* A missing service of a stored instance is an error, not a removal.
instanceAuth(db, serviceID) ==
  IF storage!GetServiceByID(db, serviceID) = NoRow THEN NotFoundResource ELSE Success

serialDeleteInstance(db, id) ==
  LET ins == storage!GetInstance(db, id)
  IN  CASE ins = NoRow -> Reply(db, Success)
        [] instanceAuth(db, ins.service_id) # Success
             -> Reply(db, instanceAuth(db, ins.service_id))
        [] OTHER -> storeError2Response(storage!DeleteInstance(db, id))

DeleteInstance(srv, req) ==
  LET check == checkReviseInstance(req)
  IN  IF check # Success THEN Reply(srv.db, check)
      ELSE serialDeleteInstance(srv.db, InstanceID(req))

execInstancePreStep(srv, req) ==
  LET check == checkReviseInstance(req)
      ins == storage!GetInstance(srv.db, InstanceID(req))
  IN  [instance |-> ins,
       code |-> CASE check # Success -> check
                  [] ins = NoRow -> "NotFoundInstance"
                  [] OTHER -> instanceAuth(srv.db, ins.service_id)]

instanceMetaNeedUpdate(req, ins) == req.meta # NoMeta /\ req.meta # ins.meta

\* Switching the check on makes the instance unhealthy until a heartbeat.
updateHealthCheck(req, ins) ==
  LET on == req.check # NoCheck /\ Or(req.enable, TRUE)
      off == ~Or(req.enable, TRUE)
  IN  [need |-> (on /\ ins.check # Ttl(req.check)) \/ (off /\ ins.check # NoCheck),
       instance |-> [ins EXCEPT !.check = IF on THEN Ttl(req.check) ELSE IF off THEN NoCheck ELSE @,
                                !.healthy = IF on /\ ins.check = NoCheck THEN FALSE ELSE @]]

updateInstanceAttribute(req, ins) ==
  LET meta == instanceMetaNeedUpdate(req, ins)
      healthy == Or(req.healthy, ins.healthy)
      isolate == Or(req.isolate, ins.isolate)
      checked == updateHealthCheck(req, [ins EXCEPT !.meta = IF meta THEN req.meta ELSE @,
                                                    !.healthy = healthy, !.isolate = isolate])
      need == meta \/ healthy # ins.healthy \/ isolate # ins.isolate \/ checked.need
  IN  [needUpdate |-> need,
       instance |-> [checked.instance EXCEPT !.revision = IF need THEN req.uuid ELSE @]]

UpdateInstance(srv, req) ==
  LET old == execInstancePreStep(srv, req)
      new == updateInstanceAttribute(req, old.instance)
  IN  CASE old.code # Success -> Reply(srv.db, old.code)
        [] ~new.needUpdate -> Reply(srv.db, NoNeedUpdate)
        [] OTHER -> storeError2Response(storage!UpdateInstance(srv.db, new.instance))

checkInstanceByHost(req) ==
  FirstFailure(<< <<checkResourceName(req.service), "InvalidServiceName">>,
                  <<checkResourceName(req.namespace), "InvalidNamespaceName">>,
                  <<checkInstanceHost(req.host), "InvalidInstanceHost">> >>)

\* The ids of the instances of the service on the host of the request.
getInstancesMainByService(srv, req) ==
  LET s == storage!GetSourceServiceToken(srv.db, req.service, req.namespace)
  IN  IF s = NoRow THEN [ids |-> {}, code |-> NotFoundService]
      ELSE [ids |-> storage!GetInstancesMainByService(srv.db, s.id, req.host), code |-> Success]

DeleteInstanceByHost(srv, req) ==
  LET check == checkInstanceByHost(req)
      found == getInstancesMainByService(srv, req)
  IN  CASE check # Success -> Reply(srv.db, check)
        [] found.code # Success -> Reply(srv.db, found.code)
        [] found.ids = {} -> Reply(srv.db, Success)
        [] OTHER -> storeError2Response(storage!BatchDeleteInstances(srv.db, found.ids))

UpdateInstanceIsolate(srv, req) ==
  LET check == checkInstanceByHost(req)
      found == getInstancesMainByService(srv, req)
      isolated(i) == storage!GetInstance(srv.db, i).isolate
  IN  CASE check # Success -> Reply(srv.db, check)
        [] req.isolate = NoRow -> Reply(srv.db, "InvalidInstanceIsolate")
        [] found.code # Success -> Reply(srv.db, found.code)
        [] found.ids = {} -> Reply(srv.db, "NotFoundInstance")
        [] \A i \in found.ids : isolated(i) = req.isolate -> Reply(srv.db, NoNeedUpdate)
        [] OTHER -> storeError2Response(
             storage!BatchSetInstanceIsolate(srv.db, found.ids, req.isolate, req.uuid))

InstanceFilterAttributes ==
  {"id", "service", "namespace", "host", "keys", "values", "health_status", "healthy", "isolate"}

\* A query maps attributes to [text, wild]; a filter does so for columns.
preGetInstances(query) ==
  LET given == DOMAIN query \ (IF "healthy" \in DOMAIN query THEN {"health_status"} ELSE {})
      column(key) == CASE key = "service" -> "name" [] key = "health_status" -> "healthy"
                       [] OTHER -> key
      asked == given \ {"keys", "values"}
  IN  [code |-> FirstFailure(
         << <<query # << >>, "EmptyQueryParameter">>,
            <<("keys" \in given) = ("values" \in given), "InvalidQueryInsParameter">>,
            <<given \subseteq InstanceFilterAttributes, "InvalidParameter">>,
            <<\A key \in given : query[key].text # "", "InvalidParameter">> >>),
       filter |-> [c \in {column(key) : key \in asked} |->
                     query[CHOOSE key \in asked : column(key) = c]],
       meta |-> IF {"keys", "values"} \subseteq given
                THEN {<<query["keys"].text, query["values"].text>>} ELSE {}]

GetInstances(srv, query, limit) ==
  LET pre == preGetInstances(query)
  IN  IF pre.code # Success THEN [num |-> 0, out |-> pre.code]
      ELSE storage!GetExpandInstances(srv.db, pre.filter, pre.meta, limit)

GetInstancesCount(srv) == storage!GetInstancesCount(srv.db)

\* The handlers of a batch run concurrently: order is the one in which they ran.
batchOperateInstances(handler(_, _), srv, reqs, order) ==
  LET check == checkBatch(reqs)
  IN  IF check # Success THEN Reply(srv.db, check)
      ELSE FormatBatchWriteResponse(Each(handler, srv, [i \in DOMAIN reqs |-> reqs[order[i]]]))

CreateInstances(srv, reqs, order) == batchOperateInstances(CreateInstance, srv, reqs, order)

DeleteInstances(srv, reqs, order) == batchOperateInstances(DeleteInstance, srv, reqs, order)

UpdateInstances(srv, reqs, order) == batchOperateInstances(UpdateInstance, srv, reqs, order)

DeleteInstancesByHost(srv, reqs, order) ==
  batchOperateInstances(DeleteInstanceByHost, srv, reqs, order)

UpdateInstancesIsolate(srv, reqs, order) ==
  batchOperateInstances(UpdateInstanceIsolate, srv, reqs, order)
=============================================================================
