------------------------- MODULE NamespaceHandlers -------------------------
(***************************************************************************)
(* The namespace server (namespace/namespace.go).  A request is a record   *)
(* [name, comment, owner, uuid]; comment and owner may be NoRow.           *)
(***************************************************************************)
EXTENDS ServerCommon

CONSTANT AutoCreate         \* the configuration namespace.autoCreate

allowAutoCreate == AutoCreate

checkCreateNamespace(req) ==
  FirstFailure(<< <<checkResourceName(req.name), "InvalidNamespaceName">> >>)

checkReviseNamespace(req) ==
  FirstFailure(<< <<checkResourceName(req.name), "InvalidNamespaceName">> >>)

createNamespaceModel(req) ==
  [name |-> req.name, comment |-> IF req.comment = NoRow THEN "" ELSE req.comment,
   owner |-> IF req.owner = NoRow THEN "" ELSE req.owner, token |-> req.uuid]

CreateNamespace(srv, req) ==
  LET check == checkCreateNamespace(req)
  IN  CASE check # Success -> Reply(srv.db, check)
        [] storage!GetNamespace(srv.db, req.name) # NoRow -> Reply(srv.db, ExistedResource)
        [] OTHER -> StoreReply(storage!AddNamespace(srv.db, createNamespaceModel(req)))

\* The name is looked up in the cache first, which may be behind the store.
loadNamespace(srv, name) ==
  IF name \in DOMAIN srv.cache.namespace \/ storage!GetNamespace(srv.db, name) # NoRow
  THEN name ELSE ""

\* CreateNamespace runs also when the namespace was found; that it exists is
\* no error here.
CreateNamespaceIfAbsent(srv, req) ==
  LET check == checkCreateNamespace(req)
      reply == CreateNamespace(srv, req)
  IN  CASE check # Success -> Reply(srv.db, check)
        [] loadNamespace(srv, req.name) = "" /\ ~allowAutoCreate
             -> Reply(srv.db, "NotFoundNamespace")
        [] reply.code \in {Success, ExistedResource} -> Reply(reply.db, Success)
        [] OTHER -> reply

getServicesCountWithNamespace(db, namespace) ==
  storage!GetServices(db, [namespace |-> [text |-> namespace, wild |-> FALSE]], {}, {}, 1).num

getConfigGroupCountWithNamespace(db, namespace) ==
  storage!QueryConfigFileGroups(db, namespace, "", 0, 1).num

getCircuitBreakerCountWithNamespace(db, namespace) ==
  storage!ListMasterCircuitBreakers(db, [namespace |-> namespace]).num

\* The transaction locks the row of the namespace only: services, rules and
\* config groups are counted, and may be added, outside it.
DeleteNamespace(srv, req) ==
  LET check == checkReviseNamespace(req)
      db == srv.db
  IN  CASE check # Success -> Reply(db, check)
        [] storage!LockNamespace(db, req.name) = NoRow -> Reply(db, Success)
        [] getServicesCountWithNamespace(db, req.name) # 0
             -> Reply(db, "NamespaceExistedServices")
        [] getCircuitBreakerCountWithNamespace(db, req.name) # 0
             -> Reply(db, "NamespaceExistedCircuitBreakers")
        [] getConfigGroupCountWithNamespace(db, req.name) # 0
             -> Reply(db, "NamespaceExistedConfigGroups")
        [] OTHER -> Reply(storage!TxDeleteNamespace(db, req.name), Success)

\* [ns] the namespace, or [code] the answer that says why there is none.
checkNamespaceAuthority(srv, req) ==
  LET ns == storage!GetNamespace(srv.db, req.name)
  IN  IF ns = NoRow THEN [ns |-> NoRow, code |-> NotFoundResource]
      ELSE [ns |-> ns, code |-> Success]

updateNamespaceAttribute(req, ns) ==
  [name |-> req.name, token |-> ns.token,
   comment |-> IF req.comment # NoRow THEN req.comment ELSE ns.comment,
   owner |-> IF req.owner # NoRow THEN req.owner ELSE ns.owner]

UpdateNamespace(srv, req) ==
  LET check == checkReviseNamespace(req)
      old == checkNamespaceAuthority(srv, req)
  IN  CASE check # Success -> Reply(srv.db, check)
        [] old.code # Success -> Reply(srv.db, old.code)
        [] OTHER -> StoreReply(storage!UpdateNamespace(srv.db,
                                 updateNamespaceAttribute(req, old.ns)))

UpdateNamespaceToken(srv, req) ==
  LET check == checkReviseNamespace(req)
      old == checkNamespaceAuthority(srv, req)
  IN  CASE check # Success -> Reply(srv.db, check)
        [] old.code # Success -> Reply(srv.db, old.code)
        [] OTHER -> StoreReply(storage!UpdateNamespaceToken(srv.db, req.name, req.uuid))

GetNamespaceToken(srv, req) ==
  LET old == checkNamespaceAuthority(srv, req)
  IN  IF old.code # Success THEN "" ELSE old.ns.token

GetNamespaces(srv, filter, limit) == storage!GetNamespaces(srv.db, filter, limit)

\* Collect keeps the largest code of the batch that is not a success.
Collect(batch) ==
  LET order == <<Success, "InvalidNamespaceName", ExistedResource, NotFoundResource,
                 "NamespaceExistedServices", "NamespaceExistedCircuitBreakers",
                 "NamespaceExistedConfigGroups", StoreLayerException>>
      rank == {i \in DOMAIN order : order[i] \in Range(batch.codes)}
  IN  Reply(batch.db, order[CHOOSE i \in rank : \A j \in rank : j <= i])

CreateNamespaces(srv, reqs) ==
  LET check == checkBatch(reqs)
  IN  IF check # Success THEN Reply(srv.db, check) ELSE Collect(Each(CreateNamespace, srv, reqs))

UpdateNamespaces(srv, reqs) ==
  LET check == checkBatch(reqs)
  IN  IF check # Success THEN Reply(srv.db, check) ELSE Collect(Each(UpdateNamespace, srv, reqs))

DeleteNamespaces(srv, reqs) ==
  LET check == checkBatch(reqs)
  IN  IF check # Success THEN Reply(srv.db, check) ELSE Collect(Each(DeleteNamespace, srv, reqs))
=============================================================================
