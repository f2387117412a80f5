--------------------------- MODULE BatchHandlers ---------------------------
(***************************************************************************)
(* What the store workers of the batch controllers do with a batch         *)
(* (service/batch/instance.go, client.go), and the maintenance that        *)
(* removes what nobody uses (admin/maintain.go, admin/job/*.go).  A batch  *)
(* is a sequence of futures:                                               *)
(*   register      [service_id, req, expired]                              *)
(*   heartbeat     [id, healthy]                                           *)
(*   deregister    [id]                                                    *)
(* and a handler returns the database and the code of each future.  The    *)
(* queues, the workers and the expiry of futures are module                *)
(* BatchController.  Every UUID of one batch is the same.                  *)
(***************************************************************************)
EXTENDS DiscoverHandlers

CONSTANT JobBatch           \* the rows a job asks for at once: 100 in the code

Replies(db, codes) == [db |-> db, codes |-> codes]

\* The futures that come first for their id, of those in the set of positions.
First(ids, candidates) ==
  {i \in candidates : \A j \in candidates : ids[j] = ids[i] => i <= j}

-----------------------------------------------------------------------------
\* service/batch/instance.go

\* The isolation of the request, or else the stored one.
batchRestoreInstanceIsolate(db, reqs) ==
  LET stored == storage!BatchGetInstanceIsolate(db, [id \in DOMAIN reqs |-> FALSE])
  IN  [id \in DOMAIN reqs |->
         IF reqs[id].isolate = NoRow /\ id \in DOMAIN stored THEN stored[id] ELSE reqs[id].isolate]

\* A future that has expired is dropped, unless its id has been seen already:
\* then it is told so.
RegisterReplies(ids, remains, written) ==
  Replies(written.db, [i \in DOMAIN ids |->
    CASE i \in remains -> StoreCode2APICode(written.err)
      [] \E j \in remains : j < i /\ ids[j] = ids[i] -> "SameInstanceRequest"
      [] OTHER -> "InstanceRegisTimeout"])

registerHandler(db, futures) ==
  LET ids == [i \in DOMAIN futures |-> Naming!InstanceID(futures[i].req)]
      remains == First(ids, {i \in DOMAIN futures : ~futures[i].expired})
      at == [id \in {ids[i] : i \in remains} |-> CHOOSE i \in remains : ids[i] = id]
      isolate == batchRestoreInstanceIsolate(db, [id \in DOMAIN at |-> futures[at[id]].req])
  IN  RegisterReplies(ids, remains, IF remains = {} THEN Done(db)
        ELSE storage!BatchAddInstances(db, [id \in DOMAIN at |->
               Naming!CreateInstanceModel(futures[at[id]].service_id, futures[at[id]].req,
                                          isolate[id])]))

\* Of several futures for an instance the last one counts.
LastStatus(futures) ==
  [id \in {futures[i].id : i \in DOMAIN futures} |->
     futures[CHOOSE i \in DOMAIN futures :
               /\ futures[i].id = id
               /\ \A j \in DOMAIN futures : futures[j].id = id => j <= i].healthy]

MetadataInstanceLastHeartbeatTime == "internal-lastheartbeat"

\* The statuses come in either order.  The requests about the metadata pile up,
\* so the second status repeats those of the first.
heartbeatHandler(db, futures, order, uuid) ==
  LET status == LastStatus(futures)
      ids(healthy) == {id \in DOMAIN status : status[id] = healthy}
      meta(set) == SetToSeq({[id |-> id, meta |-> {MetadataInstanceLastHeartbeatTime},
                              revision |-> uuid] : id \in set})
      write(acc, healthy) ==
        LET down == IF healthy THEN acc.down ELSE ids(FALSE)
            up == IF healthy THEN ids(TRUE) ELSE acc.up
            set == storage!BatchSetInstanceHealthStatus(acc.db, ids(healthy), healthy, uuid).db
            appended == storage!BatchAppendInstanceMetadata(set, meta(down)).db
        IN  IF ids(healthy) = {} THEN acc
            ELSE [db |-> storage!BatchRemoveInstanceMetadata(appended, meta(up)).db,
                  down |-> down, up |-> up]
      after == FoldLeft(write, [db |-> db, down |-> {}, up |-> {}], order)
  IN  Replies(after.db, [i \in DOMAIN futures |-> Success])

\* Without a controller the status is written at once, and no metadata
\* (service/healthcheck/check.go).
serialSetInsDbStatus(db, id, healthStatus, uuid) ==
  StoreReply(storage!SetInstanceHealthStatus(db, id, healthStatus, uuid))

\* An instance that is gone is told to be missing and left out.
DeregisterReplies(ids, found, remains, written) ==
  Replies(written.db, [i \in DOMAIN ids |->
    CASE i \notin First(ids, DOMAIN ids) -> "SameInstanceRequest"
      [] found.err # OK -> StoreLayerException
      [] i \notin remains -> NotFoundResource
      [] written.err # OK -> StoreLayerException
      [] OTHER -> Success])

DeregisterFound(db, ids, found) ==
  LET remains == {i \in First(ids, DOMAIN ids) : ids[i] \in found.ids}
  IN  DeregisterReplies(ids, found, remains, IF remains = {} THEN Done(db)
        ELSE storage!BatchDeleteInstances(db, {ids[i] : i \in remains}))

deregisterHandler(db, futures) ==
  LET ids == [i \in DOMAIN futures |-> futures[i].id]
  IN  DeregisterFound(db, ids, storage!GetInstancesBrief(db, Range(ids)))

-----------------------------------------------------------------------------
\* service/instance.go with the controllers open: the request waits for its future.

FirstReply(out) == Reply(out.db, out.codes[1])

registerInstance(s, req) ==
  CASE s.code # Success -> Reply(s.db, s.code)
    [] s.id = "" -> Reply(s.db, "BadRequest")
    [] OTHER -> FirstReply(registerHandler(s.db,
                  <<[service_id |-> s.id, req |-> req, expired |-> FALSE]>>))

asyncCreateInstance(srv, req) ==
  LET check == Naming!checkCreateInstance(req)
  IN  IF check # Success THEN Reply(srv.db, check)
      ELSE registerInstance(
             Naming!createServiceIfAbsent(srv, req.namespace, req.service, req.uuid), req)

\* An instance that is missing has been deleted before.
NotFoundIsSuccess(reply) ==
  IF reply.code = NotFoundResource THEN Reply(reply.db, Success) ELSE reply

asyncDeleteInstance(srv, req) ==
  LET check == Naming!checkReviseInstance(req)
  IN  IF check # Success THEN Reply(srv.db, check)
      ELSE NotFoundIsSuccess(FirstReply(
             deregisterHandler(srv.db, <<[id |-> Naming!InstanceID(req)]>>)))

-----------------------------------------------------------------------------
\* admin/maintain.go

CleanInstance(srv, req) ==
  LET check == IF req.id # NoRow THEN FirstFailure(<< <<req.id # "", "InvalidInstanceID">> >>)
               ELSE Naming!CheckInstanceTetrad(req)
  IN  IF check # Success THEN Reply(srv.db, check)
      ELSE StoreReply(storage!CleanInstance(srv.db, Naming!InstanceID(req)))

-----------------------------------------------------------------------------
\* admin/job: what the leader of a job executes.  old: the rows modified longer
\* ago than the timeout of the job.

\* The job asks for batches until one is not full.
cleanDeletedInstancesJob(db, old) ==
  LET batch(acc, n) ==
        IF acc.count < JobBatch THEN acc
        ELSE storage!BatchCleanDeletedInstances(acc.db, old \cap DOMAIN acc.db.instance, JobBatch)
  IN  FoldLeft(batch, [count |-> JobBatch, db |-> db], [n \in 1 .. Cardinality(old) + 1 |-> n]).db

cleanDeletedClientsJob(db, old) ==
  LET batch(acc, n) ==
        IF acc.count < JobBatch THEN acc
        ELSE storage!BatchCleanDeletedClients(acc.db, old \cap DOMAIN acc.db.client, JobBatch)
  IN  FoldLeft(batch, [count |-> JobBatch, db |-> db], [n \in 1 .. Cardinality(old) + 1 |-> n]).db

\* The job deletes batches until there is none or a deletion fails.
FirstError(code, reply) == Reply(reply.db, IF code = Success THEN reply.code ELSE code)

deleteUnHealthyInstanceJob(srv, old) ==
  LET one(acc, id) ==
        FirstError(acc.code, asyncDeleteInstance([srv EXCEPT !.db = acc.db], [id |-> id]))
      batch(acc, n) ==
        LET ids == storage!GetUnHealthyInstances(acc.db, old, JobBatch)
        IN  IF acc.code # Success \/ ids = {} THEN acc
            ELSE FoldLeft(one, acc, SetToSeq(ids))
  IN  FoldLeft(batch, Reply(srv.db, Success), [n \in 1 .. Cardinality(DOMAIN srv.db.instance) |-> n])

getAllEmptyAutoCreatedServices(srv) ==
  {id \in DOMAIN srv.cache.service.ids :
     /\ srv.cache.service.ids[id].reference = ""
     /\ \A i \in DOMAIN srv.cache.instance : srv.cache.instance[i].service_id # id}

\* emptyServices: the services the last execution found empty; those of it that
\* have been for longer than the timeout (late) are deleted.
filterToDeletedServices(empty, emptyServices, late) ==
  [toDelete |-> empty \cap emptyServices \cap late,
   emptyServices |-> empty \ (emptyServices \cap late)]

deleteEmptyAutoCreatedServices(srv, emptyServices, late) ==
  LET found == filterToDeletedServices(getAllEmptyAutoCreatedServices(srv), emptyServices, late)
      req(id) == LET s == srv.cache.service.ids[id]
                 IN  [name |-> s.name, namespace |-> s.namespace, business |-> NoRow,
                      owner |-> NoRow, meta |-> NoMeta]
      reqs == [i \in DOMAIN SetToSeq(found.toDelete) |-> req(SetToSeq(found.toDelete)[i])]
  IN  [db |-> IF reqs = << >> THEN srv.db ELSE Each(Naming!DeleteService, srv, reqs).db,
       emptyServices |-> found.emptyServices]
=============================================================================
