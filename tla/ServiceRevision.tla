-------------------------- MODULE ServiceRevision --------------------------
(***************************************************************************)
(* The revision of one service: the polls that bring the service and its   *)
(* instances into the two caches (src/cache/service.go, instance.go), the  *)
(* workers of CacheManager that compute the revision of the service        *)
(* (src/cache/cache.go), and the clients that discover its instances and   *)
(* learn from the revision whether they have changed                       *)
(* (ServiceInstancesCache of src/service/client_v1.go).                    *)
(*                                                                         *)
(* A version stands for the content of a row, its deletion included.       *)
(***************************************************************************)
EXTENDS Integers, Sequences

CONSTANTS Instance,  \* the instances of the service
          Worker,    \* the goroutines of revisionWorker
          Client,    \* clients that discover the service
          MaxSvc,    \* bound on the versions of the service
          MaxInst,   \* bound on the versions of an instance
          Overlap    \* polls that fetch a changed row again (DefaultTimeDiff)

ASSUME RevisionConstants ==
    /\ MaxSvc \in Nat /\ MaxInst \in Nat /\ Overlap \in Nat
    /\ Worker \cap Client = {}

VARIABLES
    row,        \* the store: versions of the service and of its instances
    gone,       \* the service has been deleted
    left,       \* the number of polls that still fetch each row
    spc, sget,  \* the update of the service cache, and the version it fetched
    ipc, iget,  \* the update of the instance cache, and the versions it fetched
    svc,        \* serviceCache.ids: the version of the service, 0 without it
    inst,       \* instanceCache.services: the version of each instance
    queue,      \* comRevisionCh: validity of the service
    revisions,  \* CacheManager.revisions: what the revision was computed from
    pc,         \* pc[r]: where the worker or the client r is
    rsvc,       \* rsvc[r]: the service that r has read
    rinst,      \* rinst[r]: the instances that r has read, NotRead for the others
    rrev,       \* rrev[r]: the revision that the client r will be given
    known       \* known[r]: the last answer with content the client r was given

Reader == Worker \cup Client
NotRead == -1
NoInst == [i \in Instance |-> 0]
Unread == [i \in Instance |-> NotRead]
Revision == [svc : 0..MaxSvc, inst : [Instance -> 0..MaxInst]]
NoRevision == [svc |-> 0, inst |-> NoInst]
NoAnswer == [rev |-> NoRevision, svc |-> 0, inst |-> NoInst]

store == <<row, gone, left>>
poll == <<spc, sget, ipc, iget>>
reader == <<pc, rsvc, rinst, rrev>>
vars == <<store, poll, svc, inst, queue, revisions, reader, known>>

TypeOK ==
    /\ row \in Revision /\ gone \in BOOLEAN
    /\ left \in [svc : 0..Overlap + 1, inst : [Instance -> 0..Overlap + 1]]
    /\ spc \in {"done", "fetch", "store", "notify"} /\ sget \in 0..MaxSvc
    /\ ipc \in {"done", "fetch", "store", "notify"}
    /\ iget \in [Instance -> {NotRead} \cup 0..MaxInst]
    /\ svc \in 0..MaxSvc /\ inst \in [Instance -> 0..MaxInst]
    /\ queue \in Seq(BOOLEAN) /\ Len(queue) <= 2
    /\ revisions \in Revision
    /\ pc \in [Reader -> {"idle", "service", "revision", "compute", "data", "delete"}]
    /\ rsvc \in [Reader -> 0..MaxSvc]
    /\ rinst \in [Reader -> [Instance -> {NotRead} \cup 0..MaxInst]]
    /\ rrev \in [Client -> Revision]
    /\ known \in [Client -> [rev : Revision, svc : 0..MaxSvc, inst : [Instance -> 0..MaxInst]]]

Init ==
    /\ row = NoRevision /\ gone = FALSE
    /\ left = [svc |-> 0, inst |-> NoInst]
    /\ spc = "done" /\ sget = 0 /\ ipc = "done" /\ iget = Unread
    /\ svc = 0 /\ inst = NoInst /\ queue = <<>> /\ revisions = NoRevision
    /\ pc = [r \in Reader |-> "idle"]
    /\ rsvc = [r \in Reader |-> 0]
    /\ rinst = [r \in Reader |-> Unread]
    /\ rrev = [r \in Client |-> NoRevision]
    /\ known = [r \in Client |-> NoAnswer]
-----------------------------------------------------------------------------
(***************************************************************************)
(* The store. A changed row is fetched by the next poll and, since the     *)
(* windows overlap, by Overlap polls after it.                             *)
(***************************************************************************)
\* A mutant: a row is fetched once.
FetchedOnce == 1

Fetches == Overlap + 1

\* CreateService and UpdateService.
ChangeService ==
    /\ ~gone /\ row.svc < MaxSvc
    /\ row' = [row EXCEPT !.svc = @ + 1]
    /\ left' = [left EXCEPT !.svc = Fetches]
    /\ UNCHANGED <<gone, poll, svc, inst, queue, revisions, reader, known>>

\* DeleteService: the identifier is not used again.
DeleteService ==
    /\ ~gone /\ row.svc > 0
    /\ gone' = TRUE
    /\ row' = [row EXCEPT !.svc = 0]
    /\ left' = [left EXCEPT !.svc = Fetches]
    /\ UNCHANGED <<poll, svc, inst, queue, revisions, reader, known>>

ChangeInstance(i) ==
    /\ row.svc > 0 /\ row.inst[i] < MaxInst
    /\ row' = [row EXCEPT !.inst[i] = @ + 1]
    /\ left' = [left EXCEPT !.inst[i] = Fetches]
    /\ UNCHANGED <<gone, poll, svc, inst, queue, revisions, reader, known>>
-----------------------------------------------------------------------------
(***************************************************************************)
(* CacheManager.update: a goroutine for each cache. A poll comes a second  *)
(* after the last one, which is long enough for the workers to be done     *)
(* with its notifications.                                                 *)
(***************************************************************************)
Poll ==
    /\ spc = "done" /\ ipc = "done"
    /\ queue = <<>> /\ \A w \in Worker : pc[w] = "idle"
    /\ left.svc > 0 \/ \E i \in Instance : left.inst[i] > 0
    /\ spc' = "fetch" /\ ipc' = "fetch"
    /\ UNCHANGED <<store, sget, iget, svc, inst, queue, revisions, reader, known>>

\* GetMoreServices; without a row setServices has nothing to do.
GetMoreServices ==
    /\ spc = "fetch"
    /\ sget' = row.svc
    /\ spc' = IF left.svc > 0 THEN "store" ELSE "done"
    /\ left' = [left EXCEPT !.svc = IF @ > 0 THEN @ - 1 ELSE 0]
    /\ UNCHANGED <<row, gone, ipc, iget, svc, inst, queue, revisions, reader, known>>

\* setServices: the service is stored or removed, then the workers are told.
SetServices ==
    /\ spc = "store"
    /\ svc' = sget
    /\ spc' = "notify"
    /\ UNCHANGED <<store, sget, ipc, iget, inst, queue, revisions, reader, known>>

NotifyService ==
    /\ spc = "notify"
    /\ queue' = Append(queue, sget > 0)
    /\ sget' = 0
    /\ spc' = "done"
    /\ UNCHANGED <<store, ipc, iget, svc, inst, revisions, reader, known>>

GetMoreInstances ==
    /\ ipc = "fetch"
    /\ iget' = [i \in Instance |-> IF left.inst[i] > 0 THEN row.inst[i] ELSE NotRead]
    /\ ipc' = IF iget' = Unread THEN "done" ELSE "store"
    /\ left' = [left EXCEPT !.inst = [i \in Instance |-> IF @[i] > 0 THEN @[i] - 1 ELSE 0]]
    /\ UNCHANGED <<row, gone, spc, sget, svc, inst, queue, revisions, reader, known>>

\* setInstances stores the instances one at a time.
SetInstance(i) ==
    /\ ipc = "store" /\ iget[i] # NotRead
    /\ inst' = [inst EXCEPT ![i] = iget[i]]
    /\ iget' = [iget EXCEPT ![i] = NotRead]
    /\ ipc' = IF iget' = Unread THEN "notify" ELSE "store"
    /\ UNCHANGED <<store, spc, sget, svc, queue, revisions, reader, known>>

\* A mutant: the workers are not told of the instances.
NotifyNobody ==
    /\ ipc = "notify"
    /\ ipc' = "done"
    /\ UNCHANGED <<store, spc, sget, iget, svc, inst, queue, revisions, reader, known>>

\* postProcessUpdatedServices, after all of them.
NotifyInstances ==
    /\ ipc = "notify"
    /\ queue' = Append(queue, TRUE)
    /\ ipc' = "done"
    /\ UNCHANGED <<store, spc, sget, iget, svc, inst, revisions, reader, known>>
-----------------------------------------------------------------------------
(***************************************************************************)
(* A reader of the maps walks over the instances one at a time (Range).    *)
(***************************************************************************)
ReadInstance(r, i) ==
    /\ pc[r] \in {"compute", "data"} /\ rinst[r][i] = NotRead
    /\ rinst' = [rinst EXCEPT ![r][i] = inst[i]]
    /\ UNCHANGED <<store, poll, svc, inst, queue, revisions, pc, rsvc, rrev, known>>

AllRead(r) == \A i \in Instance : rinst[r][i] # NotRead

\* r is done and keeps nothing of what it has read.
Done(r) ==
    /\ pc' = [pc EXCEPT ![r] = "idle"]
    /\ rsvc' = [rsvc EXCEPT ![r] = 0]
    /\ rinst' = [rinst EXCEPT ![r] = Unread]

(***************************************************************************)
(* processRevisionWorker.                                                  *)
(***************************************************************************)
TakeNotify(w) ==
    /\ pc[w] = "idle" /\ queue # <<>>
    /\ queue' = Tail(queue)
    /\ pc' = [pc EXCEPT ![w] = IF Head(queue) THEN "service" ELSE "delete"]
    /\ UNCHANGED <<store, poll, svc, inst, revisions, rsvc, rinst, rrev, known>>

DeleteRevisions(w) ==
    /\ pc[w] = "delete"
    /\ revisions' = NoRevision
    /\ Done(w)
    /\ UNCHANGED <<store, poll, svc, inst, queue, rrev, known>>

\* GetServiceByID; a service that is not cached gets no revision.
ReadService(w) ==
    /\ w \in Worker /\ pc[w] = "service"
    /\ IF svc = 0
       THEN Done(w)
       ELSE /\ pc' = [pc EXCEPT ![w] = "compute"]
            /\ rsvc' = [rsvc EXCEPT ![w] = svc]
            /\ UNCHANGED rinst
    /\ UNCHANGED <<store, poll, svc, inst, queue, revisions, rrev, known>>

\* A mutant: the worker does not wait for all instances.
SetRevisionsPartial(w) ==
    /\ pc[w] = "compute"
    /\ revisions' = [svc |-> rsvc[w], inst |-> rinst[w]]
    /\ Done(w)
    /\ UNCHANGED <<store, poll, svc, inst, queue, rrev, known>>

SetRevisions(w) ==
    /\ pc[w] = "compute" /\ AllRead(w)
    /\ revisions' = [svc |-> rsvc[w], inst |-> rinst[w]]
    /\ Done(w)
    /\ UNCHANGED <<store, poll, svc, inst, queue, rrev, known>>
-----------------------------------------------------------------------------
(***************************************************************************)
(* ServiceInstancesCache. The client sends the revision it knows.          *)
(***************************************************************************)
\* getServiceCache. Without the service the answer is NotFoundResource.
Discover(c) ==
    /\ pc[c] = "idle" /\ svc > 0
    /\ rsvc' = [rsvc EXCEPT ![c] = svc]
    /\ pc' = [pc EXCEPT ![c] = "revision"]
    /\ UNCHANGED <<store, poll, svc, inst, queue, revisions, rinst, rrev, known>>

\* A mutant: the answer uses the instances that were read for the revision.
AnswerReuses(c, rev) ==
    \/ /\ rev = known[c].rev
       /\ Done(c)
       /\ UNCHANGED rrev
    \/ /\ rev # known[c].rev
       /\ rrev' = [rrev EXCEPT ![c] = rev]
       /\ pc' = [pc EXCEPT ![c] = "data"]
       /\ UNCHANGED <<rsvc, rinst>>

\* The revision is DataNoChange for the client, or the answer needs content.
Answer(c, rev) ==
    \/ /\ rev = known[c].rev
       /\ Done(c)
       /\ UNCHANGED rrev
    \/ /\ rev # known[c].rev
       /\ rrev' = [rrev EXCEPT ![c] = rev]
       /\ pc' = [pc EXCEPT ![c] = "data"]
       /\ rinst' = [rinst EXCEPT ![c] = Unread]
       /\ UNCHANGED rsvc

GetRevision(c) ==
    /\ pc[c] = "revision"
    /\ IF revisions # NoRevision
       THEN Answer(c, revisions)
       ELSE /\ pc' = [pc EXCEPT ![c] = "compute"]
            /\ UNCHANGED <<rsvc, rinst, rrev>>
    /\ UNCHANGED <<store, poll, svc, inst, queue, revisions, known>>

\* Server.GetServiceInstanceRevision: a revision that has come up meanwhile,
\* or one from the service of now and the instances read before.
ComputeRevision(c) ==
    /\ c \in Client /\ pc[c] = "compute" /\ AllRead(c)
    /\ IF revisions = NoRevision /\ svc = 0
       THEN Done(c) /\ UNCHANGED rrev
       ELSE Answer(c, IF revisions # NoRevision THEN revisions
                      ELSE [svc |-> svc, inst |-> rinst[c]])
    /\ UNCHANGED <<store, poll, svc, inst, queue, revisions, known>>

\* The answer has the service read first and the instances read last.
Respond(c) ==
    /\ c \in Client /\ pc[c] = "data" /\ AllRead(c)
    /\ known' = [known EXCEPT ![c] = [rev |-> rrev[c], svc |-> rsvc[c], inst |-> rinst[c]]]
    /\ rrev' = [rrev EXCEPT ![c] = NoRevision]
    /\ Done(c)
    /\ UNCHANGED <<store, poll, svc, inst, queue, revisions>>
-----------------------------------------------------------------------------
Change == ChangeService \/ DeleteService \/ \E i \in Instance : ChangeInstance(i)

Update ==
    \/ Poll \/ GetMoreServices \/ SetServices \/ NotifyService
    \/ GetMoreInstances \/ NotifyInstances
    \/ \E i \in Instance : SetInstance(i)

Work(w) ==
    \/ TakeNotify(w) \/ DeleteRevisions(w) \/ ReadService(w) \/ SetRevisions(w)
    \/ \E i \in Instance : ReadInstance(w, i)

Serve(c) ==
    \/ Discover(c) \/ GetRevision(c) \/ ComputeRevision(c) \/ Respond(c)
    \/ \E i \in Instance : ReadInstance(c, i)

Next ==
    \/ Change \/ Update
    \/ \E w \in Worker : Work(w)
    \/ \E c \in Client : Serve(c)

Spec == Init /\ [][Next]_vars

\* The ticker polls, the goroutines run, and clients ask again and again.
Fairness ==
    /\ WF_vars(Update)
    /\ \A w \in Worker : WF_vars(Work(w))
    /\ \A c \in Client : WF_vars(Serve(c))

FairSpec == Spec /\ Fairness
-----------------------------------------------------------------------------
\* The instances of an answer are at least as new as its revision says:
\* a client never takes an old list for the one of a new revision, which it
\* would keep (ServiceInstancesCache reads the revision first).
InstancesNotOlder ==
    \A c \in Client : \A i \in Instance : known[c].inst[i] >= known[c].rev.inst[i]

\* The same for the service of the answer, which is read before the revision.
ServiceNotOlder == \A c \in Client : known[c].svc >= known[c].rev.svc

\* What a client knows is consistent with the revision it was told.
KnownSound == TypeOK /\ InstancesNotOlder

\* Once the changes end, the revision is the one of the cached service and
\* instances, or gone with the service, although two workers may compute it
\* at the same time and set it in either order (processRevisionWorker).
RevisionSettles ==
    <>[](revisions = IF svc = 0 THEN NoRevision ELSE [svc |-> svc, inst |-> inst])

\* Once the changes end, clients of a service that is still there know its
\* instances (ServiceInstancesCache, DataNoChange).
ClientSettles == <>[](svc > 0 => \A c \in Client : known[c].inst = inst)

\* Once the changes end, server and clients agree on the service.
Settles == RevisionSettles /\ ClientSettles
=============================================================================
