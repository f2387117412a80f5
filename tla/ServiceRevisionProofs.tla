----------------------- MODULE ServiceRevisionProofs -----------------------
(***************************************************************************)
(* Proofs about ServiceRevision, for all sets of instances, workers and    *)
(* clients and all bounds: its types, the bound on the notifications under *)
(* way included, and that the instances of an answer are never older than  *)
(* its revision says.                                                      *)
(***************************************************************************)
EXTENDS ServiceRevision, SequenceTheorems, TLAPS

(***************************************************************************)
(* The inductive invariant. A poll leaves at most one notification for     *)
(* each cache (Notified). Versions grow on their way from the store to the *)
(* cache (Polled); whatever a reader or the revision holds was in the      *)
(* cache before (Read); and a client that has its revision has read the    *)
(* instances of its answer after the revision (Answering).                 *)
(***************************************************************************)
Notified ==
    /\ Len(queue) <= 2
    /\ spc # "done" \/ ipc # "done" => Len(queue) <= 1
    /\ spc # "done" /\ ipc # "done" => Len(queue) = 0

Polled ==
    \A i \in Instance :
        /\ inst[i] <= row.inst[i]
        /\ iget[i] # NotRead => inst[i] <= iget[i] /\ iget[i] <= row.inst[i]

Read ==
    \A i \in Instance :
        /\ \A r \in Reader : rinst[r][i] <= inst[i]
        /\ revisions.inst[i] <= inst[i]
        /\ \A c \in Client : rrev[c].inst[i] <= inst[i]

Answering ==
    \A c \in Client : pc[c] = "data" =>
        \A i \in Instance : rinst[c][i] # NotRead => rinst[c][i] >= rrev[c].inst[i]

IInv == TypeOK /\ Notified /\ Polled /\ Read /\ Answering /\ InstancesNotOlder

\* The values the variables start with have their types.
LEMMA EmptyTypes ==
    /\ NoInst \in [Instance -> 0..MaxInst] /\ NoRevision \in Revision
    /\ Unread \in [Instance -> {NotRead} \cup 0..MaxInst]
    /\ NoAnswer \in [rev : Revision, svc : 0..MaxSvc, inst : [Instance -> 0..MaxInst]]
  BY RevisionConstants DEF NoInst, NoRevision, Revision, Unread, NoAnswer

\* So does the initial state, which satisfies the whole invariant.
LEMMA InitIInv == Init => IInv
<1> SUFFICES ASSUME Init PROVE IInv
  BY Zenon
<1> USE RevisionConstants, EmptyTypes
<1>1. TypeOK
  <2>1. queue \in Seq(BOOLEAN) /\ Len(queue) <= 2
    BY EmptySeq DEF Init
  <2>2. left \in [svc : 0..Overlap + 1, inst : [Instance -> 0..Overlap + 1]]
    BY DEF Init, NoInst
  <2>3. gone \in BOOLEAN /\ row \in Revision /\ revisions \in Revision
    BY Zenon DEF Init
  <2>4. /\ pc \in [Reader -> {"idle", "service", "revision", "compute", "data", "delete"}]
        /\ rsvc \in [Reader -> 0..MaxSvc]
        /\ rinst \in [Reader -> [Instance -> {NotRead} \cup 0..MaxInst]]
    BY DEF Init
  <2> QED BY <2>1, <2>2, <2>3, <2>4 DEF Init, TypeOK
<1>2. Notified
  BY DEF Init, Notified
<1>3. Polled /\ Read /\ Answering /\ InstancesNotOlder
  BY DEF Init, Polled, Read, Answering, InstancesNotOlder, NoRevision, NoInst, Unread,
         NoAnswer, NotRead, Reader
<1> QED BY Zenon, <1>1, <1>2, <1>3 DEF IInv

-----------------------------------------------------------------------------
\* A notification is appended only by an update that then is done.
LEMMA NotifyQueue ==
  ASSUME TypeOK, Notified, NEW b \in BOOLEAN, queue' = Append(queue, b),
         \/ spc # "done" /\ spc' = "done" /\ ipc' = ipc
         \/ ipc # "done" /\ ipc' = "done" /\ spc' = spc
  PROVE  queue' \in Seq(BOOLEAN) /\ Len(queue') <= 2 /\ Notified'
<1>1. queue' \in Seq(BOOLEAN) /\ Len(queue') = Len(queue) + 1 /\ Len(queue) \in Nat
  BY AppendProperties, LenProperties DEF TypeOK
<1> QED BY <1>1 DEF Notified

\* A worker takes one out.
LEMMA TakeQueue ==
  ASSUME TypeOK, Notified, queue # << >>, queue' = Tail(queue), UNCHANGED <<spc, ipc>>
  PROVE  queue' \in Seq(BOOLEAN) /\ Len(queue') <= 2 /\ Notified'
<1>1. queue' \in Seq(BOOLEAN) /\ Len(queue') = Len(queue) - 1 /\ Len(queue) \in Nat
  BY Zenon, HeadTailProperties, LenProperties DEF TypeOK
<1> QED BY <1>1 DEF TypeOK, Notified

\* The versions are numbers.
LEMMA Numbers ==
  ASSUME TypeOK
  PROVE  /\ row.svc \in 0..MaxSvc /\ row.inst \in [Instance -> 0..MaxInst]
         /\ revisions.inst \in [Instance -> 0..MaxInst]
         /\ left.svc \in 0..Overlap + 1 /\ left.inst \in [Instance -> 0..Overlap + 1]
         /\ \A c \in Client : rrev[c].inst \in [Instance -> 0..MaxInst]
         /\ \A i \in Instance :
               /\ row.inst[i] \in Int /\ inst[i] \in Int /\ iget[i] \in Int
               /\ inst[i] >= 0 /\ revisions.inst[i] \in Int
               /\ \A r \in Reader : rinst[r][i] \in Int
               /\ \A c \in Client : rrev[c].inst[i] \in Int
<1> USE RevisionConstants
<1>1. /\ row.svc \in 0..MaxSvc /\ row.inst \in [Instance -> 0..MaxInst]
      /\ revisions.inst \in [Instance -> 0..MaxInst]
      /\ \A c \in Client : rrev[c].inst \in [Instance -> 0..MaxInst]
  BY Zenon DEF TypeOK, Revision
<1>2. left.svc \in 0..Overlap + 1 /\ left.inst \in [Instance -> 0..Overlap + 1]
  BY Zenon DEF TypeOK
<1>3. \A i \in Instance : inst[i] \in 0..MaxInst /\ iget[i] \in Int
  BY DEF TypeOK, NotRead
<1>4. \A r \in Reader, i \in Instance : rinst[r][i] \in Int
  BY DEF TypeOK, NotRead
<1> QED BY <1>1, <1>2, <1>3, <1>4

\* The steps of the store change nothing but the rows, which grow.
LEMMA ChangeStep == ASSUME IInv, Change PROVE IInv'
<1> USE RevisionConstants
<1>1. CASE ChangeService \/ DeleteService
  <2>1. /\ row' \in Revision /\ row'.inst = row.inst
        /\ left' \in [svc : 0..Overlap + 1, inst : [Instance -> 0..Overlap + 1]]
    <3>1. \/ row.svc < MaxSvc /\ row' = [row EXCEPT !.svc = @ + 1]
          \/ row' = [row EXCEPT !.svc = 0]
      BY Zenon, <1>1 DEF ChangeService, DeleteService
    <3>2. row.svc \in 0..MaxSvc /\ row \in Revision
      BY Zenon, Numbers DEF IInv, TypeOK
    <3>3. left' = [left EXCEPT !.svc = Overlap + 1]
      BY Zenon, <1>1 DEF ChangeService, DeleteService, Fetches
    <3>4. left \in [svc : 0..Overlap + 1, inst : [Instance -> 0..Overlap + 1]]
      BY Zenon DEF IInv, TypeOK
    <3> QED BY <3>1, <3>2, <3>3, <3>4 DEF Revision
  <2>2. gone' \in BOOLEAN /\ UNCHANGED <<poll, svc, inst, queue, revisions, reader, known>>
    BY Zenon, <1>1 DEF ChangeService, DeleteService, IInv, TypeOK
  <2>3. TypeOK'
    BY Zenon, <2>1, <2>2 DEF IInv, TypeOK, poll, reader
  <2> QED BY Zenon, <2>1, <2>2, <2>3 DEF IInv, Notified, Polled, Read, Answering,
                                  InstancesNotOlder, poll, reader
<1>2. ASSUME NEW i \in Instance, ChangeInstance(i) PROVE IInv'
  <2>1. /\ row' \in Revision /\ \A j \in Instance : row'.inst[j] >= row.inst[j]
        /\ left' \in [svc : 0..Overlap + 1, inst : [Instance -> 0..Overlap + 1]]
    <3>1. row.inst[i] < MaxInst /\ row' = [row EXCEPT !.inst[i] = @ + 1]
      BY Zenon, <1>2 DEF ChangeInstance
    <3>2. row.inst \in [Instance -> 0..MaxInst] /\ row \in Revision
      BY Zenon, Numbers DEF IInv, TypeOK
    <3>3. left' = [left EXCEPT !.inst[i] = Overlap + 1]
      BY Zenon, <1>2 DEF ChangeInstance, Fetches
    <3>4. left \in [svc : 0..Overlap + 1, inst : [Instance -> 0..Overlap + 1]]
      BY Zenon DEF IInv, TypeOK
    <3>5. row' \in Revision /\ row'.inst = [row.inst EXCEPT ![i] = @ + 1]
      BY <3>1, <3>2 DEF Revision
    <3> QED BY <3>2, <3>3, <3>4, <3>5
  <2>2. gone' \in BOOLEAN /\ UNCHANGED <<poll, svc, inst, queue, revisions, reader, known>>
    BY Zenon, <1>2 DEF ChangeInstance, IInv, TypeOK
  <2>3. TypeOK'
    BY Zenon, <2>1, <2>2 DEF IInv, TypeOK, poll, reader
  <2>4. Polled'
    <3>1. \A j \in Instance : row'.inst[j] \in Int
      BY <2>3, Numbers DEF Revision, TypeOK
    <3> QED BY <2>1, <2>2, <3>1, Numbers DEF IInv, Polled, poll
  <2> QED BY Zenon, <2>2, <2>3, <2>4 DEF IInv, Notified, Read, Answering, InstancesNotOlder,
                                  poll, reader
<1> QED BY Zenon, <1>1, <1>2 DEF Change

\* The updates of the two caches: a version moves on from the store to the
\* update, or from there to the cache, and no reader has seen a newer one.
LEMMA UpdateStep == ASSUME IInv, Update PROVE IInv'
<1> USE RevisionConstants
<1>1. CASE Poll
  <2>1. /\ spc' = "fetch" /\ ipc' = "fetch" /\ queue = << >>
        /\ UNCHANGED <<store, sget, iget, svc, inst, queue, revisions, reader, known>>
    BY Zenon, <1>1 DEF Poll
  <2>2. TypeOK'
    BY Zenon, <2>1 DEF IInv, TypeOK, store, reader
  <2>3. Notified'
    BY <2>1, EmptySeq DEF Notified
  <2> QED BY Zenon, <2>1, <2>2, <2>3 DEF IInv, Polled, Read, Answering, InstancesNotOlder,
                                  store, reader
<1>2. CASE GetMoreServices
  <2>1. /\ spc = "fetch" /\ spc' \in {"store", "done"} /\ sget' = row.svc
        /\ left' = [left EXCEPT !.svc = IF @ > 0 THEN @ - 1 ELSE 0]
        /\ UNCHANGED <<row, gone, ipc, iget, svc, inst, queue, revisions, reader, known>>
    BY Zenon, <1>2 DEF GetMoreServices
  <2>2. left' \in [svc : 0..Overlap + 1, inst : [Instance -> 0..Overlap + 1]]
    <3>1. left \in [svc : 0..Overlap + 1, inst : [Instance -> 0..Overlap + 1]]
      BY Zenon DEF IInv, TypeOK
    <3>2. (IF left.svc > 0 THEN left.svc - 1 ELSE 0) \in 0..Overlap + 1
      BY Numbers DEF IInv
    <3> QED BY Zenon, <2>1, <3>1, <3>2
  <2>3. TypeOK'
    BY Zenon, <2>1, <2>2, Numbers DEF IInv, TypeOK, reader
  <2> QED BY Zenon, <2>1, <2>3 DEF IInv, Notified, Polled, Read, Answering, InstancesNotOlder,
                            reader
<1>3. CASE SetServices
  <2>1. /\ spc = "store" /\ spc' = "notify" /\ svc' = sget
        /\ UNCHANGED <<store, sget, ipc, iget, inst, queue, revisions, reader, known>>
    BY Zenon, <1>3 DEF SetServices
  <2>2. TypeOK'
    BY Zenon, <2>1 DEF IInv, TypeOK, store, reader
  <2> QED BY Zenon, <2>1, <2>2 DEF IInv, Notified, Polled, Read, Answering, InstancesNotOlder,
                            store, reader
<1>4. CASE NotifyService
  <2>1. /\ spc = "notify" /\ spc' = "done" /\ sget' = 0
        /\ queue' = Append(queue, sget > 0) /\ (sget > 0) \in BOOLEAN
        /\ UNCHANGED <<store, ipc, iget, svc, inst, revisions, reader, known>>
    BY <1>4 DEF NotifyService
  <2>2. queue' \in Seq(BOOLEAN) /\ Len(queue') <= 2 /\ Notified'
    BY Zenon, <2>1, NotifyQueue DEF IInv
  <2>3. TypeOK'
    BY <2>1, <2>2 DEF IInv, TypeOK, store, reader
  <2> QED BY Zenon, <2>1, <2>2, <2>3 DEF IInv, Polled, Read, Answering, InstancesNotOlder,
                                  store, reader
<1>5. CASE GetMoreInstances
  <2>1. /\ ipc = "fetch" /\ ipc' \in {"store", "done"}
        /\ iget' = [i \in Instance |-> IF left.inst[i] > 0 THEN row.inst[i] ELSE NotRead]
        /\ left' = [left EXCEPT !.inst = [i \in Instance |-> IF @[i] > 0 THEN @[i] - 1 ELSE 0]]
        /\ UNCHANGED <<row, gone, spc, sget, svc, inst, queue, revisions, reader, known>>
    BY Zenon, <1>5 DEF GetMoreInstances
  <2>2. left' \in [svc : 0..Overlap + 1, inst : [Instance -> 0..Overlap + 1]]
    <3>1. left \in [svc : 0..Overlap + 1, inst : [Instance -> 0..Overlap + 1]]
      BY Zenon DEF IInv, TypeOK
    <3>2. \A i \in Instance :
             (IF left.inst[i] > 0 THEN left.inst[i] - 1 ELSE 0) \in 0..Overlap + 1
      <4>1. \A i \in Instance : left.inst[i] \in 0..Overlap + 1
        BY Zenon, Numbers DEF IInv
      <4> SUFFICES ASSUME NEW i \in Instance
                   PROVE  (IF left.inst[i] > 0 THEN left.inst[i] - 1 ELSE 0) \in 0..Overlap + 1
        BY Zenon
      <4>2. CASE left.inst[i] > 0
        BY <4>1, <4>2
      <4>3. CASE ~(left.inst[i] > 0)
        BY <4>3
      <4> QED BY Zenon, <4>2, <4>3
    <3> QED BY Zenon, <2>1, <3>1, <3>2
  <2>3. iget' \in [Instance -> {NotRead} \cup 0..MaxInst]
    BY Zenon, <2>1, Numbers DEF IInv
  <2>4. TypeOK'
    BY Zenon, <2>1, <2>2, <2>3 DEF IInv, TypeOK, reader
  <2>5. Polled'
    BY <2>1, Numbers DEF IInv, Polled
  <2> QED BY Zenon, <2>1, <2>4, <2>5 DEF IInv, Notified, Read, Answering, InstancesNotOlder,
                                  reader
<1>6. ASSUME NEW i \in Instance, SetInstance(i) PROVE IInv'
  <2>1. /\ ipc = "store" /\ ipc' \in {"notify", "store"} /\ iget[i] # NotRead
        /\ inst' = [inst EXCEPT ![i] = iget[i]] /\ iget' = [iget EXCEPT ![i] = NotRead]
        /\ UNCHANGED <<store, spc, sget, svc, queue, revisions, reader, known>>
    BY Zenon, <1>6 DEF SetInstance
  <2>2. /\ inst' \in [Instance -> 0..MaxInst]
        /\ iget' \in [Instance -> {NotRead} \cup 0..MaxInst]
    BY Zenon, <2>1 DEF IInv, TypeOK
  <2>3. TypeOK'
    BY Zenon, <2>1, <2>2 DEF IInv, TypeOK, store, reader
  <2>4. \A j \in Instance : inst'[j] >= inst[j] /\ inst'[j] \in Int
    <3>1. \A j \in Instance : inst[j] \in Int /\ iget[j] \in Int
      BY Zenon, Numbers DEF IInv
    <3>2. iget[i] >= inst[i]
      BY Zenon, <2>1, <3>1 DEF IInv, Polled
    <3>3. \A j \in Instance : inst'[j] = IF j = i THEN iget[i] ELSE inst[j]
      BY Zenon, <2>1 DEF IInv, TypeOK
    <3> QED BY <3>1, <3>2, <3>3
  <2>5. Polled'
    BY Zenon, <2>1, Numbers DEF IInv, Polled, TypeOK, store
  <2>6. Read'
    <3>1. /\ \A r \in Reader, j \in Instance : rinst[r][j] \in Int
          /\ \A j \in Instance : inst[j] \in Int
          /\ \A j \in Instance : revisions.inst[j] \in Int
          /\ \A c \in Client, j \in Instance : rrev[c].inst[j] \in Int
      BY Zenon, Numbers DEF IInv
    <3> QED BY <2>1, <2>4, <3>1 DEF IInv, Read, reader
  <2> QED BY Zenon, <2>1, <2>3, <2>5, <2>6 DEF IInv, Notified, Answering, InstancesNotOlder,
                                        store, reader
<1>7. CASE NotifyInstances
  <2>1. /\ ipc = "notify" /\ ipc' = "done" /\ queue' = Append(queue, TRUE)
        /\ UNCHANGED <<store, spc, sget, iget, svc, inst, revisions, reader, known>>
    BY Zenon, <1>7 DEF NotifyInstances
  <2>2. queue' \in Seq(BOOLEAN) /\ Len(queue') <= 2 /\ Notified'
    BY Zenon, <2>1, NotifyQueue DEF IInv
  <2>3. TypeOK'
    BY Zenon, <2>1, <2>2 DEF IInv, TypeOK, store, reader
  <2> QED BY Zenon, <2>1, <2>2, <2>3 DEF IInv, Polled, Read, Answering, InstancesNotOlder,
                                  store, reader
<1> QED BY Zenon, <1>1, <1>2, <1>3, <1>4, <1>5, <1>6, <1>7 DEF Update
-----------------------------------------------------------------------------
\* A reader that is done has read nothing.
LEMMA DoneReads ==
  ASSUME IInv, NEW r \in Reader, Done(r)
  PROVE  /\ pc' \in [Reader -> {"idle", "service", "revision", "compute", "data", "delete"}]
         /\ rsvc' \in [Reader -> 0..MaxSvc]
         /\ rinst' \in [Reader -> [Instance -> {NotRead} \cup 0..MaxInst]]
         /\ \A q \in Reader, i \in Instance : rinst'[q][i] <= inst[i]
         /\ \A q \in Reader : pc'[q] = "data" => pc[q] = "data" /\ rinst'[q] = rinst[q]
<1>1. /\ pc' = [pc EXCEPT ![r] = "idle"] /\ rsvc' = [rsvc EXCEPT ![r] = 0]
      /\ rinst' = [rinst EXCEPT ![r] = Unread]
  BY Zenon DEF Done
<1>2. /\ pc \in [Reader -> {"idle", "service", "revision", "compute", "data", "delete"}]
      /\ rsvc \in [Reader -> 0..MaxSvc]
      /\ rinst \in [Reader -> [Instance -> {NotRead} \cup 0..MaxInst]]
  BY Zenon DEF IInv, TypeOK
<1>3. \A i \in Instance : Unread[i] <= inst[i]
  <2> SUFFICES ASSUME NEW i \in Instance PROVE Unread[i] <= inst[i]
    BY Zenon
  <2>1. inst[i] \in 0..MaxInst /\ Unread[i] = -1
    BY Zenon DEF IInv, TypeOK, Unread, NotRead
  <2> QED BY <2>1, RevisionConstants
<1>4. \A q \in Reader, i \in Instance : rinst'[q][i] <= inst[i]
  BY Zenon, <1>1, <1>2, <1>3 DEF IInv, Read
<1>5. 0 \in 0..MaxSvc
  BY RevisionConstants
<1> QED BY Zenon, <1>1, <1>2, <1>4, <1>5, EmptyTypes

\* Reading one instance.
LEMMA ReadInstanceStep ==
  ASSUME IInv, NEW r \in Reader, NEW i \in Instance, ReadInstance(r, i)
  PROVE  IInv'
<1>1. /\ rinst' = [rinst EXCEPT ![r][i] = inst[i]]
      /\ UNCHANGED <<store, poll, svc, inst, queue, revisions, pc, rsvc, rrev, known>>
  BY Zenon DEF ReadInstance
<1>2. rinst \in [Reader -> [Instance -> {NotRead} \cup 0..MaxInst]] /\ inst[i] \in 0..MaxInst
  BY Zenon DEF IInv, TypeOK
<1>3. rinst' \in [Reader -> [Instance -> {NotRead} \cup 0..MaxInst]]
  BY Zenon, <1>1, <1>2
<1>4. \A q \in Reader, j \in Instance :
         rinst'[q][j] = IF q = r /\ j = i THEN inst[i] ELSE rinst[q][j]
  BY Zenon, <1>1, <1>2
<1>5. TypeOK'
  BY Zenon, <1>1, <1>3 DEF IInv, TypeOK, store, poll
<1>6. \A q \in Reader, j \in Instance : rinst'[q][j] <= inst[j]
  <2> SUFFICES ASSUME NEW q \in Reader, NEW j \in Instance PROVE rinst'[q][j] <= inst[j]
    BY Zenon
  <2>1. CASE q = r /\ j = i
    BY <1>2, <1>4, <2>1
  <2>2. CASE ~(q = r /\ j = i)
    BY Zenon, <1>4, <2>2 DEF IInv, Read
  <2> QED BY Zenon, <2>1, <2>2
<1>7. Read'
  BY Zenon, <1>1, <1>6 DEF IInv, Read
<1>8. Answering'
  <2> SUFFICES ASSUME NEW c \in Client, pc[c] = "data", NEW j \in Instance,
                      rinst'[c][j] # NotRead
               PROVE  rinst'[c][j] >= rrev[c].inst[j]
    BY Zenon, <1>1 DEF Answering
  <2>1. c \in Reader
    BY Zenon DEF Reader
  <2>2. CASE c = r /\ j = i
    BY Zenon, <1>4, <2>1, <2>2, Numbers DEF IInv, Read
  <2>3. CASE ~(c = r /\ j = i)
    BY Zenon, <1>4, <2>1, <2>3 DEF IInv, Answering
  <2> QED BY Zenon, <2>2, <2>3
<1> QED BY Zenon, <1>1, <1>5, <1>7, <1>8 DEF IInv, Notified, Polled, InstancesNotOlder, store, poll

\* The workers set revisions made of what the cache holds or held.
LEMMA WorkStep == ASSUME IInv, NEW w \in Worker, Work(w) PROVE IInv'
<1> USE RevisionConstants
<1>0. w \in Reader
  BY Zenon DEF Reader
<1>1. CASE TakeNotify(w)
  <2>1. /\ queue # << >> /\ queue' = Tail(queue)
        /\ pc' = [pc EXCEPT ![w] = IF Head(queue) THEN "service" ELSE "delete"]
        /\ UNCHANGED <<store, poll, svc, inst, revisions, rsvc, rinst, rrev, known>>
    BY Zenon, <1>1 DEF TakeNotify
  <2>2. queue' \in Seq(BOOLEAN) /\ Len(queue') <= 2 /\ Notified'
    BY Zenon, <2>1, TakeQueue DEF IInv, poll
  <2>3. /\ pc' \in [Reader -> {"idle", "service", "revision", "compute", "data", "delete"}]
        /\ \A r \in Reader : pc'[r] = "data" => pc[r] = "data"
    BY Zenon, <2>1, <1>0 DEF IInv, TypeOK
  <2>4. TypeOK'
    BY Zenon, <2>1, <2>2, <2>3 DEF IInv, TypeOK, store, poll
  <2>5. Answering'
    BY Zenon, <2>1, <2>3 DEF IInv, Answering, Reader
  <2> QED BY Zenon, <2>1, <2>2, <2>4, <2>5 DEF IInv, Polled, Read, InstancesNotOlder, store, poll
<1>2. CASE DeleteRevisions(w)
  <2>1. /\ revisions' = NoRevision /\ Done(w)
        /\ UNCHANGED <<store, poll, svc, inst, queue, rrev, known>>
    BY Zenon, <1>2 DEF DeleteRevisions
  <2>2. TypeOK'
    BY Zenon, <2>1, <1>0, DoneReads, EmptyTypes DEF IInv, TypeOK, store, poll
  <2>3. \A i \in Instance : revisions'.inst[i] <= inst[i]
    BY Zenon, <2>1, Numbers DEF IInv, NoRevision, NoInst
  <2>4. Read'
    BY Zenon, <2>1, <2>3, <1>0, DoneReads DEF IInv, Read
  <2>5. Answering'
    BY Zenon, <2>1, <1>0, DoneReads DEF IInv, Answering, Reader
  <2> QED BY Zenon, <2>1, <2>2, <2>4, <2>5 DEF IInv, Notified, Polled, InstancesNotOlder, store, poll
<1>3. CASE ReadService(w)
  <2>1. UNCHANGED <<store, poll, svc, inst, queue, revisions, rrev, known>>
    BY Zenon, <1>3 DEF ReadService
  <2>2. CASE Done(w)
    <3>1. TypeOK'
      BY Zenon, <2>1, <2>2, <1>0, DoneReads DEF IInv, TypeOK, store, poll
    <3>2. Read' /\ Answering'
      BY Zenon, <2>1, <2>2, <1>0, DoneReads DEF IInv, Read, Answering, Reader
    <3> QED BY Zenon, <2>1, <3>1, <3>2 DEF IInv, Notified, Polled, InstancesNotOlder, store, poll
  <2>3. CASE ~Done(w)
    <3>1. /\ pc' = [pc EXCEPT ![w] = "compute"] /\ rsvc' = [rsvc EXCEPT ![w] = svc]
          /\ rinst' = rinst
      BY Zenon, <1>3, <2>3 DEF ReadService
    <3>2. /\ pc' \in [Reader -> {"idle", "service", "revision", "compute", "data", "delete"}]
          /\ rsvc' \in [Reader -> 0..MaxSvc]
          /\ \A r \in Reader : pc'[r] = "data" => pc[r] = "data"
      BY Zenon, <3>1 DEF IInv, TypeOK
    <3>3. TypeOK'
      BY Zenon, <2>1, <3>1, <3>2 DEF IInv, TypeOK, store, poll
    <3>4. Read' /\ Answering'
      BY Zenon, <2>1, <3>1, <3>2 DEF IInv, Read, Answering, Reader
    <3> QED BY Zenon, <2>1, <3>3, <3>4 DEF IInv, Notified, Polled, InstancesNotOlder, store, poll
  <2> QED BY Zenon, <2>2, <2>3
<1>4. CASE SetRevisions(w)
  <2>1. /\ revisions' = [svc |-> rsvc[w], inst |-> rinst[w]] /\ Done(w)
        /\ \A i \in Instance : rinst[w][i] # NotRead
        /\ UNCHANGED <<store, poll, svc, inst, queue, rrev, known>>
    BY Zenon, <1>4 DEF SetRevisions, AllRead
  <2>2. revisions' \in Revision
    BY <2>1, <1>0 DEF IInv, TypeOK, Revision
  <2>3. TypeOK'
    BY Zenon, <2>1, <2>2, <1>0, DoneReads DEF IInv, TypeOK, store, poll
  <2>4. \A i \in Instance : revisions'.inst[i] <= inst[i]
    BY Zenon, <2>1, <1>0 DEF IInv, Read
  <2>5. Read'
    BY Zenon, <2>1, <2>4, <1>0, DoneReads DEF IInv, Read
  <2>6. Answering'
    BY Zenon, <2>1, <1>0, DoneReads DEF IInv, Answering, Reader
  <2> QED BY Zenon, <2>1, <2>3, <2>5, <2>6 DEF IInv, Notified, Polled, InstancesNotOlder, store, poll
<1>5. ASSUME NEW i \in Instance, ReadInstance(w, i) PROVE IInv'
  BY Zenon, <1>5, <1>0, ReadInstanceStep
<1> QED BY Zenon, <1>1, <1>2, <1>3, <1>4, <1>5 DEF Work
-----------------------------------------------------------------------------
\* An answer takes the revision first and reads the instances after it, so
\* what it has read so far is not older.
LEMMA AnswerStep ==
  ASSUME IInv, NEW c \in Client, NEW rev \in Revision, Answer(c, rev),
         \A i \in Instance : rev.inst[i] <= inst[i],
         UNCHANGED <<store, poll, svc, inst, queue, revisions, known>>
  PROVE  IInv'
<1> USE RevisionConstants
<1>0. c \in Reader
  BY Zenon DEF Reader
<1>1. CASE Done(c) /\ UNCHANGED rrev
  <2>1. TypeOK'
    BY Zenon, <1>1, <1>0, DoneReads DEF IInv, TypeOK, store, poll
  <2>2. Read' /\ Answering'
    BY Zenon, <1>1, <1>0, DoneReads DEF IInv, Read, Answering, Reader
  <2> QED BY Zenon, <2>1, <2>2 DEF IInv, Notified, Polled, InstancesNotOlder, store, poll
<1>2. CASE ~(Done(c) /\ UNCHANGED rrev)
  <2>1. /\ rrev' = [rrev EXCEPT ![c] = rev] /\ pc' = [pc EXCEPT ![c] = "data"]
        /\ rinst' = [rinst EXCEPT ![c] = Unread] /\ rsvc' = rsvc
    BY Zenon, <1>2 DEF Answer
  <2>2. /\ rrev' \in [Client -> Revision]
        /\ pc' \in [Reader -> {"idle", "service", "revision", "compute", "data", "delete"}]
        /\ rinst' \in [Reader -> [Instance -> {NotRead} \cup 0..MaxInst]]
    BY Zenon, <2>1, EmptyTypes DEF IInv, TypeOK
  <2>3. TypeOK'
    BY Zenon, <2>1, <2>2 DEF IInv, TypeOK, store, poll
  <2>4. \A i \in Instance : Unread[i] <= inst[i] /\ Unread[i] = NotRead
    <3>1. \A i \in Instance : inst[i] \in 0..MaxInst /\ Unread[i] = -1 /\ NotRead = -1
      BY Zenon DEF IInv, TypeOK, Unread, NotRead
    <3> QED BY <3>1
  <2>5. \A r \in Reader : rinst'[r] = IF r = c THEN Unread ELSE rinst[r]
    BY Zenon, <2>1 DEF IInv, TypeOK
  <2>6. \A d \in Client : rrev'[d] = IF d = c THEN rev ELSE rrev[d]
    BY Zenon, <2>1 DEF IInv, TypeOK
  <2>7. Read'
    BY Zenon, <2>4, <2>5, <2>6 DEF IInv, Read
  <2>8. Answering'
    <3> SUFFICES ASSUME NEW d \in Client, pc'[d] = "data", NEW i \in Instance,
                        rinst'[d][i] # NotRead
                 PROVE  rinst'[d][i] >= rrev'[d].inst[i]
      BY Zenon DEF Answering
    <3>1. d \in Reader /\ d # c
      BY Zenon, <2>4, <2>5 DEF Reader
    <3>2. pc[d] = "data" /\ rinst'[d] = rinst[d] /\ rrev'[d] = rrev[d]
      BY Zenon, <2>1, <2>5, <2>6, <3>1 DEF IInv, TypeOK
    <3> QED BY Zenon, <3>2 DEF IInv, Answering
  <2> QED BY Zenon, <2>3, <2>7, <2>8 DEF IInv, Notified, Polled, InstancesNotOlder, store, poll
<1> QED BY Zenon, <1>1, <1>2

\* The service's readers.
LEMMA ServeStep == ASSUME IInv, NEW c \in Client, Serve(c) PROVE IInv'
<1> USE RevisionConstants
<1>0. c \in Reader
  BY Zenon DEF Reader
<1>1. CASE Discover(c)
  <2>1. /\ rsvc' = [rsvc EXCEPT ![c] = svc] /\ pc' = [pc EXCEPT ![c] = "revision"]
        /\ UNCHANGED <<store, poll, svc, inst, queue, revisions, rinst, rrev, known>>
    BY Zenon, <1>1 DEF Discover
  <2>2. /\ pc' \in [Reader -> {"idle", "service", "revision", "compute", "data", "delete"}]
        /\ rsvc' \in [Reader -> 0..MaxSvc]
        /\ \A r \in Reader : pc'[r] = "data" => pc[r] = "data"
    BY Zenon, <2>1 DEF IInv, TypeOK
  <2>3. TypeOK'
    BY Zenon, <2>1, <2>2 DEF IInv, TypeOK, store, poll
  <2>4. Read' /\ Answering'
    BY Zenon, <2>1, <2>2 DEF IInv, Read, Answering, Reader
  <2> QED BY Zenon, <2>1, <2>3, <2>4 DEF IInv, Notified, Polled, InstancesNotOlder, store, poll
<1>2. CASE GetRevision(c)
  <2>1. UNCHANGED <<store, poll, svc, inst, queue, revisions, known>>
    BY Zenon, <1>2 DEF GetRevision
  <2>2. CASE revisions # NoRevision
    <3>1. Answer(c, revisions)
      BY Zenon, <1>2, <2>2 DEF GetRevision
    <3>2. revisions \in Revision /\ \A i \in Instance : revisions.inst[i] <= inst[i]
      BY Zenon DEF IInv, TypeOK, Read
    <3> QED BY Zenon, <2>1, <3>1, <3>2, AnswerStep
  <2>3. CASE revisions = NoRevision
    <3>1. pc' = [pc EXCEPT ![c] = "compute"] /\ UNCHANGED <<rsvc, rinst, rrev>>
      BY Zenon, <1>2, <2>3 DEF GetRevision
    <3>2. /\ pc' \in [Reader -> {"idle", "service", "revision", "compute", "data", "delete"}]
          /\ \A r \in Reader : pc'[r] = "data" => pc[r] = "data"
      BY Zenon, <3>1 DEF IInv, TypeOK
    <3>3. TypeOK'
      BY Zenon, <2>1, <3>1, <3>2 DEF IInv, TypeOK, store, poll
    <3>4. Read' /\ Answering'
      BY Zenon, <2>1, <3>1, <3>2 DEF IInv, Read, Answering, Reader
    <3> QED BY Zenon, <2>1, <3>3, <3>4 DEF IInv, Notified, Polled, InstancesNotOlder, store, poll
  <2> QED BY Zenon, <2>2, <2>3
<1>3. CASE ComputeRevision(c)
  <2>1. /\ \A i \in Instance : rinst[c][i] # NotRead
        /\ UNCHANGED <<store, poll, svc, inst, queue, revisions, known>>
    BY Zenon, <1>3 DEF ComputeRevision, AllRead
  <2>2. CASE revisions = NoRevision /\ svc = 0
    <3>1. Done(c) /\ rrev' = rrev
      BY Zenon, <1>3, <2>2 DEF ComputeRevision
    <3>2. TypeOK'
      BY Zenon, <2>1, <3>1, <1>0, DoneReads DEF IInv, TypeOK, store, poll
    <3>3. Read' /\ Answering'
      BY Zenon, <2>1, <3>1, <1>0, DoneReads DEF IInv, Read, Answering, Reader
    <3> QED BY Zenon, <2>1, <3>2, <3>3 DEF IInv, Notified, Polled, InstancesNotOlder, store, poll
  <2>3. CASE revisions # NoRevision
    <3>1. Answer(c, revisions)
      BY Zenon, <1>3, <2>3 DEF ComputeRevision
    <3>2. revisions \in Revision /\ \A i \in Instance : revisions.inst[i] <= inst[i]
      BY Zenon DEF IInv, TypeOK, Read
    <3> QED BY Zenon, <2>1, <3>1, <3>2, AnswerStep
  <2>4. CASE revisions = NoRevision /\ svc # 0
    <3> DEFINE rev == [svc |-> svc, inst |-> rinst[c]]
    <3>1. Answer(c, rev)
      BY Zenon, <1>3, <2>4 DEF ComputeRevision
    <3>2. rev \in Revision /\ \A i \in Instance : rev.inst[i] <= inst[i]
      BY <1>0, <2>1 DEF IInv, TypeOK, Read, Revision
    <3> HIDE DEF rev
    <3> QED BY Zenon, <2>1, <3>1, <3>2, AnswerStep
  <2> QED BY Zenon, <2>2, <2>3, <2>4
<1>4. CASE Respond(c)
  <2>1. /\ pc[c] = "data" /\ \A i \in Instance : rinst[c][i] # NotRead
        /\ known' = [known EXCEPT ![c] = [rev |-> rrev[c], svc |-> rsvc[c], inst |-> rinst[c]]]
        /\ rrev' = [rrev EXCEPT ![c] = NoRevision] /\ Done(c)
        /\ UNCHANGED <<store, poll, svc, inst, queue, revisions>>
    BY Zenon, <1>4 DEF Respond, AllRead
  <2>2. rrev' \in [Client -> Revision]
    BY Zenon, <2>1, EmptyTypes DEF IInv, TypeOK
  <2>3. known' \in [Client -> [rev : Revision, svc : 0..MaxSvc, inst : [Instance -> 0..MaxInst]]]
    BY <1>0, <2>1 DEF IInv, TypeOK
  <2>4. TypeOK'
    BY Zenon, <2>1, <2>2, <2>3, <1>0, DoneReads DEF IInv, TypeOK, store, poll
  <2>5. \A d \in Client : rrev'[d] = IF d = c THEN NoRevision ELSE rrev[d]
    BY Zenon, <2>1 DEF IInv, TypeOK
  <2>6. \A i \in Instance : NoRevision.inst[i] <= inst[i]
    BY Zenon, Numbers DEF IInv, NoRevision, NoInst
  <2>7. Read'
    BY <2>1, <2>5, <2>6, <1>0, DoneReads DEF IInv, Read
  <2>8. pc'[c] # "data"
    BY Zenon, <1>0, <2>1 DEF Done, IInv, TypeOK
  <2>9. Answering'
    BY Zenon, <2>1, <2>5, <2>8, <1>0, DoneReads DEF IInv, Answering, Reader
  <2>10. InstancesNotOlder'
    <3> SUFFICES ASSUME NEW d \in Client, NEW i \in Instance
                 PROVE  known'[d].inst[i] >= known'[d].rev.inst[i]
      BY Zenon DEF InstancesNotOlder
    <3>1. CASE d = c
      BY Zenon, <2>1, <3>1 DEF IInv, TypeOK, Answering
    <3>2. CASE d # c
      BY Zenon, <2>1, <3>2 DEF IInv, TypeOK, InstancesNotOlder
    <3> QED BY Zenon, <3>1, <3>2
  <2> QED BY Zenon, <2>1, <2>4, <2>7, <2>9, <2>10 DEF IInv, Notified, Polled, store, poll
<1>5. ASSUME NEW i \in Instance, ReadInstance(c, i) PROVE IInv'
  BY Zenon, <1>5, <1>0, ReadInstanceStep
<1> QED BY Zenon, <1>1, <1>2, <1>3, <1>4, <1>5 DEF Serve
-----------------------------------------------------------------------------
\* What a client of ServiceInstancesCache knows is consistent: its instances
\* are never older than the revision it was told with them, whatever the
\* number of workers, clients and instances and however the polls, the
\* workers and the answers interleave.
THEOREM RevisionKnownSound == Spec => []KnownSound
<1>1. Init => IInv
  BY Zenon, InitIInv
<1>2. IInv /\ [Next]_vars => IInv'
  <2> SUFFICES ASSUME IInv, [Next]_vars PROVE IInv'
    BY Zenon
  <2>1. CASE Change
    BY Zenon, <2>1, ChangeStep
  <2>2. CASE Update
    BY Zenon, <2>2, UpdateStep
  <2>3. ASSUME NEW w \in Worker, Work(w) PROVE IInv'
    BY Zenon, <2>3, WorkStep
  <2>4. ASSUME NEW c \in Client, Serve(c) PROVE IInv'
    BY Zenon, <2>4, ServeStep
  <2>5. CASE UNCHANGED vars
    <3>1. UNCHANGED <<store, poll, svc, inst, queue, revisions, reader, known>>
      BY Zenon, <2>5 DEF vars
    <3> QED BY Zenon, <3>1 DEF IInv, TypeOK, Notified, Polled, Read, Answering, InstancesNotOlder,
                        store, poll, reader
  <2> QED BY Zenon, <2>1, <2>2, <2>3, <2>4, <2>5 DEF Next
<1>3. IInv => KnownSound
  BY Zenon DEF IInv, KnownSound
<1> QED BY <1>1, <1>2, <1>3, PTL DEF Spec
=============================================================================
