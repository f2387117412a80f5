----------------------- MODULE BatchControllerProofs -----------------------
(***************************************************************************)
(* Proofs about the batch executor, for every number of tasks and workers  *)
(* and every size of the channel and of a batch: no task is lost or copied *)
(* between the goroutines, and no goroutine sends on a closed channel or   *)
(* waits for a busy worker.                                                *)
(***************************************************************************)
EXTENDS BatchController, FiniteSetTheorems, SequenceTheorems, TLAPS

\* The places of a task are the channel, the batch that is gathered and the
\* batches of the workers. The counts of HeldOnce come from these facts.
Held(t) ==
    \/ t \in Range(tasksChan) \/ t \in Range(futures)
    \/ \E w \in Worker : t \in Range(batch[w])

Places ==
    /\ IsInjective(tasksChan) /\ IsInjective(futures)
    /\ \A t \in Range(tasksChan) : t \notin Range(futures)
    /\ \A w \in Worker : \A t \in Range(batch[w]) :
           /\ t \notin Range(tasksChan) /\ t \notin Range(futures)
           /\ \A v \in Worker : t \in Range(batch[v]) => v = w
    /\ \A t \in Task :
           /\ Held(t) <=> call[t] \in Accepted /\ outcome[t] = "none"
           /\ call[t] \in {"idle", "sending", "rejected", "timeout"} => outcome[t] = "none"
    /\ panics = 0 => \A t \in Task : outcome[t] # "dropped"

\* What the main loop has done at each of its places, and what the workers hold.
Loop ==
    /\ main \in {"select", "drain"} => Len(futures) < MaxBatchCount
    /\ main \in {"close", "join", "exited"} => futures = <<>> /\ tasksChan = <<>>
    /\ after = "close" => tasksChan = <<>>
    /\ main \in {"drain", "close", "join", "exited"} \/ after \in {"drain", "close"} => chanClosed
    /\ chanClosed => stop # "no" /\ Readers = {}
    /\ main = "exited" => \A w \in Worker : worker[w] = "exited"
    /\ \A w \in Worker : worker[w] # "handle" => batch[w] = <<>>

\* A worker on offer waits for a batch.
Idle ==
    ~workersClosed =>
        /\ IsInjective(idleSignal)
        /\ \A w \in Range(idleSignal) : worker[w] = "receive" /\ ~(main = "send" /\ idleIndex = w)
        /\ main = "send" => worker[idleIndex] = "receive"

IInv == TypeOK /\ Places /\ Loop /\ Idle
-----------------------------------------------------------------------------
\* An empty place holds no task.
LEMMA EmptyPlace == Range(<<>>) = {} /\ IsInjective(<<>>)
  BY DEF Range, IsInjective

\* Append adds an element that was not there, once.
LEMMA AppendPlace ==
  ASSUME NEW S, NEW s \in Seq(S), NEW e \in S
  PROVE  /\ Append(s, e) \in Seq(S) /\ Len(Append(s, e)) = Len(s) + 1
         /\ Range(Append(s, e)) = Range(s) \cup {e}
         /\ IsInjective(s) /\ e \notin Range(s) => IsInjective(Append(s, e))
<1>1. /\ Append(s, e) \in Seq(S) /\ Len(Append(s, e)) = Len(s) + 1 /\ Len(s) \in Nat
      /\ DOMAIN s = 1..Len(s) /\ DOMAIN Append(s, e) = 1..Len(s) + 1
      /\ \A i \in 1..Len(s) : Append(s, e)[i] = s[i]
      /\ Append(s, e)[Len(s) + 1] = e
  BY AppendProperties, LenProperties
<1>2. Range(Append(s, e)) = Range(s) \cup {e}
  BY <1>1 DEF Range
<1>3. ASSUME IsInjective(s), e \notin Range(s) PROVE IsInjective(Append(s, e))
  <2> SUFFICES ASSUME NEW i \in 1..Len(s) + 1, NEW j \in 1..Len(s) + 1,
                      Append(s, e)[i] = Append(s, e)[j]
               PROVE  i = j
    BY Zenon, <1>1 DEF IsInjective
  <2>1. \A k \in 1..Len(s) : s[k] # e
    BY Zenon, <1>1, <1>3 DEF Range
  <2>2. CASE i = Len(s) + 1 \/ j = Len(s) + 1
    BY <1>1, <2>1, <2>2
  <2>3. CASE i \in 1..Len(s) /\ j \in 1..Len(s)
    BY Zenon, <1>1, <1>3, <2>3 DEF IsInjective
  <2> QED BY <1>1, <2>2, <2>3
<1> QED BY Zenon, <1>1, <1>2, <1>3

\* The element at the head is not in the tail.
LEMMA TailPlace ==
  ASSUME NEW S, NEW s \in Seq(S), s # <<>>
  PROVE  /\ Tail(s) \in Seq(S) /\ Len(Tail(s)) = Len(s) - 1
         /\ Head(s) \in S /\ Head(s) \in Range(s)
         /\ Range(Tail(s)) \subseteq Range(s)
         /\ Range(s) = Range(Tail(s)) \cup {Head(s)}
         /\ IsInjective(s) => IsInjective(Tail(s)) /\ Head(s) \notin Range(Tail(s))
<1>1. /\ Tail(s) \in Seq(S) /\ Len(Tail(s)) = Len(s) - 1 /\ Len(s) \in Nat \ {0}
      /\ DOMAIN s = 1..Len(s) /\ DOMAIN Tail(s) = 1..Len(s) - 1
      /\ Head(s) \in S /\ Head(s) = s[1]
      /\ \A i \in 1..Len(s) - 1 : Tail(s)[i] = s[i + 1]
  BY HeadTailProperties, LenProperties, EmptySeq
<1>2. Head(s) \in Range(s) /\ Range(Tail(s)) \subseteq Range(s)
  BY <1>1 DEF Range
<1>3. \A x \in Range(s) : x = Head(s) \/ x \in Range(Tail(s))
  <2> SUFFICES ASSUME NEW i \in 1..Len(s), i # 1 PROVE s[i] \in Range(Tail(s))
    BY <1>1 DEF Range
  <2>1. i - 1 \in 1..Len(s) - 1 /\ s[i] = Tail(s)[i - 1]
    BY <1>1
  <2> QED BY Zenon, <1>1, <2>1 DEF Range
<1>4. ASSUME IsInjective(s) PROVE IsInjective(Tail(s)) /\ Head(s) \notin Range(Tail(s))
  <2>1. \A i, j \in 1..Len(s) - 1 : Tail(s)[i] = Tail(s)[j] => i = j
    <3> SUFFICES ASSUME NEW i \in 1..Len(s) - 1, NEW j \in 1..Len(s) - 1, s[i + 1] = s[j + 1]
                 PROVE  i = j
      BY Zenon, <1>1
    <3>1. i + 1 \in DOMAIN s /\ j + 1 \in DOMAIN s
      BY <1>1
    <3>2. i + 1 = j + 1
      BY Zenon, <1>4, <3>1 DEF IsInjective
    <3> QED BY <1>1, <3>2
  <2>2. \A i \in 1..Len(s) - 1 : s[i + 1] # s[1]
    <3> SUFFICES ASSUME NEW i \in 1..Len(s) - 1, s[i + 1] = s[1] PROVE FALSE
      BY Zenon
    <3>1. i + 1 \in DOMAIN s /\ 1 \in DOMAIN s
      BY <1>1
    <3>2. i + 1 = 1
      BY Zenon, <1>4, <3>1 DEF IsInjective
    <3> QED BY <1>1, <3>2
  <2> QED BY <1>1, <2>1, <2>2 DEF IsInjective, Range
<1> QED BY Zenon, <1>1, <1>2, <1>3, <1>4

\* An element of an injective sequence occurs once.
LEMMA OccursOnce ==
  ASSUME NEW s, NEW t, IsInjective(s)
  PROVE  /\ t \in Range(s) => Occurrences(s, t) = 1
         /\ t \notin Range(s) => Occurrences(s, t) = 0
<1> DEFINE At == {i \in DOMAIN s : s[i] = t}
<1>1. ASSUME t \in Range(s) PROVE Occurrences(s, t) = 1
  <2>1. PICK i \in DOMAIN s : s[i] = t
    BY Zenon, <1>1 DEF Range
  <2>2. At = {i}
    BY Zenon, <2>1 DEF IsInjective
  <2> QED BY Zenon, <2>2, FS_Singleton DEF Occurrences
<1>2. ASSUME t \notin Range(s) PROVE Occurrences(s, t) = 0
  <2>1. At = {}
    BY Zenon, <1>2 DEF Range
  <2> QED BY Zenon, <2>1, FS_EmptySet DEF Occurrences
<1> QED BY Zenon, <1>1, <1>2
-----------------------------------------------------------------------------
\* Types apart from the Booleans, which the solvers treat differently.
LEMMA InitIInv == Init => IInv
<1> SUFFICES ASSUME Init PROVE IInv
  BY Zenon
<1> USE BatchAssumption, EmptyPlace
<1>1. TypeOK
  <2>1. /\ tasksChan \in Seq(Task) /\ Len(tasksChan) <= QueueSize
        /\ futures \in Seq(Task) /\ Len(futures) <= MaxBatchCount
        /\ idleSignal \in Seq(Worker) /\ Len(idleSignal) <= Cardinality(Worker)
        /\ batch \in [Worker -> Seq(Task)]
    BY EmptySeq, FS_CardinalityType DEF Init
  <2>2. {done, chanClosed, workersClosed} \subseteq BOOLEAN
    BY Zenon DEF Init
  <2> QED BY <2>1, <2>2 DEF Init, TypeOK
<1>2. Places
  BY Zenon DEF Init, Places, Held, Accepted
<1>3. Loop
  BY EmptySeq DEF Init, Loop, Readers
<1>4. Idle
  BY Zenon DEF Init, Idle
<1> QED BY Zenon, <1>1, <1>2, <1>3, <1>4 DEF IInv

\* The callers.
LEMMA CallerStep ==
  ASSUME IInv, NEW t \in Task,
         Submit(t) \/ Enqueue(t) \/ SubmitTimeout(t) \/ Done(t) \/ DoneTimeout(t)
  PROVE  IInv'
<1> USE BatchAssumption DEF queue, stopping, mainloop, pool
<1>1. CASE Submit(t)
  <2>1. TypeOK'
    BY <1>1 DEF Submit, IInv, TypeOK
  <2>2. Places'
    BY <1>1 DEF Submit, IInv, TypeOK, Places, Held, Accepted
  <2>3. Loop'
    BY <1>1 DEF Submit, IInv, TypeOK, Loop, Readers, CanRLock, MainHoldsLock, isStop
  <2>4. Idle'
    BY Zenon, <1>1 DEF Submit, IInv, Idle
  <2> QED BY Zenon, <2>1, <2>2, <2>3, <2>4 DEF IInv
<1>2. CASE Enqueue(t)
  <2>1. /\ tasksChan' \in Seq(Task) /\ Len(tasksChan') = Len(tasksChan) + 1
        /\ Range(tasksChan') = Range(tasksChan) \cup {t}
        /\ IsInjective(tasksChan) /\ t \notin Range(tasksChan) => IsInjective(tasksChan')
    BY <1>2, AppendPlace DEF Enqueue, IInv, TypeOK
  <2>2. TypeOK'
    BY <1>2, <2>1, LenProperties DEF Enqueue, IInv, TypeOK
  <2>3. outcome[t] = "none" /\ ~Held(t)
    BY Zenon, <1>2 DEF Enqueue, IInv, Places, Accepted
  <2>4. Places'
    BY <1>2, <2>1, <2>3 DEF Enqueue, IInv, TypeOK, Places, Held, Accepted
  <2>5. ~chanClosed
    BY Zenon, <1>2 DEF Enqueue, IInv, Loop, Readers
  <2>6. Loop'
    BY Zenon, <1>2, <2>5 DEF Enqueue, IInv, TypeOK, Loop, Readers
  <2>7. Idle'
    BY Zenon, <1>2 DEF Enqueue, IInv, Idle
  <2> QED BY Zenon, <2>2, <2>4, <2>6, <2>7 DEF IInv
<1>3. CASE SubmitTimeout(t)
  <2>1. TypeOK'
    BY <1>3 DEF SubmitTimeout, IInv, TypeOK
  <2>2. Places'
    BY <1>3 DEF SubmitTimeout, IInv, TypeOK, Places, Held, Accepted
  <2>3. Loop'
    BY Zenon, <1>3 DEF SubmitTimeout, IInv, TypeOK, Loop, Readers
  <2>4. Idle'
    BY Zenon, <1>3 DEF SubmitTimeout, IInv, Idle
  <2> QED BY Zenon, <2>1, <2>2, <2>3, <2>4 DEF IInv
<1>4. CASE Done(t)
  <2>1. TypeOK'
    BY Zenon, <1>4 DEF Done, IInv, TypeOK
  <2>2. Places'
    BY <1>4 DEF Done, Replied, IInv, TypeOK, Places, Held, Accepted
  <2>3. Loop'
    BY <1>4 DEF Done, IInv, TypeOK, Loop, Readers
  <2>4. Idle'
    BY Zenon, <1>4 DEF Done, IInv, Idle
  <2> QED BY Zenon, <2>1, <2>2, <2>3, <2>4 DEF IInv
<1>5. CASE DoneTimeout(t)
  <2>1. TypeOK'
    BY Zenon, <1>5 DEF DoneTimeout, IInv, TypeOK
  <2>2. Places'
    BY <1>5 DEF DoneTimeout, IInv, TypeOK, Places, Held, Accepted
  <2>3. Loop'
    BY <1>5 DEF DoneTimeout, IInv, TypeOK, Loop, Readers
  <2>4. Idle'
    BY Zenon, <1>5 DEF DoneTimeout, IInv, Idle
  <2> QED BY Zenon, <2>1, <2>2, <2>3, <2>4 DEF IInv
<1> QED BY Zenon, <1>1, <1>2, <1>3, <1>4, <1>5

\* Stop and GracefulStop.
LEMMA StopStep ==
  ASSUME IInv, NEW k \in StopKinds, StopCalled(k) \/ StopLocked(k)
  PROVE  IInv'
<1> USE BatchAssumption DEF callers, queue, mainloop, pool
<1>1. TypeOK'
  <2>1. stop' \in {"no", "now", "graceful"} /\ done' \in BOOLEAN
    BY Zenon DEF StopCalled, StopLocked, IInv, TypeOK
  <2>2. stopper' \in [StopKinds -> {"idle", "locking", "done"}]
    BY ZenonT(30) DEF StopCalled, StopLocked, IInv, TypeOK
  <2> QED BY <2>1, <2>2 DEF StopCalled, StopLocked, IInv, TypeOK
<1>2. Places'
  BY DEF StopCalled, StopLocked, IInv, Places, Held
<1>3. Loop'
  BY DEF StopCalled, StopLocked, IInv, Loop, Readers
<1>4. Idle'
  BY Zenon DEF StopCalled, StopLocked, IInv, Idle
<1> QED BY Zenon, <1>1, <1>2, <1>3, <1>4 DEF IInv
-----------------------------------------------------------------------------
\* The main loop takes a future from the channel, and starts to hand over the
\* batch when it is full.
LEMMA GatherStep ==
  ASSUME IInv, NEW next \in {"select", "drain"}, main = next, Gather(next)
  PROVE  IInv'
<1> USE BatchAssumption DEF callers, stopping, pool
<1> DEFINE t == Head(tasksChan)
<1>1. /\ tasksChan # <<>> /\ tasksChan' = Tail(tasksChan) /\ futures' = Append(futures, t)
      /\ UNCHANGED <<call, outcome, chanClosed, stop, stopper, done, idleIndex, idleSignal, worker,
                     mode, batch, workersClosed, panics>>
  BY Zenon DEF Gather, TriggerConsume
<1>2. \/ main' = "idle" /\ after' = next
      \/ main' = main /\ after' = after /\ Len(futures') # MaxBatchCount
  <2>1. futures' # <<>>
    <3>1. futures \in Seq(Task) /\ t \in Task
      BY Zenon, <1>1, TailPlace DEF IInv, TypeOK
    <3>2. Append(futures, t) # <<>>
      BY <3>1
    <3> QED BY Zenon, <1>1, <3>2
  <2> QED BY Zenon, <1>1, <2>1 DEF Gather, TriggerConsume
<1>3. tasksChan \in Seq(Task) /\ futures \in Seq(Task) /\ Len(futures) \in Nat /\ Len(tasksChan) \in Nat
  BY Zenon, LenProperties DEF IInv, TypeOK
<1>4. /\ tasksChan' \in Seq(Task) /\ Len(tasksChan') = Len(tasksChan) - 1
      /\ t \in Task /\ t \in Range(tasksChan)
      /\ Range(tasksChan) = Range(tasksChan') \cup {t}
      /\ IsInjective(tasksChan') /\ t \notin Range(tasksChan')
  BY Zenon, <1>1, <1>3, TailPlace DEF IInv, Places
<1>5. t \notin Range(futures)
  BY Zenon, <1>4 DEF IInv, Places
<1>6. /\ futures' \in Seq(Task) /\ Len(futures') = Len(futures) + 1
      /\ Range(futures') = Range(futures) \cup {t} /\ IsInjective(futures')
  <2> HIDE DEF t
  <2> QED BY <1>1, <1>3, <1>4, <1>5, AppendPlace DEF IInv, Places
<1>7. Len(futures) < MaxBatchCount
  BY Zenon DEF IInv, Loop
<1> HIDE DEF t
<1>8. TypeOK'
  <2>1. Len(futures') <= MaxBatchCount /\ Len(tasksChan') <= QueueSize
    BY <1>3, <1>4, <1>6, <1>7 DEF IInv, TypeOK
  <2> QED BY Zenon, <1>1, <1>2, <1>4, <1>6, <2>1 DEF IInv, TypeOK
<1>9. Places'
  <2>1. \A u \in Range(tasksChan') : u \notin Range(futures')
    BY <1>4, <1>6 DEF IInv, Places
  <2>2. \A w \in Worker : \A u \in Range(batch[w]) :
           u \notin Range(tasksChan') /\ u \notin Range(futures')
    BY Zenon, <1>4, <1>6 DEF IInv, Places
  <2>3. \A u \in Task : Held(u)' <=> Held(u)
    BY Zenon, <1>1, <1>4, <1>6 DEF Held
  <2> QED BY Zenon, <1>1, <1>4, <1>6, <2>1, <2>2, <2>3 DEF IInv, Places
<1>10. Loop'
  <2>1. main' \in {"select", "drain"} => Len(futures') < MaxBatchCount
    BY <1>2, <1>3, <1>6, <1>7
  <2>2. tasksChan # <<>> /\ after # "close" /\ after' # "close"
    BY Zenon, <1>1, <1>2 DEF IInv, Loop
  <2> QED BY Zenon, <1>1, <1>2, <2>1, <2>2 DEF IInv, Loop, Readers
<1>11. Idle'
  BY Zenon, <1>1, <1>2 DEF IInv, Idle
<1> QED BY Zenon, <1>8, <1>9, <1>10, <1>11 DEF IInv

\* The main loop goes on with the futures it has.
LEMMA ConsumeStep == ASSUME IInv, MainTicker \/ MainGraceful \/ MainDrained PROVE IInv'
<1> USE BatchAssumption DEF callers, queue, stopping, pool
<1>1. /\ futures' = futures
      /\ UNCHANGED <<call, outcome, tasksChan, stop, stopper, done, idleIndex, idleSignal, worker,
                     mode, batch, workersClosed, panics>>
      /\ main # "send" /\ main' # "send"
  BY Zenon DEF MainTicker, MainGraceful, MainDrained, TriggerConsume
<1>2. \E next \in {"select", "drain", "close"} :
         /\ after' = next
         /\ \/ main' = "idle" /\ futures # <<>>
            \/ main' = next /\ futures = <<>>
         /\ next = "select" => chanClosed' = chanClosed /\ after' = "select" /\ main = "select"
         /\ next \in {"drain", "close"} => chanClosed' /\ (chanClosed \/ (Readers = {} /\ stop # "no"))
         /\ next = "close" => tasksChan = <<>>
  BY Zenon DEF MainTicker, MainGraceful, MainDrained, TriggerConsume, IInv, Loop, CanLock
<1>3. chanClosed' \in BOOLEAN
  BY Zenon DEF MainTicker, MainGraceful, MainDrained, IInv, TypeOK
<1>4. TypeOK'
  BY Zenon, <1>1, <1>2, <1>3 DEF IInv, TypeOK
<1>5. Places'
  BY Zenon, <1>1 DEF IInv, Places, Held
<1>6. main' # "exited" /\ main' # "join"
  BY Zenon, <1>2
<1>7. main' \in {"select", "drain"} => Len(futures') < MaxBatchCount
  BY <1>1, <1>2, EmptySeq
<1>8. main \notin {"close", "join", "exited"} /\ (chanClosed => chanClosed')
  BY DEF MainTicker, MainGraceful, MainDrained
<1>9. Loop'
  BY Zenon, <1>1, <1>2, <1>6, <1>7, <1>8 DEF IInv, Loop, Readers
<1>10. Idle'
  BY Zenon, <1>1 DEF IInv, Idle
<1> QED BY Zenon, <1>4, <1>5, <1>9, <1>10 DEF IInv

\* The futures ts are settled: replied to, or dropped.
Settles(ts) ==
    /\ outcome' \in [Task -> {"none", "handled", "stopped", "dropped"}]
    /\ \A t \in Task : IF t \in ts THEN outcome[t] = "none" => outcome'[t] # "none"
                                     ELSE outcome'[t] = outcome[t]

\* Futures that are settled are held no more, and the others as before.
LEMMA ReplyPlaces ==
  ASSUME IInv, NEW ts, Settles(ts), call' = call,
         \A t \in Task : t \in ts => Held(t),
         \A t \in Task : Held(t)' <=> Held(t) /\ t \notin ts
  PROVE  /\ outcome' \in [Task -> {"none", "handled", "stopped", "dropped"}]
         /\ \A t \in Task :
               /\ Held(t)' <=> call'[t] \in Accepted /\ outcome'[t] = "none"
               /\ call'[t] \in {"idle", "sending", "rejected", "timeout"} => outcome'[t] = "none"
<1>1. outcome' \in [Task -> {"none", "handled", "stopped", "dropped"}]
  BY Zenon DEF Settles
<1>2. ASSUME NEW t \in Task
      PROVE  /\ Held(t)' <=> call'[t] \in Accepted /\ outcome'[t] = "none"
             /\ call'[t] \in {"idle", "sending", "rejected", "timeout"} => outcome'[t] = "none"
  <2>1. Held(t) <=> call[t] \in Accepted /\ outcome[t] = "none"
    BY Zenon DEF IInv, Places
  <2>2. CASE t \in ts
    <3>1. outcome'[t] # "none" /\ ~Held(t)' /\ call[t] \in Accepted
      BY Zenon, <2>1, <2>2 DEF Settles
    <3> QED BY Zenon, <3>1 DEF Accepted
  <2>3. CASE t \notin ts
    <3>1. outcome'[t] = outcome[t] /\ (Held(t)' <=> Held(t))
      BY Zenon, <2>3 DEF Settles
    <3> QED BY Zenon, <2>1, <3>1 DEF IInv, Places
  <2> QED BY Zenon, <2>2, <2>3
<1> QED BY Zenon, <1>1, <1>2

\* A reply settles futures and drops none.
LEMMA ReplySettles ==
  ASSUME TypeOK, NEW ts, NEW answer \in {"handled", "stopped"}, Reply(ts, answer)
  PROVE  /\ Settles(ts)
         /\ \A t \in Task : outcome'[t] = "dropped" => outcome[t] = "dropped"
  BY DEF Reply, Settles, TypeOK

\* Stop: with the lock, the channel is closed and what is in it is refused.
LEMMA MainNowStep == ASSUME IInv, MainNow PROVE IInv'
<1> USE BatchAssumption, EmptyPlace DEF stopping
<1> DEFINE ts == Range(futures) \cup Range(tasksChan)
<1>1. /\ main = "lock" /\ Readers = {} /\ stop = "now" /\ chanClosed' = TRUE /\ workersClosed' = TRUE
      /\ Reply(ts, "stopped") /\ tasksChan' = <<>> /\ futures' = <<>> /\ main' = "join"
      /\ UNCHANGED <<call, stop, stopper, done, after, idleIndex, idleSignal, worker, mode, batch,
                     panics>>
  BY Zenon DEF MainNow, CanLock
<1>2. \A t \in Task : t \in ts => Held(t)
  BY Zenon DEF Held
<1>3. \A t \in Task : Held(t)' <=> Held(t) /\ t \notin ts
  BY Zenon, <1>1 DEF Held, IInv, Places
<1> HIDE DEF ts
<1>4. /\ outcome' \in [Task -> {"none", "handled", "stopped", "dropped"}]
      /\ \A t \in Task :
            /\ Held(t)' <=> call'[t] \in Accepted /\ outcome'[t] = "none"
            /\ call'[t] \in {"idle", "sending", "rejected", "timeout"} => outcome'[t] = "none"
  <2>1. TypeOK
    BY Zenon DEF IInv
  <2>2. Settles(ts)
    BY Zenon, <1>1, <2>1, ReplySettles
  <2> QED BY Zenon, <1>1, <1>2, <1>3, <2>2, ReplyPlaces
<1>5. TypeOK'
  <2>1. /\ tasksChan' \in Seq(Task) /\ Len(tasksChan') <= QueueSize
        /\ futures' \in Seq(Task) /\ Len(futures') <= MaxBatchCount
    BY <1>1, EmptySeq
  <2> QED BY Zenon, <1>1, <1>4, <2>1 DEF IInv, TypeOK
<1>6. Places'
  <2>1. TypeOK
    BY Zenon DEF IInv
  <2>2. \A t \in Task : outcome'[t] = "dropped" => outcome[t] = "dropped"
    BY Zenon, <1>1, <2>1, ReplySettles
  <2> QED BY Zenon, <1>1, <1>4, <2>2 DEF IInv, Places
<1>7. Loop'
  BY Zenon, <1>1 DEF IInv, Loop, Readers
<1>8. Idle'
  BY Zenon, <1>1 DEF Idle
<1> QED BY Zenon, <1>5, <1>6, <1>7, <1>8 DEF IInv

\* The main loop takes the token of a worker.
LEMMA TakeIdleStep == ASSUME IInv, TakeIdle PROVE IInv'
<1> USE BatchAssumption DEF callers, queue, stopping
<1>1. /\ main = "idle" /\ idleSignal # <<>> /\ main' = "send"
      /\ idleIndex' = Head(idleSignal) /\ idleSignal' = Tail(idleSignal)
      /\ UNCHANGED <<call, outcome, tasksChan, chanClosed, stop, stopper, done, after, futures,
                     worker, mode, batch, workersClosed, panics>>
  BY Zenon DEF TakeIdle
<1>2. /\ idleSignal' \in Seq(Worker) /\ Len(idleSignal') = Len(idleSignal) - 1
      /\ idleIndex' \in Worker /\ idleIndex' \in Range(idleSignal)
      /\ Range(idleSignal') \subseteq Range(idleSignal)
      /\ IsInjective(idleSignal) => IsInjective(idleSignal') /\ idleIndex' \notin Range(idleSignal')
  BY Zenon, <1>1, TailPlace DEF IInv, TypeOK
<1>3. TypeOK'
  <2>1. Len(idleSignal') <= Cardinality(Worker)
    BY <1>2, LenProperties, FS_CardinalityType DEF IInv, TypeOK
  <2> QED BY Zenon, <1>1, <1>2, <2>1 DEF IInv, TypeOK
<1>4. Places'
  BY Zenon, <1>1 DEF IInv, Places, Held
<1>5. Loop'
  BY Zenon, <1>1 DEF IInv, Loop, Readers
<1>6. Idle'
  BY Zenon, <1>1, <1>2 DEF IInv, Idle
<1> QED BY Zenon, <1>3, <1>4, <1>5, <1>6 DEF IInv

\* The batch goes to the worker whose token was taken.
LEMMA SendBatchStep == ASSUME IInv, SendBatch PROVE IInv'
<1> USE BatchAssumption, EmptyPlace DEF callers, queue, stopping
<1>1. /\ main = "send" /\ worker[idleIndex] = "receive" /\ main' = after /\ futures' = <<>>
      /\ worker' = [worker EXCEPT ![idleIndex] = "handle"]
      /\ batch' = [batch EXCEPT ![idleIndex] = futures]
      /\ UNCHANGED <<call, outcome, tasksChan, chanClosed, stop, stopper, done, after, idleIndex,
                     idleSignal, mode, workersClosed, panics>>
  BY Zenon DEF SendBatch
<1>2. idleIndex \in Worker /\ batch[idleIndex] = <<>>
  BY Zenon, <1>1 DEF IInv, TypeOK, Loop
<1>3. \A w \in Worker :
         /\ batch'[w] = IF w = idleIndex THEN futures ELSE batch[w]
         /\ worker'[w] = IF w = idleIndex THEN "handle" ELSE worker[w]
  BY <1>1 DEF IInv, TypeOK
<1>4. futures' \in Seq(Task) /\ Len(futures') = 0
  BY Zenon, <1>1, EmptySeq
<1>5. TypeOK'
  <2>1. batch' \in [Worker -> Seq(Task)] /\ Len(futures') <= MaxBatchCount
    BY <1>1, <1>4 DEF IInv, TypeOK
  <2> QED BY Zenon, <1>1, <1>4, <2>1 DEF IInv, TypeOK
<1>6. Places'
  <2>1. \A t \in Task : Held(t)' <=> Held(t)
    BY Zenon, <1>1, <1>2, <1>3 DEF Held
  <2>2. ASSUME NEW w \in Worker, NEW t \in Range(batch'[w])
        PROVE  /\ t \notin Range(tasksChan) /\ \A v \in Worker : t \in Range(batch'[v]) => v = w
    <3>1. CASE w = idleIndex
      BY Zenon, <1>3, <2>2, <3>1 DEF IInv, Places
    <3>2. CASE w # idleIndex
      BY Zenon, <1>3, <2>2, <3>2 DEF IInv, Places
    <3> QED BY Zenon, <3>1, <3>2
  <2> QED BY Zenon, <1>1, <2>1, <2>2 DEF IInv, Places
<1>7. Loop'
  <2>1. \A w \in Worker : worker'[w] # "handle" => batch'[w] = <<>>
    BY Zenon, <1>3 DEF IInv, Loop
  <2>2. main' \in {"select", "drain", "close"}
    BY Zenon, <1>1 DEF IInv, TypeOK
  <2> QED BY <1>1, <1>4, <2>1, <2>2 DEF IInv, Loop, Readers
<1>8. Idle'
  <2>1. main' # "send"
    BY Zenon, <1>1 DEF IInv, TypeOK
  <2>2. Range(idleSignal) \subseteq Worker
    BY Zenon, RangeOfSeq DEF IInv, TypeOK
  <2> QED BY Zenon, <1>1, <1>3, <2>1, <2>2 DEF IInv, Idle
<1> QED BY Zenon, <1>5, <1>6, <1>7, <1>8 DEF IInv

\* The steps of the main loop.
LEMMA MainLoopStep == ASSUME IInv, MainStep PROVE IInv'
<1> USE BatchAssumption DEF callers, queue, stopping, pool
<1>1. CASE MainReceive
  BY Zenon, <1>1, GatherStep DEF MainReceive
<1>2. CASE MainDrain
  BY Zenon, <1>2, GatherStep DEF MainDrain
<1>3. CASE MainTicker \/ MainGraceful \/ MainDrained
  BY Zenon, <1>3, ConsumeStep
<1>4. CASE MainNow
  BY Zenon, <1>4, MainNowStep
<1>5. CASE TakeIdle
  BY Zenon, <1>5, TakeIdleStep
<1>6. CASE SendBatch
  BY Zenon, <1>6, SendBatchStep
<1>7. CASE MainDone
  <2>1. TypeOK'
    BY Zenon, <1>7 DEF MainDone, IInv, TypeOK
  <2>2. Places'
    BY Zenon, <1>7 DEF MainDone, IInv, Places, Held
  <2>3. Loop'
    BY Zenon, <1>7 DEF MainDone, IInv, Loop, Readers
  <2>4. Idle'
    BY Zenon, <1>7 DEF MainDone, IInv, Idle
  <2> QED BY Zenon, <2>1, <2>2, <2>3, <2>4 DEF IInv
<1>8. CASE CloseWorkers
  <2>1. TypeOK'
    BY Zenon, <1>8 DEF CloseWorkers, IInv, TypeOK
  <2>2. Places'
    BY Zenon, <1>8 DEF CloseWorkers, IInv, Places, Held
  <2>3. Loop'
    BY Zenon, <1>8 DEF CloseWorkers, IInv, Loop, Readers
  <2>4. Idle'
    BY Zenon, <1>8 DEF CloseWorkers, Idle
  <2> QED BY Zenon, <2>1, <2>2, <2>3, <2>4 DEF IInv
<1>9. CASE Join
  <2>1. TypeOK'
    BY Zenon, <1>9 DEF Join, IInv, TypeOK
  <2>2. Places'
    BY Zenon, <1>9 DEF Join, IInv, Places, Held
  <2>3. Loop'
    BY Zenon, <1>9 DEF Join, IInv, Loop, Readers
  <2>4. Idle'
    BY Zenon, <1>9 DEF Join, IInv, Idle
  <2> QED BY Zenon, <2>1, <2>2, <2>3, <2>4 DEF IInv
<1> QED BY Zenon, <1>1, <1>2, <1>3, <1>4, <1>5, <1>6, <1>7, <1>8, <1>9 DEF MainStep
-----------------------------------------------------------------------------
\* A worker settles its batch, by its handler or by refusing it.
LEMMA AnswerStep == ASSUME IInv, NEW w \in Worker, HandleBatch(w) \/ RefuseBatch(w) PROVE IInv'
<1> USE BatchAssumption, EmptyPlace DEF queue, stopping, mainloop
<1> DEFINE ts == Range(batch[w])
<1>1. /\ worker[w] = "handle" /\ batch' = [batch EXCEPT ![w] = <<>>]
      /\ UNCHANGED <<call, tasksChan, chanClosed, stop, stopper, done, main, after, futures,
                     idleIndex, idleSignal, mode, workersClosed>>
  BY Zenon DEF HandleBatch, RefuseBatch
<1>2. /\ Settles(ts)
      /\ panics' = 0 => panics = 0 /\ \A t \in Task : outcome'[t] = "dropped" => outcome[t] = "dropped"
  <2>1. TypeOK
    BY Zenon DEF IInv
  <2>2. CASE Reply(ts, "handled") \/ Reply(ts, "stopped")
    <3>1. CASE panics' = panics
      BY Zenon, <2>1, <2>2, <3>1, ReplySettles
    <3>2. CASE panics' # panics
      BY <3>2, <2>1, <2>2, ReplySettles DEF HandleBatch, RefuseBatch, Panic, TypeOK
    <3> QED BY Zenon, <3>1, <3>2
  <2>3. ASSUME NEW replied \in SUBSET ts, Panic(ts, replied)
        PROVE  Settles(ts) /\ panics' # 0
    BY <2>1, <2>3 DEF Panic, Settles, TypeOK
  <2> QED BY Zenon, <2>2, <2>3 DEF HandleBatch, RefuseBatch
<1>3. PICK next \in {"report", "receive"} : worker' = [worker EXCEPT ![w] = next]
  BY Zenon DEF HandleBatch, RefuseBatch
<1>4. panics' \in 0..MaxPanics
  BY DEF HandleBatch, RefuseBatch, Panic, IInv, TypeOK
<1>5. \A v \in Worker :
         /\ batch'[v] = IF v = w THEN <<>> ELSE batch[v]
         /\ worker'[v] = IF v = w THEN next ELSE worker[v]
  BY <1>1, <1>3 DEF IInv, TypeOK
<1>6. \A t \in Task : t \in ts => Held(t)
  BY Zenon DEF Held
<1>7. \A t \in Task : Held(t)' <=> Held(t) /\ t \notin ts
  <2> SUFFICES ASSUME NEW t \in Task PROVE Held(t)' <=> Held(t) /\ t \notin ts
    BY Zenon
  <2>1. CASE t \in ts
    BY <1>1, <1>5, <2>1 DEF Held, IInv, Places
  <2>2. CASE t \notin ts
    BY Zenon, <1>1, <1>5, <2>2 DEF Held
  <2> QED BY Zenon, <2>1, <2>2
<1> HIDE DEF ts
<1>8. /\ outcome' \in [Task -> {"none", "handled", "stopped", "dropped"}]
      /\ \A t \in Task :
            /\ Held(t)' <=> call'[t] \in Accepted /\ outcome'[t] = "none"
            /\ call'[t] \in {"idle", "sending", "rejected", "timeout"} => outcome'[t] = "none"
  BY Zenon, <1>1, <1>2, <1>6, <1>7, ReplyPlaces
<1>9. TypeOK'
  <2>1. batch' \in [Worker -> Seq(Task)]
    BY Zenon, <1>1, EmptySeq DEF IInv, TypeOK
  <2>2. worker' \in [Worker -> {"report", "receive", "handle", "exited"}]
    BY Zenon, <1>3 DEF IInv, TypeOK
  <2> QED BY <1>1, <1>4, <1>8, <2>1, <2>2 DEF IInv, TypeOK
<1>10. Places'
  <2>1. ASSUME NEW v \in Worker, NEW t \in Range(batch'[v])
        PROVE  /\ t \notin Range(tasksChan) /\ t \notin Range(futures)
               /\ \A u \in Worker : t \in Range(batch'[u]) => u = v
    BY Zenon, <1>5, <2>1 DEF IInv, Places
  <2> QED BY Zenon, <1>1, <1>2, <1>8, <2>1 DEF IInv, Places
<1>11. Loop'
  <2>1. main # "exited"
    BY Zenon, <1>1 DEF IInv, Loop
  <2> QED BY Zenon, <1>1, <1>5, <2>1 DEF IInv, Loop, Readers
<1>12. Idle'
  <2>1. Range(idleSignal) \subseteq Worker /\ (main = "send" => idleIndex \in Worker)
    BY Zenon, RangeOfSeq DEF IInv, TypeOK
  <2> QED BY Zenon, <1>1, <1>5, <2>1 DEF IInv, Idle
<1> QED BY Zenon, <1>9, <1>10, <1>11, <1>12 DEF IInv

\* The steps of a worker.
LEMMA WorkStep == ASSUME IInv, NEW w \in Worker, WorkerStep(w) PROVE IInv'
<1> USE BatchAssumption DEF callers, queue, stopping, mainloop
<1>1. CASE ReportIdle(w)
  <2>1. /\ worker[w] = "report" /\ Len(idleSignal) < Cardinality(Worker)
        /\ idleSignal' = Append(idleSignal, w) /\ worker' = [worker EXCEPT ![w] = "receive"]
        /\ UNCHANGED <<call, outcome, tasksChan, chanClosed, stop, stopper, done, main, after,
                       futures, idleIndex, mode, batch, workersClosed, panics>>
    BY Zenon, <1>1 DEF ReportIdle
  <2>2. /\ idleSignal' \in Seq(Worker) /\ Len(idleSignal') = Len(idleSignal) + 1
        /\ Range(idleSignal') = Range(idleSignal) \cup {w}
        /\ IsInjective(idleSignal) /\ w \notin Range(idleSignal) => IsInjective(idleSignal')
    BY <2>1, AppendPlace DEF IInv, TypeOK
  <2>3. \A v \in Worker : worker'[v] = IF v = w THEN "receive" ELSE worker[v]
    BY <2>1 DEF IInv, TypeOK
  <2>4. TypeOK'
    <3>1. Len(idleSignal') <= Cardinality(Worker)
      BY <2>1, <2>2, LenProperties, FS_CardinalityType DEF IInv, TypeOK
    <3> QED BY <2>1, <2>2, <3>1 DEF IInv, TypeOK
  <2>5. Places'
    BY Zenon, <2>1 DEF IInv, Places, Held
  <2>6. Loop'
    BY Zenon, <2>1, <2>3 DEF IInv, Loop, Readers
  <2>7. Idle'
    <3>1. Range(idleSignal) \subseteq Worker /\ (main = "send" => idleIndex \in Worker)
      BY Zenon, RangeOfSeq DEF IInv, TypeOK
    <3> QED BY Zenon, <2>1, <2>2, <2>3, <3>1 DEF IInv, Idle
  <2> QED BY Zenon, <2>4, <2>5, <2>6, <2>7 DEF IInv
<1>2. CASE HandleBatch(w) \/ RefuseBatch(w)
  BY Zenon, <1>2, AnswerStep
<1>3. CASE WorkerDone(w)
  <2>1. TypeOK'
    BY Zenon, <1>3 DEF WorkerDone, IInv, TypeOK
  <2>2. Places'
    BY Zenon, <1>3 DEF WorkerDone, IInv, Places, Held
  <2>3. Loop'
    BY Zenon, <1>3 DEF WorkerDone, IInv, Loop, Readers
  <2>4. Idle'
    BY Zenon, <1>3 DEF WorkerDone, IInv, Idle
  <2> QED BY Zenon, <2>1, <2>2, <2>3, <2>4 DEF IInv
<1>4. CASE ReceiveClosed(w)
  <2>1. TypeOK'
    BY Zenon, <1>4 DEF ReceiveClosed, IInv, TypeOK
  <2>2. Places'
    BY Zenon, <1>4 DEF ReceiveClosed, IInv, Places, Held
  <2>3. Loop'
    BY <1>4 DEF ReceiveClosed, IInv, TypeOK, Loop, Readers
  <2>4. Idle'
    BY Zenon, <1>4 DEF ReceiveClosed, Idle
  <2> QED BY Zenon, <2>1, <2>2, <2>3, <2>4 DEF IInv
<1> QED BY Zenon, <1>1, <1>2, <1>3, <1>4 DEF WorkerStep

\* Every step of the batch controller keeps the invariant.
LEMMA Inductive == IInv /\ [Next]_vars => IInv'
<1> SUFFICES ASSUME IInv, [Next]_vars PROVE IInv'
  BY Zenon
<1>1. ASSUME NEW t \in Task,
             Submit(t) \/ Enqueue(t) \/ SubmitTimeout(t) \/ Done(t) \/ DoneTimeout(t)
      PROVE  IInv'
  BY Zenon, <1>1, CallerStep
<1>2. ASSUME NEW k \in StopKinds, StopCalled(k) \/ StopLocked(k) PROVE IInv'
  BY Zenon, <1>2, StopStep
<1>3. CASE MainStep
  BY Zenon, <1>3, MainLoopStep
<1>4. ASSUME NEW w \in Worker, WorkerStep(w) PROVE IInv'
  BY Zenon, <1>4, WorkStep
<1>5. CASE UNCHANGED vars
  BY <1>5 DEF vars, callers, queue, stopping, mainloop, pool, IInv, TypeOK, Places, Held, Loop,
              Readers, Idle
<1> QED BY Zenon, <1>1, <1>2, <1>3, <1>4, <1>5 DEF Next, Finished

\* The counts that HeldOnce and IdleOnce speak of.
LEMMA Counted == IInv => HeldOnce /\ IdleOnce
<1> SUFFICES ASSUME IInv PROVE HeldOnce /\ IdleOnce
  BY Zenon
<1>1. ASSUME NEW t \in Task
      PROVE  Occurrences(tasksChan, t) + Occurrences(futures, t) + Cardinality(Holders(t))
               = IF call[t] \in Accepted /\ outcome[t] = "none" THEN 1 ELSE 0
  <2>1. Held(t) <=> call[t] \in Accepted /\ outcome[t] = "none"
    BY Zenon DEF IInv, Places
  <2>2. /\ t \in Range(tasksChan) => Occurrences(tasksChan, t) = 1
        /\ t \notin Range(tasksChan) => Occurrences(tasksChan, t) = 0
        /\ t \in Range(futures) => Occurrences(futures, t) = 1
        /\ t \notin Range(futures) => Occurrences(futures, t) = 0
    BY Zenon, OccursOnce DEF IInv, Places
  <2>3. ASSUME NEW w \in Worker, t \in Range(batch[w])
        PROVE  Cardinality(Holders(t)) = 1 /\ t \notin Range(tasksChan) /\ t \notin Range(futures)
    <3>1. Holders(t) = {w}
      BY <2>3 DEF Holders, IInv, Places
    <3> QED BY Zenon, <2>3, <3>1, FS_Singleton DEF IInv, Places
  <2>4. ASSUME \A w \in Worker : t \notin Range(batch[w]) PROVE Cardinality(Holders(t)) = 0
    <3>1. Holders(t) = {}
      BY Zenon, <2>4 DEF Holders
    <3> QED BY Zenon, <3>1, FS_EmptySet
  <2>5. t \in Range(tasksChan) => t \notin Range(futures)
    BY Zenon DEF IInv, Places
  <2>6. CASE \E w \in Worker : t \in Range(batch[w])
    BY <2>1, <2>2, <2>3, <2>6 DEF Held
  <2>7. CASE \A w \in Worker : t \notin Range(batch[w])
    BY <2>1, <2>2, <2>4, <2>5, <2>7 DEF Held
  <2> QED BY Zenon, <2>6, <2>7
<1>2. ASSUME ~workersClosed, NEW w \in Worker
      PROVE  Occurrences(idleSignal, w) + (IF main = "send" /\ idleIndex = w THEN 1 ELSE 0)
               <= (IF worker[w] = "receive" THEN 1 ELSE 0)
  <2>1. /\ w \in Range(idleSignal) => Occurrences(idleSignal, w) = 1
        /\ w \notin Range(idleSignal) => Occurrences(idleSignal, w) = 0
    BY Zenon, <1>2, OccursOnce DEF IInv, Idle
  <2>2. /\ w \in Range(idleSignal) => worker[w] = "receive" /\ ~(main = "send" /\ idleIndex = w)
        /\ main = "send" /\ idleIndex = w => worker[w] = "receive"
    BY Zenon, <1>2 DEF IInv, Idle
  <2> QED BY <2>1, <2>2
<1> QED BY Zenon, <1>1, <1>2 DEF HeldOnce, IdleOnce

\* A task that Submit has queued is in exactly one place until its batch is
\* handled or refused. When the main loop has exited, nothing is without a reply
\* but what a panicking handler has dropped, and nothing is dropped without a
\* panic, for every number of tasks and workers (handler, mainLoop, workerLoop).
THEOREM BatchHandover == Spec => []Handover
<1>1. IInv => Handover
  <2> SUFFICES ASSUME IInv PROVE Handover
    BY Zenon
  <2>1. ASSUME main = "exited", NEW t \in Task, call[t] \in Accepted
        PROVE  Replied(t) \/ outcome[t] = "dropped"
    <3>1. ~Held(t)
      BY Zenon, <2>1, EmptyPlace DEF Held, IInv, Loop
    <3>2. outcome[t] # "none"
      BY Zenon, <2>1, <3>1 DEF IInv, Places
    <3> QED BY <2>1, <3>2 DEF IInv, TypeOK, Replied
  <2>2. ExitedAllAnswered
    BY Zenon, <2>1 DEF ExitedAllAnswered, IInv, Places
  <2> QED BY Zenon, <2>2, Counted DEF IInv, Handover
<1> QED BY <1>1, InitIInv, Inductive, PTL DEF Spec

\* No caller is in a send when the main loop has closed the channel, and a
\* worker on offer waits for its batch (bc.lock, bc.idleSignal).
THEOREM BatchChannelsSafe == Spec => []ChannelsSafe
<1>1. IInv => ChannelsSafe
  BY Zenon, Counted DEF IInv, Loop, ChannelsSafe, NoSendOnClosed
<1> QED BY <1>1, InitIInv, Inductive, PTL DEF Spec
=============================================================================
