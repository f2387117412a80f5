--------------------------- MODULE BatchController ---------------------------
(***************************************************************************)
(* The batch executor of src/common/batchjob: callers submit tasks into a  *)
(* bounded channel; a main loop gathers them into batches of at most       *)
(* MaxBatchCount and hands each batch to an idle worker, whose handler     *)
(* replies to every future of the batch.  A handler that panics is         *)
(* recovered, but nobody replies to the futures it has left.  Stop answers *)
(* what has not been handled with an error, GracefulStop handles it first. *)
(*                                                                         *)
(* Goroutines: one caller per task, the main loop, Concurrency workers and *)
(* one goroutine per call of Stop or GracefulStop.  A channel operation or *)
(* the acquisition of the lock is one step.                                *)
(***************************************************************************)
EXTENDS Integers, Sequences, FiniteSets, Functions

CONSTANTS
    Task,            \* the tasks submitted, one caller each
    Worker,          \* worker indexes, Concurrency of them
    QueueSize,       \* capacity of tasksChan
    MaxBatchCount,
    StopKinds,       \* which of "now" (Stop) and "graceful" may be called
    MaxPanics        \* how many handlers may panic

ASSUME BatchAssumption ==
    /\ QueueSize \in Nat \ {0} /\ MaxBatchCount \in Nat \ {0} /\ MaxPanics \in Nat
    /\ IsFiniteSet(Worker) /\ StopKinds \subseteq {"now", "graceful"}

VARIABLES
    call,         \* where the caller of each task is
    outcome,      \* what the future of each task was replied with, or "dropped" when a
                  \* handler panicked before it did: there is no reply, and will be none
    tasksChan,    \* the channel of submitted futures
    chanClosed,
    stop,         \* bc.stop
    stopper,      \* where each call of Stop / GracefulStop is
    done,         \* ctx.Done() is closed
    main,         \* where the main loop is
    after,        \* where triggerConsume returns to
    futures,      \* the batch being gathered
    idleIndex,    \* the worker triggerConsume has picked
    idleSignal,   \* the channel of idle worker indexes
    worker,       \* where each worker is
    mode,         \* the stop mode each worker has seen
    batch,        \* the batch each worker holds
    workersClosed,
    panics

callers == <<call, outcome>>
queue == <<tasksChan, chanClosed>>
stopping == <<stop, stopper, done>>
mainloop == <<main, after, futures, idleIndex>>
pool == <<idleSignal, worker, mode, batch, workersClosed, panics>>
vars == <<callers, queue, stopping, mainloop, pool>>

TypeOK ==
    /\ call \in [Task -> {"idle", "sending", "waiting", "abandoned", "returned",
                           "rejected", "timeout"}]
    /\ outcome \in [Task -> {"none", "handled", "stopped", "dropped"}]
    /\ tasksChan \in Seq(Task) /\ Len(tasksChan) <= QueueSize
    /\ stop \in {"no", "now", "graceful"}
    /\ stopper \in [StopKinds -> {"idle", "locking", "done"}]
    /\ main \in {"select", "idle", "send", "lock", "drain", "close", "join", "exited"}
    /\ after \in {"select", "drain", "close"}
    /\ futures \in Seq(Task) /\ Len(futures) <= MaxBatchCount
    /\ (main = "send" => idleIndex \in Worker) /\ idleSignal \in Seq(Worker)
    /\ Len(idleSignal) <= Cardinality(Worker)
    /\ worker \in [Worker -> {"report", "receive", "handle", "exited"}]
    /\ mode \in [Worker -> {"no", "now", "graceful"}]
    /\ batch \in [Worker -> Seq(Task)]
    /\ {done, chanClosed, workersClosed} \subseteq BOOLEAN
    /\ panics \in 0..MaxPanics

Init ==
    /\ call = [t \in Task |-> "idle"] /\ outcome = [t \in Task |-> "none"]
    /\ tasksChan = <<>> /\ chanClosed = FALSE
    /\ stop = "no" /\ stopper = [k \in StopKinds |-> "idle"] /\ done = FALSE
    /\ main = "select" /\ after = "select" /\ futures = <<>>
    /\ idleIndex = (CHOOSE w \in Worker : TRUE) /\ idleSignal = <<>>
    /\ worker = [w \in Worker |-> "report"] /\ mode = [w \in Worker |-> "no"]
    /\ batch = [w \in Worker |-> <<>>]
    /\ workersClosed = FALSE /\ panics = 0

-----------------------------------------------------------------------------
\* bc.lock is a RWMutex.  A caller holds it for reading while it sends; the main
\* loop holds it for writing from its stop on; a waiting writer keeps new readers
\* out.
Readers == {t \in Task : call[t] = "sending"}
WriterWaits == main = "lock" \/ \E k \in StopKinds : stopper[k] = "locking"
MainHoldsLock == chanClosed /\ main # "exited"
CanRLock == ~WriterWaits /\ ~MainHoldsLock
\* Mutant of CanLock: senders do not hold the lock.
CanLockAnyway == ~MainHoldsLock

CanLock == Readers = {} /\ ~MainHoldsLock

isStop == stop # "no"

\* Submit and SubmitWithTimeout up to the send.
Submit(t) ==
    /\ call[t] = "idle" /\ CanRLock
    /\ call' = [call EXCEPT ![t] = IF isStop THEN "rejected" ELSE "sending"]
    /\ UNCHANGED <<outcome, queue, stopping, mainloop, pool>>

\* Mutant of Enqueue: the channel is made one place too large.
EnqueueOffByOne(t) ==
    /\ call[t] = "sending" /\ Len(tasksChan) <= QueueSize
    /\ tasksChan' = Append(tasksChan, t)
    /\ call' = [call EXCEPT ![t] = "waiting"]
    /\ UNCHANGED <<outcome, chanClosed, stopping, mainloop, pool>>

Enqueue(t) ==
    /\ call[t] = "sending" /\ Len(tasksChan) < QueueSize
    /\ tasksChan' = Append(tasksChan, t)
    /\ call' = [call EXCEPT ![t] = "waiting"]
    /\ UNCHANGED <<outcome, chanClosed, stopping, mainloop, pool>>

\* The timer of SubmitWithTimeout: the future is cancelled and never queued.
SubmitTimeout(t) ==
    /\ call[t] = "sending"
    /\ call' = [call EXCEPT ![t] = "timeout"]
    /\ UNCHANGED <<outcome, queue, stopping, mainloop, pool>>

Replied(t) == outcome[t] \in {"handled", "stopped"}

\* Done returns once the future has been replied to; of a dropped one it never does.
Done(t) ==
    /\ call[t] = "waiting" /\ Replied(t)
    /\ call' = [call EXCEPT ![t] = "returned"]
    /\ UNCHANGED <<outcome, queue, stopping, mainloop, pool>>

\* DoneTimeout: the caller gives up, the future stays where it is.
DoneTimeout(t) ==
    /\ call[t] = "waiting"
    /\ call' = [call EXCEPT ![t] = "abandoned"]
    /\ UNCHANGED <<outcome, queue, stopping, mainloop, pool>>

\* Reply takes effect on the first call only.
Reply(ts, answer) ==
    outcome' = [t \in Task |-> IF t \in ts /\ outcome[t] = "none" THEN answer
                                                                   ELSE outcome[t]]

StopCalled(k) ==
    /\ stopper[k] = "idle"
    /\ stopper' = [stopper EXCEPT ![k] = "locking"]
    /\ UNCHANGED <<callers, queue, stop, done, mainloop, pool>>

\* Stop and GracefulStop once they have the lock.
StopLocked(k) ==
    /\ stopper[k] = "locking" /\ CanLock
    /\ stopper' = [stopper EXCEPT ![k] = "done"]
    /\ stop' = k /\ done' = TRUE
    /\ UNCHANGED <<callers, queue, mainloop, pool>>

-----------------------------------------------------------------------------
\* triggerConsume(futures), called from a place that continues at next.
TriggerConsume(fs, next) ==
    /\ futures' = fs
    /\ main' = IF fs = <<>> THEN next ELSE "idle"
    /\ after' = next
    /\ UNCHANGED idleIndex

Gather(next) ==
    LET fs == Append(futures, Head(tasksChan)) IN
    /\ tasksChan # <<>> /\ tasksChan' = Tail(tasksChan)
    /\ IF Len(fs) = MaxBatchCount THEN TriggerConsume(fs, next)
                                  ELSE futures' = fs /\ UNCHANGED <<main, after, idleIndex>>
    /\ UNCHANGED <<callers, chanClosed, stopping, pool>>

\* The three cases of the select of the main loop.
MainReceive == main = "select" /\ Gather("select")

MainTicker ==
    /\ main = "select" /\ futures # <<>>
    /\ TriggerConsume(futures, "select")
    /\ UNCHANGED <<callers, queue, stopping, pool>>

MainDone ==
    /\ main = "select" /\ done /\ main' = "lock"
    /\ UNCHANGED <<callers, queue, stopping, after, futures, idleIndex, pool>>

\* idleIndex := <-bc.idleSignal
\* Mutant of TakeIdle: the token of the worker stays in the channel.
TakeIdlePeek ==
    /\ main = "idle" /\ idleSignal # <<>>
    /\ idleIndex' = Head(idleSignal) /\ main' = "send"
    /\ UNCHANGED <<callers, queue, stopping, after, futures, pool>>

TakeIdle ==
    /\ main = "idle" /\ idleSignal # <<>>
    /\ idleIndex' = Head(idleSignal) /\ idleSignal' = Tail(idleSignal)
    /\ main' = "send"
    /\ UNCHANGED <<callers, queue, stopping, after, futures, worker, mode,
                   batch, workersClosed, panics>>

\* bc.workers[idleIndex] <- data: a rendezvous with a worker that receives.
\* Mutant of SendBatch: the batch is not reset after it was handed over.
SendBatchNoReset ==
    /\ main = "send" /\ worker[idleIndex] = "receive"
    /\ worker' = [worker EXCEPT ![idleIndex] = "handle"]
    /\ batch' = [batch EXCEPT ![idleIndex] = futures]
    /\ main' = after
    /\ UNCHANGED <<callers, queue, stopping, after, futures, idleIndex, idleSignal, mode,
                   workersClosed, panics>>

SendBatch ==
    /\ main = "send" /\ worker[idleIndex] = "receive"
    /\ worker' = [worker EXCEPT ![idleIndex] = "handle"]
    /\ batch' = [batch EXCEPT ![idleIndex] = futures]
    /\ futures' = <<>> /\ main' = after
    /\ UNCHANGED <<callers, queue, stopping, after, idleIndex, idleSignal, mode,
                   workersClosed, panics>>

\* stopFunc of the main loop: with the lock, close the channel; then hand over
\* or refuse what is left.
MainGraceful ==
    /\ main = "lock" /\ CanLock /\ stop = "graceful"
    /\ chanClosed' = TRUE
    /\ TriggerConsume(futures, "drain")
    /\ UNCHANGED <<callers, tasksChan, stopping, pool>>

MainNow ==
    /\ main = "lock" /\ CanLock /\ stop = "now"
    /\ chanClosed' = TRUE /\ workersClosed' = TRUE
    /\ Reply(Range(futures) \cup Range(tasksChan), "stopped")
    /\ tasksChan' = <<>> /\ futures' = <<>> /\ main' = "join"
    /\ UNCHANGED <<call, stopping, after, idleIndex, idleSignal, worker, mode, batch,
                   panics>>

MainDrain == main = "drain" /\ Gather("drain")

\* Mutant of MainDrained: the last, incomplete batch is not handed over.
MainDrainedForgets ==
    /\ main = "drain" /\ tasksChan = <<>>
    /\ main' = "close"
    /\ UNCHANGED <<callers, queue, stopping, after, futures, idleIndex, pool>>

MainDrained ==
    /\ main = "drain" /\ tasksChan = <<>>
    /\ TriggerConsume(futures, "close")
    /\ UNCHANGED <<callers, queue, stopping, pool>>

CloseWorkers ==
    /\ main = "close" /\ workersClosed' = TRUE /\ main' = "join"
    /\ UNCHANGED <<callers, queue, stopping, after, futures, idleIndex,
                   idleSignal, worker, mode, batch, panics>>

\* <-bc.allWorkersStop, and the deferred unlock.
\* Mutant of Join: the main loop does not wait for the workers.
JoinNobody ==
    /\ main = "join" /\ main' = "exited"
    /\ UNCHANGED <<callers, queue, stopping, after, futures, idleIndex, pool>>

Join ==
    /\ main = "join" /\ \A w \in Worker : worker[w] = "exited"
    /\ main' = "exited"
    /\ UNCHANGED <<callers, queue, stopping, after, futures, idleIndex, pool>>

MainStep ==
    \/ MainReceive \/ MainTicker \/ MainDone \/ TakeIdle \/ SendBatch
    \/ MainGraceful \/ MainNow \/ MainDrain \/ MainDrained \/ CloseWorkers \/ Join

-----------------------------------------------------------------------------
\* bc.idleSignal <- index blocks while the channel is full.
ReportIdle(w) ==
    /\ worker[w] = "report" /\ Len(idleSignal) < Cardinality(Worker)
    /\ idleSignal' = Append(idleSignal, w)
    /\ worker' = [worker EXCEPT ![w] = "receive"]
    /\ UNCHANGED <<callers, queue, stopping, mainloop, mode, batch, workersClosed, panics>>

\* The handler has replied to some futures of the batch when it panics.  The
\* recover only logs, so that the others get no reply.
Panic(ts, replied) ==
    /\ panics < MaxPanics /\ panics' = panics + 1
    /\ outcome' = [t \in Task |-> CASE t \in replied /\ outcome[t] = "none" -> "handled"
                                    [] t \in ts \ replied /\ outcome[t] = "none" -> "dropped"
                                    [] OTHER -> outcome[t]]

\* The handler replies to every future of its batch, or panics.
HandleBatch(w) ==
    /\ worker[w] = "handle" /\ mode[w] # "now"
    /\ worker' = [worker EXCEPT ![w] = "report"]
    /\ batch' = [batch EXCEPT ![w] = <<>>]
    /\ \/ Reply(Range(batch[w]), "handled") /\ UNCHANGED panics
       \/ batch[w] # <<>> /\ \E replied \in SUBSET Range(batch[w]) : Panic(Range(batch[w]), replied)
    /\ UNCHANGED <<call, queue, stopping, mainloop, idleSignal, mode, workersClosed>>

\* A worker that was stopped at once refuses its batch and does not report idle.
RefuseBatch(w) ==
    /\ worker[w] = "handle" /\ mode[w] = "now"
    /\ worker' = [worker EXCEPT ![w] = "receive"]
    /\ batch' = [batch EXCEPT ![w] = <<>>]
    /\ Reply(Range(batch[w]), "stopped")
    /\ UNCHANGED <<call, queue, stopping, mainloop, idleSignal, mode, workersClosed,
                   panics>>

\* ctx.Done() in the select of the worker loop.
WorkerDone(w) ==
    /\ worker[w] = "receive" /\ mode[w] = "no" /\ done
    /\ mode' = [mode EXCEPT ![w] = stop]
    /\ UNCHANGED <<callers, queue, stopping, mainloop, idleSignal, worker, batch,
                   workersClosed, panics>>

\* Receiving from the closed channel ends the range loops of stopFunc.  In the
\* select of the worker loop it yields a nil batch, which is handled like any
\* other.
ReceiveClosed(w) ==
    /\ worker[w] = "receive" /\ workersClosed
    /\ worker' = [worker EXCEPT ![w] = IF mode[w] = "no" THEN "handle" ELSE "exited"]
    /\ UNCHANGED <<callers, queue, stopping, mainloop, idleSignal, mode, batch,
                   workersClosed, panics>>

WorkerStep(w) ==
    \/ ReportIdle(w) \/ HandleBatch(w) \/ RefuseBatch(w)
    \/ WorkerDone(w) \/ ReceiveClosed(w)

\* A controller that has exited is at rest; any other state without a successor
\* is a deadlock.
Finished == main = "exited" /\ UNCHANGED vars

Next ==
    \/ \E t \in Task : Submit(t) \/ Enqueue(t) \/ SubmitTimeout(t)
                      \/ Done(t) \/ DoneTimeout(t)
    \/ \E k \in StopKinds : StopCalled(k) \/ StopLocked(k)
    \/ MainStep
    \/ \E w \in Worker : WorkerStep(w)
    \/ Finished

\* Runnable goroutines run, and a ready select case is taken in the end.
Fairness ==
    /\ WF_vars(MainStep)
    /\ \A w \in Worker : WF_vars(WorkerStep(w))
    /\ \A t \in Task : WF_vars(Enqueue(t)) /\ WF_vars(Done(t))
    /\ \A k \in StopKinds : WF_vars(StopLocked(k))

Spec == Init /\ [][Next]_vars /\ Fairness

-----------------------------------------------------------------------------
\* A task is held in exactly one place from the moment Submit has queued it
\* until its batch has been handled or refused: the channel, the batch being
\* gathered, or the batch of one worker, once.  No hand-over between goroutines
\* loses or copies it.
Accepted == {"waiting", "abandoned"}
Occurrences(s, t) == Cardinality({i \in DOMAIN s : s[i] = t})
Holders(t) == {w \in Worker : t \in Range(batch[w])}

HeldOnce ==
    \A t \in Task :
        LET n == Occurrences(tasksChan, t) + Occurrences(futures, t)
                 + Cardinality(Holders(t))
        IN n = IF call[t] \in Accepted /\ outcome[t] = "none" THEN 1 ELSE 0

\* When the main loop has exited, everything that was accepted was replied to,
\* but for what a handler has dropped.  Only a panic drops futures.
ExitedAllAnswered ==
    /\ main = "exited" =>
         \A t \in Task : call[t] \in Accepted => Replied(t) \/ outcome[t] = "dropped"
    /\ panics = 0 => \A t \in Task : outcome[t] # "dropped"

\* The channel is not written after the main loop has closed it: no caller is
\* inside the send (it would panic) when the lock has been taken.
NoSendOnClosed == chanClosed => Readers = {}

\* Until the worker channels are closed, a worker index is offered at most once,
\* and only while that worker holds no batch: the main loop never waits for a
\* worker that is still in its handler, and reporting idle never blocks.
IdleOnce ==
    ~workersClosed =>
        \A w \in Worker :
            LET n == Occurrences(idleSignal, w)
                     + (IF main = "send" /\ idleIndex = w THEN 1 ELSE 0)
            IN n <= (IF worker[w] = "receive" THEN 1 ELSE 0)

\* No task is lost or copied between the goroutines, and none is left behind:
\* what a caller waits for in vain is what a panicking handler has dropped.
Handover == TypeOK /\ HeldOnce /\ ExitedAllAnswered

\* No goroutine sends on a closed channel or waits for a busy worker.
ChannelsSafe == NoSendOnClosed /\ IdleOnce

\* Every future that Submit accepted is replied to in the end, unless the handler
\* of its own batch panics or Stop is called: a panic takes down neither the worker
\* nor what is queued behind it, and GracefulStop leaves nothing behind.
AcceptedAnswered ==
    \A t \in Task :
        call[t] \in Accepted ~> (Replied(t) \/ outcome[t] = "dropped" \/ stop = "now")

\* The same with Stop: whoever waits for a future is told that the controller
\* has stopped.
StopAnswers ==
    \A t \in Task : call[t] \in Accepted ~> (Replied(t) \/ outcome[t] = "dropped")

\* Done returns to whoever waits, whatever its handler does.
DoneReturns == \A t \in Task : call[t] = "waiting" ~> (call[t] # "waiting" \/ stop = "now")

\* A stop that was called completes: the main loop and every worker exit.
StopCompletes ==
    (\E k \in StopKinds : stopper[k] = "locking") ~> main = "exited"
=============================================================================
