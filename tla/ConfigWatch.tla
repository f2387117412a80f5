---------------------------- MODULE ConfigWatch ----------------------------
(***************************************************************************)
(* The configuration centre of one server: releases in the store, the      *)
(* scanner that turns them into events, the file cache, the watch centre   *)
(* that notifies the long-polling clients, and the connection manager that *)
(* answers them when they time out (src/config, src/cache/config_file.go). *)
(* A Conn is one WatchConfigFiles call: the code gives each a fresh uuid   *)
(* as client id, so an id is reused here only when nothing refers to it.   *)
(* The calls on the cache are atomic here; a load that races with a        *)
(* release is in the module ConfigFileCache.                               *)
(***************************************************************************)
EXTENDS Integers, Sequences, FiniteSets, Functions, TLC

CONSTANTS Client,      \* the SDK clients, each with at most one watch open
          Conn,        \* ids of watch requests
          NoConn,      \* a client that has no watch open
          File,        \* the configuration files
          MaxVersion,  \* bound on the versions of a file
          QueueSize,   \* capacity of releaseMessageQueue
          MayExpire,   \* TRUE iff a scan may come later than MessageExpireTime
          MayEvict,    \* TRUE iff cache entries may outlive expireTimeAfterWrite
          MayDelete,   \* TRUE iff releases may be deleted
          MayFail      \* TRUE iff the store may fail a load of the cache

ASSUME ConfigConstants ==
    /\ Client # {} /\ File # {} /\ NoConn \notin Conn
    /\ Cardinality(Conn) > Cardinality(Client)
    /\ MaxVersion \in Nat \ {0} /\ QueueSize \in Nat \ {0}
    /\ {MayExpire, MayEvict, MayDelete, MayFail} \subseteq BOOLEAN

VARIABLES
    row,       \* row[f]: the release of f in the store, version 0 before the first
    cache,     \* cache[f]: the entry of fileCache.files, or Absent
    scanned,   \* the releases the scanner has read and not handled yet
    event,     \* the release handleEvent is about to put into the queue
    queue,     \* releaseMessageQueue
    bucket,    \* the files that have an entry in configFileWatchers
    watchers,  \* watchers[f]: the client ids and versions of the inner map
    conns,     \* connManager.conns
    due,       \* the connections whose finishTime has passed
    closed,    \* the connections whose finishChan is closed
    handler,   \* handler[k]: the goroutine serving the request k
    notifier,  \* the goroutine of watchCenter.handleMessage
    timeouter, \* the goroutine of startHandleTimeoutRequestWorker
    crashed,   \* a panic outside a recover ended the process
    open,      \* open[c]: the request client c waits for
    known      \* known[c][f]: the version of f client c has

server == <<scanned, event, queue, bucket, watchers, conns, due, closed, notifier, timeouter>>
vars == <<row, cache, server, handler, crashed, open, known>>

Absent == [ver |-> 0, kind |-> "absent"]
EmptyEntry == [ver |-> 0, kind |-> "empty"]
NoChange == [file |-> "none", ver |-> 0]
IdleHandler == [pc |-> "free", watch |-> <<>>, todo |-> {}, at |-> "none", base |-> <<>>,
                answer |-> NoChange]
IdleNotifier == [pc |-> "idle", msg |-> NoChange, ranging |-> {}, at |-> NoConn]
IdleTimeouter == [pc |-> "idle", ranging |-> {}, at |-> NoConn]

Version == 0..MaxVersion
Message == [file : File, ver : Version]

(* One type invariant for the state of the configuration centre.           *)
TypeOK ==
    /\ row \in [File -> [ver : Version, flag : {0, 1}]]
    /\ cache \in [File -> [ver : Version, kind : {"absent", "empty", "file"}]]
    /\ scanned \subseteq [file : File, ver : Version, flag : {0, 1}]
    /\ event \in Message \cup {NoChange}
    /\ queue \in Seq(Message) /\ Len(queue) <= QueueSize
    /\ bucket \subseteq File
    /\ watchers \in [File -> SUBSET [conn : Conn, ver : Version]]
    /\ conns \subseteq Conn /\ due \subseteq conns /\ closed \subseteq Conn
    /\ \A k \in Conn :
         /\ handler[k].pc \in {"free", "addconn", "load", "lock", "hold", "done"}
         /\ handler[k].todo \subseteq File
         /\ handler[k].answer \in Message \cup {NoChange}
    /\ notifier.pc \in {"idle", "range", "send", "close", "remove", "delete"}
    /\ notifier.ranging \subseteq Conn /\ notifier.at \in Conn \cup {NoConn}
    /\ timeouter.pc \in {"idle", "range", "send", "remove", "delete"}
    /\ timeouter.ranging \subseteq Conn /\ timeouter.at \in Conn \cup {NoConn}
    /\ crashed \in BOOLEAN
    /\ open \in [Client -> Conn \cup {NoConn}]
    /\ known \in [Client -> [File -> Version]]

Init ==
    /\ row = [f \in File |-> [ver |-> 0, flag |-> 0]]
    /\ cache = [f \in File |-> Absent]
    /\ scanned = {} /\ event = NoChange /\ queue = <<>>
    /\ bucket = {} /\ watchers = [f \in File |-> {}]
    /\ conns = {} /\ due = {} /\ closed = {}
    /\ handler = [k \in Conn |-> IdleHandler]
    /\ notifier = IdleNotifier /\ timeouter = IdleTimeouter
    /\ crashed = FALSE
    /\ open = [c \in Client |-> NoConn]
    /\ known = [c \in Client |-> [f \in File |-> 0]]
-----------------------------------------------------------------------------
(***************************************************************************)
(* The store and the cache.                                                *)
(***************************************************************************)
Running == ~crashed /\ UNCHANGED crashed

Released(f) == row[f].ver > 0 /\ row[f].flag = 0

\* What the store answers to GetConfigFileRelease: only a row with flag 0.
Loaded(f) == IF Released(f) THEN [ver |-> row[f].ver, kind |-> "file"] ELSE EmptyEntry

GetOrLoadIfAbsent(f) == IF cache[f] = Absent THEN Loaded(f) ELSE cache[f]

PublishConfigFile(f) ==
    /\ Running /\ row[f].ver < MaxVersion
    /\ row' = [row EXCEPT ![f] = [ver |-> @.ver + 1, flag |-> 0]]
    /\ UNCHANGED <<cache, server, handler, open, known>>

DeleteConfigFileRelease(f) ==
    /\ Running /\ MayDelete /\ Released(f) /\ row[f].ver < MaxVersion
    /\ row' = [row EXCEPT ![f] = [ver |-> @.ver + 1, flag |-> 1]]
    /\ UNCHANGED <<cache, server, handler, open, known>>

\* startClearExpireEntryTask drops an entry older than expireTimeAfterWrite.
ClearExpireEntry(f) ==
    /\ Running /\ MayEvict /\ cache[f] # Absent
    /\ cache' = [cache EXCEPT ![f] = Absent]
    /\ UNCHANGED <<row, server, handler, open, known>>
-----------------------------------------------------------------------------
(***************************************************************************)
(* releaseMessageScanner: it reads the releases, then handles them one by  *)
(* one; a release may change in the store in between.                      *)
(***************************************************************************)
ScanRead ==
    /\ Running /\ scanned = {} /\ event = NoChange
    /\ scanned' = {[file |-> f, ver |-> row[f].ver, flag |-> row[f].flag] :
                       f \in {g \in File : row[g].ver > 0}}
    /\ scanned' # {}
    /\ UNCHANGED <<row, cache, event, queue, bucket, watchers, conns, due, closed, notifier,
                   timeouter, handler, open, known>>

\* A mutant: a file that is cached as empty, or not at all, is never news.
IsNewsIfCached(m) == cache[m.file].kind = "file" /\ m.ver > cache[m.file].ver

IsNews(m) == \/ cache[m.file].kind # "file"
             \/ m.ver > cache[m.file].ver

\* One release of handlerReleases. late[1], late[2]: what the two calls of
\* isExpireMessage return. A reload that fails leaves no entry; its error is
\* dropped and the event goes out all the same.
HandlerRelease(m, late) ==
    /\ Running /\ m \in scanned /\ event = NoChange
    /\ late[1] => late[2]
    /\ late[2] => MayExpire
    /\ scanned' = scanned \ {m}
    /\ IF ~IsNews(m) \/ (m.flag = 1 /\ late[1])
       THEN UNCHANGED <<cache, event>>
       ELSE /\ \/ m.flag = 0 /\ cache' = [cache EXCEPT ![m.file] = Loaded(m.file)]
               \/ (m.flag = 1 \/ MayFail) /\ cache' = [cache EXCEPT ![m.file] = Absent]
            /\ event' = IF late[2] THEN NoChange ELSE [file |-> m.file, ver |-> m.ver]
    /\ UNCHANGED <<row, queue, bucket, watchers, conns, due, closed, notifier, timeouter,
                   handler, open, known>>

\* A mutant: the queue has no bound.
HandleEventAnyway ==
    /\ Running /\ event # NoChange
    /\ queue' = Append(queue, event)
    /\ event' = NoChange
    /\ UNCHANGED <<row, cache, scanned, bucket, watchers, conns, due, closed, notifier,
                   timeouter, handler, open, known>>

\* The callback of NewWatchCenter waits for room in releaseMessageQueue.
HandleEvent ==
    /\ Running /\ event # NoChange /\ Len(queue) < QueueSize
    /\ queue' = Append(queue, event)
    /\ event' = NoChange
    /\ UNCHANGED <<row, cache, scanned, bucket, watchers, conns, due, closed, notifier,
                   timeouter, handler, open, known>>
-----------------------------------------------------------------------------
(***************************************************************************)
(* The request of a client: WatchConfigFiles, AddConn, AddWatcher and the  *)
(* receive from finishChan (the send is a step of a sender below).         *)
(***************************************************************************)
Watching(k, f) == \E w \in watchers[f] : w.conn = k

\* Nothing refers to the id k: a fresh uuid.
Unused(k) == /\ handler[k].pc = "free"
             /\ k \notin conns /\ \A f \in File : ~Watching(k, f)
             /\ k \notin notifier.ranging \cup {notifier.at}
             /\ k \notin timeouter.ranging \cup {timeouter.at}

compareByVersion(v, entry) == entry.kind = "file" /\ v < entry.ver

\* doCheckClientConfigFile goes through the files in the order of the request
\* and answers at the first one that is behind the cache; the files it has
\* passed are in the cache then. A load that fails ends the request with an
\* error, which tells the client as much as an answer without a change.
WatchConfigFiles(c, k, files) ==
    /\ Running /\ open[c] = NoConn /\ Unused(k) /\ files # {}
    /\ open' = [open EXCEPT ![c] = k]
    /\ LET watch == [f \in files |-> known[c][f]]
           stale == {f \in files : compareByVersion(watch[f], GetOrLoadIfAbsent(f))}
           Passed(fs) == cache' = [f \in File |-> IF f \in fs THEN GetOrLoadIfAbsent(f) ELSE cache[f]]
           Serve(state) == handler' = [handler EXCEPT ![k] = state]
       IN  \/ /\ stale = {}
              /\ Passed(files)
              /\ Serve([IdleHandler EXCEPT !.pc = "addconn", !.watch = watch, !.todo = files])
           \/ \E f \in stale, fs \in SUBSET (files \ stale) :
                /\ Passed(fs \cup {f})
                /\ Serve([IdleHandler EXCEPT !.pc = "done", !.watch = watch,
                             !.answer = [file |-> f, ver |-> GetOrLoadIfAbsent(f).ver]])
           \/ \E f \in files, fs \in SUBSET (files \ stale) :
                /\ MayFail /\ cache[f] = Absent /\ f \notin fs
                /\ Passed(fs)
                /\ Serve([IdleHandler EXCEPT !.pc = "done", !.watch = watch])
    /\ closed' = closed \ {k}
    /\ UNCHANGED <<row, scanned, event, queue, bucket, watchers, conns, due, notifier, timeouter,
                   known>>

AddConn(k) ==
    /\ Running /\ handler[k].pc = "addconn"
    /\ conns' = conns \cup {k}
    /\ handler' = [handler EXCEPT ![k].pc = "load"]
    /\ UNCHANGED <<row, cache, scanned, event, queue, bucket, watchers, due, closed, notifier,
                   timeouter, open, known>>

\* The handler k goes on after f: to the next file, or to wait on finishChan.
\* base is the history of the releases at the time the wait begins.
Added(k, f) ==
    handler' = [handler EXCEPT ![k].todo = @ \ {f}, ![k].at = "none",
                               ![k].pc = IF handler[k].todo = {f} THEN "hold" ELSE "load",
                               ![k].base = [g \in DOMAIN handler[k].watch |-> row[g].ver]]

Watcher(k, f) == [conn |-> k, ver |-> handler[k].watch[f]]

\* The first Load of AddWatcher: it finds the watchers of f, or goes for the lock.
AddWatcher(k, f) ==
    /\ Running /\ handler[k].pc = "load" /\ f \in handler[k].todo
    /\ IF f \in bucket
       THEN /\ watchers' = [watchers EXCEPT ![f] = @ \cup {Watcher(k, f)}]
            /\ Added(k, f)
       ELSE /\ handler' = [handler EXCEPT ![k].pc = "lock", ![k].at = f]
            /\ UNCHANGED watchers
    /\ UNCHANGED <<row, cache, scanned, event, queue, bucket, conns, due, closed, notifier, timeouter,
                   open, known>>

\* The section under wc.lock: when the double check finds the map there, the
\* code goes on to the next file and does not store this client.
AddWatcherLocked(k, f) ==
    /\ Running /\ handler[k].pc = "lock" /\ f = handler[k].at
    /\ IF f \in bucket THEN UNCHANGED <<bucket, watchers>>
       ELSE /\ bucket' = bucket \cup {f}
            /\ watchers' = [watchers EXCEPT ![f] = {Watcher(k, f)}]
    /\ Added(k, f)
    /\ UNCHANGED <<row, cache, scanned, event, queue, conns, due, closed, notifier, timeouter, open, known>>

\* A mutant: an entry of the cache is good for every client.
FetchCached(c, f, v) ==
    LET got == GetOrLoadIfAbsent(f)
    IN  /\ cache' = [cache EXCEPT ![f] = got]
        /\ known' = IF got.kind = "file" THEN [known EXCEPT ![c][f] = got.ver] ELSE known

\* GetConfigFileForClient answers what the cache has, and reloads an entry that
\* is older than the client asks for. It tests for an empty entry before the
\* reload only: when the release is gone meanwhile, the answer is a success
\* with version 0.
Fetch(c, f, v) ==
    LET entry == GetOrLoadIfAbsent(f)
        got == IF entry.kind = "file" /\ v > entry.ver THEN Loaded(f) ELSE entry
    IN  /\ cache' = [cache EXCEPT ![f] = got]
        /\ known' = IF entry.kind = "file" THEN [known EXCEPT ![c][f] = got.ver] ELSE known

\* The load or the reload fails: the client gets an error, and a reload has
\* removed the entry by then.
FetchFails(f, v) ==
    /\ MayFail
    /\ cache[f] = Absent \/ (cache[f].kind = "file" /\ v > cache[f].ver)
    /\ cache' = [cache EXCEPT ![f] = Absent]
    /\ UNCHANGED known

\* The client takes the answer. Told of a newer release of f, it fetches f.
Answered(c) ==
    /\ Running /\ open[c] # NoConn /\ handler[open[c]].pc = "done"
    /\ LET answer == handler[open[c]].answer
       IN  IF answer = NoChange THEN UNCHANGED <<cache, known>>
           ELSE Fetch(c, answer.file, answer.ver) \/ FetchFails(answer.file, answer.ver)
    /\ handler' = [handler EXCEPT ![open[c]] = IdleHandler]
    /\ open' = [open EXCEPT ![c] = NoConn]
    /\ UNCHANGED <<row, server>>

\* A client fetches a file without having been told of it.
GetConfigFileForClient(c, f) ==
    /\ Running /\ open[c] = NoConn
    /\ Fetch(c, f, known[c][f]) \/ FetchFails(f, known[c][f])
    /\ UNCHANGED <<row, server, handler, open>>

\* A client that moved from another server has the latest release.
FetchElsewhere(c, f) ==
    /\ Running /\ open[c] = NoConn /\ Released(f)
    /\ known' = [known EXCEPT ![c][f] = row[f].ver]
    /\ UNCHANGED <<row, cache, server, handler, open>>
-----------------------------------------------------------------------------
(***************************************************************************)
(* watchCenter.handleMessage. Range goes over the keys the map has at its  *)
(* start and skips those that are gone when it comes to them.              *)
(***************************************************************************)
NotifyToWatchers ==
    /\ Running /\ notifier.pc = "idle" /\ queue # <<>>
    /\ queue' = Tail(queue)
    /\ LET msg == Head(queue)
       IN  notifier' = IF msg.file \in bucket
                       THEN [IdleNotifier EXCEPT !.pc = "range", !.msg = msg,
                                                 !.ranging = {w.conn : w \in watchers[msg.file]}]
                       ELSE IdleNotifier
    /\ UNCHANGED <<row, cache, scanned, event, bucket, watchers, conns, due, closed, timeouter,
                   handler, open, known>>

Behind(k, msg) == \E w \in watchers[msg.file] : w.conn = k /\ w.ver < msg.ver

\* The version test of notifyToWatchers and the Load of the callback of AddConn.
NotifyWatcher(k) ==
    /\ Running /\ notifier.pc = "range" /\ k \in notifier.ranging
    /\ notifier' = IF Behind(k, notifier.msg) /\ k \in conns
                   THEN [notifier EXCEPT !.ranging = @ \ {k}, !.pc = "send", !.at = k]
                   ELSE [notifier EXCEPT !.ranging = @ \ {k}]
    /\ UNCHANGED <<row, cache, scanned, event, queue, bucket, watchers, conns, due, closed,
                   timeouter, handler, open, known>>

\* finishChan is unbuffered: a send is a step with the handler that receives.
NotifySend ==
    /\ Running /\ notifier.pc = "send" /\ handler[notifier.at].pc = "hold"
    /\ handler' = [handler EXCEPT ![notifier.at].pc = "done", ![notifier.at].answer = notifier.msg]
    /\ notifier' = [notifier EXCEPT !.pc = "close"]
    /\ UNCHANGED <<row, cache, scanned, event, queue, bucket, watchers, conns, due, closed,
                   timeouter, open, known>>

NotifyClose ==
    /\ Running /\ notifier.pc = "close"
    /\ closed' = closed \cup {notifier.at}
    /\ notifier' = [notifier EXCEPT !.pc = "remove"]
    /\ UNCHANGED <<row, cache, scanned, event, queue, bucket, watchers, conns, due, timeouter,
                   handler, open, known>>

\* A mutant: a removed connection leaves its watchers behind.
RemoveNoWatcher(k) == watchers' = watchers

\* removeConn: it returns when the connection is gone, otherwise it removes the
\* watchers of the connection and then the connection.
RemoveWatcher(k) ==
    watchers' = IF k \in conns
                THEN [f \in File |-> {w \in watchers[f] : w.conn # k}]
                ELSE watchers

NotifyRemove ==
    /\ Running /\ notifier.pc = "remove"
    /\ RemoveWatcher(notifier.at)
    /\ notifier' = [notifier EXCEPT !.pc = "delete"]
    /\ UNCHANGED <<row, cache, scanned, event, queue, bucket, conns, due, closed, timeouter,
                   handler, open, known>>

NotifyDelete ==
    /\ Running /\ notifier.pc = "delete"
    /\ conns' = conns \ {notifier.at}
    /\ due' = due \ {notifier.at}
    /\ notifier' = [notifier EXCEPT !.pc = "range", !.at = NoConn]
    /\ UNCHANGED <<row, cache, scanned, event, queue, bucket, watchers, closed, timeouter,
                   handler, open, known>>

\* Range is over, and notifyToWatchers with it.
NotifyDone ==
    /\ Running /\ notifier.pc = "range" /\ notifier.ranging = {}
    /\ notifier' = IdleNotifier
    /\ UNCHANGED <<row, cache, scanned, event, queue, bucket, watchers, conns, due, closed,
                   timeouter, handler, open, known>>
-----------------------------------------------------------------------------
(***************************************************************************)
(* startHandleTimeoutRequestWorker.                                        *)
(***************************************************************************)
\* defaultLongPollingTimeout passes for the connection k.
Overdue(k) ==
    /\ Running /\ k \in conns \ due
    /\ due' = due \cup {k}
    /\ UNCHANGED <<row, cache, scanned, event, queue, bucket, watchers, conns, closed, notifier,
                   timeouter, handler, open, known>>

TimeoutTick ==
    /\ Running /\ timeouter.pc = "idle" /\ conns # {}
    /\ timeouter' = [IdleTimeouter EXCEPT !.pc = "range", !.ranging = conns]
    /\ UNCHANGED <<row, cache, scanned, event, queue, bucket, watchers, conns, due, closed,
                   notifier, handler, open, known>>

\* A mutant: the test of finishTime is inverted.
TimeoutEarly(k) ==
    /\ Running /\ timeouter.pc = "range" /\ k \in timeouter.ranging
    /\ timeouter' = IF k \in conns \ due
                    THEN [timeouter EXCEPT !.ranging = @ \ {k}, !.pc = "send", !.at = k]
                    ELSE [timeouter EXCEPT !.ranging = @ \ {k}]
    /\ UNCHANGED <<row, cache, scanned, event, queue, bucket, watchers, conns, due, closed,
                   notifier, handler, open, known>>

\* A mutant: an overdue connection is removed without an answer.
TimeoutSilently(k) ==
    /\ Running /\ timeouter.pc = "range" /\ k \in timeouter.ranging
    /\ timeouter' = IF k \in due
                    THEN [timeouter EXCEPT !.ranging = @ \ {k}, !.pc = "remove", !.at = k]
                    ELSE [timeouter EXCEPT !.ranging = @ \ {k}]
    /\ UNCHANGED <<row, cache, scanned, event, queue, bucket, watchers, conns, due, closed,
                   notifier, handler, open, known>>

TimeoutConn(k) ==
    /\ Running /\ timeouter.pc = "range" /\ k \in timeouter.ranging
    /\ timeouter' = IF k \in due
                    THEN [timeouter EXCEPT !.ranging = @ \ {k}, !.pc = "send", !.at = k]
                    ELSE [timeouter EXCEPT !.ranging = @ \ {k}]
    /\ UNCHANGED <<row, cache, scanned, event, queue, bucket, watchers, conns, due, closed,
                   notifier, handler, open, known>>

TimeoutSend ==
    /\ Running /\ timeouter.pc = "send" /\ timeouter.at \notin closed
    /\ handler[timeouter.at].pc = "hold"
    /\ handler' = [handler EXCEPT ![timeouter.at].pc = "done", ![timeouter.at].answer = NoChange]
    /\ timeouter' = [timeouter EXCEPT !.pc = "remove"]
    /\ UNCHANGED <<row, cache, scanned, event, queue, bucket, watchers, conns, due, closed,
                   notifier, open, known>>

\* A send on a closed channel, and a send the close of the channel finds
\* waiting, panic; this goroutine has no recover.
TimeoutPanic ==
    /\ ~crashed /\ timeouter.pc = "send" /\ timeouter.at \in closed
    /\ crashed' = TRUE
    /\ UNCHANGED <<row, cache, server, handler, open, known>>

TimeoutRemove ==
    /\ Running /\ timeouter.pc = "remove"
    /\ RemoveWatcher(timeouter.at)
    /\ timeouter' = [timeouter EXCEPT !.pc = "delete"]
    /\ UNCHANGED <<row, cache, scanned, event, queue, bucket, conns, due, closed, notifier,
                   handler, open, known>>

TimeoutDelete ==
    /\ Running /\ timeouter.pc = "delete"
    /\ conns' = conns \ {timeouter.at}
    /\ due' = due \ {timeouter.at}
    /\ timeouter' = [timeouter EXCEPT !.pc = "range", !.at = NoConn]
    /\ UNCHANGED <<row, cache, scanned, event, queue, bucket, watchers, closed, notifier,
                   handler, open, known>>

TimeoutDone ==
    /\ Running /\ timeouter.pc = "range" /\ timeouter.ranging = {}
    /\ timeouter' = IdleTimeouter
    /\ UNCHANGED <<row, cache, scanned, event, queue, bucket, watchers, conns, due, closed,
                   notifier, handler, open, known>>
-----------------------------------------------------------------------------
Late == {<<FALSE, FALSE>>, <<FALSE, TRUE>>, <<TRUE, TRUE>>}
HandlerReleases == \E m \in scanned, late \in Late : HandlerRelease(m, late)
NotifyWatchers == \E k \in notifier.ranging : NotifyWatcher(k)
TimeoutConns == \E k \in timeouter.ranging : TimeoutConn(k)
Watch(c) == \E k \in Conn, files \in SUBSET File : WatchConfigFiles(c, k, files)
Handle(k) == \/ AddConn(k)
             \/ \E f \in File : AddWatcher(k, f) \/ AddWatcherLocked(k, f)

Next ==
    \/ \E f \in File : \/ PublishConfigFile(f)
                       \/ DeleteConfigFileRelease(f)
                       \/ ClearExpireEntry(f)
    \/ ScanRead \/ HandlerReleases \/ HandleEvent
    \/ \E c \in Client : \/ Watch(c)
                         \/ Answered(c)
                         \/ \E f \in File : GetConfigFileForClient(c, f) \/ FetchElsewhere(c, f)
    \/ \E k \in Conn : Handle(k) \/ Overdue(k)
    \/ NotifyToWatchers \/ NotifyWatchers \/ NotifySend \/ NotifyClose
    \/ NotifyRemove \/ NotifyDelete \/ NotifyDone
    \/ TimeoutTick \/ TimeoutConns \/ TimeoutSend \/ TimeoutPanic
    \/ TimeoutRemove \/ TimeoutDelete \/ TimeoutDone

Spec == Init /\ [][Next]_vars

\* The goroutines of the server run, the ticker ticks, the time of a request
\* passes, and a client takes its answer and watches all its files again.
Fairness ==
    /\ WF_vars(ScanRead) /\ WF_vars(HandlerReleases) /\ WF_vars(HandleEvent)
    /\ WF_vars(NotifyToWatchers) /\ WF_vars(NotifyWatchers) /\ WF_vars(NotifySend)
    /\ WF_vars(NotifyClose \/ NotifyRemove \/ NotifyDelete \/ NotifyDone)
    /\ WF_vars(TimeoutTick) /\ WF_vars(TimeoutConns) /\ WF_vars(TimeoutSend \/ TimeoutPanic)
    /\ WF_vars(TimeoutRemove \/ TimeoutDelete \/ TimeoutDone)
    /\ \A k \in Conn : WF_vars(Handle(k)) /\ WF_vars(Overdue(k))
    /\ \A c \in Client : /\ WF_vars(Answered(c))
                         /\ WF_vars(\E k \in Conn : WatchConfigFiles(c, k, File))

FairSpec == Spec /\ Fairness

\* Request ids are fresh uuids that the code only compares: for safety runs,
\* they are interchangeable.
RequestSymmetry == Permutations(Conn)
-----------------------------------------------------------------------------
Holding(k) == handler[k].pc = "hold"

(* A request that waits on finishChan is a connection of connManager.conns: *)
(* the notifier and the timeout worker, which remove connections, remove    *)
(* only those they have answered (callback of AddConn, removeConn).         *)
HeldConnected == \A k \in Conn : Holding(k) => k \in conns

(* Nothing is left of an answered request once the worker that answered it  *)
(* is through with it: no watcher without a connection, and no connection   *)
(* of a finished request but those a worker is about to remove.             *)
NoLeak ==
    /\ \A f \in File : \A w \in watchers[f] : w.conn \in conns
    /\ \A k \in conns : handler[k].pc \in {"done", "free"} => k \in {notifier.at, timeouter.at}

(* Connections, watchers and waiting requests agree with each other.        *)
WatchSound == TypeOK /\ HeldConnected /\ NoLeak

(* A client never goes back to an older release of a file, whichever server *)
(* it had its release from: an entry of the cache behind what the client    *)
(* has is reloaded (GetConfigFileForClient). Only a reload that finds the   *)
(* release deleted takes the client back, and then to no release at all.    *)
KnownForward ==
    [][\A c \in Client, f \in File :
          \/ known[c][f] <= known'[c][f]
          \/ known'[c][f] = 0 /\ ~Released(f)]_vars

(* Every request that waits is answered, unless the process panics.         *)
HeldAnswered == \A k \in Conn : Holding(k) ~> (~Holding(k) \/ crashed)

(* Every client that goes on watching ends up with the last release of a    *)
(* file, however many notifications were lost on the way, unless the        *)
(* process panics: the check of doCheckClientConfigFile makes up for them.  *)
LearnsLatest ==
    \A c \in Client, f \in File :
        (Released(f) /\ row[f].ver = MaxVersion) ~> (known[c][f] = MaxVersion \/ crashed)

(* The cache does not go on serving a file whose release was deleted: the   *)
(* scanner removes it (handlerReleases, "delete the file, delete the cache").*)
DeletedDropped ==
    \A f \in File : (row[f].flag = 1) ~> (row[f].flag = 0 \/ cache[f].kind # "file" \/ crashed)

(* A request that waits is registered as a watcher of each of its files:    *)
(* AddWatcher adds the subscriber.                                          *)
HeldWatched == \A k \in Conn : Holding(k) => \A f \in DOMAIN handler[k].watch : Watching(k, f)

(* A release that comes while a request waits is pushed to it: once the     *)
(* cache has the release, its event is on the way to the notifier.          *)
Pushed ==
    \A k \in Conn : Holding(k) =>
        \A f \in DOMAIN handler[k].watch :
            cache[f].ver > handler[k].base[f] =>
                \E msg \in {event, notifier.msg} \cup Range(queue) :
                    msg.file = f /\ msg.ver > handler[k].watch[f]

(* A request that waits is answered, when its time is over at the latest.   *)
OverdueAnswered == \A k \in Conn : Holding(k) ~> ~Holding(k)

(* The notifier comes back for the next release.                            *)
NotifierReturns == (notifier.pc = "send") ~> (notifier.pc # "send" \/ crashed)
=============================================================================
