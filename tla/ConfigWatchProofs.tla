------------------------- MODULE ConfigWatchProofs -------------------------
(***************************************************************************)
(* Proofs that connections, watchers and waiting requests agree with each  *)
(* other whatever the notifier, the timeout worker and the handlers of the *)
(* requests do meanwhile, and that no client goes back to an older release *)
(* of a file.                                                              *)
(***************************************************************************)
EXTENDS ConfigWatch, TLAPS

Partial == UNION {[S -> Version] : S \in SUBSET File}

Handlers == [pc : {"free", "addconn", "load", "lock", "hold", "done"}, watch : Partial,
             todo : SUBSET File, at : File \cup {"none"}, base : Partial,
             answer : Message \cup {NoChange}]

Notifiers == [pc : {"idle", "range", "send", "close", "remove", "delete"},
              msg : Message \cup {NoChange}, ranging : SUBSET Conn, at : Conn \cup {NoConn}]

Timeouters == [pc : {"idle", "range", "send", "remove", "delete"}, ranging : SUBSET Conn,
               at : Conn \cup {NoConn}]

\* The store, the cache, which is never ahead of it, and the scanner.
Stored ==
  /\ row \in [File -> [ver : Version, flag : {0, 1}]]
  /\ cache \in [File -> [ver : Version, kind : {"absent", "empty", "file"}]]
  /\ \A f \in File : cache[f].ver <= row[f].ver
  /\ scanned \subseteq [file : File, ver : Version, flag : {0, 1}]
  /\ event \in Message \cup {NoChange}
  /\ queue \in Seq(Message) /\ Len(queue) <= QueueSize
  /\ crashed \in BOOLEAN

\* The types of what the workers share.
Shared ==
  /\ bucket \subseteq File
  /\ watchers \in [File -> SUBSET [conn : Conn, ver : Version]]
  /\ conns \subseteq Conn /\ due \subseteq conns /\ closed \subseteq Conn
  /\ handler \in [Conn -> Handlers] /\ notifier \in Notifiers /\ timeouter \in Timeouters

\* A request that is not answered yet.
Active(k) == handler[k].pc \in {"addconn", "load", "lock", "hold"}

\* The version of f the request k came with is below v.
Older(k, f, v) == f \in DOMAIN handler[k].watch /\ handler[k].watch[f] < v

\* The goroutines of the requests: one that has been through AddConn is
\* connected until it is answered, and an answer is news to it.
Served ==
  \A k \in Conn :
    /\ handler[k].pc \in {"load", "lock", "hold"} => k \in conns
    /\ Active(k) => handler[k].todo \subseteq DOMAIN handler[k].watch
    /\ handler[k].pc = "lock" => handler[k].at \in handler[k].todo
    /\ handler[k].answer = NoChange \/ Older(k, handler[k].answer.file, handler[k].answer.ver)
    /\ k \in conns /\ handler[k].pc \in {"done", "free"} => k \in {notifier.at, timeouter.at}

\* A watcher belongs to a connection and has the version of its request.
Watched ==
  \A f \in File : \A w \in watchers[f] :
    /\ w.conn \in conns
    /\ Active(w.conn) => f \in DOMAIN handler[w.conn].watch /\ w.ver = handler[w.conn].watch[f]

\* A worker removes a connection only after an answer, its watchers first.
Notifying ==
  /\ notifier.pc \in {"idle", "range"} <=> notifier.at = NoConn
  /\ notifier.pc # "idle" => notifier.msg \in Message
  /\ notifier.pc = "send" /\ Active(notifier.at) => Older(notifier.at, notifier.msg.file, notifier.msg.ver)
  /\ notifier.pc \in {"close", "remove", "delete"} => handler[notifier.at].pc \in {"done", "free"}
  /\ notifier.pc = "delete" => \A f \in File : ~Watching(notifier.at, f)

Timing ==
  /\ timeouter.pc \in {"idle", "range"} <=> timeouter.at = NoConn
  /\ timeouter.pc \in {"remove", "delete"} => handler[timeouter.at].pc \in {"done", "free"}
  /\ timeouter.pc = "delete" => \A f \in File : ~Watching(timeouter.at, f)

\* A client does not change what it has while a request of it is open; nobody
\* else has that request.
Waiting ==
  /\ open \in [Client -> Conn \cup {NoConn}] /\ known \in [Client -> [File -> Version]]
  /\ \A c \in Client, f \in File : known[c][f] <= row[f].ver
  /\ \A c \in Client : open[c] # NoConn =>
       /\ handler[open[c]].pc # "free"
       /\ \A f \in DOMAIN handler[open[c]].watch : handler[open[c]].watch[f] = known[c][f]
  /\ \A c, d \in Client : open[c] # NoConn /\ open[c] = open[d] => c = d

IInv == Stored /\ Shared /\ Served /\ Watched /\ Notifying /\ Timing /\ Waiting
-----------------------------------------------------------------------------
\* A map from some files to versions.
LEMMA PartialType == ASSUME NEW S \in SUBSET File, NEW g \in [S -> Version] PROVE g \in Partial
BY Zenon DEF Partial

\* What such a map holds.
LEMMA PartialValue ==
  ASSUME NEW g \in Partial, NEW f \in DOMAIN g PROVE f \in File /\ g[f] \in Version
BY Zenon DEF Partial

\* The empty map from files to versions.
LEMMA PartialEmpty == << >> \in Partial /\ DOMAIN << >> = {}
<1>1. << >> \in [{} -> Version] /\ DOMAIN << >> = {}
  OBVIOUS
<1> QED BY Zenon, <1>1, PartialType

\* The records of goroutines that have nothing to do.
LEMMA IdleTypes == IdleHandler \in Handlers /\ IdleNotifier \in Notifiers /\ IdleTimeouter \in Timeouters
<1>1. IdleHandler \in Handlers
  BY Zenon, PartialEmpty DEF IdleHandler, Handlers
<1>2. IdleNotifier \in Notifiers
  BY Zenon DEF IdleNotifier, Notifiers
<1>3. IdleTimeouter \in Timeouters
  BY Zenon DEF IdleTimeouter, Timeouters
<1> QED BY Zenon, <1>1, <1>2, <1>3

\* The versions are numbers.
LEMMA Versions == 0 \in Version /\ \A v \in Version : v \in Nat
BY ConfigConstants DEF Version

\* The invariant holds when the server starts.
LEMMA InitIInv == Init => IInv
<1> SUFFICES ASSUME Init PROVE IInv
  BY Zenon
<1> USE DEF Init
<1>1. Stored
  <2>1. row \in [File -> [ver : Version, flag : {0, 1}]]
    BY Zenon, Versions
  <2>2. cache \in [File -> [ver : Version, kind : {"absent", "empty", "file"}]]
    BY Zenon, Versions DEF Absent
  <2>3. \A f \in File : cache[f].ver <= row[f].ver
    BY DEF Absent
  <2>4. queue \in Seq(Message) /\ Len(queue) <= QueueSize
    BY ConfigConstants
  <2> QED BY Zenon, <2>1, <2>2, <2>3, <2>4 DEF Stored
<1>2. Shared
  BY Zenon, IdleTypes DEF Shared
<1>3. Served
  BY Zenon DEF Served, Active, IdleHandler
<1>4. Watched
  BY Zenon DEF Watched
<1>5. Notifying /\ Timing
  BY Zenon DEF Notifying, Timing, IdleNotifier, IdleTimeouter
<1>6. Waiting
  <2>1. \A c \in Client, f \in File : known[c][f] <= row[f].ver
    OBVIOUS
  <2> QED BY Zenon, <2>1, Versions DEF Waiting
<1> QED BY Zenon, <1>1, <1>2, <1>3, <1>4, <1>5, <1>6 DEF IInv

-----------------------------------------------------------------------------
\* Steps of the store, the cache and the scanner.
LEMMA StoreFrame ==
  ASSUME IInv, Stored', \A f \in File : row[f].ver <= row'[f].ver,
         UNCHANGED <<bucket, watchers, conns, due, closed, handler, notifier, timeouter, open, known>>
  PROVE  IInv'
<1> USE DEF IInv
<1>1. Shared' /\ Served' /\ Watched' /\ Notifying' /\ Timing'
  BY DEF Shared, Served, Watched, Notifying, Timing, Active, Older, Watching
<1>2. Waiting'
  <2>1. ASSUME NEW c \in Client, NEW f \in File PROVE known'[c][f] <= row'[f].ver
    <3>1. known[c][f] \in Version /\ row[f].ver \in Version /\ row'[f].ver \in Version
      BY DEF Waiting, Stored
    <3>2. known[c][f] <= row[f].ver /\ row[f].ver <= row'[f].ver
      BY Zenon DEF Waiting
    <3> QED BY <3>1, <3>2, Versions
  <2> QED BY Zenon, <2>1 DEF Waiting
<1> QED BY Zenon, <1>1, <1>2

\* What a load from the store gives.
LEMMA LoadedType ==
  ASSUME Stored, NEW f \in File
  PROVE  /\ Loaded(f) \in [ver : Version, kind : {"absent", "empty", "file"}]
         /\ Loaded(f).ver <= row[f].ver
         /\ Loaded(f).kind = "file" => Loaded(f).ver = row[f].ver
<1>1. row[f].ver \in Version /\ 0 <= row[f].ver
  BY Versions DEF Stored
<1>2. CASE Released(f)
  BY <1>1, <1>2, Versions DEF Loaded
<1>3. CASE ~Released(f)
  BY Zenon, <1>1, <1>3, Versions DEF Loaded, EmptyEntry
<1> QED BY Zenon, <1>2, <1>3

\* GetOrLoadIfAbsent answers with no newer version than the store has.
LEMMA GetOrLoadType ==
  ASSUME Stored, NEW f \in File
  PROVE  /\ GetOrLoadIfAbsent(f) \in [ver : Version, kind : {"absent", "empty", "file"}]
         /\ GetOrLoadIfAbsent(f).ver <= row[f].ver
BY Zenon, LoadedType DEF GetOrLoadIfAbsent, Stored

\* Publication, deletion and expiry keep the invariant.
LEMMA StoreStep ==
  ASSUME IInv, NEW f \in File,
         PublishConfigFile(f) \/ DeleteConfigFileRelease(f) \/ ClearExpireEntry(f)
  PROVE  IInv' /\ UNCHANGED known
<1> USE DEF IInv, server, Running
<1>1. CASE PublishConfigFile(f) \/ DeleteConfigFileRelease(f)
  <2>1. PICK flag \in {0, 1} :
          /\ row[f].ver < MaxVersion /\ row' = [row EXCEPT ![f] = [ver |-> row[f].ver + 1, flag |-> flag]]
          /\ UNCHANGED <<cache, server, handler, open, known, crashed>>
    BY Zenon, <1>1 DEF PublishConfigFile, DeleteConfigFileRelease
  <2>2. row[f].ver \in Version /\ row[f].ver + 1 \in Version
    BY <2>1, ConfigConstants DEF Stored, Version
  <2>3. row' \in [File -> [ver : Version, flag : {0, 1}]]
    BY Zenon, <2>1, <2>2 DEF Stored
  <2>4. \A g \in File : row[g].ver <= row'[g].ver
    <3> TAKE g \in File
    <3>1. row[g].ver \in Nat /\ row'[g] = IF g = f THEN [ver |-> row[f].ver + 1, flag |-> flag] ELSE row[g]
      BY Zenon, <2>1, Versions DEF Stored
    <3>2. CASE g = f
      BY <3>1, <3>2
    <3>3. CASE g # f
      BY <3>1, <3>3
    <3> QED BY Zenon, <3>2, <3>3
  <2>5. \A g \in File : cache'[g].ver <= row'[g].ver
    <3> TAKE g \in File
    <3>1. cache[g].ver \in Nat /\ row[g].ver \in Nat /\ row'[g].ver \in Nat
      BY Zenon, <2>3, Versions DEF Stored
    <3> QED BY <2>1, <2>4, <3>1 DEF Stored
  <2> QED BY Zenon, <2>1, <2>3, <2>4, <2>5, StoreFrame DEF Stored
<1>2. CASE ClearExpireEntry(f)
  <2>1. cache' = [cache EXCEPT ![f] = Absent] /\ UNCHANGED <<row, server, handler, open, known, crashed>>
    BY Zenon, <1>2 DEF ClearExpireEntry
  <2>2. Absent \in [ver : Version, kind : {"absent", "empty", "file"}] /\ Absent.ver = 0
    BY Zenon, Versions DEF Absent
  <2>3. cache' \in [File -> [ver : Version, kind : {"absent", "empty", "file"}]]
    BY Zenon, <2>1, <2>2 DEF Stored
  <2>4. \A g \in File : cache'[g].ver <= row'[g].ver /\ row[g].ver <= row'[g].ver
    <3> TAKE g \in File
    <3>1. row[g].ver \in Nat /\ cache'[g] = IF g = f THEN Absent ELSE cache[g]
      BY Zenon, <2>1, Versions DEF Stored
    <3> QED BY <2>1, <2>2, <3>1 DEF Stored
  <2> QED BY Zenon, <2>1, <2>3, <2>4, StoreFrame DEF Stored
<1> QED BY Zenon, <1>1, <1>2

\* The scan, its messages and the event queue keep the invariant.
LEMMA ScanStep ==
  ASSUME IInv, ScanRead \/ HandlerReleases \/ HandleEvent
  PROVE  IInv' /\ UNCHANGED known
<1> USE DEF IInv, Running
<1>1. \A f \in File : row[f].ver <= row[f].ver
  BY Versions DEF Stored
<1>2. CASE ScanRead
  <2>1. /\ scanned' = {[file |-> f, ver |-> row[f].ver, flag |-> row[f].flag] :
                         f \in {g \in File : row[g].ver > 0}}
        /\ UNCHANGED <<row, cache, event, queue, bucket, watchers, conns, due, closed, notifier,
                       timeouter, handler, open, known, crashed>>
    BY Zenon, <1>2 DEF ScanRead
  <2>2. scanned' \subseteq [file : File, ver : Version, flag : {0, 1}]
    BY <2>1 DEF Stored
  <2> QED BY Zenon, <1>1, <2>1, <2>2, StoreFrame DEF Stored
<1>3. ASSUME NEW m \in scanned, NEW late \in Late, HandlerRelease(m, late) PROVE IInv' /\ UNCHANGED known
  <2>1. m \in [file : File, ver : Version, flag : {0, 1}]
    BY Zenon DEF Stored
  <2>2. /\ scanned' = scanned \ {m}
        /\ UNCHANGED <<row, queue, bucket, watchers, conns, due, closed, notifier, timeouter, handler,
                       open, known, crashed>>
    BY Zenon, <1>3 DEF HandlerRelease
  <2>3. CASE UNCHANGED <<cache, event>>
    BY Zenon, <1>1, <2>2, <2>3, StoreFrame DEF Stored
  <2>4. CASE ~UNCHANGED <<cache, event>>
    <3>1. PICK e \in {Absent, Loaded(m.file)} :
            /\ cache' = [cache EXCEPT ![m.file] = e]
            /\ event' = IF late[2] THEN NoChange ELSE [file |-> m.file, ver |-> m.ver]
      BY Zenon, <1>3, <2>4 DEF HandlerRelease
    <3>2. event' \in Message \cup {NoChange}
      BY Zenon, <2>1, <3>1 DEF Message
    <3>3. e \in [ver : Version, kind : {"absent", "empty", "file"}] /\ e.ver <= row[m.file].ver
      <4>1. CASE e = Absent
        BY <2>1, <4>1, Versions DEF Absent, Stored
      <4>2. CASE e = Loaded(m.file)
        BY Zenon, <2>1, <4>2, LoadedType
      <4> QED BY Zenon, <4>1, <4>2
    <3>4. cache' \in [File -> [ver : Version, kind : {"absent", "empty", "file"}]]
      BY Zenon, <3>1, <3>3 DEF Stored
    <3>5. \A g \in File : cache'[g] = IF g = m.file THEN e ELSE cache[g]
      BY Zenon, <3>1 DEF Stored
    <3>6. \A g \in File : cache'[g].ver <= row'[g].ver
      BY Zenon, <2>2, <3>3, <3>5 DEF Stored
    <3>7. scanned' \subseteq [file : File, ver : Version, flag : {0, 1}]
      BY Zenon, <2>2 DEF Stored
    <3>8. Stored'
      BY Zenon, <2>2, <3>2, <3>4, <3>6, <3>7 DEF Stored
    <3> QED BY Zenon, <1>1, <2>2, <3>8, StoreFrame
  <2> QED BY Zenon, <2>3, <2>4
<1>4. CASE HandleEvent
  <2>1. /\ event # NoChange /\ Len(queue) < QueueSize /\ queue' = Append(queue, event) /\ event' = NoChange
        /\ UNCHANGED <<row, cache, scanned, bucket, watchers, conns, due, closed, notifier,
                       timeouter, handler, open, known, crashed>>
    BY Zenon, <1>4 DEF HandleEvent
  <2>2. event \in Message /\ queue \in Seq(Message)
    BY Zenon, <2>1 DEF Stored
  <2>3. queue' \in Seq(Message) /\ Len(queue') <= QueueSize
    BY <2>1, <2>2, ConfigConstants
  <2> QED BY Zenon, <1>1, <2>1, <2>3, StoreFrame DEF Stored
<1> QED BY Zenon, <1>2, <1>3, <1>4 DEF HandlerReleases
-----------------------------------------------------------------------------
\* No client goes back, but to no release at all when the release is gone.
Forward == \A c \in Client, f \in File : \/ known[c][f] <= known'[c][f]
                                         \/ known'[c][f] = 0 /\ ~Released(f)

\* A step that tells no client anything takes none back.
LEMMA StillForward == ASSUME IInv, UNCHANGED known PROVE Forward
<1>1. \A c \in Client, f \in File : known[c][f] \in Nat
  BY Versions DEF IInv, Waiting
<1> QED BY <1>1 DEF Forward

\* A client that asks for no less than it has goes forward, and never beyond
\* the store.
LEMMA FetchForward ==
  ASSUME IInv, NEW c \in Client, NEW f \in File, NEW v \in Version, known[c][f] <= v,
         Fetch(c, f, v) \/ FetchFails(f, v), UNCHANGED row
  PROVE  /\ cache' \in [File -> [ver : Version, kind : {"absent", "empty", "file"}]]
         /\ \A g \in File : cache'[g].ver <= row'[g].ver
         /\ known' \in [Client -> [File -> Version]]
         /\ Forward /\ \A d \in Client, g \in File : known'[d][g] <= row'[g].ver
         /\ \A d \in Client : d # c => known'[d] = known[d]
<1> USE DEF IInv
<1> DEFINE entry == GetOrLoadIfAbsent(f)
           read == IF entry.kind = "file" /\ v > entry.ver THEN Loaded(f) ELSE entry
<1>1. PICK got \in {read, Absent} :
        /\ cache' = [cache EXCEPT ![f] = got]
        /\ \/ known' = known
           \/ entry.kind = "file" /\ got = read /\ known' = [known EXCEPT ![c][f] = got.ver]
  BY Zenon DEF Fetch, FetchFails
<1>2. known \in [Client -> [File -> Version]] /\ \A d \in Client, g \in File : known[d][g] <= row[g].ver
  BY Zenon DEF Waiting
<1>3. /\ read \in [ver : Version, kind : {"absent", "empty", "file"}] /\ read.ver <= row[f].ver
      /\ entry.kind = "file" => known[c][f] <= read.ver \/ (read.ver = 0 /\ ~Released(f))
  <2>1. entry \in [ver : Version, kind : {"absent", "empty", "file"}] /\ entry.ver <= row[f].ver
    BY Zenon, GetOrLoadType
  <2>2. /\ Loaded(f) \in [ver : Version, kind : {"absent", "empty", "file"}]
        /\ Loaded(f).ver <= row[f].ver
        /\ Loaded(f).ver = row[f].ver \/ (Loaded(f).ver = 0 /\ ~Released(f))
    BY Zenon, LoadedType DEF Loaded, EmptyEntry
  <2> HIDE DEF entry
  <2>3. CASE entry.kind = "file" /\ v > entry.ver
    BY Zenon, <1>2, <2>2, <2>3
  <2>4. CASE ~(entry.kind = "file" /\ v > entry.ver)
    <3>1. entry.kind = "file" => known[c][f] <= entry.ver
      <4>1. known[c][f] \in Nat /\ v \in Nat /\ entry.ver \in Nat
        BY Zenon, <1>2, <2>1, Versions
      <4> QED BY <2>4, <4>1
    <3> QED BY Zenon, <2>1, <2>4, <3>1
  <2> QED BY Zenon, <2>3, <2>4
<1> HIDE DEF entry, read
<1>4. got \in [ver : Version, kind : {"absent", "empty", "file"}] /\ got.ver <= row[f].ver
  <2>1. Absent \in [ver : Version, kind : {"absent", "empty", "file"}] /\ Absent.ver <= row[f].ver
    BY Versions DEF Absent, Stored
  <2> QED BY Zenon, <1>3, <2>1
<1>5. /\ cache' \in [File -> [ver : Version, kind : {"absent", "empty", "file"}]]
      /\ \A g \in File : cache'[g] = IF g = f THEN got ELSE cache[g]
  BY Zenon, <1>1, <1>4 DEF Stored
<1>6. \A g \in File : cache'[g].ver <= row'[g].ver
  BY Zenon, <1>4, <1>5 DEF Stored
<1>7. CASE known' = known
  BY Zenon, <1>2, <1>5, <1>6, <1>7, StillForward
<1>8. CASE known' # known
  <2>1. known' = [known EXCEPT ![c] = [known[c] EXCEPT ![f] = got.ver]]
    BY Zenon, <1>1, <1>8
  <2>2. \A d \in Client, g \in File : known'[d][g] = IF d = c /\ g = f THEN got.ver ELSE known[d][g]
    BY Zenon, <1>2, <2>1
  <2>3. known' \in [Client -> [File -> Version]] /\ \A d \in Client : d # c => known'[d] = known[d]
    BY Zenon, <1>2, <1>4, <2>1
  <2>4. known[c][f] <= got.ver \/ (got.ver = 0 /\ ~Released(f))
    BY Zenon, <1>1, <1>3, <1>8
  <2>5. \A d \in Client, g \in File : known[d][g] <= known[d][g]
    BY <1>2, Versions
  <2>6. Forward
    BY Zenon, <2>2, <2>4, <2>5 DEF Forward
  <2> QED BY Zenon, <1>2, <1>4, <1>5, <1>6, <2>2, <2>3, <2>6
<1> QED BY Zenon, <1>7, <1>8

\* A client that fetches a file does not go back, here or on another server.
LEMMA GetStep ==
  ASSUME IInv, NEW c \in Client, NEW f \in File, GetConfigFileForClient(c, f) \/ FetchElsewhere(c, f)
  PROVE  IInv' /\ Forward
<1> USE DEF IInv, server, Running
<1>1. known \in [Client -> [File -> Version]] /\ \A d \in Client, g \in File : known[d][g] <= row[g].ver
  BY Zenon DEF Waiting
<1>2. open[c] = NoConn /\ UNCHANGED <<row, server, handler, open, crashed>>
  BY Zenon DEF GetConfigFileForClient, FetchElsewhere
<1>3. \A d \in Client, g \in File : known[d][g] \in Nat /\ known[d][g] <= known[d][g]
  BY <1>1, Versions
<1>4. /\ cache' \in [File -> [ver : Version, kind : {"absent", "empty", "file"}]]
      /\ \A g \in File : cache'[g].ver <= row'[g].ver
      /\ known' \in [Client -> [File -> Version]]
      /\ Forward /\ \A d \in Client, g \in File : known'[d][g] <= row'[g].ver
      /\ \A d \in Client : d # c => known'[d] = known[d]
  <2>1. CASE GetConfigFileForClient(c, f)
    <3>1. /\ Fetch(c, f, known[c][f]) \/ FetchFails(f, known[c][f])
          /\ known[c][f] \in Version
      BY Zenon, <1>1, <2>1 DEF GetConfigFileForClient
    <3> QED BY Zenon, <1>2, <1>3, <3>1, FetchForward
  <2>2. CASE FetchElsewhere(c, f)
    <3>1. known' = [known EXCEPT ![c] = [known[c] EXCEPT ![f] = row[f].ver]] /\ UNCHANGED cache
      BY Zenon, <2>2 DEF FetchElsewhere
    <3>2. \A d \in Client, g \in File : known'[d][g] = IF d = c /\ g = f THEN row[f].ver ELSE known[d][g]
      BY Zenon, <1>1, <3>1
    <3>3. row[f].ver \in Version /\ row[f].ver <= row[f].ver
      BY Versions DEF Stored
    <3>4. known' \in [Client -> [File -> Version]] /\ \A d \in Client : d # c => known'[d] = known[d]
      BY ZenonT(30), <1>1, <3>1, <3>3
    <3>5. Forward
      BY <1>1, <1>3, <3>2, <3>3 DEF Forward
    <3> QED BY <1>1, <1>2, <1>3, <3>1, <3>2, <3>3, <3>4, <3>5 DEF Stored
  <2> QED BY Zenon, <2>1, <2>2
<1>5. Stored' /\ Shared' /\ Served' /\ Watched' /\ Notifying' /\ Timing'
  BY SMTT(30), <1>2, <1>4 DEF Stored, Shared, Served, Watched, Notifying, Timing, Active, Older, Watching
<1>6. Waiting'
  BY <1>2, <1>4 DEF Waiting
<1> QED BY Zenon, <1>4, <1>5, <1>6

\* A client takes its answer.
LEMMA AnsweredStep == ASSUME IInv, NEW c \in Client, Answered(c) PROVE IInv' /\ Forward
<1> USE DEF IInv, server, Running
<1> DEFINE k == open[c]
           answer == handler[k].answer
<1>1. /\ k # NoConn /\ handler[k].pc = "done"
      /\ handler' = [handler EXCEPT ![k] = IdleHandler] /\ open' = [open EXCEPT ![c] = NoConn]
      /\ UNCHANGED <<row, server, crashed>>
      /\ IF answer = NoChange THEN UNCHANGED <<cache, known>>
         ELSE Fetch(c, answer.file, answer.ver) \/ FetchFails(answer.file, answer.ver)
  BY Zenon DEF Answered
<1>2. k \in Conn /\ open \in [Client -> Conn \cup {NoConn}]
  BY Zenon, <1>1 DEF Waiting
<1>3. known \in [Client -> [File -> Version]] /\ \A d \in Client, g \in File : known[d][g] <= row[g].ver
  BY Zenon DEF Waiting
<1>4. \A d \in Client, g \in File : known[d][g] \in Nat /\ known[d][g] <= known[d][g]
  BY <1>3, Versions
<1>5. /\ cache' \in [File -> [ver : Version, kind : {"absent", "empty", "file"}]]
      /\ \A g \in File : cache'[g].ver <= row'[g].ver
      /\ known' \in [Client -> [File -> Version]]
      /\ Forward /\ \A d \in Client, g \in File : known'[d][g] <= row'[g].ver
      /\ \A d \in Client : d # c => known'[d] = known[d]
  <2>1. CASE answer = NoChange
    BY Zenon, <1>1, <1>3, <2>1, StillForward DEF Stored
  <2>2. CASE answer # NoChange
    <3>1. answer \in Message /\ Older(k, answer.file, answer.ver)
      BY Zenon, <1>2, <2>2 DEF Shared, Handlers, Served
    <3>2. answer.file \in File /\ answer.ver \in Version
      BY Zenon, <3>1 DEF Message
    <3>3. handler[k].watch[answer.file] = known[c][answer.file] /\ handler[k].watch[answer.file] < answer.ver
      BY Zenon, <1>1, <3>1 DEF Waiting, Older
    <3>4. known[c][answer.file] <= answer.ver
      BY <1>4, <3>2, <3>3, Versions
    <3> QED BY Zenon, <1>1, <2>2, <3>2, <3>4, FetchForward
  <2> QED BY Zenon, <2>1, <2>2
<1> HIDE DEF k, answer
<1>6. handler' \in [Conn -> Handlers] /\ \A j \in Conn : handler'[j] = IF j = k THEN IdleHandler ELSE handler[j]
  BY Zenon, <1>1, <1>2, IdleTypes DEF Shared
<1>7. IdleHandler.pc = "free" /\ IdleHandler.answer = NoChange
  BY Zenon DEF IdleHandler
<1>8. Stored' /\ Shared'
  BY Zenon, <1>1, <1>5, <1>6 DEF Stored, Shared
<1>9. Served'
  BY <1>1, <1>6, <1>7 DEF Served, Active, Older
<1>10. Watched'
  <2>1. \A f \in File : \A w \in watchers[f] : w.conn \in Conn
    BY DEF Shared
  <2> QED BY <1>1, <1>6, <1>7, <2>1 DEF Watched, Active
<1>11. notifier.at \in Conn \cup {NoConn} /\ timeouter.at \in Conn \cup {NoConn}
  BY Zenon DEF Shared, Notifiers, Timeouters
<1>12. Notifying'
  BY Zenon, <1>1, <1>6, <1>7, <1>11 DEF Notifying, Active, Older, Watching
<1>13. Timing'
  BY Zenon, <1>1, <1>6, <1>7, <1>11 DEF Timing, Active, Older, Watching
<1>14. Waiting'
  <2>1. \A d \in Client : open'[d] = IF d = c THEN NoConn ELSE open[d]
    BY Zenon, <1>1, <1>2
  <2>2. \A d \in Client : d # c /\ open[d] # NoConn => open[d] # k /\ open[d] \in Conn
    BY Zenon, <1>1, <1>2 DEF Waiting, k
  <2>3. ASSUME NEW d \in Client, open'[d] # NoConn
        PROVE  /\ handler'[open'[d]].pc # "free"
               /\ \A f \in DOMAIN handler'[open'[d]].watch : handler'[open'[d]].watch[f] = known'[d][f]
    BY <1>5, <1>6, <2>1, <2>2, <2>3 DEF Waiting
  <2>4. open' \in [Client -> Conn \cup {NoConn}]
    BY Zenon, <1>1, <1>2
  <2>5. \A d, e \in Client : open'[d] # NoConn /\ open'[d] = open'[e] => d = e
    BY Zenon, <2>1 DEF Waiting
  <2> QED BY Zenon, <1>5, <2>3, <2>4, <2>5 DEF Waiting
<1> QED BY Zenon, <1>5, <1>8, <1>9, <1>10, <1>12, <1>13, <1>14

-----------------------------------------------------------------------------
\* A new request: nothing refers to its id, so whatever its goroutine does
\* first agrees with the rest.
LEMMA WatchStep ==
  ASSUME IInv, NEW c \in Client, NEW k \in Conn, NEW files \in SUBSET File, WatchConfigFiles(c, k, files)
  PROVE  IInv' /\ UNCHANGED known
<1> USE DEF IInv, Running
<1> DEFINE watch == [f \in files |-> known[c][f]]
           stale == {f \in files : compareByVersion(watch[f], GetOrLoadIfAbsent(f))}
           Passed(fs) == cache' = [f \in File |-> IF f \in fs THEN GetOrLoadIfAbsent(f) ELSE cache[f]]
           Asks == [IdleHandler EXCEPT !.pc = "addconn", !.watch = watch, !.todo = files]
           Answer(f) == [IdleHandler EXCEPT !.pc = "done", !.watch = watch,
                             !.answer = [file |-> f, ver |-> GetOrLoadIfAbsent(f).ver]]
           Error == [IdleHandler EXCEPT !.pc = "done", !.watch = watch]
<1>1. /\ open[c] = NoConn /\ Unused(k) /\ open' = [open EXCEPT ![c] = k] /\ closed' = closed \ {k}
      /\ UNCHANGED <<row, scanned, event, queue, bucket, watchers, conns, due, notifier, timeouter,
                     known, crashed>>
  BY Zenon DEF WatchConfigFiles
<1>2. \/ Passed(files) /\ handler' = [handler EXCEPT ![k] = Asks]
      \/ \E f \in stale, fs \in SUBSET (files \ stale) :
           Passed(fs \cup {f}) /\ handler' = [handler EXCEPT ![k] = Answer(f)]
      \/ \E fs : Passed(fs) /\ handler' = [handler EXCEPT ![k] = Error]
  BY Zenon DEF WatchConfigFiles
<1>3. \A fs : Passed(fs) =>
        /\ cache' \in [File -> [ver : Version, kind : {"absent", "empty", "file"}]]
        /\ \A g \in File : cache'[g].ver <= row'[g].ver
  <2>1. \A g \in File : /\ GetOrLoadIfAbsent(g) \in [ver : Version, kind : {"absent", "empty", "file"}]
                        /\ GetOrLoadIfAbsent(g).ver <= row[g].ver
    BY Zenon, GetOrLoadType
  <2> QED BY <1>1, <2>1 DEF Stored
<1>4. Stored'
  <2>1. \E fs : Passed(fs)
    BY Zenon, <1>2
  <2> HIDE DEF Passed
  <2> QED BY Zenon, <1>1, <1>3, <2>1 DEF Stored
<1>5. watch \in Partial /\ DOMAIN watch = files
  <2>1. watch \in [files -> Version] /\ DOMAIN watch = files
    BY DEF Waiting
  <2> HIDE DEF watch
  <2> QED BY Zenon, <2>1, PartialType
<1>6. \A f \in files : watch[f] = known[c][f] /\ watch[f] \in Version
  BY DEF Waiting
<1> HIDE DEF watch
<1>7. PICK v \in Handlers :
        /\ handler' = [handler EXCEPT ![k] = v] /\ v.watch = watch
        /\ \/ v.pc = "addconn" /\ v.todo = files /\ v.answer = NoChange
           \/ v.pc = "done" /\ v.answer.file \in files /\ watch[v.answer.file] < v.answer.ver
           \/ v.pc = "done" /\ v.answer = NoChange
  <2>1. CASE handler' = [handler EXCEPT ![k] = Asks]
    <3>1. /\ Asks \in Handlers /\ Asks.watch = watch /\ Asks.pc = "addconn" /\ Asks.todo = files
          /\ Asks.answer = NoChange
      BY Zenon, <1>5, IdleTypes DEF Handlers, IdleHandler
    <3> QED BY Zenon, <2>1, <3>1
  <2>2. ASSUME NEW f \in stale, handler' = [handler EXCEPT ![k] = Answer(f)]
        PROVE  \E v \in Handlers :
                  /\ handler' = [handler EXCEPT ![k] = v] /\ v.watch = watch
                  /\ v.pc = "done" /\ v.answer.file \in files /\ watch[v.answer.file] < v.answer.ver
    <3>1. f \in files /\ watch[f] < GetOrLoadIfAbsent(f).ver
      BY Zenon DEF compareByVersion
    <3>2. [file |-> f, ver |-> GetOrLoadIfAbsent(f).ver] \in Message
      BY Zenon, <3>1, GetOrLoadType DEF Message
    <3>3. /\ Answer(f) \in Handlers /\ Answer(f).watch = watch /\ Answer(f).pc = "done"
          /\ Answer(f).answer = [file |-> f, ver |-> GetOrLoadIfAbsent(f).ver]
      BY Zenon, <1>5, <3>2, IdleTypes DEF Handlers, IdleHandler
    <3> DEFINE a == Answer(f)
    <3>4. a.answer.file = f /\ a.answer.ver = GetOrLoadIfAbsent(f).ver
      BY <3>3
    <3>5. handler' = [handler EXCEPT ![k] = a] /\ a \in Handlers /\ a.watch = watch /\ a.pc = "done"
      BY Zenon, <2>2, <3>3
    <3> HIDE DEF a
    <3> QED BY Zenon, <3>1, <3>4, <3>5
  <2>3. CASE handler' = [handler EXCEPT ![k] = Error]
    <3>1. Error \in Handlers /\ Error.watch = watch /\ Error.pc = "done" /\ Error.answer = NoChange
      BY Zenon, <1>5, IdleTypes DEF Handlers, IdleHandler
    <3> QED BY Zenon, <2>3, <3>1
  <2> QED BY Zenon, <1>2, <2>1, <2>2, <2>3
<1>8. handler' \in [Conn -> Handlers] /\ \A j \in Conn : handler'[j] = IF j = k THEN v ELSE handler[j]
  BY Zenon, <1>7 DEF Shared
<1>9. /\ handler[k].pc = "free" /\ k \notin conns /\ k # notifier.at /\ k # timeouter.at
      /\ \A f \in File : \A w \in watchers[f] : w.conn # k
  BY Zenon, <1>1 DEF Unused, Watching
<1>10. Shared'
  BY Zenon, <1>1, <1>8 DEF Shared
<1>11. Served'
  BY SMTT(30), <1>1, <1>5, <1>7, <1>8, <1>9 DEF Served, Active, Older
<1>12. Watched'
  <2>1. \A f \in File : \A w \in watchers[f] : w.conn \in Conn
    BY DEF Shared
  <2> QED BY <1>1, <1>8, <1>9, <2>1 DEF Watched, Active
<1>13. notifier.at \in Conn \cup {NoConn} /\ timeouter.at \in Conn \cup {NoConn}
  BY Zenon DEF Shared, Notifiers, Timeouters
<1>14. Notifying'
  BY Zenon, <1>1, <1>8, <1>9, <1>13 DEF Notifying, Active, Older, Watching
<1>15. Timing'
  BY Zenon, <1>1, <1>8, <1>9, <1>13 DEF Timing, Active, Older, Watching
<1>16. Waiting'
  <2>1. open' \in [Client -> Conn \cup {NoConn}] /\ \A d \in Client : open'[d] = IF d = c THEN k ELSE open[d]
    BY Zenon, <1>1 DEF Waiting
  <2>2. \A d \in Client : open[d] # NoConn => open[d] # k /\ open[d] \in Conn
    BY <1>9 DEF Waiting
  <2>3. ASSUME NEW d \in Client, open'[d] # NoConn
        PROVE  /\ handler'[open'[d]].pc # "free"
               /\ \A f \in DOMAIN handler'[open'[d]].watch : handler'[open'[d]].watch[f] = known'[d][f]
    <3>1. CASE d = c
      BY SMTT(30), <1>1, <1>5, <1>6, <1>7, <1>8, <2>1, <3>1
    <3>2. CASE d # c
      BY <1>1, <1>8, <2>1, <2>2, <2>3, <3>2 DEF Waiting
    <3> QED BY Zenon, <3>1, <3>2
  <2>4. \A d, e \in Client : open'[d] # NoConn /\ open'[d] = open'[e] => d = e
    BY <2>1, <2>2 DEF Waiting
  <2> QED BY Zenon, <1>1, <2>1, <2>3, <2>4 DEF Waiting
<1> QED BY Zenon, <1>1, <1>4, <1>10, <1>11, <1>12, <1>14, <1>15, <1>16

\* A step of the goroutine of a request that stays active and keeps its versions.
LEMMA ProgressStep ==
  ASSUME IInv, NEW k \in Conn, NEW v \in Handlers, handler' = [handler EXCEPT ![k] = v],
         Active(k), v.pc \in {"load", "lock", "hold"}, v.watch = handler[k].watch,
         v.answer = handler[k].answer, v.todo \subseteq handler[k].todo, v.pc = "lock" => v.at \in v.todo,
         conns \subseteq conns', conns' \subseteq conns \cup {k}, k \in conns',
         bucket' \subseteq File, watchers' \in [File -> SUBSET [conn : Conn, ver : Version]],
         \A f \in File : \A w \in watchers'[f] :
            w \in watchers[f] \/ (w.conn = k /\ f \in DOMAIN v.watch /\ w.ver = v.watch[f]),
         UNCHANGED <<row, cache, scanned, event, queue, due, closed, notifier, timeouter, open, known, crashed>>
  PROVE  IInv' /\ UNCHANGED known
<1> USE DEF IInv
<1>1. handler' \in [Conn -> Handlers] /\ \A j \in Conn : handler'[j] = IF j = k THEN v ELSE handler[j]
  BY Zenon DEF Shared
<1>2. Stored' /\ Shared'
  BY <1>1 DEF Stored, Shared
<1>3. Served'
  BY <1>1 DEF Served, Active, Older
<1>4. Watched'
  <2>1. \A f \in File : \A w \in watchers[f] : w.conn \in Conn
    BY DEF Shared
  <2> QED BY <1>1, <2>1 DEF Watched, Active
<1>5. notifier.at \in Conn \cup {NoConn} /\ timeouter.at \in Conn \cup {NoConn}
  BY Zenon DEF Shared, Notifiers, Timeouters
<1>6. \A j \in Conn : j # k => \A f \in File : ~Watching(j, f) => ~Watching(j, f)'
  BY Zenon DEF Watching
<1>7. Notifying'
  BY <1>1, <1>5, <1>6 DEF Notifying, Active, Older
<1>8. Timing'
  BY Zenon, <1>1, <1>5, <1>6 DEF Timing, Active
<1>9. Waiting'
  BY <1>1 DEF Waiting, Active
<1> QED BY Zenon, <1>2, <1>3, <1>4, <1>7, <1>8, <1>9

\* The handler that waits for the answer keeps the invariant.
LEMMA HandleStep == ASSUME IInv, NEW k \in Conn, Handle(k) PROVE IInv' /\ UNCHANGED known
<1> USE DEF IInv, Running
<1> DEFINE h == handler[k]
<1>1. h \in Handlers /\ handler \in [Conn -> Handlers]
  BY Zenon DEF Shared
<1>2. CASE AddConn(k)
  <2> DEFINE v == [h EXCEPT !.pc = "load"]
  <2>1. v \in Handlers /\ v.pc = "load" /\ v.watch = h.watch /\ v.answer = h.answer /\ v.todo = h.todo
    BY Zenon, <1>1 DEF Handlers
  <2>2. /\ handler' = [handler EXCEPT ![k] = v] /\ h.pc = "addconn" /\ conns' = conns \cup {k}
        /\ UNCHANGED <<row, cache, scanned, event, queue, bucket, watchers, due, closed, notifier,
                       timeouter, open, known, crashed>>
    BY Zenon, <1>2 DEF AddConn
  <2> HIDE DEF v, h
  <2>3. Active(k) /\ bucket \subseteq File /\ watchers \in [File -> SUBSET [conn : Conn, ver : Version]]
    BY Zenon, <2>2 DEF Active, Shared, h
  <2> QED BY Zenon, <2>1, <2>2, <2>3, ProgressStep DEF h
<1>3. ASSUME NEW f \in File, AddWatcher(k, f) \/ AddWatcherLocked(k, f) PROVE IInv' /\ UNCHANGED known
  <2>1. /\ h.pc \in {"load", "lock"} /\ f \in h.todo /\ Active(k) /\ k \in conns /\ h.todo \subseteq DOMAIN h.watch
        /\ UNCHANGED <<row, cache, scanned, event, queue, conns, due, closed, notifier, timeouter,
                       open, known, crashed>>
    BY Zenon, <1>3 DEF AddWatcher, AddWatcherLocked, Served, Active
  <2>2. f \in DOMAIN h.watch /\ h.watch[f] \in Version /\ h.watch \in Partial
    BY Zenon, <1>1, <2>1, PartialValue DEF Handlers
  <2>3. Watcher(k, f) \in [conn : Conn, ver : Version] /\ Watcher(k, f).conn = k /\ Watcher(k, f).ver = h.watch[f]
    BY Zenon, <2>2 DEF Watcher
  <2>4. /\ bucket' \subseteq File /\ watchers' \in [File -> SUBSET [conn : Conn, ver : Version]]
        /\ \A g \in File : \A w \in watchers'[g] : w \in watchers[g] \/ (g = f /\ w = Watcher(k, f))
    <3>1. CASE AddWatcher(k, f)
      BY <2>3, <3>1 DEF AddWatcher, Shared
    <3>2. CASE AddWatcherLocked(k, f)
      BY SMTT(30), <2>3, <3>2 DEF AddWatcherLocked, Shared
    <3> QED BY Zenon, <1>3, <3>1, <3>2
  <2>5. CASE Added(k, f)
    <3> DEFINE base == [g \in DOMAIN h.watch |-> row[g].ver]
               pc == IF h.todo = {f} THEN "hold" ELSE "load"
               v == [h EXCEPT !.todo = @ \ {f}, !.at = "none", !.pc = pc, !.base = base]
    <3>1. base \in Partial
      <4>1. DOMAIN h.watch \in SUBSET File
        BY Zenon, <2>2, PartialValue
      <4> QED BY Zenon, <4>1, PartialType DEF Stored
    <3> HIDE DEF base
    <3>2. handler' = [handler EXCEPT ![k] = v]
      BY Zenon, <2>5 DEF Added, base
    <3>3. pc \in {"hold", "load"}
      BY Zenon
    <3> HIDE DEF pc
    <3>4. /\ v \in Handlers /\ v.pc = pc /\ v.watch = h.watch /\ v.answer = h.answer
          /\ v.todo = h.todo \ {f}
      BY Zenon, <1>1, <3>1, <3>3 DEF Handlers
    <3> HIDE DEF v, h
    <3> QED BY ZenonT(30), <2>1, <2>2, <2>3, <2>4, <3>2, <3>3, <3>4, ProgressStep DEF h
  <2>6. CASE ~Added(k, f)
    <3> DEFINE v == [h EXCEPT !.pc = "lock", !.at = f]
    <3>1. handler' = [handler EXCEPT ![k] = v]
      BY Zenon, <1>3, <2>6 DEF AddWatcher, AddWatcherLocked
    <3>2. /\ v \in Handlers /\ v.pc = "lock" /\ v.at = f /\ v.watch = h.watch /\ v.answer = h.answer
          /\ v.todo = h.todo
      BY Zenon, <1>1 DEF Handlers
    <3> HIDE DEF v, h, IInv
    <3>3. \A g \in File : \A w \in watchers'[g] :
            w \in watchers[g] \/ (w.conn = k /\ g \in DOMAIN v.watch /\ w.ver = v.watch[g])
      BY Zenon, <2>2, <2>3, <2>4, <3>2
    <3> QED BY ZenonT(30), <2>1, <2>4, <3>1, <3>2, <3>3, ProgressStep DEF h
  <2> QED BY Zenon, <2>5, <2>6
<1> QED BY Zenon, <1>2, <1>3 DEF Handle

-----------------------------------------------------------------------------
\* The two workers. A step of one of them that leaves the requests alone.
LEMMA NotifierFrame ==
  ASSUME IInv, Stored', notifier' \in Notifiers, Notifying', closed' \subseteq Conn,
         notifier.at = NoConn \/ notifier'.at = notifier.at,
         UNCHANGED <<row, bucket, watchers, conns, due, handler, timeouter, open, known>>
  PROVE  IInv'
<1> USE DEF IInv
<1>1. Shared' /\ Watched' /\ Timing' /\ Waiting'
  BY DEF Shared, Watched, Timing, Waiting, Active, Watching
<1>2. Served'
  BY ZenonT(30), ConfigConstants DEF Served, Active, Older
<1> QED BY Zenon, <1>1, <1>2

\* A step of the timeout worker that touches nothing but its own state.
LEMMA TimeouterFrame ==
  ASSUME IInv, timeouter' \in Timeouters, Timing',
         timeouter.at = NoConn \/ timeouter'.at = timeouter.at,
         UNCHANGED <<row, cache, scanned, event, queue, crashed, bucket, watchers, conns, due, closed,
                     handler, notifier, open, known>>
  PROVE  IInv'
<1> USE DEF IInv
<1>1. Stored' /\ Shared' /\ Watched' /\ Notifying' /\ Waiting'
  BY DEF Stored, Shared, Watched, Notifying, Waiting, Active, Watching, Older
<1>2. Served'
  BY Zenon, ConfigConstants DEF Served, Active, Older
<1> QED BY Zenon, <1>1, <1>2

\* The handler of a request receives an answer that is news, or none.
LEMMA ReceiveStep ==
  ASSUME IInv, NEW k \in Conn, NEW a \in Message \cup {NoChange}, handler[k].pc = "hold",
         a = NoChange \/ Older(k, a.file, a.ver),
         handler' = [handler EXCEPT ![k].pc = "done", ![k].answer = a],
         UNCHANGED <<watchers, conns>>
  PROVE  /\ handler' \in [Conn -> Handlers]
         /\ handler'[k].pc = "done" /\ handler'[k].watch = handler[k].watch /\ handler'[k].answer = a
         /\ \A j \in Conn : j # k => handler'[j] = handler[j]
         /\ Watched'
<1> USE DEF IInv
<1> DEFINE v == [handler[k] EXCEPT !.pc = "done", !.answer = a]
<1>1. v \in Handlers /\ v.pc = "done" /\ v.watch = handler[k].watch /\ v.answer = a
  BY ZenonT(30) DEF Shared, Handlers
<1>2. handler' = [handler EXCEPT ![k] = v] /\ handler \in [Conn -> Handlers]
  BY Zenon DEF Shared
<1> HIDE DEF v
<1>3. handler' \in [Conn -> Handlers] /\ \A j \in Conn : handler'[j] = IF j = k THEN v ELSE handler[j]
  BY ZenonT(30), <1>1, <1>2
<1>4. Watched'
  <2>1. \A f \in File : \A w \in watchers[f] : w.conn \in Conn
    BY DEF Shared
  <2> QED BY <1>1, <1>3, <2>1 DEF Watched, Active
<1> QED BY Zenon, <1>1, <1>3, <1>4

\* The steps of the notifier but for sending and removing.
LEMMA NotifyStep ==
  ASSUME IInv, NotifyToWatchers \/ NotifyWatchers \/ NotifyClose \/ NotifyDone
  PROVE  IInv' /\ UNCHANGED known
<1> USE DEF IInv, Running
<1>1. notifier \in Notifiers /\ notifier.at \in Conn \cup {NoConn}
  BY Zenon DEF Shared, Notifiers
<1>2. CASE NotifyToWatchers
  <2> DEFINE msg == Head(queue)
             n == [IdleNotifier EXCEPT !.pc = "range", !.msg = msg,
                                       !.ranging = {w.conn : w \in watchers[msg.file]}]
  <2>1. /\ notifier.pc = "idle" /\ queue # <<>> /\ queue' = Tail(queue) /\ notifier' \in {n, IdleNotifier}
        /\ UNCHANGED <<row, cache, scanned, event, bucket, watchers, conns, due, closed, timeouter,
                       handler, open, known, crashed>>
    BY Zenon, <1>2 DEF NotifyToWatchers
  <2>2. msg \in Message /\ queue' \in Seq(Message) /\ Len(queue') <= QueueSize
    <3>1. queue \in Seq(Message) /\ Len(queue) <= QueueSize
      BY Zenon DEF Stored
    <3> QED BY <2>1, <3>1, ConfigConstants
  <2>3. Stored'
    BY Zenon, <2>1, <2>2 DEF Stored
  <2>4. n \in Notifiers /\ n.pc = "range" /\ n.at = NoConn /\ n.msg = msg
    <3>1. {w.conn : w \in watchers[msg.file]} \subseteq Conn
      BY <2>2 DEF Message, Shared
    <3> HIDE DEF msg
    <3> QED BY Zenon, <2>2, <3>1, IdleTypes DEF Notifiers, IdleNotifier
  <2>5. notifier' \in Notifiers /\ notifier'.at = NoConn /\ notifier.at = NoConn
    BY ZenonT(30), <2>1, <2>4, IdleTypes DEF IdleNotifier, Notifying
  <2> HIDE DEF n
  <2>6. Notifying'
    <3>1. CASE notifier' = n
      BY Zenon, <2>2, <2>4, <3>1 DEF Notifying
    <3>2. CASE notifier' = IdleNotifier
      <4>1. IdleNotifier.pc = "idle" /\ IdleNotifier.at = NoConn
        BY Zenon DEF IdleNotifier
      <4> QED BY Zenon, <3>2, <4>1 DEF Notifying
    <3> QED BY Zenon, <2>1, <3>1, <3>2
  <2> QED BY Zenon, <2>1, <2>3, <2>5, <2>6, NotifierFrame DEF Shared
<1>3. ASSUME NEW k \in notifier.ranging, NotifyWatcher(k) PROVE IInv' /\ UNCHANGED known
  <2> DEFINE go == [notifier EXCEPT !.ranging = @ \ {k}]
             n == [notifier EXCEPT !.ranging = @ \ {k}, !.pc = "send", !.at = k]
  <2>1. /\ notifier.pc = "range" /\ k \in Conn
        /\ IF Behind(k, notifier.msg) /\ k \in conns THEN notifier' = n ELSE notifier' = go
        /\ UNCHANGED <<row, cache, scanned, event, queue, bucket, watchers, conns, due, closed,
                       timeouter, handler, open, known, crashed>>
    BY Zenon, <1>1, <1>3 DEF NotifyWatcher, Notifiers
  <2>2. go \in Notifiers /\ go.pc = notifier.pc /\ go.at = notifier.at /\ go.msg = notifier.msg
    BY Zenon, <1>1 DEF Notifiers
  <2>3. n \in Notifiers /\ n.pc = "send" /\ n.at = k /\ n.msg = notifier.msg
    BY Zenon, <1>1, <2>1 DEF Notifiers
  <2> HIDE DEF go, n
  <2>4. notifier.at = NoConn /\ notifier.msg \in Message /\ notifier.msg.file \in File
    BY Zenon, <2>1 DEF Notifying, Message
  <2>5. Behind(k, notifier.msg) /\ Active(k) => Older(k, notifier.msg.file, notifier.msg.ver)
    BY <2>4 DEF Behind, Watched, Older
  <2>6. Notifying'
    <3>1. CASE notifier' = go
      BY Zenon, <2>1, <2>2, <2>4, <3>1 DEF Notifying
    <3>2. CASE notifier' = n /\ Behind(k, notifier.msg)
      BY Zenon, <2>1, <2>3, <2>4, <2>5, <3>2, ConfigConstants DEF Notifying, Active, Older
    <3> QED BY Zenon, <2>1, <3>1, <3>2
  <2>7. notifier' \in Notifiers /\ Stored' /\ closed' \subseteq Conn
    BY Zenon, <2>1, <2>2, <2>3 DEF Stored, Shared
  <2> QED BY Zenon, <2>1, <2>4, <2>6, <2>7, NotifierFrame
<1>4. CASE NotifyClose
  <2> DEFINE n == [notifier EXCEPT !.pc = "remove"]
  <2>1. /\ notifier.pc = "close" /\ notifier' = n /\ closed' = closed \cup {notifier.at}
        /\ UNCHANGED <<row, cache, scanned, event, queue, bucket, watchers, conns, due, timeouter,
                       handler, open, known, crashed>>
    BY Zenon, <1>4 DEF NotifyClose
  <2>2. n \in Notifiers /\ n.pc = "remove" /\ n.at = notifier.at /\ n.msg = notifier.msg
    BY Zenon, <1>1 DEF Notifiers
  <2> HIDE DEF n
  <2>3. notifier.at \in Conn /\ Notifying'
    BY Zenon, <1>1, <2>1, <2>2 DEF Notifying
  <2>4. Stored' /\ closed' \subseteq Conn
    BY Zenon, <2>1, <2>3 DEF Stored, Shared
  <2> QED BY Zenon, <2>1, <2>2, <2>3, <2>4, NotifierFrame
<1>5. CASE NotifyDone
  <2>1. /\ notifier.pc = "range" /\ notifier' = IdleNotifier
        /\ UNCHANGED <<row, cache, scanned, event, queue, bucket, watchers, conns, due, closed,
                       timeouter, handler, open, known, crashed>>
    BY Zenon, <1>5 DEF NotifyDone
  <2>2. Notifying' /\ notifier.at = NoConn
    BY Zenon, <2>1, ConfigConstants DEF Notifying, IdleNotifier
  <2>3. Stored' /\ closed' \subseteq Conn
    BY Zenon, <2>1 DEF Stored, Shared
  <2> QED BY Zenon, <2>1, <2>2, <2>3, NotifierFrame, IdleTypes
<1> QED BY Zenon, <1>2, <1>3, <1>4, <1>5 DEF NotifyWatchers

\* The rest after an answer: k is done, and its worker keeps it in view.
LEMMA AnswerFrame ==
  ASSUME IInv, NEW k \in Conn, NEW a \in Message \cup {NoChange}, handler[k].pc = "hold",
         a = NoChange \/ Older(k, a.file, a.ver),
         handler' = [handler EXCEPT ![k].pc = "done", ![k].answer = a],
         k \in {notifier.at, timeouter.at}, notifier'.at = notifier.at, timeouter'.at = timeouter.at,
         notifier' \in Notifiers, timeouter' \in Timeouters, Notifying', Timing',
         UNCHANGED <<row, cache, scanned, event, queue, bucket, watchers, conns, due, closed,
                     open, known, crashed>>
  PROVE  IInv'
<1> USE DEF IInv
<1>1. /\ handler' \in [Conn -> Handlers]
      /\ handler'[k].pc = "done" /\ handler'[k].watch = handler[k].watch /\ handler'[k].answer = a
      /\ \A j \in Conn : j # k => handler'[j] = handler[j]
      /\ Watched'
  BY Zenon, ReceiveStep
<1>2. Stored' /\ Shared'
  BY Zenon, <1>1 DEF Stored, Shared
<1>3. Served'
  BY <1>1 DEF Served, Active, Older
<1>4. Waiting'
  BY <1>1 DEF Waiting
<1> QED BY Zenon, <1>1, <1>2, <1>3, <1>4

\* An answer by the notifier or by the timeout worker.
LEMMA SendStep == ASSUME IInv, NotifySend \/ TimeoutSend PROVE IInv' /\ UNCHANGED known
<1> USE DEF IInv, Running
<1>1. /\ notifier \in Notifiers /\ notifier.at \in Conn \cup {NoConn}
      /\ timeouter \in Timeouters /\ timeouter.at \in Conn \cup {NoConn}
  BY Zenon DEF Shared, Notifiers, Timeouters
<1>2. CASE NotifySend
  <2> DEFINE n == [notifier EXCEPT !.pc = "close"]
             k == notifier.at
  <2>1. /\ notifier.pc = "send" /\ handler[k].pc = "hold" /\ notifier' = n
        /\ handler' = [handler EXCEPT ![k].pc = "done", ![k].answer = notifier.msg]
        /\ UNCHANGED <<row, cache, scanned, event, queue, bucket, watchers, conns, due, closed,
                       timeouter, open, known, crashed>>
    BY Zenon, <1>2 DEF NotifySend
  <2>2. n \in Notifiers /\ n.pc = "close" /\ n.at = k /\ n.msg = notifier.msg
    BY Zenon, <1>1 DEF Notifiers
  <2> HIDE DEF n
  <2>3. k \in Conn /\ notifier.msg \in Message /\ Older(k, notifier.msg.file, notifier.msg.ver)
    BY Zenon, <1>1, <2>1 DEF Notifying, Active
  <2>4. handler'[k].pc = "done" /\ \A j \in Conn : j # k => handler'[j] = handler[j]
    BY Zenon, <2>1, <2>3, ReceiveStep
  <2>5. Notifying' /\ Timing'
    BY ZenonT(30), <1>1, <2>1, <2>2, <2>3, <2>4 DEF Notifying, Timing, Watching
  <2> QED BY Zenon, <1>1, <2>1, <2>2, <2>3, <2>5, AnswerFrame
<1>3. CASE TimeoutSend
  <2> DEFINE n == [timeouter EXCEPT !.pc = "remove"]
             k == timeouter.at
  <2>1. /\ timeouter.pc = "send" /\ handler[k].pc = "hold" /\ timeouter' = n
        /\ handler' = [handler EXCEPT ![k].pc = "done", ![k].answer = NoChange]
        /\ UNCHANGED <<row, cache, scanned, event, queue, bucket, watchers, conns, due, closed,
                       notifier, open, known, crashed>>
    BY Zenon, <1>3 DEF TimeoutSend
  <2>2. n \in Timeouters /\ n.pc = "remove" /\ n.at = k
    BY Zenon, <1>1 DEF Timeouters
  <2> HIDE DEF n
  <2>3. k \in Conn
    BY Zenon, <1>1, <2>1 DEF Timing
  <2>4. handler'[k].pc = "done" /\ \A j \in Conn : j # k => handler'[j] = handler[j]
    BY Zenon, <2>1, <2>3, ReceiveStep
  <2>5. Notifying' /\ Timing'
    BY ZenonT(30), <1>1, <2>1, <2>2, <2>3, <2>4 DEF Notifying, Timing, Watching, Active, Older
  <2> QED BY Zenon, <1>1, <2>1, <2>2, <2>3, <2>5, AnswerFrame
<1> QED BY Zenon, <1>2, <1>3

\* removeConn takes the watchers of an answered request.
LEMMA RemoveEffect ==
  ASSUME IInv, NEW k \in Conn, RemoveWatcher(k), UNCHANGED <<handler, conns>>
  PROVE  /\ watchers' \in [File -> SUBSET [conn : Conn, ver : Version]]
         /\ \A f \in File : watchers'[f] \subseteq watchers[f]
         /\ \A f \in File : \A w \in watchers'[f] : w.conn # k
         /\ Watched'
<1> USE DEF IInv
<1>1. /\ watchers' \in [File -> SUBSET [conn : Conn, ver : Version]]
      /\ \A f \in File : watchers'[f] \subseteq watchers[f]
  BY Zenon DEF RemoveWatcher, Shared
<1>2. \A f \in File : \A w \in watchers'[f] : w.conn # k
  BY Zenon DEF RemoveWatcher, Watched
<1>3. Watched'
  BY Zenon, <1>1 DEF Watched, Active
<1> QED BY Zenon, <1>1, <1>2, <1>3

\* The removal of watchers by the notifier or by the timeout worker.
LEMMA RemoveStep == ASSUME IInv, NotifyRemove \/ TimeoutRemove PROVE IInv' /\ UNCHANGED known
<1> USE DEF IInv, Running
<1>1. /\ notifier \in Notifiers /\ notifier.at \in Conn \cup {NoConn}
      /\ timeouter \in Timeouters /\ timeouter.at \in Conn \cup {NoConn}
  BY Zenon DEF Shared, Notifiers, Timeouters
<1>2. CASE NotifyRemove
  <2> DEFINE n == [notifier EXCEPT !.pc = "delete"]
             k == notifier.at
  <2>1. /\ notifier.pc = "remove" /\ RemoveWatcher(k) /\ notifier' = n
        /\ UNCHANGED <<row, cache, scanned, event, queue, bucket, conns, due, closed, timeouter,
                       handler, open, known, crashed>>
    BY Zenon, <1>2 DEF NotifyRemove
  <2>2. n \in Notifiers /\ n.pc = "delete" /\ n.at = k /\ n.msg = notifier.msg
    BY Zenon, <1>1 DEF Notifiers
  <2> HIDE DEF n
  <2>3. k \in Conn
    BY Zenon, <1>1, <2>1 DEF Notifying
  <2>4. /\ watchers' \in [File -> SUBSET [conn : Conn, ver : Version]]
        /\ \A f \in File : watchers'[f] \subseteq watchers[f]
        /\ \A f \in File : \A w \in watchers'[f] : w.conn # k
        /\ Watched'
    BY Zenon, <2>1, <2>3, RemoveEffect
  <2>5. Notifying'
    BY Zenon, <2>1, <2>2, <2>4 DEF Notifying, Watching
  <2>6. Timing'
    BY ZenonT(30), <2>1, <2>4 DEF Timing, Watching
  <2>7. Stored' /\ Shared' /\ Waiting'
    BY <2>1, <2>2, <2>4 DEF Stored, Shared, Waiting
  <2>8. Served'
    BY Zenon, <2>1, <2>2 DEF Served, Active, Older
  <2> QED BY Zenon, <2>1, <2>4, <2>5, <2>6, <2>7, <2>8
<1>3. CASE TimeoutRemove
  <2> DEFINE n == [timeouter EXCEPT !.pc = "delete"]
             k == timeouter.at
  <2>1. /\ timeouter.pc = "remove" /\ RemoveWatcher(k) /\ timeouter' = n
        /\ UNCHANGED <<row, cache, scanned, event, queue, bucket, conns, due, closed, notifier,
                       handler, open, known, crashed>>
    BY Zenon, <1>3 DEF TimeoutRemove
  <2>2. n \in Timeouters /\ n.pc = "delete" /\ n.at = k
    BY Zenon, <1>1 DEF Timeouters
  <2> HIDE DEF n
  <2>3. k \in Conn
    BY Zenon, <1>1, <2>1 DEF Timing
  <2>4. /\ watchers' \in [File -> SUBSET [conn : Conn, ver : Version]]
        /\ \A f \in File : watchers'[f] \subseteq watchers[f]
        /\ \A f \in File : \A w \in watchers'[f] : w.conn # k
        /\ Watched'
    BY Zenon, <2>1, <2>3, RemoveEffect
  <2>5. Notifying'
    BY Zenon, <2>1, <2>4 DEF Notifying, Watching, Active, Older
  <2>6. Timing'
    BY ZenonT(30), <2>1, <2>2, <2>4 DEF Timing, Watching
  <2>7. Stored' /\ Shared' /\ Waiting'
    BY <2>1, <2>2, <2>4 DEF Stored, Shared, Waiting
  <2>8. Served'
    BY Zenon, <2>1, <2>2 DEF Served, Active, Older
  <2> QED BY Zenon, <2>1, <2>4, <2>5, <2>6, <2>7, <2>8
<1> QED BY Zenon, <1>2, <1>3

\* Then removeConn takes the connection.
LEMMA DeleteStep == ASSUME IInv, NotifyDelete \/ TimeoutDelete PROVE IInv' /\ UNCHANGED known
<1> USE DEF IInv, Running
<1>1. /\ notifier \in Notifiers /\ notifier.at \in Conn \cup {NoConn}
      /\ timeouter \in Timeouters /\ timeouter.at \in Conn \cup {NoConn}
  BY Zenon DEF Shared, Notifiers, Timeouters
<1>2. CASE NotifyDelete
  <2> DEFINE n == [notifier EXCEPT !.pc = "range", !.at = NoConn]
             k == notifier.at
  <2>1. /\ notifier.pc = "delete" /\ notifier' = n /\ conns' = conns \ {k} /\ due' = due \ {k}
        /\ UNCHANGED <<row, cache, scanned, event, queue, bucket, watchers, closed, timeouter,
                       handler, open, known, crashed>>
    BY Zenon, <1>2 DEF NotifyDelete
  <2>2. n \in Notifiers /\ n.pc = "range" /\ n.at = NoConn /\ n.msg = notifier.msg
    BY Zenon, <1>1 DEF Notifiers
  <2> HIDE DEF n
  <2>3. handler[k].pc \in {"done", "free"} /\ notifier.msg \in Message
    BY Zenon, <2>1 DEF Notifying
  <2>4. Watched'
    BY Zenon, <2>1 DEF Watched, Notifying, Watching, Active
  <2>5. Notifying' /\ Timing'
    BY ZenonT(30), <2>1, <2>2, <2>3 DEF Notifying, Timing, Watching
  <2>6. Stored' /\ Shared' /\ Waiting'
    BY <2>1, <2>2 DEF Stored, Shared, Waiting
  <2>7. Served'
    BY Zenon, <2>1, <2>3 DEF Served, Active, Older
  <2> QED BY Zenon, <2>1, <2>4, <2>5, <2>6, <2>7
<1>3. CASE TimeoutDelete
  <2> DEFINE n == [timeouter EXCEPT !.pc = "range", !.at = NoConn]
             k == timeouter.at
  <2>1. /\ timeouter.pc = "delete" /\ timeouter' = n /\ conns' = conns \ {k} /\ due' = due \ {k}
        /\ UNCHANGED <<row, cache, scanned, event, queue, bucket, watchers, closed, notifier,
                       handler, open, known, crashed>>
    BY Zenon, <1>3 DEF TimeoutDelete
  <2>2. n \in Timeouters /\ n.pc = "range" /\ n.at = NoConn
    BY Zenon, <1>1 DEF Timeouters
  <2> HIDE DEF n
  <2>3. handler[k].pc \in {"done", "free"}
    BY Zenon, <2>1 DEF Timing
  <2>4. Watched'
    BY Zenon, <2>1 DEF Watched, Timing, Watching, Active
  <2>5. Notifying' /\ Timing'
    BY Zenon, <2>1, <2>2, <2>3 DEF Notifying, Timing, Watching, Active, Older
  <2>6. Stored' /\ Shared' /\ Waiting'
    BY Zenon, <2>1, <2>2 DEF Stored, Shared, Waiting
  <2>7. Served'
    BY Zenon, <2>1, <2>3 DEF Served, Active, Older
  <2> QED BY Zenon, <2>1, <2>4, <2>5, <2>6, <2>7
<1> QED BY Zenon, <1>2, <1>3

\* The steps of the timeout worker but for sending and removing.
LEMMA TimeoutStep ==
  ASSUME IInv,
         \/ \E k \in Conn : Overdue(k)
         \/ TimeoutTick \/ TimeoutConns \/ TimeoutPanic \/ TimeoutDone
  PROVE  IInv' /\ UNCHANGED known
<1> USE DEF IInv, Running
<1>1. timeouter \in Timeouters
  BY Zenon DEF Shared
<1>2. ASSUME NEW k \in Conn, Overdue(k) PROVE IInv' /\ UNCHANGED known
  <2>1. /\ k \in conns /\ due' = due \cup {k}
        /\ UNCHANGED <<row, cache, scanned, event, queue, bucket, watchers, conns, closed, notifier,
                       timeouter, handler, open, known, crashed>>
    BY Zenon, <1>2 DEF Overdue
  <2>2. Stored' /\ Shared'
    BY ZenonT(30), <2>1 DEF Stored, Shared
  <2>3. Served' /\ Watched' /\ Notifying' /\ Timing' /\ Waiting'
    BY ZenonT(30), <2>1 DEF Served, Watched, Notifying, Timing, Waiting, Active, Older, Watching
  <2> QED BY Zenon, <2>1, <2>2, <2>3
<1>3. CASE TimeoutTick
  <2> DEFINE n == [IdleTimeouter EXCEPT !.pc = "range", !.ranging = conns]
  <2>1. /\ timeouter.pc = "idle" /\ timeouter' = n
        /\ UNCHANGED <<row, cache, scanned, event, queue, bucket, watchers, conns, due, closed,
                       notifier, handler, open, known, crashed>>
    BY Zenon, <1>3 DEF TimeoutTick
  <2>2. n \in Timeouters /\ n.pc = "range" /\ n.at = NoConn
    BY Zenon DEF Timeouters, IdleTimeouter, Shared
  <2> HIDE DEF n
  <2>3. Timing' /\ timeouter.at = NoConn
    BY Zenon, <2>1, <2>2 DEF Timing
  <2> QED BY Zenon, <2>1, <2>2, <2>3, TimeouterFrame
<1>4. ASSUME NEW k \in timeouter.ranging, TimeoutConn(k) PROVE IInv' /\ UNCHANGED known
  <2> DEFINE go == [timeouter EXCEPT !.ranging = @ \ {k}]
             n == [timeouter EXCEPT !.ranging = @ \ {k}, !.pc = "send", !.at = k]
  <2>1. /\ timeouter.pc = "range" /\ k \in Conn /\ timeouter' \in {go, n}
        /\ UNCHANGED <<row, cache, scanned, event, queue, bucket, watchers, conns, due, closed,
                       notifier, handler, open, known, crashed>>
    BY Zenon, <1>1, <1>4 DEF TimeoutConn, Timeouters
  <2>2. go \in Timeouters /\ go.pc = timeouter.pc /\ go.at = timeouter.at
    BY Zenon, <1>1 DEF Timeouters
  <2>3. n \in Timeouters /\ n.pc = "send" /\ n.at = k
    BY Zenon, <1>1, <2>1 DEF Timeouters
  <2> HIDE DEF go, n
  <2>4. Timing' /\ timeouter.at = NoConn
    BY Zenon, <2>1, <2>2, <2>3, ConfigConstants DEF Timing
  <2> QED BY Zenon, <2>1, <2>2, <2>3, <2>4, TimeouterFrame
<1>5. CASE TimeoutPanic
  <2>1. crashed' = TRUE /\ UNCHANGED <<row, cache, scanned, event, queue, bucket, watchers, conns, due,
                                        closed, notifier, timeouter, handler, open, known>>
    BY Zenon, <1>5 DEF TimeoutPanic, server
  <2>2. Stored' /\ \A f \in File : row[f].ver <= row'[f].ver
    BY <2>1, Versions DEF Stored
  <2> QED BY Zenon, <2>1, <2>2, StoreFrame
<1>6. CASE TimeoutDone
  <2>1. /\ timeouter.pc = "range" /\ timeouter' = IdleTimeouter
        /\ UNCHANGED <<row, cache, scanned, event, queue, bucket, watchers, conns, due, closed,
                       notifier, handler, open, known, crashed>>
    BY Zenon, <1>6 DEF TimeoutDone
  <2>2. Timing' /\ timeouter.at = NoConn
    BY Zenon, <2>1 DEF Timing, IdleTimeouter
  <2> QED BY Zenon, <2>1, <2>2, TimeouterFrame, IdleTypes
<1> QED BY Zenon, <1>2, <1>3, <1>4, <1>5, <1>6 DEF TimeoutConns
-----------------------------------------------------------------------------
\* Every step keeps the invariant, and no client goes back.
LEMMA NextStep == ASSUME IInv, Next PROVE IInv' /\ Forward
<1>1. ASSUME NEW f \in File, PublishConfigFile(f) \/ DeleteConfigFileRelease(f) \/ ClearExpireEntry(f)
      PROVE  IInv' /\ Forward
  BY Zenon, <1>1, StoreStep, StillForward
<1>2. CASE ScanRead \/ HandlerReleases \/ HandleEvent
  BY Zenon, <1>2, ScanStep, StillForward
<1>3. ASSUME NEW c \in Client, Watch(c) PROVE IInv' /\ Forward
  BY Zenon, <1>3, WatchStep, StillForward DEF Watch
<1>4. ASSUME NEW c \in Client, Answered(c) PROVE IInv' /\ Forward
  BY Zenon, <1>4, AnsweredStep
<1>5. ASSUME NEW c \in Client, NEW f \in File, GetConfigFileForClient(c, f) \/ FetchElsewhere(c, f)
      PROVE  IInv' /\ Forward
  BY Zenon, <1>5, GetStep
<1>6. ASSUME NEW k \in Conn, Handle(k) PROVE IInv' /\ Forward
  BY Zenon, <1>6, HandleStep, StillForward
<1>7. CASE NotifyToWatchers \/ NotifyWatchers \/ NotifyClose \/ NotifyDone
  BY Zenon, <1>7, NotifyStep, StillForward
<1>8. CASE NotifySend \/ TimeoutSend
  BY Zenon, <1>8, SendStep, StillForward
<1>9. CASE NotifyRemove \/ TimeoutRemove
  BY Zenon, <1>9, RemoveStep, StillForward
<1>10. CASE NotifyDelete \/ TimeoutDelete
  BY Zenon, <1>10, DeleteStep, StillForward
<1>11. CASE (\E k \in Conn : Overdue(k)) \/ TimeoutTick \/ TimeoutConns \/ TimeoutPanic \/ TimeoutDone
  BY Zenon, <1>11, TimeoutStep, StillForward
<1> QED BY Zenon, <1>1, <1>2, <1>3, <1>4, <1>5, <1>6, <1>7, <1>8, <1>9, <1>10, <1>11 DEF Next

\* Every step of the watch keeps the invariant.
LEMMA Inductive == IInv /\ [Next]_vars => IInv'
<1>1. ASSUME IInv, UNCHANGED vars PROVE IInv'
  <2>1. Stored' /\ \A f \in File : row[f].ver <= row'[f].ver
    BY <1>1, Versions DEF IInv, Stored, vars, server
  <2> QED BY Zenon, <1>1, <2>1, StoreFrame DEF vars, server
<1> QED BY Zenon, <1>1, NextStep

\* A request that waits is connected, nothing is left of a request that was
\* answered, and all the state keeps its types, however the notifier, the
\* timeout worker and the handlers interleave (AddConn, removeConn).
THEOREM WatchIsSound == Spec => []WatchSound
<1>1. IInv => WatchSound
  <2> SUFFICES ASSUME IInv PROVE WatchSound
    BY Zenon
  <2>1. TypeOK
    BY Zenon DEF IInv, Stored, Shared, Waiting, TypeOK, Handlers, Notifiers, Timeouters
  <2>2. HeldConnected
    BY Zenon DEF IInv, Served, HeldConnected, Holding
  <2>3. NoLeak
    BY Zenon DEF IInv, Shared, Served, Watched, NoLeak
  <2> QED BY Zenon, <2>1, <2>2, <2>3 DEF WatchSound
<1> QED BY <1>1, InitIInv, Inductive, PTL DEF Spec

\* A client never goes back to an older release of a file
\* (GetConfigFileForClient reloads an entry that is behind the client), and to
\* none only when the reload finds the release deleted.
THEOREM WatchKnownForward == Spec => KnownForward
<1>1. IInv /\ [Next]_vars => [Forward]_vars
  BY Zenon, NextStep
<1>2. Spec => []IInv
  BY InitIInv, Inductive, PTL DEF Spec
<1>3. Spec => [][Forward]_vars
  BY <1>1, <1>2, PTL DEF Spec
<1> QED BY Zenon, <1>3 DEF KnownForward, Forward
=============================================================================
