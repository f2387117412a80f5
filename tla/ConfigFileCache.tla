-------------------------- MODULE ConfigFileCache --------------------------
(***************************************************************************)
(* The release of one configuration file in the store, the entry of the    *)
(* file cache of one server (src/cache/config_file.go), and those that     *)
(* write and read them step by step: administrators that publish and       *)
(* delete the release, requests of clients that load the file, and the     *)
(* release scanner. Files share no state of the cache (each has an entry   *)
(* and a load lock of its own), so one file is enough.                     *)
(***************************************************************************)
EXTENDS Integers, FiniteSets

CONSTANTS Reader,     \* requests of clients (GetConfigFileForClient)
          Scanner,    \* the goroutine of releaseMessageScanner
          Admin,      \* calls of PublishConfigFile and DeleteConfigFileRelease
          NoThread,   \* the load lock is free
          MaxEdits,   \* bound on the writes of the release
          MayFail,    \* TRUE iff a read of the store may fail
          MayExpire   \* TRUE iff a scan may come later than MessageExpireTime

Thread == Reader \cup {Scanner}

ASSUME CacheConstants ==
    /\ Scanner \notin Reader /\ NoThread \notin Thread
    /\ MaxEdits \in Nat
    /\ {MayFail, MayExpire} \subseteq BOOLEAN

VARIABLES
    row,     \* the release: version, flag and content; version 0 before the first
    edits,   \* the number of writes so far, which also names the content
    admin,   \* admin[a]: the operation of a and the release it has read
    files,   \* the entry of fileCache.files
    lock,    \* the holder of the load lock of the file
    at,      \* at[t]: where the thread t is
    read,    \* read[t]: the release t has read from the store
    want,    \* want[t]: the version the client of t has
    again,   \* the requests that have reloaded the cache
    ret      \* ret[t]: the entry t returns

thread == <<at, read, want, again, ret>>
fileVars == <<row, edits, admin, files, lock, thread>>

Release == [ver : 0..MaxEdits, flag : {0, 1}, content : 0..MaxEdits]
NoRelease == [ver |-> 0, flag |-> 0, content |-> 0]
Entry == [kind : {"absent", "empty", "file"}, ver : 0..MaxEdits, content : 0..MaxEdits]
Absent == [kind |-> "absent", ver |-> 0, content |-> 0]

(* One type invariant: versions never exceed the number of writes.         *)
FileTypeOK ==
    /\ row \in Release
    /\ edits \in 0..MaxEdits
    /\ admin \in [Admin -> [pc : {"idle", "publish", "delete"}, saw : Release]]
    /\ files \in Entry
    /\ lock \in Thread \cup {NoThread}
    /\ at \in [Thread -> {"idle", "handle", "remove", "lookup", "lock", "read", "store", "done"}]
    /\ read \in [Thread -> Release]
    /\ want \in [Reader -> 0..MaxEdits]
    /\ again \subseteq Reader
    /\ ret \in [Thread -> Entry]

FileInit ==
    /\ row = NoRelease /\ edits = 0
    /\ admin = [a \in Admin |-> [pc |-> "idle", saw |-> NoRelease]]
    /\ files = Absent /\ lock = NoThread
    /\ at = [t \in Thread |-> "idle"]
    /\ read = [t \in Thread |-> NoRelease]
    /\ want = [t \in Reader |-> 0]
    /\ again = {}
    /\ ret = [t \in Thread |-> Absent]
-----------------------------------------------------------------------------
(***************************************************************************)
(* Administrators. Both operations read the release and write it later.    *)
(***************************************************************************)
\* GetConfigFileReleaseWithAllFlag of PublishConfigFile, and the read of
\* DeleteConfigFileRelease, which has nothing to do without a release.
AdminRead(a, op) ==
    /\ admin[a].pc = "idle" /\ edits < MaxEdits
    /\ op = "delete" => row.ver > 0 /\ row.flag = 0
    /\ admin' = [admin EXCEPT ![a] = [pc |-> op, saw |-> row]]
    /\ UNCHANGED <<row, edits, files, lock, thread>>

Write(a, release) ==
    /\ row' = release
    /\ edits' = edits + 1
    /\ admin' = [admin EXCEPT ![a] = [pc |-> "idle", saw |-> NoRelease]]
    /\ UNCHANGED <<files, lock, thread>>

\* A mutant: a publication skips a version.
PublishSkips(a) ==
    /\ admin[a].pc = "publish" /\ edits < MaxEdits
    /\ admin[a].saw.ver = 0 => row.ver = 0
    /\ Write(a, [ver |-> admin[a].saw.ver + 2, flag |-> 0, content |-> edits + 1])

\* CreateConfigFileRelease (which the unique key of the table lets through
\* once) or UpdateConfigFileRelease, with the version after the one read.
PublishConfigFile(a) ==
    /\ admin[a].pc = "publish" /\ edits < MaxEdits
    /\ admin[a].saw.ver = 0 => row.ver = 0
    /\ Write(a, [ver |-> admin[a].saw.ver + 1, flag |-> 0, content |-> edits + 1])

\* The transaction. When the release gets a new name,
\* UpdateConfigFileRelease writes back the version that was read; then the
\* version in the store is increased.
DeleteConfigFileRelease(a, rename) ==
    /\ admin[a].pc = "delete" /\ edits < MaxEdits
    /\ LET old == IF rename THEN admin[a].saw ELSE row
       IN  Write(a, [ver |-> old.ver + 1, flag |-> 1, content |-> old.content])

\* The write fails, or the store refuses a second release of the file.
AdminError(a) ==
    /\ admin[a].pc # "idle"
    /\ admin' = [admin EXCEPT ![a] = [pc |-> "idle", saw |-> NoRelease]]
    /\ UNCHANGED <<row, edits, files, lock, thread>>
-----------------------------------------------------------------------------
(***************************************************************************)
(* fileCache.                                                              *)
(***************************************************************************)
\* The entry made of a release of the store: an empty one when there is none.
Loaded(release) ==
    IF release.ver > 0 /\ release.flag = 0
    THEN [kind |-> "file", ver |-> release.ver, content |-> release.content]
    ELSE [Absent EXCEPT !.kind = "empty"]

Goto(t, label) == at' = [at EXCEPT ![t] = label]

\* A mutant: a request is answered with what the cache has.
ReturnOnce(t, entry) ==
    /\ ret' = [ret EXCEPT ![t] = IF t = Scanner THEN Absent ELSE entry]
    /\ Goto(t, IF t = Scanner THEN "idle" ELSE "done")

\* GetOrLoadIfAbsent returns entry to t. GetConfigFileForClient reloads once
\* when its client has a newer version; the scanner ignores the entry.
Return(t, entry) ==
    /\ ret' = [ret EXCEPT ![t] = IF t = Scanner THEN Absent ELSE entry]
    /\ Goto(t, CASE t = Scanner -> "idle"
                 [] t # Scanner /\ entry.kind = "file" /\ want[t] > entry.ver /\ t \notin again -> "remove"
                 [] OTHER -> "done")

\* The first Load of GetOrLoadIfAbsent.
Lookup(t) ==
    /\ at[t] = "lookup"
    /\ IF files = Absent THEN Goto(t, "lock") /\ UNCHANGED ret
                         ELSE Return(t, files)
    /\ UNCHANGED <<row, edits, admin, files, lock, read, want, again>>

\* A mutant: the entry is not looked up again under the lock.
LockNoCheck(t) ==
    /\ at[t] = "lock" /\ lock = NoThread
    /\ lock' = t /\ Goto(t, "read") /\ UNCHANGED ret
    /\ UNCHANGED <<row, edits, admin, files, read, want, again>>

\* loadLock.Lock() and the double check.
Lock(t) ==
    /\ at[t] = "lock" /\ lock = NoThread
    /\ IF files = Absent THEN lock' = t /\ Goto(t, "read") /\ UNCHANGED ret
                         ELSE Return(t, files) /\ UNCHANGED lock
    /\ UNCHANGED <<row, edits, admin, files, read, want, again>>

\* getConfigFileReleaseAndDataKey
GetConfigFileRelease(t) ==
    /\ at[t] = "read"
    /\ read' = [read EXCEPT ![t] = row]
    /\ Goto(t, "store")
    /\ UNCHANGED <<row, edits, admin, files, lock, want, again, ret>>

\* t is through and keeps nothing of what it was about.
Forget(t) ==
    /\ Goto(t, "idle")
    /\ ret' = [ret EXCEPT ![t] = Absent]
    /\ want' = [r \in Reader |-> IF r = t THEN 0 ELSE want[r]]
    /\ again' = again \ {t}

\* The store fails: the request ends with an error, the scan goes on.
LoadError(t) ==
    /\ MayFail /\ at[t] = "read"
    /\ lock' = NoThread
    /\ Forget(t)
    /\ UNCHANGED <<row, edits, admin, files, read>>

Store(t) ==
    /\ at[t] = "store"
    /\ files' = Loaded(read[t])
    /\ lock' = NoThread
    /\ Return(t, Loaded(read[t]))
    /\ read' = [read EXCEPT ![t] = NoRelease]
    /\ UNCHANGED <<row, edits, admin, want, again>>

\* ReLoad: Remove, then GetOrLoadIfAbsent.
Remove(t) ==
    /\ at[t] = "remove"
    /\ files' = Absent
    /\ again' = again \cup ({t} \ {Scanner})
    /\ Goto(t, "lookup")
    /\ UNCHANGED <<row, edits, admin, lock, read, want, ret>>

ClearExpireEntry ==
    /\ files # Absent
    /\ files' = Absent
    /\ UNCHANGED <<row, edits, admin, lock, thread>>
-----------------------------------------------------------------------------
(***************************************************************************)
(* The requests and the scanner.                                           *)
(***************************************************************************)
\* A client has a version the store has had.
GetConfigFileForClient(t, v) ==
    /\ at[t] = "idle" /\ v <= row.ver
    /\ want' = [want EXCEPT ![t] = v]
    /\ again' = again \ {t}
    /\ Goto(t, "lookup")
    /\ UNCHANGED <<row, edits, admin, files, lock, read, ret>>

Respond(t) ==
    /\ at[t] = "done"
    /\ Forget(t)
    /\ UNCHANGED <<row, edits, admin, files, lock, read>>

\* A scan reads the releases modified since the last one it has seen, less
\* DefaultScanTimeOffset: the row is read again by scan after scan, as long as
\* no release of another file that is so much younger has been scanned.
ScanRead ==
    /\ at[Scanner] = "idle" /\ row.ver > 0
    /\ read' = [read EXCEPT ![Scanner] = row]
    /\ Goto(Scanner, "handle")
    /\ UNCHANGED <<row, edits, admin, files, lock, want, again, ret>>

\* A mutant: only a file that is not in the cache is news.
IsNewsIfAbsent(release) == files.kind # "file"

IsNews(release) == files.kind # "file" \/ release.ver > files.ver

\* handlerReleases; late is what isExpireMessage says of a deletion.
HandlerRelease(late) ==
    /\ at[Scanner] = "handle"
    /\ late => MayExpire /\ read[Scanner].flag = 1
    /\ IF ~IsNews(read[Scanner]) \/ late
       THEN Goto(Scanner, "idle") /\ UNCHANGED files
       ELSE IF read[Scanner].flag = 1
       THEN Goto(Scanner, "idle") /\ files' = Absent
       ELSE Goto(Scanner, "remove") /\ UNCHANGED files
    /\ read' = [read EXCEPT ![Scanner] = NoRelease]
    /\ UNCHANGED <<row, edits, admin, lock, want, again, ret>>
-----------------------------------------------------------------------------
ThreadStep(t) == \/ Lookup(t) \/ Lock(t) \/ GetConfigFileRelease(t) \/ LoadError(t)
                 \/ Store(t) \/ Remove(t)

AdminStep(a) == \/ \E op \in {"publish", "delete"} : AdminRead(a, op)
                \/ PublishConfigFile(a)
                \/ \E rename \in BOOLEAN : DeleteConfigFileRelease(a, rename)
                \/ AdminError(a)

FileNext ==
    \/ \E a \in Admin : AdminStep(a)
    \/ \E t \in Thread : ThreadStep(t)
    \/ \E t \in Reader : Respond(t) \/ \E v \in 0..MaxEdits : GetConfigFileForClient(t, v)
    \/ ClearExpireEntry
    \/ ScanRead
    \/ \E late \in BOOLEAN : HandlerRelease(late)

FileSpec == FileInit /\ [][FileNext]_fileVars

\* The goroutines run, and the mutex starves no waiter (the starvation mode of
\* sync.Mutex). A store that fails forever is not assumed away for readers.
FileFairness ==
    /\ \A t \in Thread : /\ WF_fileVars(Lookup(t)) /\ SF_fileVars(Lock(t))
                         /\ WF_fileVars(GetConfigFileRelease(t) \/ LoadError(t))
                         /\ WF_fileVars(Store(t)) /\ WF_fileVars(Remove(t))
    /\ WF_fileVars(ScanRead) /\ WF_fileVars(\E late \in BOOLEAN : HandlerRelease(late))

FairFileSpec == FileSpec /\ FileFairness
-----------------------------------------------------------------------------
(* A thread that loads the release holds the load lock, and the cache has   *)
(* no entry until it stores its own: a load never overwrites an entry, so   *)
(* the branch of GetOrLoadIfAbsent for an existing entry is never taken.    *)
OneLoader ==
    \A t \in Thread : at[t] \in {"read", "store"} => lock = t /\ files = Absent

(* A client is never answered with an older release than the one it has:    *)
(* "when the version of the client is above the server's, the server        *)
(* reloads the cache" (GetConfigFileForClient), and no load that began      *)
(* before can bring the old entry back. An empty entry has no release: that *)
(* of a reload is answered with version 0 (KnownForward of ConfigWatch).    *)
GetFresh ==
    \A t \in Reader : at[t] = "done" /\ ret[t].kind = "file" => ret[t].ver >= want[t]

(* Loads are exclusive, and what they answer is never behind the client     *)
(* (GetOrLoadIfAbsent with its load lock, GetConfigFileForClient).          *)
LoadsSound == FileTypeOK /\ OneLoader /\ GetFresh

(* When the administrators are through, the cache ends up without the file  *)
(* or with the content of its last release: scans make up for every load    *)
(* that raced with a publication (handlerReleases).                         *)
FileCacheSettles ==
    <>[](files.kind = "file" => row.flag = 0 /\ files.content = row.content)
=============================================================================
