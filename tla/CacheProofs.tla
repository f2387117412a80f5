----------------------------- MODULE CacheProofs -----------------------------
(***************************************************************************)
(* Proofs about two caches of a server, for any number of clients,         *)
(* instances and writes.                                                   *)
(*                                                                         *)
(* ConfigFileCache: types, that a load never meets an entry, that a        *)
(* request is never answered with an older release than the one its client *)
(* has, and that the releases of the file are a register of ReleaseLog.    *)
(*                                                                         *)
(* InstanceCache: types, and that no committed change leaves the window of *)
(* the fetches before the cache has it, when the overlap DiffTime is at    *)
(* least the delay of the replica and no fetch fails.                      *)
(***************************************************************************)
EXTENDS ConfigFileCache, InstanceCache, FiniteSetTheorems, TLAPS

-----------------------------------------------------------------------------
\* The file cache

\* Versions are bounded by the number of writes, also in what has been read.
Bounded ==
    /\ row.ver <= edits
    /\ \A a \in Admin : admin[a].saw.ver <= edits

\* Return answers a reader or the scanner.
LEMMA ReturnType ==
    ASSUME FileTypeOK, NEW t \in Thread, NEW e \in Entry, Return(t, e)
    PROVE  /\ ret' \in [Thread -> Entry]
           /\ at' \in [Thread -> {"idle", "handle", "remove", "lookup", "lock", "read", "store", "done"}]
           /\ at'[t] \in {"idle", "remove", "done"}
           /\ \A u \in Thread \ {t} : at'[u] = at[u] /\ ret'[u] = ret[u]
<1>1. ret' \in [Thread -> Entry] /\ \A u \in Thread \ {t} : ret'[u] = ret[u]
      BY CacheConstants DEF FileTypeOK, Return, Absent, Entry
<1>2. \E label \in {"idle", "remove", "done"} : at' = [at EXCEPT ![t] = label]
      BY Zenon DEF Return, Goto
<1> QED BY <1>1, <1>2 DEF FileTypeOK

\* A thread that is through forgets its request and leaves the others alone.
LEMMA ForgetType ==
    ASSUME FileTypeOK, NEW t \in Thread, Forget(t)
    PROVE  /\ at' \in [Thread -> {"idle", "handle", "remove", "lookup", "lock", "read", "store", "done"}]
           /\ ret' \in [Thread -> Entry] /\ want' \in [Reader -> 0..MaxEdits] /\ again' \subseteq Reader
           /\ at'[t] = "idle"
           /\ \A u \in Thread \ {t} : /\ at'[u] = at[u] /\ ret'[u] = ret[u]
                                      /\ u \in again' <=> u \in again
           /\ \A r \in Reader : want'[r] = IF r = t THEN 0 ELSE want[r]
<1>1. Absent \in Entry /\ 0 \in 0..MaxEdits
      BY CacheConstants DEF Absent, Entry
<1>2. at' \in [Thread -> {"idle", "handle", "remove", "lookup", "lock", "read", "store", "done"}]
      BY Zenon DEF FileTypeOK, Forget, Goto
<1>3. ret' \in [Thread -> Entry] /\ again' \subseteq Reader
      BY Zenon, <1>1 DEF FileTypeOK, Forget
<1>4. want' \in [Reader -> 0..MaxEdits] /\ \A r \in Reader : want'[r] = IF r = t THEN 0 ELSE want[r]
      BY <1>1 DEF FileTypeOK, Forget
<1>5. /\ at'[t] = "idle"
      /\ \A u \in Thread \ {t} : /\ at'[u] = at[u] /\ ret'[u] = ret[u]
                                 /\ u \in again' <=> u \in again
      BY Zenon DEF FileTypeOK, Forget, Goto
<1> QED BY Zenon, <1>2, <1>3, <1>4, <1>5

\* What a load makes of a release is an entry with its version.
LEMMA LoadedType ==
    ASSUME NEW r \in Release
    PROVE  /\ Loaded(r) \in Entry
           /\ Loaded(r).kind \in {"empty", "file"}
           /\ Loaded(r) # Absent
           /\ Loaded(r).kind = "file" => Loaded(r).ver = r.ver
BY CacheConstants DEF Loaded, Release, Entry, Absent

(* Every step keeps the types and the bound on versions.                   *)
LEMMA FileTypeStep == FileTypeOK /\ Bounded /\ [FileNext]_fileVars => FileTypeOK' /\ Bounded'
<1> SUFFICES ASSUME FileTypeOK, Bounded, [FileNext]_fileVars PROVE FileTypeOK' /\ Bounded'
    BY Zenon
<1> USE CacheConstants
<1> Absent \in Entry /\ NoRelease \in Release
    BY DEF Absent, Entry, NoRelease, Release
<1>1. ASSUME NEW a \in Admin, AdminStep(a) PROVE FileTypeOK' /\ Bounded'
  <2>1. ASSUME NEW op \in {"publish", "delete"}, AdminRead(a, op) PROVE FileTypeOK' /\ Bounded'
        BY Zenon, <2>1 DEF AdminRead, FileTypeOK, Bounded, thread, Release
  <2>2. CASE PublishConfigFile(a)
        BY <2>2 DEF PublishConfigFile, Write, FileTypeOK, Bounded, thread, Release, NoRelease
  <2>3. ASSUME NEW rename \in BOOLEAN, DeleteConfigFileRelease(a, rename) PROVE FileTypeOK' /\ Bounded'
        BY <2>3 DEF DeleteConfigFileRelease, Write, FileTypeOK, Bounded, thread, Release, NoRelease
  <2>4. CASE AdminError(a)
        BY <2>4 DEF AdminError, FileTypeOK, Bounded, thread, Release, NoRelease
  <2> QED BY Zenon, <1>1, <2>1, <2>2, <2>3, <2>4 DEF AdminStep
<1>2. ASSUME NEW t \in Thread, ThreadStep(t) PROVE FileTypeOK' /\ Bounded'
  <2>1. CASE Lookup(t)
    <3>1. CASE files = Absent
          BY Zenon, <2>1, <3>1 DEF Lookup, Goto, FileTypeOK, Bounded
    <3>2. CASE files # Absent
      <4>1. Return(t, files) /\ files \in Entry
            BY Zenon, <2>1, <3>2 DEF Lookup, FileTypeOK
      <4> QED BY Zenon, <2>1, <4>1, ReturnType DEF Lookup, FileTypeOK, Bounded
    <3> QED BY Zenon, <3>1, <3>2
  <2>2. CASE Lock(t)
    <3>1. CASE files = Absent
          BY Zenon, <2>2, <3>1 DEF Lock, Goto, FileTypeOK, Bounded
    <3>2. CASE files # Absent
      <4>1. Return(t, files) /\ files \in Entry
            BY Zenon, <2>2, <3>2 DEF Lock, FileTypeOK
      <4> QED BY Zenon, <2>2, <3>2, <4>1, ReturnType DEF Lock, FileTypeOK, Bounded
    <3> QED BY Zenon, <3>1, <3>2
  <2>3. CASE GetConfigFileRelease(t)
        BY Zenon, <2>3 DEF GetConfigFileRelease, Goto, FileTypeOK, Bounded
  <2>4. CASE LoadError(t)
        BY Zenon, <2>4, ForgetType DEF LoadError, FileTypeOK, Bounded
  <2>5. CASE Store(t)
    <3>1. Loaded(read[t]) \in Entry /\ Return(t, Loaded(read[t]))
          BY Zenon, <2>5, LoadedType DEF Store, FileTypeOK
    <3> QED BY Zenon, <2>5, <3>1, ReturnType DEF Store, FileTypeOK, Bounded
  <2>6. CASE Remove(t)
    <3>1. {t} \ {Scanner} \subseteq Reader
          BY Zenon DEF Thread
    <3> QED BY Zenon, <2>6, <3>1 DEF Remove, Goto, FileTypeOK, Bounded
  <2> QED BY Zenon, <1>2, <2>1, <2>2, <2>3, <2>4, <2>5, <2>6 DEF ThreadStep
<1>3. ASSUME NEW t \in Reader, Respond(t) PROVE FileTypeOK' /\ Bounded'
  <2>1. t \in Thread
        BY Zenon DEF Thread
  <2> QED BY Zenon, <1>3, <2>1, ForgetType DEF Respond, FileTypeOK, Bounded
<1>4. ASSUME NEW t \in Reader, NEW v \in 0..MaxEdits, GetConfigFileForClient(t, v)
      PROVE  FileTypeOK' /\ Bounded'
      BY Zenon, <1>4 DEF GetConfigFileForClient, Goto, FileTypeOK, Bounded
<1>5. CASE ClearExpireEntry
      BY Zenon, <1>5 DEF ClearExpireEntry, FileTypeOK, Bounded, thread
<1>6. CASE ScanRead
      BY Zenon, <1>6 DEF ScanRead, Goto, FileTypeOK, Bounded
<1>7. ASSUME NEW late \in BOOLEAN, HandlerRelease(late) PROVE FileTypeOK' /\ Bounded'
      BY Zenon, <1>7 DEF HandlerRelease, Goto, FileTypeOK, Bounded
<1>8. CASE UNCHANGED fileVars
      BY Zenon, <1>8 DEF fileVars, thread, FileTypeOK, Bounded
<1> QED BY Zenon, <1>1, <1>2, <1>3, <1>4, <1>5, <1>6, <1>7, <1>8 DEF FileNext

\* The initial state has its types and no version.
LEMMA FileInitTypes == FileInit => FileTypeOK /\ Bounded
BY CacheConstants DEF FileInit, FileTypeOK, Bounded, Absent, Entry, NoRelease, Release

(* The state of the cache has its types for every number of readers and    *)
(* administrators; in particular a version never exceeds the number of     *)
(* writes, whichever way publications and deletions overlap.               *)
THEOREM CacheTypes == FileSpec => []FileTypeOK
<1>1. FileInit => FileTypeOK /\ Bounded
      BY Zenon, FileInitTypes
<1>2. FileTypeOK /\ Bounded /\ [FileNext]_fileVars => (FileTypeOK /\ Bounded)'
      BY Zenon, FileTypeStep
<1> QED BY <1>1, <1>2, PTL DEF FileSpec
-----------------------------------------------------------------------------
(* Every step keeps the loader alone with the entry.                       *)
LEMMA LoaderStep == FileTypeOK /\ OneLoader /\ [FileNext]_fileVars => OneLoader'
<1> SUFFICES ASSUME FileTypeOK, OneLoader, [FileNext]_fileVars PROVE OneLoader'
    BY Zenon
<1> USE CacheConstants DEF OneLoader
<1>1. ASSUME NEW a \in Admin, AdminStep(a) PROVE OneLoader'
      BY Zenon, <1>1 DEF AdminStep, AdminRead, PublishConfigFile, DeleteConfigFileRelease, AdminError,
                  Write, thread
<1>2. ASSUME NEW t \in Thread, ThreadStep(t) PROVE OneLoader'
  <2>1. CASE Lookup(t)
    <3>1. CASE files = Absent
          BY Zenon, <2>1, <3>1 DEF Lookup, Goto, FileTypeOK
    <3>2. CASE files # Absent
      <4>1. Return(t, files) /\ files \in Entry
            BY Zenon, <2>1, <3>2 DEF Lookup, FileTypeOK
      <4> QED BY Zenon, <2>1, <4>1, ReturnType DEF Lookup
    <3> QED BY Zenon, <3>1, <3>2
  <2>2. CASE Lock(t)
    <3>1. CASE files = Absent
          BY Zenon, <2>2, <3>1 DEF Lock, Goto, FileTypeOK
    <3>2. CASE files # Absent
      <4>1. Return(t, files) /\ files \in Entry
            BY Zenon, <2>2, <3>2 DEF Lock, FileTypeOK
      <4> QED BY Zenon, <2>2, <3>2, <4>1, ReturnType DEF Lock
    <3> QED BY Zenon, <3>1, <3>2
  <2>3. CASE GetConfigFileRelease(t)
        BY Zenon, <2>3 DEF GetConfigFileRelease, Goto, FileTypeOK
  <2>4. CASE LoadError(t)
        BY Zenon, <2>4, ForgetType DEF LoadError, FileTypeOK
  <2>5. CASE Store(t)
    <3>1. Loaded(read[t]) \in Entry /\ Return(t, Loaded(read[t]))
          BY Zenon, <2>5, LoadedType DEF Store, FileTypeOK
    <3> QED BY Zenon, <2>5, <3>1, ReturnType DEF Store
  <2>6. CASE Remove(t)
        BY Zenon, <2>6 DEF Remove, Goto, FileTypeOK
  <2> QED BY Zenon, <1>2, <2>1, <2>2, <2>3, <2>4, <2>5, <2>6 DEF ThreadStep
<1>3. ASSUME NEW t \in Reader, Respond(t) PROVE OneLoader'
  <2>1. t \in Thread
        BY Zenon DEF Thread
  <2> QED BY Zenon, <1>3, <2>1, ForgetType DEF Respond
<1>4. ASSUME NEW t \in Reader, NEW v \in 0..MaxEdits, GetConfigFileForClient(t, v)
      PROVE  OneLoader'
      BY Zenon, <1>4 DEF GetConfigFileForClient, Goto, FileTypeOK
<1>5. CASE ClearExpireEntry
      BY Zenon, <1>5 DEF ClearExpireEntry, thread
<1>6. CASE ScanRead
      BY Zenon, <1>6 DEF ScanRead, Goto, FileTypeOK
<1>7. ASSUME NEW late \in BOOLEAN, HandlerRelease(late) PROVE OneLoader'
      BY Zenon, <1>7 DEF HandlerRelease, Goto, FileTypeOK
<1>8. CASE UNCHANGED fileVars
      BY Zenon, <1>8 DEF fileVars, thread
<1> QED BY Zenon, <1>1, <1>2, <1>3, <1>4, <1>5, <1>6, <1>7, <1>8 DEF FileNext

(* A thread that loads the release is alone with the load lock and finds    *)
(* no entry when it stores its own (GetOrLoadIfAbsent): for any number of   *)
(* requests, with the scanner and the cleaner removing entries meanwhile.   *)
THEOREM CacheOneLoader == FileSpec => []OneLoader
<1>1. FileInit => OneLoader
      BY Zenon DEF FileInit, OneLoader
<1>2. FileTypeOK /\ OneLoader /\ [FileNext]_fileVars => OneLoader'
      BY Zenon, LoaderStep
<1> QED BY <1>1, <1>2, CacheTypes, PTL DEF FileSpec
-----------------------------------------------------------------------------
(***************************************************************************)
(* GetFresh is not inductive. A request that reloads relies on what the    *)
(* others do between its removal of the entry and its return: no load that *)
(* read an older release may still be on its way.                          *)
(***************************************************************************)
\* Publications and deletions do not overlap.
OneAdmin == \A a, b \in Admin : a = b

Fresh(entry, v) == entry.kind = "file" => entry.ver >= v

\* The request t has seen an old entry and has not returned since.
Reloading(t) == \/ at[t] = "remove"
                \/ t \in again /\ at[t] \in {"lookup", "lock", "read", "store"}

ReloadFresh ==
    \A t \in Reader : Reloading(t) =>
        /\ \A u \in Thread : at[u] = "store" => Fresh(Loaded(read[u]), want[t])
        /\ at[t] # "remove" => Fresh(files, want[t])

\* What an administrator has read is what the store has.
AdminAlone == \A a \in Admin : admin[a].pc # "idle" => admin[a].saw = row

WantKnown == \A t \in Reader : want[t] <= row.ver

FreshInv == GetFresh /\ ReloadFresh /\ AdminAlone /\ WantKnown

\* A reader is done when what it got is fresh enough, or after its reload.
LEMMA ReturnFresh ==
    ASSUME FileTypeOK, NEW t \in Reader, NEW e \in Entry, Return(t, e)
    PROVE  /\ ret'[t] = e
           /\ at'[t] \in {"remove", "done"}
           /\ at'[t] = "done" => t \in again \/ Fresh(e, want[t])
           /\ at'[t] = "remove" => t \notin again
<1>1. t \in Thread /\ t # Scanner
      BY Zenon, CacheConstants DEF Thread
<1>2. ret'[t] = e
      BY Zenon, <1>1 DEF Return, FileTypeOK
<1>3. CASE e.kind = "file" /\ want[t] > e.ver /\ t \notin again
      BY Zenon, <1>1, <1>2, <1>3 DEF Return, Goto, FileTypeOK
<1>4. CASE ~(e.kind = "file" /\ want[t] > e.ver /\ t \notin again)
  <2>1. at'[t] = "done"
        BY Zenon, <1>1, <1>4 DEF Return, Goto, FileTypeOK
  <2>2. want[t] \in Int /\ e.ver \in Int
        BY CacheConstants DEF FileTypeOK, Entry
  <2> QED BY <1>2, <1>4, <2>1, <2>2 DEF Fresh
<1> QED BY Zenon, <1>3, <1>4

(* A return of an entry of the cache keeps the invariant: while there is an *)
(* entry nobody is loading (OneLoader).                                     *)
LEMMA ReturnCached ==
    ASSUME FileTypeOK, OneLoader, FreshInv, NEW t \in Thread,
           files # Absent, Return(t, files), at[t] \in {"lookup", "lock"},
           UNCHANGED <<row, admin, files, read, want, again>>
    PROVE  FreshInv'
<1>1. files \in Entry
      BY Zenon DEF FileTypeOK
<1>2. /\ at'[t] \in {"idle", "remove", "done"}
      /\ \A u \in Thread \ {t} : at'[u] = at[u] /\ ret'[u] = ret[u]
      BY Zenon, <1>1, ReturnType
<1>3. \A u \in Thread : at[u] # "store"
      BY Zenon DEF OneLoader
<1>4. \A u \in Thread : at'[u] # "store"
      BY Zenon, <1>2, <1>3
<1>5. Reader \subseteq Thread
      BY Zenon DEF Thread
<1>6. GetFresh'
  <2> SUFFICES ASSUME NEW r \in Reader, at'[r] = "done", ret'[r].kind = "file"
               PROVE  ret'[r].ver >= want'[r]
      BY Zenon DEF GetFresh
  <2>1. CASE r = t
        BY <2>1, <1>1, ReturnFresh DEF FreshInv, ReloadFresh, Reloading, Fresh
  <2>2. CASE r # t
        BY Zenon, <2>2, <1>2, <1>5 DEF FreshInv, GetFresh
  <2> QED BY Zenon, <2>1, <2>2
<1>7. ReloadFresh'
  <2> SUFFICES ASSUME NEW r \in Reader, Reloading(r)', at'[r] # "remove"
               PROVE  Fresh(files', want'[r])
      BY Zenon, <1>4 DEF ReloadFresh
  <2>1. r # t
        BY Zenon, <1>2, <1>5 DEF Reloading
  <2> QED BY Zenon, <2>1, <1>2, <1>5 DEF FreshInv, ReloadFresh, Reloading, Fresh
<1>8. AdminAlone' /\ WantKnown'
      BY Zenon DEF FreshInv, AdminAlone, WantKnown
<1> QED BY Zenon, <1>6, <1>7, <1>8 DEF FreshInv

(* Storing a loaded release: the loader is alone, and what it read is fresh *)
(* for every request that reloads, its own included.                        *)
LEMMA StoreFresh ==
    ASSUME FileTypeOK, OneLoader, FreshInv, NEW t \in Thread, Store(t)
    PROVE  FreshInv'
<1> DEFINE e == Loaded(read[t])
<1>1. e \in Entry /\ e # Absent /\ Return(t, e)
      BY Zenon, LoadedType DEF Store, FileTypeOK
<1>2. /\ at'[t] \in {"idle", "remove", "done"}
      /\ \A u \in Thread \ {t} : at'[u] = at[u] /\ ret'[u] = ret[u]
      BY Zenon, <1>1, ReturnType
<1>3. \A u \in Thread \ {t} : at[u] # "store"
      BY Zenon DEF OneLoader, Store
<1>4. \A u \in Thread : at'[u] # "store"
      BY Zenon, <1>2, <1>3
<1>5. Reader \subseteq Thread
      BY Zenon DEF Thread
<1>6. GetFresh'
  <2> SUFFICES ASSUME NEW r \in Reader, at'[r] = "done", ret'[r].kind = "file"
               PROVE  ret'[r].ver >= want'[r]
      BY Zenon DEF GetFresh
  <2>1. CASE r = t
    <3>1. ret'[t] = e /\ (t \in again \/ Fresh(e, want[t]))
          BY Zenon, <1>1, <2>1, ReturnFresh
    <3>2. t \in again => Fresh(e, want[t])
          BY Zenon, <2>1 DEF FreshInv, ReloadFresh, Reloading, Store
    <3> QED BY Zenon, <2>1, <3>1, <3>2 DEF Fresh, Store
  <2>2. CASE r # t
        BY Zenon, <2>2, <1>2, <1>5 DEF FreshInv, GetFresh, Store
  <2> QED BY Zenon, <2>1, <2>2
<1>7. ReloadFresh'
  <2> SUFFICES ASSUME NEW r \in Reader, Reloading(r)', at'[r] # "remove"
               PROVE  Fresh(files', want'[r])
      BY Zenon, <1>4 DEF ReloadFresh
  <2>1. r # t
        BY Zenon, <1>2, <1>5 DEF Reloading
  <2>2. Reloading(r) /\ at[t] = "store" /\ files' = e /\ want' = want
        BY Zenon, <2>1, <1>2, <1>5 DEF Reloading, Store
  <2>3. Fresh(e, want[r])
        BY Zenon, <2>2 DEF FreshInv, ReloadFresh
  <2> QED BY Zenon, <2>2, <2>3
<1>8. AdminAlone' /\ WantKnown'
      BY Zenon DEF FreshInv, AdminAlone, WantKnown, Store
<1> QED BY Zenon, <1>6, <1>7, <1>8 DEF FreshInv

(* A thread that is through leaves nothing behind that would be too old.   *)
LEMMA ForgetFresh ==
    ASSUME FileTypeOK, FreshInv, NEW t \in Thread, Forget(t), UNCHANGED <<row, admin, files, read>>
    PROVE  FreshInv'
<1> USE DEF FreshInv
<1>1. /\ at'[t] = "idle"
      /\ \A u \in Thread \ {t} : at'[u] = at[u] /\ ret'[u] = ret[u] /\ (u \in again' <=> u \in again)
      /\ \A r \in Reader : want'[r] = IF r = t THEN 0 ELSE want[r]
      BY Zenon, ForgetType
<1>2. Reader \subseteq Thread
      BY Zenon DEF Thread
<1>3. GetFresh'
      BY Zenon, <1>1, <1>2 DEF GetFresh
<1>4. ReloadFresh'
      BY Zenon, <1>1, <1>2 DEF ReloadFresh, Reloading
<1>5. WantKnown'
      BY <1>1 DEF WantKnown, FileTypeOK, Release
<1>6. AdminAlone'
      BY Zenon DEF AdminAlone
<1> QED BY Zenon, <1>3, <1>4, <1>5, <1>6

(* The steps of a thread.                                                   *)
LEMMA ThreadFresh ==
    ASSUME FileTypeOK, OneLoader, FreshInv, NEW t \in Thread, ThreadStep(t)
    PROVE  FreshInv'
<1> USE DEF FreshInv
<1>0. Reader \subseteq Thread
      BY Zenon DEF Thread
<1>1. CASE Lookup(t)
  <2>1. CASE files = Absent
        BY <1>1, <2>1, <1>0 DEF Lookup, Goto, FileTypeOK, GetFresh, ReloadFresh, Reloading, Fresh,
                                AdminAlone, WantKnown
  <2>2. CASE files # Absent
        BY Zenon, <1>1, <2>2, ReturnCached DEF Lookup
  <2> QED BY Zenon, <2>1, <2>2
<1>2. CASE Lock(t)
  <2>1. CASE files = Absent
        BY <1>2, <2>1, <1>0 DEF Lock, Goto, FileTypeOK, GetFresh, ReloadFresh, Reloading, Fresh,
                                AdminAlone, WantKnown
  <2>2. CASE files # Absent
        BY Zenon, <1>2, <2>2, ReturnCached DEF Lock
  <2> QED BY Zenon, <2>1, <2>2
<1>3. CASE GetConfigFileRelease(t)
  <2>1. \A r \in Reader : Fresh(Loaded(row), want[r])
        BY Zenon, LoadedType DEF FileTypeOK, WantKnown, Fresh
  <2>2. /\ read'[t] = row
        /\ \A u \in Thread \ {t} : at'[u] = at[u] /\ read'[u] = read[u]
        /\ at'[t] = "store" /\ at[t] = "read"
        /\ UNCHANGED <<row, admin, files, want, again, ret>>
        BY Zenon, <1>3 DEF GetConfigFileRelease, Goto, FileTypeOK
  <2>3. ReloadFresh'
        BY <1>0, <2>1, <2>2 DEF ReloadFresh, Reloading, Fresh
  <2>4. GetFresh' /\ AdminAlone' /\ WantKnown'
        BY Zenon, <1>0, <2>2 DEF GetFresh, AdminAlone, WantKnown
  <2> QED BY Zenon, <2>3, <2>4
<1>4. CASE LoadError(t)
      BY Zenon, <1>4, ForgetFresh DEF LoadError
<1>5. CASE Store(t)
      BY Zenon, <1>5, StoreFresh
<1>6. CASE Remove(t)
      BY <1>6, <1>0 DEF Remove, Goto, FileTypeOK, GetFresh, ReloadFresh, Reloading, Fresh, Absent,
                        AdminAlone, WantKnown
<1> QED BY Zenon, <1>1, <1>2, <1>3, <1>4, <1>5, <1>6 DEF ThreadStep

(* Every step of the system, when administrators do not overlap.            *)
LEMMA FreshStep ==
    ASSUME OneAdmin, FileTypeOK, OneLoader, FreshInv, [FileNext]_fileVars
    PROVE  FreshInv'
<1> USE DEF FreshInv
<1>0. Reader \subseteq Thread /\ Scanner \in Thread /\ Scanner \notin Reader
      BY Zenon, CacheConstants DEF Thread
<1>1. ASSUME NEW a \in Admin, AdminStep(a) PROVE FreshInv'
  <2>1. /\ UNCHANGED <<files, lock, at, read, want, again, ret>>
        /\ row'.ver \in Int /\ row'.ver >= row.ver
        /\ AdminAlone'
    <3>0. row \in Release /\ admin[a].saw \in Release /\ \A b \in Admin : b = a
          BY Zenon, <1>1 DEF FileTypeOK, OneAdmin
    <3>1. ASSUME NEW op \in {"publish", "delete"}, AdminRead(a, op) PROVE <2>1!1 /\ <2>1!2 /\ <2>1!3
          BY <3>0, <3>1 DEF AdminRead, thread, AdminAlone, FileTypeOK, Release
    <3>2. CASE PublishConfigFile(a)
          BY <3>0, <3>2 DEF PublishConfigFile, Write, thread, AdminAlone, FileTypeOK, Release
    <3>3. ASSUME NEW rename \in BOOLEAN, DeleteConfigFileRelease(a, rename)
          PROVE  <2>1!1 /\ <2>1!2 /\ <2>1!3
          BY <3>0, <3>3 DEF DeleteConfigFileRelease, Write, thread, AdminAlone, FileTypeOK, Release
    <3>4. CASE AdminError(a)
          BY <3>0, <3>4 DEF AdminError, thread, AdminAlone, FileTypeOK, Release
    <3> QED BY Zenon, <1>1, <3>1, <3>2, <3>3, <3>4 DEF AdminStep
  <2>2. GetFresh' /\ ReloadFresh'
        BY Zenon, <2>1 DEF GetFresh, ReloadFresh, Reloading
  <2>3. WantKnown'
        BY <2>1 DEF WantKnown, FileTypeOK, Release
  <2> QED BY Zenon, <2>1, <2>2, <2>3
<1>2. ASSUME NEW t \in Thread, ThreadStep(t) PROVE FreshInv'
      BY Zenon, <1>2, ThreadFresh
<1>3. ASSUME NEW t \in Reader, Respond(t) PROVE FreshInv'
      BY Zenon, <1>3, <1>0, ForgetFresh DEF Respond
<1>4. ASSUME NEW t \in Reader, NEW v \in 0..MaxEdits, GetConfigFileForClient(t, v)
      PROVE  FreshInv'
      BY <1>4, <1>0 DEF GetConfigFileForClient, Goto, FileTypeOK, GetFresh, ReloadFresh, Reloading,
                        Fresh, AdminAlone, WantKnown
<1>5. CASE ClearExpireEntry
      BY Zenon, <1>5 DEF ClearExpireEntry, thread, GetFresh, ReloadFresh, Reloading, Fresh, Absent,
                  AdminAlone, WantKnown
<1>6. CASE ScanRead
      BY Zenon, <1>6, <1>0 DEF ScanRead, Goto, FileTypeOK, GetFresh, ReloadFresh, Reloading, AdminAlone,
                        WantKnown
<1>7. ASSUME NEW late \in BOOLEAN, HandlerRelease(late) PROVE FreshInv'
      BY <1>7, <1>0 DEF HandlerRelease, Goto, FileTypeOK, GetFresh, ReloadFresh, Reloading, Fresh,
                        Absent, AdminAlone, WantKnown
<1>8. CASE UNCHANGED fileVars
      BY Zenon, <1>8 DEF fileVars, thread, GetFresh, ReloadFresh, Reloading, AdminAlone, WantKnown
<1> QED BY Zenon, <1>1, <1>2, <1>3, <1>4, <1>5, <1>6, <1>7, <1>8 DEF FileNext

(* A client is never answered with an older release than the one it has     *)
(* (GetConfigFileForClient reloads the cache), for any number of requests   *)
(* and any interleaving with the scanner, the cleaner and failing loads,    *)
(* provided publications and deletions of the file do not overlap.          *)
THEOREM CacheGetFresh ==
    ASSUME OneAdmin PROVE FileSpec => []GetFresh
<1>1. FileInit => FreshInv
      BY DEF FileInit, FreshInv, GetFresh, ReloadFresh, Reloading, AdminAlone, WantKnown, NoRelease,
             Thread
<1>2. FileTypeOK /\ OneLoader /\ FreshInv /\ [FileNext]_fileVars => FreshInv'
      BY Zenon, FreshStep
<1>3. FreshInv => GetFresh
      BY Zenon DEF FreshInv
<1> QED BY <1>1, <1>2, <1>3, CacheTypes, CacheOneLoader, PTL DEF FileSpec

(* Loads are exclusive and never answer a client with less than it has      *)
(* (GetOrLoadIfAbsent, GetConfigFileForClient), under the same proviso.     *)
THEOREM CacheLoadsSound ==
    ASSUME OneAdmin PROVE FileSpec => []LoadsSound
<1>1. FileTypeOK /\ OneLoader /\ GetFresh => LoadsSound
      BY Zenon DEF LoadsSound
<1>2. FileSpec => []GetFresh
      BY Zenon, CacheGetFresh
<1> QED BY <1>1, <1>2, CacheTypes, CacheOneLoader, PTL
-----------------------------------------------------------------------------
(***************************************************************************)
(* The row of the release implements the register of ReleaseLog, as long   *)
(* as nobody writes over a release that changed after it was read.         *)
(***************************************************************************)
FileRegister ==
    [f \in {"file"} |->
        [version |-> row.ver,
         content |-> IF row.ver > 0 /\ row.flag = 0 THEN row.content ELSE 0]]

Log == INSTANCE ReleaseLog WITH Files <- {"file"}, Contents <- 1..MaxEdits, Nothing <- 0,
                                register <- FileRegister

\* An administrator writes although another has written since it read the
\* release: PublishConfigFile and DeleteConfigFileRelease read outside the
\* transaction that writes.
Overtaken(a) == admin[a].pc # "idle" /\ admin[a].saw # row /\ AdminStep(a)

\* A deletion goes on only when it read a release that is not deleted; the
\* row of a release never goes away.
DeleteSees ==
    \A a \in Admin : admin[a].pc = "delete" =>
        admin[a].saw.ver > 0 /\ admin[a].saw.flag = 0 /\ row.ver > 0

\* A release has a content, also as an administrator has read it.
Written == /\ row.ver > 0 => row.content > 0
           /\ \A a \in Admin : admin[a].saw.ver > 0 => admin[a].saw.content > 0

LogInv == DeleteSees /\ Written

(* A publication is a Publish of the register and a deletion a Withdraw,    *)
(* when the administrator has seen the release that it replaces.            *)
LEMMA AdminLog ==
    ASSUME FileTypeOK, Bounded, LogInv, NEW a \in Admin, AdminStep(a)
    PROVE  LogInv' /\ (admin[a].saw = row \/ admin[a].pc = "idle" => [Log!Next]_FileRegister)
<1> USE CacheConstants DEF LogInv
<1>0. row \in Release /\ admin[a].saw \in Release
      BY Zenon DEF FileTypeOK
<1>1. ASSUME NEW op \in {"publish", "delete"}, AdminRead(a, op)
      PROVE  LogInv' /\ UNCHANGED FileRegister
      BY <1>0, <1>1 DEF AdminRead, DeleteSees, Written, FileTypeOK, FileRegister
<1>2. ASSUME PublishConfigFile(a) PROVE LogInv' /\ (admin[a].saw = row => Log!Publish("file"))
  <2>1. /\ edits < MaxEdits /\ edits \in Nat
        /\ row' = [ver |-> admin[a].saw.ver + 1, flag |-> 0, content |-> edits + 1]
        /\ admin' = [admin EXCEPT ![a] = [pc |-> "idle", saw |-> NoRelease]]
        BY <1>2 DEF PublishConfigFile, Write, FileTypeOK
  <2>2. LogInv'
        BY <1>0, <2>1 DEF DeleteSees, Written, FileTypeOK, Release, NoRelease
  <2>3. ASSUME admin[a].saw = row PROVE Log!Publish("file")
    <3>1. /\ row'.ver > 0 /\ row'.flag = 0 /\ row'.content \in 1..MaxEdits
          /\ row'.ver = row.ver + 1
          BY <1>0, <2>1, <2>3 DEF Release
    <3>2. /\ FileRegister' = [f \in {"file"} |-> [version |-> row.ver + 1, content |-> row'.content]]
          /\ FileRegister'["file"].content = row'.content
          BY <3>1 DEF FileRegister
    <3> QED BY <3>1, <3>2 DEF Log!Publish, FileRegister
  <2> QED BY Zenon, <2>2, <2>3
<1>3. ASSUME NEW rename \in BOOLEAN, DeleteConfigFileRelease(a, rename)
      PROVE  LogInv' /\ (admin[a].saw = row => Log!Withdraw)
  <2>1. PICK old \in {admin[a].saw, row} :
          /\ row' = [ver |-> old.ver + 1, flag |-> 1, content |-> old.content]
          /\ admin' = [admin EXCEPT ![a] = [pc |-> "idle", saw |-> NoRelease]]
        BY Zenon, <1>3 DEF DeleteConfigFileRelease, Write
  <2>2. admin[a].saw.ver > 0 /\ admin[a].saw.flag = 0 /\ row.ver > 0
        BY Zenon, <1>3 DEF DeleteConfigFileRelease, DeleteSees
  <2>3. LogInv'
    <3>1. DeleteSees'
          BY <1>0, <2>1 DEF DeleteSees, FileTypeOK, Release
    <3>2. row'.ver > 0 => row'.content > 0
      <4>1. old.ver > 0
            BY Zenon, <2>1, <2>2
      <4> QED BY <2>1, <4>1 DEF Written
    <3>3. \A b \in Admin : admin'[b].saw.ver > 0 => admin'[b].saw.content > 0
          BY <2>1 DEF Written, FileTypeOK, NoRelease
    <3> QED BY Zenon, <3>1, <3>2, <3>3 DEF Written
  <2>4. ASSUME admin[a].saw = row PROVE Log!Withdraw
    <3>1. FileRegister' = [f \in {"file"} |-> [version |-> row.ver + 1, content |-> 0]]
          BY <2>1, <2>4 DEF FileRegister
    <3>2. FileRegister["file"] = [version |-> row.ver, content |-> row.content] /\ row.content # 0
          BY <1>0, <2>2, <2>4 DEF FileRegister, Written, Release
    <3>3. {"file"} \in SUBSET {f \in {"file"} : FileRegister[f].content # 0}
          BY <3>2
    <3>4. FileRegister' = [f \in {"file"} |->
                             IF f \in {"file"}
                             THEN [version |-> FileRegister[f].version + 1, content |-> 0]
                             ELSE FileRegister[f]]
          BY <3>1, <3>2
    <3> QED BY <3>3, <3>4 DEF Log!Withdraw
  <2> QED BY Zenon, <2>3, <2>4
<1>4. ASSUME AdminError(a) PROVE LogInv' /\ UNCHANGED FileRegister
      BY <1>0, <1>4 DEF AdminError, DeleteSees, Written, FileTypeOK, FileRegister, NoRelease
<1>5. ASSUME PublishConfigFile(a) \/ \E rename \in BOOLEAN : DeleteConfigFileRelease(a, rename)
      PROVE  admin[a].pc # "idle"
      BY Zenon, <1>5 DEF PublishConfigFile, DeleteConfigFileRelease
<1>6. "file" \in {"file"}
      OBVIOUS
<1> QED BY Zenon, <1>1, <1>2, <1>3, <1>4, <1>5, <1>6 DEF AdminStep, Log!Next

(* The releases of a file, as any number of calls of PublishConfigFile and  *)
(* DeleteConfigFileRelease write them while clients, the scanner and the    *)
(* cleaner are at work, are the register of ReleaseLog: what is released    *)
(* changes together with the version, which moves by exactly one, and       *)
(* nothing else moves it. The one exception is a call that writes over a    *)
(* release another call has changed since it read it.                       *)
THEOREM CacheImplementsLog ==
    FileSpec => Log!Init /\ [][Log!Next \/ \E a \in Admin : Overtaken(a)]_FileRegister
<1> DEFINE LogStep == Log!Next \/ \E a \in Admin : Overtaken(a)
<1>1. FileInit => LogInv /\ Log!Init
      BY DEF FileInit, LogInv, DeleteSees, Written, NoRelease, FileRegister, Log!Init
<1>2. FileTypeOK /\ Bounded /\ LogInv /\ [FileNext]_fileVars => LogInv' /\ [LogStep]_FileRegister
  <2> SUFFICES ASSUME FileTypeOK, Bounded, LogInv, [FileNext]_fileVars
               PROVE  LogInv' /\ [LogStep]_FileRegister
      BY Zenon
  <2>1. ASSUME NEW a \in Admin, AdminStep(a) PROVE LogInv' /\ [LogStep]_FileRegister
        BY Zenon, <2>1, AdminLog DEF Overtaken
  <2>2. ASSUME UNCHANGED <<row, admin>> PROVE LogInv' /\ UNCHANGED FileRegister
        BY Zenon, <2>2 DEF LogInv, DeleteSees, Written, FileRegister
  <2>3. ASSUME ~\E a \in Admin : AdminStep(a) PROVE UNCHANGED <<row, admin>>
        BY Zenon, <2>3 DEF FileNext, fileVars, ThreadStep, Lookup, Lock, GetConfigFileRelease, LoadError,
             Store, Remove, Respond, GetConfigFileForClient, ClearExpireEntry, ScanRead,
             HandlerRelease
  <2> QED BY Zenon, <2>1, <2>2, <2>3
<1>3. FileSpec => []Bounded
      BY FileInitTypes, FileTypeStep, PTL DEF FileSpec
<1> HIDE DEF LogStep
<1>4. FileSpec => Log!Init /\ [][LogStep]_FileRegister
      BY <1>1, <1>2, <1>3, CacheTypes, PTL DEF FileSpec
<1> QED BY Zenon, <1>4 DEF LogStep

-----------------------------------------------------------------------------
\* The instance cache

\* The empty row and the empty entry have their types.
LEMMA EmptyTypes == NoRow \in Row /\ NoInst \in Inst
  BY InstanceCacheConstants DEF NoRow, NoInst, Row, Inst, Time

\* What the cache holds for a row is an entry.
LEMMA CachedType == ASSUME NEW rec \in Row PROVE Cached(rec) \in Inst
  BY Zenon, EmptyTypes DEF Cached, Row, Inst

\* Writing a revision, a flag or an mtime into a row gives a row.
LEMMA RowUpdate ==
  ASSUME NEW rec \in Row, NEW r \in 0..MaxWrites, NEW t \in Time
  PROVE  /\ [rec EXCEPT !.rev = r, !.mtime = t] \in Row
         /\ [rec EXCEPT !.flag = 1, !.mtime = t] \in Row
  BY Zenon DEF Row

\* A set of instances has a number of elements.
LEMMA CountType == ASSUME NEW S \in SUBSET Instance PROVE Cardinality(S) \in Nat
  BY Zenon, InstanceCacheConstants, FS_Subset, FS_CardinalityType

\* The counts of setInstances are numbers.
LEMMA CountAfterType ==
  ASSUME instanceCount \in Int, NEW ins \in SUBSET Instance
  PROVE  CountAfter(ins) \in Int
<1> DEFINE A == {i \in ins : slave[i].flag = 0 /\ ids[i] = NoInst}
           B == {i \in ins : slave[i].flag = 1 /\ ids[i] # NoInst}
<1>1. Cardinality(A) \in Nat /\ Cardinality(B) \in Nat
  <2>1. A \in SUBSET Instance /\ B \in SUBSET Instance
    BY Zenon
  <2> HIDE DEF A, B
  <2> QED BY Zenon, <2>1, CountType
<1>2. CountAfter(ins) = instanceCount + Cardinality(A) - Cardinality(B)
  BY Zenon DEF CountAfter
<1> HIDE DEF A, B
<1> QED BY <1>1, <1>2

\* setInstances keeps the types of the maps and the counts.
LEMMA SetInstancesType ==
  ASSUME TypeOK, NEW ins \in SUBSET Instance, SetInstances(ins)
  PROVE  /\ ids' \in [Instance -> Inst]
         /\ services' \in [Service -> [Instance -> Inst]]
         /\ instanceCount' \in Int
         /\ instanceCounts' \in [Service -> Nat]
<1>1. \A i \in ins : Cached(slave[i]) \in Inst
  BY Zenon, CachedType DEF TypeOK
<1>2. ids' \in [Instance -> Inst]
  BY Zenon, <1>1 DEF SetInstances, SetMaps, TypeOK
<1>3. services' \in [Service -> [Instance -> Inst]]
  BY Zenon, <1>1 DEF SetInstances, SetMaps, TypeOK
<1>4. instanceCount' \in Int
  BY Zenon, CountAfterType DEF SetInstances, TypeOK
<1>5. \A s \in Service : Cardinality(Present(services'[s])) \in Nat
  BY Zenon, CountType DEF Present
<1>6. instanceCounts' \in [Service -> Nat]
  BY Zenon, <1>5 DEF SetInstances, TypeOK
<1> QED BY Zenon, <1>2, <1>3, <1>4, <1>6

\* A statement keeps the types when the row it writes has its type.
LEMMA ExecType ==
  ASSUME TypeOK, NEW i \in Instance, NEW rec \in Row, Exec(i, rec)
  PROVE  TypeOK'
  BY InstanceCacheConstants DEF TypeOK, Exec, cache, index

\* So does every step.
LEMMA TypeStep == ASSUME TypeOK, [Next]_vars PROVE TypeOK'
<1> USE InstanceCacheConstants
<1>1. ASSUME NEW i \in Instance, AddInstance(i) PROVE TypeOK'
  <2>1. [svc |-> service, rev |-> writes + 1, flag |-> 0, mtime |-> now] \in Row
    BY <1>1 DEF AddInstance, Exec, TypeOK, Row, Service, Time
  <2> QED BY Zenon, <1>1, <2>1, ExecType DEF AddInstance
<1>2. ASSUME NEW i \in Instance, UpdateInstance(i) PROVE TypeOK'
  <2>1. [master[i] EXCEPT !.rev = writes + 1, !.mtime = now] \in Row
    <3>1. master[i] \in Row /\ writes + 1 \in 0..MaxWrites /\ now \in Time
      BY <1>2 DEF UpdateInstance, Exec, TypeOK, Time
    <3> QED BY Zenon, <3>1, RowUpdate
  <2> QED BY Zenon, <1>2, <2>1, ExecType DEF UpdateInstance
<1>3. ASSUME NEW i \in Instance, DeleteInstance(i) PROVE TypeOK'
  <2>1. [master[i] EXCEPT !.flag = 1, !.mtime = now] \in Row
    <3>1. master[i] \in Row /\ writes \in 0..MaxWrites /\ now \in Time
      BY DEF TypeOK, Time
    <3> QED BY Zenon, <3>1, RowUpdate
  <2> QED BY Zenon, <1>3, <2>1, ExecType DEF DeleteInstance
<1>4. ASSUME NEW i \in Instance, CleanInstance(i) PROVE TypeOK'
  BY Zenon, <1>4, EmptyTypes, ExecType DEF CleanInstance
<1>5. ASSUME NEW i \in Instance, Commit(i) PROVE TypeOK'
  BY Zenon, <1>5, EmptyTypes DEF Commit, EndTx, TypeOK, cache, index
<1>6. ASSUME NEW i \in Instance, Rollback(i) PROVE TypeOK'
  BY Zenon, <1>6, EmptyTypes DEF Rollback, EndTx, TypeOK, cache, index
<1>7. CASE Replicate
  BY Zenon, <1>7 DEF Replicate, TypeOK, cache, index
<1>8. CASE RecreateService
  BY <1>8 DEF RecreateService, TypeOK, Service, cache, index
<1>9. CASE Tick
  BY <1>9 DEF Tick, TypeOK, store, cache, index
<1>10. CASE ReadTime
  BY <1>10 DEF ReadTime, TypeOK, store, index
<1>11. CASE RealUpdate
  <2>1. GetMoreInstances \in SUBSET Instance
    BY Zenon DEF GetMoreInstances
  <2>2. /\ ids' \in [Instance -> Inst]
        /\ services' \in [Service -> [Instance -> Inst]]
        /\ instanceCount' \in Int
        /\ instanceCounts' \in [Service -> Nat]
    BY Zenon, <1>11, <2>1, SetInstancesType DEF RealUpdate
  <2>3. /\ pc' = "check" /\ cur' = 1 /\ lastFetchTime' = cur
        /\ UNCHANGED <<now, service, writes, open, tx, master, slave, fails>>
    BY Zenon, <1>11 DEF RealUpdate, store
  <2>4. firtstUpdate' \in BOOLEAN
    BY Zenon, <1>11 DEF RealUpdate
  <2> QED BY <2>2, <2>3, <2>4 DEF TypeOK
<1>12. CASE FetchFails
  BY <1>12 DEF FetchFails, TypeOK, store, index
<1>13. CASE CheckAll
  BY <1>13 DEF CheckAll, TypeOK, store, index
<1>14. CASE SkipCheck
  BY Zenon, <1>14 DEF SkipCheck, TypeOK, store, index
<1>15. CASE UNCHANGED vars
  BY Zenon, <1>15 DEF vars, TypeOK, store, cache, index
<1> QED BY Zenon, <1>1, <1>2, <1>3, <1>4, <1>5, <1>6, <1>7, <1>8, <1>9, <1>10, <1>11, <1>12,
           <1>13, <1>14, <1>15 DEF Next, StoreNext, Update

\* The initial state has the types.
LEMMA InitTypes == Init => TypeOK
  BY InstanceCacheConstants, EmptyTypes DEF Init, TypeOK, Service

(* The variables of the instance cache and of its table keep their types,  *)
(* through every statement of the store and every update of the cache.     *)
THEOREM InstanceCacheTypes == Spec => []TypeOK
  BY InitTypes, TypeStep, PTL DEF Spec
-----------------------------------------------------------------------------
(***************************************************************************)
(* The inductive invariant. A write the replica does not show is recent    *)
(* (Lag). The times of the cache are not ahead of the clock, and behind    *)
(* it by a full reset or not before StartTime (Clocks), as are the mtimes. *)
(* Before the first update the cache is empty (Empty), which is why a      *)
(* first fetch may leave deleted rows out. A row of the replica that the   *)
(* cache does not show is in the window (Window).                          *)
(***************************************************************************)
Lag ==
    /\ \A i \in open : tx[i] # NoRow => now - Delay <= tx[i].mtime
    /\ \A i \in Instance :
          master[i] # slave[i] /\ master[i] # NoRow => now - Delay <= master[i].mtime

Clocks ==
    /\ lastFetchTime <= now /\ (lastFetchTime = 1 \/ StartTime <= lastFetchTime)
    /\ cur <= now /\ (cur = 1 \/ StartTime <= cur)
    /\ \A i \in Instance : /\ tx[i] # NoRow => StartTime <= tx[i].mtime
                           /\ master[i] # NoRow => StartTime <= master[i].mtime
                           /\ slave[i] # NoRow => StartTime <= slave[i].mtime

Empty == firtstUpdate => \A i \in Instance : ids[i] = NoInst

Window ==
    \A i \in Instance :
        slave[i] # NoRow /\ ids[i] # Cached(slave[i]) => slave[i].mtime >= LastFetchTime

FetchInv == Lag /\ Clocks /\ Empty /\ Window

(* As long as no fetch has failed.                                         *)
FetchInvUnlessFailed == fails = 0 => FetchInv

(* The condition on the deployment: the overlap covers the delay.          *)
Covered == Delay <= DiffTime

\* The window never starts after a recent write.
LEMMA WindowRecent ==
  ASSUME Covered, TypeOK, Clocks, NEW m \in Int, now - Delay <= m, StartTime <= m
  PROVE  m >= LastFetchTime
  BY InstanceCacheConstants DEF Covered, TypeOK, Clocks, LastFetchTime

\* The invariant gives the property: a row the replica lacks is recent.
LEMMA FetchInvImplies == ASSUME Covered, TypeOK, FetchInv PROVE NothingMissed
<1> SUFFICES ASSUME NEW i \in Instance, master[i] # NoRow, ids[i] # Cached(master[i])
             PROVE  master[i].mtime >= LastFetchTime
  BY Zenon DEF NothingMissed
<1>1. CASE master[i] = slave[i]
  BY Zenon, <1>1 DEF FetchInv, Window
<1>2. CASE master[i] # slave[i]
  <2>1. master[i].mtime \in Int
    BY DEF TypeOK, Row, Time
  <2>2. now - Delay <= master[i].mtime /\ StartTime <= master[i].mtime
    BY Zenon, <1>2 DEF FetchInv, Lag, Clocks
  <2> QED BY Zenon, <2>1, <2>2, WindowRecent DEF FetchInv
<1> QED BY Zenon, <1>1, <1>2

\* A statement writes a row with the time of the clock, or the empty row.
LEMMA ExecFetch ==
  ASSUME TypeOK, FetchInv, NEW i \in Instance, NEW rec \in Row,
         rec # NoRow => rec.mtime = now, Exec(i, rec)
  PROVE  FetchInv'
<1> USE InstanceCacheConstants
<1>0. /\ open' = open \cup {i} /\ tx' = [tx EXCEPT ![i] = rec]
      /\ UNCHANGED <<now, master, slave, cur, lastFetchTime, firtstUpdate, ids>>
  BY Zenon DEF Exec, cache, index
<1>1. Lag'
  BY <1>0 DEF FetchInv, Lag, TypeOK
<1>2. Clocks'
  BY <1>0 DEF FetchInv, Clocks, TypeOK
<1>3. Empty' /\ Window'
  BY Zenon, <1>0 DEF FetchInv, Empty, Window, LastFetchTime
<1> QED BY Zenon, <1>1, <1>2, <1>3 DEF FetchInv

\* After a fetch every row of the replica is in the cache.
LEMMA FetchAll ==
  ASSUME TypeOK, FetchInv, RealUpdate, NEW i \in Instance, slave[i] # NoRow
  PROVE  ids'[i] = Cached(slave[i])
<1>1. ids' = [j \in Instance |->
                 IF j \in GetMoreInstances THEN Cached(slave[j]) ELSE ids[j]]
  BY Zenon DEF RealUpdate, SetInstances, SetMaps
<1>2. CASE i \in GetMoreInstances
  BY Zenon, <1>1, <1>2
<1>3. CASE i \notin GetMoreInstances
  <2>1. ids'[i] = ids[i]
    BY Zenon, <1>1, <1>3
  <2>2. CASE slave[i].mtime >= LastFetchTime
    <3>1. firtstUpdate /\ slave[i].flag = 1
      BY Zenon, <1>3, <2>2 DEF GetMoreInstances
    <3> QED BY Zenon, <2>1, <3>1 DEF Cached, FetchInv, Empty
  <2>3. CASE ~(slave[i].mtime >= LastFetchTime)
    BY Zenon, <2>1, <2>3 DEF FetchInv, Window
  <2> QED BY Zenon, <2>2, <2>3
<1> QED BY Zenon, <1>2, <1>3

\* Every step keeps the invariant.
LEMMA FetchStep ==
  ASSUME Covered, TypeOK, FetchInv, fails = 0, fails' = 0, [Next]_vars
  PROVE  FetchInv'
<1> USE InstanceCacheConstants
<1>1. ASSUME NEW i \in Instance, AddInstance(i) PROVE FetchInv'
  <2>1. [svc |-> service, rev |-> writes + 1, flag |-> 0, mtime |-> now] \in Row
    BY <1>1 DEF AddInstance, Exec, TypeOK, Row, Service, Time
  <2> QED BY Zenon, <1>1, <2>1, ExecFetch DEF AddInstance
<1>2. ASSUME NEW i \in Instance, UpdateInstance(i) PROVE FetchInv'
  <2> DEFINE rec == [master[i] EXCEPT !.rev = writes + 1, !.mtime = now]
  <2>1. master[i] \in Row /\ writes + 1 \in 0..MaxWrites /\ now \in Time
    BY <1>2 DEF UpdateInstance, Exec, TypeOK, Time
  <2>2. rec \in Row /\ rec.mtime = now
    BY Zenon, <2>1, RowUpdate DEF Row
  <2>3. Exec(i, rec)
    BY Zenon, <1>2 DEF UpdateInstance
  <2> HIDE DEF rec
  <2> QED BY Zenon, <2>2, <2>3, ExecFetch
<1>3. ASSUME NEW i \in Instance, DeleteInstance(i) PROVE FetchInv'
  <2> DEFINE rec == [master[i] EXCEPT !.flag = 1, !.mtime = now]
  <2>1. master[i] \in Row /\ writes \in 0..MaxWrites /\ now \in Time
    BY DEF TypeOK, Time
  <2>2. rec \in Row /\ rec.mtime = now
    BY Zenon, <2>1, RowUpdate DEF Row
  <2>3. Exec(i, rec)
    BY Zenon, <1>3 DEF DeleteInstance
  <2> HIDE DEF rec
  <2> QED BY Zenon, <2>2, <2>3, ExecFetch
<1>4. ASSUME NEW i \in Instance, CleanInstance(i) PROVE FetchInv'
  BY Zenon, <1>4, EmptyTypes, ExecFetch DEF CleanInstance
<1>5. ASSUME NEW i \in Instance, Commit(i) PROVE FetchInv'
  <2>0. /\ i \in open /\ open' = open \ {i} /\ tx' = [tx EXCEPT ![i] = NoRow]
        /\ master' = [master EXCEPT ![i] = tx[i]]
        /\ UNCHANGED <<now, slave, cur, lastFetchTime, firtstUpdate, ids>>
    BY Zenon, <1>5 DEF Commit, EndTx, cache, index
  <2>1. Lag'
    BY Zenon, <2>0 DEF FetchInv, Lag, TypeOK
  <2>2. Clocks'
    BY Zenon, <2>0 DEF FetchInv, Clocks, TypeOK
  <2>3. Empty' /\ Window'
    BY Zenon, <2>0 DEF FetchInv, Empty, Window, LastFetchTime
  <2> QED BY Zenon, <2>1, <2>2, <2>3 DEF FetchInv
<1>6. ASSUME NEW i \in Instance, Rollback(i) PROVE FetchInv'
  <2>0. /\ open' = open \ {i} /\ tx' = [tx EXCEPT ![i] = NoRow]
        /\ UNCHANGED <<now, master, slave, cur, lastFetchTime, firtstUpdate, ids>>
    BY Zenon, <1>6 DEF Rollback, EndTx, cache, index
  <2>1. Lag' /\ Clocks'
    BY Zenon, <2>0 DEF FetchInv, Lag, Clocks, TypeOK
  <2>2. Empty' /\ Window'
    BY Zenon, <2>0 DEF FetchInv, Empty, Window, LastFetchTime
  <2> QED BY Zenon, <2>1, <2>2 DEF FetchInv
<1>7. CASE Replicate
  <2>0. /\ slave' = master
        /\ UNCHANGED <<now, open, tx, master, cur, lastFetchTime, firtstUpdate, ids>>
    BY Zenon, <1>7 DEF Replicate, cache, index
  <2>1. Lag' /\ Clocks' /\ Empty'
    BY Zenon, <2>0 DEF FetchInv, Lag, Clocks, Empty
  <2>2. NothingMissed
    BY Zenon, FetchInvImplies
  <2>3. Window'
    BY Zenon, <2>0, <2>2 DEF NothingMissed, Window, LastFetchTime
  <2> QED BY Zenon, <2>1, <2>3 DEF FetchInv
<1>8. CASE RecreateService
  BY Zenon, <1>8 DEF RecreateService, FetchInv, Lag, Clocks, Empty, Window, LastFetchTime,
              cache, index
<1>9. CASE Tick
  <2>0. /\ now' = now + 1
        /\ UNCHANGED <<open, tx, master, slave, cur, lastFetchTime, firtstUpdate, ids>>
    BY Zenon, <1>9 DEF Tick, store, cache, index
  <2>1. \A i \in Instance : tx[i].mtime \in Int /\ master[i].mtime \in Int
    BY DEF TypeOK, Row, Time
  <2>2. Lag'
    BY <1>9, <2>0, <2>1 DEF Tick, Lag, TypeOK
  <2>3. Clocks'
    BY <2>0 DEF FetchInv, Clocks, TypeOK
  <2>4. Empty' /\ Window'
    BY Zenon, <2>0 DEF FetchInv, Empty, Window, LastFetchTime
  <2> QED BY Zenon, <2>2, <2>3, <2>4 DEF FetchInv
<1>10. CASE ReadTime
  <2>0. /\ cur' = now \/ cur' = lastFetchTime
        /\ UNCHANGED <<now, open, tx, master, slave, lastFetchTime, firtstUpdate, ids>>
    BY Zenon, <1>10 DEF ReadTime, store, index
  <2>1. Clocks'
    BY <2>0 DEF FetchInv, Clocks, TypeOK
  <2>2. Lag' /\ Empty' /\ Window'
    BY Zenon, <2>0 DEF FetchInv, Lag, Empty, Window, LastFetchTime
  <2> QED BY Zenon, <2>1, <2>2 DEF FetchInv
<1>11. CASE RealUpdate
  <2>0. /\ lastFetchTime' = cur /\ cur' = 1 /\ firtstUpdate' = FALSE
        /\ UNCHANGED <<now, open, tx, master, slave>>
    BY Zenon, <1>11 DEF RealUpdate, store
  <2>1. Clocks'
    BY <2>0 DEF FetchInv, Clocks, TypeOK
  <2>2. Lag' /\ Empty'
    BY Zenon, <2>0 DEF FetchInv, Lag, Empty
  <2>3. Window'
    BY Zenon, <1>11, <2>0, FetchAll DEF Window
  <2> QED BY Zenon, <2>1, <2>2, <2>3 DEF FetchInv
<1>12. CASE FetchFails
  BY <1>12 DEF FetchFails
<1>13. CASE CheckAll
  <2>0. /\ lastFetchTime' = lastFetchTime \/ lastFetchTime' = 1
        /\ UNCHANGED <<now, open, tx, master, slave, cur, firtstUpdate, ids>>
    BY Zenon, <1>13 DEF CheckAll, store, index
  <2>1. Clocks'
    BY <2>0 DEF FetchInv, Clocks, TypeOK
  <2>2. Lag' /\ Empty'
    BY Zenon, <2>0 DEF FetchInv, Lag, Empty
  <2>3. CASE lastFetchTime' = lastFetchTime
    BY Zenon, <2>0, <2>1, <2>2, <2>3 DEF FetchInv, Window, LastFetchTime
  <2>4. CASE lastFetchTime' = 1
    <3>1. \A i \in Instance : slave[i].mtime \in Int
      BY DEF TypeOK, Row, Time
    <3>2. LastFetchTime' <= 1 /\ LastFetchTime' \in Int
      BY <2>4 DEF LastFetchTime
    <3>3. Window'
      BY <2>0, <3>1, <3>2 DEF FetchInv, Clocks, Window
    <3> QED BY Zenon, <2>1, <2>2, <3>3 DEF FetchInv
  <2> QED BY Zenon, <2>0, <2>3, <2>4
<1>14. CASE SkipCheck
  BY Zenon, <1>14 DEF SkipCheck, FetchInv, Lag, Clocks, Empty, Window, LastFetchTime,
               store, index
<1>15. CASE UNCHANGED vars
  BY Zenon, <1>15 DEF vars, FetchInv, Lag, Clocks, Empty, Window, LastFetchTime,
               store, cache, index
<1> QED BY Zenon, <1>1, <1>2, <1>3, <1>4, <1>5, <1>6, <1>7, <1>8, <1>9, <1>10, <1>11, <1>12,
           <1>13, <1>14, <1>15 DEF Next, StoreNext, Update

\* Failures are counted.
LEMMA FailsGrow == ASSUME TypeOK, [Next]_vars, fails' = 0 PROVE fails = 0
<1>1. CASE FetchFails
  BY <1>1, InstanceCacheConstants DEF FetchFails, TypeOK
<1>2. CASE ~FetchFails
  <2>1. CASE \E i \in Instance : \/ AddInstance(i) \/ UpdateInstance(i)
                                  \/ DeleteInstance(i) \/ CleanInstance(i)
    BY Zenon, <2>1 DEF AddInstance, UpdateInstance, DeleteInstance, CleanInstance, Exec, cache
  <2>2. CASE \E i \in Instance : Commit(i) \/ Rollback(i)
    BY Zenon, <2>2 DEF Commit, Rollback, EndTx, cache
  <2>3. CASE Replicate \/ RecreateService \/ Tick
    BY Zenon, <2>3 DEF Replicate, RecreateService, Tick, cache
  <2>4. CASE ReadTime \/ RealUpdate \/ CheckAll \/ SkipCheck
    BY Zenon, <2>4 DEF ReadTime, RealUpdate, CheckAll, SkipCheck
  <2>5. CASE UNCHANGED vars
    BY Zenon, <2>5 DEF vars, cache
  <2> QED BY Zenon, <1>2, <2>1, <2>2, <2>3, <2>4, <2>5 DEF Next, StoreNext, Update
<1> QED BY Zenon, <1>1, <1>2

\* The initial state satisfies the invariant.
LEMMA InitFetch == Init => FetchInv
  BY InstanceCacheConstants DEF Init, FetchInv, Lag, Clocks, Empty, Window

(* No committed change leaves the window of the fetches before the cache   *)
(* has it (doCacheUpdate, LastFetchTime and GetMoreInstances), whatever    *)
(* the number of instances, when the overlap covers the delay of the       *)
(* replica and as long as no fetch fails.                                  *)
THEOREM InstanceCacheNothingMissed == ASSUME Covered PROVE Spec => []NothingMissed
<1>1. Init => TypeOK /\ FetchInvUnlessFailed
  BY Zenon, InitTypes, InitFetch DEF FetchInvUnlessFailed
<1>2. TypeOK /\ FetchInvUnlessFailed /\ [Next]_vars => (TypeOK /\ FetchInvUnlessFailed)'
  <2> SUFFICES ASSUME TypeOK, FetchInvUnlessFailed, [Next]_vars, fails' = 0
               PROVE  FetchInv'
    BY Zenon, TypeStep DEF FetchInvUnlessFailed
  <2>1. fails = 0
    BY Zenon, FailsGrow
  <2> QED BY Zenon, <2>1, FetchStep DEF FetchInvUnlessFailed
<1>3. TypeOK /\ FetchInvUnlessFailed => NothingMissed
  BY Zenon, FetchInvImplies DEF FetchInvUnlessFailed, NothingMissed
<1> QED BY <1>1, <1>2, <1>3, PTL DEF Spec
-----------------------------------------------------------------------------
(***************************************************************************)
(* The index. A row that exists belongs to a service (Placed), and so does *)
(* an entry of the cache (Homed); the first without the second is not      *)
(* enough, for an entry may outlive its row.                               *)
(***************************************************************************)
Placed ==
    \A i \in Instance : /\ tx[i] # NoRow => tx[i].svc \in Service
                        /\ master[i] # NoRow => master[i].svc \in Service
                        /\ slave[i] # NoRow => slave[i].svc \in Service

Homed == \A i \in Present(ids) : ids[i].svc \in Service

IndexInv == Placed /\ Homed /\ IndexAgrees

\* The row of an instance that is not deleted gives an entry of its service.
LEMMA CachedRow ==
  ASSUME NEW rec \in Row, rec.svc \in Service
  PROVE  /\ rec.flag = 1 => Cached(rec) = NoInst
         /\ rec.flag # 1 => Cached(rec) # NoInst /\ Cached(rec).svc = rec.svc
  BY InstanceCacheConstants DEF Cached, NoInst, Row, Service

\* Adding the elements of one set and removing those of another.
LEMMA CountChange ==
  ASSUME NEW S \in SUBSET Instance, NEW A \in SUBSET Instance, NEW B \in SUBSET S,
         A \cap S = {}
  PROVE  Cardinality((S \cup A) \ B) = Cardinality(S) + Cardinality(A) - Cardinality(B)
<1>1. IsFiniteSet(S) /\ IsFiniteSet(A) /\ IsFiniteSet(B) /\ IsFiniteSet(S \cup A)
  BY Zenon, InstanceCacheConstants, FS_Subset
<1>2. Cardinality(S \cup A) = Cardinality(S) + Cardinality(A) - Cardinality(S \cap A)
  BY Zenon, <1>1, FS_Union
<1>3. Cardinality((S \cup A) \ B) = Cardinality(S \cup A) - Cardinality((S \cup A) \cap B)
  BY Zenon, <1>1, FS_Difference
<1>4. Cardinality(S \cap A) = 0 /\ Cardinality((S \cup A) \cap B) = Cardinality(B)
  <2>1. S \cap A = {} /\ (S \cup A) \cap B = B
    BY Zenon
  <2> QED BY Zenon, <2>1, FS_EmptySet
<1>5. /\ Cardinality(S) \in Nat /\ Cardinality(A) \in Nat /\ Cardinality(B) \in Nat
      /\ Cardinality(S \cup A) \in Nat
  BY Zenon, <1>1, FS_CardinalityType
<1> QED BY <1>2, <1>3, <1>4, <1>5

\* What setInstances does to the set of cached instances.
LEMMA PresentAfter ==
  ASSUME TypeOK, Placed, NEW ins \in SUBSET Instance,
         \A i \in ins : slave[i] # NoRow, SetInstances(ins)
  PROVE  Present(ids') =
            (Present(ids) \cup {i \in ins : slave[i].flag = 0 /\ ids[i] = NoInst})
              \ {i \in ins : slave[i].flag = 1 /\ ids[i] # NoInst}
<1>1. ids' = [i \in Instance |-> IF i \in ins THEN Cached(slave[i]) ELSE ids[i]]
  BY Zenon DEF SetInstances, SetMaps
<1>2. \A i \in ins : /\ slave[i].flag \in {0, 1}
                     /\ slave[i].flag = 1 => Cached(slave[i]) = NoInst
                     /\ slave[i].flag = 0 => Cached(slave[i]) # NoInst
  <2> SUFFICES ASSUME NEW i \in ins
               PROVE  /\ slave[i].flag \in {0, 1}
                      /\ slave[i].flag = 1 => Cached(slave[i]) = NoInst
                      /\ slave[i].flag = 0 => Cached(slave[i]) # NoInst
    BY Zenon
  <2>1. slave[i] \in Row /\ slave[i].svc \in Service
    BY Zenon DEF TypeOK, Placed
  <2> QED BY <2>1, CachedRow DEF Row
<1> QED BY Zenon, <1>1, <1>2 DEF Present

\* setInstances keeps the maps and the counts in agreement.
LEMMA SetInstancesIndex ==
  ASSUME TypeOK, IndexInv, NEW ins \in SUBSET Instance,
         \A i \in ins : slave[i] # NoRow, SetInstances(ins)
  PROVE  Homed' /\ IndexAgrees'
<1>1. /\ ids' = [i \in Instance |-> IF i \in ins THEN Cached(slave[i]) ELSE ids[i]]
      /\ services' = [s \in Service |-> [i \in Instance |->
                         IF i \in ins /\ slave[i].svc = s
                         THEN Cached(slave[i]) ELSE services[s][i]]]
      /\ instanceCount' = CountAfter(ins)
      /\ instanceCounts' = [s \in Service |-> IF \E i \in ins : slave[i].svc = s
                                              THEN Cardinality(Present(services'[s]))
                                              ELSE instanceCounts[s]]
  BY Zenon DEF SetInstances, SetMaps
<1>2. \A i \in ins : /\ slave[i].svc \in Service
                     /\ Cached(slave[i]) # NoInst => Cached(slave[i]).svc = slave[i].svc
  <2> SUFFICES ASSUME NEW i \in ins
               PROVE  /\ slave[i].svc \in Service
                      /\ Cached(slave[i]) # NoInst => Cached(slave[i]).svc = slave[i].svc
    BY Zenon
  <2>1. slave[i] \in Row /\ slave[i].svc \in Service
    BY Zenon DEF TypeOK, IndexInv, Placed
  <2> QED BY Zenon, <2>1, CachedRow
<1>3. \A i \in Present(ids') : ids'[i].svc \in Service /\ services'[ids'[i].svc][i] = ids'[i]
  <2> SUFFICES ASSUME NEW i \in Instance, ids'[i] # NoInst
               PROVE  ids'[i].svc \in Service /\ services'[ids'[i].svc][i] = ids'[i]
    BY Zenon DEF Present
  <2>1. CASE i \in ins
    BY Zenon, <1>1, <1>2, <2>1
  <2>2. CASE i \notin ins
    <3>1. ids'[i] = ids[i] /\ i \in Present(ids)
      BY Zenon, <1>1, <2>2 DEF Present
    <3>2. ids[i].svc \in Service /\ services[ids[i].svc][i] = ids[i]
      BY Zenon, <3>1 DEF IndexInv, Homed, IndexAgrees
    <3> QED BY Zenon, <1>1, <2>2, <3>1, <3>2
  <2> QED BY Zenon, <2>1, <2>2
<1>4. instanceCount' = Cardinality(Present(ids'))
  <2> DEFINE A == {i \in ins : slave[i].flag = 0 /\ ids[i] = NoInst}
             B == {i \in ins : slave[i].flag = 1 /\ ids[i] # NoInst}
  <2>1. Present(ids') = (Present(ids) \cup A) \ B
    BY Zenon, PresentAfter DEF IndexInv
  <2>2. /\ A \in SUBSET Instance /\ B \in SUBSET Present(ids) /\ A \cap Present(ids) = {}
        /\ Present(ids) \in SUBSET Instance
    BY Zenon DEF Present
  <2>3. instanceCount' = Cardinality(Present(ids)) + Cardinality(A) - Cardinality(B)
    BY Zenon, <1>1 DEF CountAfter, IndexInv, IndexAgrees
  <2> HIDE DEF A, B
  <2> QED BY <2>1, <2>2, <2>3, CountChange
<1>5. ASSUME NEW s \in Service PROVE instanceCounts'[s] = Cardinality(Present(services'[s]))
  <2>1. CASE \E i \in ins : slave[i].svc = s
    BY Zenon, <1>1, <2>1
  <2>2. CASE ~\E i \in ins : slave[i].svc = s
    <3>1. \A i \in Instance : services'[s][i] = services[s][i]
      BY Zenon, <1>1, <2>2
    <3>2. Present(services'[s]) = Present(services[s])
      BY Zenon, <3>1 DEF Present
    <3>3. instanceCounts'[s] = instanceCounts[s]
      BY Zenon, <1>1, <2>2
    <3> QED BY Zenon, <3>2, <3>3 DEF IndexInv, IndexAgrees
  <2> QED BY Zenon, <2>1, <2>2
<1> QED BY Zenon, <1>3, <1>4, <1>5 DEF Homed, IndexAgrees

\* A statement writes a row of a service, or the empty row.
LEMMA ExecIndex ==
  ASSUME TypeOK, IndexInv, NEW i \in Instance, NEW rec \in Row,
         rec # NoRow => rec.svc \in Service, Exec(i, rec)
  PROVE  IndexInv'
<1>1. tx' = [tx EXCEPT ![i] = rec] /\ UNCHANGED <<master, slave, index>>
  BY Zenon DEF Exec, cache
<1>2. Placed'
  BY Zenon, <1>1 DEF IndexInv, Placed, TypeOK
<1> QED BY Zenon, <1>1, <1>2 DEF IndexInv, Homed, IndexAgrees, Present, index

\* So does every step.
LEMMA IndexStep == ASSUME TypeOK, IndexInv, [Next]_vars PROVE IndexInv'
<1> USE InstanceCacheConstants
<1>1. ASSUME NEW i \in Instance, AddInstance(i) PROVE IndexInv'
  <2> DEFINE rec == [svc |-> service, rev |-> writes + 1, flag |-> 0, mtime |-> now]
  <2>1. rec \in Row /\ rec.svc \in Service /\ Exec(i, rec)
    BY <1>1 DEF AddInstance, Exec, TypeOK, Row, Service, Time
  <2> HIDE DEF rec
  <2> QED BY Zenon, <2>1, ExecIndex
<1>2. ASSUME NEW i \in Instance, UpdateInstance(i) PROVE IndexInv'
  <2> DEFINE rec == [master[i] EXCEPT !.rev = writes + 1, !.mtime = now]
  <2>1. master[i] \in Row /\ writes + 1 \in 0..MaxWrites /\ now \in Time
    BY <1>2 DEF UpdateInstance, Exec, TypeOK, Time
  <2>2. rec \in Row /\ rec.svc = master[i].svc
    BY Zenon, <2>1, RowUpdate DEF Row
  <2>3. master[i].svc \in Service /\ Exec(i, rec)
    BY Zenon, <1>2 DEF UpdateInstance, IndexInv, Placed
  <2> HIDE DEF rec
  <2> QED BY Zenon, <2>2, <2>3, ExecIndex
<1>3. ASSUME NEW i \in Instance, DeleteInstance(i) PROVE IndexInv'
  <2> DEFINE rec == [master[i] EXCEPT !.flag = 1, !.mtime = now]
  <2>1. master[i] \in Row /\ writes \in 0..MaxWrites /\ now \in Time
    BY DEF TypeOK, Time
  <2>2. rec \in Row /\ rec.svc = master[i].svc
    BY Zenon, <2>1, RowUpdate DEF Row
  <2>3. master[i].svc \in Service /\ Exec(i, rec)
    BY Zenon, <1>3 DEF DeleteInstance, IndexInv, Placed
  <2> HIDE DEF rec
  <2> QED BY Zenon, <2>2, <2>3, ExecIndex
<1>4. ASSUME NEW i \in Instance, CleanInstance(i) PROVE IndexInv'
  BY Zenon, <1>4, EmptyTypes, ExecIndex DEF CleanInstance
<1>5. ASSUME NEW i \in Instance, Commit(i) \/ Rollback(i) PROVE IndexInv'
  <2>1. /\ tx' = [tx EXCEPT ![i] = NoRow]
        /\ master' = master \/ master' = [master EXCEPT ![i] = tx[i]]
        /\ UNCHANGED <<slave, index>>
    BY Zenon, <1>5 DEF Commit, Rollback, EndTx, cache
  <2>2. Placed'
    BY Zenon, <2>1 DEF IndexInv, Placed, TypeOK
  <2> QED BY Zenon, <2>1, <2>2 DEF IndexInv, Homed, IndexAgrees, Present, index
<1>6. CASE Replicate
  BY Zenon, <1>6 DEF Replicate, IndexInv, Placed, Homed, IndexAgrees, Present, cache, index
<1>7. CASE RecreateService
  BY Zenon, <1>7 DEF RecreateService, IndexInv, Placed, Homed, IndexAgrees, Present, cache, index
<1>8. CASE Tick
  BY Zenon, <1>8 DEF Tick, IndexInv, Placed, Homed, IndexAgrees, Present, store, cache, index
<1>9. CASE RealUpdate
  <2>1. GetMoreInstances \in SUBSET Instance /\ \A i \in GetMoreInstances : slave[i] # NoRow
    BY Zenon DEF GetMoreInstances
  <2>2. Homed' /\ IndexAgrees'
    BY Zenon, <1>9, <2>1, SetInstancesIndex DEF RealUpdate
  <2>3. Placed'
    BY Zenon, <1>9 DEF RealUpdate, IndexInv, Placed, store
  <2> QED BY Zenon, <2>2, <2>3 DEF IndexInv
<1>10. CASE ReadTime \/ FetchFails \/ CheckAll \/ SkipCheck \/ UNCHANGED vars
  <2>1. UNCHANGED <<tx, master, slave, index>>
    BY Zenon, <1>10 DEF ReadTime, FetchFails, CheckAll, SkipCheck, vars, store, cache, index
  <2> QED BY Zenon, <2>1 DEF IndexInv, Placed, Homed, IndexAgrees, Present, index
<1> QED BY Zenon, <1>1, <1>2, <1>3, <1>4, <1>5, <1>6, <1>7, <1>8, <1>9, <1>10
        DEF Next, StoreNext, Update

\* The initial state satisfies the invariant: nothing is cached.
LEMMA InitIndex == Init => IndexInv
<1> SUFFICES ASSUME Init PROVE IndexInv
  BY Zenon
<1>1. Present(ids) = {} /\ \A s \in Service : Present(services[s]) = {}
  BY Zenon DEF Init, Present
<1>2. Placed /\ Homed
  BY Zenon, <1>1 DEF Init, Placed, Homed
<1>3. IndexAgrees
  BY Zenon, <1>1, FS_EmptySet DEF Init, IndexAgrees
<1> QED BY Zenon, <1>2, <1>3 DEF IndexInv

(* The map of the instances, the maps of the services and the two kinds of *)
(* counts of the cache agree in every state, whatever rows are fetched     *)
(* again, deleted, removed or moved to another service, and whether        *)
(* fetches fail or not (setInstances, postProcessUpdatedServices).         *)
THEOREM InstanceCacheIndex == Spec => []CacheSound
<1>1. Init => TypeOK /\ IndexInv
  BY Zenon, InitTypes, InitIndex
<1>2. TypeOK /\ IndexInv /\ [Next]_vars => (TypeOK /\ IndexInv)'
  BY Zenon, TypeStep, IndexStep
<1>3. TypeOK /\ IndexInv => CacheSound
  BY Zenon DEF IndexInv, CacheSound
<1> QED BY <1>1, <1>2, <1>3, PTL DEF Spec
=============================================================================
