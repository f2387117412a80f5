---------------------------- MODULE ConfigCenter ----------------------------
(***************************************************************************)
(* The configuration centre over both stores.  Every request is given to   *)
(* two servers, one on store/mysql and one on store/boltdb, and runs to    *)
(* its end before the next one.                                            *)
(*                                                                         *)
(*   dbs      the database of each engine                                  *)
(*   answer   the code each server gave to the last request                *)
(*   writes   the requests so far, at most MaxWrites                       *)
(***************************************************************************)
EXTENDS ConfigHandlers

CONSTANTS NamespaceName, Groups, FileNames, TagLists, MaxWrites,
          Texts,          \* the texts of files
          NewTexts,       \* those a new file may have
          Users,          \* who may write files
          Operators       \* who may delete files and manage releases and groups

VARIABLES dbs, answer, writes

vars == <<dbs, answer, writes>>

Engines == {"mysql", "boltdb"}

Keys == {NamespaceName} \X Groups \X FileNames

\* The server of the engine; the namespace cache starts empty and is not
\* refreshed here, so namespaces are looked up in the store.
Srv(e) == [db |-> dbs[e], cache |-> [namespace |-> << >>]]

Init ==
  /\ dbs = [e \in Engines |-> storage!Initialize(e)]
  /\ answer = [e \in Engines |-> Success]
  /\ writes = 0

\* The request runs on both servers.
Request(reply) ==
  /\ writes < MaxWrites
  /\ writes' = writes + 1
  /\ dbs' = [e \in Engines |-> reply[e].db]
  /\ answer' = [e \in Engines |-> reply[e].code]

Plain(text) == [text |-> text, keys |-> << >>]

\* The data keys are random: no two requests draw the same one.
Uuid == "key" \o ToString(writes)

FileRequest(key, content, tags, encrypted, user) ==
  [key |-> key, content |-> content, format |-> "", tags |-> tags, encrypted |-> encrypted,
   algo |-> IF encrypted THEN "AES" ELSE "", user |-> user, uuid |-> Uuid]

\* Only of an encrypted file it matters who has created it.
CreateFile ==
  \E key \in Keys, text \in NewTexts, encrypted \in BOOLEAN, tags \in TagLists :
    \E user \in IF encrypted THEN Users ELSE Operators :
    LET req == FileRequest(key, Plain(text), tags, encrypted, user)
    IN  Request([e \in Engines |-> CreateConfigFile(Srv(e), req)])

\* A new text, or the content as the user is shown it.
UpdateFile ==
  \E key \in Keys, user \in Users, tags \in TagLists :
    LET shown == GetConfigFileBaseInfo(Srv("mysql"), user, key)
        contents == {Plain(text) : text \in Texts}
                      \cup (IF shown.code = Success THEN {shown.file.content} ELSE {})
    IN  \E content \in contents :
          LET req == FileRequest(key, content, tags, FALSE, user)
          IN  Request([e \in Engines |-> UpdateConfigFile(Srv(e), req)])

DeleteFiles ==
  \E keys \in {<<k>> : k \in Keys} \cup {<<k, l>> : k, l \in Keys}, user \in Operators :
    Request([e \in Engines |-> BatchDeleteConfigFile(Srv(e), user, keys, "")])

\* What the user may export is imported again, or new plain files are.
ImportExported(user, mode) ==
  LET archive == ExportConfigFile(Srv("mysql"), user, NamespaceName, SetToSeq(Groups), << >>)
      reqs == SetToSeq({FileRequest(f.key, f.content, SetToSeq(f.tags), FALSE, user) :
                          f \in archive.out})
  IN  Request([e \in Engines |-> ImportConfigFile(Srv(e), reqs, mode)])

ImportFiles ==
  \E mode \in {"skip", "overwrite"} :
    \/ \E user \in Users : ImportExported(user, mode)
    \/ \E key \in Keys, text \in NewTexts, user \in Operators :
         LET req == FileRequest(key, Plain(text), << >>, FALSE, user)
         IN  Request([e \in Engines |-> ImportConfigFile(Srv(e), <<req>>, mode)])

Publish ==
  \E key \in Keys, user \in Operators, name \in {"", "named"} :
    LET req == [key |-> key, name |-> name, user |-> user]
    IN  Request([e \in Engines |-> PublishConfigFile(Srv(e), req)])

DeleteRelease ==
  \E key \in Keys, user \in Operators :
    Request([e \in Engines |-> DeleteConfigFileRelease(dbs[e], user, key, user)])

CreateGroup ==
  \E group \in Groups, user \in Operators :
    LET req == [key |-> <<NamespaceName, group>>, comment |-> "", owner |-> "",
                user |-> user, uuid |-> Uuid]
    IN  Request([e \in Engines |-> CreateConfigFileGroup(Srv(e), req)])

UpdateGroup ==
  \E group \in Groups, user \in Operators :
    LET req == [key |-> <<NamespaceName, group>>, comment |-> "new", owner |-> user,
                user |-> user, uuid |-> Uuid]
    IN  Request([e \in Engines |-> UpdateConfigFileGroup(Srv(e), req)])

DeleteGroup ==
  \E group \in Groups, user \in Operators :
    Request([e \in Engines |-> DeleteConfigFileGroup(Srv(e), user, NamespaceName, group)])

CreateTemplate ==
  \E text \in Texts \cup {""} :
    LET req == [name |-> "template", content |-> Plain(text), format |-> "text"]
    IN  Request([e \in Engines |-> CreateConfigFileTemplate(Srv(e), req)])

DeleteTheNamespace ==
  LET req == [name |-> NamespaceName, comment |-> NoRow, owner |-> NoRow, uuid |-> Uuid]
  IN  Request([e \in Engines |-> Namespace!DeleteNamespace(Srv(e), req)])

Next ==
  \/ CreateFile \/ UpdateFile \/ DeleteFiles \/ ImportFiles
  \/ Publish \/ DeleteRelease
  \/ CreateGroup \/ UpdateGroup \/ DeleteGroup
  \/ CreateTemplate \/ DeleteTheNamespace

Spec == Init /\ [][Next]_vars

-----------------------------------------------------------------------------
\* Properties

\* What a user is shown of a server: its files one by one and searched for,
\* their groups, the releases and the history.
PageView(page) == <<page.code, page.num, [i \in DOMAIN page.out |-> page.out[i].key]>>

\* A search by tags has no order.
AnyOrder(view) == <<view[1], view[2], Range(view[3])>>

FileView(shown) ==
  <<shown.code, IF shown.code # Success THEN << >> ELSE <<shown.file.content, shown.file.tags>> >>

ReleaseView(shown) ==
  IF shown.code # Success \/ shown.release = NoRow THEN << >>
  ELSE <<shown.release.content, shown.release.version>>

ViewOf(srv, user) ==
  [files |-> [k \in Keys |-> FileView(GetConfigFileBaseInfo(srv, user, k))],
   rich |-> [k \in Keys |-> GetConfigFileRichInfo(srv, user, k).code],
   releases |-> [k \in Keys |-> ReleaseView(GetConfigFileRelease(srv.db, srv.db, user, k))],
   group |-> PageView(QueryConfigFilesByGroup(srv, user, NamespaceName, "g", 0, MaxPageSize)),
   found |-> PageView(SearchConfigFile(srv, user, NamespaceName, "", "a", << >>, 0, MaxPageSize)),
   tagged |-> AnyOrder(PageView(SearchConfigFile(srv, user, NamespaceName, "", "",
                                                 << <<"t", "v">> >>, 0, MaxPageSize))),
   byFile |-> QueryConfigFileGroups(srv, user, NamespaceName, "", "a", 0, MaxPageSize),
   history |-> GetConfigFileReleaseHistory(srv, user, NamespaceName, "", "", 0, MaxPageSize, 0)]

\* What everyone is shown, what the statistics count and the scan of releases
\* reads.
Counted(e) ==
  LET db == dbs[e]
      scanned == storage!FindConfigFileReleaseByModifyTimeAfter(db)
      exists(g) == storage!GetConfigFileGroup(db, NamespaceName, g) # NoRow
  IN  [byName |-> QueryConfigFileGroups(Srv(e), "", NamespaceName, "", "", 0, MaxPageSize),
       templates |-> GetAllConfigFileTemplates(Srv(e)),
       files |-> storage!CountConfigFileEachGroup(db),
       groups |-> storage!CountGroupEachNamespace(db),
       releases |-> storage!CountConfigFileReleaseEachGroup(db),
       scanned |-> [k \in DOMAIN scanned |-> <<scanned[k].version, scanned[k].valid>>],
       byId |-> [g \in {x \in Groups : exists(x)} |->
                   storage!GetConfigFileGroupById(db, storage!GetConfigFileGroup(db, NamespaceName, g).id)],
       named |-> {k \in storage!FindConfigFileGroups(db, NamespaceName, Groups) : exists(k[2])}]

\* The two stores are interchangeable: they answer every sequence of requests
\* with the same codes, and show every user the same files, releases, groups
\* and history after it (config/*.go on store/mysql and on store/boltdb).
Interchangeable ==
  /\ answer["mysql"] = answer["boltdb"]
  /\ Counted("mysql") = Counted("boltdb")
  /\ \A user \in Users : ViewOf(Srv("mysql"), user) = ViewOf(Srv("boltdb"), user)

LiveFiles(e) == ValidKeys(dbs[e].config_file)

\* Every file is in a group (DeleteConfigFileGroup deletes the files with it).
FilesHaveGroups ==
  \A e \in Engines : \A k \in LiveFiles(e) :
    storage!GetConfigFileGroup(dbs[e], k[1], k[2]) # NoRow

\* Nothing outlives what it belongs to: a release and a tag have a file, a file
\* a group, a group its namespace, whatever was deleted, imported or refused.
NoStrays ==
  /\ FilesHaveGroups
  /\ \A e \in Engines :
       /\ ValidKeys(dbs[e].config_file_release) \subseteq LiveFiles(e)
       /\ {t[1] : t \in dbs[e].config_file_tag} \subseteq LiveFiles(e)
       /\ storage!GetNamespace(dbs[e], NamespaceName) = NoRow =>
            \A g \in Groups : storage!GetConfigFileGroup(dbs[e], NamespaceName, g) = NoRow

\* The creator of the file gets its text: it is plain, or encrypted with the
\* data key among the tags of the file.
Readable(e, k) ==
  LET crypt == getEncryptAlgorithmAndDataKey(dbs[e], k)
      content == dbs[e].config_file[k].content
  IN  IF crypt.dataKey = "" THEN content.keys = << >>
      ELSE Decryptable(content, crypt.algo, crypt.dataKey)

Unreadable(e) == {k \in LiveFiles(e) : ~Readable(e, k)}

\* Every encrypted file can be read by its creator, through updates, exports and
\* imports (encryptConfigFile, updateConfigFileTags).  There is one way to lose
\* the key of a file: the export of a user who has not created it leaves the
\* key out, and an import of that export over the file deletes it.
StaysReadable ==
  [][\A e \in Engines : \A k \in Unreadable(e)' \ Unreadable(e) :
       \E user \in Users \ {dbs'[e].config_file[k].createBy} : ImportExported(user, "overwrite")]_vars

\* Every encrypted file can be read by its creator.
AlwaysReadable == \A e \in Engines : Unreadable(e) = {}

\* The history tells what is released: the last record of a file is a
\* successful publication of the content of its release exactly when there is
\* a release (fillReleaseAndTags shows the status of a file from it).
HistoryTells ==
  \A e \in Engines : \A k \in Keys :
    LET release == storage!GetConfigFileRelease(dbs[e], k)
        last == storage!GetLatestConfigFileReleaseHistory(dbs[e], k)
    IN  IF release = NoRow THEN last # NoRow => last.type = "delete"
        ELSE /\ last # NoRow /\ last.type = "normal" /\ last.status = "success"
             /\ last.content = release.content /\ last.name = release.name

\* The release of a file as its clients may know it.
Register(e) ==
  [k \in Keys |->
     LET row == RowOf(dbs[e].config_file_release, k)
     IN  IF row = NoRow THEN [version |-> 0, content |-> NoRow]
         ELSE [version |-> row.version, content |-> IF row.valid THEN row.content ELSE NoRow]]

Ciphers == Seq({"key" \o ToString(i) : i \in 0..MaxWrites})

MyLog == INSTANCE ReleaseLog WITH Files <- Keys, Nothing <- NoRow,
           Contents <- [text : Texts, keys : Ciphers], register <- Register("mysql")
BoltLog == INSTANCE ReleaseLog WITH Files <- Keys, Nothing <- NoRow,
           Contents <- [text : Texts, keys : Ciphers], register <- Register("boltdb")

\* On both stores the centre implements the register of releases: publishing,
\* withdrawing and deleting files and groups change a version by exactly one
\* whenever they change what is released, and nothing else does.
Implements == MyLog!Spec /\ BoltLog!Spec
=============================================================================
