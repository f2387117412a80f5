--------------------------- MODULE ConfigHandlers ---------------------------
(***************************************************************************)
(* The handlers of the configuration centre (config/).  A file is named by *)
(* its key <<namespace, group, name>>; a request to write one is           *)
(*   [key, content, format, tags, encrypted, algo, user, uuid]             *)
(* with tags a sequence of pairs.  A content is [text, keys]: the keys it  *)
(* is encrypted with, the last one outermost.  user is the user the        *)
(* request comes from and uuid the data key drawn for a new encrypted      *)
(* file.  A file shown to a user is a row with its tags.                   *)
(***************************************************************************)
EXTENDS ServerCommon

CONSTANTS AutoCreate, MaxPageSize,
          Algorithms,     \* the encryption algorithms the crypto plugins offer
          Dashed,         \* the file names with a dash in them
          MaxRelease      \* the largest number in the name of a release

Namespace == INSTANCE NamespaceHandlers

ConfigFileTagKeyDataKey == "data_key"
ConfigFileTagKeyEncryptAlgo == "encrypt_algo"

CheckFileName(name) == name \notin {NoRow, ""} \cup IllegalNames

CheckContentLength(content) == content.text \notin LongValues

GenReleaseName(oldReleaseName, fileName) ==
  LET numbered(n) == fileName \o "-" \o ToString(n)
      ns == {n \in 1..MaxRelease : oldReleaseName = numbered(n)}
  IN  CASE oldReleaseName = "" -> numbered(1)
        [] ns = {} \/ fileName \in Dashed -> oldReleaseName
        [] OTHER -> numbered((CHOOSE n \in ns : TRUE) + 1)

CalMd5(content) == ToString(content)

checkNamespaceExisted(db, name) == storage!GetNamespace(db, name) # NoRow

CheckKey(key) ==
  FirstFailure(<< <<checkResourceName(key[1]), "InvalidNamespaceName">>,
                  <<checkResourceName(key[2]), "InvalidConfigFileGroupName">>,
                  <<CheckFileName(key[3]), "InvalidConfigFileName">> >>)

-----------------------------------------------------------------------------
\* config/config_file_tag.go

\* The tags of the file as pairs.
queryTagsByConfigFileWithAPIModels(db, key) ==
  {<<t[2], t[3]>> : t \in storage!QueryTagByConfigFile(db, key)}

diffTags(a, b) == a \ b

doCreateConfigFileTags(result, key, tags) ==
  FoldLeft(LAMBDA r, t : IF r.err # OK THEN r
                         ELSE storage!CreateConfigFileTag(r.db, key, t[1], t[2]),
           result, tags)

doDeleteConfigFileTags(result, key, tags) ==
  FoldLeft(LAMBDA r, t : IF r.err # OK THEN r
                         ELSE storage!DeleteConfigFileTag(r.db, key, t[1], t[2]),
           result, tags)

\* The stored tags are read outside the transaction, from the committed rows;
\* the tags of a file that has none are created as they are given.
createConfigFileTags(db, committed, key, tags) ==
  LET stored == queryTagsByConfigFileWithAPIModels(committed, key)
      toCreate == SetToSeq(diffTags(Range(tags), stored))
      toDelete == SetToSeq(diffTags(stored, Range(tags)))
  IN  IF stored = {} THEN doCreateConfigFileTags(Done(db), key, tags)
      ELSE doDeleteConfigFileTags(doCreateConfigFileTags(Done(db), key, toCreate), key, toDelete)

\* Mutant: the tags outlive their file.
keepTagsByConfigFile(db, key) == [db |-> db, err |-> OK]

deleteTagByConfigFile(db, key) == storage!DeleteTagByConfigFile(db, key)

\* The files with one of the tags, in the order of their keys' first tag row.
queryConfigFileByTags(db, namespace, group, fileName, offset, limit, tags) ==
  LET files == {t[1] : t \in storage!QueryConfigFileByTag(db, namespace, group, fileName, tags)}
  IN  [num |-> Cardinality(files), out |-> PageOf(SetToSeq(files), offset, limit)]

-----------------------------------------------------------------------------
\* encryption (config/config_file.go)

TagValue(tags, k) ==
  LET vs == {t[2] : t \in {t \in tags : t[1] = k}}
  IN  IF vs = {} THEN "" ELSE CHOOSE v \in vs : TRUE

CryptOf(tags) == [algo |-> TagValue(tags, ConfigFileTagKeyEncryptAlgo),
                  dataKey |-> TagValue(tags, ConfigFileTagKeyDataKey)]

getEncryptAlgorithmAndDataKey(db, key) == CryptOf(queryTagsByConfigFileWithAPIModels(db, key))

Encrypt(content, dataKey) == [content EXCEPT !.keys = Append(@, dataKey)]

Decryptable(content, algo, dataKey) ==
  algo \in Algorithms /\ content.keys # << >> /\ Last(content.keys) = dataKey

Decrypt(content) == [content EXCEPT !.keys = Front(@)]

\* Mutant: the tags are set and the content is left as it is.
tagConfigFile(req, algo, dataKey) ==
  LET key == IF dataKey = "" THEN req.uuid ELSE dataKey
  IN  [req EXCEPT !.tags = @ \o << <<ConfigFileTagKeyDataKey, key>>,
                                   <<ConfigFileTagKeyEncryptAlgo, algo>> >>]

\* The file with its content encrypted and the key and the algorithm among
\* its tags; a file without a data key gets a new one.
encryptConfigFile(req, algo, dataKey) ==
  LET key == IF dataKey = "" THEN req.uuid ELSE dataKey
  IN  [req EXCEPT !.content = Encrypt(@, key),
                  !.tags = @ \o << <<ConfigFileTagKeyDataKey, key>>,
                                   <<ConfigFileTagKeyEncryptAlgo, algo>> >>]

\* What the user gets to see of a row, or nil when its content is not encrypted
\* with the key.
DecryptFor(user, crypt, row) ==
  CASE user # row.createBy \/ crypt.dataKey = "" -> row
    [] Decryptable(row.content, crypt.algo, crypt.dataKey) -> [row EXCEPT !.content = Decrypt(@)]
    [] OTHER -> NoRow

\* The content as its creator sees it; the others see it encrypted.  A file
\* that carries its tags is decrypted with those and loses the key.
decryptConfigFile(db, user, file) ==
  LET crypt == IF file.tags = {} THEN getEncryptAlgorithmAndDataKey(db, file.key)
               ELSE CryptOf(file.tags)
      shown == DecryptFor(user, crypt,
                 [file EXCEPT !.tags = {t \in @ : t[1] # ConfigFileTagKeyDataKey}])
  IN  [code |-> IF shown = NoRow THEN "DecryptConfigFileException" ELSE Success, file |-> shown]

\* The tags are looked up under the name of the release, not of the file.
decryptConfigFileRelease(db, user, release) ==
  DecryptFor(user, getEncryptAlgorithmAndDataKey(db,
               <<release.key[1], release.key[2], release.name>>), release)

-----------------------------------------------------------------------------
\* config/config_file_group.go: a request is [key, comment, owner, user, uuid]

checkConfigFileGroupParams(req) ==
  FirstFailure(<< <<checkResourceName(req.key[2]), "InvalidConfigFileGroupName">>,
                  <<checkResourceName(req.key[1]), "InvalidNamespaceName">> >>)

apiConfigFileGroup2Model(req, createBy) ==
  [key |-> req.key, comment |-> req.comment, createBy |-> createBy, modifyBy |-> req.user,
   owner |-> IF req.owner # "" THEN req.owner ELSE createBy]

CreateConfigFileGroup(srv, req) ==
  LET check == checkConfigFileGroupParams(req)
      ns == Namespace!CreateNamespaceIfAbsent(srv,
              [name |-> req.key[1], comment |-> NoRow, owner |-> NoRow, uuid |-> req.uuid])
  IN  IF check # Success THEN Reply(srv.db, check)
      ELSE Then(ns, LAMBDA db :
        IF storage!GetConfigFileGroup(db, req.key[1], req.key[2]) # NoRow
        THEN Reply(db, ExistedResource)
        ELSE StoreReply(
               storage!CreateConfigFileGroup(db, apiConfigFileGroup2Model(req, req.user))))

createConfigFileGroupIfAbsent(srv, req) ==
  IF storage!GetConfigFileGroup(srv.db, req.key[1], req.key[2]) # NoRow
  THEN Reply(srv.db, Success) ELSE CreateConfigFileGroup(srv, req)

\* The creator is not in the request, so the group may lose its owner here.
UpdateConfigFileGroup(srv, req) ==
  LET check == checkConfigFileGroupParams(req)
  IN  CASE check # Success -> Reply(srv.db, check)
        [] storage!GetConfigFileGroup(srv.db, req.key[1], req.key[2]) = NoRow
             -> Reply(srv.db, NotFoundResource)
        [] OTHER -> StoreReply(
             storage!UpdateConfigFileGroup(srv.db, apiConfigFileGroup2Model(req, "")))

-----------------------------------------------------------------------------
\* config/config_file_release_history.go

Blank == [text |-> "", keys |-> << >>]

\* Mutant: withdrawals are not recorded.
recordPublications(db, committed, release, type, status) ==
  LET file == storage!GetConfigFile(db, release.key)
      tags == queryTagsByConfigFileWithAPIModels(committed, release.key)
  IN  IF type = "delete" THEN db
      ELSE storage!CreateConfigFileReleaseHistory(db,
        [key |-> release.key, name |-> release.name, content |-> release.content,
         format |-> IF file = NoRow THEN "" ELSE file.format,
         tags |-> {t \in tags : t[1] # ConfigFileTagKeyDataKey},
         type |-> type, status |-> status, createBy |-> release.modifyBy]).db

\* Errors of the store are logged only.  The data key is kept out.
recordReleaseHistory(db, committed, release, type, status) ==
  LET file == storage!GetConfigFile(db, release.key)
      tags == queryTagsByConfigFileWithAPIModels(committed, release.key)
  IN  storage!CreateConfigFileReleaseHistory(db,
        [key |-> release.key, name |-> release.name, content |-> release.content,
         format |-> IF file = NoRow THEN "" ELSE file.format,
         tags |-> {t \in tags : t[1] # ConfigFileTagKeyDataKey},
         type |-> type, status |-> status, createBy |-> release.modifyBy]).db

\* The tags are looked up under the name of the release, not of the file.
decryptConfigFileReleaseHistory(db, user, history) ==
  DecryptFor(user, getEncryptAlgorithmAndDataKey(db,
               <<history.key[1], history.key[2], history.name>>), history)

ShowHistories(db, user, page) ==
  LET shown == [i \in DOMAIN page.out |-> decryptConfigFileReleaseHistory(db, user,
                                             db.config_file_release_history[page.out[i]])]
  IN  IF NoRow \in Range(shown) THEN [code |-> "EncryptConfigFileException", num |-> 0, out |-> << >>]
      ELSE [code |-> Success, num |-> page.num, out |-> shown]

GetConfigFileReleaseHistory(srv, user, namespace, group, fileName, offset, limit, endId) ==
  IF limit > MaxPageSize THEN [code |-> "InvalidParameter", num |-> 0, out |-> << >>]
  ELSE ShowHistories(srv.db, user,
         storage!QueryConfigFileReleaseHistories(srv.db, namespace, group, fileName,
                                                 offset, limit, endId))

GetConfigFileLatestReleaseHistory(db, key) == storage!GetLatestConfigFileReleaseHistory(db, key)

-----------------------------------------------------------------------------
\* config/config_file_release.go: a request is [key, name, user]

checkReleaseKey(key) ==
  FirstFailure(<< <<CheckFileName(key[3]), "InvalidConfigFileName">>,
                  <<checkResourceName(key[1]), "InvalidNamespaceName">>,
                  <<checkResourceName(key[2]), "InvalidConfigFileGroupName">> >>)

\* The name is lost, and the one who modified it becomes the one who created it.
transferConfigFileReleaseAPIModel2StoreModel(release) ==
  [release EXCEPT !.name = "", !.createBy = release.modifyBy, !.modifyBy = ""]

recordReleaseFail(db, release) ==
  recordReleaseHistory(db, db, transferConfigFileReleaseAPIModel2StoreModel(release),
                       "normal", "failure")

\* The release that follows the managed one, which may be deleted or nil.
NextRelease(req, content, managed) ==
  LET oldName == IF managed = NoRow THEN "" ELSE managed.name
  IN  [key |-> req.key, content |-> content, md5 |-> CalMd5(content),
       name |-> IF req.name # "" THEN req.name ELSE GenReleaseName(oldName, req.key[3]),
       version |-> IF managed = NoRow THEN 1 ELSE managed.version + 1,
       createBy |-> req.user, modifyBy |-> req.user]

\* The publication is recorded, whether it succeeded or not.
RecordPublication(req, release, result) ==
  LET asked == [key |-> req.key, name |-> req.name, content |-> Blank,
                createBy |-> req.user, modifyBy |-> req.user]
  IN  IF result.err # OK THEN Reply(recordReleaseFail(result.db, asked), StoreLayerException)
      ELSE Reply(recordReleaseHistory(result.db, result.db, release, "normal", "success"), Success)

PublishConfigFile(srv, req) ==
  LET check == checkReleaseKey(req.key)
      file == storage!GetConfigFile(srv.db, req.key)
      managed == storage!GetConfigFileReleaseWithAllFlag(srv.db, req.key)
      release == NextRelease(req, file.content, managed)
  IN  CASE check # Success -> Reply(srv.db, check)
        [] ~checkNamespaceExisted(srv.db, req.key[1]) -> Reply(srv.db, "NotFoundNamespace")
        [] file = NoRow -> Reply(srv.db, NotFoundResource)
        [] OTHER -> RecordPublication(req, release,
                      IF managed = NoRow THEN storage!CreateConfigFileRelease(srv.db, release)
                      ELSE storage!UpdateConfigFileRelease(srv.db, release))

GetConfigFileRelease(db, committed, user, key) ==
  LET check == checkReleaseKey(key)
      row == storage!GetConfigFileRelease(db, key)
      shown == decryptConfigFileRelease(committed, user, row)
  IN  CASE check # Success -> [code |-> check, release |-> NoRow]
        [] row = NoRow -> [code |-> Success, release |-> NoRow]
        [] shown = NoRow -> [code |-> "DecryptConfigFileException", release |-> NoRow]
        [] OTHER -> [code |-> Success, release |-> shown]

RenameRelease(db, release, name) ==
  IF name = release.name THEN Done(db)
  ELSE storage!UpdateConfigFileRelease(db,
         [transferConfigFileReleaseAPIModel2StoreModel(release) EXCEPT !.name = name])

\* The withdrawal is recorded, whether it succeeded or not; the tags are read
\* outside the transaction.
RecordWithdrawal(db, data, renamed, deleted) ==
  IF deleted.err # OK
  THEN Reply(recordReleaseHistory(renamed, db, data, "delete", "failure"), StoreLayerException)
  ELSE Reply(recordReleaseHistory(deleted.db, db, data, "delete", "success"), Success)

WithdrawRelease(db, release, name, deleteBy) ==
  LET data == [key |-> release.key, name |-> name, content |-> Blank, modifyBy |-> deleteBy]
  IN  Then(RolledBack(db, StoreReply(RenameRelease(db, release, name))), LAMBDA renamed :
        RecordWithdrawal(db, data, renamed,
                         storage!DeleteConfigFileRelease(renamed, release.key, deleteBy)))

\* Give the release its next name, delete it and record that.
DeleteConfigFileRelease(db, user, key, deleteBy) ==
  LET latest == GetConfigFileRelease(db, db, user, key)
  IN  IF latest.code # Success \/ latest.release = NoRow THEN Reply(db, latest.code)
      ELSE WithdrawRelease(db, latest.release, GenReleaseName(latest.release.name, key[3]), deleteBy)

-----------------------------------------------------------------------------
\* config/config_file.go

checkConfigFileParams(req) ==
  FirstFailure(<< <<CheckFileName(req.key[3]), "InvalidConfigFileName">>,
                  <<checkResourceName(req.key[1]), "InvalidNamespaceName">>,
                  <<CheckContentLength(req.content), "InvalidConfigFileContentLength">>,
                  <<\A t \in Range(req.tags) : t[1] # "" /\ t[2] # "", "InvalidConfigFileTags">> >>)

transferConfigFileAPIModel2StoreModel(req, createBy) ==
  [key |-> req.key, content |-> req.content, format |-> req.format,
   createBy |-> createBy, modifyBy |-> ""]

createOrUpdateConfigFileTags(db, committed, req) ==
  StoreReply(createConfigFileTags(db, committed, req.key, req.tags))

\* A file is to be released when it was never released, was removed since, or
\* has another content than the last release.
fillReleaseAndTags(db, file) ==
  LET latest == GetConfigFileLatestReleaseHistory(db, file.key)
      released == latest # NoRow /\ latest.type = "normal" /\ latest.content = file.content
  IN  [tags |-> queryTagsByConfigFileWithAPIModels(db, file.key),
       status |-> IF released THEN latest.status ELSE "to-be-released"] @@ file

transferConfigFileStoreModel2APIModel(row) == [tags |-> {}, status |-> ""] @@ row

Hidden(code) == [code |-> code, file |-> NoRow]

GetConfigFileBaseInfo(srv, user, key) ==
  LET check == CheckKey(key)
      row == storage!GetConfigFile(srv.db, key)
  IN  CASE check # Success -> Hidden(check)
        [] row = NoRow -> Hidden(NotFoundResource)
        [] OTHER -> decryptConfigFile(srv.db, user, transferConfigFileStoreModel2APIModel(row))

\* The content GetConfigFileBaseInfo has decrypted is decrypted once more.
GetConfigFileRichInfo(srv, user, key) ==
  LET base == GetConfigFileBaseInfo(srv, user, key)
  IN  IF base.code # Success THEN base
      ELSE decryptConfigFile(srv.db, user, fillReleaseAndTags(srv.db, base.file))

AllShown(shown) ==
  IF \E i \in DOMAIN shown : shown[i].code # Success
  THEN [code |-> "DecryptConfigFileException", out |-> << >>]
  ELSE [code |-> Success, out |-> [i \in DOMAIN shown |-> shown[i].file]]

decryptMultiConfigFile(db, user, files) ==
  AllShown([i \in DOMAIN files |-> decryptConfigFile(db, user, files[i])])

ShowPage(db, user, page) ==
  LET filled == [i \in DOMAIN page.out |->
                   fillReleaseAndTags(db, storage!GetConfigFile(db, page.out[i]))]
  IN  [num |-> page.num] @@ decryptMultiConfigFile(db, user, filled)

QueryConfigFilesByGroup(srv, user, namespace, group, offset, limit) ==
  LET check == FirstFailure(<< <<checkResourceName(namespace), "InvalidNamespaceName">>,
                               <<checkResourceName(group), "InvalidConfigFileGroupName">>,
                               <<limit <= MaxPageSize, "InvalidParameter">> >>)
  IN  IF check # Success THEN [code |-> check, num |-> 0, out |-> << >>]
      ELSE ShowPage(srv.db, user,
             storage!QueryConfigFilesByGroup(srv.db, namespace, group, offset, limit))

queryConfigFileWithoutTags(srv, user, namespace, group, name, offset, limit) ==
  ShowPage(srv.db, user, storage!QueryConfigFiles(srv.db, namespace, group, name, offset, limit))

\* The files found by their tags, or the code of the first that is not shown.
RichPage(db, user, num, rich) ==
  LET bad == {i \in DOMAIN rich : rich[i].code # Success}
  IN  IF bad # {} THEN [code |-> rich[CHOOSE i \in bad : \A j \in bad : i <= j].code,
                        num |-> 0, out |-> << >>]
      ELSE [num |-> num] @@ decryptMultiConfigFile(db, user, [i \in DOMAIN rich |-> rich[i].file])

\* tags is a sequence of pairs, empty to search by name.
SearchConfigFile(srv, user, namespace, group, name, tags, offset, limit) ==
  LET check == FirstFailure(<< <<checkResourceName(namespace), "InvalidNamespaceName">>,
                               <<limit <= MaxPageSize, "InvalidParameter">> >>)
      tagged == queryConfigFileByTags(srv.db, namespace, group, name, offset, limit, tags)
  IN  CASE check # Success -> [code |-> check, num |-> 0, out |-> << >>]
        [] tags = << >>
             -> queryConfigFileWithoutTags(srv, user, namespace, group, name, offset, limit)
        [] OTHER -> RichPage(srv.db, user, tagged.num,
             [i \in DOMAIN tagged.out |-> GetConfigFileRichInfo(srv, user, tagged.out[i])])

\* The group of the file, and its namespace, are created when they are absent.
prepareCreateConfigFile(srv, req) ==
  LET check == checkConfigFileParams(req)
  IN  IF check # Success THEN Reply(srv.db, check)
      ELSE createConfigFileGroupIfAbsent(srv,
             [key |-> <<req.key[1], req.key[2]>>, comment |-> "auto created", owner |-> "",
              user |-> req.user, uuid |-> req.uuid])

Formatted(req) == IF req.format = "" THEN [req EXCEPT !.format = "text"] ELSE req

\* The row, its tags, and the file as the user is shown it.
StoreFile(db, req, file, secret) ==
  Then(StoreReply(storage!CreateConfigFile(db,
         [transferConfigFileAPIModel2StoreModel(file, req.user) EXCEPT !.modifyBy = req.user])),
       LAMBDA created :
  Then(createOrUpdateConfigFileTags(created, created, file), LAMBDA tagged :
    Reply(tagged, IF ~secret THEN Success
                  ELSE decryptConfigFile(tagged, req.user, transferConfigFileStoreModel2APIModel(
                         storage!GetConfigFile(tagged, req.key))).code)))

CreateConfigFile(srv, request) ==
  LET req == Formatted(request)
      secret == req.encrypted /\ req.algo # ""
  IN  Then(prepareCreateConfigFile(srv, req), LAMBDA db :
        CASE storage!GetConfigFile(db, req.key) # NoRow -> Reply(db, ExistedResource)
          [] secret /\ req.algo \notin Algorithms -> Reply(db, "EncryptConfigFileException")
          [] OTHER -> StoreFile(db, req,
               IF secret THEN encryptConfigFile(req, req.algo, "") ELSE req, secret))

RewriteFile(db, req, file, managed) ==
  Then(StoreReply(storage!UpdateConfigFile(db,
         [transferConfigFileAPIModel2StoreModel(file, "")
            EXCEPT !.modifyBy = req.user,
                   !.format = IF req.format = "" THEN managed.format ELSE @])), LAMBDA updated :
  Then(createOrUpdateConfigFileTags(updated, updated, file), LAMBDA tagged :
    Reply(tagged, decryptConfigFile(tagged, req.user,
                    fillReleaseAndTags(tagged, storage!GetConfigFile(tagged, req.key))).code)))

\* An encrypted file stays encrypted, with the key it has.
UpdateConfigFile(srv, req) ==
  LET check == checkConfigFileParams(req)
      managed == storage!GetConfigFile(srv.db, req.key)
      crypt == getEncryptAlgorithmAndDataKey(srv.db, req.key)
      secret == crypt.dataKey # "" /\ crypt.algo # ""
  IN  CASE check # Success -> Reply(srv.db, check)
        [] managed = NoRow -> Reply(srv.db, NotFoundResource)
        [] secret /\ crypt.algo \notin Algorithms -> Reply(srv.db, "EncryptConfigFileException")
        [] OTHER -> RewriteFile(srv.db, req,
             IF secret THEN encryptConfigFile(req, crypt.algo, crypt.dataKey) ELSE req, managed)

\* In one transaction, which rolls back unless every part succeeds.
DeleteConfigFile(srv, user, key, deleteBy) ==
  LET check == CheckKey(key)
      operator == IF deleteBy = "" THEN user ELSE deleteBy
  IN  CASE check # Success -> Reply(srv.db, check)
        [] storage!GetConfigFile(srv.db, key) = NoRow -> Reply(srv.db, Success)
        [] OTHER -> RolledBack(srv.db,
             Then(DeleteConfigFileRelease(srv.db, user, key, operator), LAMBDA released :
             Then(StoreReply(storage!DeleteConfigFile(released, key)), LAMBDA deleted :
               StoreReply(deleteTagByConfigFile(deleted, key)))))

\* Stops at the first deletion that fails; the earlier ones stay.
BatchDeleteConfigFile(srv, user, keys, operator) ==
  FoldLeft(LAMBDA acc, key : IF acc.code # Success THEN acc
                             ELSE DeleteConfigFile([srv EXCEPT !.db = acc.db], user, key, operator),
           Reply(srv.db, Success), keys)

\* The files of the group, all pages of them.
getGroupAllConfigFiles(srv, namespace, group) ==
  storage!QueryConfigFilesByGroup(srv.db, namespace, group, 0,
                                  Cardinality(DOMAIN srv.db.config_file)).out

\* The archive: the files with the tags the user may take along.  A name
\* without a file is dereferenced.
ExportConfigFile(srv, user, namespace, groups, names) ==
  LET keys == IF names = << >>
              THEN FlattenSeq([i \in DOMAIN groups |->
                                 getGroupAllConfigFiles(srv, namespace, groups[i])])
              ELSE [i \in DOMAIN names |-> <<namespace, groups[1], names[i]>>]
      files == [i \in DOMAIN keys |-> storage!GetConfigFile(srv.db, keys[i])]
      kept(f) == {t \in queryTagsByConfigFileWithAPIModels(srv.db, f.key) :
                    t[1] = ConfigFileTagKeyDataKey => user = f.createBy}
  IN  CASE ~checkResourceName(namespace) -> [code |-> "InvalidNamespaceName", out |-> {}]
        [] groups = << >> \/ (names # << >> /\ Len(groups) # 1)
             -> [code |-> "InvalidParameter", out |-> {}]
        [] keys = << >> -> [code |-> "NotFoundResourceConfigFile", out |-> {}]
        [] NoRow \in Range(files) -> [code |-> "nil_dereference", out |-> {}]
        [] OTHER -> [code |-> Success,
                     out |-> {[key |-> f.key, content |-> f.content, tags |-> kept(f)] :
                                f \in Range(files)}]

\* One file of an import, in the transaction acc.db of the rows srv.db.
ImportOne(srv, acc, req, conflictHandling) ==
  LET model == transferConfigFileAPIModel2StoreModel(req, req.user)
      exists == storage!GetConfigFile(acc.db, req.key) # NoRow
  IN  IF acc.code # Success \/ (exists /\ conflictHandling # "overwrite") THEN acc
      ELSE Then(StoreReply(IF exists THEN storage!UpdateConfigFile(acc.db, model)
                           ELSE storage!CreateConfigFile(acc.db, model)),
                LAMBDA written : createOrUpdateConfigFileTags(written, srv.db, req))

\* The groups are created first, each on its own, and stay when the
\* transaction that writes the files rolls back.
ImportConfigFile(srv, requests, conflictHandling) ==
  LET reqs == [i \in DOMAIN requests |-> Formatted(requests[i])]
      ready == FoldLeft(LAMBDA acc, r : IF acc.code # Success THEN acc
                          ELSE prepareCreateConfigFile([srv EXCEPT !.db = acc.db], r),
                        Reply(srv.db, Success), reqs)
  IN  Then(ready, LAMBDA db : RolledBack(db,
        FoldLeft(LAMBDA acc, r : ImportOne([srv EXCEPT !.db = db], acc, r, conflictHandling),
                 Reply(db, Success), reqs)))

-----------------------------------------------------------------------------
\* groups again (config/config_file_group.go)

batchTransfer(db, groups) ==
  [i \in DOMAIN groups |->
     [key |-> groups[i],
      fileCount |-> storage!CountByConfigFileGroup(db, groups[i][1], groups[i][2])]]

queryByGroupName(srv, namespace, groupName, offset, limit) ==
  LET page == storage!QueryConfigFileGroups(srv.db, namespace, groupName, offset, limit)
  IN  [code |-> Success, num |-> page.num, out |-> batchTransfer(srv.db, page.out)]

\* The groups of the files with the name, in the order of their names, a page
\* of them; a group that is gone is dereferenced.
GroupsOf(db, files, offset, limit) ==
  LET groups == SetToSeq({<<f.key[1], f.key[2]>> : f \in Range(files.out)})
      page == PageOf(groups, offset, limit)
  IN  CASE files.code # Success -> files
        [] \E g \in Range(page) : storage!GetConfigFileGroup(db, g[1], g[2]) = NoRow
             -> [code |-> "nil_dereference", num |-> 0, out |-> << >>]
        [] OTHER -> [code |-> Success, num |-> Len(groups), out |-> batchTransfer(db, page)]

queryByFileName(srv, user, namespace, groupName, fileName, offset, limit) ==
  GroupsOf(srv.db, queryConfigFileWithoutTags(srv, user, namespace, groupName, fileName, 0,
                                              Cardinality(DOMAIN srv.db.config_file)), offset, limit)

QueryConfigFileGroups(srv, user, namespace, groupName, fileName, offset, limit) ==
  CASE limit > MaxPageSize -> [code |-> "InvalidParameter", num |-> 0, out |-> << >>]
    [] fileName = "" -> queryByGroupName(srv, namespace, groupName, offset, limit)
    [] OTHER -> queryByFileName(srv, user, namespace, groupName, fileName, offset, limit)

\* One round of the loop: the files of the page at the offset are deleted and
\* the offset moves on when the page was full.
DeletePage(srv, user, acc, page) ==
  LET keys == [i \in DOMAIN page.out |-> page.out[i].key]
      more == Len(page.out) >= MaxPageSize
  IN  IF page.code # Success THEN [acc EXCEPT !.code = page.code]
      ELSE BatchDeleteConfigFile([srv EXCEPT !.db = acc.db], user, keys, user)
             @@ [more |-> more, offset |-> IF more THEN acc.offset + MaxPageSize ELSE acc.offset]

DeleteNextPage(srv, user, namespace, name, acc) ==
  IF ~acc.more \/ acc.code # Success THEN acc
  ELSE DeletePage(srv, user, acc,
         QueryConfigFilesByGroup([srv EXCEPT !.db = acc.db], user, namespace, name,
                                 acc.offset, MaxPageSize))

DeleteConfigFileGroup(srv, user, namespace, name) ==
  LET check == FirstFailure(<< <<checkResourceName(namespace), "InvalidNamespaceName">>,
                               <<checkResourceName(name), "InvalidConfigFileGroupName">> >>)
      rounds == [i \in 1..(Cardinality(DOMAIN srv.db.config_file) + 1) |-> i]
      emptied == FoldLeft(LAMBDA acc, i : DeleteNextPage(srv, user, namespace, name, acc),
                          [db |-> srv.db, code |-> Success, more |-> TRUE, offset |-> 0], rounds)
  IN  IF check # Success THEN Reply(srv.db, check)
      ELSE Then(emptied, LAMBDA db :
        IF storage!GetConfigFileGroup(db, namespace, name) = NoRow THEN Reply(db, NotFoundResource)
        ELSE StoreReply(storage!DeleteConfigFileGroup(db, namespace, name)))

-----------------------------------------------------------------------------
\* config/config_file_template.go: a request is [name, content, format]

checkConfigFileTemplateParam(req) ==
  FirstFailure(<< <<CheckFileName(req.name), "InvalidConfigFileTemplateName">>,
                  <<CheckContentLength(req.content), "InvalidConfigFileContentLength">>,
                  <<req.content.text # "", "BadRequest">> >>)

GetConfigFileTemplate(srv, name) ==
  IF name = "" THEN "InvalidConfigFileTemplateName"
  ELSE IF storage!GetConfigFileTemplate(srv.db, name) = NoRow THEN NotFoundResource ELSE Success

CreateConfigFileTemplate(srv, req) ==
  LET check == checkConfigFileTemplateParam(req)
      found == GetConfigFileTemplate(srv, req.name)
  IN  CASE check # Success -> Reply(srv.db, check)
        [] found = Success -> Reply(srv.db, "BadRequest")
        [] found # NotFoundResource -> Reply(srv.db, found)
        [] OTHER -> StoreReply(storage!CreateConfigFileTemplate(srv.db, req))

GetAllConfigFileTemplates(srv) == storage!QueryAllConfigFileTemplates(srv.db)
=============================================================================
