---------------------------- MODULE BoltConfig -----------------------------
(***************************************************************************)
(* The configuration centre in the embedded store (store/boltdb).  A save  *)
(* replaces whatever its key holds; the counters id live in the store      *)
(* object and in the bucket IDHolder.  An operation opens and commits a    *)
(* transaction of its own unless it is given one (DoTransactionIfNeed).    *)
(***************************************************************************)
EXTENDS StoreTables, SequencesExt

CONSTANTS
  Substr,                  \* the pairs <<t, v>> where text t occurs in value v
  ButLast                  \* a name without its last character

\* strings.Contains(v, t)
HasText(v, t) == t = "" \/ <<t, v>> \in Substr

EmptyConfig ==
  [config_file |-> << >>, config_file_group |-> << >>, config_file_release |-> << >>,
   config_file_release_history |-> << >>, config_file_tag |-> {},
   config_file_template |-> << >>, file_id |-> 0, group_id |-> 0, now |-> 0]

\* updateValue leaves the bucket alone when the key has no value.
updateValue(t, k, cols) == Assign(t, {k}, cols)

-----------------------------------------------------------------------------
\* ConfigFile

getConfigFile(db, key) ==
  IF key \in ValidKeys(db.config_file) THEN [key |-> key] @@ db.config_file[key] ELSE NoRow

GetConfigFile(db, key) == getConfigFile(db, key)

CreateConfigFile(db, file) ==
  LET row == [id |-> db.file_id + 1, content |-> file.content, format |-> file.format,
              createBy |-> file.createBy, modifyBy |-> file.modifyBy, valid |-> TRUE]
  IN  Done([db EXCEPT !.config_file = Put(@, file.key, row), !.file_id = @ + 1])

\* The first of the newest files: an empty page beyond the last one.
doConfigFilePage(db, ks, offset, limit) ==
  PageOf(SetToSortSeq(ks, LAMBDA a, b : db.config_file[a].id > db.config_file[b].id),
         offset, limit)

\* The names are searched for as text, not compared.
QueryConfigFilesByGroup(db, namespace, group, offset, limit) ==
  LET ks == {k \in ValidKeys(db.config_file) : HasText(k[1], namespace) /\ HasText(k[2], group)}
  IN  [num |-> Cardinality(ks), out |-> doConfigFilePage(db, ks, offset, limit)]

QueryConfigFiles(db, namespace, group, name, offset, limit) ==
  LET ks == {k \in ValidKeys(db.config_file) :
               HasText(k[1], namespace) /\ HasText(k[2], group) /\ HasText(k[3], name)}
  IN  [num |-> Cardinality(ks), out |-> doConfigFilePage(db, ks, offset, limit)]

UpdateConfigFile(db, file) ==
  Done([db EXCEPT !.config_file = updateValue(@, file.key,
          [content |-> file.content, format |-> file.format, modifyBy |-> file.modifyBy])])

DeleteConfigFile(db, key) ==
  Done([db EXCEPT !.config_file = updateValue(@, key, [valid |-> FALSE])])

CountByConfigFileGroup(db, namespace, group) ==
  Cardinality({k \in ValidKeys(db.config_file) :
                 (namespace # "" => k[1] = namespace) /\ (group # "" => k[2] = group)})

CountConfigFileEachGroup(db) ==
  [g \in {<<k[1], k[2]>> : k \in ValidKeys(db.config_file)} |->
     Cardinality({k \in ValidKeys(db.config_file) : <<k[1], k[2]>> = g})]

-----------------------------------------------------------------------------
\* ConfigFileGroup: a deleted group keeps its value

createConfigFileGroup(db, group) ==
  LET row == [id |-> db.group_id + 1, comment |-> group.comment, createBy |-> group.createBy,
              modifyBy |-> group.modifyBy, owner |-> group.owner, mtime |-> db.now, valid |-> TRUE]
  IN  Done([db EXCEPT !.config_file_group = Put(@, group.key, row), !.group_id = @ + 1,
                      !.now = @ + 1])

CreateConfigFileGroup(db, group) ==
  IF "" \in Range(group.key) THEN Fail(db, EmptyParams) ELSE createConfigFileGroup(db, group)

GetConfigFileGroup(db, namespace, name) ==
  LET key == <<namespace, name>>
  IN  IF key \in ValidKeys(db.config_file_group) THEN db.config_file_group[key] ELSE NoRow

\* By modification time, the newest first.
doConfigFileGroupPage(db, ks, offset, limit) ==
  LET t == db.config_file_group
  IN  PageOf(SetToSortSeq(ks, LAMBDA a, b : t[a].mtime > t[b].mtime), offset, limit)

QueryConfigFileGroups(db, namespace, name, offset, limit) ==
  LET ks == {k \in ValidKeys(db.config_file_group) :
               /\ namespace # "" => k[1] = namespace
               /\ name # "" => HasText(k[2], ButLast[name])}
  IN  [num |-> Cardinality(ks), out |-> doConfigFileGroupPage(db, ks, offset, limit)]

DeleteConfigFileGroup(db, namespace, name) ==
  IF namespace = "" \/ name = "" THEN Fail(db, EmptyParams)
  ELSE Done([db EXCEPT !.config_file_group =
               updateValue(@, <<namespace, name>>, [valid |-> FALSE, mtime |-> db.now]),
                          !.now = @ + 1])

UpdateConfigFileGroup(db, group) ==
  IF "" \in Range(group.key) THEN Fail(db, EmptyParams)
  ELSE Done([db EXCEPT !.config_file_group = updateValue(@, group.key,
               [comment |-> group.comment, modifyBy |-> group.modifyBy, mtime |-> db.now]),
                          !.now = @ + 1])

FindConfigFileGroups(db, namespace, names) ==
  {k \in DOMAIN db.config_file_group : k[1] = namespace /\ k[2] \in names}

GetConfigFileGroupById(db, id) ==
  LET found == {k \in ValidKeys(db.config_file_group) : db.config_file_group[k].id = id}
  IN  IF found = {} THEN NoRow ELSE CHOOSE k \in found : TRUE

CountGroupEachNamespace(db) ==
  [n \in {k[1] : k \in ValidKeys(db.config_file_group)} |->
     Cardinality({k \in ValidKeys(db.config_file_group) : k[1] = n})]

-----------------------------------------------------------------------------
\* ConfigFileRelease

getConfigFileReleaseByFlag(db, key, withAllFlag) ==
  LET row == RowOf(db.config_file_release, key)
  IN  IF row # NoRow /\ (withAllFlag \/ row.valid) THEN [key |-> key] @@ row ELSE NoRow

GetConfigFileRelease(db, key) == getConfigFileReleaseByFlag(db, key, FALSE)

GetConfigFileReleaseWithAllFlag(db, key) == getConfigFileReleaseByFlag(db, key, TRUE)

CreateConfigFileRelease(db, r) ==
  LET row == [name |-> r.name, content |-> r.content, md5 |-> r.md5, version |-> r.version,
              createBy |-> r.createBy, modifyBy |-> r.modifyBy, valid |-> TRUE, fresh |-> TRUE]
  IN  Done([db EXCEPT !.config_file_release = Put(@, r.key, row)])

\* Mutant: a release that was withdrawn stays withdrawn.
UpdateReleaseKeepsFlag(db, r) ==
  Done([db EXCEPT !.config_file_release = updateValue(@, r.key,
          Touched([name |-> r.name, content |-> r.content, md5 |-> r.md5,
                   version |-> r.version, modifyBy |-> r.modifyBy]))])

UpdateConfigFileRelease(db, r) ==
  Done([db EXCEPT !.config_file_release = updateValue(@, r.key,
          Touched([name |-> r.name, content |-> r.content, md5 |-> r.md5,
                   version |-> r.version, modifyBy |-> r.modifyBy, valid |-> TRUE]))])

\* The release is read with its flag; a release that is not valid is nil,
\* and its version is read all the same.
DeleteConfigFileRelease(db, key, deleteBy) ==
  LET release == getConfigFileReleaseByFlag(db, key, FALSE)
  IN  IF release = NoRow THEN Fail(db, "nil_dereference")
      ELSE Done([db EXCEPT !.config_file_release = updateValue(@, key,
                   Removed @@ [modifyBy |-> deleteBy, version |-> release.version + 1,
                               md5 |-> ""])])

FindConfigFileReleaseByModifyTimeAfter(db) ==
  Rows(db.config_file_release, FreshKeys(db.config_file_release))

CountConfigFileReleaseEachGroup(db) ==
  [g \in {<<k[1], k[2]>> : k \in ValidKeys(db.config_file_release)} |->
     Cardinality({k \in ValidKeys(db.config_file_release) : <<k[1], k[2]>> = g})]

-----------------------------------------------------------------------------
\* ConfigFileReleaseHistory

CreateConfigFileReleaseHistory(db, h) ==
  Done([db EXCEPT !.config_file_release_history = Append(@, h)])

doConfigFileHistoryPage(ids, offset, limit) ==
  PageOf(Reverse(SetToSortSeq(ids, <)), offset, limit)

QueryConfigFileReleaseHistories(db, namespace, group, fileName, offset, limit, endId) ==
  LET hs == db.config_file_release_history
      ids == {i \in DOMAIN hs :
                /\ namespace # "" => hs[i].key[1] = namespace
                /\ endId > 0 => endId > i
                /\ HasText(hs[i].key[2], group) /\ HasText(hs[i].key[3], fileName)}
  IN  [num |-> Cardinality(ids), out |-> doConfigFileHistoryPage(ids, offset, limit)]

GetLatestConfigFileReleaseHistory(db, key) ==
  LET hs == db.config_file_release_history
      ids == {i \in DOMAIN hs : hs[i].key = key}
  IN  IF ids = {} THEN NoRow ELSE hs[CHOOSE i \in ids : \A j \in ids : j <= i]

-----------------------------------------------------------------------------
\* ConfigFileTag

CreateConfigFileTag(db, file, key, value) ==
  Done([db EXCEPT !.config_file_tag = @ \cup {<<file, key, value>>}])

\* tags is a sequence of pairs <<key, value>>; of two pairs with the same key
\* the last one is searched for.
QueryConfigFileByTag(db, namespace, group, fileName, tags) ==
  LET tagSearchMap == FoldLeft(LAMBDA m, t : Put(m, t[1], t[2]), << >>, tags)
  IN  {t \in db.config_file_tag :
         /\ t[1][1] = namespace /\ HasText(t[1][2], group) /\ HasText(t[1][3], fileName)
         /\ t[2] \in DOMAIN tagSearchMap /\ tagSearchMap[t[2]] = t[3]}

QueryTagByConfigFile(db, file) == {t \in db.config_file_tag : t[1] = file}

DeleteConfigFileTag(db, file, key, value) ==
  Done([db EXCEPT !.config_file_tag = @ \ {<<file, key, value>>}])

DeleteTagByConfigFile(db, file) ==
  Done([db EXCEPT !.config_file_tag = {t \in @ : t[1] # file}])

-----------------------------------------------------------------------------
\* ConfigFileTemplate

GetConfigFileTemplate(db, name) == RowOf(db.config_file_template, name)

CreateConfigFileTemplate(db, t) ==
  Done([db EXCEPT !.config_file_template =
          Put(@, t.name, [content |-> t.content, format |-> t.format])])

QueryAllConfigFileTemplates(db) == DOMAIN db.config_file_template
=============================================================================
