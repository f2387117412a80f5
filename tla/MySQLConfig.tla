---------------------------- MODULE MySQLConfig ----------------------------
(***************************************************************************)
(* The configuration centre in the relational store (store/mysql): files,  *)
(* groups, releases with their history, tags and templates.  A file, its   *)
(* release and its tags are keyed by <<namespace, group, name>>, a group   *)
(* by <<namespace, name>>.  The column id, which orders the pages, is      *)
(* drawn from file_id and group_id; a history record is numbered by its    *)
(* place.  An operator called inside a transaction gets its view.          *)
(***************************************************************************)
EXTENDS StoreTables, SequencesExt

CONSTANT Substr            \* the pairs <<t, v>> where text t occurs in value v

HasText(v, t) == t = "" \/ <<t, v>> \in Substr

EmptyConfig ==
  [config_file |-> << >>, config_file_group |-> << >>, config_file_release |-> << >>,
   config_file_release_history |-> << >>, config_file_tag |-> {},
   config_file_template |-> << >>, file_id |-> 0, group_id |-> 0]

\* order by id desc limit offset, limit
NewestFirst(t, ks, offset, limit) ==
  PageOf(SetToSortSeq(ks, LAMBDA a, b : t[a].id > t[b].id), offset, limit)

-----------------------------------------------------------------------------
\* config_file

hardDeleteConfigFile(db, key) ==
  [db EXCEPT !.config_file = Without(@, {k \in {key} \cap DOMAIN @ : ~@[k].valid})]

transferRows(t, k) == [key |-> k] @@ t[k]

GetConfigFile(db, key) ==
  IF key \in ValidKeys(db.config_file) THEN transferRows(db.config_file, key) ELSE NoRow

\* The old row is removed on a connection of its own, also inside a transaction.
CreateConfigFile(db, file) ==
  LET cleaned == hardDeleteConfigFile(db, file.key)
      row == [id |-> db.file_id + 1, content |-> file.content, format |-> file.format,
              createBy |-> file.createBy, modifyBy |-> file.modifyBy, valid |-> TRUE]
  IN  IF file.key \in DOMAIN cleaned.config_file THEN Fail(cleaned, Duplicate)
      ELSE Done([cleaned EXCEPT !.config_file = Put(@, file.key, row), !.file_id = @ + 1])

QueryConfigFilesByGroup(db, namespace, group, offset, limit) ==
  LET ks == {k \in ValidKeys(db.config_file) : k[1] = namespace /\ k[2] = group}
  IN  [num |-> Cardinality(ks), out |-> NewestFirst(db.config_file, ks, offset, limit)]

QueryConfigFiles(db, namespace, group, name, offset, limit) ==
  LET ks == {k \in ValidKeys(db.config_file) :
               /\ namespace # "" => k[1] = namespace
               /\ HasText(k[2], group) /\ HasText(k[3], name)}
  IN  [num |-> Cardinality(ks), out |-> NewestFirst(db.config_file, ks, offset, limit)]

UpdateConfigFile(db, file) ==
  Done([db EXCEPT !.config_file = Assign(@, {file.key},
          [content |-> file.content, format |-> file.format, modifyBy |-> file.modifyBy])])

DeleteConfigFile(db, key) ==
  Done([db EXCEPT !.config_file = Assign(@, {key}, [valid |-> FALSE])])

CountByConfigFileGroup(db, namespace, group) ==
  Cardinality({k \in ValidKeys(db.config_file) : k[1] = namespace /\ k[2] = group})

CountConfigFileEachGroup(db) ==
  LET groups == {<<k[1], k[2]>> : k \in ValidKeys(db.config_file)}
  IN  [g \in groups |-> CountByConfigFileGroup(db, g[1], g[2])]

-----------------------------------------------------------------------------
\* config_file_group: a deleted group has no row

GetConfigFileGroup(db, namespace, name) == RowOf(db.config_file_group, <<namespace, name>>)

CreateConfigFileGroup(db, group) ==
  LET row == [id |-> db.group_id + 1, comment |-> group.comment, createBy |-> group.createBy,
              modifyBy |-> group.modifyBy, owner |-> group.owner]
  IN  IF group.key \in DOMAIN db.config_file_group THEN Fail(db, Duplicate)
      ELSE Done([db EXCEPT !.config_file_group = Put(@, group.key, row), !.group_id = @ + 1])

QueryConfigFileGroups(db, namespace, name, offset, limit) ==
  LET ks == {k \in DOMAIN db.config_file_group :
               (namespace # "" => k[1] = namespace) /\ HasText(k[2], name)}
  IN  [num |-> Cardinality(ks), out |-> NewestFirst(db.config_file_group, ks, offset, limit)]

DeleteConfigFileGroup(db, namespace, name) ==
  Done([db EXCEPT !.config_file_group = Without(@, {<<namespace, name>>})])

UpdateConfigFileGroup(db, group) ==
  Done([db EXCEPT !.config_file_group = Assign(@, {group.key},
          [comment |-> group.comment, modifyBy |-> group.modifyBy])])

FindConfigFileGroups(db, namespace, names) ==
  {k \in DOMAIN db.config_file_group : (namespace # "" => k[1] = namespace) /\ k[2] \in names}

GetConfigFileGroupById(db, id) ==
  LET found == {k \in DOMAIN db.config_file_group : db.config_file_group[k].id = id}
  IN  IF found = {} THEN NoRow ELSE CHOOSE k \in found : TRUE

CountGroupEachNamespace(db) ==
  [n \in {k[1] : k \in DOMAIN db.config_file_group} |->
     Cardinality({k \in DOMAIN db.config_file_group : k[1] = n})]

-----------------------------------------------------------------------------
\* config_file_release: one row per file, which a deletion keeps

getConfigFileReleaseByFlag(db, key, withAllFlag) ==
  LET row == RowOf(db.config_file_release, key)
  IN  IF row # NoRow /\ (withAllFlag \/ row.valid) THEN [key |-> key] @@ row ELSE NoRow

GetConfigFileRelease(db, key) == getConfigFileReleaseByFlag(db, key, FALSE)

GetConfigFileReleaseWithAllFlag(db, key) == getConfigFileReleaseByFlag(db, key, TRUE)

CreateConfigFileRelease(db, r) ==
  LET row == [name |-> r.name, content |-> r.content, md5 |-> r.md5, version |-> r.version,
              createBy |-> r.createBy, modifyBy |-> r.modifyBy, valid |-> TRUE, fresh |-> TRUE]
  IN  IF r.key \in DOMAIN db.config_file_release THEN Fail(db, Duplicate)
      ELSE Done([db EXCEPT !.config_file_release = Put(@, r.key, row)])

\* flag = 0: an update brings a deleted release back.
UpdateConfigFileRelease(db, r) ==
  Done([db EXCEPT !.config_file_release = Assign(@, {r.key},
          Touched([name |-> r.name, content |-> r.content, md5 |-> r.md5,
                   version |-> r.version, modifyBy |-> r.modifyBy, valid |-> TRUE]))])

\* Mutant: the version does not move.
DeleteReleaseKeepsVersion(db, key, deleteBy) ==
  LET row == RowOf(db.config_file_release, key)
  IN  IF row = NoRow THEN Done(db)
      ELSE Done([db EXCEPT !.config_file_release = Assign(@, {key},
                   Removed @@ [modifyBy |-> deleteBy, md5 |-> ""])])

DeleteConfigFileRelease(db, key, deleteBy) ==
  LET row == RowOf(db.config_file_release, key)
  IN  IF row = NoRow THEN Done(db)
      ELSE Done([db EXCEPT !.config_file_release = Assign(@, {key},
                   Removed @@ [modifyBy |-> deleteBy, version |-> row.version + 1,
                               md5 |-> ""])])

FindConfigFileReleaseByModifyTimeAfter(db) ==
  Rows(db.config_file_release, FreshKeys(db.config_file_release))

CountConfigFileReleaseEachGroup(db) ==
  [g \in {<<k[1], k[2]>> : k \in ValidKeys(db.config_file_release)} |->
     Cardinality({k \in ValidKeys(db.config_file_release) : <<k[1], k[2]>> = g})]

-----------------------------------------------------------------------------
\* config_file_release_history

CreateConfigFileReleaseHistory(db, h) ==
  Done([db EXCEPT !.config_file_release_history = Append(@, h)])

\* endId = 0 asks for all; the newest come first.
QueryConfigFileReleaseHistories(db, namespace, group, fileName, offset, limit, endId) ==
  LET hs == db.config_file_release_history
      ids == {i \in DOMAIN hs :
                /\ namespace # "" => hs[i].key[1] = namespace
                /\ endId > 0 => i < endId
                /\ HasText(hs[i].key[2], group) /\ HasText(hs[i].key[3], fileName)}
  IN  [num |-> Cardinality(ids), out |-> PageOf(Reverse(SetToSortSeq(ids, <)), offset, limit)]

GetLatestConfigFileReleaseHistory(db, key) ==
  LET ids == {i \in DOMAIN db.config_file_release_history :
                db.config_file_release_history[i].key = key}
  IN  IF ids = {} THEN NoRow
      ELSE db.config_file_release_history[CHOOSE i \in ids : \A j \in ids : j <= i]

-----------------------------------------------------------------------------
\* config_file_tag: rows <<file, key, value>>, all different

CreateConfigFileTag(db, file, key, value) ==
  IF <<file, key, value>> \in db.config_file_tag THEN Fail(db, Duplicate)
  ELSE Done([db EXCEPT !.config_file_tag = @ \cup {<<file, key, value>>}])

\* The tags of the files of the namespace; tags is a sequence of pairs.
QueryConfigFileByTag(db, namespace, group, fileName, tags) ==
  {t \in db.config_file_tag :
     /\ t[1][1] = namespace /\ HasText(t[1][2], group) /\ HasText(t[1][3], fileName)
     /\ <<t[2], t[3]>> \in Range(tags)}

QueryTagByConfigFile(db, file) == {t \in db.config_file_tag : t[1] = file}

DeleteConfigFileTag(db, file, key, value) ==
  Done([db EXCEPT !.config_file_tag = @ \ {<<file, key, value>>}])

DeleteTagByConfigFile(db, file) ==
  Done([db EXCEPT !.config_file_tag = {t \in @ : t[1] # file}])

-----------------------------------------------------------------------------
\* config_file_template

GetConfigFileTemplate(db, name) == RowOf(db.config_file_template, name)

CreateConfigFileTemplate(db, t) ==
  IF t.name \in DOMAIN db.config_file_template THEN Fail(db, Duplicate)
  ELSE Done([db EXCEPT !.config_file_template =
               Put(@, t.name, [content |-> t.content, format |-> t.format])])

QueryAllConfigFileTemplates(db) == DOMAIN db.config_file_template
=============================================================================
