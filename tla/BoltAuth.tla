------------------------------ MODULE BoltAuth ------------------------------
(***************************************************************************)
(* Users, user groups and strategies in the embedded store (store/boltdb). *)
(* A group holds its users, a strategy its principals (pairs <<id, role>>) *)
(* and its resources (pairs <<type, id>>).  A default strategy is saved    *)
(* without a modification time: dated is FALSE for it until a write gives  *)
(* it one, and no poll reports it before.  The fields that are only copied *)
(* are left out as in MySQLAuth.                                           *)
(***************************************************************************)
EXTENDS StoreTables

CONSTANTS Substr           \* the pairs <<t, v>> where text t occurs in value v

ErrorGroupNotFound == "group_not_found"
ErrorStrategyNotFound == "strategy_not_found"

EmptyAuth == [user |-> << >>, user_group |-> << >>, auth_strategy |-> << >>]

HasText(f, v) == f.text = "" \/ <<f.text, v>> \in Substr

DefaultStrategyID(role, id) == role \o "/" \o id
BuildDefaultStrategyName(role, name) == role \o ":" \o name

Listed(ids) == [num |-> Cardinality(ids), out |-> ids]

\* Every write but the creation of a default strategy sets the time.
Now(cols) == Over([fresh |-> TRUE, dated |-> TRUE], cols)

-----------------------------------------------------------------------------
\* strategies

convertForStrategyStore(s) ==
  [name |-> s.name, owner |-> s.owner, comment |-> s.comment, default |-> s.default,
   principals |-> s.principals, resources |-> {<<r[2], r[3]>> : r \in s.resources}]

convertForStrategyDetail(db, id) == Over([id |-> id], db.auth_strategy[id])

\* Nothing is looked up: a strategy of the same name may exist.  The id stands for
\* the new uuid: it is new whenever the id of the principal is.
createDefaultStrategy(db, role, id, name, owner) ==
  [db EXCEPT !.auth_strategy = Put(@, DefaultStrategyID(role, id),
     [name |-> BuildDefaultStrategyName(role, name), owner |-> owner,
      comment |-> "Default Strategy", default |-> TRUE, principals |-> {<<id, role>>},
      resources |-> {}, valid |-> TRUE, fresh |-> FALSE, dated |-> FALSE])]

\* The default strategy of the one principal, deleted ones included; other
\* strategies keep naming it.
cleanLinkStrategy(db, role, id, owner) ==
  LET Of(k) == {p \in db.auth_strategy[k].principals : p[2] = role}
      own == {k \in DOMAIN db.auth_strategy :
                db.auth_strategy[k].default /\ Of(k) = {<<id, role>>}}
  IN  IF Cardinality(own) > 1 THEN Fail(db, Multiple)
      ELSE Done([db EXCEPT !.auth_strategy = Assign(@, own, Now([valid |-> FALSE]))])

cleanInvalidStrategy(db, name, owner) ==
  [db EXCEPT !.auth_strategy =
     Without(@, {k \in DOMAIN @ : @[k].name = name /\ @[k].owner = owner /\ ~@[k].valid})]

initStrategy(row) == Over([valid |-> TRUE, fresh |-> TRUE, dated |-> TRUE], row)

addStrategy(db, s) ==
  LET cleaned == cleanInvalidStrategy(db, s.name, s.owner)
  IN  Done([cleaned EXCEPT
              !.auth_strategy = Put(@, s.id, initStrategy(convertForStrategyStore(s)))])

AddStrategy(db, s) ==
  IF s.id = "" \/ s.name = "" \/ s.owner = "" THEN Fail(db, EmptyParams) ELSE addStrategy(db, s)

loadStrategyById(db, id) ==
  IF id \in ValidKeys(db.auth_strategy) THEN convertForStrategyDetail(db, id) ELSE NoRow

computePrincipals(remove, ps, row) ==
  [row EXCEPT !.principals = IF remove THEN @ \ ps ELSE @ \cup ps]

computeResources(remove, rs, row) ==
  LET plain == {<<r[2], r[3]>> : r \in rs}
  IN  [row EXCEPT !.resources = IF remove THEN @ \ plain ELSE @ \cup plain]

updateStrategy(db, s) ==
  LET row == [db.auth_strategy[s.id] EXCEPT !.comment = s.comment]
      people == computePrincipals(TRUE, s.removePrincipals,
                                  computePrincipals(FALSE, s.addPrincipals, row))
      things == computeResources(TRUE, s.removeResources,
                                 computeResources(FALSE, s.addResources, people))
  IN  Done([db EXCEPT !.auth_strategy = Put(@, s.id, Now(things))])

UpdateStrategy(db, s) ==
  IF s.id = "" THEN Fail(db, EmptyParams)
  ELSE IF loadStrategyById(db, s.id) = NoRow THEN Fail(db, ErrorStrategyNotFound)
  ELSE updateStrategy(db, s)

\* The row keeps its principals and resources.
DeleteStrategy(db, id) ==
  IF id = "" THEN Fail(db, EmptyParams)
  ELSE Done([db EXCEPT !.auth_strategy = Assign(@, {id}, Now([valid |-> FALSE]))])

buildResMap(rs) == [id \in {r[1] : r \in rs} |-> {r \in rs : r[1] = id}]

\* One transaction: one missing strategy undoes the others.
operateStrategyResources(db, remove, rs) ==
  LET of == buildResMap(rs)
  IN  IF \E id \in DOMAIN of : loadStrategyById(db, id) = NoRow
      THEN Fail(db, ErrorStrategyNotFound)
      ELSE Done([db EXCEPT !.auth_strategy =
             [k \in DOMAIN @ |-> IF k \in DOMAIN of
                                 THEN Now(computeResources(remove, of[k], @[k])) ELSE @[k]]])

RemoveStrategyResources(db, rs) == operateStrategyResources(db, TRUE, rs)

LooseAddStrategyResources(db, rs) == operateStrategyResources(db, FALSE, rs)

GetStrategyDetail(db, id) == loadStrategyById(db, id)

\* Both "none" and "several" are errors.
GetDefaultStrategyDetailByPrincipal(db, id, role) ==
  LET found == {k \in ValidKeys(db.auth_strategy) :
                  db.auth_strategy[k].default /\ <<id, role>> \in db.auth_strategy[k].principals}
  IN  IF Cardinality(found) # 1 THEN NoRow
      ELSE convertForStrategyDetail(db, CHOOSE k \in found : TRUE)

compareResExist(row, filters) ==
  <<filters["res_type"].text, IF "res_id" \in DOMAIN filters THEN filters["res_id"].text ELSE "">>
    \in row.resources

\* A type that is neither user nor group lets everything pass.
comparePrincipalExist(row, filters) ==
  "principal_type" \in DOMAIN filters =>
    <<filters["principal_id"].text, filters["principal_type"].text>> \in row.principals

listStrategies(db, filters) ==
  Listed({k \in ValidKeys(db.auth_strategy) :
    LET row == db.auth_strategy[k] IN
      /\ "name" \in DOMAIN filters => HasText(filters["name"], row.name)
      /\ "owner" \in DOMAIN filters /\ "principal_id" \in DOMAIN filters
           => row.owner = filters["owner"].text \/ comparePrincipalExist(row, filters)
      /\ "default" \in DOMAIN filters
           => filters["default"].text = (IF row.default THEN "1" ELSE "0")
      /\ "res_type" \in DOMAIN filters => compareResExist(row, filters)
      /\ "principal_id" \in DOMAIN filters => comparePrincipalExist(row, filters)})

GetStrategies(db, filters) == listStrategies(db, filters)

GetStrategyDetailsForCache(db, firstUpdate) ==
  Rows(db.auth_strategy,
       {k \in DOMAIN db.auth_strategy :
          db.auth_strategy[k].dated /\ (firstUpdate \/ db.auth_strategy[k].fresh)})

collectStrategyResources(row) == row.resources

GetStrategyResources(db, id, role) ==
  UNION {collectStrategyResources(db.auth_strategy[k]) : k \in
           {s \in ValidKeys(db.auth_strategy) : <<id, role>> \in db.auth_strategy[s].principals}}

-----------------------------------------------------------------------------
\* users

initUser(row) == Over([valid |-> TRUE, fresh |-> TRUE], row)

converToUserStore(u) ==
  [name |-> u.name, owner |-> u.owner, type |-> u.type, token |-> u.token, enable |-> u.enable,
   comment |-> u.comment]

converToUserModel(db, id) == Over([id |-> id], db.user[id])

addUserMain(db, u) == [db EXCEPT !.user = Put(@, u.id, initUser(converToUserStore(u)))]

addUser(db, u) ==
  LET owner == IF u.owner = "" THEN u.id ELSE u.owner
  IN  Done(createDefaultStrategy(addUserMain(db, u), "user", u.id, u.name, owner))

\* A main account has no owner, and so none can be added here.
AddUser(db, u) ==
  IF u.id = "" \/ u.name = "" \/ u.owner = "" \/ u.token = "" THEN Fail(db, EmptyParams)
  ELSE addUser(db, u)

UpdateUser(db, u) ==
  IF u.id = "" \/ u.token = "" THEN Fail(db, EmptyParams)
  ELSE Done([db EXCEPT !.user = Assign(@, {u.id},
               Touched([token |-> u.token, comment |-> u.comment, enable |-> u.enable]))])

\* Groups keep the user.
deleteUser(db, u) ==
  LET r == cleanLinkStrategy([db EXCEPT !.user = Assign(@, {u.id}, Removed)],
                             "user", u.id, u.owner)
  IN  IF r.err # OK THEN Fail(db, r.err) ELSE r

DeleteUser(db, u) == IF u.id = "" THEN Fail(db, EmptyParams) ELSE deleteUser(db, u)

getUser(db, id) == IF id \in ValidKeys(db.user) THEN converToUserModel(db, id) ELSE NoRow

GetUser(db, id) == getUser(db, id)

\* Deleted rows are not told apart: with one beside a live one the lookup
\* finds several and fails.
GetUserByName(db, name, owner) ==
  LET found == {k \in DOMAIN db.user : db.user[k].name = name /\ db.user[k].owner = owner}
  IN  IF Cardinality(found) > 1 THEN [id |-> Multiple]
      ELSE IF found = {} THEN NoRow ELSE getUser(db, CHOOSE k \in found : TRUE)

GetUserByIds(db, ids) == ids \cap ValidKeys(db.user)

GetSubCount(db, id) == Cardinality({k \in ValidKeys(db.user) : db.user[k].owner = id})

NameFits(f, v) == IF f.wild THEN HasText(f, v) ELSE f.text = v

getUsers(db, filters) ==
  Listed({k \in ValidKeys(db.user) :
            /\ "hide_admin" \in DOMAIN filters => db.user[k].type # "admin"
            /\ "name" \in DOMAIN filters => NameFits(filters["name"], db.user[k].name)
            /\ "owner" \in DOMAIN filters => filters["owner"].text \in {k, db.user[k].owner}
            /\ "id" \in DOMAIN filters => k = filters["id"].text})

\* The group may be deleted; the total counts what the filters leave out.
getGroupUsers(db, filters) ==
  LET g == filters["group_id"].text
      loaded == IF g \in DOMAIN db.user_group THEN db.user_group[g].users \cap DOMAIN db.user ELSE {}
  IN  [num |-> Cardinality(loaded),
       out |-> {k \in loaded :
                  /\ db.user[k].valid /\ db.user[k].type # "admin"
                  /\ "name" \in DOMAIN filters => NameFits(filters["name"], db.user[k].name)
                  /\ "owner" \in DOMAIN filters => filters["owner"].text = db.user[k].owner}]

GetUsers(db, filters) ==
  IF "group_id" \in DOMAIN filters THEN getGroupUsers(db, filters) ELSE getUsers(db, filters)

GetUsersForCache(db, firstUpdate) ==
  Rows(db.user, IF firstUpdate THEN DOMAIN db.user ELSE FreshKeys(db.user))

-----------------------------------------------------------------------------
\* user groups

convertForGroupStore(g) ==
  [name |-> g.name, owner |-> g.owner, token |-> g.token, enable |-> g.enable,
   comment |-> g.comment, users |-> g.users]

convertForGroupDetail(db, id) == Over([id |-> id], db.user_group[id])

cleanInValidGroup(db, name, owner) ==
  [db EXCEPT !.user_group =
     Without(@, {k \in DOMAIN @ : @[k].name = name /\ @[k].owner = owner /\ ~@[k].valid})]

addGroup(db, g) ==
  LET row == Over([valid |-> TRUE, fresh |-> TRUE], convertForGroupStore(g))
  IN  Done(createDefaultStrategy([db EXCEPT !.user_group = Put(@, g.id, row)],
                                 "group", g.id, g.name, g.owner))

AddGroup(db, g) ==
  IF g.id = "" \/ g.name = "" \/ g.token = "" THEN Fail(db, EmptyParams)
  ELSE addGroup(cleanInValidGroup(db, g.name, g.owner), g)

updateGroupRelation(row, g) == [row EXCEPT !.users = (@ \cup g.addUsers) \ g.removeUsers]

\* Mutant: the members are not updated.
updateGroupOnly(db, g) ==
  IF g.id \notin DOMAIN db.user_group THEN Fail(db, ErrorGroupNotFound)
  ELSE Done([db EXCEPT !.user_group = Assign(@, {g.id},
               Touched([comment |-> g.comment, token |-> g.token, enable |-> g.enable]))])

updateGroup(db, g) ==
  IF g.id \notin DOMAIN db.user_group THEN Fail(db, ErrorGroupNotFound)
  ELSE Done([db EXCEPT !.user_group = Put(@, g.id,
               Over(Touched([comment |-> g.comment, token |-> g.token, enable |-> g.enable]),
                    updateGroupRelation(@[g.id], g)))])

UpdateGroup(db, g) == IF g.id = "" THEN Fail(db, EmptyParams) ELSE updateGroup(db, g)

deleteGroup(db, g) ==
  LET r == cleanLinkStrategy([db EXCEPT !.user_group = Assign(@, {g.id}, Removed)],
                             "group", g.id, g.owner)
  IN  IF r.err # OK THEN Fail(db, r.err) ELSE r

DeleteGroup(db, g) == IF g.id = "" THEN Fail(db, EmptyParams) ELSE deleteGroup(db, g)

GetGroup(db, id) ==
  IF id \in ValidKeys(db.user_group) THEN convertForGroupDetail(db, id) ELSE NoRow

GetGroupByName(db, name, owner) ==
  LET found == {k \in ValidKeys(db.user_group) :
                  db.user_group[k].name = name /\ db.user_group[k].owner = owner}
  IN  IF Cardinality(found) > 1 THEN [id |-> Multiple]
      ELSE IF found = {} THEN NoRow
      ELSE Rows(convertForGroupDetail(db, CHOOSE k \in found : TRUE),
                    {"id", "name", "owner", "token", "enable", "comment", "valid", "fresh"})

listSimpleGroups(db, filters) ==
  Listed({k \in ValidKeys(db.user_group) :
            /\ "id" \in DOMAIN filters => filters["id"].text = k
            /\ "name" \in DOMAIN filters => HasText(filters["name"], db.user_group[k].name)
            /\ "owner" \in DOMAIN filters => filters["owner"].text = db.user_group[k].owner})

\* The name is not among the fields loaded, so a filter on it sees "".
listGroupByUser(db, filters) ==
  Listed({k \in ValidKeys(db.user_group) :
            /\ "name" \in DOMAIN filters => HasText(filters["name"], "")
            /\ \/ filters["user_id"].text \in db.user_group[k].users
               \/ "owner" \in DOMAIN filters /\ db.user_group[k].owner = filters["owner"].text})

GetGroups(db, filters) ==
  IF "user_id" \in DOMAIN filters THEN listGroupByUser(db, filters)
  ELSE listSimpleGroups(db, filters)

GetGroupsForCache(db, firstUpdate) ==
  Rows(db.user_group, IF firstUpdate THEN DOMAIN db.user_group ELSE FreshKeys(db.user_group))
=============================================================================
