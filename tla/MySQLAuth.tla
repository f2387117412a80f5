----------------------------- MODULE MySQLAuth -----------------------------
(***************************************************************************)
(* Users, user groups and strategies in the relational store (store/mysql) *)
(* with their link tables: user_group_relation holds pairs <<group, user>>,*)
(* auth_principal triples <<strategy, principal, role>>, and               *)
(* auth_strategy_resource triples <<strategy, type, resource>>.  The id of *)
(* the default strategy a user or a group gets is a fresh one: here the    *)
(* pair of role and id, as a text.  Of a user's fields the ones that are   *)
(* only copied (password, mobile, email) are left out.  Lists are sets of  *)
(* ids: pages follow mtime, which is not modelled as a number.             *)
(***************************************************************************)
EXTENDS StoreTables

CONSTANTS Substr,          \* the pairs <<t, v>> where text t occurs in value v
          Prefix,          \* the pairs <<t, v>> where text t begins value v
          MaxBatchSize     \* utils.MaxBatchSize

InvalidUserIDSlice == "invalid_user_id_slice"
ArgumentCount == "sql_argument_count"

EmptyAuth ==
  [user |-> << >>, user_group |-> << >>, auth_strategy |-> << >>,
   user_group_relation |-> {}, auth_principal |-> {}, auth_strategy_resource |-> {}]

\* A filter is a record: its text, and whether it ended in '*'.
LikeName(f, v) == IF f.wild THEN f.text = "" \/ <<f.text, v>> \in Substr ELSE v = f.text

DefaultStrategyID(role, id) == role \o "/" \o id
BuildDefaultStrategyName(role, name) == role \o ":" \o name

\* A result set: how many rows there are, and the ids on them.
Listed(ids) == [num |-> Cardinality(ids), out |-> ids]

-----------------------------------------------------------------------------
\* user

fetchRown2User(db, id) == Over([id |-> id], db.user[id])

cleanInValidUser(db, name, owner) ==
  [db EXCEPT !.user =
     Without(@, {k \in DOMAIN @ : @[k].name = name /\ @[k].owner = owner /\ ~@[k].valid})]

SameNameAndOwner(t, name, owner) == {k \in DOMAIN t : t[k].name = name /\ t[k].owner = owner}

\* The default strategy of a new user or group: an expired one of the same
\* name makes way, a live one is in the way of the unique key.
createDefaultStrategy(db, role, id, name, owner0) ==
  LET owner == IF owner0 = "" THEN id ELSE owner0
      title == BuildDefaultStrategyName(role, name)
      old == SameNameAndOwner(db.auth_strategy, title, owner)
      kept == Without(db.auth_strategy,
                      {k \in old : ~db.auth_strategy[k].valid /\ db.auth_strategy[k].default})
      row == [name |-> title, owner |-> owner, comment |-> "Default Strategy", default |-> TRUE,
              valid |-> TRUE, fresh |-> TRUE]
      sid == DefaultStrategyID(role, id)
  IN  IF sid \in DOMAIN kept \/ SameNameAndOwner(kept, title, owner) # {} THEN Fail(db, Duplicate)
      ELSE Done([db EXCEPT !.auth_strategy = Put(kept, sid, row),
                           !.auth_principal = @ \cup {<<sid, id, role>>}])

addUser(db, u) ==
  LET row == [name |-> u.name, owner |-> u.owner, type |-> u.type, token |-> u.token,
              enable |-> TRUE, comment |-> u.comment, valid |-> TRUE, fresh |-> TRUE]
      r == createDefaultStrategy([db EXCEPT !.user = Put(@, u.id, row)],
                                 "user", u.id, u.name, u.owner)
  IN  IF u.id \in DOMAIN db.user \/ SameNameAndOwner(db.user, u.name, u.owner) # {} \/ r.err # OK
      THEN Fail(db, Duplicate) ELSE r

\* The rows of deleted users go on a connection of their own.
AddUser(db, u) ==
  IF u.id = "" \/ u.name = "" \/ u.token = "" THEN Fail(db, EmptyParams)
  ELSE addUser(cleanInValidUser(db, u.name, u.owner), u)

updateUser(db, u) ==
  Done([db EXCEPT !.user = Assign(@, {u.id} \cap ValidKeys(@),
          Touched([token |-> u.token, comment |-> u.comment, enable |-> u.enable]))])

UpdateUser(db, u) ==
  IF u.id = "" \/ u.name = "" \/ u.token = "" THEN Fail(db, EmptyParams) ELSE updateUser(db, u)

\* Mutant: the default strategy outlives its principal.
cleanLinksOnly(db, role, id, owner) ==
  LET linked == {p[1] : p \in {q \in db.auth_principal : q[2] = id /\ q[3] = role}}
  IN  [db EXCEPT
         !.auth_strategy = Assign(@, linked, [fresh |-> TRUE]),
         !.auth_principal = {p \in @ : ~(p[2] = id /\ p[3] = role)}]

\* What a principal leaves behind: its default strategies (those of the
\* owner named) with their resources, the mtime of every strategy it is
\* linked to, and the links themselves.
cleanLinkStrategy(db, role, id, owner) ==
  LET linked == {p[1] : p \in {q \in db.auth_principal : q[2] = id /\ q[3] = role}}
      own == {k \in linked \cap DOMAIN db.auth_strategy :
                db.auth_strategy[k].default /\ db.auth_strategy[k].owner = owner}
  IN  [db EXCEPT
         !.auth_strategy_resource = {r \in @ : r[1] \notin own},
         !.auth_strategy = Assign(Assign(@, own, [valid |-> FALSE]), linked, [fresh |-> TRUE]),
         !.auth_principal = {p \in @ : ~(p[2] = id /\ p[3] = role)}]

\* Mutant: the groups of the user are not touched.
deleteUserQuietly(db, u) ==
  LET cleaned == cleanLinkStrategy(db, "user", u.id, u.owner)
  IN  Done([cleaned EXCEPT
              !.user = Assign(@, {u.id}, Removed),
              !.user_group_relation = {l \in @ : l[2] # u.id}])

deleteUser(db, u) ==
  LET groups == {l[1] : l \in {m \in db.user_group_relation : m[2] = u.id}}
      cleaned == cleanLinkStrategy(db, "user", u.id, u.owner)
  IN  Done([cleaned EXCEPT
              !.user = Assign(@, {u.id}, Removed),
              !.user_group = Assign(@, groups, [fresh |-> TRUE]),
              !.user_group_relation = {l \in @ : l[2] # u.id}])

DeleteUser(db, u) ==
  IF u.id = "" \/ u.name = "" THEN Fail(db, EmptyParams) ELSE deleteUser(db, u)

GetSubCount(db, id) == Cardinality({k \in ValidKeys(db.user) : db.user[k].owner = id})

GetUser(db, id) == IF id \in ValidKeys(db.user) THEN fetchRown2User(db, id) ELSE NoRow

\* The unique key leaves at most one row.
GetUserByName(db, name, owner) ==
  LET found == SameNameAndOwner(db.user, name, owner) \cap ValidKeys(db.user)
  IN  IF found = {} THEN NoRow ELSE fetchRown2User(db, CHOOSE k \in found : TRUE)

GetUserByIds(db, ids) == ids \cap ValidKeys(db.user)

listUsers(db, filters) ==
  Listed({k \in ValidKeys(db.user) :
            /\ "hide_admin" \in DOMAIN filters => db.user[k].type # "admin"
            /\ "name" \in DOMAIN filters => LikeName(filters["name"], db.user[k].name)
            /\ "owner" \in DOMAIN filters => filters["owner"].text \in {k, db.user[k].owner}
            /\ "id" \in DOMAIN filters => k = filters["id"].text})

\* A left join: a relation whose user is gone still counts, with columns null.
listGroupUsers(db, filters) ==
  LET Members == {l \in db.user_group_relation : l[1] = filters["group_id"].text}
      Live(l) == l[2] \in ValidKeys(db.user)
      Fits(f, v) == IF f.wild THEN f.text = "" \/ <<f.text, v>> \in Prefix ELSE v = f.text
  IN  Listed({l[2] : l \in {m \in Members :
        /\ "hide_admin" \in DOMAIN filters => Live(m) /\ db.user[m[2]].type # "admin"
        /\ "name" \in DOMAIN filters => Live(m) /\ Fits(filters["name"], db.user[m[2]].name)
        /\ "owner" \in DOMAIN filters => Live(m) /\ Fits(filters["owner"], db.user[m[2]].owner)}})

GetUsers(db, filters) ==
  IF "group_id" \in DOMAIN filters THEN listGroupUsers(db, filters) ELSE listUsers(db, filters)

GetUsersForCache(db, firstUpdate) ==
  Rows(db.user, IF firstUpdate THEN DOMAIN db.user ELSE FreshKeys(db.user))

-----------------------------------------------------------------------------
\* user_group

getGroupLinkUserIds(db, id) ==
  {l[2] : l \in {m \in db.user_group_relation : m[1] = id /\ m[2] \in DOMAIN db.user}}

fetchRown2UserGroup(db, id) == Over([id |-> id], db.user_group[id])

\* The owner is not looked at.
cleanInValidGroup(db, name, owner) ==
  [db EXCEPT !.user_group = Without(@, {k \in DOMAIN @ : @[k].name = name /\ ~@[k].valid})]

\* A user who is a member already is passed over.
addGroupRelation(db, id, users) ==
  IF Cardinality(users) > MaxBatchSize THEN Fail(db, InvalidUserIDSlice)
  ELSE Done([db EXCEPT !.user_group_relation = @ \cup ({id} \X users)])

removeGroupRelation(db, id, users) ==
  IF Cardinality(users) > MaxBatchSize THEN Fail(db, InvalidUserIDSlice)
  ELSE Done([db EXCEPT !.user_group_relation = @ \ ({id} \X users)])

\* One transaction: what fails leaves nothing.
addGroup(db, g) ==
  LET cleaned == cleanInValidGroup(db, g.name, g.owner)
      row == [name |-> g.name, owner |-> g.owner, token |-> g.token, enable |-> TRUE,
              comment |-> g.comment, valid |-> TRUE, fresh |-> TRUE]
      linked == addGroupRelation([cleaned EXCEPT !.user_group = Put(@, g.id, row)], g.id, g.users)
      r == createDefaultStrategy(linked.db, "group", g.id, g.name, g.owner)
  IN  IF \/ g.id \in DOMAIN cleaned.user_group
         \/ SameNameAndOwner(cleaned.user_group, g.name, g.owner) # {}
      THEN Fail(db, Duplicate)
      ELSE IF linked.err # OK THEN Fail(db, linked.err)
      ELSE IF r.err # OK THEN Fail(db, r.err) ELSE r

AddGroup(db, g) ==
  IF g.id = "" \/ g.name = "" \/ g.token = "" THEN Fail(db, EmptyParams) ELSE addGroup(db, g)

updateGroup(db, g) ==
  LET added == addGroupRelation(db, g.id, g.addUsers)
      left == removeGroupRelation(added.db, g.id, g.removeUsers)
  IN  IF added.err # OK \/ left.err # OK THEN Fail(db, InvalidUserIDSlice)
      ELSE Done([left.db EXCEPT !.user_group = Assign(@, {g.id} \cap ValidKeys(@),
                   Touched([token |-> g.token, comment |-> g.comment, enable |-> g.enable]))])

UpdateGroup(db, g) == IF g.id = "" THEN Fail(db, EmptyParams) ELSE updateGroup(db, g)

deleteUserGroup(db, g) ==
  Done(cleanLinkStrategy(
    [db EXCEPT !.user_group_relation = {l \in @ : l[1] # g.id},
               !.user_group = Assign(@, {g.id}, Removed)], "group", g.id, g.owner))

DeleteGroup(db, g) ==
  IF g.id = "" \/ g.name = "" THEN Fail(db, EmptyParams) ELSE deleteUserGroup(db, g)

GetGroup(db, id) ==
  IF id \in ValidKeys(db.user_group)
  THEN Over([users |-> getGroupLinkUserIds(db, id)], fetchRown2UserGroup(db, id)) ELSE NoRow

GetGroupByName(db, name, owner) ==
  LET found == SameNameAndOwner(db.user_group, name, owner) \cap ValidKeys(db.user_group)
  IN  IF found = {} THEN NoRow ELSE fetchRown2UserGroup(db, CHOOSE k \in found : TRUE)

\* Only the filters id and name are kept.
listSimpleGroups(db, filters) ==
  Listed({k \in ValidKeys(db.user_group) :
            /\ "id" \in DOMAIN filters => LikeName(filters["id"], k)
            /\ "name" \in DOMAIN filters => LikeName(filters["name"], db.user_group[k].name)})

listGroupByUser(db, filters) ==
  Listed({l[1] : l \in {m \in db.user_group_relation :
    /\ m[1] \in ValidKeys(db.user_group)
    /\ LikeName(filters["user_id"], m[2])
    /\ "group_name" \in DOMAIN filters
         => LikeName(filters["group_name"], db.user_group[m[1]].name)
    /\ "owner" \in DOMAIN filters
         => filters["owner"].text \in {db.user_group[m[1]].owner, m[2]}}})

GetGroups(db, filters) ==
  IF "user_id" \in DOMAIN filters THEN listGroupByUser(db, filters)
  ELSE listSimpleGroups(db, filters)

GetGroupsForCache(db, firstUpdate) ==
  LET ks == IF firstUpdate THEN DOMAIN db.user_group ELSE FreshKeys(db.user_group)
  IN  [k \in ks |-> Over([users |-> getGroupLinkUserIds(db, k)], db.user_group[k])]

-----------------------------------------------------------------------------
\* auth_strategy

cleanInvalidStrategy(db, name, owner) ==
  [db EXCEPT !.auth_strategy =
     Without(@, {k \in DOMAIN @ : @[k].name = name /\ @[k].owner = owner /\ ~@[k].valid})]

addStrategyPrincipals(db, id, ps) ==
  [db EXCEPT !.auth_principal = @ \cup {<<id, p[1], p[2]>> : p \in ps}]

deleteStrategyPrincipals(db, id, ps) ==
  [db EXCEPT !.auth_principal = @ \ {<<id, p[1], p[2]>> : p \in ps}]

\* A resource names its strategy itself.
addStrategyResources(db, rs) == [db EXCEPT !.auth_strategy_resource = @ \cup rs]

deleteStrategyResources(db, rs) == [db EXCEPT !.auth_strategy_resource = @ \ rs]

addStrategy(db, s) ==
  LET row == [name |-> s.name, owner |-> s.owner, comment |-> s.comment, default |-> s.default,
              valid |-> TRUE, fresh |-> TRUE]
      linked == addStrategyResources(addStrategyPrincipals(db, s.id, s.principals), s.resources)
  IN  IF s.id \in DOMAIN db.auth_strategy \/ SameNameAndOwner(db.auth_strategy, s.name, s.owner) # {}
      THEN Fail(db, Duplicate)
      ELSE Done([linked EXCEPT !.auth_strategy = Put(@, s.id, row)])

\* The rows of deleted strategies go in a transaction of their own.
AddStrategy(db, s) ==
  IF s.id = "" \/ s.name = "" \/ s.owner = "" THEN Fail(db, EmptyParams)
  ELSE addStrategy(cleanInvalidStrategy(db, s.name, s.owner), s)

updateStrategy(db, s) ==
  LET people == deleteStrategyPrincipals(addStrategyPrincipals(db, s.id, s.addPrincipals),
                                         s.id, s.removePrincipals)
      things == deleteStrategyResources(addStrategyResources(people, s.addResources),
                                        s.removeResources)
  IN  Done([things EXCEPT !.auth_strategy = Assign(@, {s.id}, Touched([comment |-> s.comment]))])

UpdateStrategy(db, s) == IF s.id = "" THEN Fail(db, EmptyParams) ELSE updateStrategy(db, s)

deleteStrategy(db, id) ==
  Done([db EXCEPT !.auth_strategy = Assign(@, {id}, Removed),
                  !.auth_strategy_resource = {r \in @ : r[1] # id},
                  !.auth_principal = {p \in @ : p[1] # id}])

DeleteStrategy(db, id) == IF id = "" THEN Fail(db, EmptyParams) ELSE deleteStrategy(db, id)

LooseAddStrategyResources(db, rs) ==
  Done([db EXCEPT !.auth_strategy_resource = @ \cup rs,
                  !.auth_strategy = Assign(@, {r[1] : r \in rs}, [fresh |-> TRUE])])

\* A resource without a strategy id appends its arguments a second time: the
\* statement has two places for five arguments and is refused.
RemoveStrategyResources(db, rs) ==
  IF \E r \in rs : r[1] = "" THEN Fail(db, ArgumentCount)
  ELSE Done([db EXCEPT !.auth_strategy_resource = @ \ rs,
                       !.auth_strategy = Assign(@, {r[1] : r \in rs}, [fresh |-> TRUE])])

getStrategyPrincipals(db, id) ==
  {<<p[2], p[3]>> : p \in {q \in db.auth_principal : q[1] = id}}

getStrategyResources(db, id) ==
  {<<r[2], r[3]>> : r \in {q \in db.auth_strategy_resource : q[1] = id}}

fetchRown2StrategyDetail(db, id) ==
  Over([id |-> id, principals |-> getStrategyPrincipals(db, id),
        resources |-> getStrategyResources(db, id)], db.auth_strategy[id])

GetStrategyDetail(db, id) ==
  IF id \in ValidKeys(db.auth_strategy) THEN fetchRown2StrategyDetail(db, id) ELSE NoRow

GetDefaultStrategyDetailByPrincipal(db, id, role) ==
  LET found == {k \in ValidKeys(db.auth_strategy) :
                  db.auth_strategy[k].default /\ <<k, id, role>> \in db.auth_principal}
  IN  IF found = {} THEN NoRow ELSE fetchRown2StrategyDetail(db, CHOOSE k \in found : TRUE)

\* One row of the join (a strategy, a resource or none, a principal or none)
\* has to satisfy every filter.
queryStrategies(db, filters) ==
  LET res(k) == IF getStrategyResources(db, k) = {} THEN {<<"", "">>} ELSE getStrategyResources(db, k)
      who(k) == IF getStrategyPrincipals(db, k) = {} THEN {<<"", "">>}
                ELSE getStrategyPrincipals(db, k)
      Has(f, v) == f \in DOMAIN filters => filters[f].text = v
      Name(v) == "name" \in DOMAIN filters =>
                   filters["name"].text = "" \/ <<filters["name"].text, v>> \in Substr
      Owner(v, p) == "owner" \in DOMAIN filters =>
                       filters["owner"].text = v \/ p = <<filters["owner"].text, "user">>
  IN  Listed({k \in ValidKeys(db.auth_strategy) :
        \E r \in res(k), p \in who(k) :
          /\ Has("res_type", r[1]) /\ Has("res_id", r[2])
          /\ Has("principal_id", p[1]) /\ Has("principal_type", p[2])
          /\ Has("default", IF db.auth_strategy[k].default THEN "1" ELSE "0")
          /\ Name(db.auth_strategy[k].name) /\ Owner(db.auth_strategy[k].owner, p)})

GetStrategies(db, filters) == queryStrategies(db, filters)

GetStrategyDetailsForCache(db, firstUpdate) ==
  LET ks == IF firstUpdate THEN DOMAIN db.auth_strategy ELSE FreshKeys(db.auth_strategy)
  IN  [k \in ks |-> Over([principals |-> getStrategyPrincipals(db, k),
                          resources |-> getStrategyResources(db, k)], db.auth_strategy[k])]

GetStrategyResources(db, id, role) ==
  LET ss == {k \in ValidKeys(db.auth_strategy) : <<k, id, role>> \in db.auth_principal}
  IN  UNION {getStrategyResources(db, k) : k \in ss}
=============================================================================
