---------------------------- MODULE AuthHandlers ----------------------------
(***************************************************************************)
(* The management of users, groups and strategies (auth/defaultauth:       *)
(* user.go, group.go, strategy.go, server.go).  The handlers run after the *)
(* credential of the caller was verified; who the caller is comes in ctx:  *)
(*   user, owner   the id of the caller and of its main account            *)
(*   role          "admin", "main" or "sub"                                *)
(*   isOwner       whether it is not a sub account                         *)
(* How credentials are verified and what the strategies permit is not      *)
(* modelled.  Resources are pairs <<type, id>>, principals <<id, role>>.   *)
(* Passwords, mobiles and addresses are only copied and are left out; a    *)
(* token is the text tok plus the UUID it was drawn with.                  *)
(***************************************************************************)
EXTENDS ServerCommon

Cached == INSTANCE AuthCaches
Naming == INSTANCE NamingCaches

NotFoundUser == "NotFoundUser"
NotFoundUserGroup == "NotFoundUserGroup"
NotFoundAuthStrategyRule == "NotFoundAuthStrategyRule"
NotAllowedAccess == "NotAllowedAccess"

\* The reply of a handler that dereferences nil.
Panics == "panic"

Exactly(text) == [text |-> text, wild |-> FALSE]

createUserToken(uuid) == "tok" \o uuid

checkName(name) == name \notin {NoRow, "", "polariadmin"} \cup IllegalNames \cup LongValues

checkPassword(password) == password \notin {NoRow, ""} \cup LongValues

checkOwner(owner) == owner \notin {NoRow, ""} \cup LongValues

-----------------------------------------------------------------------------
\* auth/defaultauth/user.go

checkUserViewPermission(ctx, user) ==
  ctx.role = "admin" \/ user.id = ctx.user \/ user.owner = ctx.user

convertCreateUserRole(role) == IF role = "admin" THEN "main" ELSE "sub"

createUserModel(req, ctx) ==
  LET type == convertCreateUserRole(ctx.role)
  IN  [id |-> IF req.id # "" THEN req.id ELSE req.uuid, name |-> req.name, type |-> type,
       owner |-> IF type = "sub" THEN ctx.owner ELSE "", token |-> createUserToken(req.uuid),
       enable |-> TRUE, comment |-> req.comment]

checkCreateUser(req, ctx) ==
  FirstFailure(<< <<checkName(req.name), "InvalidUserName">>,
                  <<checkPassword(req.password), "InvalidUserPassword">>,
                  <<checkOwner(ctx.owner), "InvalidUserOwners">> >>)

CreateUser(srv, ctx, req) ==
  LET check == checkCreateUser(req, ctx)
      ownerID == IF convertCreateUserRole(ctx.role) = "sub" THEN ctx.owner ELSE ""
      owner == storage!GetUser(srv.db, ownerID)
      same == storage!GetUserByName(srv.db, req.name, ownerID)
  IN  IF check # Success THEN Reply(srv.db, check)
      ELSE IF ownerID # "" /\ owner = NoRow THEN Reply(srv.db, Panics)
      ELSE IF ownerID # "" /\ owner.name = req.name THEN Reply(srv.db, "UserExisted")
      ELSE IF Failed(same) THEN Reply(srv.db, StoreLayerException)
      ELSE IF same # NoRow THEN Reply(srv.db, "UserExisted")
      ELSE storeError2Response(storage!AddUser(srv.db, createUserModel(req, ctx)))

\* The user of the id, or the code that ends the handler: nil is missing, and
\* only the user itself, its owner and admins may go on.
TheUser(srv, ctx, id, missing) ==
  LET user == storage!GetUser(srv.db, id)
  IN  [user |-> user,
       code |-> IF user = NoRow THEN missing
                ELSE IF checkUserViewPermission(ctx, user) THEN Success ELSE NotAllowedAccess]

\* The attributes count as changed whatever they are.
updateUserAttribute(user, req) ==
  IF req.comment = NoRow THEN user ELSE [user EXCEPT !.comment = req.comment]

UpdateUser(srv, ctx, req) ==
  LET found == TheUser(srv, ctx, req.id, NotFoundUser)
  IN  CASE req.password # NoRow /\ ~checkPassword(req.password) -> Reply(srv.db, "InvalidUserPassword")
        [] req.id = "" -> Reply(srv.db, "BadRequest")
        [] OTHER ->
             IF found.code # Success THEN Reply(srv.db, found.code)
             ELSE storeError2Response(storage!UpdateUser(srv.db, updateUserAttribute(found.user, req)))

\* matches: the old password given is the stored one.
UpdateUserPassword(srv, ctx, req) ==
  LET found == TheUser(srv, ctx, req.id, NotFoundUser)
      ignoreOrigin == ctx.role \in {"admin", "main"}
  IN  IF found.code # Success THEN Reply(srv.db, found.code)
      ELSE IF ~checkPassword(req.password) \/ (~ignoreOrigin /\ ~req.matches)
      THEN Reply(srv.db, "ExecuteException")
      ELSE storeError2Response(storage!UpdateUser(srv.db, found.user))

DeleteUser(srv, ctx, req) ==
  LET found == TheUser(srv, ctx, req.id, Success)
  IN  IF found.user = NoRow \/ found.code # Success THEN Reply(srv.db, found.code)
      ELSE IF found.user.id = ctx.owner THEN Reply(srv.db, NotAllowedAccess)
      ELSE IF found.user.type = "main" /\ storage!GetSubCount(srv.db, req.id) # 0
      THEN Reply(srv.db, "SubAccountExisted")
      ELSE storeError2Response(storage!DeleteUser(srv.db, found.user))

UpdateUserToken(srv, ctx, req) ==
  LET found == TheUser(srv, ctx, req.id, NotFoundUser)
  IN  IF found.code # Success THEN Reply(srv.db, found.code)
      ELSE IF ctx.role # "admin" /\ found.user.type # "sub" THEN Reply(srv.db, NotAllowedAccess)
      ELSE storeError2Response(
             storage!UpdateUser(srv.db, [found.user EXCEPT !.enable = req.enable]))

ResetUserToken(srv, ctx, req) ==
  LET found == TheUser(srv, ctx, req.id, NotFoundUser)
  IN  IF found.code # Success THEN Reply(srv.db, found.code)
      ELSE storeError2Response(
             storage!UpdateUser(srv.db, [found.user EXCEPT !.token = createUserToken(req.uuid)]))

UserFilterAttributes ==
  {"id", "name", "owner", "source", "offset", "group_id", "limit", "hide_admin"}

GetUsers(srv, ctx, query) ==
  LET hidden == ("hide_admin" :> Exactly("true")) @@ query
      filters == IF ctx.role = "admin" THEN hidden ELSE ("owner" :> Exactly(ctx.owner)) @@ hidden
  IN  IF ~(DOMAIN query \subseteq UserFilterAttributes) THEN [code |-> "InvalidParameter"]
      ELSE [code |-> Success, list |-> storage!GetUsers(srv.db, filters)]

\* By id, or by name and the name of the owner; from the cache.
GetUserToken(srv, ctx, req) ==
  LET c == srv.cache.user
      owner == Cached!GetUserByID(c, ctx.owner)
      user == IF req.id # "" THEN Cached!GetUserByID(c, req.id)
              ELSE IF owner = NoRow THEN NoRow ELSE Cached!GetUserByName(c, req.name, owner.name)
  IN  IF req.id = "" /\ req.name = "" THEN [code |-> "InvalidParameter"]
      ELSE IF user = NoRow THEN [code |-> NotFoundUser]
      ELSE IF ~checkUserViewPermission(ctx, user) THEN [code |-> NotAllowedAccess]
      ELSE [code |-> Success, token |-> user.token, enable |-> user.enable]

-----------------------------------------------------------------------------
\* auth/defaultauth/group.go

checkCreateGroup(srv, req) ==
  IF \A u \in req.users : Cached!GetUserByID(srv.cache.user, u) # NoRow THEN Success
  ELSE NotFoundUser

createGroupModel(req, ctx) ==
  [id |-> req.uuid, name |-> req.name, owner |-> ctx.owner, token |-> createUserToken(req.uuid),
   enable |-> TRUE, comment |-> req.comment, users |-> req.users]

CreateGroup(srv, ctx, req) ==
  LET check == checkCreateGroup(srv, req)
      same == storage!GetGroupByName(srv.db, req.name, ctx.owner)
  IN  IF check # Success THEN Reply(srv.db, check)
      ELSE IF Failed(same) THEN Reply(srv.db, StoreLayerException)
      ELSE IF same # NoRow THEN Reply(srv.db, "UserGroupExisted")
      ELSE storeError2Response(storage!AddGroup(srv.db, createGroupModel(req, ctx)))

preCheckGroupRelation(srv, groupID, users) ==
  IF Cached!GetGroup(srv.cache.user, groupID) = NoRow THEN NotFoundUserGroup
  ELSE IF \A u \in users : Cached!GetUserByID(srv.cache.user, u) # NoRow THEN Success
  ELSE NotFoundUser

\* The group and the users are those of the cache.
checkUpdateGroup(srv, ctx, req) ==
  LET found == preCheckGroupRelation(srv, req.id, req.addUsers)
      group == Cached!GetGroup(srv.cache.user, req.id)
      inGroup == ctx.user \in group.users
  IN  IF req.id = "" THEN "InvalidUserGroupID"
      ELSE IF found # Success THEN found
      ELSE IF /\ ctx.role # "admin"
              /\ \/ ~inGroup /\ group.owner # ctx.user
                 \/ inGroup /\ ~ctx.isOwner /\ req.removeUsers # {}
      THEN NotAllowedAccess ELSE Success

getGroupFromDB(srv, id) == storage!GetGroup(srv.db, id)

\* The comment is the owner's to change.
updateGroupAttribute(ctx, old, req) ==
  LET rename == ctx.isOwner /\ req.comment \notin {NoRow, "", old.comment}
  IN  [need |-> rename \/ req.addUsers # {} \/ req.removeUsers # {},
       data |-> [id |-> old.id, token |-> old.token, enable |-> old.enable,
                 comment |-> IF rename THEN req.comment ELSE old.comment,
                 addUsers |-> req.addUsers, removeUsers |-> req.removeUsers]]

UpdateGroup(srv, ctx, req) ==
  LET check == checkUpdateGroup(srv, ctx, req)
      group == getGroupFromDB(srv, req.id)
      change == updateGroupAttribute(ctx, group, req)
  IN  IF check # Success THEN Reply(srv.db, check)
      ELSE IF group = NoRow THEN Reply(srv.db, NotFoundUserGroup)
      ELSE IF ~change.need THEN Reply(srv.db, NoNeedUpdate)
      ELSE storeError2Response(storage!UpdateGroup(srv.db, change.data))

DeleteGroup(srv, ctx, req) ==
  LET group == storage!GetGroup(srv.db, req.id)
  IN  IF group = NoRow THEN Reply(srv.db, Success)
      ELSE IF ctx.role # "admin" /\ group.owner # ctx.user THEN Reply(srv.db, NotAllowedAccess)
      ELSE storeError2Response(storage!DeleteGroup(srv.db, group))

\* A change of the group alone.
OnlyGroup(group) ==
  [id |-> group.id, token |-> group.token, enable |-> group.enable, comment |-> group.comment,
   addUsers |-> {}, removeUsers |-> {}]

UpdateGroupToken(srv, ctx, req) ==
  LET group == getGroupFromDB(srv, req.id)
  IN  IF group = NoRow THEN Reply(srv.db, NotFoundUserGroup)
      ELSE IF ctx.role # "admin" /\ group.owner # ctx.user THEN Reply(srv.db, NotAllowedAccess)
      ELSE storeError2Response(
             storage!UpdateGroup(srv.db, [OnlyGroup(group) EXCEPT !.enable = req.enable]))

ResetGroupToken(srv, ctx, req) ==
  LET group == getGroupFromDB(srv, req.id)
  IN  IF group = NoRow THEN Reply(srv.db, NotFoundUserGroup)
      ELSE IF ~ctx.isOwner \/ group.owner # ctx.user THEN Reply(srv.db, NotAllowedAccess)
      ELSE storeError2Response(storage!UpdateGroup(srv.db,
             [OnlyGroup(group) EXCEPT !.token = createUserToken(req.uuid)]))

UserLinkGroupAttributes == {"id", "user_id", "user_name", "group_id", "name", "offset", "limit"}

parseGroupSearchArgs(ctx, query) ==
  LET owned == ("owner" :> Exactly(ctx.owner)) @@ query
  IN  IF ctx.role = "admin" THEN query
      ELSE IF ctx.isOwner THEN owned ELSE ("user_id" :> Exactly(ctx.user)) @@ owned

\* How many users each listed group has, by the cache.
fillGroupUserCount(srv, groups) ==
  [g \in groups |-> IF Cached!GetGroup(srv.cache.user, g) = NoRow THEN 0
                    ELSE Cardinality(Cached!GetGroup(srv.cache.user, g).users)]

GetGroups(srv, ctx, query) ==
  LET list == storage!GetGroups(srv.db, parseGroupSearchArgs(ctx, query))
  IN  IF ~(DOMAIN query \subseteq UserLinkGroupAttributes) THEN [code |-> "InvalidParameter"]
      ELSE [code |-> Success, num |-> list.num, count |-> fillGroupUserCount(srv, list.out)]

\* The users of the group are read from the cache without a check.
userGroupDetail2Api(srv, group) ==
  IF \E u \in group.users : Cached!GetUserByID(srv.cache.user, u) = NoRow THEN [code |-> Panics]
  ELSE [code |-> Success, name |-> group.name, users |-> group.users]

GetGroup(srv, ctx, req) ==
  LET group == getGroupFromDB(srv, req.id)
  IN  IF req.id = "" THEN [code |-> "InvalidUserGroupID"]
      ELSE IF group = NoRow THEN [code |-> NotFoundUserGroup]
      ELSE IF ctx.role # "admin" /\ group.owner # ctx.user /\ ctx.user \notin group.users
      THEN [code |-> NotAllowedAccess]
      ELSE userGroupDetail2Api(srv, group)

GetGroupToken(srv, ctx, req) ==
  LET group == Cached!GetGroup(srv.cache.user, req.id)
  IN  IF req.id = "" THEN [code |-> "InvalidUserGroupID"]
      ELSE IF group = NoRow THEN [code |-> NotFoundUserGroup]
      ELSE IF ctx.role # "admin" /\ group.owner # ctx.user /\ ctx.user \notin group.users
      THEN [code |-> NotAllowedAccess]
      ELSE [code |-> Success, token |-> group.token, enable |-> group.enable]

-----------------------------------------------------------------------------
\* auth/defaultauth/strategy.go

ResTypes == {"namespace", "service", "config_group"}

IdsOf(resources, type) == {r[2] : r \in {q \in resources : q[1] = type}}

\* What is added is reduced to "*" when "*" is among it.
collectResEntry(ruleId, type, resources, delete) ==
  LET ids == IdsOf(resources, type)
  IN  {<<ruleId, type, id>> : id \in IF ~delete /\ "*" \in ids THEN {"*"} ELSE ids}

ResEntries(ruleId, resources, delete) ==
  UNION {collectResEntry(ruleId, type, resources, delete) : type \in ResTypes}

checkUserExist(srv, principals) ==
  \A p \in principals : p[2] = "user" => Cached!GetUserByID(srv.cache.user, p[1]) # NoRow

checkGroupExist(srv, principals) ==
  \A p \in principals : p[2] = "group" => Cached!GetGroup(srv.cache.user, p[1]) # NoRow

\* A "*" ends the check of its type; it comes first in its list.
checkResourceExist(srv, resources) ==
  LET spaces == IdsOf(resources, "namespace")
      services == IdsOf(resources, "service")
  IN  FirstFailure(
        << <<"*" \in spaces \/ spaces \subseteq DOMAIN srv.cache.namespace, "NotFoundNamespace">>,
           <<"*" \in services
               \/ \A s \in services : Naming!GetServiceByID(srv.cache.service, s) # NoRow,
             "NotFoundService">> >>)

checkCreateStrategy(srv, ctx, req) ==
  FirstFailure(<< <<checkName(req.name), "InvalidUserName">>,
                  <<checkOwner(ctx.owner), "InvalidAuthStrategyOwners">>,
                  <<checkUserExist(srv, req.principals), NotFoundUser>>,
                  <<checkGroupExist(srv, req.principals), NotFoundUserGroup>>,
                  <<checkResourceExist(srv, req.resources) = Success,
                    checkResourceExist(srv, req.resources)>> >>)

createAuthStrategyModel(req, ctx) ==
  [id |-> req.uuid, name |-> req.name, owner |-> ctx.owner, comment |-> req.comment,
   default |-> FALSE, principals |-> req.principals,
   resources |-> ResEntries(req.uuid, req.resources, FALSE)]

\* Whether a strategy of the name exists is left to the store.
CreateStrategy(srv, ctx, req) ==
  LET check == checkCreateStrategy(srv, ctx, req)
  IN  IF check # Success THEN Reply(srv.db, check)
      ELSE storeError2Response(storage!AddStrategy(srv.db, createAuthStrategyModel(req, ctx)))

\* The principals of a default strategy are fixed, and that of the caller's
\* main account is fixed altogether.
checkUpdateStrategy(srv, ctx, req, saved) ==
  FirstFailure(
    << <<ctx.role = "admin" \/ (ctx.isOwner /\ ctx.user = saved.owner), NotAllowedAccess>>,
       <<saved.default => req.addPrincipals \cup req.removePrincipals = {},
         "NotAllowModifyDefaultStrategyPrincipal">>,
       <<~(saved.default /\ saved.principals = {<<ctx.owner, "user">>}),
         "NotAllowModifyOwnerDefaultStrategy">>,
       <<checkUserExist(srv, req.addPrincipals), NotFoundUser>>,
       <<checkGroupExist(srv, req.addPrincipals), NotFoundUserGroup>>,
       <<checkResourceExist(srv, req.addResources) = Success,
         checkResourceExist(srv, req.addResources)>> >>)

\* A new name counts as a change; no store writes it.
updateAuthStrategyAttribute(ctx, req, saved) ==
  LET comment == ctx.isOwner /\ req.comment \notin {NoRow, saved.comment}
      name == ctx.isOwner /\ req.name \notin {NoRow, "", saved.name}
      added == ResEntries(saved.id, req.addResources, FALSE)
      removed == ResEntries(saved.id, req.removeResources, TRUE)
  IN  [need |-> \/ comment \/ name \/ added \cup removed # {}
                \/ req.addPrincipals \cup req.removePrincipals # {},
       data |-> [id |-> saved.id, comment |-> IF comment THEN req.comment ELSE saved.comment,
                 addPrincipals |-> req.addPrincipals, removePrincipals |-> req.removePrincipals,
                 addResources |-> added, removeResources |-> removed]]

UpdateStrategy(srv, ctx, req) ==
  LET saved == storage!GetStrategyDetail(srv.db, req.id)
      check == checkUpdateStrategy(srv, ctx, req, saved)
      change == updateAuthStrategyAttribute(ctx, req, saved)
  IN  IF saved = NoRow THEN Reply(srv.db, NotFoundAuthStrategyRule)
      ELSE IF check # Success THEN Reply(srv.db, check)
      ELSE IF ~change.need THEN Reply(srv.db, NoNeedUpdate)
      ELSE storeError2Response(storage!UpdateStrategy(srv.db, change.data))

DeleteStrategy(srv, ctx, req) ==
  LET saved == storage!GetStrategyDetail(srv.db, req.id)
  IN  IF saved = NoRow THEN Reply(srv.db, Success)
      ELSE IF saved.default THEN Reply(srv.db, "BadRequest")
      ELSE IF saved.owner # ctx.user THEN Reply(srv.db, NotAllowedAccess)
      ELSE storeError2Response(storage!DeleteStrategy(srv.db, req.id))

StrategyFilterAttributes ==
  {"id", "name", "owner", "offset", "limit", "principal_id", "principal_type", "res_id",
   "res_type", "default", "show_detail"}

\* Without a resource to look from, a caller sees the strategies of its main
\* account, and a sub account only those that name it.
parseStrategySearchArgs(ctx, query) ==
  LET owned == ("owner" :> Exactly(ctx.owner)) @@ query
      own == ("principal_id" :> Exactly(ctx.user)) @@ ("principal_type" :> Exactly("user")) @@ owned
  IN  IF ctx.role = "admin" \/ "res_id" \in DOMAIN query THEN query
      ELSE IF "principal_id" \in DOMAIN query \/ ctx.isOwner THEN owned ELSE own

GetStrategies(srv, ctx, query) ==
  IF ~(DOMAIN query \subseteq StrategyFilterAttributes) THEN [code |-> "InvalidParameter"]
  ELSE [code |-> Success, list |-> storage!GetStrategies(srv.db, parseStrategySearchArgs(ctx, query))]

\* The principals and the resources the caches know.
fillPrincipalInfo(srv, principals) ==
  {p \in principals : IF p[2] = "user" THEN Cached!GetUserByID(srv.cache.user, p[1]) # NoRow
                      ELSE Cached!GetGroup(srv.cache.user, p[1]) # NoRow}

fillResourceInfo(srv, resources) ==
  LET Known(r) ==
        \/ r[2] = "*"
        \/ <<r[1], "*">> \notin resources /\
             CASE r[1] = "namespace" -> r[2] \in DOMAIN srv.cache.namespace
               [] r[1] = "service" -> Naming!GetServiceByID(srv.cache.service, r[2]) # NoRow
               [] r[1] = "config_group" -> storage!GetConfigFileGroupById(srv.db, r[2]) # NoRow
  IN  {r \in resources : Known(r)}

GetStrategy(srv, ctx, req) ==
  LET saved == storage!GetStrategyDetail(srv.db, req.id)
      canView ==
        \/ ctx.isOwner /\ (saved.owner = ctx.user \/ ctx.role = "admin")
        \/ \E p \in saved.principals :
             \/ p = <<ctx.user, "user">>
             \/ p[2] = "group" /\ Cached!IsUserInGroup(srv.cache.user, ctx.user, p[1])
  IN  IF req.id = "" THEN [code |-> "EmptyQueryParameter"]
      ELSE IF saved = NoRow THEN [code |-> NotFoundAuthStrategyRule]
      ELSE IF ~canView THEN [code |-> NotAllowedAccess]
      ELSE [code |-> Success, name |-> saved.name, comment |-> saved.comment,
            principals |-> fillPrincipalInfo(srv, saved.principals),
            resources |-> fillResourceInfo(srv, saved.resources)]

\* The resources of the strategies of a user and of the groups the cache
\* links the user to.
GetPrincipalResources(srv, id, role) ==
  LET groups == IF role = "user" THEN Cached!GetUserLinkGroupIds(srv.cache.user, id) ELSE {}
  IN  IF id = "" THEN [code |-> "EmptyQueryParameter"]
      ELSE [code |-> Success,
            resources |-> fillResourceInfo(srv, storage!GetStrategyResources(srv.db, id, role)
                            \cup UNION {storage!GetStrategyResources(srv.db, g, "group") : g \in groups})]

-----------------------------------------------------------------------------
\* auth/defaultauth/server.go: after a resource was created, changed or deleted
\* by an operator.  op has the operation, the operator (its id and whether it
\* is a user), the resources, and the principals to link and to unlink.

handlerModifyDefaultStrategy(db, id, role, op, cleanRealtion) ==
  LET strategy == storage!GetDefaultStrategyDetailByPrincipal(db, id, role)
      strategyId == IF op.operation = "delete" THEN "" ELSE strategy.id
      entries == {<<strategyId, r[1], r[2]>> : r \in op.resources}
  IN  IF strategy = NoRow THEN Fail(db, "not found default strategy rule")
      ELSE IF op.operation = "delete" \/ cleanRealtion
      THEN storage!RemoveStrategyResources(db, entries)
      ELSE storage!LooseAddStrategyResources(db, entries)

\* The principals in turn, up to the first that fails; what was done before it
\* stays done.
handlePrincipals(srv, result, principals, op, isRemove) ==
  LET known(p) == IF p[2] = "user" THEN Cached!GetUserByID(srv.cache.user, p[1]) # NoRow
                  ELSE Cached!GetGroup(srv.cache.user, p[1]) # NoRow
      step(acc, p) ==
        IF acc.err # OK THEN acc
        ELSE IF ~known(p) THEN Fail(acc.db, "not found target")
        ELSE handlerModifyDefaultStrategy(acc.db, p[1], p[2], op, isRemove)
  IN  FoldLeft(step, result, SetToSeq(principals))

\* Users before groups, links before unlinks; the operator of a creation is
\* linked too.
AfterResourceOperation(srv, op) ==
  LET Of(ps, role) == {p \in ps : p[2] = role}
      add == op.add \cup IF op.operation = "create" THEN {op.operator} ELSE {}
      r1 == handlePrincipals(srv, Done(srv.db), Of(add, "user"), op, FALSE)
      r2 == handlePrincipals(srv, r1, Of(add, "group"), op, FALSE)
      r3 == handlePrincipals(srv, r2, Of(op.remove, "user"), op, TRUE)
  IN  IF op.operation = "read" \/ op.operator = <<"", "user">> THEN Done(srv.db)
      ELSE handlePrincipals(srv, r3, Of(op.remove, "group"), op, TRUE)
=============================================================================
