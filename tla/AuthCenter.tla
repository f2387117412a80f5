----------------------------- MODULE AuthCenter -----------------------------
(***************************************************************************)
(* Users, groups and strategies over both stores.  Every request is given  *)
(* to two servers, one on store/mysql and one on store/boltdb, and runs to *)
(* its end before the next one; in between the caches poll their stores,   *)
(* the same cache of both servers at a time.  The callers are the main     *)
(* account and its sub accounts.                                           *)
(*                                                                         *)
(*   theme    what the behaviour is about: users, groups, strategies or    *)
(*            resources; it settles which objects exist at the start       *)
(*   dbs      the database of each engine                                  *)
(*   caches   the caches of each server                                    *)
(*   answer   the code each server gave to the last request                *)
(*   writes   the requests so far, at most MaxWrites[theme]                *)
(***************************************************************************)
EXTENDS AuthHandlers

CONSTANTS Themes, MaxWrites, AutoCreate

Namespace == INSTANCE NamespaceHandlers

VARIABLES theme, dbs, caches, answer, writes

vars == <<theme, dbs, caches, answer, writes>>

Engines == {"mysql", "boltdb"}

Srv(e) == [db |-> dbs[e], cache |-> caches[e]]

Main == [user |-> "main", owner |-> "main", role |-> "main", isOwner |-> TRUE]
Sub(id) == [user |-> id, owner |-> "main", role |-> "sub", isOwner |-> FALSE]

UserRequest(id, name, uuid) ==
  [id |-> id, name |-> name, password |-> "secret", comment |-> "", uuid |-> uuid]

GroupRequest(name, users, uuid) ==
  [name |-> name, users |-> users, comment |-> "", uuid |-> uuid]

StrategyRequest(name, principals, resources, uuid) ==
  [name |-> name, comment |-> "", principals |-> principals, resources |-> resources,
   uuid |-> uuid]

\* The main account and its default strategy come with the database
\* (scripts/polaris_server.sql, store/boltdb/default.go).
WithMainAccount(db) ==
  LET main == [id |-> "main", name |-> "main", owner |-> "", type |-> "main",
               token |-> "tokmain", enable |-> TRUE, comment |-> ""]
      added == IF storage!MySQL(db) THEN storage!MyA!addUser(db, main).db
               ELSE storage!BoltA!addUser(db, main).db
  IN  storage!LooseAddStrategyResources(
        added, {<<"user/main", type, "*">> : type \in ResTypes}).db

EmptyCaches ==
  [user |-> Cached!EmptyUsers, strategy |-> Cached!EmptyStrategies, namespace |-> << >>,
   service |-> Naming!EmptyServices]

\* A poll of one cache: what it read, the cache after it, and the database
\* with the rows it read marked as read.  Groups and users are polled together.
PolledBy(srv, c, first, order) ==
  LET db == srv.db
      users == storage!GetUsersForCache(db, first)
      groups == storage!GetGroupsForCache(db, first)
      strategies == storage!GetStrategyDetailsForCache(db, first)
      spaces == storage!GetMoreNamespaces(db)
  IN  CASE c = "user" ->
             [db |-> [db EXCEPT !.user = Polled(@, DOMAIN users),
                                !.user_group = Polled(@, DOMAIN groups)],
              cache |-> [srv.cache EXCEPT !.user = Cached!setUserAndGroups(@, users, order, groups)]]
        [] c = "strategy" ->
             [db |-> [db EXCEPT !.auth_strategy = Polled(@, DOMAIN strategies)],
              cache |-> [srv.cache EXCEPT !.strategy = Cached!setStrategys(@, strategies)]]
        [] c = "namespace" ->
             [db |-> [db EXCEPT !.namespace = Polled(@, DOMAIN spaces)],
              cache |-> [srv.cache EXCEPT !.namespace = Naming!setNamespaces(@, spaces)]]

CacheNames == {"user", "strategy", "namespace"}

Loaded(srv) ==
  LET step(acc, c) ==
        PolledBy(acc, c, TRUE, SetToSeq(DOMAIN storage!GetUsersForCache(acc.db, TRUE)))
  IN  FoldLeft(step, srv, SetToSeq(CacheNames))

\* The users a and b and a group of a, where the theme needs them.
AtStart ==
  CASE theme = "user" -> << >>
    [] theme = "group" -> <<"a", "b">>
    [] theme \in {"strategy", "resource"} -> <<"a", "b", "g">>

Started(e) ==
  LET add(srv, id) ==
        Loaded([srv EXCEPT !.db =
          IF id = "g" THEN CreateGroup(srv, Main, GroupRequest(id, {"a"}, id)).db
          ELSE CreateUser(srv, Main, UserRequest(id, id, id)).db])
      empty == [db |-> WithMainAccount(storage!Initialize(e)), cache |-> EmptyCaches]
  IN  FoldLeft(add, Loaded(empty), AtStart)

Init ==
  /\ theme \in Themes
  /\ dbs = [e \in Engines |-> Started(e).db]
  /\ caches = [e \in Engines |-> Started(e).cache]
  /\ answer = [e \in Engines |-> Success]
  /\ writes = 0

\* The request runs on both servers.
Request(reply) ==
  /\ writes < MaxWrites[theme]
  /\ writes' = writes + 1
  /\ dbs' = [e \in Engines |-> reply[e].db]
  /\ answer' = [e \in Engines |-> reply[e].code]
  /\ UNCHANGED <<theme, caches>>

\* No two requests draw the same identifier.
Uuid == "u" \o ToString(writes)

UserIds == DOMAIN dbs["mysql"].user \cup DOMAIN dbs["boltdb"].user
GroupIds == DOMAIN dbs["mysql"].user_group \cup DOMAIN dbs["boltdb"].user_group
StrategyIds == DOMAIN dbs["mysql"].auth_strategy \cup DOMAIN dbs["boltdb"].auth_strategy

\* How many accounts have had the name.
Accounts(name) ==
  Cardinality({k \in DOMAIN dbs["boltdb"].user : dbs["boltdb"].user[k].name = name})

-----------------------------------------------------------------------------
\* Requests

\* store/boltdb keeps the rows of deleted accounts and cannot tell two of one
\* name apart: no name is given a third time here.
CreateUserStep ==
  /\ theme = "user"
  /\ \E name \in {"a", "main", ""} :
       /\ Accounts(name) < 2
       /\ Request([e \in Engines |-> CreateUser(Srv(e), Main, UserRequest("", name, Uuid))])

UserStep ==
  /\ theme = "user"
  /\ \E id \in UserIds :
       \/ \E ctx \in {Main, Sub(id), Sub("other")} :
            LET req == [id |-> id, password |-> NoRow, comment |-> "new"]
            IN  Request([e \in Engines |-> UpdateUser(Srv(e), ctx, req)])
       \/ \E matches \in BOOLEAN :
            LET req == [id |-> id, password |-> "secret", matches |-> matches]
            IN  Request([e \in Engines |-> UpdateUserPassword(Srv(e), Sub(id), req)])
       \/ LET req == [id |-> id, enable |-> FALSE, uuid |-> Uuid]
          IN  \/ Request([e \in Engines |-> UpdateUserToken(Srv(e), Main, req)])
              \/ Request([e \in Engines |-> ResetUserToken(Srv(e), Main, req)])

DeleteUserStep ==
  \E id \in UserIds : Request([e \in Engines |-> DeleteUser(Srv(e), Main, [id |-> id])])

\* The accounts whose tokens the servers take.
Known == {u \in UserIds : \A e \in Engines : u \in ValidKeys(dbs[e].user)}

GroupStep ==
  /\ theme = "group"
  /\ \/ \E users \in {{}, {"a"}, {"a", "b"}} :
          LET req == GroupRequest("g", users, Uuid)
          IN  Request([e \in Engines |-> CreateGroup(Srv(e), Main, req)])
     \/ \E id \in GroupIds, ctx \in {Main} \cup {Sub(u) : u \in {"a"} \cap Known},
           add, remove \in {{}, {"a"}, {"b"}} :
          LET req == [id |-> id, comment |-> "new", addUsers |-> add, removeUsers |-> remove]
          IN  Request([e \in Engines |-> UpdateGroup(Srv(e), ctx, req)])
     \/ \E id \in GroupIds :
          LET req == [id |-> id, enable |-> FALSE, uuid |-> Uuid]
          IN  \/ Request([e \in Engines |-> UpdateGroupToken(Srv(e), Main, req)])
              \/ Request([e \in Engines |-> ResetGroupToken(Srv(e), Main, req)])

DeleteGroupStep ==
  /\ theme # "user"
  /\ \E id \in GroupIds : Request([e \in Engines |-> DeleteGroup(Srv(e), Main, [id |-> id])])

AllSpaces == {<<"namespace", "*">>}
OneSpace == {<<"namespace", "n1">>}

NameTaken(name) ==
  \E k \in ValidKeys(dbs["boltdb"].auth_strategy) : dbs["boltdb"].auth_strategy[k].name = name

\* store/boltdb takes a second strategy of one name, the unique key of
\* store/mysql does not: no name is asked for while a strategy has it.
StrategyStep ==
  /\ theme = "strategy"
  /\ \/ \E principals \in {{<<"a", "user">>}, {<<"b", "user">>, <<"g", "group">>}},
           resources \in {{}, AllSpaces, OneSpace} :
          LET req == StrategyRequest("s", principals, resources, Uuid)
          IN  ~NameTaken("s") /\ Request([e \in Engines |-> CreateStrategy(Srv(e), Main, req)])
     \/ \E id \in StrategyIds, add, remove \in {{}, {<<"a", "user">>}, {<<"g", "group">>}} :
          LET req == [id |-> id, name |-> NoRow, comment |-> "new", addPrincipals |-> add,
                      removePrincipals |-> remove, addResources |-> AllSpaces,
                      removeResources |-> {}]
          IN  Request([e \in Engines |-> UpdateStrategy(Srv(e), Main, req)])
     \/ \E id \in StrategyIds : Request([e \in Engines |-> DeleteStrategy(Srv(e), Main, [id |-> id])])

\* A namespace written by a member of the main account: the hook after it
\* links it to the default strategies (namespace/resource_listener.go).
onNamespaceResource(srv, reply, name, operation, operator, add, remove) ==
  LET op == [operation |-> operation, operator |-> operator, add |-> add, remove |-> remove,
             resources |-> {<<"namespace", name>>}]
      after == AfterResourceOperation([srv EXCEPT !.db = reply.db], op)
  IN  IF reply.code # Success THEN reply
      ELSE Reply(after.db, IF operation = "modify" /\ after.err # OK THEN "ExecuteException"
                           ELSE Success)

ResourceStep ==
  /\ theme = "resource"
  /\ \E operator \in {<<"a", "user">>, <<"g", "group">>}, add, remove \in {{}, {<<"b", "user">>}} :
       LET req == [name |-> "n1", comment |-> "new", owner |-> NoRow, uuid |-> Uuid]
       IN  \/ Request([e \in Engines |->
                onNamespaceResource(Srv(e), Namespace!CreateNamespace(Srv(e), req), "n1",
                                    "create", operator, add, {})])
           \/ Request([e \in Engines |->
                onNamespaceResource(Srv(e), Namespace!UpdateNamespace(Srv(e), req), "n1",
                                    "modify", operator, add, remove)])
           \/ Request([e \in Engines |->
                onNamespaceResource(Srv(e), Namespace!DeleteNamespace(Srv(e), req), "n1",
                                    "delete", operator, {}, {})])

\* One cache of both servers polls; the rows of users come in any order.
Poll ==
  \E c \in CacheNames :
    LET fresh(e) == DOMAIN storage!GetUsersForCache(dbs[e], FALSE)
    IN  \E order \in IF c = "user" THEN SetToSeqs(fresh("boltdb")) ELSE {<< >>} :
          LET after(e) == PolledBy(Srv(e), c, FALSE,
                            IF e = "boltdb" THEN order ELSE SetToSeq(fresh("mysql")))
          IN  /\ dbs' = [e \in Engines |-> after(e).db]
              /\ caches' = [e \in Engines |-> after(e).cache]
              /\ UNCHANGED <<theme, answer, writes>>

Next ==
  \/ CreateUserStep \/ UserStep \/ DeleteUserStep
  \/ GroupStep \/ DeleteGroupStep
  \/ StrategyStep \/ ResourceStep \/ Poll

Spec == Init /\ [][Next]_vars

-----------------------------------------------------------------------------
\* Properties

LiveUsers(e) == ValidKeys(dbs[e].user)
LiveGroups(e) == ValidKeys(dbs[e].user_group)
LiveStrategies(e) == ValidKeys(dbs[e].auth_strategy)

LivePrincipals(e) == (LiveUsers(e) \X {"user"}) \cup (LiveGroups(e) \X {"group"})

Strategy(e, id) == storage!GetStrategyDetail(dbs[e], id)

UserQueries(e) ==
  {<< >>, "name" :> Exactly("a"), "name" :> [text |-> "a", wild |-> TRUE], "id" :> Exactly("u0"),
   "color" :> Exactly("red")}
    \cup {"group_id" :> Exactly(g) : g \in LiveGroups(e)}

GroupQueries == {<< >>, "name" :> Exactly("g"), "id" :> Exactly("g")}

StrategyQueries(e) ==
  {<< >>, "default" :> Exactly("1"), "name" :> Exactly("s"),
   ("res_type" :> Exactly("namespace")) @@ ("res_id" :> Exactly("n1"))}
    \cup {("principal_id" :> Exactly(p[1])) @@ ("principal_type" :> Exactly(p[2]))
            : p \in LivePrincipals(e)}

\* The resources both servers have in their caches.
KnownResources ==
  ResTypes \X ({"*"} \cup {n \in DOMAIN caches["mysql"].namespace \cap DOMAIN caches["boltdb"].namespace :
                            \A e \in Engines : n \in ValidKeys(dbs[e].namespace)})

\* The principals in no deleted group: the caches never unlink those, and
\* store/boltdb keeps their strategies.
Linkless(e) ==
  {p \in LivePrincipals(e) :
     \A f \in Engines : Cached!GetUserLinkGroupIds(caches[f].user, p[1]) \subseteq LiveGroups(f)}

\* What the main account is shown: the lists, every live object by its id, and
\* the resources and tokens of the live principals.  Of the members of a group,
\* and the principals and resources of a strategy, the live ones count.
View(e) ==
  LET srv == Srv(e)
      users(q) == LET r == GetUsers(srv, Main, q)
                  IN  IF r.code = Success THEN r.list.out ELSE r.code
      strategy(id) ==
        LET r == GetStrategy(srv, Main, [id |-> id])
        IN  IF r.code # Success THEN <<r.code>>
            ELSE <<r.name, r.comment, r.principals \cap LivePrincipals(e),
                   r.resources \cap KnownResources>>
      member(g) == LET r == GetGroup(srv, Main, [id |-> g])
                   IN  IF r.code \in {Success, Panics}
                       THEN storage!GetGroup(dbs[e], g).users \cap LiveUsers(e) ELSE r.code
  IN  [users |-> [q \in UserQueries(e) |-> users(q)],
       found |-> storage!GetUserByIds(dbs[e], {"a", "b", "u0"}),
       groups |-> [q \in GroupQueries |-> DOMAIN GetGroups(srv, Main, q).count],
       strategies |-> [q \in StrategyQueries(e) |-> GetStrategies(srv, Main, q).list.out],
       members |-> [g \in LiveGroups(e) |-> member(g)],
       each |-> [id \in LiveStrategies(e) |-> strategy(id)],
       tokens |-> [u \in LiveUsers(e) |-> GetUserToken(srv, Main, [id |-> u, name |-> ""])],
       groupTokens |-> [g \in LiveGroups(e) |-> GetGroupToken(srv, Main, [id |-> g])],
       resources |-> [p \in Linkless(e) |->
                       GetPrincipalResources(srv, p[1], p[2]).resources \cap KnownResources]]

\* What a live sub account is shown, which its cached groups settle too.
SubView(e) ==
  [u \in LiveUsers(e) \ {"main"} |->
     <<GetStrategies(Srv(e), Sub(u), << >>).list.out,
       [id \in LiveStrategies(e) |-> GetStrategy(Srv(e), Sub(u), [id |-> id]).code]>>]

UsersPolled(e) == FreshKeys(dbs[e].user) \cup FreshKeys(dbs[e].user_group) = {}

\* The two stores are interchangeable: they answer every sequence of requests
\* with the same codes, and show the callers the same users, groups, strategies
\* and resources (auth/defaultauth on store/mysql and on store/boltdb).
Interchangeable ==
  /\ answer["mysql"] = answer["boltdb"]
  /\ View("mysql") = View("boltdb")
  /\ UsersPolled("mysql") /\ UsersPolled("boltdb") => SubView("mysql") = SubView("boltdb")

\* Every live user and group has exactly one live default strategy, which names
\* it and nothing else, and every live default strategy has its principal:
\* through deletions, names used again and updates that try to change the
\* principals (createDefaultStrategy, cleanLinkStrategy, checkUpdateStrategy).
OneDefault ==
  \A e \in Engines :
    OneEach(LivePrincipals(e),
            [k \in {j \in LiveStrategies(e) : dbs[e].auth_strategy[j].default} |-> Strategy(e, k).principals])

\* The indexes of the caches are the links of what they hold: a strategy is
\* found from exactly its principals and resources, a group from its users
\* (handlerPrincipalStrategy, handlerResourceStrategy, handlerGroupCacheUpdate).
\* The links to deleted groups stay.
LinksMatch ==
  \A e \in Engines :
    LET s == caches[e].strategy
        u == caches[e].user
        keys(id) == Cached!PrincipalKeys(s.strategys[id]) \cup Cached!ResourceKeys(s.strategys[id])
        naming(p) == {id \in DOMAIN s.strategys : p \in s.strategys[id].principals}
    IN  /\ \A id \in UserIds : Cached!GetStrategyDetailsByUID(s, id) = naming(<<id, "user">>)
        /\ \A id \in GroupIds : Cached!GetStrategyDetailsByGroupID(s, id) = naming(<<id, "group">>)
        /\ \A r \in AllSpaces \cup OneSpace :
             Cached!IsResourceLinkStrategy(s, r[1], r[2])
               = \E id \in DOMAIN s.strategys : r \in s.strategys[id].resources
        /\ \A key \in DOMAIN s.links : s.links[key] # {}
        /\ \A id \in DOMAIN s.strategys : \A key \in keys(id) : id \in Cached!LinksOf(s.links, key)
        /\ \A key \in DOMAIN s.links : \A id \in s.links[key] :
             id \in DOMAIN s.strategys /\ key \in keys(id)
        /\ \A g \in DOMAIN u.groups : \A m \in u.groups[g].users :
             g \in Cached!GetUserLinkGroupIds(u, m)
        /\ \A m \in DOMAIN u.links : \A g \in u.links[m] \cap DOMAIN u.groups :
             m \in u.groups[g].users

\* The mirror holds every live row of the table that the store reports, as it
\* is, and besides them only rows that are no longer in the table.
Mirrors(mirror, table, reported(_), stored(_)) ==
  /\ \A k \in ValidKeys(table) : reported(k) => k \in DOMAIN mirror /\ mirror[k] = stored(k)
  /\ \A k \in DOMAIN mirror : k \in DOMAIN table => table[k].valid

\* Once a cache has polled, it knows every live user, group and strategy as it
\* is stored, with its members, principals and resources, and no deleted one
\* the store still has: every write that changes them, directly or through a
\* link table, touches the row the poll looks at (cache/user.go, strategy.go).
\* store/boltdb does not report a default strategy until it is changed.
AuthDelivered ==
  \A e \in Engines :
    LET db == dbs[e]
        c == caches[e]
        all(k) == TRUE
        dated(k) == e = "mysql" \/ db.auth_strategy[k].dated
        user(k) == storage!GetUser(db, k)
        group(k) == storage!GetGroupsForCache(db, TRUE)[k]
        strategy(k) == storage!GetStrategyDetailsForCache(db, TRUE)[k]
    IN  /\ UsersPolled(e) =>
             /\ Mirrors([k \in DOMAIN c.user.users |-> [c.user.users[k] EXCEPT !.fresh = FALSE]],
                        db.user, all, user)
             /\ Mirrors([k \in DOMAIN c.user.groups |-> [c.user.groups[k] EXCEPT !.fresh = FALSE]],
                        db.user_group, all, group)
        /\ FreshKeys(db.auth_strategy) = {} =>
             Mirrors([k \in DOMAIN c.strategy.strategys |->
                        [c.strategy.strategys[k] EXCEPT !.fresh = FALSE]],
                     db.auth_strategy, dated, strategy)
=============================================================================
