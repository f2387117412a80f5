----------------------------- MODULE AuthCaches -----------------------------
(***************************************************************************)
(* The caches of users, groups and strategies (cache/user.go, strategy.go, *)
(* strategy_bucket.go).  The cache of users has                            *)
(*   users    user id -> user                                              *)
(*   names    <<name of the owner, name>> -> user                          *)
(*   groups   group id -> group with its users                             *)
(*   links    user id -> ids of groups (the map user2Groups)               *)
(* and the cache of strategies                                             *)
(*   strategys  id -> strategy with its principals and resources           *)
(*   links      <<kind, id>> -> ids of strategies: the five link buckets,  *)
(*              of kind user, group, namespace, service and config_group.  *)
(* Which principal may do what is not modelled here.                       *)
(***************************************************************************)
EXTENDS StoreTables, SequencesExt

-----------------------------------------------------------------------------
\* cache/user.go

EmptyUsers == [users |-> << >>, names |-> << >>, groups |-> << >>, links |-> << >>]

GetUserByID(c, id) == IF id = "" THEN NoRow ELSE RowOf(c.users, id)

GetUserByName(c, name, ownerName) == RowOf(c.names, <<ownerName, name>>)

GetGroup(c, id) == IF id = "" THEN NoRow ELSE RowOf(c.groups, id)

IsUserInGroup(c, userId, groupId) ==
  GetGroup(c, groupId) # NoRow /\ userId \in GetGroup(c, groupId).users

GetUserLinkGroupIds(c, userId) == IF userId \in DOMAIN c.links THEN c.links[userId] ELSE {}

\* An account that is not a sub account is its own owner; the owner of a sub
\* account is looked up in the cache, and its name is read without a check.
ownerSupplier(c, user) == IF user.type = "sub" THEN c.users[user.owner] ELSE user

\* One pass over the polled users, in the order they came, for one type.
handlerUserCacheUpdate(c, polled, order, type) ==
  LET step(acc, id) ==
        LET user == [id |-> id] @@ polled[id]
            key == <<ownerSupplier(acc, user).name, user.name>>
        IN  CASE user.type = "admin" ->
                   [acc EXCEPT !.users = Put(@, id, user),
                               !.names = Put(@, <<user.name, user.name>>, user)]
              [] user.type # type /\ user.type # "admin" -> acc
              [] user.type = type /\ ~user.valid ->
                   [acc EXCEPT !.users = Without(@, {id}), !.names = Without(@, {key})]
              [] OTHER ->
                   [acc EXCEPT !.users = Put(@, id, user), !.names = Put(@, key, user)]
  IN  FoldLeft(step, c, order)

\* The links of a deleted group stay; those of the users a group lost go.
handlerGroupCacheUpdate(c, polled) ==
  LET step(acc, id) ==
        LET group == polled[id]
            lost == IF id \in DOMAIN acc.groups THEN acc.groups[id].users \ group.users ELSE {}
            kept == [u \in DOMAIN acc.links |-> IF u \in lost THEN acc.links[u] \ {id} ELSE acc.links[u]]
            gained == [u \in group.users |-> GetUserLinkGroupIds(acc, u) \cup {id}]
        IN  IF ~group.valid THEN [acc EXCEPT !.groups = Without(@, {id})]
            ELSE [acc EXCEPT !.groups = Put(@, id, group), !.links = gained @@ kept]
  IN  FoldLeft(step, c, SetToSeq(DOMAIN polled))

\* Owners come before the others.
setUserAndGroups(c, users, order, groups) ==
  handlerGroupCacheUpdate(
    handlerUserCacheUpdate(handlerUserCacheUpdate(c, users, order, "main"), users, order, "sub"),
    groups)

-----------------------------------------------------------------------------
\* cache/strategy.go and strategy_bucket.go

EmptyStrategies == [strategys |-> << >>, links |-> << >>]

LinksOf(links, key) == IF key \in DOMAIN links THEN links[key] ELSE {}

saveLink(links, key, id) == Put(links, key, LinksOf(links, key) \cup {id})

\* The bucket of a key goes with its last strategy.
deleteLink(links, key, id) ==
  IF LinksOf(links, key) \subseteq {id} THEN Without(links, {key})
  ELSE Put(links, key, links[key] \ {id})

\* What a strategy is linked to: its principals and its resources.
PrincipalKeys(rule) == {<<p[2], p[1]>> : p \in rule.principals}
ResourceKeys(rule) == rule.resources

Unlinked(links, id, keys) ==
  LET step(acc, key) == deleteLink(acc, key, id) IN FoldLeft(step, links, SetToSeq(keys))

Linked(links, id, keys) ==
  LET step(acc, key) == saveLink(acc, key, id) IN FoldLeft(step, links, SetToSeq(keys))

\* The links of one side of the polled strategies, compared with the cached
\* strategies as they were before the poll.
Relinked(c, links, polled, keysOf(_)) ==
  LET step(acc, id) ==
        LET new == keysOf(polled[id])
            old == IF id \in DOMAIN c.strategys THEN keysOf(c.strategys[id]) ELSE {}
            cut == Unlinked(acc, id, old \ new)
        IN  IF polled[id].valid THEN Linked(cut, id, new) ELSE Unlinked(cut, id, new)
  IN  FoldLeft(step, links, SetToSeq(DOMAIN polled))

handlerResourceStrategy(c, polled) == [c EXCEPT !.links = Relinked(c, @, polled, ResourceKeys)]

\* Mutant: the principals a strategy has lost stay linked.
handlerNewPrincipals(c, polled) ==
  [c EXCEPT !.links = Relinked(EmptyStrategies, @, polled, PrincipalKeys)]

handlerPrincipalStrategy(c, polled) == [c EXCEPT !.links = Relinked(c, @, polled, PrincipalKeys)]

setStrategys(c, polled) ==
  LET linked == handlerPrincipalStrategy(handlerResourceStrategy(c, polled), polled)
  IN  [linked EXCEPT !.strategys = Mirror(@, polled)]

getStrategyDetails(c, kind, id) == LinksOf(c.links, <<kind, id>>) \cap DOMAIN c.strategys

GetStrategyDetailsByUID(c, uid) == getStrategyDetails(c, "user", uid)

GetStrategyDetailsByGroupID(c, groupid) == getStrategyDetails(c, "group", groupid)

IsResourceLinkStrategy(c, resType, resId) == LinksOf(c.links, <<resType, resId>>) # {}
=============================================================================
