----------------------------- MODULE AuthProofs -----------------------------
(***************************************************************************)
(* Proofs about the tables of users, groups and strategies in the two      *)
(* stores, for every set of ids, names and other texts: every live user    *)
(* and group has exactly one live default strategy, which names it and     *)
(* nothing else, and every live default strategy has its principal. This   *)
(* is what OneDefault of AuthCenter states of the two servers.             *)
(*                                                                         *)
(* The specifications MySpec and BoltSpec call the methods of the stores   *)
(* in any order, with arguments that are as free as the handlers of        *)
(* auth/defaultauth leave them:                                            *)
(*   - a strategy in a request of CreateStrategy is not a default one;     *)
(*   - UpdateStrategy does not change the principals of a default strategy *)
(*     (checkUpdateStrategy), and DeleteStrategy spares the default ones;  *)
(*   - a deleted row is the one the handler has read, that is, the read of *)
(*     DeleteUser or DeleteGroup and the write are one step.               *)
(* The model writes the id of a default strategy as a function of its      *)
(* principal, where the code draws a uuid.                                 *)
(***************************************************************************)
EXTENDS StoreTables, TLAPS

CONSTANTS Text, Substr, Prefix, MaxBatchSize

VARIABLE tables

My == INSTANCE MySQLAuth
Bolt == INSTANCE BoltAuth

-----------------------------------------------------------------------------
\* Principals and the strategies that name them

\* A new principal with a new strategy that names it alone.
LEMMA EachAdded ==
    ASSUME NEW P, NEW n, OneEach(P, n), NEW p, p \notin P, NEW k, k \notin DOMAIN n
    PROVE  OneEach(P \cup {p}, Put(n, k, {p}))
<1> DEFINE m == Put(n, k, {p})
<1>0. DOMAIN m = DOMAIN n \cup {k} /\ m[k] = {p} /\ \A j \in DOMAIN n : m[j] = n[j]
      BY Zenon DEF Put
<1> HIDE DEF m
<1>1. \A q \in P \cup {p} : \E i \in DOMAIN m : \A j \in DOMAIN m : q \in m[j] <=> j = i
  <2> SUFFICES ASSUME NEW q \in P \cup {p}
               PROVE  \E i \in DOMAIN m : \A j \in DOMAIN m : q \in m[j] <=> j = i
      BY Zenon
  <2>1. CASE q = p
        BY <1>0, <2>1 DEF OneEach
  <2>2. CASE q # p
        BY <1>0, <2>2 DEF OneEach
  <2> QED BY Zenon, <2>1, <2>2
<1>2. \A i \in DOMAIN m : \E q \in P \cup {p} : m[i] = {q}
      BY Zenon, <1>0 DEF OneEach
<1> QED BY Zenon, <1>1, <1>2 DEF OneEach, m

\* Without the sets that hold p alone.
Losing(n, p) == [j \in {k \in DOMAIN n : n[k] # {p}} |-> n[j]]

\* A principal goes, and the strategy that names it.
LEMMA EachRemoved ==
    ASSUME NEW P, NEW n, OneEach(P, n), NEW p
    PROVE  OneEach(P \ {p}, Losing(n, p))
BY DEF OneEach, Losing

-----------------------------------------------------------------------------
\* Tables

\* The columns that say whether a row is live and a strategy a default one.
Flags == {"valid", "default"}

\* A table whose rows have the fields.
Table(t, fields) ==
    \A k \in DOMAIN t : DOMAIN t[k] = fields /\ \A f \in fields \cap Flags : t[k][f] \in BOOLEAN

\* The same rows are live in t and in u, and agree in the columns fs.
Alike(t, u, fs) ==
    ValidKeys(u) = ValidKeys(t) /\ \A k \in ValidKeys(t) : \A f \in fs : u[k][f] = t[k][f]

\* The rows ks are no longer live, the other ones are as they were.
Drops(t, u, ks) == ValidKeys(u) = ValidKeys(t) \ ks /\ \A k \in ValidKeys(t) \ ks : u[k] = t[k]

\* The row of k is a new live one, the others are as they were.
Inserts(t, u, k, row) ==
    /\ k \notin ValidKeys(t) /\ ValidKeys(u) = ValidKeys(t) \cup {k}
    /\ u[k] = row /\ \A j \in ValidKeys(t) : u[j] = t[j]

\* A row to insert.
LiveRow(row, fields) ==
    DOMAIN row = fields /\ row.valid = TRUE /\ ("default" \in fields => row.default \in BOOLEAN)

\* Cleaning up deleted rows does not touch the live ones.
LEMMA Cleaned ==
    ASSUME NEW fields, NEW t, Table(t, fields), NEW ks, \A k \in ks : k \notin ValidKeys(t), NEW fs
    PROVE  Table(Without(t, ks), fields) /\ Alike(t, Without(t, ks), fs)
<1> DEFINE w == Without(t, ks)
<1>1. DOMAIN w = DOMAIN t \ ks /\ \A k \in DOMAIN t \ ks : w[k] = t[k]
      BY Zenon DEF Without
<1> HIDE DEF w
<1>2. ValidKeys(w) = ValidKeys(t) /\ \A k \in ValidKeys(t) : w[k] = t[k]
      BY Zenon, <1>1 DEF Table, ValidKeys
<1>3. Table(w, fields)
      BY Zenon, <1>1 DEF Table
<1> QED BY Zenon, <1>2, <1>3 DEF w, Alike

\* Columns that are no flags: the same rows are live.
LEMMA Assigned ==
    ASSUME NEW fields, NEW t, Table(t, fields), "valid" \in fields, NEW ks,
           NEW cols, DOMAIN cols \subseteq fields, NEW fs, fs \subseteq fields,
           \A f \in DOMAIN cols : f \notin Flags /\ f \notin fs
    PROVE  Table(Assign(t, ks, cols), fields) /\ Alike(t, Assign(t, ks, cols), fs)
<1> DEFINE a == Assign(t, ks, cols)
<1>1. DOMAIN a = DOMAIN t /\ \A k \in DOMAIN t : a[k] = IF k \in ks THEN Over(cols, t[k]) ELSE t[k]
      BY Zenon DEF Assign
<1>2. \A k \in DOMAIN t : DOMAIN t[k] = fields /\ \A f \in fields \cap Flags : t[k][f] \in BOOLEAN
      BY Zenon DEF Table
<1> HIDE DEF a
<1>3. \A k \in DOMAIN t : DOMAIN a[k] = fields /\ \A f \in fields \ DOMAIN cols : a[k][f] = t[k][f]
  <2> SUFFICES ASSUME NEW k \in DOMAIN t
               PROVE  DOMAIN a[k] = fields /\ \A f \in fields \ DOMAIN cols : a[k][f] = t[k][f]
      BY Zenon
  <2>1. /\ DOMAIN Over(cols, t[k]) = fields
        /\ \A f \in fields \ DOMAIN cols : Over(cols, t[k])[f] = t[k][f]
        BY Zenon, <1>2 DEF Over
  <2> QED BY Zenon, <1>1, <1>2, <2>1
<1>4. \A k \in DOMAIN t : \A f \in fields \cap Flags : a[k][f] = t[k][f]
      BY Zenon, <1>3
<1>5. Table(a, fields)
      BY <1>1, <1>2, <1>3, <1>4 DEF Table
<1>6. \A k \in DOMAIN t : a[k].valid = t[k].valid
      BY Zenon, <1>4 DEF Flags
<1>7. ValidKeys(a) = ValidKeys(t)
      BY Zenon, <1>1, <1>6 DEF ValidKeys
<1>8. \A k \in ValidKeys(t) : \A f \in fs : a[k][f] = t[k][f]
      BY Zenon, <1>3 DEF ValidKeys
<1> QED BY Zenon, <1>5, <1>7, <1>8 DEF a, Alike

\* The soft delete of the rows ks.
LEMMA Deleted ==
    ASSUME NEW fields, NEW t, Table(t, fields), NEW ks,
           NEW cols, "valid" \in DOMAIN cols, "default" \notin DOMAIN cols, DOMAIN cols \subseteq fields,
           cols.valid = FALSE
    PROVE  Table(Assign(t, ks, cols), fields) /\ Drops(t, Assign(t, ks, cols), ks)
<1> DEFINE a == Assign(t, ks, cols)
<1>1. DOMAIN a = DOMAIN t /\ \A k \in DOMAIN t : a[k] = IF k \in ks THEN Over(cols, t[k]) ELSE t[k]
      BY Zenon DEF Assign
<1>2. \A k \in DOMAIN t : DOMAIN t[k] = fields /\ \A f \in fields \cap Flags : t[k][f] \in BOOLEAN
      BY Zenon DEF Table
<1> HIDE DEF a
<1>3. \A k \in DOMAIN t \cap ks : /\ DOMAIN a[k] = fields /\ a[k]["valid"] = FALSE
                                  /\ "default" \in fields => a[k]["default"] = t[k]["default"]
  <2> SUFFICES ASSUME NEW k \in DOMAIN t \cap ks
               PROVE  /\ DOMAIN a[k] = fields /\ a[k]["valid"] = FALSE
                      /\ "default" \in fields => a[k]["default"] = t[k]["default"]
      BY Zenon
  <2>1. /\ DOMAIN Over(cols, t[k]) = fields /\ Over(cols, t[k])["valid"] = cols["valid"]
        /\ "default" \in fields => Over(cols, t[k])["default"] = t[k]["default"]
        BY Zenon, <1>2 DEF Over
  <2> QED BY Zenon, <1>1, <2>1
<1>4. Table(a, fields)
      BY Zenon, <1>1, <1>2, <1>3 DEF Table, Flags
<1>5. ValidKeys(a) = ValidKeys(t) \ ks
      BY Zenon, <1>1, <1>3 DEF ValidKeys
<1>6. \A k \in ValidKeys(t) \ ks : a[k] = t[k]
      BY Zenon, <1>1 DEF ValidKeys
<1> QED BY Zenon, <1>4, <1>5, <1>6 DEF a, Drops

\* A new row.
LEMMA Inserted ==
    ASSUME NEW fields, NEW t, Table(t, fields), NEW k, k \notin DOMAIN t,
           NEW row, LiveRow(row, fields)
    PROVE  Table(Put(t, k, row), fields) /\ Inserts(t, Put(t, k, row), k, row)
<1> DEFINE p == Put(t, k, row)
<1>1. DOMAIN p = DOMAIN t \cup {k} /\ p[k] = row /\ \A j \in DOMAIN t : p[j] = t[j]
      BY Zenon DEF Put
<1> HIDE DEF p
<1>2. Table(p, fields)
      BY Zenon, <1>1 DEF Table, Flags, LiveRow
<1>3. k \notin ValidKeys(t) /\ ValidKeys(p) = ValidKeys(t) \cup {k} /\ \A j \in ValidKeys(t) : p[j] = t[j]
      BY Zenon, <1>1 DEF ValidKeys, LiveRow
<1> QED BY Zenon, <1>1, <1>2, <1>3 DEF p, Inserts

-----------------------------------------------------------------------------
\* store/mysql

UserFields == {"name", "owner", "type", "token", "enable", "comment", "valid", "fresh"}
GroupFields == {"name", "owner", "token", "enable", "comment", "valid", "fresh"}
StrategyFields == {"name", "owner", "comment", "default", "valid", "fresh"}

\* The live users and groups.
Principals(db) == (ValidKeys(db.user) \X {"user"}) \cup (ValidKeys(db.user_group) \X {"group"})

\* The live default strategies.
Defaults(db) == {k \in ValidKeys(db.auth_strategy) : db.auth_strategy[k].default}

\* The owner the default strategy of a principal is saved with.
OwnerOf(db, p) ==
    LET row == IF p[2] = "user" THEN db.user[p[1]] ELSE db.user_group[p[1]]
    IN  IF row.owner = "" THEN p[1] ELSE row.owner

MyTables(db) ==
    /\ DOMAIN db = {"user", "user_group", "auth_strategy", "user_group_relation",
                    "auth_principal", "auth_strategy_resource"}
    /\ Table(db.user, UserFields)
    /\ Table(db.user_group, GroupFields)
    /\ Table(db.auth_strategy, StrategyFields)
    /\ \A l \in db.auth_principal : l = <<l[1], l[2], l[3]>>

\* The principals the default strategies name.
MyNamed(db) == [k \in Defaults(db) |-> My!getStrategyPrincipals(db, k)]

\* Every live user and group has one live default strategy (see the header).
MyOneDefault(db) == OneEach(Principals(db), MyNamed(db))

\* No link outlives its strategy: the id of a strategy that is deleted may be
\* used again, and an old link would give the new one a second principal.
MyLinks(db) == \A l \in db.auth_principal : l[1] \in ValidKeys(db.auth_strategy)

\* A default strategy has the owner of its principal, by which
\* cleanLinkStrategy finds it.
MyOwners(db) ==
    \A k \in Defaults(db) : \A p \in Principals(db) :
        <<k, p[1], p[2]>> \in db.auth_principal => db.auth_strategy[k].owner = OwnerOf(db, p)

\* The inductive invariant.
MyInv(db) == MyTables(db) /\ MyOneDefault(db) /\ MyLinks(db) /\ MyOwners(db)

\* getStrategyPrincipals reads the rows of auth_principal back as pairs.
LEMMA MyNames ==
    ASSUME NEW db, MyTables(db), NEW k
    PROVE  \A p : p \in My!getStrategyPrincipals(db, k)
                     <=> p = <<p[1], p[2]>> /\ <<k, p[1], p[2]>> \in db.auth_principal
BY DEF My!getStrategyPrincipals, MyTables

\* The same principals, default strategies and links of these.
MyKeeps(a, b) ==
    /\ Principals(b) = Principals(a)
    /\ \A p \in Principals(a) : OwnerOf(b, p) = OwnerOf(a, p)
    /\ Defaults(b) = Defaults(a)
    /\ \A k \in Defaults(a) :
         /\ b.auth_strategy[k].owner = a.auth_strategy[k].owner
         /\ \A id, role : <<k, id, role>> \in b.auth_principal <=> <<k, id, role>> \in a.auth_principal
    /\ MyLinks(b)

\* A write that keeps the principals and their default strategies.
LEMMA MyKept ==
    ASSUME NEW a, NEW b, MyInv(a), MyTables(b), MyKeeps(a, b)
    PROVE  MyInv(b)
<1> USE DEF MyKeeps
<1>1. \A k \in Defaults(a) : My!getStrategyPrincipals(b, k) = My!getStrategyPrincipals(a, k)
  <2> SUFFICES ASSUME NEW k \in Defaults(a), NEW p
               PROVE  p \in My!getStrategyPrincipals(b, k) <=> p \in My!getStrategyPrincipals(a, k)
      BY Zenon
  <2>1. p \in My!getStrategyPrincipals(a, k) <=> p = <<p[1], p[2]>> /\ <<k, p[1], p[2]>> \in a.auth_principal
        BY Zenon, MyNames DEF MyInv
  <2>2. p \in My!getStrategyPrincipals(b, k) <=> p = <<p[1], p[2]>> /\ <<k, p[1], p[2]>> \in b.auth_principal
        BY Zenon, MyNames
  <2> QED BY Zenon, <2>1, <2>2
<1>2. MyNamed(b) = MyNamed(a)
      BY Zenon, <1>1 DEF MyNamed
<1>3. MyOneDefault(b)
      BY Zenon, <1>2 DEF MyOneDefault, MyInv
<1>4. MyOwners(b)
      BY Zenon DEF MyInv, MyOwners
<1> QED BY Zenon, <1>3, <1>4 DEF MyInv

\* A new principal p with a new default strategy sid.
MyAdds(a, b, p, sid) ==
    /\ p = <<p[1], p[2]>> /\ p \notin Principals(a) /\ Principals(b) = Principals(a) \cup {p}
    /\ \A q \in Principals(a) : OwnerOf(b, q) = OwnerOf(a, q)
    /\ sid \notin ValidKeys(a.auth_strategy)
    /\ ValidKeys(b.auth_strategy) = ValidKeys(a.auth_strategy) \cup {sid}
    /\ Defaults(b) = Defaults(a) \cup {sid}
    /\ \A k \in Defaults(a) : b.auth_strategy[k].owner = a.auth_strategy[k].owner
    /\ b.auth_strategy[sid].owner = OwnerOf(b, p)
    /\ b.auth_principal = a.auth_principal \cup {<<sid, p[1], p[2]>>}

\* A write that adds a principal with its default strategy. No old link
\* names the new strategy, for no link outlives its strategy.
LEMMA MyAdded ==
    ASSUME NEW a, NEW b, MyInv(a), MyTables(b), NEW p, NEW sid, MyAdds(a, b, p, sid)
    PROVE  MyInv(b)
<1> USE DEF MyAdds
<1>1. \A l \in a.auth_principal : l[1] # sid
      BY Zenon DEF MyInv, MyLinks
<1>2. sid \notin Defaults(a)
      BY Zenon DEF Defaults
<1>3. \A k \in Defaults(a) : My!getStrategyPrincipals(b, k) = My!getStrategyPrincipals(a, k)
  <2> SUFFICES ASSUME NEW k \in Defaults(a), NEW q
               PROVE  q \in My!getStrategyPrincipals(b, k) <=> q \in My!getStrategyPrincipals(a, k)
      BY Zenon
  <2>1. q \in My!getStrategyPrincipals(a, k) <=> q = <<q[1], q[2]>> /\ <<k, q[1], q[2]>> \in a.auth_principal
        BY Zenon, MyNames DEF MyInv
  <2>2. q \in My!getStrategyPrincipals(b, k) <=> q = <<q[1], q[2]>> /\ <<k, q[1], q[2]>> \in b.auth_principal
        BY Zenon, MyNames
  <2>3. <<k, q[1], q[2]>> # <<sid, p[1], p[2]>>
        BY Zenon, <1>2
  <2> QED BY Zenon, <2>1, <2>2, <2>3
<1>4. My!getStrategyPrincipals(b, sid) = {p}
  <2> SUFFICES ASSUME NEW q PROVE q \in My!getStrategyPrincipals(b, sid) <=> q = p
      BY Zenon
  <2>1. q \in My!getStrategyPrincipals(b, sid) <=> q = <<q[1], q[2]>> /\ <<sid, q[1], q[2]>> \in b.auth_principal
        BY Zenon, MyNames
  <2>2. <<sid, q[1], q[2]>> \notin a.auth_principal
        BY Zenon, <1>1
  <2>3. <<sid, q[1], q[2]>> \in b.auth_principal <=> q[1] = p[1] /\ q[2] = p[2]
        BY Zenon, <2>2
  <2> QED BY Zenon, <2>1, <2>3
<1>5. MyNamed(b) = Put(MyNamed(a), sid, {p})
      BY Zenon, <1>3, <1>4 DEF MyNamed, Put
<1>6. OneEach(Principals(a) \cup {p}, MyNamed(b))
  <2>1. sid \notin DOMAIN MyNamed(a) /\ OneEach(Principals(a), MyNamed(a))
        BY Zenon, <1>2 DEF MyNamed, MyInv, MyOneDefault
  <2>2. OneEach(Principals(a) \cup {p}, Put(MyNamed(a), sid, {p}))
        BY Zenon, <2>1, EachAdded
  <2> QED BY Zenon, <1>5, <2>2
<1>7. MyLinks(b)
      BY DEF MyInv, MyLinks
<1>8. MyOwners(b)
  <2> SUFFICES ASSUME NEW k \in Defaults(b), NEW q \in Principals(b), <<k, q[1], q[2]>> \in b.auth_principal
               PROVE  b.auth_strategy[k].owner = OwnerOf(b, q)
      BY Zenon DEF MyOwners
  <2>0. q = <<q[1], q[2]>>
        BY DEF Principals
  <2>1. CASE k = sid
    <3>1. <<k, q[1], q[2]>> \notin a.auth_principal
          BY Zenon, <1>1, <2>1
    <3>2. q = p
          BY <2>0, <3>1
    <3> QED BY Zenon, <2>1, <3>2
  <2>2. CASE k # sid
    <3>1. k \in Defaults(a) /\ <<k, q[1], q[2]>> \in a.auth_principal
          BY <2>2
    <3>2. q \in My!getStrategyPrincipals(a, k)
          BY Zenon, <2>0, <3>1, MyNames DEF MyInv
    <3>3. q \in Principals(a)
          BY <3>1, <3>2 DEF MyInv, MyOneDefault, OneEach, MyNamed
    <3> QED BY Zenon, <3>1, <3>3 DEF MyInv, MyOwners
  <2> QED BY Zenon, <2>1, <2>2
<1> QED BY Zenon, <1>6, <1>7, <1>8 DEF MyInv, MyOneDefault

\* The principal p goes, with its default strategies own and its links.
MyRemoves(a, b, p, own) ==
    /\ p \in Principals(a) /\ Principals(b) = Principals(a) \ {p}
    /\ \A q \in Principals(b) : OwnerOf(b, q) = OwnerOf(a, q)
    /\ own = {k \in Defaults(a) : <<k, p[1], p[2]>> \in a.auth_principal}
    /\ ValidKeys(b.auth_strategy) = ValidKeys(a.auth_strategy) \ own
    /\ Defaults(b) = Defaults(a) \ own
    /\ \A k \in Defaults(b) : b.auth_strategy[k].owner = a.auth_strategy[k].owner
    /\ b.auth_principal = {l \in a.auth_principal : ~(l[2] = p[1] /\ l[3] = p[2])}

\* A write that removes a principal, its default strategy and its links.
LEMMA MyRemoved ==
    ASSUME NEW a, NEW b, MyInv(a), MyTables(b), NEW p, NEW own, MyRemoves(a, b, p, own)
    PROVE  MyInv(b)
<1> USE DEF MyRemoves
<1>0. p = <<p[1], p[2]>>
      BY DEF Principals
<1>1. \A k : p \in My!getStrategyPrincipals(a, k) <=> <<k, p[1], p[2]>> \in a.auth_principal
      BY Zenon, <1>0, MyNames DEF MyInv
<1>2. \A k \in Defaults(a) : k \in own <=> My!getStrategyPrincipals(a, k) = {p}
      BY <1>1 DEF MyInv, MyOneDefault, OneEach, MyNamed
<1>3. \A k \in Defaults(b) : My!getStrategyPrincipals(b, k) = My!getStrategyPrincipals(a, k)
  <2> SUFFICES ASSUME NEW k \in Defaults(b), NEW q
               PROVE  q \in My!getStrategyPrincipals(b, k) <=> q \in My!getStrategyPrincipals(a, k)
      BY Zenon
  <2>1. q \in My!getStrategyPrincipals(a, k) <=> q = <<q[1], q[2]>> /\ <<k, q[1], q[2]>> \in a.auth_principal
        BY Zenon, MyNames DEF MyInv
  <2>2. q \in My!getStrategyPrincipals(b, k) <=> q = <<q[1], q[2]>> /\ <<k, q[1], q[2]>> \in b.auth_principal
        BY Zenon, MyNames
  <2>3. <<k, p[1], p[2]>> \notin a.auth_principal
        BY Zenon
  <2>4. <<k, q[1], q[2]>> \in a.auth_principal <=> <<k, q[1], q[2]>> \in b.auth_principal
        BY Zenon, <2>3
  <2> QED BY Zenon, <2>1, <2>2, <2>4
<1>4. MyNamed(b) = Losing(MyNamed(a), p)
      BY Zenon, <1>2, <1>3 DEF MyNamed, Losing
<1>5. OneEach(Principals(a) \ {p}, MyNamed(b))
  <2>1. OneEach(Principals(a) \ {p}, Losing(MyNamed(a), p))
        BY Zenon, EachRemoved DEF MyOneDefault, MyInv
  <2> QED BY Zenon, <1>4, <2>1
<1>6. MyLinks(b)
  <2> SUFFICES ASSUME NEW l \in b.auth_principal PROVE l[1] \notin own
      BY Zenon DEF MyInv, MyLinks
  <2>1. l = <<l[1], l[2], l[3]>> /\ l \in a.auth_principal /\ ~(l[2] = p[1] /\ l[3] = p[2])
        BY Zenon DEF MyInv, MyTables
  <2>2. <<l[2], l[3]>> \in My!getStrategyPrincipals(a, l[1])
        BY <2>1, MyNames DEF MyInv
  <2>3. <<l[2], l[3]>> # p
        BY <2>1
  <2> QED BY <1>2, <2>2, <2>3
<1>7. MyOwners(b)
      BY Zenon DEF MyInv, MyOwners
<1> QED BY Zenon, <1>5, <1>6, <1>7 DEF MyInv, MyOneDefault

-----------------------------------------------------------------------------
\* The methods of store/mysql

UserRow(u) ==
    [name |-> u.name, owner |-> u.owner, type |-> u.type, token |-> u.token,
     enable |-> TRUE, comment |-> u.comment, valid |-> TRUE, fresh |-> TRUE]

\* createDefaultStrategy (store/mysql/user.go), after the principal itself was inserted
\* from a to d.
LEMMA CreateDefaultStrategy ==
    ASSUME NEW a, MyInv(a), NEW d, MyTables(d), NEW role, NEW id, NEW name, NEW owner,
           d.auth_strategy = a.auth_strategy, d.auth_principal = a.auth_principal,
           <<id, role>> \notin Principals(a), Principals(d) = Principals(a) \cup {<<id, role>>},
           \A q \in Principals(a) : OwnerOf(d, q) = OwnerOf(a, q),
           OwnerOf(d, <<id, role>>) = IF owner = "" THEN id ELSE owner,
           NEW r, r = My!createDefaultStrategy(d, role, id, name, owner), r.err = OK
    PROVE  MyInv(r.db)
<1> DEFINE p == <<id, role>>
           by == IF owner = "" THEN id ELSE owner
           title == My!BuildDefaultStrategyName(role, name)
           old == {k \in My!SameNameAndOwner(d.auth_strategy, title, by) :
                     ~d.auth_strategy[k].valid /\ d.auth_strategy[k].default}
           kept == Without(d.auth_strategy, old)
           row == [name |-> title, owner |-> by, comment |-> "Default Strategy", default |-> TRUE,
                   valid |-> TRUE, fresh |-> TRUE]
           sid == My!DefaultStrategyID(role, id)
           b == [d EXCEPT !.auth_strategy = Put(kept, sid, row),
                          !.auth_principal = @ \cup {<<sid, id, role>>}]
<1>1. sid \notin DOMAIN kept /\ r.db = b
      BY Zenon DEF My!createDefaultStrategy, My!Done, My!Fail, My!OK, My!Duplicate, OK, My!Without, Without, My!Put, Put
<1>2. \A k \in old : k \notin ValidKeys(d.auth_strategy)
      BY Zenon DEF ValidKeys
<1> HIDE DEF old
<1>3. Table(kept, StrategyFields) /\ Alike(d.auth_strategy, kept, {"owner", "default"})
  <2>1. Table(d.auth_strategy, StrategyFields)
        BY Zenon DEF MyTables
  <2> QED BY Zenon, <1>2, <2>1, Cleaned
<1> HIDE DEF kept
<1>4. DOMAIN row = StrategyFields /\ row.valid = TRUE /\ row.default = TRUE /\ row.owner = by
      BY Zenon DEF StrategyFields
<1> HIDE DEF row, title
<1> DEFINE t == Put(kept, sid, row)
<1>5. Table(t, StrategyFields) /\ Inserts(kept, t, sid, row)
  <2>1. LiveRow(row, StrategyFields)
        BY Zenon, <1>4 DEF LiveRow
  <2> QED BY Zenon, <1>1, <1>3, <2>1, Inserted
<1>6. /\ b.user = d.user /\ b.user_group = d.user_group /\ b.auth_strategy = t
      /\ b.auth_principal = d.auth_principal \cup {<<sid, id, role>>} /\ DOMAIN b = DOMAIN d
      BY Zenon DEF MyTables
<1> HIDE DEF t, b, sid
<1>7. /\ sid \notin ValidKeys(a.auth_strategy) /\ ValidKeys(t) = ValidKeys(a.auth_strategy) \cup {sid}
      /\ \A k \in ValidKeys(a.auth_strategy) :
            t[k].owner = a.auth_strategy[k].owner /\ t[k].default = a.auth_strategy[k].default
      BY Zenon, <1>3, <1>5 DEF Alike, Inserts
<1>8. Defaults(b) = Defaults(a) \cup {sid} /\ \A k \in Defaults(a) : t[k].owner = a.auth_strategy[k].owner
      BY Zenon, <1>4, <1>5, <1>6, <1>7 DEF Defaults, Inserts
<1>9. MyTables(b)
  <2>1. ASSUME NEW l, l = <<sid, id, role>> PROVE l = <<l[1], l[2], l[3]>>
        BY Zenon, <2>1
  <2>2. \A l \in b.auth_principal : l = <<l[1], l[2], l[3]>>
        BY Zenon, <1>6, <2>1 DEF MyTables
  <2> QED BY Zenon, <1>5, <1>6, <2>2 DEF MyTables
<1>10. /\ Principals(b) = Principals(a) \cup {p}
       /\ \A q : OwnerOf(b, q) = OwnerOf(d, q)
       BY Zenon, <1>6 DEF Principals, OwnerOf
<1>11. MyAdds(a, b, p, sid)
  <2>1. p[1] = id /\ p[2] = role /\ p = <<p[1], p[2]>>
        BY Zenon
  <2>2. b.auth_strategy[sid].owner = OwnerOf(b, p)
        BY Zenon, <1>4, <1>5, <1>6, <1>10 DEF Inserts
  <2> QED BY Zenon, <1>6, <1>7, <1>8, <1>10, <2>1, <2>2 DEF MyAdds
<1> QED BY Zenon, <1>1, <1>9, <1>11, MyAdded

\* Writes that leave the flags, the owners and the links as they are.
LEMMA MyFrame ==
    ASSUME NEW a, NEW b, MyInv(a), MyTables(b),
           Alike(a.user, b.user, {"owner"}), Alike(a.user_group, b.user_group, {"owner"}),
           Alike(a.auth_strategy, b.auth_strategy, {"owner", "default"}),
           b.auth_principal = a.auth_principal
    PROVE  MyInv(b)
<1>1. Principals(b) = Principals(a)
      BY Zenon DEF Principals, Alike
<1>2. \A p \in Principals(a) : OwnerOf(b, p) = OwnerOf(a, p)
  <2> SUFFICES ASSUME NEW p \in Principals(a) PROVE OwnerOf(b, p) = OwnerOf(a, p)
      BY Zenon
  <2>1. CASE p \in ValidKeys(a.user) \X {"user"}
    <3>1. p[2] = "user" /\ b.user[p[1]].owner = a.user[p[1]].owner
          BY Zenon, <2>1 DEF Alike
    <3> QED BY Zenon, <3>1 DEF OwnerOf
  <2>2. CASE p \in ValidKeys(a.user_group) \X {"group"}
        BY Zenon, <2>2 DEF Alike, OwnerOf
  <2> QED BY Zenon, <2>1, <2>2 DEF Principals
<1>3. /\ Defaults(b) = Defaults(a)
      /\ \A k \in Defaults(a) : b.auth_strategy[k].owner = a.auth_strategy[k].owner
      BY Zenon DEF Alike, Defaults
<1>4. MyLinks(b)
      BY Zenon DEF Alike, MyLinks, MyInv
<1>5. MyKeeps(a, b)
      BY Zenon, <1>1, <1>2, <1>3, <1>4 DEF MyKeeps
<1> QED BY Zenon, <1>5, MyKept

\* The live rows of a table agree with themselves.
LEMMA AlikeItself == ASSUME NEW t, NEW fs PROVE Alike(t, t, fs)
BY Zenon DEF Alike

\* AddUser: cleanInValidUser, the row, and the default strategy.
LEMMA MyAddUser ==
    ASSUME NEW a, MyInv(a), NEW u
    PROVE  MyInv(My!AddUser(a, u).db)
<1> DEFINE gone == {k \in DOMAIN a.user : a.user[k].name = u.name /\ a.user[k].owner = u.owner /\ ~a.user[k].valid}
           c == [a EXCEPT !.user = Without(@, gone)]
           d == [c EXCEPT !.user = Put(@, u.id, UserRow(u))]
           r == My!createDefaultStrategy(d, "user", u.id, u.name, u.owner)
<1>1. \/ My!AddUser(a, u).db = a
      \/ My!AddUser(a, u).db = c
      \/ u.id \notin DOMAIN c.user /\ r.err = OK /\ My!AddUser(a, u).db = r.db
      BY Zenon DEF My!AddUser, My!addUser, My!cleanInValidUser, My!Done, My!Fail, My!OK, OK, My!Without, Without,
         My!Put, Put, UserRow
<1>2. \A k \in gone : k \notin ValidKeys(a.user)
      BY Zenon DEF ValidKeys
<1> HIDE DEF gone
<1>3. /\ c.user = Without(a.user, gone) /\ c.user_group = a.user_group /\ c.auth_strategy = a.auth_strategy
      /\ c.auth_principal = a.auth_principal /\ DOMAIN c = DOMAIN a
      BY Zenon DEF MyInv, MyTables
<1>4. Table(c.user, UserFields) /\ Alike(a.user, c.user, {"owner"})
  <2>1. Table(a.user, UserFields)
        BY Zenon DEF MyInv, MyTables
  <2>2. Table(Without(a.user, gone), UserFields) /\ Alike(a.user, Without(a.user, gone), {"owner"})
        BY Zenon, <1>2, <2>1, Cleaned
  <2> QED BY Zenon, <1>3, <2>2
<1> HIDE DEF c
<1>5. MyInv(c)
  <2>1. MyTables(c)
        BY Zenon, <1>3, <1>4 DEF MyInv, MyTables
  <2> QED BY Zenon, <1>3, <1>4, <2>1, MyFrame, AlikeItself
<1>6. ASSUME u.id \notin DOMAIN c.user, r.err = OK PROVE MyInv(r.db)
  <2>1. /\ d.user = Put(c.user, u.id, UserRow(u)) /\ d.user_group = c.user_group
        /\ d.auth_strategy = c.auth_strategy
        /\ d.auth_principal = c.auth_principal /\ DOMAIN d = DOMAIN c
        BY Zenon, <1>5 DEF MyInv, MyTables
  <2> HIDE DEF d
  <2>2. LiveRow(UserRow(u), UserFields) /\ UserRow(u).owner = u.owner
        BY Zenon DEF LiveRow, UserRow, UserFields
  <2>3. Table(d.user, UserFields) /\ Inserts(c.user, d.user, u.id, UserRow(u))
        BY Zenon, <1>4, <1>6, <2>1, <2>2, Inserted
  <2>4. MyTables(d)
        BY Zenon, <1>5, <2>1, <2>3 DEF MyInv, MyTables
  <2>5. <<u.id, "user">> \notin Principals(c) /\ Principals(d) = Principals(c) \cup {<<u.id, "user">>}
        BY <2>1, <2>3 DEF Principals, Inserts
  <2>6. \A q \in Principals(c) : OwnerOf(d, q) = OwnerOf(c, q)
    <3> SUFFICES ASSUME NEW q \in Principals(c) PROVE OwnerOf(d, q) = OwnerOf(c, q)
        BY Zenon
    <3>1. CASE q \in ValidKeys(c.user) \X {"user"}
          BY Zenon, <2>3, <3>1 DEF Inserts, OwnerOf
    <3>2. CASE q \in ValidKeys(c.user_group) \X {"group"}
          BY Zenon, <2>1, <3>2 DEF OwnerOf
    <3> QED BY Zenon, <3>1, <3>2 DEF Principals
  <2>7. OwnerOf(d, <<u.id, "user">>) = IF u.owner = "" THEN u.id ELSE u.owner
        BY Zenon, <2>2, <2>3 DEF Inserts, OwnerOf
  <2> QED BY Zenon, <1>5, <1>6, <2>1, <2>4, <2>5, <2>6, <2>7, CreateDefaultStrategy
<1> QED BY Zenon, <1>1, <1>5, <1>6

\* UpdateUser writes neither flag nor owner.
LEMMA MyUpdateUser ==
    ASSUME NEW a, MyInv(a), NEW u
    PROVE  MyInv(My!UpdateUser(a, u).db)
<1> DEFINE cols == Touched([token |-> u.token, comment |-> u.comment, enable |-> u.enable])
           ks == {u.id} \cap ValidKeys(a.user)
           b == [a EXCEPT !.user = Assign(@, ks, cols)]
<1>1. My!UpdateUser(a, u).db \in {a, b}
      BY Zenon DEF My!UpdateUser, My!updateUser, My!Done, My!Fail, My!Touched, Touched,
         My!Assign, Assign, My!Over, Over, My!ValidKeys, ValidKeys
<1>2. DOMAIN cols = {"fresh", "token", "comment", "enable"}
      BY Zenon DEF Touched, Over
<1> HIDE DEF cols, ks
<1>3. /\ b.user = Assign(a.user, ks, cols) /\ b.user_group = a.user_group /\ b.auth_strategy = a.auth_strategy
      /\ b.auth_principal = a.auth_principal /\ DOMAIN b = DOMAIN a
      BY Zenon DEF MyInv, MyTables
<1> HIDE DEF b
<1>4. Table(b.user, UserFields) /\ Alike(a.user, b.user, {"owner"})
  <2>1. Table(a.user, UserFields)
        BY Zenon DEF MyInv, MyTables
  <2>2. /\ "valid" \in UserFields /\ DOMAIN cols \subseteq UserFields /\ {"owner"} \subseteq UserFields
        /\ \A f \in DOMAIN cols : f \notin Flags /\ f \notin {"owner"}
        BY Zenon, <1>2 DEF UserFields, Flags
  <2>3. Table(Assign(a.user, ks, cols), UserFields) /\ Alike(a.user, Assign(a.user, ks, cols), {"owner"})
        BY Zenon, <2>1, <2>2, Assigned
  <2> QED BY Zenon, <1>3, <2>3
<1>5. MyTables(b)
      BY Zenon, <1>3, <1>4 DEF MyInv, MyTables
<1>6. MyInv(b)
      BY Zenon, <1>3, <1>4, <1>5, MyFrame, AlikeItself
<1> QED BY Zenon, <1>1, <1>6

\* cleanLinkStrategy, after the principal p itself was deleted from a to d.
LEMMA CleanLinkStrategy ==
    ASSUME NEW a, MyInv(a), NEW d, MyTables(d), NEW id, NEW role, NEW owner,
           d.auth_strategy = a.auth_strategy, d.auth_principal = a.auth_principal,
           <<id, role>> \in Principals(a), Principals(d) = Principals(a) \ {<<id, role>>},
           \A q \in Principals(d) : OwnerOf(d, q) = OwnerOf(a, q),
           OwnerOf(a, <<id, role>>) = owner
    PROVE  MyInv(My!cleanLinkStrategy(d, role, id, owner))
<1> DEFINE p == <<id, role>>
           linked == {l[1] : l \in {m \in d.auth_principal : m[2] = id /\ m[3] = role}}
           own == {k \in linked \cap DOMAIN d.auth_strategy :
                     d.auth_strategy[k].default /\ d.auth_strategy[k].owner = owner}
           t == Assign(d.auth_strategy, own, [valid |-> FALSE])
           s == Assign(t, linked, [fresh |-> TRUE])
           b == [d EXCEPT !.auth_strategy_resource = {r \in @ : r[1] \notin own},
                          !.auth_strategy = s,
                          !.auth_principal = {l \in @ : ~(l[2] = id /\ l[3] = role)}]
<1>1. My!cleanLinkStrategy(d, role, id, owner) = b
      BY Zenon DEF My!cleanLinkStrategy, My!Assign, Assign, My!Over, Over
<1>2. /\ b.user = d.user /\ b.user_group = d.user_group /\ b.auth_strategy = s
      /\ b.auth_principal = {l \in d.auth_principal : ~(l[2] = id /\ l[3] = role)} /\ DOMAIN b = DOMAIN d
      BY Zenon DEF MyTables
<1>3. \A k : k \in linked <=> <<k, id, role>> \in d.auth_principal
      BY DEF MyTables
<1> HIDE DEF b, s, t, linked
<1>4. Table(t, StrategyFields) /\ Drops(d.auth_strategy, t, own)
  <2> DEFINE cols == [valid |-> FALSE]
  <2>1. /\ "valid" \in DOMAIN cols /\ "default" \notin DOMAIN cols /\ DOMAIN cols \subseteq StrategyFields
        /\ cols.valid = FALSE
        BY Zenon DEF StrategyFields
  <2>2. Table(d.auth_strategy, StrategyFields)
        BY Zenon DEF MyTables
  <2> HIDE DEF cols, own
  <2>3. /\ Table(Assign(d.auth_strategy, own, cols), StrategyFields)
        /\ Drops(d.auth_strategy, Assign(d.auth_strategy, own, cols), own)
        BY Zenon, <2>1, <2>2, Deleted
  <2> QED BY Zenon, <2>3 DEF t, cols
<1>5. Table(s, StrategyFields) /\ Alike(t, s, {"owner", "default"})
  <2> DEFINE cols == [fresh |-> TRUE]
             fs == {"owner", "default"}
  <2>1. /\ "valid" \in StrategyFields /\ DOMAIN cols \subseteq StrategyFields /\ fs \subseteq StrategyFields
        /\ \A f \in DOMAIN cols : f \notin Flags /\ f \notin fs
        BY Zenon DEF StrategyFields, Flags
  <2> HIDE DEF cols, fs
  <2>2. Table(Assign(t, linked, cols), StrategyFields) /\ Alike(t, Assign(t, linked, cols), fs)
        BY Zenon, <1>4, <2>1, Assigned
  <2> QED BY Zenon, <2>2 DEF s, cols, fs
<1>6. own = {k \in Defaults(a) : <<k, p[1], p[2]>> \in a.auth_principal}
  <2>1. ASSUME NEW k \in own PROVE k \in Defaults(a) /\ <<k, id, role>> \in a.auth_principal
    <3>1. <<k, id, role>> \in a.auth_principal
          BY Zenon, <1>3
    <3>2. k \in ValidKeys(a.auth_strategy)
          BY Zenon, <3>1 DEF MyInv, MyLinks
    <3> QED BY Zenon, <3>1, <3>2 DEF Defaults
  <2>2. ASSUME NEW k \in Defaults(a), <<k, id, role>> \in a.auth_principal PROVE k \in own
    <3>1. a.auth_strategy[k].owner = owner
          BY Zenon, <2>2 DEF MyInv, MyOwners
    <3> QED BY Zenon, <1>3, <2>2, <3>1 DEF Defaults, ValidKeys
  <2> QED BY Zenon, <2>1, <2>2
<1> HIDE DEF own
<1>7. /\ ValidKeys(s) = ValidKeys(a.auth_strategy) \ own
      /\ \A k \in ValidKeys(s) : s[k].owner = a.auth_strategy[k].owner /\ s[k].default = a.auth_strategy[k].default
      BY Zenon, <1>4, <1>5 DEF Drops, Alike
<1>8. Defaults(b) = Defaults(a) \ own /\ \A k \in Defaults(b) : s[k].owner = a.auth_strategy[k].owner
      BY <1>2, <1>7 DEF Defaults
<1>9. MyTables(b)
      BY Zenon, <1>2, <1>5 DEF MyTables
<1>10. Principals(b) = Principals(a) \ {p} /\ \A q : OwnerOf(b, q) = OwnerOf(d, q)
       BY Zenon, <1>2 DEF Principals, OwnerOf
<1>11. MyRemoves(a, b, p, own)
  <2>1. p[1] = id /\ p[2] = role
        BY Zenon
  <2> HIDE DEF p
  <2> QED BY Zenon, <1>2, <1>6, <1>7, <1>8, <1>10, <2>1 DEF MyRemoves, p
<1> QED BY Zenon, <1>1, <1>9, <1>11, MyRemoved

\* The tables cleanLinkStrategy writes.
CleanedStrategies(t, links, role, id, owner) ==
    LET linked == {l[1] : l \in {m \in links : m[2] = id /\ m[3] = role}}
        own == {k \in linked \cap DOMAIN t : t[k].default /\ t[k].owner = owner}
    IN  Assign(Assign(t, own, [valid |-> FALSE]), linked, [fresh |-> TRUE])

CleanedLinks(links, role, id) == {l \in links : ~(l[2] = id /\ l[3] = role)}

CleansUp(d, b, role, id, owner) ==
    /\ b.user = d.user /\ b.user_group = d.user_group /\ DOMAIN b = DOMAIN d
    /\ b.auth_strategy = CleanedStrategies(d.auth_strategy, d.auth_principal, role, id, owner)
    /\ b.auth_principal = CleanedLinks(d.auth_principal, role, id)

\* What cleanLinkStrategy (store/mysql/strategy.go) writes.
LEMMA CleanedTables ==
    ASSUME NEW d, MyTables(d), NEW role, NEW id, NEW owner
    PROVE  CleansUp(d, My!cleanLinkStrategy(d, role, id, owner), role, id, owner)
BY Zenon DEF CleansUp, MyTables, My!cleanLinkStrategy, My!Assign, Assign, My!Over, Over, CleanedStrategies, CleanedLinks

\* The principal p is no longer live, the other ones are, with their owners.
Leaves(a, d, p) ==
    /\ p \in Principals(a) /\ Principals(d) = Principals(a) \ {p}
    /\ \A q \in Principals(d) : OwnerOf(d, q) = OwnerOf(a, q)

\* The soft delete of a user takes one principal away.
LEMMA UserLeaves ==
    ASSUME NEW a, NEW d, NEW id \in ValidKeys(a.user), Drops(a.user, d.user, {id}),
           Alike(a.user_group, d.user_group, {"owner"})
    PROVE  Leaves(a, d, <<id, "user">>)
<1> DEFINE p == <<id, "user">>
<1>1. ValidKeys(d.user) = ValidKeys(a.user) \ {id} /\ ValidKeys(d.user_group) = ValidKeys(a.user_group)
      BY Zenon DEF Drops, Alike
<1>2. p \in Principals(a)
      BY Zenon DEF Principals
<1>3. ASSUME NEW q \in Principals(d)
      PROVE  q \in Principals(a) /\ q # p /\ OwnerOf(d, q) = OwnerOf(a, q)
  <2>1. CASE q \in ValidKeys(d.user) \X {"user"}
    <3>1. PICK y \in ValidKeys(a.user) \ {id} : q = <<y, "user">>
          BY <1>1, <2>1
    <3>2. d.user[q[1]] = a.user[q[1]]
          BY Zenon, <3>1 DEF Drops
    <3>3. OwnerOf(d, q) = OwnerOf(a, q)
          BY Zenon, <3>1, <3>2 DEF OwnerOf
    <3> QED BY Zenon, <3>1, <3>3 DEF Principals
  <2>2. CASE q \in ValidKeys(d.user_group) \X {"group"}
    <3>1. q[2] = "group" /\ d.user_group[q[1]].owner = a.user_group[q[1]].owner
          BY Zenon, <1>1, <2>2 DEF Alike
    <3>2. OwnerOf(d, q) = OwnerOf(a, q)
          BY Zenon, <3>1 DEF OwnerOf
    <3> QED BY <1>1, <2>2, <3>1, <3>2 DEF Principals
  <2> QED BY Zenon, <2>1, <2>2 DEF Principals
<1>4. ASSUME NEW q \in Principals(a), q # p
      PROVE  q \in Principals(d)
  <2>1. CASE q \in ValidKeys(a.user) \X {"user"}
    <3>1. PICK y \in ValidKeys(a.user) : q = <<y, "user">>
          BY <2>1
    <3> QED BY Zenon, <1>1, <1>4, <3>1 DEF Principals
  <2>2. CASE q \in ValidKeys(a.user_group) \X {"group"}
        BY Zenon, <1>1, <2>2 DEF Principals
  <2> QED BY Zenon, <2>1, <2>2 DEF Principals
<1> QED BY Zenon, <1>2, <1>3, <1>4 DEF Leaves

\* The soft delete of a group takes one principal away.
LEMMA GroupLeaves ==
    ASSUME NEW a, NEW d, NEW id \in ValidKeys(a.user_group), Drops(a.user_group, d.user_group, {id}),
           d.user = a.user
    PROVE  Leaves(a, d, <<id, "group">>)
<1> DEFINE p == <<id, "group">>
<1>1. ValidKeys(d.user_group) = ValidKeys(a.user_group) \ {id}
      BY Zenon DEF Drops
<1>2. p \in Principals(a)
      BY Zenon DEF Principals
<1>3. ASSUME NEW q \in Principals(d)
      PROVE  q \in Principals(a) /\ q # p /\ OwnerOf(d, q) = OwnerOf(a, q)
  <2>1. CASE q \in ValidKeys(d.user) \X {"user"}
    <3>1. q[2] = "user" /\ d.user[q[1]].owner = a.user[q[1]].owner
          BY Zenon, <2>1
    <3>2. OwnerOf(d, q) = OwnerOf(a, q)
          BY Zenon, <3>1 DEF OwnerOf
    <3> QED BY <2>1, <3>1, <3>2 DEF Principals
  <2>2. CASE q \in ValidKeys(d.user_group) \X {"group"}
    <3>1. PICK y \in ValidKeys(a.user_group) \ {id} : q = <<y, "group">>
          BY <1>1, <2>2
    <3>2. q[2] = "group" /\ d.user_group[q[1]] = a.user_group[q[1]]
          BY Zenon, <3>1 DEF Drops
    <3>3. OwnerOf(d, q) = OwnerOf(a, q)
          BY Zenon, <3>2 DEF OwnerOf
    <3> QED BY Zenon, <3>1, <3>3 DEF Principals
  <2> QED BY Zenon, <2>1, <2>2 DEF Principals
<1>4. ASSUME NEW q \in Principals(a), q # p
      PROVE  q \in Principals(d)
  <2>1. CASE q \in ValidKeys(a.user) \X {"user"}
        BY Zenon, <2>1 DEF Principals
  <2>2. CASE q \in ValidKeys(a.user_group) \X {"group"}
    <3>1. PICK y \in ValidKeys(a.user_group) : q = <<y, "group">>
          BY <2>2
    <3> QED BY Zenon, <1>1, <1>4, <3>1 DEF Principals
  <2> QED BY Zenon, <2>1, <2>2 DEF Principals
<1> QED BY Zenon, <1>2, <1>3, <1>4 DEF Leaves

\* DeleteUser of a sub account: the default strategy is found by its owner,
\* which for a main account is its own id and not the empty owner of the row.
LEMMA MyDeleteUser ==
    ASSUME NEW a, MyInv(a), NEW id \in ValidKeys(a.user), a.user[id].owner # ""
    PROVE  MyInv(My!DeleteUser(a, My!GetUser(a, id)).db)
<1> DEFINE u == My!GetUser(a, id)
           groups == {l[1] : l \in {m \in a.user_group_relation : m[2] = u.id}}
           d == [a EXCEPT !.user = Assign(@, {id}, Removed),
                          !.user_group = Assign(@, groups, [fresh |-> TRUE])]
           c == My!cleanLinkStrategy(a, "user", u.id, u.owner)
           cd == My!cleanLinkStrategy(d, "user", id, a.user[id].owner)
           b == [c EXCEPT !.user = Assign(@, {u.id}, Removed),
                          !.user_group = Assign(@, groups, [fresh |-> TRUE]),
                          !.user_group_relation = {l \in @ : l[2] # u.id}]
<1>0. MyTables(a) /\ Table(a.user, UserFields) /\ Table(a.user_group, GroupFields)
      BY Zenon DEF MyInv, MyTables
<1>1. u.id = id /\ u.owner = a.user[id].owner
  <2>1. u = Over([id |-> id], a.user[id])
        BY Zenon DEF My!GetUser, My!fetchRown2User, My!ValidKeys, ValidKeys, My!Over, Over
  <2>2. DOMAIN a.user[id] = UserFields
        BY Zenon, <1>0 DEF Table, ValidKeys
  <2> QED BY Zenon, <2>1, <2>2 DEF Over, UserFields
<1>2. My!DeleteUser(a, u).db \in {a, b}
      BY Zenon DEF My!DeleteUser, My!deleteUser, My!Done, My!Fail, My!Assign, Assign, My!Over, Over, My!Removed, Removed
<1> HIDE DEF u, groups
<1>3. /\ d.user = Assign(a.user, {id}, Removed) /\ d.user_group = Assign(a.user_group, groups, [fresh |-> TRUE])
      /\ d.auth_strategy = a.auth_strategy /\ d.auth_principal = a.auth_principal /\ DOMAIN d = DOMAIN a
      BY Zenon, <1>0 DEF MyTables
<1> HIDE DEF d
<1>4. Table(d.user, UserFields) /\ Drops(a.user, d.user, {id})
  <2>1. /\ "valid" \in DOMAIN Removed /\ "default" \notin DOMAIN Removed /\ DOMAIN Removed \subseteq UserFields
        /\ Removed.valid = FALSE
        BY Zenon DEF UserFields, Removed
  <2>2. Table(Assign(a.user, {id}, Removed), UserFields) /\ Drops(a.user, Assign(a.user, {id}, Removed), {id})
        BY Zenon, <1>0, <2>1, Deleted
  <2> QED BY Zenon, <1>3, <2>2
<1>5. Table(d.user_group, GroupFields) /\ Alike(a.user_group, d.user_group, {"owner"})
  <2> DEFINE cols == [fresh |-> TRUE]
  <2>1. /\ "valid" \in GroupFields /\ DOMAIN cols \subseteq GroupFields /\ {"owner"} \subseteq GroupFields
        /\ \A f \in DOMAIN cols : f \notin Flags /\ f \notin {"owner"}
        BY Zenon DEF GroupFields, Flags
  <2> HIDE DEF cols
  <2>2. /\ Table(Assign(a.user_group, groups, cols), GroupFields)
        /\ Alike(a.user_group, Assign(a.user_group, groups, cols), {"owner"})
        BY Zenon, <1>0, <2>1, Assigned
  <2> QED BY Zenon, <1>3, <2>2 DEF cols
<1>6. MyTables(d)
      BY Zenon, <1>0, <1>3, <1>4, <1>5 DEF MyTables
<1>8. Leaves(a, d, <<id, "user">>)
      BY Zenon, <1>4, <1>5, UserLeaves
<1>9. OwnerOf(a, <<id, "user">>) = a.user[id].owner
      BY Zenon DEF OwnerOf
<1>10. MyInv(cd)
       BY Zenon, <1>3, <1>6, <1>8, <1>9, CleanLinkStrategy DEF Leaves
<1>11. /\ cd.user = d.user /\ cd.user_group = d.user_group
       /\ cd.auth_strategy = c.auth_strategy /\ cd.auth_principal = c.auth_principal
       /\ c.user = a.user /\ c.user_group = a.user_group /\ DOMAIN c = DOMAIN a
  <2>1. CleansUp(a, c, "user", u.id, u.owner)
        BY Zenon, <1>0, CleanedTables
  <2>2. CleansUp(d, cd, "user", id, a.user[id].owner)
        BY Zenon, <1>6, CleanedTables
  <2> HIDE DEF c, cd
  <2> QED BY Zenon, <1>1, <1>3, <2>1, <2>2 DEF CleansUp
<1> HIDE DEF c, cd
<1>12. /\ b.user = cd.user /\ b.user_group = cd.user_group /\ b.auth_strategy = cd.auth_strategy
       /\ b.auth_principal = cd.auth_principal /\ DOMAIN b = DOMAIN a
       BY Zenon, <1>0, <1>1, <1>3, <1>11 DEF MyTables
<1> HIDE DEF b
<1>13. MyTables(b)
       BY Zenon, <1>0, <1>10, <1>12 DEF MyInv, MyTables
<1>14. MyInv(b)
       BY Zenon, <1>10, <1>12, <1>13, MyFrame, AlikeItself
<1> QED BY Zenon, <1>2, <1>14 DEF u

GroupRow(g) ==
    [name |-> g.name, owner |-> g.owner, token |-> g.token, enable |-> TRUE,
     comment |-> g.comment, valid |-> TRUE, fresh |-> TRUE]

\* AddGroup: cleanInValidGroup, the row, its users, and the default strategy.
LEMMA MyAddGroup ==
    ASSUME NEW a, MyInv(a), NEW g
    PROVE  MyInv(My!AddGroup(a, g).db)
<1> DEFINE gone == {k \in DOMAIN a.user_group : a.user_group[k].name = g.name /\ ~a.user_group[k].valid}
           c == [a EXCEPT !.user_group = Without(@, gone)]
           e == [c EXCEPT !.user_group = Put(@, g.id, GroupRow(g))]
           d == [e EXCEPT !.user_group_relation = @ \cup ({g.id} \X g.users)]
           l == My!addGroupRelation(e, g.id, g.users)
           r == My!createDefaultStrategy(l.db, "group", g.id, g.name, g.owner)
<1>1. \/ My!AddGroup(a, g).db = a
      \/ g.id \notin DOMAIN c.user_group /\ l.err = OK /\ r.err = OK /\ My!AddGroup(a, g).db = r.db
      BY Zenon DEF My!AddGroup, My!addGroup, My!cleanInValidGroup, My!Done, My!Fail, My!OK, OK, My!Without, Without,
         My!Put, Put, GroupRow
<1>2. ASSUME l.err = OK PROVE l.db = d
      BY <1>2, Zenon DEF My!addGroupRelation, My!Done, My!Fail, My!InvalidUserIDSlice, OK
<1>3. \A k \in gone : k \notin ValidKeys(a.user_group)
      BY Zenon DEF ValidKeys
<1> HIDE DEF gone
<1>4. /\ c.user_group = Without(a.user_group, gone) /\ c.user = a.user /\ c.auth_strategy = a.auth_strategy
      /\ c.auth_principal = a.auth_principal /\ DOMAIN c = DOMAIN a
      BY Zenon DEF MyInv, MyTables
<1>5. Table(c.user_group, GroupFields) /\ Alike(a.user_group, c.user_group, {"owner"})
  <2>1. Table(a.user_group, GroupFields)
        BY Zenon DEF MyInv, MyTables
  <2>2. /\ Table(Without(a.user_group, gone), GroupFields)
        /\ Alike(a.user_group, Without(a.user_group, gone), {"owner"})
        BY Zenon, <1>3, <2>1, Cleaned
  <2> QED BY Zenon, <1>4, <2>2
<1> HIDE DEF c
<1>6. MyInv(c)
  <2>1. MyTables(c)
        BY Zenon, <1>4, <1>5 DEF MyInv, MyTables
  <2> QED BY Zenon, <1>4, <1>5, <2>1, MyFrame, AlikeItself
<1>7. ASSUME g.id \notin DOMAIN c.user_group, l.err = OK, r.err = OK PROVE MyInv(r.db)
  <2>1. /\ d.user_group = Put(c.user_group, g.id, GroupRow(g)) /\ d.user = c.user
        /\ d.auth_strategy = c.auth_strategy
        /\ d.auth_principal = c.auth_principal /\ DOMAIN d = DOMAIN c
        BY Zenon, <1>6 DEF MyInv, MyTables
  <2> HIDE DEF d
  <2>2. LiveRow(GroupRow(g), GroupFields) /\ GroupRow(g).owner = g.owner
        BY Zenon DEF LiveRow, GroupRow, GroupFields
  <2>3. Table(d.user_group, GroupFields) /\ Inserts(c.user_group, d.user_group, g.id, GroupRow(g))
        BY Zenon, <1>5, <1>7, <2>1, <2>2, Inserted
  <2>4. MyTables(d)
        BY Zenon, <1>6, <2>1, <2>3 DEF MyInv, MyTables
  <2>5. <<g.id, "group">> \notin Principals(c) /\ Principals(d) = Principals(c) \cup {<<g.id, "group">>}
        BY <2>1, <2>3 DEF Principals, Inserts
  <2>6. \A q \in Principals(c) : OwnerOf(d, q) = OwnerOf(c, q)
    <3> SUFFICES ASSUME NEW q \in Principals(c) PROVE OwnerOf(d, q) = OwnerOf(c, q)
        BY Zenon
    <3>1. CASE q \in ValidKeys(c.user) \X {"user"}
          BY <2>1, <3>1 DEF OwnerOf
    <3>2. CASE q \in ValidKeys(c.user_group) \X {"group"}
          BY Zenon, <2>3, <3>2 DEF Inserts, OwnerOf
    <3> QED BY Zenon, <3>1, <3>2 DEF Principals
  <2>7. OwnerOf(d, <<g.id, "group">>) = IF g.owner = "" THEN g.id ELSE g.owner
        BY Zenon, <2>2, <2>3 DEF Inserts, OwnerOf
  <2>8. r = My!createDefaultStrategy(d, "group", g.id, g.name, g.owner)
        BY Zenon, <1>2, <1>7
  <2> HIDE DEF r
  <2> QED BY Zenon, <1>6, <1>7, <2>1, <2>4, <2>5, <2>6, <2>7, <2>8, CreateDefaultStrategy
<1> QED BY Zenon, <1>1, <1>7

\* UpdateGroup writes the group's columns and its users.
LEMMA MyUpdateGroup ==
    ASSUME NEW a, MyInv(a), NEW g
    PROVE  MyInv(My!UpdateGroup(a, g).db)
<1> DEFINE cols == Touched([token |-> g.token, comment |-> g.comment, enable |-> g.enable])
           ks == {g.id} \cap ValidKeys(a.user_group)
           c == [a EXCEPT !.user_group_relation = @ \cup ({g.id} \X g.addUsers)]
           d == [c EXCEPT !.user_group_relation = @ \ ({g.id} \X g.removeUsers)]
           e == [d EXCEPT !.user_group = Assign(@, {g.id} \cap ValidKeys(@), cols)]
           added == My!addGroupRelation(a, g.id, g.addUsers)
           left == My!removeGroupRelation(added.db, g.id, g.removeUsers)
           b == [left.db EXCEPT !.user_group = Assign(@, {g.id} \cap ValidKeys(@), cols)]
<1>1. \/ My!UpdateGroup(a, g).db = a
      \/ added.err = OK /\ left.err = OK /\ My!UpdateGroup(a, g).db = b
      BY Zenon DEF My!UpdateGroup, My!updateGroup, My!Done, My!Fail, My!OK, OK, My!Touched, Touched,
         My!Assign, Assign, My!Over, Over, My!ValidKeys, ValidKeys
<1>2. ASSUME added.err = OK, left.err = OK PROVE b = e
  <2>1. added.db = c
        BY Zenon, <1>2 DEF My!addGroupRelation, My!Done, My!Fail, My!InvalidUserIDSlice, OK
  <2>2. left = My!removeGroupRelation(c, g.id, g.removeUsers)
        BY Zenon, <2>1
  <2> HIDE DEF added, left, cols, c
  <2>3. left.db = d
        BY Zenon, <1>2, <2>2 DEF My!removeGroupRelation, My!Done, My!Fail, My!InvalidUserIDSlice, OK
  <2> QED BY Zenon, <2>3
<1>3. DOMAIN cols = {"fresh", "token", "comment", "enable"}
      BY Zenon DEF Touched, Over
<1> HIDE DEF cols, b
<1>4. /\ e.user_group = Assign(a.user_group, ks, cols) /\ e.user = a.user /\ e.auth_strategy = a.auth_strategy
      /\ e.auth_principal = a.auth_principal /\ DOMAIN e = DOMAIN a
      BY Zenon DEF MyInv, MyTables
<1> HIDE DEF e, ks
<1>5. Table(e.user_group, GroupFields) /\ Alike(a.user_group, e.user_group, {"owner"})
  <2>1. Table(a.user_group, GroupFields)
        BY Zenon DEF MyInv, MyTables
  <2>2. /\ "valid" \in GroupFields /\ DOMAIN cols \subseteq GroupFields /\ {"owner"} \subseteq GroupFields
        /\ \A f \in DOMAIN cols : f \notin Flags /\ f \notin {"owner"}
        BY Zenon, <1>3 DEF GroupFields, Flags
  <2>3. /\ Table(Assign(a.user_group, ks, cols), GroupFields)
        /\ Alike(a.user_group, Assign(a.user_group, ks, cols), {"owner"})
        BY Zenon, <2>1, <2>2, Assigned
  <2> QED BY Zenon, <1>4, <2>3
<1>6. MyTables(e)
      BY Zenon, <1>4, <1>5 DEF MyInv, MyTables
<1>7. MyInv(e)
      BY Zenon, <1>4, <1>5, <1>6, MyFrame, AlikeItself
<1> QED BY Zenon, <1>1, <1>2, <1>7

\* DeleteGroup of a group, which always has an owner.
LEMMA MyDeleteGroup ==
    ASSUME NEW a, MyInv(a), NEW id \in ValidKeys(a.user_group), a.user_group[id].owner # ""
    PROVE  MyInv(My!DeleteGroup(a, My!GetGroup(a, id)).db)
<1> DEFINE g == My!GetGroup(a, id)
           owner == a.user_group[id].owner
           d == [a EXCEPT !.user_group_relation = {l \in @ : l[1] # id},
                          !.user_group = Assign(@, {id}, Removed)]
           b == My!cleanLinkStrategy(d, "group", id, owner)
<1>0. MyTables(a) /\ Table(a.user_group, GroupFields)
      BY Zenon DEF MyInv, MyTables
<1>1. g.id = id /\ g.owner = owner
  <2> DEFINE users == [users |-> My!getGroupLinkUserIds(a, id)]
             row == a.user_group[id]
  <2>1. g = Over(users, Over([id |-> id], row))
        BY Zenon DEF My!GetGroup, My!fetchRown2UserGroup, My!ValidKeys, ValidKeys, My!Over, Over
  <2>2. DOMAIN row = GroupFields /\ DOMAIN users = {"users"}
        BY Zenon, <1>0 DEF Table, ValidKeys
  <2> HIDE DEF users, row
  <2>3. DOMAIN Over([id |-> id], row) = {"id"} \cup GroupFields /\ Over([id |-> id], row).id = id
        /\ Over([id |-> id], row).owner = row.owner
        BY Zenon, <2>2 DEF Over, GroupFields
  <2> QED BY Zenon, <2>1, <2>2, <2>3 DEF Over, GroupFields, row
<1>2. My!DeleteGroup(a, g).db \in {a, b}
  <2> HIDE DEF g
  <2> QED BY Zenon, <1>1 DEF My!DeleteGroup, My!deleteUserGroup, My!Done, My!Fail, My!Assign, Assign, My!Over, Over,
             My!Removed, Removed
<1> HIDE DEF g
<1>3. /\ d.user_group = Assign(a.user_group, {id}, Removed) /\ d.user = a.user
      /\ d.auth_strategy = a.auth_strategy /\ d.auth_principal = a.auth_principal /\ DOMAIN d = DOMAIN a
      BY Zenon, <1>0 DEF MyTables
<1> HIDE DEF d
<1>4. Table(d.user_group, GroupFields) /\ Drops(a.user_group, d.user_group, {id})
  <2>1. /\ "valid" \in DOMAIN Removed /\ "default" \notin DOMAIN Removed /\ DOMAIN Removed \subseteq GroupFields
        /\ Removed.valid = FALSE
        BY Zenon DEF GroupFields, Removed
  <2>2. /\ Table(Assign(a.user_group, {id}, Removed), GroupFields)
        /\ Drops(a.user_group, Assign(a.user_group, {id}, Removed), {id})
        BY Zenon, <1>0, <2>1, Deleted
  <2> QED BY Zenon, <1>3, <2>2
<1>5. MyTables(d)
      BY Zenon, <1>0, <1>3, <1>4 DEF MyTables
<1>6. Leaves(a, d, <<id, "group">>)
      BY Zenon, <1>3, <1>4, GroupLeaves
<1>7. OwnerOf(a, <<id, "group">>) = owner
      BY Zenon DEF OwnerOf
<1>8. MyInv(b)
      BY Zenon, <1>3, <1>5, <1>6, <1>7, CleanLinkStrategy DEF Leaves
<1> QED BY Zenon, <1>2, <1>8 DEF g

\* Columns of strategies that are no flags, and tables that hold no principals.
LEMMA StrategiesWritten ==
    ASSUME NEW a, MyInv(a), NEW b, NEW ks, NEW cols, DOMAIN cols \subseteq {"fresh", "comment"},
           b.user = a.user, b.user_group = a.user_group, b.auth_principal = a.auth_principal,
           b.auth_strategy = Assign(a.auth_strategy, ks, cols), DOMAIN b = DOMAIN a
    PROVE  MyInv(b)
<1> DEFINE fs == {"owner", "default"}
<1>1. Table(a.auth_strategy, StrategyFields)
      BY Zenon DEF MyInv, MyTables
<1>2. /\ "valid" \in StrategyFields /\ DOMAIN cols \subseteq StrategyFields /\ fs \subseteq StrategyFields
      /\ \A f \in DOMAIN cols : f \notin Flags /\ f \notin fs
      BY Zenon DEF StrategyFields, Flags
<1> HIDE DEF fs
<1>3. /\ Table(Assign(a.auth_strategy, ks, cols), StrategyFields)
      /\ Alike(a.auth_strategy, Assign(a.auth_strategy, ks, cols), fs)
      BY Zenon, <1>1, <1>2, Assigned
<1>4. MyTables(b)
      BY Zenon, <1>3 DEF MyInv, MyTables
<1> QED BY Zenon, <1>3, <1>4, MyFrame, AlikeItself DEF fs

\* AddStrategy of a strategy that is not a default one.
LEMMA MyAddStrategy ==
    ASSUME NEW a, MyInv(a), NEW s, s.default = FALSE
    PROVE  MyInv(My!AddStrategy(a, s).db)
<1> DEFINE gone == {k \in DOMAIN a.auth_strategy :
                      a.auth_strategy[k].name = s.name /\ a.auth_strategy[k].owner = s.owner /\ ~a.auth_strategy[k].valid}
           c == [a EXCEPT !.auth_strategy = Without(@, gone)]
           row == [name |-> s.name, owner |-> s.owner, comment |-> s.comment, default |-> s.default,
                   valid |-> TRUE, fresh |-> TRUE]
           e == [c EXCEPT !.auth_principal = @ \cup {<<s.id, p[1], p[2]>> : p \in s.principals}]
           d == [e EXCEPT !.auth_strategy_resource = @ \cup s.resources]
           b == [d EXCEPT !.auth_strategy = Put(@, s.id, row)]
<1>1. \/ My!AddStrategy(a, s).db = a
      \/ My!AddStrategy(a, s).db = c
      \/ s.id \notin DOMAIN c.auth_strategy /\ My!AddStrategy(a, s).db = b
      BY Zenon DEF My!AddStrategy, My!addStrategy, My!cleanInvalidStrategy, My!addStrategyResources,
         My!addStrategyPrincipals, My!Done, My!Fail, My!Without, Without, My!Put, Put
<1>2. \A k \in gone : k \notin ValidKeys(a.auth_strategy)
      BY Zenon DEF ValidKeys
<1> HIDE DEF gone
<1>3. /\ c.user = a.user /\ c.user_group = a.user_group /\ c.auth_strategy = Without(a.auth_strategy, gone)
      /\ c.auth_principal = a.auth_principal /\ DOMAIN c = DOMAIN a
      BY Zenon DEF MyInv, MyTables
<1>4. Table(c.auth_strategy, StrategyFields) /\ Alike(a.auth_strategy, c.auth_strategy, {"owner", "default"})
  <2>1. Table(a.auth_strategy, StrategyFields)
        BY Zenon DEF MyInv, MyTables
  <2>2. /\ Table(Without(a.auth_strategy, gone), StrategyFields)
        /\ Alike(a.auth_strategy, Without(a.auth_strategy, gone), {"owner", "default"})
        BY Zenon, <1>2, <2>1, Cleaned
  <2> QED BY Zenon, <1>3, <2>2
<1> HIDE DEF c
<1>5. MyInv(c)
  <2>1. MyTables(c)
        BY Zenon, <1>3, <1>4 DEF MyInv, MyTables
  <2> QED BY Zenon, <1>3, <1>4, <2>1, MyFrame, AlikeItself
<1>6. ASSUME s.id \notin DOMAIN c.auth_strategy PROVE MyInv(b)
  <2> DEFINE links == {<<s.id, p[1], p[2]>> : p \in s.principals}
  <2>1. /\ b.user = c.user /\ b.user_group = c.user_group /\ b.auth_strategy = Put(c.auth_strategy, s.id, row)
        /\ b.auth_principal = c.auth_principal \cup links /\ DOMAIN b = DOMAIN c
        BY Zenon, <1>5 DEF MyInv, MyTables
  <2>2. LiveRow(row, StrategyFields) /\ row.default = FALSE
        BY Zenon DEF LiveRow, StrategyFields
  <2>3. \A l \in links : l = <<l[1], l[2], l[3]>> /\ l[1] = s.id
        OBVIOUS
  <2> HIDE DEF b, row, links
  <2>4. Table(b.auth_strategy, StrategyFields) /\ Inserts(c.auth_strategy, b.auth_strategy, s.id, row)
        BY Zenon, <1>4, <1>6, <2>1, <2>2, Inserted
  <2>5. MyTables(b)
    <3>1. \A l \in b.auth_principal : l = <<l[1], l[2], l[3]>>
          BY Zenon, <1>5, <2>1, <2>3 DEF MyInv, MyTables
    <3> QED BY Zenon, <1>5, <2>1, <2>4, <3>1 DEF MyInv, MyTables
  <2>6. Principals(b) = Principals(c) /\ \A p : OwnerOf(b, p) = OwnerOf(c, p)
        BY <2>1 DEF Principals, OwnerOf
  <2>7. Defaults(b) = Defaults(c) /\ \A k \in Defaults(c) : b.auth_strategy[k] = c.auth_strategy[k] /\ k # s.id
        BY Zenon, <2>2, <2>4 DEF Defaults, Inserts
  <2>8. \A k \in Defaults(c) : \A id, role :
          <<k, id, role>> \in b.auth_principal <=> <<k, id, role>> \in c.auth_principal
    <3> SUFFICES ASSUME NEW k \in Defaults(c), NEW id, NEW role PROVE <<k, id, role>> \notin links
        BY Zenon, <2>1
    <3>1. <<k, id, role>>[1] = k
          BY Zenon
    <3> QED BY Zenon, <2>3, <2>7, <3>1
  <2>9. MyLinks(b)
        BY Zenon, <1>5, <2>1, <2>3, <2>4 DEF MyInv, MyLinks, Inserts
  <2>10. MyKeeps(c, b)
         BY Zenon, <2>6, <2>7, <2>8, <2>9 DEF MyKeeps
  <2> QED BY Zenon, <1>5, <2>5, <2>10, MyKept
<1> QED BY Zenon, <1>1, <1>5, <1>6

\* UpdateStrategy, which leaves the principals of a default strategy alone.
LEMMA MyUpdateStrategy ==
    ASSUME NEW a, MyInv(a), NEW s, s.id \in ValidKeys(a.auth_strategy),
           a.auth_strategy[s.id].default => s.addPrincipals = {} /\ s.removePrincipals = {}
    PROVE  MyInv(My!UpdateStrategy(a, s).db)
<1> DEFINE add == {<<s.id, p[1], p[2]>> : p \in s.addPrincipals}
           remove == {<<s.id, p[1], p[2]>> : p \in s.removePrincipals}
           cols == Touched([comment |-> s.comment])
           d == [a EXCEPT !.auth_principal = @ \cup add]
           e == [d EXCEPT !.auth_principal = @ \ remove]
           f == [e EXCEPT !.auth_strategy_resource = @ \cup s.addResources]
           h == [f EXCEPT !.auth_strategy_resource = @ \ s.removeResources]
           b == [h EXCEPT !.auth_strategy = Assign(@, {s.id}, cols)]
           c == [a EXCEPT !.auth_strategy = Assign(@, {s.id}, cols)]
<1>1. My!UpdateStrategy(a, s).db \in {a, b}
      BY Zenon DEF My!UpdateStrategy, My!updateStrategy, My!deleteStrategyPrincipals, My!addStrategyPrincipals,
         My!deleteStrategyResources, My!addStrategyResources, My!Done, My!Fail, My!Assign, Assign, My!Touched,
         Touched, My!Over, Over
<1>2. DOMAIN cols \subseteq {"fresh", "comment"}
      BY Zenon DEF Touched, Over
<1>3. /\ \A l \in add : l = <<l[1], l[2], l[3]>> /\ l[1] = s.id
      /\ \A l \in remove : l = <<l[1], l[2], l[3]>> /\ l[1] = s.id
      OBVIOUS
<1>4. a.auth_strategy[s.id].default => add = {} /\ remove = {}
      BY Zenon
<1> HIDE DEF cols, add, remove
<1>5. /\ c.user = a.user /\ c.user_group = a.user_group /\ c.auth_strategy = Assign(a.auth_strategy, {s.id}, cols)
      /\ c.auth_principal = a.auth_principal /\ DOMAIN c = DOMAIN a
      BY Zenon DEF MyInv, MyTables
<1>6. /\ b.user = c.user /\ b.user_group = c.user_group /\ b.auth_strategy = c.auth_strategy
      /\ b.auth_principal = (c.auth_principal \cup add) \ remove /\ DOMAIN b = DOMAIN c
      BY Zenon, <1>5 DEF MyInv, MyTables
<1> HIDE DEF b, c
<1>7. MyInv(c)
      BY Zenon, <1>2, <1>5, StrategiesWritten
<1>8. MyTables(b)
  <2>1. \A l \in b.auth_principal : l = <<l[1], l[2], l[3]>>
        BY Zenon, <1>3, <1>6, <1>7 DEF MyInv, MyTables
  <2> QED BY Zenon, <1>6, <1>7, <2>1 DEF MyInv, MyTables
<1>9. Principals(b) = Principals(c) /\ (\A p : OwnerOf(b, p) = OwnerOf(c, p)) /\ Defaults(b) = Defaults(c)
      BY <1>6 DEF Principals, OwnerOf, Defaults
<1>10. ValidKeys(c.auth_strategy) = ValidKeys(a.auth_strategy) /\ Defaults(c) = Defaults(a)
  <2> DEFINE fs == {"owner", "default"}
  <2>1. Table(a.auth_strategy, StrategyFields)
        BY Zenon DEF MyInv, MyTables
  <2>2. /\ "valid" \in StrategyFields /\ DOMAIN cols \subseteq StrategyFields /\ fs \subseteq StrategyFields
        /\ \A i \in DOMAIN cols : i \notin Flags /\ i \notin fs
        BY Zenon, <1>2 DEF StrategyFields, Flags
  <2> HIDE DEF fs
  <2>3. Alike(a.auth_strategy, Assign(a.auth_strategy, {s.id}, cols), fs)
        BY Zenon, <2>1, <2>2, Assigned
  <2>4. "default" \in fs
        BY Zenon DEF fs
  <2>5. /\ ValidKeys(c.auth_strategy) = ValidKeys(a.auth_strategy)
        /\ \A k \in ValidKeys(a.auth_strategy) : c.auth_strategy[k].default = a.auth_strategy[k].default
        BY Zenon, <1>5, <2>3, <2>4 DEF Alike
  <2> QED BY Zenon, <2>5 DEF Defaults
<1>11. MyLinks(b)
       BY Zenon, <1>3, <1>6, <1>7, <1>10 DEF MyInv, MyLinks
<1>12. \A k \in Defaults(c) : \A id, role :
         <<k, id, role>> \in b.auth_principal <=> <<k, id, role>> \in c.auth_principal
  <2> SUFFICES ASSUME NEW k \in Defaults(c), NEW id, NEW role
               PROVE  <<k, id, role>> \notin add /\ <<k, id, role>> \notin remove
      BY Zenon, <1>6
  <2>1. <<k, id, role>>[1] = k /\ k \in Defaults(a)
        BY Zenon, <1>10
  <2>2. k = s.id => add = {} /\ remove = {}
        BY Zenon, <1>4, <2>1 DEF Defaults
  <2> QED BY Zenon, <1>3, <2>1, <2>2
<1>13. MyKeeps(c, b)
       BY Zenon, <1>6, <1>9, <1>11, <1>12 DEF MyKeeps
<1>14. MyInv(b)
       BY Zenon, <1>7, <1>8, <1>13, MyKept
<1> QED BY Zenon, <1>1, <1>14

\* DeleteStrategy of a strategy that is not a default one.
LEMMA MyDeleteStrategy ==
    ASSUME NEW a, MyInv(a), NEW id, id \notin Defaults(a)
    PROVE  MyInv(My!DeleteStrategy(a, id).db)
<1> DEFINE b == [a EXCEPT !.auth_strategy = Assign(@, {id}, Removed),
                          !.auth_strategy_resource = {r \in @ : r[1] # id},
                          !.auth_principal = {p \in @ : p[1] # id}]
<1>1. My!DeleteStrategy(a, id).db \in {a, b}
      BY Zenon DEF My!DeleteStrategy, My!deleteStrategy, My!Done, My!Fail, My!Assign, Assign, My!Over, Over,
         My!Removed, Removed
<1>2. /\ b.user = a.user /\ b.user_group = a.user_group /\ b.auth_strategy = Assign(a.auth_strategy, {id}, Removed)
      /\ b.auth_principal = {p \in a.auth_principal : p[1] # id} /\ DOMAIN b = DOMAIN a
      BY Zenon DEF MyInv, MyTables
<1> HIDE DEF b
<1>3. Table(b.auth_strategy, StrategyFields) /\ Drops(a.auth_strategy, b.auth_strategy, {id})
  <2>1. /\ "valid" \in DOMAIN Removed /\ "default" \notin DOMAIN Removed /\ DOMAIN Removed \subseteq StrategyFields
        /\ Removed.valid = FALSE
        BY Zenon DEF StrategyFields, Removed
  <2>2. Table(a.auth_strategy, StrategyFields)
        BY Zenon DEF MyInv, MyTables
  <2>3. /\ Table(Assign(a.auth_strategy, {id}, Removed), StrategyFields)
        /\ Drops(a.auth_strategy, Assign(a.auth_strategy, {id}, Removed), {id})
        BY Zenon, <2>1, <2>2, Deleted
  <2> QED BY Zenon, <1>2, <2>3
<1>4. MyTables(b)
      BY Zenon, <1>2, <1>3 DEF MyInv, MyTables
<1>5. Principals(b) = Principals(a) /\ \A p : OwnerOf(b, p) = OwnerOf(a, p)
      BY <1>2 DEF Principals, OwnerOf
<1>6. Defaults(b) = Defaults(a) /\ \A k \in Defaults(a) : b.auth_strategy[k] = a.auth_strategy[k]
      BY Zenon, <1>3 DEF Defaults, Drops
<1>7. \A k \in Defaults(a) : \A i, role :
        <<k, i, role>> \in b.auth_principal <=> <<k, i, role>> \in a.auth_principal
      BY Zenon, <1>2
<1>8. MyLinks(b)
      BY Zenon, <1>2, <1>3 DEF MyInv, MyLinks, Drops
<1>9. MyKeeps(a, b)
      BY Zenon, <1>5, <1>6, <1>7, <1>8 DEF MyKeeps
<1>10. MyInv(b)
       BY Zenon, <1>4, <1>9, MyKept
<1> QED BY Zenon, <1>1, <1>10

\* LooseAddStrategyResources and RemoveStrategyResources.
LEMMA MyResources ==
    ASSUME NEW a, MyInv(a), NEW rs
    PROVE  MyInv(My!LooseAddStrategyResources(a, rs).db) /\ MyInv(My!RemoveStrategyResources(a, rs).db)
<1> DEFINE ks == {r[1] : r \in rs}
           cols == [fresh |-> TRUE]
           b == [a EXCEPT !.auth_strategy_resource = @ \cup rs, !.auth_strategy = Assign(@, ks, cols)]
           c == [a EXCEPT !.auth_strategy_resource = @ \ rs, !.auth_strategy = Assign(@, ks, cols)]
<1>1. My!LooseAddStrategyResources(a, rs).db = b /\ My!RemoveStrategyResources(a, rs).db \in {a, c}
      BY Zenon DEF My!LooseAddStrategyResources, My!RemoveStrategyResources, My!Done, My!Fail, My!Assign, Assign,
         My!Over, Over
<1>2. DOMAIN cols \subseteq {"fresh", "comment"}
      BY Zenon
<1> HIDE DEF ks, cols
<1>3. /\ b.user = a.user /\ b.user_group = a.user_group /\ b.auth_strategy = Assign(a.auth_strategy, ks, cols)
      /\ b.auth_principal = a.auth_principal /\ DOMAIN b = DOMAIN a
      BY Zenon DEF MyInv, MyTables
<1>4. /\ c.user = a.user /\ c.user_group = a.user_group /\ c.auth_strategy = Assign(a.auth_strategy, ks, cols)
      /\ c.auth_principal = a.auth_principal /\ DOMAIN c = DOMAIN a
      BY Zenon DEF MyInv, MyTables
<1> HIDE DEF b, c
<1>5. MyInv(b) /\ MyInv(c)
      BY Zenon, <1>2, <1>3, <1>4, StrategiesWritten
<1> QED BY Zenon, <1>1, <1>5

\* A poll marks the rows it has read.
PollUsers(db, us, gs) == [db EXCEPT !.user = Polled(@, us), !.user_group = Polled(@, gs)]
PollStrategies(db, ks) == [db EXCEPT !.auth_strategy = Polled(@, ks)]

\* A poll of the users and groups marks them as read.
LEMMA MyPollUsers ==
    ASSUME NEW a, MyInv(a), NEW us, NEW gs
    PROVE  MyInv(PollUsers(a, us, gs))
<1> DEFINE b == PollUsers(a, us, gs)
           cols == [fresh |-> FALSE]
<1>1. /\ b.user = Assign(a.user, us, cols) /\ b.user_group = Assign(a.user_group, gs, cols)
      /\ b.auth_strategy = a.auth_strategy /\ b.auth_principal = a.auth_principal /\ DOMAIN b = DOMAIN a
      BY Zenon DEF MyInv, MyTables, PollUsers, Polled
<1>2. DOMAIN cols = {"fresh"}
      BY Zenon
<1> HIDE DEF b, cols
<1>3. Table(a.user, UserFields) /\ Table(a.user_group, GroupFields)
      BY Zenon DEF MyInv, MyTables
<1>4. /\ "valid" \in UserFields /\ DOMAIN cols \subseteq UserFields /\ {"owner"} \subseteq UserFields
      /\ "valid" \in GroupFields /\ DOMAIN cols \subseteq GroupFields /\ {"owner"} \subseteq GroupFields
      /\ \A f \in DOMAIN cols : f \notin Flags /\ f \notin {"owner"}
      BY Zenon, <1>2 DEF UserFields, GroupFields, Flags
<1>5. Table(Assign(a.user, us, cols), UserFields) /\ Alike(a.user, Assign(a.user, us, cols), {"owner"})
      BY Zenon, <1>3, <1>4, Assigned
<1>6. /\ Table(Assign(a.user_group, gs, cols), GroupFields)
      /\ Alike(a.user_group, Assign(a.user_group, gs, cols), {"owner"})
      BY Zenon, <1>3, <1>4, Assigned
<1>7. MyTables(b)
      BY Zenon, <1>1, <1>5, <1>6 DEF MyInv, MyTables
<1>8. MyInv(b)
      BY Zenon, <1>1, <1>5, <1>6, <1>7, MyFrame, AlikeItself
<1> QED BY Zenon, <1>8 DEF b

\* A poll of the strategies marks them as read.
LEMMA MyPollStrategies ==
    ASSUME NEW a, MyInv(a), NEW ks
    PROVE  MyInv(PollStrategies(a, ks))
<1> DEFINE b == PollStrategies(a, ks)
           cols == [fresh |-> FALSE]
<1>1. /\ b.user = a.user /\ b.user_group = a.user_group /\ b.auth_strategy = Assign(a.auth_strategy, ks, cols)
      /\ b.auth_principal = a.auth_principal /\ DOMAIN b = DOMAIN a
      BY Zenon DEF MyInv, MyTables, PollStrategies, Polled
<1>2. DOMAIN cols \subseteq {"fresh", "comment"}
      BY Zenon
<1> HIDE DEF b, cols
<1>3. MyInv(b)
      BY Zenon, <1>1, <1>2, StrategiesWritten
<1> QED BY Zenon, <1>3 DEF b

-----------------------------------------------------------------------------
\* The arguments the handlers give to the methods.
Links == Text \X {"user", "group"}
Resources == Text \X Text \X Text

UserArgs == [id : Text, name : Text, owner : Text, type : Text, token : Text, comment : Text, enable : BOOLEAN]
GroupArgs == [id : Text, name : Text, owner : Text, token : Text, comment : Text, enable : BOOLEAN,
              users : SUBSET Text]
GroupChanges == [id : Text, token : Text, comment : Text, enable : BOOLEAN, addUsers : SUBSET Text,
                 removeUsers : SUBSET Text]
StrategyArgs == [id : Text, name : Text, owner : Text, comment : Text, default : {FALSE},
                 principals : SUBSET Links, resources : SUBSET Resources]
StrategyChanges == [id : Text, comment : Text, addPrincipals : SUBSET Links, removePrincipals : SUBSET Links,
                    addResources : SUBSET Resources, removeResources : SUBSET Resources]

\* The principals of a default strategy are not changed (checkUpdateStrategy).
Fixed(db, s) == db.auth_strategy[s.id].default => s.addPrincipals = {} /\ s.removePrincipals = {}

\* store/mysql under the handlers, in any order and with any arguments. The
\* main account, which comes with the database, is a user without an owner.
MyInit == tables = My!EmptyAuth

MyNext ==
    \/ \E u \in UserArgs : tables' = My!AddUser(tables, u).db \/ tables' = My!UpdateUser(tables, u).db
    \/ \E id \in ValidKeys(tables.user) :
         tables.user[id].owner # "" /\ tables' = My!DeleteUser(tables, My!GetUser(tables, id)).db
    \/ \E g \in GroupArgs : tables' = My!AddGroup(tables, g).db
    \/ \E g \in GroupChanges : tables' = My!UpdateGroup(tables, g).db
    \/ \E id \in ValidKeys(tables.user_group) :
         tables.user_group[id].owner # "" /\ tables' = My!DeleteGroup(tables, My!GetGroup(tables, id)).db
    \/ \E s \in StrategyArgs : tables' = My!AddStrategy(tables, s).db
    \/ \E s \in StrategyChanges :
         /\ s.id \in ValidKeys(tables.auth_strategy) /\ Fixed(tables, s)
         /\ tables' = My!UpdateStrategy(tables, s).db
    \/ \E id \in ValidKeys(tables.auth_strategy) :
         ~tables.auth_strategy[id].default /\ tables' = My!DeleteStrategy(tables, id).db
    \/ \E rs \in SUBSET Resources :
         \/ tables' = My!LooseAddStrategyResources(tables, rs).db
         \/ tables' = My!RemoveStrategyResources(tables, rs).db
    \/ tables' = PollUsers(tables, DOMAIN My!GetUsersForCache(tables, FALSE),
                           DOMAIN My!GetGroupsForCache(tables, FALSE))
    \/ tables' = PollStrategies(tables, DOMAIN My!GetStrategyDetailsForCache(tables, FALSE))

MySpec == MyInit /\ [][MyNext]_tables

(* Through any sequence of calls of store/mysql, every live user and group  *)
(* has exactly one live default strategy, which names it and nothing else,  *)
(* and every live default strategy has its principal (createDefaultStrategy *)
(* and cleanLinkStrategy in AddUser, AddGroup, DeleteUser, DeleteGroup).    *)
(* The proviso is that no main account is deleted: DeleteUser leaves its    *)
(* default strategy, for it looks for the owner of the user's row.          *)
THEOREM MyDefaults == MySpec => []MyOneDefault(tables)
<1>1. MyInit => MyInv(tables)
  <2> SUFFICES ASSUME MyInit PROVE MyInv(tables)
      BY Zenon
  <2>1. /\ tables.user = << >> /\ tables.user_group = << >> /\ tables.auth_strategy = << >>
        /\ tables.auth_principal = {} /\ MyTables(tables)
        BY DEF MyInit, My!EmptyAuth, MyTables, Table
  <2>2. Principals(tables) = {} /\ Defaults(tables) = {}
        BY <2>1 DEF Principals, Defaults, ValidKeys
  <2>3. OneEach({}, MyNamed(tables))
        BY Zenon, <2>2 DEF OneEach, MyNamed
  <2> QED BY Zenon, <2>1, <2>2, <2>3 DEF MyInv, MyOneDefault, MyLinks, MyOwners
<1>2. MyInv(tables) /\ [MyNext]_tables => MyInv(tables)'
  <2> SUFFICES ASSUME MyInv(tables), [MyNext]_tables PROVE MyInv(tables')
      BY Zenon
  <2>1. ASSUME NEW u \in UserArgs, tables' = My!AddUser(tables, u).db PROVE MyInv(tables')
        BY Zenon, <2>1, MyAddUser
  <2>2. ASSUME NEW u \in UserArgs, tables' = My!UpdateUser(tables, u).db PROVE MyInv(tables')
        BY Zenon, <2>2, MyUpdateUser
  <2>3. ASSUME NEW id \in ValidKeys(tables.user), tables.user[id].owner # "",
               tables' = My!DeleteUser(tables, My!GetUser(tables, id)).db
        PROVE  MyInv(tables')
        BY Zenon, <2>3, MyDeleteUser
  <2>4. ASSUME NEW g \in GroupArgs, tables' = My!AddGroup(tables, g).db PROVE MyInv(tables')
        BY Zenon, <2>4, MyAddGroup
  <2>5. ASSUME NEW g \in GroupChanges, tables' = My!UpdateGroup(tables, g).db PROVE MyInv(tables')
        BY Zenon, <2>5, MyUpdateGroup
  <2>6. ASSUME NEW id \in ValidKeys(tables.user_group), tables.user_group[id].owner # "",
               tables' = My!DeleteGroup(tables, My!GetGroup(tables, id)).db
        PROVE  MyInv(tables')
        BY Zenon, <2>6, MyDeleteGroup
  <2>7. ASSUME NEW s \in StrategyArgs, tables' = My!AddStrategy(tables, s).db PROVE MyInv(tables')
    <3>1. s.default = FALSE
          BY Zenon DEF StrategyArgs
    <3> QED BY Zenon, <2>7, <3>1, MyAddStrategy
  <2>8. ASSUME NEW s \in StrategyChanges, s.id \in ValidKeys(tables.auth_strategy), Fixed(tables, s),
               tables' = My!UpdateStrategy(tables, s).db
        PROVE  MyInv(tables')
        BY Zenon, <2>8, MyUpdateStrategy DEF Fixed
  <2>9. ASSUME NEW id \in ValidKeys(tables.auth_strategy), ~tables.auth_strategy[id].default,
               tables' = My!DeleteStrategy(tables, id).db
        PROVE  MyInv(tables')
    <3>1. id \notin Defaults(tables)
          BY Zenon, <2>9 DEF Defaults
    <3> QED BY Zenon, <2>9, <3>1, MyDeleteStrategy
  <2>10. ASSUME NEW rs \in SUBSET Resources,
                \/ tables' = My!LooseAddStrategyResources(tables, rs).db
                \/ tables' = My!RemoveStrategyResources(tables, rs).db
         PROVE  MyInv(tables')
         BY Zenon, <2>10, MyResources
  <2>11. ASSUME NEW us, NEW gs, tables' = PollUsers(tables, us, gs) PROVE MyInv(tables')
         BY Zenon, <2>11, MyPollUsers
  <2>12. ASSUME NEW ks, tables' = PollStrategies(tables, ks) PROVE MyInv(tables')
         BY Zenon, <2>12, MyPollStrategies
  <2>13. CASE UNCHANGED tables
         BY Zenon, <2>13
  <2> QED BY Zenon, <2>1, <2>2, <2>3, <2>4, <2>5, <2>6, <2>7, <2>8, <2>9, <2>10, <2>11, <2>12, <2>13 DEF MyNext
<1>3. MyInv(tables) => MyOneDefault(tables)
      BY Zenon DEF MyInv
<1> QED BY <1>1, <1>2, <1>3, PTL DEF MySpec

-----------------------------------------------------------------------------
\* store/boltdb

BoltGroupFields == GroupFields \cup {"users"}
BoltStrategyFields == StrategyFields \cup {"principals", "resources", "dated"}

BoltTables(db) ==
    /\ DOMAIN db = {"user", "user_group", "auth_strategy"}
    /\ Table(db.user, UserFields)
    /\ Table(db.user_group, BoltGroupFields)
    /\ Table(db.auth_strategy, BoltStrategyFields)

BoltNamed(db) == [k \in Defaults(db) |-> db.auth_strategy[k].principals]

\* Every live user and group has one live default strategy (see the header).
BoltOneDefault(db) == OneEach(Principals(db), BoltNamed(db))

\* The inductive invariant.
BoltInv(db) == BoltTables(db) /\ BoltOneDefault(db)

\* The main account comes with the database (initAuthStoreData).
BoltInit == \E main \in UserArgs : tables = Bolt!addUser(Bolt!EmptyAuth, main).db

\* No table has had the ids: that of a strategy is drawn by utils.NewUUID, and so is
\* that of a user or group unless the request brings one.  The theorems are about
\* requests that bring none or a new one.
NewPrincipal(t, id, role) ==
    id \notin DOMAIN t /\ Bolt!DefaultStrategyID(role, id) \notin DOMAIN tables.auth_strategy

BoltNext ==
    \/ \E u \in UserArgs : NewPrincipal(tables.user, u.id, "user") /\ tables' = Bolt!AddUser(tables, u).db
    \/ \E u \in UserArgs : tables' = Bolt!UpdateUser(tables, u).db
    \/ \E id \in ValidKeys(tables.user) : tables' = Bolt!DeleteUser(tables, Bolt!GetUser(tables, id)).db
    \/ \E g \in GroupArgs : NewPrincipal(tables.user_group, g.id, "group") /\ tables' = Bolt!AddGroup(tables, g).db
    \/ \E g \in GroupChanges : tables' = Bolt!UpdateGroup(tables, g).db
    \/ \E id \in ValidKeys(tables.user_group) : tables' = Bolt!DeleteGroup(tables, Bolt!GetGroup(tables, id)).db
    \/ \E s \in StrategyArgs : s.id \notin DOMAIN tables.auth_strategy /\ tables' = Bolt!AddStrategy(tables, s).db
    \/ \E s \in StrategyChanges :
         /\ s.id \in ValidKeys(tables.auth_strategy) /\ Fixed(tables, s)
         /\ tables' = Bolt!UpdateStrategy(tables, s).db
    \/ \E id \in ValidKeys(tables.auth_strategy) :
         ~tables.auth_strategy[id].default /\ tables' = Bolt!DeleteStrategy(tables, id).db
    \/ \E rs \in SUBSET Resources :
         \/ tables' = Bolt!LooseAddStrategyResources(tables, rs).db
         \/ tables' = Bolt!RemoveStrategyResources(tables, rs).db
    \/ tables' = PollUsers(tables, DOMAIN Bolt!GetUsersForCache(tables, FALSE),
                           DOMAIN Bolt!GetGroupsForCache(tables, FALSE))
    \/ tables' = PollStrategies(tables, DOMAIN Bolt!GetStrategyDetailsForCache(tables, FALSE))

BoltSpec == BoltInit /\ [][BoltNext]_tables

\* Every row is written over, the columns fs and the flags excepted.
Rewrites(t, u, fields, fs) ==
    /\ DOMAIN u = DOMAIN t
    /\ \A k \in DOMAIN t : DOMAIN u[k] = fields /\ \A f \in (fields \cap Flags) \cup fs : u[k][f] = t[k][f]

\* The live rows agree in what was not written over.
LEMMA Rewritten ==
    ASSUME NEW fields, NEW t, Table(t, fields), "valid" \in fields, NEW fs, NEW u, Rewrites(t, u, fields, fs)
    PROVE  Table(u, fields) /\ Alike(t, u, fs)
<1> USE DEF Rewrites
<1>1. Table(u, fields)
      BY Zenon DEF Table
<1>2. \A k \in DOMAIN t : u[k].valid = t[k].valid
      BY Zenon DEF Flags
<1>3. ValidKeys(u) = ValidKeys(t)
      BY Zenon, <1>2 DEF ValidKeys
<1>4. \A k \in ValidKeys(t) : \A f \in fs : u[k][f] = t[k][f]
      BY Zenon DEF ValidKeys
<1> QED BY Zenon, <1>1, <1>3, <1>4 DEF Alike

\* The same principals, and the same default strategies for them.
BoltKeeps(a, b) ==
    /\ Principals(b) = Principals(a)
    /\ Defaults(b) = Defaults(a)
    /\ \A k \in Defaults(a) : b.auth_strategy[k].principals = a.auth_strategy[k].principals

\* A write that keeps the principals and their default strategies.
LEMMA BoltKept ==
    ASSUME NEW a, NEW b, BoltInv(a), BoltTables(b), BoltKeeps(a, b)
    PROVE  BoltInv(b)
<1>1. BoltNamed(b) = BoltNamed(a)
      BY Zenon DEF BoltKeeps, BoltNamed
<1> QED BY Zenon, <1>1 DEF BoltKeeps, BoltInv, BoltOneDefault

\* Writes that leave the flags and the principals as they are.
LEMMA BoltFrame ==
    ASSUME NEW a, NEW b, BoltInv(a), BoltTables(b), Alike(a.user, b.user, {}),
           Alike(a.user_group, b.user_group, {}),
           Alike(a.auth_strategy, b.auth_strategy, {"default", "principals"})
    PROVE  BoltInv(b)
<1>1. Principals(b) = Principals(a)
      BY Zenon DEF Principals, Alike
<1>2. /\ Defaults(b) = Defaults(a)
      /\ \A k \in Defaults(a) : b.auth_strategy[k].principals = a.auth_strategy[k].principals
      BY Zenon DEF Alike, Defaults
<1>3. BoltKeeps(a, b)
      BY Zenon, <1>1, <1>2 DEF BoltKeeps
<1> QED BY Zenon, <1>3, BoltKept

\* A new principal gets its default strategy.
LEMMA BoltCreateDefaultStrategy ==
    ASSUME NEW a, BoltInv(a), NEW d, BoltTables(d), NEW role, NEW id, NEW name, NEW owner,
           d.auth_strategy = a.auth_strategy,
           <<id, role>> \notin Principals(a), Principals(d) = Principals(a) \cup {<<id, role>>},
           Bolt!DefaultStrategyID(role, id) \notin DOMAIN a.auth_strategy
    PROVE  BoltInv(Bolt!createDefaultStrategy(d, role, id, name, owner))
<1> DEFINE p == <<id, role>>
           sid == Bolt!DefaultStrategyID(role, id)
           row == [name |-> Bolt!BuildDefaultStrategyName(role, name), owner |-> owner,
                   comment |-> "Default Strategy", default |-> TRUE, principals |-> {<<id, role>>},
                   resources |-> {}, valid |-> TRUE, fresh |-> FALSE, dated |-> FALSE]
           b == [d EXCEPT !.auth_strategy = Put(@, sid, row)]
<1>1. Bolt!createDefaultStrategy(d, role, id, name, owner) = b
      BY Zenon DEF Bolt!createDefaultStrategy, Bolt!Put, Put
<1>2. LiveRow(row, BoltStrategyFields) /\ row.default = TRUE /\ row.principals = {p}
      BY Zenon DEF LiveRow, BoltStrategyFields, StrategyFields
<1> HIDE DEF sid, row, p
<1>3. /\ b.user = d.user /\ b.user_group = d.user_group /\ b.auth_strategy = Put(a.auth_strategy, sid, row)
      /\ DOMAIN b = DOMAIN d
      BY Zenon DEF BoltTables
<1> HIDE DEF b
<1>4. Table(b.auth_strategy, BoltStrategyFields) /\ Inserts(a.auth_strategy, b.auth_strategy, sid, row)
  <2>1. Table(a.auth_strategy, BoltStrategyFields) /\ sid \notin DOMAIN a.auth_strategy
        BY Zenon DEF BoltInv, BoltTables, sid
  <2>2. LiveRow(row, BoltStrategyFields)
        BY Zenon, <1>2
  <2>3. /\ Table(Put(a.auth_strategy, sid, row), BoltStrategyFields)
        /\ Inserts(a.auth_strategy, Put(a.auth_strategy, sid, row), sid, row)
        BY Zenon, <2>1, <2>2, Inserted
  <2> QED BY Zenon, <1>3, <2>3
<1>5. BoltTables(b)
      BY Zenon, <1>3, <1>4 DEF BoltTables
<1>6. Principals(b) = Principals(a) \cup {p} /\ p \notin Principals(a)
      BY Zenon, <1>3 DEF Principals, p
<1>7. sid \notin Defaults(a) /\ Defaults(b) = Defaults(a) \cup {sid}
      BY Zenon, <1>2, <1>4 DEF Defaults, Inserts
<1>8. BoltNamed(b) = Put(BoltNamed(a), sid, {p})
      BY Zenon, <1>2, <1>4, <1>7 DEF BoltNamed, Put, Inserts, Defaults
<1>9. OneEach(Principals(a) \cup {p}, Put(BoltNamed(a), sid, {p}))
  <2>1. sid \notin DOMAIN BoltNamed(a) /\ OneEach(Principals(a), BoltNamed(a))
        BY Zenon, <1>7 DEF BoltNamed, BoltInv, BoltOneDefault
  <2> QED BY Zenon, <1>6, <2>1, EachAdded
<1>10. BoltInv(b)
       BY Zenon, <1>5, <1>6, <1>8, <1>9 DEF BoltInv, BoltOneDefault
<1> QED BY Zenon, <1>1, <1>10

\* The default strategy of a deleted principal goes.
LEMMA BoltCleanLinkStrategy ==
    ASSUME NEW a, BoltInv(a), NEW d, BoltTables(d), NEW role, NEW id, NEW owner,
           d.auth_strategy = a.auth_strategy, Leaves(a, d, <<id, role>>),
           Bolt!cleanLinkStrategy(d, role, id, owner).err = OK
    PROVE  BoltInv(Bolt!cleanLinkStrategy(d, role, id, owner).db)
<1> DEFINE p == <<id, role>>
           own == {k \in DOMAIN d.auth_strategy :
                     d.auth_strategy[k].default /\ {q \in d.auth_strategy[k].principals : q[2] = role} = {<<id, role>>}}
           cols == Over([fresh |-> TRUE, dated |-> TRUE], [valid |-> FALSE])
           b == [d EXCEPT !.auth_strategy = Assign(@, own, cols)]
<1>1. Bolt!cleanLinkStrategy(d, role, id, owner).db = b
      BY Zenon DEF Bolt!cleanLinkStrategy, Bolt!Done, Bolt!Fail, Bolt!Multiple, OK, Bolt!Now, Bolt!Assign, Assign,
         Bolt!Over, Over
<1>2. /\ "valid" \in DOMAIN cols /\ "default" \notin DOMAIN cols /\ DOMAIN cols \subseteq BoltStrategyFields
      /\ cols.valid = FALSE
      BY Zenon DEF BoltStrategyFields, StrategyFields, Over
<1> HIDE DEF cols
<1>3. /\ b.user = d.user /\ b.user_group = d.user_group /\ b.auth_strategy = Assign(a.auth_strategy, own, cols)
      /\ DOMAIN b = DOMAIN d
  <2> HIDE DEF own
  <2> QED BY Zenon DEF BoltTables
<1> HIDE DEF b
<1>4. \A k \in Defaults(a) : k \in own <=> a.auth_strategy[k].principals = {p}
  <2> SUFFICES ASSUME NEW k \in Defaults(a) PROVE k \in own <=> a.auth_strategy[k].principals = {p}
      BY Zenon
  <2>1. PICK q \in Principals(a) : a.auth_strategy[k].principals = {q}
        BY Zenon DEF BoltInv, BoltOneDefault, OneEach, BoltNamed
  <2>2. k \in DOMAIN d.auth_strategy /\ d.auth_strategy[k].default
        BY Zenon DEF Defaults, ValidKeys
  <2>3. p[2] = role
        BY Zenon
  <2>4. k \in own <=> {i \in {q} : i[2] = role} = {p}
        BY Zenon, <2>1, <2>2
  <2> HIDE DEF p, own
  <2>5. {i \in {q} : i[2] = role} = {p} <=> q = p
        BY Zenon, <2>3
  <2> QED BY Zenon, <2>1, <2>4, <2>5
<1> HIDE DEF own
<1>5. Table(b.auth_strategy, BoltStrategyFields) /\ Drops(a.auth_strategy, b.auth_strategy, own)
  <2>1. Table(a.auth_strategy, BoltStrategyFields)
        BY Zenon DEF BoltInv, BoltTables
  <2>2. /\ Table(Assign(a.auth_strategy, own, cols), BoltStrategyFields)
        /\ Drops(a.auth_strategy, Assign(a.auth_strategy, own, cols), own)
        BY Zenon, <1>2, <2>1, Deleted
  <2> QED BY Zenon, <1>3, <2>2
<1>6. BoltTables(b)
      BY Zenon, <1>3, <1>5 DEF BoltTables
<1>7. Principals(b) = Principals(a) \ {p}
      BY Zenon, <1>3 DEF Principals, Leaves
<1>8. /\ Defaults(b) = {k \in Defaults(a) : a.auth_strategy[k].principals # {p}}
      /\ \A k \in Defaults(b) : b.auth_strategy[k] = a.auth_strategy[k]
      BY Zenon, <1>4, <1>5 DEF Defaults, Drops
<1> HIDE DEF p
<1>9. BoltNamed(b) = Losing(BoltNamed(a), p)
      BY Zenon, <1>8 DEF BoltNamed, Losing
<1>10. OneEach(Principals(a) \ {p}, Losing(BoltNamed(a), p))
       BY Zenon, EachRemoved DEF BoltOneDefault, BoltInv
<1>11. BoltInv(b)
       BY Zenon, <1>6, <1>7, <1>9, <1>10 DEF BoltInv, BoltOneDefault
<1> QED BY Zenon, <1>1, <1>11

\* AddUser: cleanInValidUser, the user, and the default strategy.
LEMMA BoltAddUser ==
    ASSUME NEW a, BoltInv(a), NEW u, u.id \notin DOMAIN a.user,
           Bolt!DefaultStrategyID("user", u.id) \notin DOMAIN a.auth_strategy
    PROVE  BoltInv(Bolt!addUser(a, u).db) /\ BoltInv(Bolt!AddUser(a, u).db)
<1> DEFINE cols == [name |-> u.name, owner |-> u.owner, type |-> u.type, token |-> u.token, enable |-> u.enable,
                    comment |-> u.comment]
           row == Over([valid |-> TRUE, fresh |-> TRUE], cols)
           d == [a EXCEPT !.user = Put(@, u.id, row)]
           owner == IF u.owner = "" THEN u.id ELSE u.owner
           b == Bolt!createDefaultStrategy(d, "user", u.id, u.name, owner)
<1>1. Bolt!addUser(a, u).db = b /\ Bolt!AddUser(a, u).db \in {a, b}
      BY Zenon DEF Bolt!AddUser, Bolt!addUser, Bolt!addUserMain, Bolt!initUser, Bolt!converToUserStore,
         Bolt!Done, Bolt!Fail, Bolt!Put, Put, Bolt!Over, Over
<1>2. LiveRow(row, UserFields)
      BY Zenon DEF LiveRow, Over, UserFields
<1> HIDE DEF row
<1>3. d.user = Put(a.user, u.id, row) /\ d.user_group = a.user_group /\ d.auth_strategy = a.auth_strategy
      /\ DOMAIN d = DOMAIN a
      BY Zenon DEF BoltInv, BoltTables
<1> HIDE DEF d
<1>4. Table(d.user, UserFields) /\ Inserts(a.user, d.user, u.id, row)
  <2>1. Table(a.user, UserFields)
        BY Zenon DEF BoltInv, BoltTables
  <2>2. Table(Put(a.user, u.id, row), UserFields) /\ Inserts(a.user, Put(a.user, u.id, row), u.id, row)
        BY Zenon, <1>2, <2>1, Inserted
  <2> QED BY Zenon, <1>3, <2>2
<1>5. BoltTables(d)
      BY Zenon, <1>3, <1>4 DEF BoltInv, BoltTables
<1>6. <<u.id, "user">> \notin Principals(a) /\ Principals(d) = Principals(a) \cup {<<u.id, "user">>}
      BY <1>3, <1>4 DEF Principals, Inserts
<1>7. BoltInv(b)
  <2> HIDE DEF owner
  <2> QED BY Zenon, <1>3, <1>5, <1>6, BoltCreateDefaultStrategy
<1> QED BY Zenon, <1>1, <1>7

\* UpdateUser writes neither flag.
LEMMA BoltUpdateUser ==
    ASSUME NEW a, BoltInv(a), NEW u
    PROVE  BoltInv(Bolt!UpdateUser(a, u).db)
<1> DEFINE cols == Touched([token |-> u.token, comment |-> u.comment, enable |-> u.enable])
           b == [a EXCEPT !.user = Assign(@, {u.id}, cols)]
<1>1. Bolt!UpdateUser(a, u).db \in {a, b}
      BY Zenon DEF Bolt!UpdateUser, Bolt!Done, Bolt!Fail, Bolt!Touched, Touched, Bolt!Assign, Assign, Bolt!Over, Over
<1>2. DOMAIN cols = {"fresh", "token", "comment", "enable"}
      BY Zenon DEF Touched, Over
<1> HIDE DEF cols
<1>3. /\ b.user = Assign(a.user, {u.id}, cols) /\ b.user_group = a.user_group /\ b.auth_strategy = a.auth_strategy
      /\ DOMAIN b = DOMAIN a
      BY Zenon DEF BoltInv, BoltTables
<1> HIDE DEF b
<1>4. Table(b.user, UserFields) /\ Alike(a.user, b.user, {})
  <2>1. Table(a.user, UserFields)
        BY Zenon DEF BoltInv, BoltTables
  <2>2. /\ "valid" \in UserFields /\ DOMAIN cols \subseteq UserFields /\ {} \subseteq UserFields
        /\ \A f \in DOMAIN cols : f \notin Flags /\ f \notin {}
        BY Zenon, <1>2 DEF UserFields, Flags
  <2>3. Table(Assign(a.user, {u.id}, cols), UserFields) /\ Alike(a.user, Assign(a.user, {u.id}, cols), {})
        BY Zenon, <2>1, <2>2, Assigned
  <2> QED BY Zenon, <1>3, <2>3
<1>5. BoltTables(b)
      BY Zenon, <1>3, <1>4 DEF BoltInv, BoltTables
<1>6. BoltInv(b)
      BY Zenon, <1>3, <1>4, <1>5, BoltFrame, AlikeItself
<1> QED BY Zenon, <1>1, <1>6

\* DeleteUser, which finds the default strategy by its principals alone.
LEMMA BoltDeleteUser ==
    ASSUME NEW a, BoltInv(a), NEW id \in ValidKeys(a.user)
    PROVE  BoltInv(Bolt!DeleteUser(a, Bolt!GetUser(a, id)).db)
<1> DEFINE u == Bolt!GetUser(a, id)
           d == [a EXCEPT !.user = Assign(@, {id}, Removed)]
           r == Bolt!cleanLinkStrategy(d, "user", id, u.owner)
<1>0. BoltTables(a) /\ Table(a.user, UserFields)
      BY Zenon DEF BoltInv, BoltTables
<1>1. u.id = id
  <2>1. u = Over([id |-> id], a.user[id])
        BY Zenon DEF Bolt!GetUser, Bolt!getUser, Bolt!converToUserModel, Bolt!ValidKeys, ValidKeys, Bolt!Over, Over
  <2>2. DOMAIN a.user[id] = UserFields
        BY Zenon, <1>0 DEF Table, ValidKeys
  <2> QED BY Zenon, <2>1, <2>2 DEF Over, UserFields
<1> HIDE DEF u
<1>2. \/ Bolt!DeleteUser(a, u).db = a
      \/ r.err = OK /\ Bolt!DeleteUser(a, u).db = r.db
      BY Zenon, <1>1 DEF Bolt!DeleteUser, Bolt!deleteUser, Bolt!Fail, Bolt!OK, OK, Bolt!Assign, Assign,
         Bolt!Over, Over, Bolt!Removed, Removed
<1>3. /\ d.user = Assign(a.user, {id}, Removed) /\ d.user_group = a.user_group
      /\ d.auth_strategy = a.auth_strategy /\ DOMAIN d = DOMAIN a
      BY Zenon, <1>0 DEF BoltTables
<1> HIDE DEF d
<1>4. Table(d.user, UserFields) /\ Drops(a.user, d.user, {id})
  <2>1. /\ "valid" \in DOMAIN Removed /\ "default" \notin DOMAIN Removed /\ DOMAIN Removed \subseteq UserFields
        /\ Removed.valid = FALSE
        BY Zenon DEF UserFields, Removed
  <2>2. Table(Assign(a.user, {id}, Removed), UserFields) /\ Drops(a.user, Assign(a.user, {id}, Removed), {id})
        BY Zenon, <1>0, <2>1, Deleted
  <2> QED BY Zenon, <1>3, <2>2
<1>5. BoltTables(d)
      BY Zenon, <1>0, <1>3, <1>4 DEF BoltTables
<1>6. Leaves(a, d, <<id, "user">>)
      BY Zenon, <1>3, <1>4, UserLeaves, AlikeItself
<1>7. r.err = OK => BoltInv(r.db)
      BY Zenon, <1>3, <1>5, <1>6, BoltCleanLinkStrategy
<1> QED BY Zenon, <1>2, <1>7 DEF u

\* AddGroup: cleanInValidGroup, the group, and the default strategy.
LEMMA BoltAddGroup ==
    ASSUME NEW a, BoltInv(a), NEW g, g.id \notin DOMAIN a.user_group,
           Bolt!DefaultStrategyID("group", g.id) \notin DOMAIN a.auth_strategy
    PROVE  BoltInv(Bolt!AddGroup(a, g).db)
<1> DEFINE gone == {k \in DOMAIN a.user_group : a.user_group[k].name = g.name /\ a.user_group[k].owner = g.owner
                                                  /\ ~a.user_group[k].valid}
           c == [a EXCEPT !.user_group = Without(@, gone)]
           cols == [name |-> g.name, owner |-> g.owner, token |-> g.token, enable |-> g.enable,
                    comment |-> g.comment, users |-> g.users]
           row == Over([valid |-> TRUE, fresh |-> TRUE], cols)
           d == [c EXCEPT !.user_group = Put(@, g.id, row)]
           b == Bolt!createDefaultStrategy(d, "group", g.id, g.name, g.owner)
<1>1. Bolt!AddGroup(a, g).db \in {a, b}
      BY Zenon DEF Bolt!AddGroup, Bolt!addGroup, Bolt!cleanInValidGroup, Bolt!convertForGroupStore,
         Bolt!Done, Bolt!Fail, Bolt!Put, Put, Bolt!Over, Over, Bolt!Without, Without
<1>2. LiveRow(row, BoltGroupFields)
      BY Zenon DEF LiveRow, Over, GroupFields, BoltGroupFields
<1> HIDE DEF row
<1>3. \A k \in gone : k \notin ValidKeys(a.user_group)
      BY Zenon DEF ValidKeys
<1> HIDE DEF gone
<1>4. /\ c.user_group = Without(a.user_group, gone) /\ c.user = a.user /\ c.auth_strategy = a.auth_strategy
      /\ DOMAIN c = DOMAIN a
      BY Zenon DEF BoltInv, BoltTables
<1>5. Table(c.user_group, BoltGroupFields) /\ Alike(a.user_group, c.user_group, {})
  <2>1. Table(a.user_group, BoltGroupFields)
        BY Zenon DEF BoltInv, BoltTables
  <2>2. Table(Without(a.user_group, gone), BoltGroupFields) /\ Alike(a.user_group, Without(a.user_group, gone), {})
        BY Zenon, <1>3, <2>1, Cleaned
  <2> QED BY Zenon, <1>4, <2>2
<1> HIDE DEF c
<1>6. BoltInv(c)
  <2>1. BoltTables(c)
        BY Zenon, <1>4, <1>5 DEF BoltInv, BoltTables
  <2> QED BY Zenon, <1>4, <1>5, <2>1, BoltFrame, AlikeItself
<1>7. /\ d.user_group = Put(c.user_group, g.id, row) /\ d.user = c.user /\ d.auth_strategy = c.auth_strategy
      /\ DOMAIN d = DOMAIN c
      BY Zenon, <1>6 DEF BoltInv, BoltTables
<1> HIDE DEF d
<1>8. Table(d.user_group, BoltGroupFields) /\ Inserts(c.user_group, d.user_group, g.id, row)
  <2>1. g.id \notin DOMAIN c.user_group
        BY Zenon, <1>4 DEF Without
  <2>2. /\ Table(Put(c.user_group, g.id, row), BoltGroupFields)
        /\ Inserts(c.user_group, Put(c.user_group, g.id, row), g.id, row)
        BY Zenon, <1>2, <1>5, <2>1, Inserted
  <2> QED BY Zenon, <1>7, <2>2
<1>9. BoltTables(d)
      BY Zenon, <1>6, <1>7, <1>8 DEF BoltInv, BoltTables
<1>10. <<g.id, "group">> \notin Principals(c) /\ Principals(d) = Principals(c) \cup {<<g.id, "group">>}
       BY <1>7, <1>8 DEF Principals, Inserts
<1>11. Bolt!DefaultStrategyID("group", g.id) \notin DOMAIN c.auth_strategy
       BY Zenon, <1>4
<1>12. BoltInv(b)
       BY Zenon, <1>6, <1>7, <1>9, <1>10, <1>11, BoltCreateDefaultStrategy
<1> QED BY Zenon, <1>1, <1>12

\* UpdateGroup writes the group's columns and its users.
LEMMA BoltUpdateGroup ==
    ASSUME NEW a, BoltInv(a), NEW g
    PROVE  BoltInv(Bolt!UpdateGroup(a, g).db)
<1> DEFINE cols == Touched([comment |-> g.comment, token |-> g.token, enable |-> g.enable])
           t == a.user_group
           row == Over(cols, [t[g.id] EXCEPT !.users = (@ \cup g.addUsers) \ g.removeUsers])
           b == [a EXCEPT !.user_group = Put(@, g.id, row)]
<1>1. \/ Bolt!UpdateGroup(a, g).db = a
      \/ g.id \in DOMAIN t /\ Bolt!UpdateGroup(a, g).db = b
      BY Zenon DEF Bolt!UpdateGroup, Bolt!updateGroup, Bolt!updateGroupRelation, Bolt!Done, Bolt!Fail, Bolt!Put, Put,
         Bolt!Touched, Touched, Bolt!Over, Over
<1>2. ASSUME g.id \in DOMAIN t PROVE BoltInv(b)
  <2>1. Table(t, BoltGroupFields) /\ DOMAIN t[g.id] = BoltGroupFields
        BY Zenon, <1>2 DEF BoltInv, BoltTables, Table
  <2>2. DOMAIN cols = {"fresh", "token", "comment", "enable"}
        BY Zenon DEF Touched, Over
  <2>3. /\ DOMAIN row = BoltGroupFields
        /\ \A f \in (BoltGroupFields \cap Flags) : row[f] = t[g.id][f]
    <3> DEFINE old == [t[g.id] EXCEPT !.users = (@ \cup g.addUsers) \ g.removeUsers]
    <3>1. DOMAIN old = BoltGroupFields /\ \A f \in BoltGroupFields : f # "users" => old[f] = t[g.id][f]
          BY Zenon, <2>1
    <3>2. "users" \notin Flags /\ \A f \in Flags : f \notin DOMAIN cols
          BY Zenon, <2>2 DEF Flags
    <3> HIDE DEF cols, old
    <3>3. DOMAIN Over(cols, old) = BoltGroupFields
          BY Zenon, <2>2, <3>1 DEF Over, BoltGroupFields, GroupFields
    <3>4. \A f \in (BoltGroupFields \cap Flags) : Over(cols, old)[f] = old[f]
          BY Zenon, <3>1, <3>2, <3>3 DEF Over
    <3>5. \A f \in (BoltGroupFields \cap Flags) : Over(cols, old)[f] = t[g.id][f]
          BY Zenon, <3>1, <3>2, <3>4
    <3> QED BY Zenon, <3>3, <3>5 DEF old
  <2> HIDE DEF cols, row
  <2>4. b.user = a.user /\ b.auth_strategy = a.auth_strategy /\ b.user_group = Put(t, g.id, row) /\ DOMAIN b = DOMAIN a
        BY Zenon DEF BoltInv, BoltTables
  <2>5. Rewrites(t, b.user_group, BoltGroupFields, {})
        BY <1>2, <2>1, <2>3, <2>4 DEF Put, Table, Rewrites
  <2>6. "valid" \in BoltGroupFields
        BY Zenon DEF BoltGroupFields, GroupFields
  <2> HIDE DEF b, t
  <2>7. Table(b.user_group, BoltGroupFields) /\ Alike(t, b.user_group, {})
        BY Zenon, <2>1, <2>5, <2>6, Rewritten
  <2>8. BoltTables(b)
        BY Zenon, <2>4, <2>7 DEF BoltInv, BoltTables
  <2> QED BY Zenon, <2>4, <2>7, <2>8, BoltFrame, AlikeItself DEF t
<1> QED BY Zenon, <1>1, <1>2

\* DeleteGroup, with the default strategy of the group.
LEMMA BoltDeleteGroup ==
    ASSUME NEW a, BoltInv(a), NEW id \in ValidKeys(a.user_group)
    PROVE  BoltInv(Bolt!DeleteGroup(a, Bolt!GetGroup(a, id)).db)
<1> DEFINE g == Bolt!GetGroup(a, id)
           d == [a EXCEPT !.user_group = Assign(@, {id}, Removed)]
           r == Bolt!cleanLinkStrategy(d, "group", id, g.owner)
<1>0. BoltTables(a) /\ Table(a.user_group, BoltGroupFields)
      BY Zenon DEF BoltInv, BoltTables
<1>1. g.id = id
  <2>1. g = Over([id |-> id], a.user_group[id])
        BY Zenon DEF Bolt!GetGroup, Bolt!convertForGroupDetail, Bolt!ValidKeys, ValidKeys, Bolt!Over, Over
  <2>2. DOMAIN a.user_group[id] = BoltGroupFields
        BY Zenon, <1>0 DEF Table, ValidKeys
  <2> QED BY Zenon, <2>1, <2>2 DEF Over
<1> HIDE DEF g
<1>2. \/ Bolt!DeleteGroup(a, g).db = a
      \/ r.err = OK /\ Bolt!DeleteGroup(a, g).db = r.db
      BY Zenon, <1>1 DEF Bolt!DeleteGroup, Bolt!deleteGroup, Bolt!Fail, Bolt!OK, OK, Bolt!Assign, Assign,
         Bolt!Over, Over, Bolt!Removed, Removed
<1>3. /\ d.user_group = Assign(a.user_group, {id}, Removed) /\ d.user = a.user
      /\ d.auth_strategy = a.auth_strategy /\ DOMAIN d = DOMAIN a
      BY Zenon, <1>0 DEF BoltTables
<1> HIDE DEF d
<1>4. Table(d.user_group, BoltGroupFields) /\ Drops(a.user_group, d.user_group, {id})
  <2>1. /\ "valid" \in DOMAIN Removed /\ "default" \notin DOMAIN Removed /\ DOMAIN Removed \subseteq BoltGroupFields
        /\ Removed.valid = FALSE
        BY Zenon DEF BoltGroupFields, GroupFields, Removed
  <2>2. /\ Table(Assign(a.user_group, {id}, Removed), BoltGroupFields)
        /\ Drops(a.user_group, Assign(a.user_group, {id}, Removed), {id})
        BY Zenon, <1>0, <2>1, Deleted
  <2> QED BY Zenon, <1>3, <2>2
<1>5. BoltTables(d)
      BY Zenon, <1>0, <1>3, <1>4 DEF BoltTables
<1>6. Leaves(a, d, <<id, "group">>)
      BY Zenon, <1>3, <1>4, GroupLeaves
<1>7. r.err = OK => BoltInv(r.db)
      BY Zenon, <1>3, <1>5, <1>6, BoltCleanLinkStrategy
<1> QED BY Zenon, <1>2, <1>7 DEF g

\* AddStrategy of a strategy that is not a default one.
LEMMA BoltAddStrategy ==
    ASSUME NEW a, BoltInv(a), NEW s, s.default = FALSE, s.id \notin DOMAIN a.auth_strategy
    PROVE  BoltInv(Bolt!AddStrategy(a, s).db)
<1> DEFINE gone == {k \in DOMAIN a.auth_strategy :
                      a.auth_strategy[k].name = s.name /\ a.auth_strategy[k].owner = s.owner /\ ~a.auth_strategy[k].valid}
           c == [a EXCEPT !.auth_strategy = Without(@, gone)]
           new == Bolt!convertForStrategyStore(s)
           row == Over([valid |-> TRUE, fresh |-> TRUE, dated |-> TRUE], new)
           b == [c EXCEPT !.auth_strategy = Put(@, s.id, row)]
<1>1. Bolt!AddStrategy(a, s).db \in {a, b}
      BY Zenon DEF Bolt!AddStrategy, Bolt!addStrategy, Bolt!cleanInvalidStrategy, Bolt!initStrategy,
         Bolt!Done, Bolt!Fail, Bolt!Put, Put, Bolt!Over, Over, Bolt!Without, Without
<1>2. LiveRow(row, BoltStrategyFields) /\ row.default = FALSE
  <2>1. DOMAIN new = {"name", "owner", "comment", "default", "principals", "resources"} /\ new.default = FALSE
        BY Zenon DEF Bolt!convertForStrategyStore
  <2> HIDE DEF new
  <2> QED BY Zenon, <2>1 DEF LiveRow, Over, StrategyFields, BoltStrategyFields
<1> HIDE DEF row
<1>3. \A k \in gone : k \notin ValidKeys(a.auth_strategy)
      BY Zenon DEF ValidKeys
<1> HIDE DEF gone
<1>4. /\ c.auth_strategy = Without(a.auth_strategy, gone) /\ c.user = a.user /\ c.user_group = a.user_group
      /\ DOMAIN c = DOMAIN a
      BY Zenon DEF BoltInv, BoltTables
<1> DEFINE fs == {"default", "principals"}
<1>5. Table(c.auth_strategy, BoltStrategyFields) /\ Alike(a.auth_strategy, c.auth_strategy, fs)
  <2> HIDE DEF fs
  <2>1. Table(a.auth_strategy, BoltStrategyFields)
        BY Zenon DEF BoltInv, BoltTables
  <2>2. /\ Table(Without(a.auth_strategy, gone), BoltStrategyFields)
        /\ Alike(a.auth_strategy, Without(a.auth_strategy, gone), fs)
        BY Zenon, <1>3, <2>1, Cleaned
  <2> QED BY Zenon, <1>4, <2>2
<1> HIDE DEF c
<1>6. BoltInv(c)
  <2>1. BoltTables(c)
        BY Zenon, <1>4, <1>5 DEF BoltInv, BoltTables
  <2> QED BY Zenon, <1>4, <1>5, <2>1, BoltFrame, AlikeItself
<1>7. /\ b.auth_strategy = Put(c.auth_strategy, s.id, row) /\ b.user = c.user /\ b.user_group = c.user_group
      /\ DOMAIN b = DOMAIN c
      BY Zenon, <1>6 DEF BoltInv, BoltTables
<1> HIDE DEF b
<1>8. Table(b.auth_strategy, BoltStrategyFields) /\ Inserts(c.auth_strategy, b.auth_strategy, s.id, row)
  <2>1. s.id \notin DOMAIN c.auth_strategy
        BY Zenon, <1>4 DEF Without
  <2>2. /\ Table(Put(c.auth_strategy, s.id, row), BoltStrategyFields)
        /\ Inserts(c.auth_strategy, Put(c.auth_strategy, s.id, row), s.id, row)
        BY Zenon, <1>2, <1>5, <2>1, Inserted
  <2> QED BY Zenon, <1>7, <2>2
<1>9. BoltTables(b)
      BY Zenon, <1>6, <1>7, <1>8 DEF BoltInv, BoltTables
<1>10. Principals(b) = Principals(c)
       BY Zenon, <1>7 DEF Principals
<1>11. Defaults(b) = Defaults(c) /\ \A k \in Defaults(c) : b.auth_strategy[k] = c.auth_strategy[k]
       BY Zenon, <1>2, <1>8 DEF Defaults, Inserts
<1>12. BoltKeeps(c, b)
       BY Zenon, <1>10, <1>11 DEF BoltKeeps
<1>13. BoltInv(b)
       BY Zenon, <1>6, <1>9, <1>12, BoltKept
<1> QED BY Zenon, <1>1, <1>13

\* UpdateStrategy, which leaves the principals of a default strategy alone.
LEMMA BoltUpdateStrategy ==
    ASSUME NEW a, BoltInv(a), NEW s, s.id \in ValidKeys(a.auth_strategy), Fixed(a, s)
    PROVE  BoltInv(Bolt!UpdateStrategy(a, s).db)
<1> DEFINE t == a.auth_strategy
           fields == BoltStrategyFields
           old == t[s.id]
           told == [old EXCEPT !.comment = s.comment]
           joined == Bolt!computePrincipals(FALSE, s.addPrincipals, told)
           people == Bolt!computePrincipals(TRUE, s.removePrincipals, joined)
           more == Bolt!computeResources(FALSE, s.addResources, people)
           things == Bolt!computeResources(TRUE, s.removeResources, more)
           row == Over([fresh |-> TRUE, dated |-> TRUE], things)
           b == [a EXCEPT !.auth_strategy = Put(@, s.id, row)]
<1>1. Bolt!UpdateStrategy(a, s).db \in {a, b}
      BY Zenon DEF Bolt!UpdateStrategy, Bolt!updateStrategy, Bolt!Done, Bolt!Fail, Bolt!Put, Put, Bolt!Now,
         Bolt!Over, Over
<1>2. Table(t, fields) /\ DOMAIN old = fields
      BY Zenon DEF BoltInv, BoltTables, Table, ValidKeys
<1>3. {"comment", "principals", "resources", "valid", "default", "fresh", "dated"} \subseteq fields
      BY Zenon DEF BoltStrategyFields, StrategyFields
<1> HIDE DEF fields, old
<1>4. /\ DOMAIN told = fields /\ told.valid = old.valid /\ told.default = old.default
      /\ told.principals = old.principals
      BY Zenon, <1>2, <1>3
<1> HIDE DEF told
<1>5. /\ DOMAIN people = fields /\ people.valid = old.valid /\ people.default = old.default
      /\ people.principals = (old.principals \cup s.addPrincipals) \ s.removePrincipals
      BY Zenon, <1>3, <1>4 DEF Bolt!computePrincipals
<1> HIDE DEF people
<1>6. /\ DOMAIN things = fields /\ things.valid = old.valid /\ things.default = old.default
      /\ things.principals = people.principals
      BY Zenon, <1>3, <1>5 DEF Bolt!computeResources
<1> HIDE DEF things
<1>7. /\ DOMAIN row = fields /\ row.valid = old.valid /\ row.default = old.default
      /\ row.principals = people.principals
      BY Zenon, <1>3, <1>6 DEF Over
<1>8. old.default => row.principals = old.principals
      BY Zenon, <1>5, <1>7 DEF Fixed, old
<1> HIDE DEF row
<1>9. b.user = a.user /\ b.user_group = a.user_group /\ b.auth_strategy = Put(t, s.id, row) /\ DOMAIN b = DOMAIN a
      BY Zenon DEF BoltInv, BoltTables
<1>10. s.id \in DOMAIN t
       BY Zenon DEF ValidKeys
<1> HIDE DEF b
<1>11. Rewrites(t, b.auth_strategy, fields, {"default"})
  <2>1. \A f \in (fields \cap Flags) \cup {"default"} : row[f] = old[f]
        BY Zenon, <1>7 DEF Flags
  <2> QED BY <1>2, <1>7, <1>9, <1>10, <2>1 DEF Put, Table, Rewrites, old
<1> HIDE DEF t
<1>12. Table(b.auth_strategy, fields) /\ Alike(t, b.auth_strategy, {"default"})
  <2>1. "valid" \in fields
        BY Zenon, <1>3
  <2> QED BY Zenon, <1>2, <1>11, <2>1, Rewritten
<1>13. BoltTables(b)
       BY Zenon, <1>9, <1>12 DEF BoltInv, BoltTables, fields
<1>14. Principals(b) = Principals(a)
       BY Zenon, <1>9 DEF Principals
<1>15. Defaults(b) = Defaults(a)
       BY Zenon, <1>12 DEF Defaults, Alike, t
<1>16. \A k \in Defaults(a) : b.auth_strategy[k].principals = a.auth_strategy[k].principals
  <2> SUFFICES ASSUME NEW k \in Defaults(a)
               PROVE  b.auth_strategy[k].principals = t[k].principals
      BY Zenon DEF t
  <2>1. k \in DOMAIN t /\ t[k].default
        BY Zenon DEF Defaults, ValidKeys, t
  <2>2. CASE k = s.id
        BY Zenon, <1>8, <1>9, <1>10, <2>1, <2>2 DEF Put, old
  <2>3. CASE k # s.id
        BY <1>9, <2>1, <2>3 DEF Put
  <2> QED BY Zenon, <2>2, <2>3
<1>17. BoltKeeps(a, b)
       BY Zenon, <1>14, <1>15, <1>16 DEF BoltKeeps
<1>18. BoltInv(b)
       BY Zenon, <1>13, <1>17, BoltKept
<1> QED BY Zenon, <1>1, <1>18

\* DeleteStrategy of a strategy that is not a default one.
LEMMA BoltDeleteStrategy ==
    ASSUME NEW a, BoltInv(a), NEW id, id \notin Defaults(a)
    PROVE  BoltInv(Bolt!DeleteStrategy(a, id).db)
<1> DEFINE cols == Over([fresh |-> TRUE, dated |-> TRUE], [valid |-> FALSE])
           b == [a EXCEPT !.auth_strategy = Assign(@, {id}, cols)]
<1>1. Bolt!DeleteStrategy(a, id).db \in {a, b}
      BY Zenon DEF Bolt!DeleteStrategy, Bolt!Done, Bolt!Fail, Bolt!Now, Bolt!Assign, Assign, Bolt!Over, Over
<1>2. /\ "valid" \in DOMAIN cols /\ "default" \notin DOMAIN cols /\ DOMAIN cols \subseteq BoltStrategyFields
      /\ cols.valid = FALSE
      BY Zenon DEF BoltStrategyFields, StrategyFields, Over
<1> HIDE DEF cols
<1>3. /\ b.user = a.user /\ b.user_group = a.user_group /\ b.auth_strategy = Assign(a.auth_strategy, {id}, cols)
      /\ DOMAIN b = DOMAIN a
      BY Zenon DEF BoltInv, BoltTables
<1> HIDE DEF b
<1>4. Table(b.auth_strategy, BoltStrategyFields) /\ Drops(a.auth_strategy, b.auth_strategy, {id})
  <2>1. Table(a.auth_strategy, BoltStrategyFields)
        BY Zenon DEF BoltInv, BoltTables
  <2>2. /\ Table(Assign(a.auth_strategy, {id}, cols), BoltStrategyFields)
        /\ Drops(a.auth_strategy, Assign(a.auth_strategy, {id}, cols), {id})
        BY Zenon, <1>2, <2>1, Deleted
  <2> QED BY Zenon, <1>3, <2>2
<1>5. BoltTables(b)
      BY Zenon, <1>3, <1>4 DEF BoltInv, BoltTables
<1>6. Principals(b) = Principals(a)
      BY Zenon, <1>3 DEF Principals
<1>7. Defaults(b) = Defaults(a) /\ \A k \in Defaults(a) : b.auth_strategy[k] = a.auth_strategy[k]
      BY Zenon, <1>4 DEF Defaults, Drops
<1>8. BoltKeeps(a, b)
      BY Zenon, <1>6, <1>7 DEF BoltKeeps
<1>9. BoltInv(b)
      BY Zenon, <1>5, <1>8, BoltKept
<1> QED BY Zenon, <1>1, <1>9

\* Strategies written over, their default mark and principals excepted.
LEMMA BoltStrategiesWritten ==
    ASSUME NEW a, BoltInv(a), NEW b, b.user = a.user, b.user_group = a.user_group, DOMAIN b = DOMAIN a,
           Rewrites(a.auth_strategy, b.auth_strategy, BoltStrategyFields, {"default", "principals"})
    PROVE  BoltInv(b)
<1> DEFINE fs == {"default", "principals"}
<1>1. "valid" \in BoltStrategyFields
      BY Zenon DEF BoltStrategyFields, StrategyFields
<1>2. Table(a.auth_strategy, BoltStrategyFields)
      BY Zenon DEF BoltInv, BoltTables
<1> HIDE DEF fs
<1>3. Rewrites(a.auth_strategy, b.auth_strategy, BoltStrategyFields, fs)
      BY Zenon DEF fs
<1>4. Table(b.auth_strategy, BoltStrategyFields) /\ Alike(a.auth_strategy, b.auth_strategy, fs)
      BY Zenon, <1>1, <1>2, <1>3, Rewritten
<1>5. BoltTables(b)
      BY Zenon, <1>4 DEF BoltInv, BoltTables
<1> QED BY Zenon, <1>4, <1>5, BoltFrame, AlikeItself DEF fs

\* LooseAddStrategyResources and RemoveStrategyResources.
LEMMA BoltResources ==
    ASSUME NEW a, BoltInv(a), NEW remove \in BOOLEAN, NEW rs
    PROVE  BoltInv(Bolt!operateStrategyResources(a, remove, rs).db)
<1> DEFINE of == Bolt!buildResMap(rs)
           fields == BoltStrategyFields
           fs == {"default", "principals"}
           cols == [fresh |-> TRUE, dated |-> TRUE]
           t == a.auth_strategy
           w == [k \in DOMAIN t |-> IF k \in DOMAIN of THEN Over(cols, Bolt!computeResources(remove, of[k], t[k]))
                                    ELSE t[k]]
           b == [a EXCEPT !.auth_strategy = w]
<1>1. Bolt!operateStrategyResources(a, remove, rs).db \in {a, b}
      BY Zenon DEF Bolt!operateStrategyResources, Bolt!Done, Bolt!Fail, Bolt!Now, Bolt!Over, Over
<1>2. Table(t, fields)
      BY Zenon DEF BoltInv, BoltTables
<1>3. /\ "resources" \in fields /\ DOMAIN cols \subseteq fields
      /\ \A f \in (fields \cap Flags) \cup fs : f \in fields /\ f \notin DOMAIN cols /\ f # "resources"
      BY Zenon DEF BoltStrategyFields, StrategyFields, Flags
<1> HIDE DEF of, cols, fs, fields
<1>4. Rewrites(t, w, fields, fs)
  <2> SUFFICES ASSUME NEW k \in DOMAIN t
               PROVE  DOMAIN w[k] = fields /\ \A f \in (fields \cap Flags) \cup fs : w[k][f] = t[k][f]
      BY Zenon DEF Rewrites
  <2> DEFINE row == Bolt!computeResources(remove, of[k], t[k])
  <2>1. DOMAIN t[k] = fields
        BY Zenon, <1>2 DEF Table
  <2>2. CASE k \in DOMAIN of
    <3>1. DOMAIN row = fields /\ \A f \in fields : f # "resources" => row[f] = t[k][f]
          BY Zenon, <2>1 DEF Bolt!computeResources
    <3>2. w[k] = Over(cols, row)
          BY Zenon, <2>2
    <3> HIDE DEF row, w
    <3>3. DOMAIN Over(cols, row) = fields /\ \A f \in (fields \cap Flags) \cup fs : Over(cols, row)[f] = row[f]
          BY Zenon, <1>3, <3>1 DEF Over
    <3>4. \A f \in (fields \cap Flags) \cup fs : row[f] = t[k][f]
          BY Zenon, <1>3, <3>1
    <3> QED BY Zenon, <3>2, <3>3, <3>4
  <2>3. CASE k \notin DOMAIN of
        BY Zenon, <2>1, <2>3
  <2> QED BY Zenon, <2>2, <2>3
<1> HIDE DEF w
<1>5. b.user = a.user /\ b.user_group = a.user_group /\ b.auth_strategy = w /\ DOMAIN b = DOMAIN a
      BY Zenon DEF BoltInv, BoltTables
<1> HIDE DEF b
<1>6. BoltInv(b)
      BY Zenon, <1>4, <1>5, BoltStrategiesWritten DEF fs, fields, t
<1> QED BY Zenon, <1>1, <1>6

\* A poll of the users and groups marks them as read.
LEMMA BoltPollUsers ==
    ASSUME NEW a, BoltInv(a), NEW us, NEW gs
    PROVE  BoltInv(PollUsers(a, us, gs))
<1> DEFINE b == PollUsers(a, us, gs)
           cols == [fresh |-> FALSE]
<1>1. /\ b.user = Assign(a.user, us, cols) /\ b.user_group = Assign(a.user_group, gs, cols)
      /\ b.auth_strategy = a.auth_strategy /\ DOMAIN b = DOMAIN a
      BY Zenon DEF BoltInv, BoltTables, PollUsers, Polled
<1>2. DOMAIN cols = {"fresh"}
      BY Zenon
<1> HIDE DEF b, cols
<1>3. Table(a.user, UserFields) /\ Table(a.user_group, BoltGroupFields)
      BY Zenon DEF BoltInv, BoltTables
<1>4. /\ "valid" \in UserFields /\ DOMAIN cols \subseteq UserFields /\ {} \subseteq UserFields
      /\ "valid" \in BoltGroupFields /\ DOMAIN cols \subseteq BoltGroupFields /\ {} \subseteq BoltGroupFields
      /\ \A f \in DOMAIN cols : f \notin Flags /\ f \notin {}
      BY Zenon, <1>2 DEF UserFields, GroupFields, BoltGroupFields, Flags
<1>5. Table(Assign(a.user, us, cols), UserFields) /\ Alike(a.user, Assign(a.user, us, cols), {})
      BY Zenon, <1>3, <1>4, Assigned
<1>6. /\ Table(Assign(a.user_group, gs, cols), BoltGroupFields)
      /\ Alike(a.user_group, Assign(a.user_group, gs, cols), {})
      BY Zenon, <1>3, <1>4, Assigned
<1>7. BoltTables(b)
      BY Zenon, <1>1, <1>5, <1>6 DEF BoltInv, BoltTables
<1>8. BoltInv(b)
      BY Zenon, <1>1, <1>5, <1>6, <1>7, BoltFrame, AlikeItself
<1> QED BY Zenon, <1>8 DEF b

\* A poll of the strategies marks them as read.
LEMMA BoltPollStrategies ==
    ASSUME NEW a, BoltInv(a), NEW ks
    PROVE  BoltInv(PollStrategies(a, ks))
<1> DEFINE b == PollStrategies(a, ks)
           cols == [fresh |-> FALSE]
           fs == {"default", "principals"}
<1>1. /\ b.user = a.user /\ b.user_group = a.user_group /\ b.auth_strategy = Assign(a.auth_strategy, ks, cols)
      /\ DOMAIN b = DOMAIN a
      BY Zenon DEF BoltInv, BoltTables, PollStrategies, Polled
<1>2. /\ "valid" \in BoltStrategyFields /\ DOMAIN cols \subseteq BoltStrategyFields /\ fs \subseteq BoltStrategyFields
      /\ \A f \in DOMAIN cols : f \notin Flags /\ f \notin fs
      BY Zenon DEF StrategyFields, BoltStrategyFields, Flags
<1> HIDE DEF b, cols, fs
<1>3. Table(a.auth_strategy, BoltStrategyFields)
      BY Zenon DEF BoltInv, BoltTables
<1>4. /\ Table(Assign(a.auth_strategy, ks, cols), BoltStrategyFields)
      /\ Alike(a.auth_strategy, Assign(a.auth_strategy, ks, cols), fs)
      BY Zenon, <1>2, <1>3, Assigned
<1>5. BoltTables(b)
      BY Zenon, <1>1, <1>4 DEF BoltInv, BoltTables
<1>6. BoltInv(b)
      BY Zenon, <1>1, <1>4, <1>5, BoltFrame, AlikeItself DEF fs
<1> QED BY Zenon, <1>6 DEF b

(* Through any sequence of calls of store/boltdb, every live user and group *)
(* has exactly one live default strategy, which names it and nothing else,  *)
(* and every live default strategy has its principal (createDefaultStrategy *)
(* and cleanLinkStrategy in AddUser, AddGroup, DeleteUser, DeleteGroup),    *)
(* main accounts included. The proviso is that new rows have new ids:       *)
(* boltdb writes a row over an old one of the same id, where MySQL answers  *)
(* with a duplicate entry.                                                  *)
THEOREM BoltDefaults == BoltSpec => []BoltOneDefault(tables)
<1>1. BoltInit => BoltInv(tables)
  <2> DEFINE e == Bolt!EmptyAuth
  <2>1. e.user = << >> /\ e.user_group = << >> /\ e.auth_strategy = << >> /\ BoltTables(e)
        BY DEF Bolt!EmptyAuth, BoltTables, Table
  <2> HIDE DEF e
  <2>2. Principals(e) = {} /\ Defaults(e) = {}
        BY <2>1 DEF Principals, Defaults, ValidKeys
  <2>3. OneEach({}, BoltNamed(e))
        BY Zenon, <2>2 DEF OneEach, BoltNamed
  <2>4. BoltInv(e)
        BY Zenon, <2>1, <2>2, <2>3 DEF BoltInv, BoltOneDefault
  <2>5. \A x : x \notin DOMAIN e.user /\ x \notin DOMAIN e.auth_strategy
        BY <2>1
  <2>6. \A main : BoltInv(Bolt!addUser(e, main).db)
        BY Zenon, <2>4, <2>5, BoltAddUser
  <2> QED BY Zenon, <2>6 DEF BoltInit, e
<1>2. BoltInv(tables) /\ [BoltNext]_tables => BoltInv(tables)'
  <2> SUFFICES ASSUME BoltInv(tables), [BoltNext]_tables PROVE BoltInv(tables')
      BY Zenon
  <2>1. ASSUME NEW u \in UserArgs, NewPrincipal(tables.user, u.id, "user"), tables' = Bolt!AddUser(tables, u).db
        PROVE  BoltInv(tables')
        BY Zenon, <2>1, BoltAddUser DEF NewPrincipal
  <2>2. ASSUME NEW u \in UserArgs, tables' = Bolt!UpdateUser(tables, u).db PROVE BoltInv(tables')
        BY Zenon, <2>2, BoltUpdateUser
  <2>3. ASSUME NEW id \in ValidKeys(tables.user), tables' = Bolt!DeleteUser(tables, Bolt!GetUser(tables, id)).db
        PROVE  BoltInv(tables')
        BY Zenon, <2>3, BoltDeleteUser
  <2>4. ASSUME NEW g \in GroupArgs, NewPrincipal(tables.user_group, g.id, "group"),
               tables' = Bolt!AddGroup(tables, g).db
        PROVE  BoltInv(tables')
        BY Zenon, <2>4, BoltAddGroup DEF NewPrincipal
  <2>5. ASSUME NEW g \in GroupChanges, tables' = Bolt!UpdateGroup(tables, g).db PROVE BoltInv(tables')
        BY Zenon, <2>5, BoltUpdateGroup
  <2>6. ASSUME NEW id \in ValidKeys(tables.user_group),
               tables' = Bolt!DeleteGroup(tables, Bolt!GetGroup(tables, id)).db
        PROVE  BoltInv(tables')
        BY Zenon, <2>6, BoltDeleteGroup
  <2>7. ASSUME NEW s \in StrategyArgs, s.id \notin DOMAIN tables.auth_strategy,
               tables' = Bolt!AddStrategy(tables, s).db
        PROVE  BoltInv(tables')
    <3>1. s.default = FALSE
          BY Zenon DEF StrategyArgs
    <3> QED BY Zenon, <2>7, <3>1, BoltAddStrategy
  <2>8. ASSUME NEW s \in StrategyChanges, s.id \in ValidKeys(tables.auth_strategy), Fixed(tables, s),
               tables' = Bolt!UpdateStrategy(tables, s).db
        PROVE  BoltInv(tables')
        BY Zenon, <2>8, BoltUpdateStrategy
  <2>9. ASSUME NEW id \in ValidKeys(tables.auth_strategy), ~tables.auth_strategy[id].default,
               tables' = Bolt!DeleteStrategy(tables, id).db
        PROVE  BoltInv(tables')
    <3>1. id \notin Defaults(tables)
          BY Zenon, <2>9 DEF Defaults
    <3> QED BY Zenon, <2>9, <3>1, BoltDeleteStrategy
  <2>10. ASSUME NEW rs \in SUBSET Resources,
                \/ tables' = Bolt!LooseAddStrategyResources(tables, rs).db
                \/ tables' = Bolt!RemoveStrategyResources(tables, rs).db
         PROVE  BoltInv(tables')
    <3>1. PICK remove \in BOOLEAN : tables' = Bolt!operateStrategyResources(tables, remove, rs).db
          BY Zenon, <2>10 DEF Bolt!LooseAddStrategyResources, Bolt!RemoveStrategyResources
    <3> QED BY Zenon, <3>1, BoltResources
  <2>11. ASSUME NEW us, NEW gs, tables' = PollUsers(tables, us, gs) PROVE BoltInv(tables')
         BY Zenon, <2>11, BoltPollUsers
  <2>12. ASSUME NEW ks, tables' = PollStrategies(tables, ks) PROVE BoltInv(tables')
         BY Zenon, <2>12, BoltPollStrategies
  <2>13. CASE UNCHANGED tables
         BY Zenon, <2>13
  <2> QED BY Zenon, <2>1, <2>2, <2>3, <2>4, <2>5, <2>6, <2>7, <2>8, <2>9, <2>10, <2>11, <2>12, <2>13 DEF BoltNext
<1>3. BoltInv(tables) => BoltOneDefault(tables)
      BY Zenon DEF BoltInv
<1> QED BY <1>1, <1>2, <1>3, PTL DEF BoltSpec
=============================================================================
