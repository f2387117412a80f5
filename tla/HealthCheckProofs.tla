------------------------- MODULE HealthCheckProofs -------------------------
(***************************************************************************)
(* Proofs about the health check, for every number of servers, instances   *)
(* and clients, every hash and every mix of requests and faults: an        *)
(* instance a server has taken over always has a callback, and nothing     *)
(* that beats is found dead.                                               *)
(***************************************************************************)
EXTENDS HealthCheck, TLAPS

Rows == [valid : BOOLEAN, healthy : BOOLEAN, check : BOOLEAN]
Partial(S) == UNION {[D -> S] : D \in SUBSET Items}

States ==
  [known : SUBSET Items, provider : Partial(Rows),
   changed : SUBSET {"self", "instance", "client"}, buckets : SUBSET Servers,
   noAvailableServers : BOOLEAN, managed : SUBSET Items, scheduled : SUBSET Items,
   wheel : [Instances -> Nat], verdicts : Partial(BOOLEAN), offline : SUBSET Items,
   dead : BOOLEAN, quiet : SUBSET {"recover", "suspend"}]

\* The state of one server: what it checks has a callback.
Sound(sv) ==
  /\ sv \in States
  /\ sv.managed = sv.scheduled /\ sv.scheduled \cap Servers = {}
  /\ \A i \in sv.scheduled \cap Instances : sv.wheel[i] > 0 \/ i \in DOMAIN sv.verdicts

\* A server that finds no record after an outage: it does not ask redis, or it
\* holds still.
Covered(sv) == sv.dead \/ "recover" \in sv.quiet

Recorded == \A i \in beating : record[i] \in {"fresh", "deleted"}

IInv ==
  /\ db \in [Items -> Rows] /\ record \in [Items -> {"fresh", "old", "none", "deleted"}]
  /\ redis \in {"up", "down"} /\ beating \subseteq Items /\ up \subseteq Servers
  /\ leader \in Servers
  /\ srv \in [Servers -> States]
  /\ \A s \in Servers : Sound(srv[s])
  /\ \A s \in Servers \ up : srv[s] = Started
  /\ Recorded \/ \A s \in up : Covered(srv[s])
-----------------------------------------------------------------------------
\* Put and Without keep a map a map.
LEMMA PutType ==
  ASSUME NEW S, NEW f \in Partial(S), NEW i \in Items, NEW v \in S
  PROVE  Put(f, i, v) \in Partial(S) /\ DOMAIN Put(f, i, v) = DOMAIN f \cup {i}
<1>1. PICK D \in SUBSET Items : f \in [D -> S]
  BY Zenon DEF Partial
<1>2. DOMAIN f = D
  BY Zenon, <1>1
<1>3. Put(f, i, v) \in [D \cup {i} -> S]
  BY Zenon, <1>1, <1>2 DEF Put
<1> QED BY ZenonT(30), <1>2, <1>3 DEF Partial, Put

\* The same for verdicts, which are Booleans.
LEMMA PutVerdict ==
  ASSUME NEW f \in Partial(BOOLEAN), NEW i \in Items, NEW v \in BOOLEAN
  PROVE  Put(f, i, v) \in Partial(BOOLEAN) /\ DOMAIN Put(f, i, v) = DOMAIN f \cup {i}
<1>1. PICK D \in SUBSET Items : f \in [D -> BOOLEAN]
  BY Zenon DEF Partial
<1>2. DOMAIN f = D
  BY Zenon, <1>1
<1>3. Put(f, i, v) \in [D \cup {i} -> BOOLEAN]
  BY Zenon, <1>1, <1>2 DEF Put
<1>4. DOMAIN Put(f, i, v) = DOMAIN f \cup {i}
  BY Zenon DEF Put
<1>5. D \cup {i} \in SUBSET Items
  BY Zenon
<1> QED BY Zenon, <1>3, <1>4, <1>5 DEF Partial

\* Removing a key from one of the maps of a server.
LEMMA WithoutType ==
  ASSUME NEW S, NEW f \in Partial(S), NEW i
  PROVE  Without(f, i) \in Partial(S) /\ DOMAIN Without(f, i) = DOMAIN f \ {i}
<1>1. PICK D \in SUBSET Items : f \in [D -> S]
  BY Zenon DEF Partial
<1>2. DOMAIN f = D
  BY Zenon, <1>1
<1>3. Without(f, i) \in [D \ {i} -> S]
  BY Zenon, <1>1, <1>2 DEF Without
<1> QED BY Zenon, <1>2, <1>3 DEF Partial, Without

\* The empty map is a map of the items.
LEMMA EmptyPartial == ASSUME NEW S PROVE << >> \in Partial(S)
  BY DEF Partial

\* What a map of the items holds.
LEMMA PartialValue ==
  ASSUME NEW S, NEW f \in Partial(S)
  PROVE  DOMAIN f \subseteq Items /\ \A i \in DOMAIN f : f[i] \in S
  BY Zenon DEF Partial

\* A server that has just started is sound, and covered.
LEMMA StartedSound == Sound(Started) /\ Covered(Started)
<1>1. << >> \in Partial(Rows) /\ << >> \in Partial(BOOLEAN)
  BY Zenon, EmptyPartial
<1>2. Started \in States
  BY Zenon, <1>1 DEF Started, States
<1> QED BY Zenon, <1>2 DEF Sound, Covered, Started

\* The invariant holds when the servers start.
LEMMA InitIInv == Init => IInv
<1> SUFFICES ASSUME Init PROVE IInv
  BY Zenon
<1>1. db \in [Items -> Rows] /\ record \in [Items -> {"fresh", "old", "none", "deleted"}]
  BY Zenon DEF Init, Row, Rows
<1>2. ASSUME NEW s \in Servers PROVE Sound(srv[s])
  <2> DEFINE mine == {i \in Instances \cup Clients : Hash[Servers][i] = s}
             wheel == [i \in Instances |-> IF i \in mine THEN 1 ELSE 0]
  <2>1. srv[s] = [Started EXCEPT !.known = Items, !.provider = db, !.buckets = Servers,
                      !.managed = mine, !.scheduled = mine, !.quiet = {}, !.wheel = wheel]
    BY Zenon DEF Init, Settled
  <2>2. db \in Partial(Rows) /\ << >> \in Partial(BOOLEAN)
    <3>1. Items \in SUBSET Items
      BY Zenon
    <3> QED BY Zenon, <1>1, <3>1, EmptyPartial DEF Partial
  <2>3. mine \subseteq Items /\ mine \cap Servers = {} /\ wheel \in [Instances -> Nat]
    BY Zenon, HashAssumption DEF Items
  <2>4. \A i \in mine \cap Instances : wheel[i] > 0
    OBVIOUS
  <2> HIDE DEF mine, wheel
  <2>5. srv[s] \in States
    BY ZenonT(30), <2>1, <2>2, <2>3 DEF Started, States
  <2> QED BY <2>1, <2>3, <2>4, <2>5 DEF Sound, Started
<1>3. srv \in [Servers -> States]
  BY Zenon, <1>2 DEF Init, Sound
<1> QED BY Zenon, <1>1, <1>2, <1>3 DEF Init, IInv, Recorded, Items
-----------------------------------------------------------------------------
\* A step of one server: its state stays sound and covered, and no record of
\* what beats is lost.
LEMMA ServerStep ==
  ASSUME IInv, NEW s \in up, NEW v, Set(s, v), Sound(v), Covered(srv[s]) => Covered(v),
         db' \in [Items -> Rows], record' \in [Items -> {"fresh", "old", "none", "deleted"}],
         \A i \in beating : record'[i] \in {"fresh", "deleted", record[i]},
         leader' \in Servers, UNCHANGED <<redis, beating, up>>
  PROVE  IInv'
<1>1. s \in Servers /\ srv' = [srv EXCEPT ![s] = v]
  BY Zenon DEF IInv, Set
<1>2. \A h \in Servers : srv'[h] = IF h = s THEN v ELSE srv[h]
  BY Zenon, <1>1 DEF IInv
<1>3. srv' \in [Servers -> States]
  BY Zenon, <1>1 DEF IInv, Sound
<1>4. \A h \in Servers : Sound(srv'[h])
  BY Zenon, <1>2 DEF IInv
<1>5. \A h \in Servers \ up' : srv'[h] = Started
  BY Zenon, <1>2 DEF IInv
<1>6. Recorded' \/ \A h \in up' : Covered(srv'[h])
  BY Zenon, <1>2 DEF IInv, Recorded
<1> QED BY Zenon, <1>3, <1>4, <1>5, <1>6 DEF IInv

\* The servers are left alone.
LEMMA OtherStep ==
  ASSUME IInv, UNCHANGED <<srv, up, leader>>,
         db' \in [Items -> Rows], record' \in [Items -> {"fresh", "old", "none", "deleted"}],
         redis' \in {"up", "down"}, beating' \subseteq Items,
         \A i \in beating' : record'[i] \in {"fresh", "deleted"}
                              \/ (i \in beating /\ record'[i] = record[i])
  PROVE  IInv'
  BY Zenon DEF IInv, Recorded
-----------------------------------------------------------------------------
Changes == [provider : Partial(Rows), changed : SUBSET {"self", "instance", "client"}]

\* The events of the caches.
LEMMA EventTypes ==
  ASSUME NEW p \in Partial(Rows), NEW i \in Items, NEW row \in Rows
  PROVE  /\ OnCreated(p, i, row) \in Changes /\ OnUpdated(p, i, row) \in Changes
         /\ OnDeleted(p, i, row) \in Changes /\ Kept(p) \in Changes
<1>1. Kept(p) \in Changes
  BY Zenon DEF Kept, Changes
<1>2. Moved(Put(p, i, row), i) \in Changes
  BY Zenon, PutType DEF Moved, Changes, Kind
<1>3. Moved(Without(p, i), i) \in Changes
  BY Zenon, WithoutType DEF Moved, Changes, Kind
<1>4. OnCreated(p, i, row) \in Changes /\ OnDeleted(p, i, row) \in Changes
  BY Zenon, <1>1, <1>2, <1>3 DEF OnCreated, OnDeleted
<1>5. OnUpdated(p, i, row) \in Changes
  BY Zenon, <1>1, <1>2, <1>3 DEF OnUpdated
<1> QED BY Zenon, <1>1, <1>4, <1>5

\* A poll of the cache keeps the invariant and finds nobody dead or alive.
LEMMA PollStep ==
  ASSUME IInv, NEW s \in up, Poll(s)
  PROVE  IInv' /\ \E v : Set(s, v) /\ v.verdicts = srv[s].verdicts
<1> DEFINE sv == srv[s]
           next(i) == CASE i \notin DOMAIN db -> Kept(sv.provider)
                   [] db[i].valid /\ i \notin sv.known -> OnCreated(sv.provider, i, db[i])
                   [] db[i].valid /\ i \in sv.known -> OnUpdated(sv.provider, i, db[i])
                   [] ~db[i].valid /\ i \in sv.known -> OnDeleted(sv.provider, i, db[i])
                   [] OTHER -> Kept(sv.provider)
           after == {i \in Items : i \in DOMAIN next(i).provider}
           provider == [i \in after |-> next(i).provider[i]]
           known == {i \in Items : Valid(i)}
           changed == sv.changed \cup UNION {next(i).changed : i \in Items}
           v == [sv EXCEPT !.known = known, !.provider = provider, !.changed = changed]
<1>1. Set(s, v) /\ UNCHANGED <<db, record, redis, beating, up, leader>>
  BY Zenon DEF Poll
<1>2. Sound(sv)
  BY Zenon DEF IInv
<1>3. ASSUME NEW i \in Items PROVE next(i) \in Changes
  <2>1. db[i] \in Rows /\ sv.provider \in Partial(Rows)
    BY Zenon, <1>2 DEF IInv, Sound, States
  <2> QED BY Zenon, <2>1, EventTypes
<1> HIDE DEF next
<1>4. provider \in Partial(Rows)
  <2>1. \A i \in after : next(i).provider[i] \in Rows
    BY Zenon, <1>3, PartialValue DEF Changes
  <2>2. provider \in [after -> Rows] /\ after \in SUBSET Items
    BY Zenon, <2>1
  <2> QED BY Zenon, <2>2 DEF Partial
<1>5. changed \in SUBSET {"self", "instance", "client"}
  BY <1>2, <1>3 DEF Changes, Sound, States
<1>6. known \in SUBSET Items
  BY Zenon
<1> HIDE DEF provider, changed, known, after
<1>7. Sound(v) /\ (Covered(sv) => Covered(v)) /\ v.verdicts = sv.verdicts
  <2>1. v \in States
    BY Zenon, <1>2, <1>4, <1>5, <1>6 DEF Sound, States
  <2> QED BY Zenon, <1>2, <2>1 DEF Sound, States, Covered
<1> HIDE DEF v
<1>8. IInv'
  BY Zenon, <1>1, <1>7, ServerStep DEF IInv
<1> QED BY Zenon, <1>1, <1>7, <1>8
-----------------------------------------------------------------------------
\* The dispatcher.
LEMMA ReloadSelf ==
  ASSUME NEW sv, Sound(sv)
  PROVE  LET r == reloadSelfContinuum(sv)
         IN  Sound(r.sv) /\ (Covered(sv) => Covered(r.sv)) /\ r.sv.verdicts = sv.verdicts
<1> DEFINE next == {h \in Servers \cap DOMAIN sv.provider : sv.provider[h].healthy}
           none == sv.noAvailableServers \/ next = {}
           back == none /\ next # {}
           v == [sv EXCEPT !.noAvailableServers = none]
           w == [sv EXCEPT !.buckets = next, !.noAvailableServers = none /\ ~back,
                           !.quiet = IF back THEN @ \cup {"suspend"} ELSE @]
<1>1. reloadSelfContinuum(sv).sv = IF next = sv.buckets /\ next # {} THEN v ELSE w
  BY Zenon DEF reloadSelfContinuum
<1>2. next \in SUBSET Servers /\ none \in BOOLEAN /\ (none /\ ~back) \in BOOLEAN
  BY Zenon DEF Sound, States
<1> HIDE DEF next, none, back
<1>3. Sound(v) /\ (Covered(sv) => Covered(v)) /\ v.verdicts = sv.verdicts
  BY Zenon, <1>2 DEF Sound, States, Covered
<1>4. Sound(w) /\ (Covered(sv) => Covered(w)) /\ w.verdicts = sv.verdicts
  BY ZenonT(30), <1>2 DEF Sound, States, Covered
<1> QED BY Zenon, <1>1, <1>3, <1>4

\* reloadManaged, which takes over new items and gives up old ones.
LEMMA ReloadManaged ==
  ASSUME NEW sv, Sound(sv), NEW s, NEW items \in SUBSET (Instances \cup Clients)
  PROVE  LET v == reloadManaged(sv, s, items)
         IN  Sound(v) /\ (Covered(sv) => Covered(v)) /\ v.verdicts = sv.verdicts
<1> DEFINE next == IF sv.buckets = {} THEN {}
                   ELSE {i \in items \cap DOMAIN sv.provider : Hash[sv.buckets][i] = s}
           moved == [sv EXCEPT !.managed = (@ \ items) \cup next]
           gone == (sv.managed \cap items) \ next
           wheel == [i \in Instances |-> IF i \in next \ sv.scheduled THEN sv.wheel[i] + 1
                                                                    ELSE sv.wheel[i]]
           v == reloadManaged(sv, s, items)
<1>1. next \subseteq items
  BY Zenon
<1>2. items \subseteq Items /\ items \cap Servers = {}
  BY Zenon, HashAssumption DEF Items
<1>3. v = DelInstance(UpsertInstance(moved, next), gone)
  BY Zenon DEF reloadManaged
<1> HIDE DEF next
<1>4. /\ moved.scheduled = sv.scheduled /\ moved.wheel = sv.wheel
      /\ moved.managed = (sv.managed \ items) \cup next
  BY Zenon DEF Sound, States
<1>5. v = [sv EXCEPT !.managed = (sv.managed \ items) \cup next,
                     !.scheduled = (sv.scheduled \cup next) \ gone, !.wheel = wheel]
  <2> DEFINE u == UpsertInstance(moved, next)
  <2>1. u = [moved EXCEPT !.scheduled = sv.scheduled \cup next, !.wheel = wheel]
    <3> HIDE DEF moved
    <3> QED BY Zenon, <1>4 DEF UpsertInstance
  <2>2. u.scheduled = sv.scheduled \cup next
    <3> HIDE DEF u, wheel
    <3> QED BY Zenon, <2>1 DEF Sound, States
  <2>3. v = [u EXCEPT !.scheduled = (sv.scheduled \cup next) \ gone]
    <3> HIDE DEF u, gone
    <3> QED BY Zenon, <1>3, <2>2 DEF DelInstance, u
  <2> HIDE DEF u, wheel, gone, v
  <2> QED BY Zenon, <2>1, <2>3 DEF Sound, States
<1>6. (sv.scheduled \cup next) \ gone = (sv.managed \ items) \cup next
  BY Zenon, <1>1 DEF Sound
<1>7. wheel \in [Instances -> Nat]
  BY DEF Sound, States
<1>8. ASSUME NEW i \in ((sv.managed \ items) \cup next) \cap Instances
      PROVE  wheel[i] > 0 \/ i \in DOMAIN sv.verdicts
  <2>1. CASE i \in sv.scheduled
    BY Zenon, <2>1 DEF Sound
  <2>2. CASE i \notin sv.scheduled
    BY <2>2 DEF Sound, States
  <2> QED BY Zenon, <2>1, <2>2
<1>9. (sv.managed \ items) \cup next \subseteq Items /\ ((sv.managed \ items) \cup next) \cap Servers = {}
  BY Zenon, <1>1, <1>2 DEF Sound, States
<1> HIDE DEF wheel, gone, v
<1> DEFINE m == (sv.managed \ items) \cup next
<1>10. v = [sv EXCEPT !.managed = m, !.scheduled = m, !.wheel = wheel]
  BY Zenon, <1>5, <1>6
<1> HIDE DEF m
<1>11. v \in States
  BY Zenon, <1>7, <1>9, <1>10 DEF Sound, States, m
<1>12. /\ v.managed = m /\ v.scheduled = m /\ v.wheel = wheel /\ v.verdicts = sv.verdicts
       /\ v.dead = sv.dead /\ v.quiet = sv.quiet
  BY Zenon, <1>10 DEF Sound, States
<1>13. Sound(v)
  BY Zenon, <1>8, <1>9, <1>11, <1>12 DEF Sound, m
<1>14. (Covered(sv) => Covered(v)) /\ v.verdicts = sv.verdicts
  BY Zenon, <1>12 DEF Covered
<1> QED BY Zenon, <1>13, <1>14 DEF v

\* The dispatcher keeps the invariant and finds nobody dead or alive.
LEMMA DispatchStep ==
  ASSUME IInv, NEW s \in up, processEvent(s) \/ processEnsure(s)
  PROVE  /\ IInv'
         /\ \E v : Set(s, v) /\ v.verdicts = srv[s].verdicts
<1> USE DEF IInv
<1>1. CASE processEvent(s)
  <2> DEFINE self == IF "self" \in srv[s].changed THEN reloadSelfContinuum(srv[s])
                     ELSE [reloaded |-> FALSE, sv |-> srv[s]]
             items == {i \in Instances \cup Clients : self.reloaded \/ Kind(i) \in srv[s].changed}
             m == reloadManaged(self.sv, s, items)
             changed == IF self.reloaded THEN m.changed \ {"self"} ELSE {}
             v == [m EXCEPT !.changed = changed]
  <2>1. Set(s, v) /\ UNCHANGED <<db, record, redis, beating, up, leader>>
    BY ZenonT(30), <1>1 DEF processEvent
  <2>2. Sound(self.sv) /\ (Covered(srv[s]) => Covered(self.sv)) /\ self.sv.verdicts = srv[s].verdicts
    <3>1. CASE "self" \in srv[s].changed
      BY Zenon, <3>1, ReloadSelf
    <3>2. CASE "self" \notin srv[s].changed
      BY Zenon, <3>2
    <3> QED BY Zenon, <3>1, <3>2
  <2>3. items \in SUBSET (Instances \cup Clients)
    BY Zenon
  <2> HIDE DEF self, items
  <2>4. Sound(m) /\ (Covered(srv[s]) => Covered(m)) /\ m.verdicts = srv[s].verdicts
    BY <2>2, <2>3, ReloadManaged
  <2> HIDE DEF m
  <2>5. changed \in SUBSET {"self", "instance", "client"}
    BY Zenon, <2>4 DEF Sound, States
  <2> HIDE DEF changed
  <2>6. Sound(v) /\ (Covered(srv[s]) => Covered(v)) /\ v.verdicts = srv[s].verdicts
    BY SMTT(30), <2>4, <2>5 DEF Sound, States, Covered
  <2> HIDE DEF v
  <2> QED BY Zenon, <2>1, <2>6, ServerStep
<1>2. CASE processEnsure(s)
  <2> DEFINE self == reloadSelfContinuum(srv[s])
             v == reloadManaged(self.sv, s, Instances \cup Clients)
  <2>1. Set(s, v) /\ UNCHANGED <<db, record, redis, beating, up, leader>>
    BY Zenon, <1>2 DEF processEnsure
  <2>2. Sound(self.sv) /\ (Covered(srv[s]) => Covered(self.sv)) /\ self.sv.verdicts = srv[s].verdicts
    BY Zenon, ReloadSelf
  <2> HIDE DEF self
  <2>3. Sound(v) /\ (Covered(srv[s]) => Covered(v)) /\ v.verdicts = srv[s].verdicts
    BY <2>2, ReloadManaged
  <2> HIDE DEF v
  <2> QED BY Zenon, <2>1, <2>3, ServerStep
<1> QED BY Zenon, <1>1, <1>2
-----------------------------------------------------------------------------
\* A verdict that a check finds: the server asks redis, does not hold still, and
\* finds a record.
Found(s, i, healthy) ==
  /\ redis = "up" /\ ~srv[s].dead /\ srv[s].quiet = {}
  /\ healthy = (record[i] = "fresh")

\* A check says what the record in redis says, when it may be trusted.
LEMMA CheckFinds ==
  ASSUME NEW s, NEW i, NEW h, NEW healthy \in Check(srv[s], i, h)
  PROVE  Found(s, i, healthy) /\ healthy \in BOOLEAN
  BY Zenon DEF Check, skipCheck, Query, Answers, Found

\* A check leaves the verdicts as they are or adds the one it has found.
LEMMA CheckStep ==
  ASSUME IInv, NEW s \in up, NEW i \in Items,
         checkCallbackInstance(s, i) \/ checkCallbackClient(s, i) \/ doCheckSelfServiceInstance(s, i)
  PROVE  /\ IInv'
         /\ \/ UNCHANGED srv
            \/ \E v : Set(s, v) /\ v.verdicts = srv[s].verdicts
            \/ \E v, healthy : /\ Set(s, v) /\ v.verdicts = Put(srv[s].verdicts, i, healthy)
                               /\ Found(s, i, healthy)
<1> USE DEF IInv
<1> DEFINE sv == srv[s]
<1>0. Sound(sv) /\ sv.verdicts \in Partial(BOOLEAN)
  BY Zenon DEF Sound, States
<1>1. ASSUME NEW healthy \in BOOLEAN, Found(s, i, healthy), i \notin Instances,
             Set(s, [sv EXCEPT !.verdicts = Put(@, i, healthy)]),
             UNCHANGED <<db, record, redis, beating, up, leader>>
      PROVE  /\ IInv'
             /\ \E v : Set(s, v) /\ v.verdicts = Put(srv[s].verdicts, i, healthy)
  <2> DEFINE p == Put(sv.verdicts, i, healthy)
             v == [sv EXCEPT !.verdicts = p]
  <2>1. p \in Partial(BOOLEAN) /\ DOMAIN p = DOMAIN sv.verdicts \cup {i}
    BY Zenon, <1>0, PutVerdict
  <2> HIDE DEF p
  <2>2. Sound(v) /\ (Covered(sv) => Covered(v)) /\ v.verdicts = p
    BY Zenon, <1>0, <2>1 DEF Sound, States, Covered
  <2>3. Set(s, v)
    BY Zenon, <1>1 DEF p
  <2> HIDE DEF v
  <2>4. IInv'
    BY Zenon, <1>1, <2>2, <2>3, ServerStep
  <2> QED BY Zenon, <2>2, <2>3, <2>4 DEF p
<1>2. CASE checkCallbackInstance(s, i)
  <2> DEFINE found == IF i \in DOMAIN sv.provider THEN Check(sv, i, sv.provider[i].healthy) ELSE {}
  <2>1. /\ i \in Instances /\ sv.wheel[i] > 0
        /\ UNCHANGED <<db, record, redis, beating, up, leader>>
    BY Zenon, <1>2 DEF checkCallbackInstance
  <2>2. \/ i \notin sv.scheduled /\ Set(s, [sv EXCEPT !.wheel[i] = @ - 1])
        \/ UNCHANGED srv
        \/ \E healthy \in found :
              Set(s, [sv EXCEPT !.wheel[i] = @ - 1, !.verdicts = Put(@, i, healthy)])
    BY Zenon, <1>2 DEF checkCallbackInstance
  <2>3. \A healthy \in found : Found(s, i, healthy) /\ healthy \in BOOLEAN
    BY Zenon, CheckFinds
  <2> HIDE DEF found
  <2> DEFINE wheel == [sv.wheel EXCEPT ![i] = @ - 1]
  <2>4. /\ wheel \in [Instances -> Nat]
        /\ \A j \in Instances : j # i => wheel[j] = sv.wheel[j]
    BY <1>0, <2>1 DEF Sound, States
  <2> HIDE DEF wheel
  <2>5. CASE i \notin sv.scheduled /\ Set(s, [sv EXCEPT !.wheel[i] = @ - 1])
    <3> DEFINE v == [sv EXCEPT !.wheel = wheel]
    <3>1. Set(s, v)
      BY Zenon, <2>5 DEF wheel
    <3>2. v \in States /\ v.verdicts = sv.verdicts /\ v.scheduled = sv.scheduled
          /\ v.managed = sv.managed /\ v.wheel = wheel /\ (Covered(sv) => Covered(v))
      BY ZenonT(30), <1>0, <2>4 DEF Sound, States, Covered
    <3> HIDE DEF v
    <3>3. Sound(v)
      BY Zenon, <1>0, <2>4, <2>5, <3>2 DEF Sound
    <3> QED BY Zenon, <2>1, <3>1, <3>2, <3>3, ServerStep
  <2>6. CASE UNCHANGED srv
    BY Zenon, <2>1, <2>6, OtherStep
  <2>7. ASSUME NEW healthy \in found,
               Set(s, [sv EXCEPT !.wheel[i] = @ - 1, !.verdicts = Put(@, i, healthy)])
        PROVE  /\ IInv'
               /\ \E v : /\ Set(s, v) /\ v.verdicts = Put(srv[s].verdicts, i, healthy)
                         /\ Found(s, i, healthy)
    <3> DEFINE p == Put(sv.verdicts, i, healthy)
               v == [sv EXCEPT !.wheel = wheel, !.verdicts = p]
    <3>1. p \in Partial(BOOLEAN) /\ DOMAIN p = DOMAIN sv.verdicts \cup {i}
      BY Zenon, <1>0, <2>3, PutVerdict
    <3>2. Set(s, v)
      BY Zenon, <2>7 DEF wheel
    <3> HIDE DEF p
    <3>3. v \in States /\ v.verdicts = p /\ v.scheduled = sv.scheduled
          /\ v.managed = sv.managed /\ v.wheel = wheel /\ (Covered(sv) => Covered(v))
      BY Zenon, <1>0, <2>4, <3>1 DEF Sound, States, Covered
    <3> HIDE DEF v
    <3>4. Sound(v)
      BY Zenon, <1>0, <2>4, <3>1, <3>3 DEF Sound
    <3>5. IInv'
      BY Zenon, <2>1, <3>2, <3>3, <3>4, ServerStep
    <3> QED BY Zenon, <2>3, <3>2, <3>3, <3>5 DEF p
  <2> QED BY Zenon, <2>2, <2>5, <2>6, <2>7
<1>3. CASE checkCallbackClient(s, i)
  <2>1. /\ i \in sv.scheduled /\ i \in Clients /\ FALSE \in Check(sv, i, TRUE)
        /\ Set(s, [sv EXCEPT !.verdicts = Put(@, i, FALSE)])
        /\ UNCHANGED <<db, record, redis, beating, up, leader>>
    BY Zenon, <1>3 DEF checkCallbackClient
  <2>2. Found(s, i, FALSE)
    BY Zenon, <2>1, CheckFinds
  <2>3. i \notin Instances
    BY Zenon, <2>1, HashAssumption
  <2> QED BY Zenon, <1>1, <2>1, <2>2, <2>3
<1>4. CASE doCheckSelfServiceInstance(s, i)
  <2>1. PICK healthy \in Check(sv, i, sv.provider[i].healthy) :
           Set(s, [sv EXCEPT !.verdicts = Put(@, i, healthy)])
    BY Zenon, <1>4 DEF doCheckSelfServiceInstance
  <2>2. i \in Servers /\ UNCHANGED <<db, record, redis, beating, up, leader>>
    BY Zenon, <1>4 DEF doCheckSelfServiceInstance
  <2>3. Found(s, i, healthy) /\ healthy \in BOOLEAN
    BY Zenon, <2>1, CheckFinds
  <2>4. i \notin Instances
    BY Zenon, <2>2, HashAssumption
  <2> QED BY Zenon, <1>1, <2>1, <2>2, <2>3, <2>4
<1> QED BY Zenon, <1>2, <1>3, <1>4

\* After the write the callback of an instance is back in the wheel.
LEMMA WrittenSound ==
  ASSUME NEW sv, Sound(sv), NEW i
  PROVE  /\ Sound(Written(sv, i)) /\ (Covered(sv) => Covered(Written(sv, i)))
         /\ Written(sv, i).verdicts = Without(sv.verdicts, i)
<1> DEFINE p == Without(sv.verdicts, i)
           wheel == [x \in Instances |-> IF x = i THEN sv.wheel[x] + 1 ELSE sv.wheel[x]]
           v == [sv EXCEPT !.verdicts = p, !.wheel = wheel]
<1>1. Written(sv, i) = v
  BY Zenon DEF Written
<1>2. p \in Partial(BOOLEAN) /\ DOMAIN p = DOMAIN sv.verdicts \ {i}
  BY WithoutType DEF Sound, States
<1>3. wheel \in [Instances -> Nat]
  BY DEF Sound, States
<1>4. \A x \in Instances : IF x = i THEN wheel[x] > 0 ELSE wheel[x] = sv.wheel[x]
  BY DEF Sound, States
<1> HIDE DEF p, wheel
<1>5. /\ v \in States /\ v.verdicts = p /\ v.wheel = wheel /\ v.scheduled = sv.scheduled
      /\ v.managed = sv.managed /\ (Covered(sv) => Covered(v))
  BY Zenon, <1>2, <1>3 DEF Sound, States, Covered
<1> HIDE DEF v
<1>6. Sound(v)
  BY Zenon, <1>2, <1>4, <1>5 DEF Sound
<1> QED BY Zenon, <1>1, <1>5, <1>6 DEF p

\* The write of a status, also a failing one, ends the verdict it is for.
LEMMA WriteStep ==
  ASSUME IInv, NEW s \in up, NEW i \in Items, setInsDbStatus(s, i) \/ setInsDbStatusFails(s, i)
  PROVE  /\ IInv'
         /\ \E v : Set(s, v) /\ v.verdicts = Without(srv[s].verdicts, i)
<1> USE DEF IInv
<1>1. i \in DOMAIN srv[s].verdicts /\ Set(s, Written(srv[s], i))
  BY Zenon DEF setInsDbStatus, setInsDbStatusFails
<1>2. UNCHANGED <<record, redis, beating, up, leader>>
  BY Zenon DEF setInsDbStatus, setInsDbStatusFails
<1>3. db' \in [Items -> Rows]
  <2>1. srv[s].verdicts[i] \in BOOLEAN
    BY Zenon, <1>1, PartialValue DEF Sound, States
  <2>2. CASE db' = db
    BY Zenon, <2>2
  <2>3. CASE db' = [db EXCEPT ![i].valid = FALSE]
    BY ZenonT(30), <2>3 DEF Rows
  <2>4. CASE db' = [db EXCEPT ![i].healthy = srv[s].verdicts[i]]
    BY <2>1, <2>4 DEF Rows
  <2> QED BY Zenon, <2>2, <2>3, <2>4 DEF setInsDbStatus, setInsDbStatusFails
<1>4. /\ Sound(Written(srv[s], i)) /\ (Covered(srv[s]) => Covered(Written(srv[s], i)))
      /\ Written(srv[s], i).verdicts = Without(srv[s].verdicts, i)
  BY Zenon, WrittenSound
<1>5. IInv'
  BY Zenon, <1>1, <1>2, <1>3, <1>4, ServerStep
<1> QED BY Zenon, <1>1, <1>4, <1>5

\* The other steps of a server do not touch its verdicts.
LEMMA RunStep ==
  ASSUME IInv, NEW s \in up,
         \/ checkRedis(s) \/ Elect(s)
         \/ \E w \in {"recover", "suspend"} : Lapse(s, w)
         \/ \E i \in Items : Beat(s, i) \/ handleInstanceEventWorker(s, i) \/ Deregister(s, i)
                               \/ Start(s, i)
  PROVE  /\ IInv'
         /\ UNCHANGED srv \/ \E v : Set(s, v) /\ v.verdicts = srv[s].verdicts
<1> USE DEF IInv
<1>0. Sound(srv[s]) /\ srv[s] \in States
  BY Zenon DEF Sound
<1>1. CASE checkRedis(s)
  <2> DEFINE quiet == IF srv[s].dead THEN srv[s].quiet \cup {"recover"} ELSE srv[s].quiet \ {"recover"}
             v == [srv[s] EXCEPT !.dead = ~@, !.quiet = quiet]
  <2>1. Set(s, v) /\ UNCHANGED <<db, record, redis, beating, up, leader>>
    BY Zenon, <1>1 DEF checkRedis
  <2>2. Sound(v) /\ Covered(v) /\ v.verdicts = srv[s].verdicts
    BY ZenonT(30), <1>0 DEF Sound, States, Covered
  <2> HIDE DEF v
  <2> QED BY Zenon, <2>1, <2>2, ServerStep
<1>2. CASE Elect(s)
  <2>1. leader' \in Servers /\ UNCHANGED <<db, record, redis, beating, up, srv>>
    BY Zenon, <1>2 DEF Elect
  <2> QED BY Zenon, <2>1 DEF Recorded
<1>3. ASSUME NEW w \in {"recover", "suspend"}, Lapse(s, w)
      PROVE  IInv' /\ \E v : Set(s, v) /\ v.verdicts = srv[s].verdicts
  <2> DEFINE v == [srv[s] EXCEPT !.quiet = @ \ {w}]
  <2>1. Set(s, v) /\ UNCHANGED <<db, record, redis, beating, up, leader>>
    BY Zenon, <1>3 DEF Lapse
  <2>2. Sound(v) /\ v.dead = srv[s].dead /\ v.verdicts = srv[s].verdicts
    BY Zenon, <1>0 DEF Sound, States
  <2>3. CASE srv[s].dead
    <3>1. Covered(v)
      BY Zenon, <2>2, <2>3 DEF Covered
    <3> HIDE DEF v
    <3> QED BY Zenon, <2>1, <2>2, <3>1, ServerStep
  <2>4. CASE ~srv[s].dead
    <3>1. Recorded /\ Recorded'
      BY Zenon, <1>3, <2>1, <2>4 DEF Lapse, Recorded, Beats
    <3> HIDE DEF v
    <3>2. srv' = [srv EXCEPT ![s] = v] /\ v \in States
      BY Zenon, <2>1, <2>2 DEF Set, Sound
    <3>3. \A h \in Servers : srv'[h] = IF h = s THEN v ELSE srv[h]
      BY Zenon, <3>2
    <3>4. srv' \in [Servers -> States]
      BY Zenon, <3>2
    <3> QED BY Zenon, <2>1, <2>2, <3>1, <3>3, <3>4
  <2> QED BY Zenon, <2>3, <2>4
<1>4. ASSUME NEW i \in Items, Beat(s, i) \/ Start(s, i) PROVE IInv' /\ UNCHANGED srv
  <2>1. /\ record' \in {[record EXCEPT ![i] = "fresh"], record}
        /\ UNCHANGED <<db, redis, up, leader, srv>>
    BY Zenon, <1>4 DEF Beat, Start, Report
  <2>2. \/ beating' = beating
        \/ beating' = beating \cup {i} /\ record' = [record EXCEPT ![i] = "fresh"]
    BY Zenon, <1>4 DEF Beat, Start, Report
  <2>3. record' \in [Items -> {"fresh", "old", "none", "deleted"}]
    BY Zenon, <2>1
  <2> QED BY Zenon, <2>1, <2>2, <2>3, OtherStep
<1>5. ASSUME NEW i \in Items, handleInstanceEventWorker(s, i)
      PROVE  IInv' /\ \E v : Set(s, v) /\ v.verdicts = srv[s].verdicts
  <2> DEFINE v == [srv[s] EXCEPT !.offline = @ \ {i}]
  <2>1. /\ Set(s, v) /\ record' \in {[record EXCEPT ![i] = "deleted"], record}
        /\ UNCHANGED <<db, redis, beating, up, leader>>
    BY Zenon, <1>5 DEF handleInstanceEventWorker, Delete
  <2>2. Sound(v) /\ (Covered(srv[s]) => Covered(v)) /\ v.verdicts = srv[s].verdicts
    BY Zenon, <1>0 DEF Sound, States, Covered
  <2> HIDE DEF v
  <2> QED BY Zenon, <2>1, <2>2, ServerStep
<1>6. ASSUME NEW i \in Items, Deregister(s, i)
      PROVE  IInv' /\ \E v : Set(s, v) /\ v.verdicts = srv[s].verdicts
  <2> DEFINE v == [srv[s] EXCEPT !.offline = @ \cup {i}]
  <2>1. /\ Set(s, v) /\ db' = [db EXCEPT ![i].valid = FALSE]
        /\ UNCHANGED <<record, redis, beating, up, leader>>
    BY Zenon, <1>6 DEF Deregister
  <2>2. Sound(v) /\ (Covered(srv[s]) => Covered(v)) /\ v.verdicts = srv[s].verdicts
    BY ZenonT(30), <1>0 DEF Sound, States, Covered
  <2>3. db' \in [Items -> Rows]
    BY ZenonT(30), <2>1 DEF Rows
  <2> HIDE DEF v
  <2> QED BY Zenon, <2>1, <2>2, <2>3, ServerStep
<1> QED BY Zenon, <1>1, <1>2, <1>3, <1>4, <1>5, <1>6

\* What happens around the servers.
LEMMA SurroundStep ==
  ASSUME IInv,
         \/ \E i \in Items : Register(i) \/ UpdateInstance(i) \/ Stop(i) \/ Age(i)
         \/ RedisDown \/ \E lost \in BOOLEAN : RedisUp(lost)
  PROVE  IInv' /\ UNCHANGED srv
<1> USE DEF IInv
<1>1. ASSUME NEW i \in Items, Register(i) PROVE IInv' /\ UNCHANGED srv
  <2>1. db' = Put(db, i, Row(TRUE, TRUE, TRUE)) /\ UNCHANGED <<record, redis, beating, up, leader, srv>>
    BY Zenon, <1>1 DEF Register
  <2>2. Row(TRUE, TRUE, TRUE) \in Rows
    BY Zenon DEF Row, Rows
  <2>3. db' \in [Items -> Rows]
    BY Zenon, <2>1, <2>2 DEF Put
  <2> QED BY Zenon, <2>1, <2>3, OtherStep
<1>2. ASSUME NEW i \in Items, UpdateInstance(i) PROVE IInv' /\ UNCHANGED srv
  <2>1. db' = [db EXCEPT ![i].check = ~@] /\ UNCHANGED <<record, redis, beating, up, leader, srv>>
    BY Zenon, <1>2 DEF UpdateInstance
  <2>2. db' \in [Items -> Rows]
    BY ZenonT(30), <2>1 DEF Rows
  <2> QED BY Zenon, <2>1, <2>2, OtherStep
<1>3. ASSUME NEW i \in Items, Stop(i) PROVE IInv' /\ UNCHANGED srv
  BY Zenon, <1>3, OtherStep DEF Stop
<1>4. ASSUME NEW i \in Items, Age(i) PROVE IInv' /\ UNCHANGED srv
  BY Zenon, <1>4, OtherStep DEF Age, Beats
<1>5. CASE RedisDown
  BY Zenon, <1>5, OtherStep DEF RedisDown
<1>6. ASSUME NEW lost \in BOOLEAN, RedisUp(lost) PROVE IInv' /\ UNCHANGED srv
  <2>1. redis' = "up" /\ UNCHANGED <<db, beating, up, leader, srv>>
    BY Zenon, <1>6 DEF RedisUp
  <2>2. CASE record' = record
    BY Zenon, <2>1, <2>2, OtherStep
  <2>3. CASE record' # record
    <3>1. (\A s \in up : srv[s].dead) /\ record' = [i \in Items |-> "none"]
      BY Zenon, <1>6, <2>3 DEF RedisUp
    <3>2. \A s \in up' : Covered(srv'[s])
      BY Zenon, <2>1, <3>1 DEF Covered
    <3>3. record' \in [Items -> {"fresh", "old", "none", "deleted"}]
      BY Zenon, <3>1
    <3> QED BY Zenon, <2>1, <3>2, <3>3
  <2> QED BY Zenon, <2>2, <2>3
<1> QED BY Zenon, <1>1, <1>2, <1>3, <1>4, <1>5, <1>6

\* Servers that stop and start. One that starts is covered: its pool counts as
\* just recovered.
LEMMA StopStart ==
  ASSUME IInv, NEW s \in Servers, (s \in up /\ (Crash(s) \/ Shutdown(s))) \/ Restart(s)
  PROVE  IInv' /\ (UNCHANGED srv \/ Set(s, Started))
<1> USE DEF IInv
<1>1. CASE Crash(s) \/ Shutdown(s)
  <2>1. /\ up' = up \ {s} /\ Set(s, Started) /\ UNCHANGED <<record, redis, beating, leader>>
        /\ db' = db \/ db' = [db EXCEPT ![s].valid = FALSE]
    BY Zenon, <1>1 DEF Crash, Shutdown
  <2>2. db' \in [Items -> Rows]
    <3>1. s \in Items /\ db[s] \in Rows
      BY Zenon DEF Items
    <3>2. [db[s] EXCEPT !.valid = FALSE] \in Rows
      BY Zenon, <3>1 DEF Rows
    <3> QED BY Zenon, <2>1, <3>1, <3>2
  <2>3. srv' = [srv EXCEPT ![s] = Started] /\ Started \in States
    BY Zenon, <2>1, StartedSound DEF Set, Sound
  <2>4. \A h \in Servers : srv'[h] = IF h = s THEN Started ELSE srv[h]
    BY Zenon, <2>3
  <2>5. srv' \in [Servers -> States]
    BY Zenon, <2>3
  <2>6. \A h \in Servers : Sound(srv'[h])
    BY Zenon, <2>4, StartedSound
  <2>7. Recorded' \/ \A h \in up' : Covered(srv'[h])
    BY Zenon, <2>1, <2>4 DEF Recorded
  <2>8. \A h \in Servers \ up' : srv'[h] = Started
    BY Zenon, <2>1, <2>4
  <2> QED BY Zenon, <2>1, <2>2, <2>5, <2>6, <2>7, <2>8
<1>2. CASE Restart(s)
  <2>1. /\ s \notin up /\ up' = up \cup {s} /\ UNCHANGED <<record, redis, beating, leader, srv>>
        /\ db' = db \/ db' = [db EXCEPT ![s] = Row(TRUE, TRUE, TRUE)]
    BY Zenon, <1>2 DEF Restart
  <2>2. db' \in [Items -> Rows]
    <3>1. s \in Items /\ Row(TRUE, TRUE, TRUE) \in Rows
      BY Zenon DEF Items, Row, Rows
    <3> QED BY Zenon, <2>1, <3>1
  <2>3. Recorded' \/ \A h \in up' : Covered(srv'[h])
    BY Zenon, <2>1, StartedSound DEF Recorded
  <2> QED BY Zenon, <2>1, <2>2, <2>3
<1> QED BY Zenon, <1>1, <1>2
-----------------------------------------------------------------------------
\* A verdict that was not there before and that is bad for something that
\* beats.
Alarms ==
  \A s \in Servers : \A i \in beating :
    (i \in DOMAIN srv'[s].verdicts /\ i \notin DOMAIN srv[s].verdicts /\ ~srv'[s].verdicts[i])
    => record[i] = "deleted"

\* A step that makes no new verdict raises no false alarm.
LEMMA NoAlarm ==
  ASSUME IInv, NEW s \in Servers, NEW v, Set(s, v),
         DOMAIN v.verdicts \subseteq DOMAIN srv[s].verdicts
  PROVE  Alarms
<1>1. \A h \in Servers : srv'[h] = IF h = s THEN v ELSE srv[h]
  BY Zenon DEF IInv, Set
<1> QED BY Zenon, <1>1 DEF Alarms

\* Nor does a step that makes one, when a check found it.
LEMMA FoundAlarm ==
  ASSUME IInv, NEW s \in up, NEW i \in Items, NEW v, NEW healthy, Set(s, v),
         v.verdicts = Put(srv[s].verdicts, i, healthy), Found(s, i, healthy)
  PROVE  Alarms
<1>1. s \in Servers /\ \A h \in Servers : srv'[h] = IF h = s THEN v ELSE srv[h]
  BY Zenon DEF IInv, Set
<1>2. DOMAIN v.verdicts = DOMAIN srv[s].verdicts \cup {i} /\ v.verdicts[i] = healthy
  BY Zenon DEF Put
<1>3. Recorded
  BY Zenon DEF IInv, Covered, Found
<1>4. ASSUME i \in beating, ~healthy PROVE record[i] = "deleted"
  BY Zenon, <1>3, <1>4 DEF Recorded, Found
<1> QED BY Zenon, <1>1, <1>2, <1>4 DEF Alarms

\* Every step keeps the invariant and raises no false alarm.
LEMMA NextStep == ASSUME IInv, Next PROVE IInv' /\ Alarms
<1>1. ASSUME UNCHANGED srv PROVE Alarms
  BY Zenon, <1>1 DEF Alarms
<1>2. ASSUME NEW s \in up,
             \/ checkRedis(s) \/ Elect(s)
             \/ \E w \in {"recover", "suspend"} : Lapse(s, w)
             \/ \E i \in Items : Beat(s, i) \/ handleInstanceEventWorker(s, i) \/ Deregister(s, i)
                                   \/ Start(s, i)
      PROVE  IInv' /\ Alarms
  <2>1. IInv' /\ (UNCHANGED srv \/ \E v : Set(s, v) /\ v.verdicts = srv[s].verdicts)
    BY Zenon, <1>2, RunStep
  <2>2. s \in Servers
    BY Zenon DEF IInv
  <2> QED BY Zenon, <1>1, <2>1, <2>2, NoAlarm
<1>3. ASSUME NEW s \in up, Poll(s) \/ processEvent(s) \/ processEnsure(s) PROVE IInv' /\ Alarms
  <2>1. IInv' /\ \E v : Set(s, v) /\ v.verdicts = srv[s].verdicts
    BY Zenon, <1>3, PollStep, DispatchStep
  <2>2. s \in Servers
    BY Zenon DEF IInv
  <2> QED BY Zenon, <2>1, <2>2, NoAlarm
<1>4. ASSUME NEW s \in up, NEW i \in Items,
             checkCallbackInstance(s, i) \/ checkCallbackClient(s, i) \/ doCheckSelfServiceInstance(s, i)
      PROVE  IInv' /\ Alarms
  <2>1. /\ IInv'
        /\ \/ UNCHANGED srv
           \/ \E v : Set(s, v) /\ v.verdicts = srv[s].verdicts
           \/ \E v, healthy : /\ Set(s, v) /\ v.verdicts = Put(srv[s].verdicts, i, healthy)
                              /\ Found(s, i, healthy)
    BY Zenon, <1>4, CheckStep
  <2>2. s \in Servers
    BY Zenon DEF IInv
  <2>3. ASSUME NEW v, Set(s, v), v.verdicts = srv[s].verdicts PROVE Alarms
    BY Zenon, <2>2, <2>3, NoAlarm
  <2>4. ASSUME NEW v, NEW healthy, Set(s, v), v.verdicts = Put(srv[s].verdicts, i, healthy),
               Found(s, i, healthy)
        PROVE  Alarms
    BY Zenon, <2>4, FoundAlarm
  <2> QED BY Zenon, <1>1, <2>1, <2>3, <2>4
<1>5. ASSUME NEW s \in up, NEW i \in Items, setInsDbStatus(s, i) \/ setInsDbStatusFails(s, i)
      PROVE  IInv' /\ Alarms
  <2>1. PICK v : Set(s, v) /\ v.verdicts = Without(srv[s].verdicts, i)
    BY Zenon, <1>5, WriteStep
  <2>2. IInv' /\ s \in Servers
    BY Zenon, <1>5, WriteStep DEF IInv
  <2>3. DOMAIN v.verdicts \subseteq DOMAIN srv[s].verdicts
    BY Zenon, <2>1 DEF Without
  <2> QED BY Zenon, <2>1, <2>2, <2>3, NoAlarm
<1>6. CASE \/ \E i \in Items : Register(i) \/ UpdateInstance(i) \/ Stop(i) \/ Age(i)
           \/ RedisDown \/ \E lost \in BOOLEAN : RedisUp(lost)
  BY Zenon, <1>1, <1>6, SurroundStep
<1>7. ASSUME NEW s \in Servers, (s \in up /\ (Crash(s) \/ Shutdown(s))) \/ Restart(s)
      PROVE  IInv' /\ Alarms
  <2>1. IInv' /\ (UNCHANGED srv \/ Set(s, Started))
    BY Zenon, <1>7, StopStart
  <2>2. DOMAIN Started.verdicts \subseteq DOMAIN srv[s].verdicts
    BY DEF Started
  <2> QED BY Zenon, <1>1, <2>1, <2>2, NoAlarm
<1>8. CASE Requests
  <2>1. ASSUME NEW i \in Instances \cup Clients, Register(i) \/ Stop(i) PROVE IInv' /\ Alarms
    BY Zenon, <1>6, <2>1 DEF Items
  <2>2. ASSUME NEW i \in Instances, UpdateInstance(i) PROVE IInv' /\ Alarms
    BY Zenon, <1>6, <2>2 DEF Items
  <2>3. ASSUME NEW s \in up, NEW i \in Items, Deregister(s, i) \/ Start(s, i) PROVE IInv' /\ Alarms
    BY Zenon, <1>2, <2>3
  <2> QED BY Zenon, <1>8, <2>1, <2>2, <2>3 DEF Requests
<1>9. CASE Faults
  <2>1. ASSUME NEW s \in up, Crash(s) \/ Shutdown(s) PROVE IInv' /\ Alarms
    BY Zenon, <1>7, <2>1 DEF IInv
  <2> QED BY Zenon, <1>5, <1>6, <1>9, <2>1 DEF Faults
<1>10. ASSUME NEW s \in up, Runs(s) PROVE IInv' /\ Alarms
  BY Zenon, <1>2, <1>3, <1>4, <1>5, <1>10 DEF Runs
<1> QED BY Zenon, <1>6, <1>7, <1>8, <1>9, <1>10 DEF Next

\* The invariant.
LEMMA Inductive == IInv /\ [Next]_vars => IInv'
<1>1. IInv /\ UNCHANGED vars => IInv'
  BY Zenon DEF vars, IInv, Recorded
<1> QED BY Zenon, <1>1, NextStep

\* The types of the variables, and that the servers schedule exactly what they
\* manage (cache.go, dispatch.go, check.go).
THEOREM HealthTypes == Spec => []TypeOK
<1>1. IInv => TypeOK
  <2> SUFFICES ASSUME IInv PROVE TypeOK
    BY Zenon
  <2>1. \A s \in Servers :
          /\ srv[s].provider \in Partial(Rows) /\ srv[s].verdicts \in Partial(BOOLEAN)
          /\ srv[s].known \subseteq Items /\ srv[s].buckets \subseteq Servers
          /\ srv[s].changed \subseteq {"self", "instance", "client"}
          /\ srv[s].wheel \in [Instances -> Nat]
          /\ srv[s].managed = srv[s].scheduled /\ srv[s].scheduled \cap Servers = {}
    BY Zenon DEF IInv, Sound, States
  <2>2. \A s \in Servers : DOMAIN srv[s].provider \subseteq Items /\ DOMAIN srv[s].verdicts \subseteq Items
    BY Zenon, <2>1, PartialValue
  <2>3. DOMAIN db = Items /\ \A i \in Items : db[i] \in Rows
    BY Zenon DEF IInv
  <2> QED BY Zenon, <2>1, <2>2, <2>3 DEF IInv, TypeOK, Rows
<1> QED BY <1>1, InitIInv, Inductive, PTL DEF Spec

\* An instance that a server has taken over always has a callback, in the wheel
\* or in a check whose result is being written (checkCallbackInstance).
THEOREM HealthNeverForgotten == Spec => []NeverForgotten
<1>1. IInv => NeverForgotten
  BY Zenon DEF IInv, Sound, NeverForgotten
<1> QED BY <1>1, InitIInv, Inductive, PTL DEF Spec

\* Nothing that beats is found dead, through outages of redis, lost records and
\* servers that stop and start (skipCheck, checkRedis).
THEOREM HealthNoFalseAlarm == Spec => NoFalseAlarm
<1>1. IInv /\ [Next]_vars => [Alarms]_vars
  BY Zenon, NextStep
<1>2. Spec => []IInv
  BY InitIInv, Inductive, PTL DEF Spec
<1>3. Spec => [][Alarms]_vars
  BY <1>1, <1>2, PTL DEF Spec
<1> QED BY Zenon, <1>3 DEF NoFalseAlarm, Alarms
=============================================================================
