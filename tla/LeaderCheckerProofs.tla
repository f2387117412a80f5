------------------------ MODULE LeaderCheckerProofs ------------------------
(***************************************************************************)
(* Proofs about the leader health checker, for any number of servers: who  *)
(* answers requests and who keeps the records is settled at every moment;  *)
(* a server follows what its election machine published last when events   *)
(* do not overtake each other; and one change of leader takes no live      *)
(* instance down.                                                          *)
(***************************************************************************)
EXTENDS LeaderChecker, FiniteSetTheorems, TLAPS

\* A leader has no remote peer, ready or not; a ready follower has one.
Peers ==
  \A n \in Node : /\ leader[n] => remote[n] = NoNode
                  /\ initialize[n] /\ ~leader[n] => remote[n] # NoNode

\* A goroutine that may still connect waits only on a server that is not ready,
\* and alone.
Retrying ==
  \A n \in Node : \A r \in retry[n] :
    r.fresh => ~initialize[n] /\ \A q \in retry[n] : q.fresh => q = r

IInv == TypeOK /\ Peers /\ RecordsAtLeader /\ Retrying

-----------------------------------------------------------------------------
\* What the assumption on the constants says, once expanded.
LEMMA Constants ==
  /\ NoNode \notin Node /\ Cardinality(Node) \in Nat \ {0}
  /\ Expire \in Nat \ {0} /\ Interval \in Nat \ {0} /\ MaxBacklog \in Nat \ {0}
  /\ Lag \in Nat /\ Times \in Nat /\ Disturbances \subseteq SUBSET Disturbance
<1>1. /\ NoNode \notin Node /\ Node # {} /\ IsFiniteSet(Node)
      /\ Expire \in Nat \ {0} /\ Interval \in Nat \ {0} /\ MaxBacklog \in Nat \ {0}
      /\ Lag \in Nat /\ Times \in Nat /\ Disturbances \subseteq SUBSET Disturbance
  BY Zenon, CheckerAssumption
<1>2. Cardinality(Node) \in Nat /\ Cardinality(Node) # 0
  BY Zenon, <1>1, FS_CardinalityType, FS_EmptySet
<1> QED BY Zenon, <1>1, <1>2

\* An age grows by at most one and not beyond its limit.
LEMMA OlderType ==
  ASSUME NEW limit \in Nat, NEW age \in 0..limit
  PROVE  Older(age, limit) \in 0..limit /\ age <= Older(age, limit) /\ Older(age, limit) <= age + 1
BY DEF Older

\* Before anything happened, nothing is reported.
LEMMA IdleType ==
  Idle \in [kind : {"none", "report", "up", "down", "panic"}, by : Host, hops : 0..Cardinality(Node)]
BY Constants DEF Idle, Host

\* A server that starts knows no leader.
LEMMA StartedType == Started \in Event /\ Started.host = NoNode /\ Started.leader = FALSE
BY Zenon DEF Started, Event, Host

\* The invariant holds when the servers start.
LEMMA InitIInv == Init => IInv
<1> SUFFICES ASSUME Init PROVE IInv
  BY Zenon
<1> USE DEF Init
<1>1. TypeOK
  <2>1. row \in Host /\ seen \in [Node -> Host] /\ newsAge \in 0..Lag
    BY Constants DEF Host
  <2>2. pending \in [Node -> SUBSET Event]
    BY Zenon, StartedType
  <2>3. /\ up \in [Node -> BOOLEAN] /\ leader \in [Node -> BOOLEAN]
        /\ initialize \in [Node -> BOOLEAN] /\ stream \in [Node -> BOOLEAN]
    BY Zenon
  <2>4. /\ remote \in [Node -> Host] /\ retry \in [Node -> SUBSET RetryOf]
        /\ changeAge \in [Node -> 0..Expire] /\ record \in [Node -> 0..Expire]
    BY Constants DEF Host
  <2>5. instance \in {"live", "stopped", "deleted"} /\ healthy \in BOOLEAN /\ beatAge \in 0..Interval
    BY Constants
  <2>6. allowed \subseteq Disturbance /\ spent \in [Disturbance -> 0..Times]
    BY Constants
  <2> QED BY Zenon, <2>1, <2>2, <2>3, <2>4, <2>5, <2>6, IdleType DEF TypeOK
<1>2. Peers /\ Retrying
  BY Zenon DEF Peers, Retrying
<1>3. RecordsAtLeader
  BY Constants DEF RecordsAtLeader
<1> QED BY Zenon, <1>1, <1>2, <1>3 DEF IInv

-----------------------------------------------------------------------------
\* What a step does to the counts of the disturbances.
LEMMA SpendType ==
  ASSUME TypeOK, NEW kind \in Disturbance, Spend(kind)
  PROVE  allowed' = allowed /\ spent' \in [Disturbance -> 0..Times] /\ spent'[kind] = spent[kind] + 1
         /\ \A d \in Disturbance : d # kind => spent'[d] = spent[d]
<1>1. spent[kind] \in 0..Times /\ spent[kind] < Times /\ spent \in [Disturbance -> 0..Times]
  BY Zenon DEF TypeOK, Spend
<1>2. spent[kind] + 1 \in 0..Times
  BY <1>1, Constants
<1> QED BY Zenon, <1>1, <1>2 DEF Spend

\* Publishing an event adds it to those under way to one server.
LEMMA PublishType ==
  ASSUME TypeOK, NEW n \in Node, NEW e \in Event, Publish(n, e)
  PROVE  /\ pending' \in [Node -> SUBSET Event] /\ seen' \in [Node -> Host]
         /\ \A m \in Node : pending'[m] = IF m = n THEN pending[n] \cup {e} ELSE pending[m]
         /\ \A m \in Node : seen'[m] = IF m = n THEN e.host ELSE seen[m]
BY Zenon DEF TypeOK, Publish, Event

\* Steps that leave the checkers alone.
LEMMA ElectionFrame ==
  ASSUME IInv, TypeOK', UNCHANGED checker PROVE IInv'
BY Zenon DEF IInv, checker, Peers, RecordsAtLeader, Retrying

\* What the election does and tells keeps the invariant.
LEMMA ElectionStep ==
  ASSUME IInv, NEW n \in Node, Elect(n) \/ Notice(n) \/ Release(n) PROVE IInv'
<1> USE DEF IInv
<1>1. "switch" \in Disturbance /\ "release" \in Disturbance
  BY Zenon DEF Disturbance
<1>2. PICK e \in Event : Publish(n, e)
  <2>1. CASE Elect(n)
    BY Zenon, <2>1 DEF Elect, Event, Host
  <2>2. CASE Notice(n)
    BY Zenon, <2>2 DEF Notice, Event, TypeOK
  <2>3. CASE Release(n)
    BY Zenon, <2>3, StartedType DEF Release
  <2> QED BY Zenon, <2>1, <2>2, <2>3
<1>3. pending' \in [Node -> SUBSET Event] /\ seen' \in [Node -> Host]
  BY Zenon, <1>2, PublishType
<1>4. row' \in Host /\ newsAge' \in 0..Lag /\ served' = Idle /\ UNCHANGED <<checker, reports>>
  BY Constants DEF Elect, Notice, Release, TypeOK, Host
<1>5. allowed' \subseteq Disturbance /\ spent' \in [Disturbance -> 0..Times]
  <2>1. CASE UNCHANGED disturbed
    BY Zenon, <2>1 DEF disturbed, TypeOK
  <2>2. CASE ~UNCHANGED disturbed
    <3>1. Spend("switch") \/ Spend("release")
      BY Zenon, <2>2 DEF Elect, Notice, Release
    <3> QED BY Zenon, <1>1, <3>1, SpendType DEF TypeOK
  <2> QED BY Zenon, <2>1, <2>2
<1>6. TypeOK'
  BY Zenon, <1>3, <1>4, <1>5, IdleType DEF TypeOK, checker, reports
<1> QED BY Zenon, <1>4, <1>6, ElectionFrame

-----------------------------------------------------------------------------
\* What becomeFollower leaves on n.
Followed(n, host, others) ==
  \/ /\ host # NoNode /\ initialize'[n] /\ ~leader'[n] /\ remote'[n] = host /\ retry'[n] = others
  \/ /\ ~initialize'[n] /\ (leader'[n] => remote'[n] = NoNode)
     /\ \/ retry'[n] = others /\ host = NoNode
        \/ host # NoNode /\ retry'[n] = others \cup {[host |-> host, fresh |-> TRUE]}

\* Only n changes.
OnlyAt(n) ==
  \A m \in Node : m # n =>
    /\ leader'[m] = leader[m] /\ remote'[m] = remote[m] /\ initialize'[m] = initialize[m]
    /\ stream'[m] = stream[m] /\ retry'[m] = retry[m]

RoleTypes ==
  /\ leader \in [Node -> BOOLEAN] /\ initialize \in [Node -> BOOLEAN] /\ stream \in [Node -> BOOLEAN]
  /\ remote \in [Node -> Host] /\ retry \in [Node -> SUBSET RetryOf]
  /\ allowed \subseteq Disturbance /\ spent \in [Disturbance -> 0..Times]

\* becomeFollower, for a host or for none, with the goroutines that retry.
LEMMA FollowerEffect ==
  ASSUME IInv, NEW n \in Node, NEW host \in Host, NEW others \in SUBSET RetryOf,
         becomeFollower(n, host, others)
  PROVE  Followed(n, host, others) /\ OnlyAt(n) /\ RoleTypes'
<1> USE DEF IInv, OnlyAt
<1>1. RoleTypes
  BY Zenon DEF TypeOK, RoleTypes
<1>2. leader[n] => remote[n] = NoNode
  BY Zenon DEF Peers
<1>3. CASE /\ UNCHANGED <<leader, remote, stream, disturbed>>
           /\ initialize' = [initialize EXCEPT ![n] = FALSE] /\ host = NoNode
           /\ retry' = [retry EXCEPT ![n] = others]
  BY Zenon, <1>1, <1>2, <1>3 DEF Followed, RoleTypes, disturbed
<1>4. CASE /\ UNCHANGED <<leader, remote, stream, disturbed>>
           /\ initialize' = [initialize EXCEPT ![n] = TRUE] /\ host # NoNode /\ remote[n] = host
           /\ retry' = [retry EXCEPT ![n] = others]
  BY Zenon, <1>1, <1>2, <1>4 DEF Followed, RoleTypes, disturbed
<1>5. CASE /\ host # NoNode /\ remote[n] # host /\ Connected(n, host)
           /\ retry' = [retry EXCEPT ![n] = others] /\ UNCHANGED disturbed
  BY Zenon, <1>1, <1>5 DEF Followed, RoleTypes, Connected, disturbed
<1>6. CASE /\ host # NoNode /\ ServeError(host) /\ NotConnected(n)
           /\ retry' = [retry EXCEPT ![n] = others \cup {[host |-> host, fresh |-> TRUE]}]
  <2>1. allowed' \subseteq Disturbance /\ spent' \in [Disturbance -> 0..Times]
    <3>1. CASE UNCHANGED disturbed
      BY Zenon, <1>1, <3>1 DEF RoleTypes, disturbed
    <3>2. CASE Spend("error")
      BY Zenon, <1>1, <3>2, SpendType DEF RoleTypes, Disturbance
    <3> QED BY Zenon, <1>6, <3>1, <3>2 DEF ServeError
  <2>2. others \cup {[host |-> host, fresh |-> TRUE]} \in SUBSET RetryOf
    <3>1. host \in Node
      BY Zenon, <1>6 DEF Host
    <3>2. [host |-> host, fresh |-> TRUE] \in RetryOf
      BY Zenon, <3>1 DEF RetryOf
    <3> QED BY Zenon, <3>2
  <2>3. NoNode \in Host
    BY Zenon DEF Host
  <2> QED BY Zenon, <1>1, <1>6, <2>1, <2>2, <2>3 DEF Followed, RoleTypes, NotConnected
<1> QED BY Zenon, <1>3, <1>4, <1>5, <1>6 DEF becomeFollower

\* A goroutine that is overtaken by an event is stale.
LEMMA OutdatedStale ==
  ASSUME NEW rs \in SUBSET RetryOf
  PROVE  Outdated(rs) \in SUBSET RetryOf /\ \A r \in Outdated(rs) : ~r.fresh
BY Zenon DEF Outdated, RetryOf

\* A server that became a follower is in order when the goroutines that waited
\* already will not connect.
LEMMA FollowedSound ==
  ASSUME IInv, NEW n \in Node, NEW host \in Host, NEW others \in SUBSET RetryOf,
         Followed(n, host, others), OnlyAt(n), \A r \in others : ~r.fresh
  PROVE  Peers' /\ Retrying'
<1> USE DEF IInv, OnlyAt
<1>1. Peers'
  BY DEF Followed, Peers
<1>2. Retrying'
  <2> SUFFICES ASSUME NEW m \in Node, NEW r \in retry'[m], r.fresh, NEW q \in retry'[m], q.fresh
               PROVE  ~initialize'[m] /\ q = r
    BY DEF Retrying
  <2>1. CASE m = n
    BY Zenon, <2>1 DEF Followed
  <2>2. CASE m # n
    BY Zenon, <2>2 DEF Retrying
  <2> QED BY Zenon, <2>1, <2>2
<1> QED BY Zenon, <1>1, <1>2

\* The handling of a leader event keeps the invariant.
LEMMA OnEventStep ==
  ASSUME IInv, NEW n \in Node, OnEvent(n) PROVE IInv'
<1> USE DEF IInv
<1>1. PICK e \in pending[n] :
        /\ up[n]
        /\ pending' = [pending EXCEPT ![n] = @ \ {e}]
        /\ IF e.leader THEN becomeLeader(n, Outdated(retry[n])) /\ UNCHANGED record
                       ELSE /\ becomeFollower(n, e.host, Outdated(retry[n]))
                            /\ record' = [record EXCEPT ![n] = Expire]
        /\ changeAge' = [changeAge EXCEPT ![n] = 0]
        /\ served' = Idle /\ UNCHANGED <<row, seen, newsAge, up, reports>>
  BY Zenon DEF OnEvent
<1> DEFINE others == Outdated(retry[n])
<1>2. e \in Event /\ e.host \in Host /\ e.leader \in BOOLEAN /\ retry[n] \in SUBSET RetryOf
  BY DEF TypeOK, Event
<1>3. others \in SUBSET RetryOf /\ \A r \in others : ~r.fresh
  BY Zenon, <1>2, OutdatedStale
<1> HIDE DEF others
<1>4. RoleTypes' /\ OnlyAt(n) /\ Peers' /\ Retrying'
  <2>1. CASE e.leader
    <3>1. becomeLeader(n, others)
      BY Zenon, <1>1, <2>1 DEF others
    <3>2. RoleTypes
      BY Zenon DEF TypeOK, RoleTypes
    <3>3. RoleTypes' /\ OnlyAt(n)
      BY Zenon, <1>3, <3>1, <3>2 DEF becomeLeader, RoleTypes, OnlyAt, Host, disturbed
    <3>4. leader'[n] /\ remote'[n] = NoNode /\ retry'[n] = others
      BY Zenon, <3>1 DEF becomeLeader, TypeOK
    <3>5. Peers' /\ Retrying'
      BY <1>3, <3>3, <3>4 DEF OnlyAt, Peers, Retrying
    <3> QED BY Zenon, <3>3, <3>5
  <2>2. CASE ~e.leader
    <3>1. becomeFollower(n, e.host, others)
      BY Zenon, <1>1, <2>2 DEF others
    <3>2. Followed(n, e.host, others) /\ OnlyAt(n) /\ RoleTypes'
      BY Zenon, <1>2, <1>3, <3>1, FollowerEffect
    <3> QED BY Zenon, <1>2, <1>3, <3>2, FollowedSound
  <2> QED BY Zenon, <2>1, <2>2
<1>5. /\ pending' \in [Node -> SUBSET Event] /\ record' \in [Node -> 0..Expire]
      /\ changeAge' \in [Node -> 0..Expire]
  BY <1>1, Constants DEF TypeOK
<1>6. TypeOK'
  BY Zenon, <1>1, <1>4, <1>5, IdleType DEF TypeOK, RoleTypes, reports
<1>7. RecordsAtLeader'
  <2> SUFFICES ASSUME NEW m \in Node, record'[m] < Expire PROVE initialize'[m] /\ leader'[m]
    BY Zenon DEF RecordsAtLeader
  <2>1. CASE m # n
    <3>1. record'[m] = record[m]
      BY Zenon, <1>1, <2>1 DEF TypeOK
    <3> QED BY Zenon, <1>4, <2>1, <3>1 DEF RecordsAtLeader, OnlyAt
  <2>2. CASE m = n /\ e.leader
    BY Zenon, <1>1, <2>2 DEF becomeLeader, TypeOK
  <2>3. CASE m = n /\ ~e.leader
    BY <1>1, <2>3, Constants DEF TypeOK
  <2> QED BY Zenon, <2>1, <2>2, <2>3
<1> QED BY Zenon, <1>4, <1>6, <1>7

\* A retry of the connection keeps the invariant.
LEMMA RetryFollowerStep ==
  ASSUME IInv, NEW n \in Node, RetryFollower(n) PROVE IInv'
<1> USE DEF IInv
<1>1. PICK r \in retry[n] :
        /\ up[n]
        /\ IF r.fresh THEN becomeFollower(n, r.host, retry[n] \ {r})
                      ELSE /\ retry' = [retry EXCEPT ![n] = @ \ {r}]
                           /\ UNCHANGED <<leader, remote, stream, initialize, disturbed>>
        /\ served' = Idle /\ UNCHANGED <<election, up, changeAge, record, reports>>
  BY Zenon DEF RetryFollower
<1>2. r \in RetryOf /\ r.host \in Host /\ retry[n] \in SUBSET RetryOf
  BY DEF TypeOK, RetryOf, Host
<1>3. RoleTypes' /\ Peers' /\ Retrying' /\ RecordsAtLeader'
  <2>1. CASE r.fresh
    <3> DEFINE others == retry[n] \ {r}
    <3>1. others \in SUBSET RetryOf /\ \A q \in others : ~q.fresh
      BY Zenon, <1>2, <2>1 DEF Retrying
    <3>2. becomeFollower(n, r.host, others)
      BY Zenon, <1>1, <2>1
    <3> HIDE DEF others
    <3>3. Followed(n, r.host, others) /\ OnlyAt(n) /\ RoleTypes'
      BY Zenon, <1>2, <3>1, <3>2, FollowerEffect
    <3>4. Peers' /\ Retrying'
      BY Zenon, <1>2, <3>1, <3>3, FollowedSound
    <3>5. ~initialize[n]
      BY Zenon, <2>1 DEF Retrying
    <3>6. RecordsAtLeader'
      BY Zenon, <1>1, <3>3, <3>5 DEF RecordsAtLeader, OnlyAt
    <3> QED BY Zenon, <3>3, <3>4, <3>6
  <2>2. CASE ~r.fresh
    <3>1. /\ retry' = [retry EXCEPT ![n] = @ \ {r}]
          /\ UNCHANGED <<leader, remote, stream, initialize, record, disturbed>>
      BY Zenon, <1>1, <2>2
    <3>2. RoleTypes
      BY Zenon DEF TypeOK, RoleTypes
    <3>3. RoleTypes'
      BY Zenon, <3>1, <3>2 DEF RoleTypes, disturbed
    <3>4. Peers' /\ RecordsAtLeader'
      BY Zenon, <3>1 DEF Peers, RecordsAtLeader
    <3>5. \A m \in Node : retry'[m] \subseteq retry[m]
      BY Zenon, <3>1 DEF TypeOK
    <3>6. Retrying'
      BY Zenon, <3>1, <3>5 DEF Retrying
    <3> QED BY Zenon, <3>3, <3>4, <3>6
  <2> QED BY Zenon, <2>1, <2>2
<1>4. TypeOK'
  BY Zenon, <1>1, <1>3, IdleType DEF TypeOK, RoleTypes, reports, election
<1> QED BY Zenon, <1>3, <1>4

-----------------------------------------------------------------------------
\* A request ends at a leader that answers, or nowhere.
LEMMA RouteEnds ==
  ASSUME NEW n \in Node, NEW usable, NEW r \in Route(n, usable)
  PROVE  /\ r.hops \in 0..Cardinality(Node) /\ r.node \in Host
         /\ r.node # NoNode => up[r.node] /\ initialize[r.node] /\ leader[r.node]
<1> DEFINE ready == {m \in Node : up[m] /\ initialize[m]}
           ends == Ends(n, {m \in ready \cap usable : ~leader[m]})
<1>1. CASE ends = {}
  <2>1. r = Circle
    BY Zenon, <1>1 DEF Route
  <2> QED BY <2>1, Constants DEF Circle, Host
<1>2. CASE ends # {}
  <2>1. PICK e \in ends :
          r = [node |-> IF e.node \in ready /\ leader[e.node] THEN e.node ELSE NoNode,
               hops |-> e.hops, circle |-> FALSE]
    BY Zenon, <1>2 DEF Route
  <2>2. e.hops \in 0..(Cardinality(Node) - 1)
    BY Zenon DEF Ends
  <2>3. r.hops \in 0..Cardinality(Node)
    BY <2>1, <2>2, Constants
  <2>4. CASE e.node \in ready /\ leader[e.node]
    BY Zenon, <2>1, <2>3, <2>4 DEF Host
  <2>5. CASE ~(e.node \in ready /\ leader[e.node])
    BY Zenon, <2>1, <2>3, <2>5 DEF Host
  <2> QED BY Zenon, <2>4, <2>5
<1> QED BY Zenon, <1>1, <1>2

\* A report, forwarded or not, keeps the invariant.
LEMMA ReportStep ==
  ASSUME IInv, NEW n \in Node, Report(n) PROVE IInv'
<1> USE DEF IInv
<1>1. PICK r \in Route(n, {m \in Node : stream[m]}) :
          /\ record' = [m \in Node |-> IF m = r.node THEN 0 ELSE record[m]]
          /\ served' = [kind |-> "report", by |-> n, hops |-> r.hops]
  BY Zenon DEF Report
<1>2. /\ r.hops \in 0..Cardinality(Node) /\ r.node \in Host
      /\ r.node # NoNode => up[r.node] /\ initialize[r.node] /\ leader[r.node]
  BY Zenon, RouteEnds
<1>3. /\ beatAge' = 0
      /\ UNCHANGED <<election, up, leader, remote, initialize, stream, changeAge, retry,
                     instance, healthy, disturbed>>
  BY Zenon DEF Report
<1>4. served' \in [kind : {"none", "report", "up", "down", "panic"},
                   by : Host, hops : 0..Cardinality(Node)]
  BY Zenon, <1>1, <1>2 DEF Host
<1>5. record' \in [Node -> 0..Expire] /\ beatAge' \in 0..Interval
  BY <1>1, <1>3, Constants DEF TypeOK
<1>6. TypeOK'
  BY Zenon, <1>3, <1>4, <1>5 DEF TypeOK, election, disturbed
<1>7. RecordsAtLeader'
  <2> SUFFICES ASSUME NEW m \in Node, record'[m] < Expire PROVE initialize[m] /\ leader[m]
    BY Zenon, <1>3 DEF RecordsAtLeader
  <2>1. CASE m = r.node
    BY Zenon, <1>2, <2>1, Constants
  <2>2. CASE m # r.node
    BY Zenon, <1>1, <2>2 DEF RecordsAtLeader
  <2> QED BY Zenon, <2>1, <2>2
<1>8. Peers' /\ Retrying'
  BY Zenon, <1>3 DEF Peers, Retrying
<1> QED BY Zenon, <1>6, <1>7, <1>8

\* The verdicts a check may come to.
LEMMA VerdictKind ==
  ASSUME NEW n \in Node, NEW age \in 0..Expire
  PROVE  Verdict(n, age) \in {"up", "down", "stay"}
<1>1. CASE skipCheck(n)
  BY Zenon, <1>1 DEF Verdict
<1>2. CASE ~skipCheck(n) /\ age >= Expire
  BY Zenon, <1>2 DEF Verdict
<1>3. CASE ~skipCheck(n) /\ age < Expire
  BY Zenon, <1>3, Constants DEF Verdict
<1> QED BY <1>1, <1>2, <1>3, Constants

\* The age of the record that Check finds.
AgeAt(r) == IF r.node = NoNode THEN Expire ELSE record[r.node]

\* A check keeps the invariant.
LEMMA CheckStep ==
  ASSUME IInv, NEW n \in Node, Check(n) PROVE IInv'
<1> USE DEF IInv
<1>1. PICK r \in Route(n, Node) :
        /\ served' = IF Verdict(n, AgeAt(r)) = "stay" THEN Idle
                     ELSE [kind |-> Verdict(n, AgeAt(r)), by |-> n, hops |-> r.hops]
        /\ healthy' = CASE Verdict(n, AgeAt(r)) = "up" -> TRUE
                         [] Verdict(n, AgeAt(r)) = "down" -> FALSE
                         [] OTHER -> healthy
  BY Zenon DEF Check, AgeAt
<1>2. r.hops \in 0..Cardinality(Node) /\ r.node \in Host
  BY Zenon, RouteEnds
<1>3. AgeAt(r) \in 0..Expire
  BY <1>2, Constants DEF AgeAt, TypeOK, Host
<1>4. Verdict(n, AgeAt(r)) \in {"up", "down", "stay"}
  BY Zenon, <1>3, VerdictKind
<1>5. healthy' \in BOOLEAN
  BY Zenon, <1>1, <1>4 DEF TypeOK
<1>6. served' \in [kind : {"none", "report", "up", "down", "panic"},
                   by : Host, hops : 0..Cardinality(Node)]
  <2>1. CASE Verdict(n, AgeAt(r)) = "stay"
    BY Zenon, <1>1, <2>1, IdleType
  <2>2. CASE Verdict(n, AgeAt(r)) # "stay"
    BY Zenon, <1>1, <1>2, <1>4, <2>2 DEF Host
  <2> QED BY Zenon, <2>1, <2>2
<1>7. UNCHANGED <<election, checker, instance, beatAge, disturbed>>
  BY Zenon DEF Check
<1>8. TypeOK'
  BY Zenon, <1>5, <1>6, <1>7 DEF TypeOK, election, checker, disturbed
<1> QED BY Zenon, <1>7, <1>8, ElectionFrame

-----------------------------------------------------------------------------
\* A process that ends.
LEMMA DownStep ==
  ASSUME IInv, NEW n \in Node, Down(n), UNCHANGED <<healthy, beatAge>>,
         allowed' \subseteq Disturbance, spent' \in [Disturbance -> 0..Times],
         instance' \in {"live", "stopped", "deleted"},
         served' \in [kind : {"none", "report", "up", "down", "panic"},
                      by : Host, hops : 0..Cardinality(Node)]
            \/ served' = Idle
  PROVE  IInv'
<1> USE DEF IInv
<1>1. /\ up' \in [Node -> BOOLEAN] /\ leader' \in [Node -> BOOLEAN]
      /\ initialize' \in [Node -> BOOLEAN] /\ stream' \in [Node -> BOOLEAN]
  BY Zenon DEF Down, TypeOK
<1>2. /\ seen' \in [Node -> Host] /\ remote' \in [Node -> Host]
      /\ pending' \in [Node -> SUBSET Event] /\ retry' \in [Node -> SUBSET RetryOf]
  BY Zenon DEF Down, TypeOK, Host
<1>3. changeAge' \in [Node -> 0..Expire] /\ record' \in [Node -> 0..Expire]
  BY Constants DEF Down, TypeOK
<1>4. TypeOK'
  BY Zenon, <1>1, <1>2, <1>3, IdleType DEF TypeOK, Down
<1>5. \A m \in Node : m # n =>
        /\ leader'[m] = leader[m] /\ remote'[m] = remote[m] /\ initialize'[m] = initialize[m]
        /\ retry'[m] = retry[m] /\ record'[m] = record[m]
  BY Zenon DEF Down, TypeOK
<1>6. /\ leader'[n] = FALSE /\ remote'[n] = NoNode /\ initialize'[n] = FALSE
      /\ retry'[n] = {} /\ record'[n] = Expire
  BY Zenon DEF Down, TypeOK
<1>7. Peers' /\ Retrying'
  BY <1>5, <1>6 DEF Peers, Retrying
<1>8. RecordsAtLeader'
  BY <1>5, <1>6, Constants DEF RecordsAtLeader
<1> QED BY Zenon, <1>4, <1>7, <1>8

\* A crash keeps the invariant.
LEMMA CrashStep ==
  ASSUME IInv, NEW n \in Node, Crash(n) PROVE IInv'
<1>1. Spend("crash") /\ Down(n) /\ served' = Idle /\ UNCHANGED reports
  BY Zenon DEF Crash
<1>2. TypeOK /\ "crash" \in Disturbance
  BY Zenon DEF IInv, Disturbance
<1>3. allowed' \subseteq Disturbance /\ spent' \in [Disturbance -> 0..Times]
  BY Zenon, <1>1, <1>2, SpendType DEF TypeOK
<1>4. UNCHANGED <<healthy, beatAge>> /\ instance' \in {"live", "stopped", "deleted"}
  BY Zenon, <1>1, <1>2 DEF reports, TypeOK
<1> QED BY Zenon, <1>1, <1>3, <1>4, DownStep

\* A restart keeps the invariant.
LEMMA RestartStep ==
  ASSUME IInv, NEW n \in Node, Restart(n) PROVE IInv'
<1> USE DEF IInv
<1>1. pending' \in [Node -> SUBSET Event] /\ seen' \in [Node -> Host]
  BY Zenon, StartedType, PublishType DEF Restart
<1>2. up' \in [Node -> BOOLEAN] /\ newsAge' \in 0..Lag /\ row' \in Host
  BY Constants DEF Restart, TypeOK
<1>3. TypeOK'
  BY Zenon, <1>1, <1>2, IdleType DEF TypeOK, Restart, reports, disturbed
<1>4. Peers' /\ Retrying' /\ RecordsAtLeader'
  BY Zenon DEF Restart, Peers, Retrying, RecordsAtLeader
<1> QED BY Zenon, <1>3, <1>4

\* A deletion ends on some server, or on none.
LEMMA DeleteEndHost ==
  ASSUME NEW n \in Node, NEW m \in DeleteEnd(n) PROVE m \in Host
BY Zenon DEF DeleteEnd, Ends, Host

\* A deletion of the record keeps the invariant.
LEMMA DeleteStep ==
  ASSUME IInv, NEW n \in Node, Delete(n) PROVE IInv'
<1>1. PICK m \in DeleteEnd(n) :
          IF m # NoNode /\ ~leader[m]
          THEN Down(m) /\ served' = [kind |-> "panic", by |-> m, hops |-> 0]
          ELSE /\ record' = [o \in Node |-> IF o = m THEN Expire ELSE record[o]]
               /\ served' = Idle
               /\ UNCHANGED <<election, up, leader, remote, initialize, stream, changeAge, retry>>
  BY Zenon DEF Delete
<1>2. m \in Host
  BY Zenon, DeleteEndHost
<1>3. instance' = "deleted" /\ UNCHANGED <<healthy, beatAge, disturbed>>
  BY Zenon DEF Delete
<1>4. CASE m # NoNode /\ ~leader[m]
  <2>1. m \in Node /\ Down(m)
    BY Zenon, <1>1, <1>2, <1>4 DEF Host
  <2>2. served' \in [kind : {"none", "report", "up", "down", "panic"},
                     by : Host, hops : 0..Cardinality(Node)]
    BY <1>1, <1>2, <1>4, Constants
  <2>3. allowed' \subseteq Disturbance /\ spent' \in [Disturbance -> 0..Times]
    BY Zenon, <1>3 DEF IInv, TypeOK, disturbed
  <2> QED BY Zenon, <1>3, <2>1, <2>2, <2>3, DownStep
<1>5. CASE ~(m # NoNode /\ ~leader[m])
  <2> USE DEF IInv
  <2>1. /\ record' = [o \in Node |-> IF o = m THEN Expire ELSE record[o]] /\ served' = Idle
        /\ UNCHANGED <<election, up, leader, remote, initialize, stream, changeAge, retry>>
    BY Zenon, <1>1, <1>5
  <2>2. record' \in [Node -> 0..Expire]
    BY <2>1, Constants DEF TypeOK
  <2>3. TypeOK'
    BY Zenon, <1>3, <2>1, <2>2, IdleType DEF TypeOK, election, disturbed
  <2>4. RecordsAtLeader'
    BY <2>1, Constants DEF RecordsAtLeader
  <2>5. Peers' /\ Retrying'
    BY Zenon, <2>1 DEF Peers, Retrying
  <2> QED BY Zenon, <2>3, <2>4, <2>5
<1> QED BY Zenon, <1>4, <1>5

\* The passing of time keeps the invariant.
LEMMA ClockStep ==
  ASSUME IInv, Clock PROVE IInv'
<1> USE DEF IInv
<1>1. /\ newsAge' = Older(newsAge, Lag) /\ beatAge' = Older(beatAge, Interval)
      /\ changeAge' = [n \in Node |-> Older(changeAge[n], Expire)]
      /\ record' = [n \in Node |-> Older(record[n], Expire)]
      /\ served' = Idle
      /\ UNCHANGED <<row, seen, pending, up, leader, remote, initialize, stream, retry,
                     instance, healthy, disturbed>>
  BY Zenon DEF Clock
<1>2. newsAge' \in 0..Lag /\ beatAge' \in 0..Interval
  BY Zenon, <1>1, OlderType, Constants DEF TypeOK
<1>3. \A n \in Node : /\ Older(changeAge[n], Expire) \in 0..Expire
                      /\ Older(record[n], Expire) \in 0..Expire /\ record[n] <= Older(record[n], Expire)
  BY Zenon, OlderType, Constants DEF TypeOK
<1>4. changeAge' \in [Node -> 0..Expire] /\ record' \in [Node -> 0..Expire]
  BY Zenon, <1>1, <1>3
<1>5. TypeOK'
  BY Zenon, <1>1, <1>2, <1>4, IdleType DEF TypeOK, disturbed
<1>6. RecordsAtLeader'
  <2> SUFFICES ASSUME NEW m \in Node, record'[m] < Expire PROVE record[m] < Expire
    BY Zenon, <1>1 DEF RecordsAtLeader
  <2>1. record'[m] = Older(record[m], Expire) /\ record[m] \in 0..Expire
    BY Zenon, <1>1 DEF TypeOK
  <2> QED BY <1>3, <2>1, Constants
<1>7. Peers' /\ Retrying'
  BY Zenon, <1>1 DEF Peers, Retrying
<1> QED BY Zenon, <1>5, <1>6, <1>7

\* Stopping keeps the invariant.
LEMMA StopStep ==
  ASSUME IInv, Stop PROVE IInv'
<1>1. UNCHANGED <<election, checker, healthy, beatAge, disturbed>> /\ instance' = "stopped" /\ served' = Idle
  BY Zenon DEF Stop
<1>2. TypeOK'
  BY Zenon, <1>1, IdleType DEF IInv, TypeOK, election, checker, disturbed
<1> QED BY Zenon, <1>1, <1>2, ElectionFrame

\* Every step of the checker keeps the invariant.
LEMMA NextIInv ==
  ASSUME IInv, [Next]_vars PROVE IInv'
<1>1. CASE UNCHANGED vars
  BY Zenon, <1>1 DEF vars, election, checker, reports, disturbed, IInv, TypeOK, Peers, Retrying, RecordsAtLeader
<1>2. ASSUME NEW n \in Node, OnEvent(n) \/ RetryFollower(n) \/ Report(n) \/ Check(n) \/ Crash(n)
                             \/ Restart(n) \/ Delete(n)
      PROVE IInv'
  BY Zenon, <1>2, OnEventStep, RetryFollowerStep, ReportStep, CheckStep, CrashStep, RestartStep, DeleteStep
<1> QED BY Zenon, <1>1, <1>2, ElectionStep, StopStep, ClockStep DEF Next

\* At every moment, for any number of servers, any delays and any number of events
\* under way: the variables have their types, a server that answers has exactly one
\* peer to answer with (itself or the remote one that becomeFollower connected to),
\* and only a server that acts as the leader keeps heartbeat records.
THEOREM CheckerPeers == Spec => [](TypeOK /\ OnePeer /\ RecordsAtLeader)
<1>1. IInv => TypeOK /\ OnePeer /\ RecordsAtLeader
  <2> SUFFICES ASSUME IInv, NEW n \in Node, initialize[n] PROVE leader[n] <=> remote[n] = NoNode
    BY Zenon DEF IInv, OnePeer
  <2> QED BY Zenon DEF IInv, Peers
<1> QED BY <1>1, InitIInv, NextIInv, PTL DEF Spec

-----------------------------------------------------------------------------
\* When one event is under way at a time, it is the one that was published last;
\* a goroutine that may still connect, and a server that is ready, follow it.
HeardAt(n) ==
  /\ \A e \in pending[n] : e = [leader |-> (seen[n] = n), host |-> seen[n]]
  /\ pending[n] = {} => /\ \A r \in retry[n] : r.fresh => r.host = seen[n]
                        /\ initialize[n] => View(n) = seen[n]

Heard == \A n \in Node : HeardAt(n)

\* What a server has heard stays, when its view and its events do.
LEMMA HeardFrame ==
  ASSUME Heard, NEW n \in Node, seen'[n] = seen[n], pending'[n] = pending[n],
         leader'[n] = leader[n], remote'[n] = remote[n], initialize'[n] = initialize[n],
         \A r \in retry'[n] : r.fresh => r \in retry[n]
  PROVE  HeardAt(n)'
BY Zenon DEF Heard, HeardAt, View

\* Nothing else is under way when an event is published.
LEMMA PublishAlone ==
  ASSUME MaxBacklog = 1, Heard, NEW n \in Node, NEW e, Publish(n, e)
  PROVE  pending[n] = {}
<1> SUFFICES ASSUME NEW d \in pending[n] PROVE FALSE
  BY Zenon
<1>1. pending[n] = {d}
  BY Zenon DEF Heard, HeardAt
<1>2. Cardinality({d}) = 1
  BY Zenon, FS_Singleton
<1> QED BY <1>1, <1>2 DEF Publish

\* An event that is the only one under way is the one published last.
LEMMA PublishHeard ==
  ASSUME MaxBacklog = 1, IInv, Heard, NEW n \in Node, NEW host \in Host,
         Publish(n, [leader |-> (host = n), host |-> host]),
         UNCHANGED <<leader, remote, initialize, retry>>
  PROVE  Heard'
<1> DEFINE e == [leader |-> (host = n), host |-> host]
<1>1. e \in Event /\ e.host = host
  BY Zenon DEF Event
<1>2. pending[n] = {}
  BY Zenon, PublishAlone
<1> HIDE DEF e
<1>3. /\ \A m \in Node : pending'[m] = IF m = n THEN pending[n] \cup {e} ELSE pending[m]
      /\ \A m \in Node : seen'[m] = IF m = n THEN host ELSE seen[m]
  <2>1. Publish(n, e)
    BY Zenon DEF e
  <2> QED BY ZenonT(30), <1>1, <2>1, PublishType DEF IInv
<1>4. HeardAt(n)'
  <2>1. pending'[n] = {e} /\ seen'[n] = host
    BY Zenon, <1>2, <1>3
  <2> QED BY Zenon, <2>1 DEF HeardAt, e
<1>5. \A m \in Node : m # n => HeardAt(m)'
  BY Zenon, <1>3, HeardFrame
<1> QED BY Zenon, <1>4, <1>5 DEF Heard

\* A server that follows the host published last.
LEMMA FollowedHeard ==
  ASSUME IInv', Heard, NEW n \in Node, NEW host \in Host, NEW others \in SUBSET RetryOf,
         Followed(n, host, others), OnlyAt(n), \A r \in others : ~r.fresh,
         UNCHANGED seen, pending'[n] = {} => host = seen[n],
         \A m \in Node : m # n => pending'[m] = pending[m], pending'[n] \subseteq pending[n]
  PROVE  Heard'
<1>1. HeardAt(n)'
  <2>1. \A e \in pending'[n] : e = [leader |-> (seen'[n] = n), host |-> seen'[n]]
    BY Zenon DEF Heard, HeardAt
  <2>2. ASSUME pending'[n] = {}, NEW r \in retry'[n], r.fresh PROVE r.host = seen'[n]
    BY <2>2 DEF Followed
  <2>3. ASSUME pending'[n] = {}, initialize'[n] PROVE View(n)' = seen'[n]
    BY Zenon, <2>3 DEF Followed, View
  <2> QED BY Zenon, <2>1, <2>2, <2>3 DEF HeardAt
<1>2. \A m \in Node : m # n => HeardAt(m)'
  BY Zenon, HeardFrame DEF OnlyAt
<1> QED BY Zenon, <1>1, <1>2 DEF Heard

\* Handling that event makes the server follow what was published.
LEMMA OnEventHeard ==
  ASSUME IInv, Heard, NEW n \in Node, OnEvent(n) PROVE Heard'
<1>1. PICK e \in pending[n] :
        /\ pending' = [pending EXCEPT ![n] = @ \ {e}]
        /\ IF e.leader THEN becomeLeader(n, Outdated(retry[n]))
                       ELSE becomeFollower(n, e.host, Outdated(retry[n]))
        /\ UNCHANGED seen
  BY Zenon DEF OnEvent
<1> DEFINE others == Outdated(retry[n])
<1>2. e \in Event /\ e.host \in Host /\ retry[n] \in SUBSET RetryOf
  BY DEF IInv, TypeOK, Event
<1>3. others \in SUBSET RetryOf /\ \A r \in others : ~r.fresh
  BY Zenon, <1>2, OutdatedStale
<1> HIDE DEF others
<1>4. pending'[n] = pending[n] \ {e} /\ \A m \in Node : m # n => pending'[m] = pending[m]
  BY Zenon, <1>1 DEF IInv, TypeOK
<1>5. e.host = seen[n] /\ (e.leader => seen[n] = n)
  <2>1. e = [leader |-> (seen[n] = n), host |-> seen[n]]
    BY Zenon DEF Heard, HeardAt
  <2>2. e.host = seen[n]
    BY Zenon, <2>1
  <2>3. e.leader = (seen[n] = n)
    BY Zenon, <2>1
  <2> QED BY Zenon, <2>2, <2>3
<1>6. CASE e.leader
  <2>1. becomeLeader(n, others)
    BY Zenon, <1>1, <1>6 DEF others
  <2>2. /\ leader'[n] = TRUE /\ retry'[n] = others
        /\ \A m \in Node : m # n => /\ leader'[m] = leader[m] /\ remote'[m] = remote[m]
                                    /\ initialize'[m] = initialize[m] /\ retry'[m] = retry[m]
    BY Zenon, <2>1 DEF becomeLeader, IInv, TypeOK
  <2>3. HeardAt(n)'
    BY Zenon, <1>1, <1>3, <1>4, <1>5, <1>6, <2>2 DEF Heard, HeardAt, View
  <2>4. \A m \in Node : m # n => HeardAt(m)'
    BY Zenon, <1>1, <1>4, <2>2, HeardFrame
  <2> QED BY Zenon, <2>3, <2>4 DEF Heard
<1>7. CASE ~e.leader
  <2>1. becomeFollower(n, e.host, others)
    BY Zenon, <1>1, <1>7 DEF others
  <2>2. Followed(n, e.host, others) /\ OnlyAt(n)
    BY Zenon, <1>2, <1>3, <2>1, FollowerEffect
  <2>3. IInv'
    BY Zenon, OnEventStep
  <2> QED BY Zenon, <1>1, <1>2, <1>3, <1>4, <1>5, <2>2, <2>3, FollowedHeard
<1> QED BY Zenon, <1>6, <1>7

\* A retry connects to the leader that was published.
LEMMA RetryHeard ==
  ASSUME IInv, Heard, NEW n \in Node, RetryFollower(n) PROVE Heard'
<1>1. PICK r \in retry[n] :
        /\ IF r.fresh THEN becomeFollower(n, r.host, retry[n] \ {r})
                      ELSE /\ retry' = [retry EXCEPT ![n] = @ \ {r}]
                           /\ UNCHANGED <<leader, remote, stream, initialize, disturbed>>
        /\ UNCHANGED election
  BY Zenon DEF RetryFollower
<1>2. r \in RetryOf /\ r.host \in Host /\ retry[n] \in SUBSET RetryOf
  BY DEF IInv, TypeOK, RetryOf, Host
<1>3. UNCHANGED <<seen, pending>>
  BY Zenon, <1>1 DEF election
<1>4. CASE r.fresh
  <2> DEFINE others == retry[n] \ {r}
  <2>1. others \in SUBSET RetryOf /\ \A q \in others : ~q.fresh
    BY Zenon, <1>2, <1>4 DEF IInv, Retrying
  <2>2. becomeFollower(n, r.host, others)
    BY Zenon, <1>1, <1>4
  <2> HIDE DEF others
  <2>3. Followed(n, r.host, others) /\ OnlyAt(n)
    BY Zenon, <1>2, <2>1, <2>2, FollowerEffect
  <2>4. pending[n] = {} => r.host = seen[n]
    BY Zenon, <1>4 DEF Heard, HeardAt
  <2>5. IInv'
    BY Zenon, RetryFollowerStep
  <2> QED BY Zenon, <1>2, <1>3, <2>1, <2>3, <2>4, <2>5, FollowedHeard
<1>5. CASE ~r.fresh
  <2>1. \A m \in Node : retry'[m] \subseteq retry[m]
    BY <1>1, <1>5 DEF IInv, TypeOK
  <2>2. UNCHANGED <<leader, remote, initialize>>
    BY Zenon, <1>1, <1>5
  <2> QED BY Zenon, <1>3, <2>1, <2>2, HeardFrame DEF Heard
<1> QED BY Zenon, <1>4, <1>5

\* A server that goes down has heard nothing it might get wrong.
LEMMA DownHeard ==
  ASSUME IInv, Heard, NEW n \in Node, Down(n) PROVE Heard'
<1>1. \A m \in Node : m # n =>
        /\ leader'[m] = leader[m] /\ remote'[m] = remote[m] /\ initialize'[m] = initialize[m]
        /\ retry'[m] = retry[m] /\ seen'[m] = seen[m] /\ pending'[m] = pending[m]
  BY Zenon DEF Down, IInv, TypeOK
<1>2. retry'[n] = {} /\ pending'[n] = {} /\ initialize'[n] = FALSE
  BY Zenon DEF Down, IInv, TypeOK
<1> QED BY Zenon, <1>1, <1>2, HeardFrame DEF Heard, HeardAt

\* At the start no server has heard of a leader.
LEMMA InitHeard == Init => Heard
<1> SUFFICES ASSUME Init, NEW n \in Node PROVE HeardAt(n)
  BY Zenon DEF Heard
<1>1. seen[n] = NoNode /\ pending[n] = {Started} /\ NoNode # n
  BY Zenon, Constants DEF Init
<1> QED BY Zenon, <1>1 DEF HeardAt, Started

\* One event at a time: every step keeps what servers have heard in order.
LEMMA NextHeard ==
  ASSUME MaxBacklog = 1, IInv, Heard, [Next]_vars PROVE Heard'
<1>1. CASE UNCHANGED <<seen, pending, leader, remote, initialize, retry>>
  BY Zenon, <1>1, HeardFrame DEF Heard
<1>2. ASSUME NEW n \in Node, Elect(n) PROVE Heard'
  BY Zenon, <1>2, PublishHeard DEF Elect, checker, Host
<1>3. ASSUME NEW n \in Node, Notice(n) PROVE Heard'
  <2>1. row \in Host /\ (row = n) = FALSE
    BY Zenon, <1>3 DEF IInv, TypeOK, Notice
  <2>2. Publish(n, [leader |-> (row = n), host |-> row]) /\ UNCHANGED <<leader, remote, initialize, retry>>
    BY Zenon, <1>3, <2>1 DEF Notice, checker
  <2> QED BY Zenon, <2>1, <2>2, PublishHeard
<1>4. ASSUME NEW n \in Node, Release(n) \/ Restart(n) PROVE Heard'
  <2>1. NoNode \in Host /\ (NoNode = n) = FALSE
    BY Zenon, Constants DEF Host
  <2>2. Publish(n, [leader |-> (NoNode = n), host |-> NoNode]) /\ UNCHANGED <<leader, remote, initialize, retry>>
    BY Zenon, <1>4, <2>1 DEF Release, Restart, checker, Started
  <2> QED BY Zenon, <2>1, <2>2, PublishHeard
<1>5. ASSUME NEW n \in Node, OnEvent(n) \/ RetryFollower(n) PROVE Heard'
  BY Zenon, <1>5, OnEventHeard, RetryHeard
<1>6. ASSUME NEW n \in Node, Report(n) \/ Check(n) PROVE Heard'
  BY Zenon, <1>1, <1>6 DEF Report, Check, election, checker
<1>7. ASSUME NEW n \in Node, Crash(n) PROVE Heard'
  BY Zenon, <1>7, DownHeard DEF Crash
<1>8. ASSUME NEW n \in Node, Delete(n) PROVE Heard'
  <2>1. PICK m \in DeleteEnd(n) :
          IF m # NoNode /\ ~leader[m] THEN Down(m)
          ELSE UNCHANGED <<election, up, leader, remote, initialize, stream, changeAge, retry>>
    BY Zenon, <1>8 DEF Delete
  <2>2. m \in Host
    BY Zenon, DeleteEndHost
  <2> QED BY Zenon, <1>1, <2>1, <2>2, DownHeard DEF Host, election
<1>9. Stop \/ Clock \/ UNCHANGED vars => Heard'
  BY Zenon, <1>1 DEF Stop, Clock, vars, election, checker
<1> QED BY Zenon, <1>2, <1>3, <1>4, <1>5, <1>6, <1>7, <1>8, <1>9 DEF Next

\* When the events of a server do not overtake each other in its event hub, who
\* answers, who keeps the records and whom a server follows is settled at every
\* moment: no goroutine that waits to repeat an older becomeFollower takes a server
\* back to an older leader, because OnEvent has raised leaderVersion since.
THEOREM CheckerPeersSound == ASSUME MaxBacklog = 1 PROVE Spec => []PeersSound
<1>1. Init => IInv /\ Heard
  BY Zenon, InitIInv, InitHeard
<1>2. IInv /\ Heard /\ [Next]_vars => (IInv /\ Heard)'
  BY Zenon, NextIInv, NextHeard
<1>3. IInv /\ Heard => PeersSound
  <2> SUFFICES ASSUME IInv, Heard PROVE PeersSound
    BY Zenon
  <2>1. OnePeer
    <3> SUFFICES ASSUME NEW n \in Node, initialize[n] PROVE leader[n] <=> remote[n] = NoNode
      BY Zenon DEF OnePeer
    <3> QED BY Zenon DEF IInv, Peers
  <2>2. ViewFollows
    BY Zenon DEF Heard, HeardAt, ViewFollows
  <2> QED BY Zenon, <2>1, <2>2 DEF IInv, PeersSound
<1> QED BY <1>1, <1>2, <1>3, PTL DEF Spec

-----------------------------------------------------------------------------
\* One change of leader at most, and an instance that goes on reporting.
Calm == OneSwitch /\ instance = "live"

AllSettled == \A n \in Node : Settled(n)
Follows(n) == initialize[n] /\ View(n) = row

\* Nothing fails: the servers are up, connect at the first attempt, and are ready
\* as soon as they have handled an event that names a host.
Quiet ==
  \A n \in Node :
    /\ up[n] /\ retry[n] = {} /\ remote[n] # n /\ (remote[n] # NoNode => stream[n])
    /\ pending[n] = {} /\ seen[n] # NoNode => initialize[n]

\* The server that the row names knows it, and until the change of leader nobody
\* knows of another one.
RowKnown ==
  /\ row = NoNode => \A n \in Node : seen[n] = NoNode /\ ~initialize[n]
  /\ row # NoNode => seen[row] = row
  /\ spent["switch"] = 0 =>
       \A n \in Node : seen[n] \in {NoNode, row} /\ (initialize[n] => View(n) = row)

\* The ages: until every server follows the leader those that do so already have
\* learnt of it since the change; and a server whose checks are no longer suspended
\* finds the last report in the leader's record.
Fresh ==
  /\ beatAge <= Interval
  /\ ~AllSettled => \A n \in Node : Follows(n) => changeAge[n] <= newsAge
  /\ \A n \in Node : Follows(n) => record[row] <= beatAge \/ changeAge[n] <= Lag + beatAge

CalmInv == Calm => Quiet /\ RowKnown /\ Fresh

\* What disturbs the calm is never forgotten: before a calm state is another.
LEMMA CalmBefore ==
  ASSUME IInv, [Next]_vars, Calm' PROVE Calm
<1>1. instance = "live"
  <2>1. instance' = "live"
    BY Zenon DEF Calm
  <2>2. UNCHANGED instance \/ Stop \/ \E n \in Node : Delete(n)
    BY ZenonT(30) DEF Next, vars, reports, Elect, Notice, Release, OnEvent, RetryFollower, Report, Check,
           Crash, Restart, Clock
  <2> QED BY Zenon, <2>1, <2>2 DEF Stop, Delete
<1>2. \A d \in Disturbance : spent[d] <= spent'[d]
  <2>1. \A d \in Disturbance : spent[d] \in 0..Times
    BY Zenon DEF IInv, TypeOK
  <2>2. CASE UNCHANGED disturbed
    BY <2>1, <2>2 DEF disturbed
  <2>3. ASSUME NEW k \in Disturbance, Spend(k) PROVE \A d \in Disturbance : spent[d] <= spent'[d]
    BY <2>1, <2>3, SpendType DEF IInv
  <2>4. ASSUME NEW n \in Node, NEW host, NEW others, becomeFollower(n, host, others)
        PROVE  UNCHANGED disturbed \/ Spend("error")
    BY Zenon, <2>4 DEF becomeFollower, ServeError
  <2>5. ASSUME NEW n \in Node, OnEvent(n) \/ RetryFollower(n)
        PROVE  UNCHANGED disturbed \/ Spend("error")
    BY Zenon, <2>4, <2>5 DEF OnEvent, RetryFollower, becomeLeader
  <2>6. ASSUME NEW n \in Node, Elect(n) \/ Notice(n) \/ Release(n)
        PROVE  UNCHANGED disturbed \/ Spend("switch") \/ Spend("release")
    BY Zenon, <2>6 DEF Elect, Notice, Release
  <2>7. ASSUME NEW n \in Node, Report(n) \/ Check(n) \/ Crash(n) \/ Restart(n) \/ Delete(n)
        PROVE  UNCHANGED disturbed \/ Spend("crash")
    BY Zenon, <2>7 DEF Report, Check, Crash, Restart, Delete
  <2>8. Stop \/ Clock \/ UNCHANGED vars => UNCHANGED disturbed
    BY Zenon DEF Stop, Clock, vars
  <2>9. \/ UNCHANGED disturbed \/ Spend("switch") \/ Spend("release")
        \/ Spend("crash") \/ Spend("error")
    BY Zenon, <2>5, <2>6, <2>7, <2>8 DEF Next
  <2> QED BY Zenon, <2>2, <2>3, <2>9 DEF Disturbance
<1>3. \A d \in Disturbance : spent[d] \in 0..Times /\ spent'[d] \in 0..Times
  BY Zenon, NextIInv DEF IInv, TypeOK
<1>4. "switch" \in Disturbance
  BY Zenon DEF Disturbance
<1> QED BY <1>1, <1>2, <1>3, <1>4 DEF Calm, OneSwitch

\* The invariant of the calm holds at the start.
LEMMA InitCalm == Init => CalmInv
<1> SUFFICES ASSUME Init PROVE Quiet /\ RowKnown /\ Fresh
  BY Zenon DEF CalmInv
<1> USE DEF Init
<1>1. Quiet
  BY Zenon, Constants DEF Quiet
<1>2. RowKnown
  BY Zenon DEF RowKnown
<1>3. Fresh
  BY Constants DEF Fresh, Follows
<1> QED BY Zenon, <1>1, <1>2, <1>3

\* A server takes over the row: nobody follows it yet.
LEMMA ElectCalm ==
  ASSUME MaxBacklog = 1, IInv, Heard, CalmInv, Calm, Calm', NEW n \in Node, Elect(n)
  PROVE  Quiet' /\ RowKnown' /\ Fresh'
<1>0. Quiet /\ RowKnown /\ Fresh
  BY Zenon DEF CalmInv
<1> DEFINE e == [leader |-> TRUE, host |-> n]
<1>1. e \in Event /\ e.host = n /\ Publish(n, e)
  BY Zenon DEF Elect, Event, Host
<1>2. seen[n] # n /\ row' = n /\ UNCHANGED <<checker, reports>>
  BY Zenon DEF Elect
<1> HIDE DEF e
<1>3. /\ \A m \in Node : pending'[m] = IF m = n THEN pending[n] \cup {e} ELSE pending[m]
      /\ \A m \in Node : seen'[m] = IF m = n THEN n ELSE seen[m]
  BY Zenon, <1>1 DEF Publish, IInv, TypeOK
<1>4. "switch" \in Disturbance /\ spent["switch"] \in 0..Times /\ n # NoNode
  BY Zenon, Constants DEF Disturbance, IInv, TypeOK
<1>5. CASE row # NoNode
  <2>1. row \in Node /\ row # n
    BY Zenon, <1>0, <1>2, <1>5 DEF RowKnown, IInv, TypeOK, Host
  <2>2. ActingLeader
    BY Zenon, <1>0, <1>5, <2>1 DEF ActingLeader, Quiet, RowKnown
  <2>3. spent'["switch"] = spent["switch"] + 1 /\ spent'["switch"] <= 1
    BY Zenon, <1>4, <2>2, SpendType DEF Elect, IInv, Calm, OneSwitch
  <2>4. spent["switch"] = 0 /\ spent'["switch"] # 0
    BY <1>4, <2>3
  <2> QED
    <3>1. \A m \in Node : initialize[m] => View(m) # n
      BY Zenon, <1>0, <2>1, <2>4 DEF RowKnown
    <3>2. \A m \in Node : ~Follows(m)'
      BY Zenon, <1>2, <3>1 DEF Follows, View, checker
    <3>3. Fresh'
      BY Zenon, <1>0, <1>2, <3>2 DEF Fresh, reports
    <3>4. RowKnown'
      BY Zenon, <1>0, <1>2, <1>3, <1>4, <2>4 DEF RowKnown
    <3>5. Quiet'
      BY <1>0, <1>2, <1>3 DEF Quiet, checker
    <3> QED BY Zenon, <3>3, <3>4, <3>5
<1>6. CASE row = NoNode
  <2>1. \A m \in Node : seen[m] = NoNode /\ ~initialize[m]
    BY Zenon, <1>0, <1>6 DEF RowKnown
  <2>2. \A m \in Node : ~initialize'[m]
    BY Zenon, <1>2, <2>1 DEF checker
  <2>3. Fresh'
    BY Zenon, <1>0, <1>2, <2>2 DEF Fresh, Follows, reports
  <2>4. RowKnown'
    BY Zenon, <1>0, <1>2, <1>3, <1>4, <2>1, <2>2 DEF RowKnown
  <2>5. Quiet'
    BY <1>0, <1>2, <1>3 DEF Quiet, checker
  <2> QED BY Zenon, <2>3, <2>4, <2>5
<1> QED BY Zenon, <1>5, <1>6

\* A server that notices the new leader, in the calm.
LEMMA NoticeCalm ==
  ASSUME MaxBacklog = 1, IInv, Heard, CalmInv, Calm, NEW n \in Node, Notice(n)
  PROVE  Quiet' /\ RowKnown' /\ Fresh'
<1> DEFINE e == [leader |-> FALSE, host |-> row]
<1>1. e \in Event /\ e.host = row /\ Publish(n, e)
  BY Zenon DEF Notice, Event, Host, IInv, TypeOK
<1>2. row \notin {n, NoNode} /\ seen[n] # row /\ UNCHANGED <<row, newsAge, checker, reports, disturbed>>
  BY Zenon DEF Notice
<1> HIDE DEF e
<1>3. /\ \A m \in Node : pending'[m] = IF m = n THEN pending[n] \cup {e} ELSE pending[m]
      /\ \A m \in Node : seen'[m] = IF m = n THEN row ELSE seen[m]
  BY ZenonT(30), <1>1, PublishType DEF IInv
<1>4. Quiet /\ RowKnown /\ Fresh /\ ~AllSettled /\ row \in Node
  BY Zenon, <1>2 DEF CalmInv, AllSettled, Settled, IInv, TypeOK, Host
<1>5. Fresh'
  BY Zenon, <1>2, <1>4 DEF Fresh, Follows, View, checker, reports
<1>6. RowKnown'
  BY Zenon, <1>2, <1>3, <1>4 DEF RowKnown, View, checker, disturbed
<1>7. Quiet'
  BY <1>2, <1>3, <1>4 DEF Quiet, checker
<1> QED BY Zenon, <1>5, <1>6, <1>7

\* A server handles an event: it is ready if the event named a host, and its checks
\* are suspended.
LEMMA OnEventEffect ==
  ASSUME IInv, Heard, CalmInv, Calm, Calm', NEW n \in Node, OnEvent(n)
  PROVE  /\ pending[n] # {} /\ pending'[n] = {} /\ retry'[n] = {} /\ OnlyAt(n)
         /\ remote'[n] # n /\ (remote'[n] # NoNode => stream'[n])
         /\ IF seen[n] = NoNode THEN ~initialize'[n] ELSE initialize'[n] /\ View(n)' = seen[n]
         /\ changeAge'[n] = 0
         /\ \A m \in Node : m # n => changeAge'[m] = changeAge[m] /\ pending'[m] = pending[m]
         /\ \A m \in Node : seen[m] = m => record'[m] = record[m]
         /\ UNCHANGED <<row, seen, newsAge, up, reports, spent>>
<1>1. PICK e \in pending[n] :
        /\ pending' = [pending EXCEPT ![n] = @ \ {e}]
        /\ IF e.leader THEN becomeLeader(n, Outdated(retry[n])) /\ UNCHANGED record
                       ELSE /\ becomeFollower(n, e.host, Outdated(retry[n]))
                            /\ record' = [record EXCEPT ![n] = Expire]
        /\ changeAge' = [changeAge EXCEPT ![n] = 0]
        /\ UNCHANGED <<row, seen, newsAge, up, reports>>
  BY Zenon DEF OnEvent
<1>2. e = [leader |-> (seen[n] = n), host |-> seen[n]] /\ pending[n] = {e}
  BY Zenon DEF Heard, HeardAt
<1>3. e.host = seen[n] /\ e.leader = (seen[n] = n)
  BY Zenon, <1>2
<1>4. Outdated(retry[n]) = {}
  BY DEF Outdated, CalmInv, Quiet
<1>5. seen[n] \in Host /\ n # NoNode /\ NoNode \notin Node
  BY Zenon, Constants DEF IInv, TypeOK
<1>6. /\ pending'[n] = {} /\ changeAge'[n] = 0
      /\ \A m \in Node : m # n => changeAge'[m] = changeAge[m] /\ pending'[m] = pending[m]
  BY Zenon, <1>1, <1>2 DEF IInv, TypeOK
<1>7. CASE e.leader
  <2>1. becomeLeader(n, {}) /\ UNCHANGED record
    BY Zenon, <1>1, <1>4, <1>7
  <2>2. /\ leader'[n] = TRUE /\ remote'[n] = NoNode /\ initialize'[n] = TRUE /\ retry'[n] = {}
        /\ OnlyAt(n) /\ UNCHANGED spent
    BY Zenon, <2>1 DEF becomeLeader, IInv, TypeOK, OnlyAt, disturbed
  <2>3. View(n)' = n
    BY Zenon, <2>2 DEF View
  <2> QED BY Zenon, <1>1, <1>2, <1>3, <1>5, <1>6, <1>7, <2>1, <2>2, <2>3
<1>8. CASE ~e.leader
  <2>1. becomeFollower(n, seen[n], {}) /\ record' = [record EXCEPT ![n] = Expire] /\ seen[n] # n
    BY Zenon, <1>1, <1>3, <1>4, <1>8
  <2>2. \A m \in Node : seen[m] = m => record'[m] = record[m]
    BY Zenon, <2>1 DEF IInv, TypeOK
  <2>3. OnlyAt(n) /\ Followed(n, seen[n], {})
    BY <1>5, <2>1, FollowerEffect
  <2>4. seen[n] # NoNode => ~ServeError(seen[n])
    <3> SUFFICES ASSUME seen[n] # NoNode, ServeError(seen[n]) PROVE FALSE
      BY Zenon
    <3>1. up[seen[n]]
      BY Zenon, <1>5 DEF CalmInv, Quiet, Host
    <3>2. Spend("error") /\ "error" \in Disturbance \ {"switch"}
      BY Zenon, <3>1 DEF ServeError, Disturbance
    <3>3. spent'["error"] = spent["error"] + 1
      BY Zenon, <3>2, SpendType DEF IInv
    <3> QED BY <3>2, <3>3 DEF Calm, OneSwitch
  <2>5. CASE seen[n] = NoNode
    <3>1. /\ initialize' = [initialize EXCEPT ![n] = FALSE] /\ retry' = [retry EXCEPT ![n] = {}]
          /\ UNCHANGED <<leader, remote, stream, disturbed>>
      BY Zenon, <2>1, <2>5 DEF becomeFollower
    <3>2. ~initialize'[n] /\ retry'[n] = {} /\ remote'[n] # n /\ (remote'[n] # NoNode => stream'[n])
      BY <3>1 DEF IInv, TypeOK, CalmInv, Quiet
    <3> QED BY Zenon, <1>1, <1>2, <1>6, <2>2, <2>3, <2>5, <3>1, <3>2 DEF disturbed
  <2>6. CASE seen[n] # NoNode /\ remote[n] = seen[n]
    <3>1. /\ initialize' = [initialize EXCEPT ![n] = TRUE] /\ retry' = [retry EXCEPT ![n] = {}]
          /\ UNCHANGED <<leader, remote, stream, disturbed>>
      BY Zenon, <2>1, <2>6 DEF becomeFollower
    <3>2. initialize'[n] /\ retry'[n] = {} /\ remote'[n] # n /\ (remote'[n] # NoNode => stream'[n])
      BY <3>1 DEF IInv, TypeOK, CalmInv, Quiet
    <3>3. View(n)' = seen[n]
      BY Zenon, <2>6, <3>1 DEF View, IInv, Peers
    <3> QED BY Zenon, <1>1, <1>2, <1>6, <2>2, <2>3, <2>6, <3>1, <3>2, <3>3 DEF disturbed
  <2>7. CASE seen[n] # NoNode /\ remote[n] # seen[n]
    <3>1. Connected(n, seen[n]) /\ retry' = [retry EXCEPT ![n] = {}] /\ UNCHANGED disturbed
      BY Zenon, <2>1, <2>4, <2>7 DEF becomeFollower
    <3>2. initialize'[n] /\ retry'[n] = {} /\ remote'[n] = seen[n] /\ stream'[n] /\ ~leader'[n]
      BY Zenon, <3>1 DEF Connected, IInv, TypeOK
    <3>3. View(n)' = seen[n]
      BY Zenon, <3>2 DEF View
    <3> QED BY ZenonT(30), <1>1, <1>2, <1>6, <2>1, <2>2, <2>3, <2>7, <3>1, <3>2, <3>3 DEF disturbed
  <2> QED BY Zenon, <2>5, <2>6, <2>7
<1> QED BY Zenon, <1>7, <1>8

\* A server that handles the event of the new leader, in the calm.
LEMMA OnEventCalm ==
  ASSUME IInv, Heard, CalmInv, Calm, Calm', NEW n \in Node, OnEvent(n)
  PROVE  Quiet' /\ RowKnown' /\ Fresh'
<1>1. /\ pending[n] # {} /\ pending'[n] = {} /\ retry'[n] = {} /\ OnlyAt(n)
      /\ remote'[n] # n /\ (remote'[n] # NoNode => stream'[n])
      /\ IF seen[n] = NoNode THEN ~initialize'[n] ELSE initialize'[n] /\ View(n)' = seen[n]
      /\ changeAge'[n] = 0
      /\ \A m \in Node : m # n => changeAge'[m] = changeAge[m] /\ pending'[m] = pending[m]
      /\ \A m \in Node : seen[m] = m => record'[m] = record[m]
      /\ UNCHANGED <<row, seen, newsAge, up, reports, spent>>
  BY Zenon, OnEventEffect
<1>2. Quiet /\ RowKnown /\ Fresh /\ row \in Host
  BY Zenon DEF CalmInv, IInv, TypeOK
<1>3. Quiet'
  BY <1>1, <1>2 DEF Quiet, OnlyAt
<1>4. \A m \in Node : m # n => View(m)' = View(m)
  BY Zenon, <1>1 DEF View, OnlyAt
<1>5. RowKnown'
  <2>1. row = NoNode => \A m \in Node : seen[m] = NoNode /\ ~initialize'[m]
    BY <1>1, <1>2 DEF RowKnown, OnlyAt
  <2>2. spent["switch"] = 0 =>
          \A m \in Node : seen[m] \in {NoNode, row} /\ (initialize'[m] => View(m)' = row)
    BY <1>1, <1>2, <1>4 DEF RowKnown, OnlyAt
  <2> QED BY Zenon, <1>1, <1>2, <2>1, <2>2 DEF RowKnown
<1>6. ~AllSettled
  BY Zenon, <1>1 DEF AllSettled, Settled
<1>7. \A m \in Node : Follows(m)' => m = n \/ Follows(m)
  BY Zenon, <1>1, <1>4 DEF Follows, OnlyAt
<1>8. /\ newsAge \in 0..Lag /\ beatAge \in 0..Interval /\ Lag \in Nat
      /\ changeAge' \in [Node -> 0..Expire]
  BY Zenon, Constants, OnEventStep DEF IInv, TypeOK
<1>9. \A m \in Node : Follows(m)' => changeAge'[m] <= newsAge'
  BY SMTT(30), <1>1, <1>2, <1>6, <1>7, <1>8 DEF Fresh
<1>10. \A m \in Node : Follows(m)' => record'[row] <= beatAge \/ changeAge'[m] <= Lag + beatAge
  BY <1>1, <1>9, <1>8
<1> QED BY Zenon, <1>1, <1>2, <1>3, <1>5, <1>9, <1>10 DEF Fresh, reports

-----------------------------------------------------------------------------
\* A request that arrives at a server that follows an acting leader, and can pass
\* it on, ends there.
LEMMA RouteFollows ==
  ASSUME IInv, NEW n \in Node, Follows(n), row \in Node,
         up[n], up[row], initialize[row], leader[row],
         NEW usable \in SUBSET Node, n = row \/ n \in usable, NEW r \in Route(n, usable)
  PROVE  r.node = row
<1> DEFINE ready == {m \in Node : up[m] /\ initialize[m]}
           via == {m \in ready \cap usable : ~leader[m]}
<1>1. row \notin via /\ row \in ready
  BY Zenon
<1>2. n # row => n \in via /\ remote[n] = row
  BY Zenon DEF Follows, View
<1>3. Route(n, usable) =
        IF Ends(n, via) = {} THEN {Circle}
        ELSE {[node |-> IF e.node \in ready /\ leader[e.node] THEN e.node ELSE NoNode,
               hops |-> e.hops, circle |-> FALSE] : e \in Ends(n, via)}
  BY Zenon DEF Route
<1> HIDE DEF ready, via
<1>4. Ends(n, via) # {}
  <2>1. CASE n = row
    <3> DEFINE e == [node |-> n, hops |-> 0]
               way == [i \in 1..1 |-> n]
    <3>1. e \in [node : Node \ via, hops : 0..(Cardinality(Node) - 1)]
      BY <1>1, <2>1, Constants
    <3>2. way \in [1..(e.hops + 1) -> Node] /\ way[1] = n /\ way[e.hops + 1] = e.node
      OBVIOUS
    <3>3. \A i \in 1..e.hops : way[i] \in via /\ way[i + 1] = remote[way[i]]
      OBVIOUS
    <3> HIDE DEF e, way
    <3>4. e \in Ends(n, via)
      BY Zenon, <3>1, <3>2, <3>3 DEF Ends
    <3> QED BY Zenon, <3>4
  <2>2. CASE n # row
    <3> DEFINE e == [node |-> row, hops |-> 1]
               way == [i \in 1..2 |-> IF i = 1 THEN n ELSE row]
    <3>1. Cardinality({n, row}) = 2 /\ Cardinality({n, row}) <= Cardinality(Node)
      <4>1. IsFiniteSet({n}) /\ Cardinality({n}) = 1
        BY Zenon, FS_Singleton
      <4>2. Cardinality({n} \cup {row}) = 2
        <5>1. Cardinality({n} \cup {row}) =
                IF row \in {n} THEN Cardinality({n}) ELSE Cardinality({n}) + 1
          BY <4>1, FS_AddElement, Zenon
        <5> QED BY <2>2, <4>1, <5>1
      <4>3. {n} \cup {row} = {n, row} /\ {n, row} \subseteq Node /\ IsFiniteSet(Node)
        BY Zenon, CheckerAssumption
      <4> QED BY Zenon, <4>2, <4>3, FS_Subset
    <3>2. e \in [node : Node \ via, hops : 0..(Cardinality(Node) - 1)]
      BY <1>1, <3>1, Constants
    <3>3. way \in [1..(e.hops + 1) -> Node] /\ way[1] = n /\ way[e.hops + 1] = e.node
      OBVIOUS
    <3>4. \A i \in 1..e.hops : way[i] \in via /\ way[i + 1] = remote[way[i]]
      BY <1>2, <2>2
    <3> HIDE DEF e, way
    <3>5. e \in Ends(n, via)
      BY Zenon, <3>2, <3>3, <3>4 DEF Ends
    <3> QED BY Zenon, <3>5
  <2> QED BY Zenon, <2>1, <2>2
<1>5. ASSUME NEW e \in Ends(n, via) PROVE e.node = row
  <2>1. PICK way \in [1..(e.hops + 1) -> Node] :
            /\ way[1] = n /\ way[e.hops + 1] = e.node
            /\ \A i \in 1..e.hops : way[i] \in via /\ way[i + 1] = remote[way[i]]
    BY Zenon DEF Ends
  <2>2. e.hops \in Nat /\ e.node \notin via
    BY Constants DEF Ends
  <2>3. CASE e.hops = 0
    BY <1>2, <2>1, <2>2, <2>3
  <2>4. CASE e.hops # 0
    <3>1. 1 \in 1..e.hops
      BY <2>2, <2>4
    <3>2. n \in via /\ way[1 + 1] = remote[n]
      BY Zenon, <2>1, <3>1
    <3>3. way[2] = row
      BY <1>1, <1>2, <3>2
    <3>4. CASE e.hops = 1
      BY <2>1, <3>3, <3>4
    <3>5. CASE e.hops # 1
      <4>1. 2 \in 1..e.hops
        BY <2>2, <2>4, <3>5
      <4> QED BY Zenon, <1>1, <2>1, <3>3, <4>1
    <3> QED BY Zenon, <3>4, <3>5
  <2> QED BY Zenon, <2>3, <2>4
<1>6. PICK e \in Ends(n, via) :
        r = [node |-> IF e.node \in ready /\ leader[e.node] THEN e.node ELSE NoNode,
             hops |-> e.hops, circle |-> FALSE]
  BY Zenon, <1>3, <1>4
<1> QED BY Zenon, <1>1, <1>5, <1>6

\* When every server has handled what the election published, all follow the
\* server that the row names, which acts as the leader.
LEMMA SettledFollow ==
  ASSUME IInv, Heard, Quiet, RowKnown, AllSettled, NEW k \in Node, Follows(k)
  PROVE  row \in Node /\ initialize[row] /\ leader[row] /\ \A n \in Node : Follows(n)
<1>1. row \in Node
  BY Zenon DEF IInv, TypeOK, Host, Peers, Follows, View
<1>2. row # NoNode /\ seen[row] = row
  BY Zenon, <1>1, Constants DEF RowKnown
<1>3. ASSUME NEW n \in Node PROVE Follows(n)
  <2>1. pending[n] = {} /\ seen[n] = row
    BY Zenon, <1>2 DEF AllSettled, Settled
  <2> QED BY Zenon, <1>2, <2>1 DEF Follows, Quiet, Heard, HeardAt
<1>4. leader[row]
  BY Zenon, <1>1, <1>3 DEF Follows, View, Quiet
<1> QED BY Zenon, <1>1, <1>3, <1>4 DEF Follows

\* A report in the calm: the record is as young as the last report, or a
\* follower changed its leader shortly before.
LEMMA ReportCalm ==
  ASSUME IInv, Heard, CalmInv, Calm, NEW n \in Node, Report(n)
  PROVE  Quiet' /\ RowKnown' /\ Fresh'
<1>1. PICK r \in Route(n, {m \in Node : stream[m]}) :
          record' = [m \in Node |-> IF m = r.node THEN 0 ELSE record[m]]
  BY Zenon DEF Report
<1>2. /\ beatAge' = 0
      /\ UNCHANGED <<row, seen, pending, newsAge, up, leader, remote, initialize, stream,
                     changeAge, retry, spent>>
  BY Zenon DEF Report, election, disturbed
<1>3. Quiet /\ RowKnown /\ Fresh
  BY Zenon DEF CalmInv
<1>4. Quiet' /\ RowKnown'
  BY Zenon, <1>2, <1>3 DEF Quiet, RowKnown, View
<1>5. (AllSettled' <=> AllSettled) /\ \A m \in Node : Follows(m)' <=> Follows(m)
  BY Zenon, <1>2 DEF AllSettled, Settled, Follows, View
<1>6. newsAge \in 0..Lag /\ Lag \in Nat /\ Interval \in Nat /\ changeAge \in [Node -> 0..Expire]
  BY Zenon, Constants DEF IInv, TypeOK
<1>7. ASSUME NEW m \in Node, Follows(m) PROVE record'[row] <= beatAge' \/ changeAge'[m] <= Lag + beatAge'
  <2>1. CASE ~AllSettled
    <3>1. changeAge[m] <= newsAge
      BY Zenon, <1>3, <1>7, <2>1 DEF Fresh
    <3> QED BY <1>2, <1>6, <3>1
  <2>2. CASE AllSettled
    <3>1. row \in Node /\ initialize[row] /\ leader[row] /\ Follows(n)
      BY Zenon, <1>3, <1>7, <2>2, SettledFollow
    <3>2. up[n] /\ up[row] /\ (n # row => stream[n])
      BY Zenon, <1>3, <3>1, Constants DEF Quiet, Follows, View
    <3>3. r.node = row
      BY Zenon, <3>1, <3>2, RouteFollows
    <3>4. record'[row] = 0
      BY Zenon, <1>1, <3>1, <3>3
    <3> QED BY <1>2, <3>4
  <2> QED BY Zenon, <2>1, <2>2
<1>8. Fresh'
  BY <1>2, <1>3, <1>5, <1>6, <1>7 DEF Fresh
<1> QED BY Zenon, <1>4, <1>8

\* A server whose checks are not suspended, and that follows the leader, finds a
\* record that is young enough.
LEMMA CheckCalm ==
  ASSUME Lag + Interval < Expire, IInv, CalmInv, Calm, NEW n \in Node, Check(n), View(n) = row
  PROVE  served'.kind # "down"
<1>1. PICK r \in Route(n, Node) :
        served' = IF Verdict(n, AgeAt(r)) = "stay" THEN Idle
                  ELSE [kind |-> Verdict(n, AgeAt(r)), by |-> n, hops |-> r.hops]
  BY Zenon DEF Check, AgeAt
<1>2. served'.kind = "down" => Verdict(n, AgeAt(r)) = "down"
  BY Zenon, <1>1 DEF Idle
<1>3. CASE skipCheck(n)
  BY Zenon, <1>2, <1>3 DEF Verdict
<1>4. CASE ~skipCheck(n)
  <2>1. Follows(n) /\ changeAge[n] >= Expire
    BY <1>4, Constants DEF skipCheck, Follows, IInv, TypeOK
  <2>2. row \in Node
    BY Zenon, <2>1 DEF Follows, View, IInv, TypeOK, Peers, Host
  <2>3. Quiet /\ Fresh
    BY Zenon DEF CalmInv
  <2>4. /\ record[row] \in 0..Expire /\ changeAge[n] \in 0..Expire /\ beatAge \in 0..Interval
        /\ beatAge <= Interval
    BY Zenon, <2>2, <2>3 DEF IInv, TypeOK, Fresh
  <2>5. record[row] <= beatAge \/ changeAge[n] <= Lag + beatAge
    BY Zenon, <2>1, <2>3 DEF Fresh
  <2>6. record[row] < Expire
    BY <2>1, <2>4, <2>5, Constants
  <2>7. initialize[row] /\ leader[row] /\ up[row] /\ up[n]
    BY Zenon, <2>2, <2>3, <2>6 DEF IInv, RecordsAtLeader, Quiet
  <2>8. r.node = row
    BY Zenon, <2>1, <2>2, <2>7, RouteFollows
  <2>9. AgeAt(r) = record[row]
    BY Zenon, <2>2, <2>8, Constants DEF AgeAt
  <2>10. ~(AgeAt(r) >= Expire) /\ AgeAt(r) < Expire
    BY <2>4, <2>6, <2>9, Constants
  <2>11. Verdict(n, AgeAt(r)) = IF healthy THEN "stay" ELSE "up"
    BY Zenon, <1>4, <2>10 DEF Verdict
  <2> QED BY Zenon, <1>2, <2>11
<1> QED BY Zenon, <1>3, <1>4

\* Time passes in the calm: checks are suspended or the record is young.
LEMMA ClockCalm ==
  ASSUME Lag + Interval < Expire, IInv, CalmInv, Calm, Clock
  PROVE  Quiet' /\ RowKnown' /\ Fresh'
<1>1. /\ newsAge' = Older(newsAge, Lag) /\ beatAge' = Older(beatAge, Interval)
      /\ changeAge' = [n \in Node |-> Older(changeAge[n], Expire)]
      /\ record' = [n \in Node |-> Older(record[n], Expire)]
      /\ UNCHANGED <<row, seen, pending, up, leader, remote, initialize, stream, retry,
                     instance, healthy, disturbed>>
  BY Zenon DEF Clock
<1>2. Quiet /\ RowKnown /\ Fresh /\ beatAge < Interval /\ (newsAge < Lag \/ AllSettled)
  BY Zenon DEF CalmInv, Calm, Clock, Quiet, AllSettled
<1>3. Quiet' /\ RowKnown'
  BY Zenon, <1>1, <1>2 DEF Quiet, RowKnown, View, disturbed
<1>4. (AllSettled' <=> AllSettled) /\ \A m \in Node : Follows(m)' <=> Follows(m)
  BY Zenon, <1>1 DEF AllSettled, Settled, Follows, View
<1>5. /\ newsAge \in 0..Lag /\ beatAge \in 0..Interval /\ Lag \in Nat /\ Interval \in Nat /\ Expire \in Nat
      /\ \A m \in Node : changeAge[m] \in 0..Expire /\ record[m] \in 0..Expire
  BY Zenon, Constants DEF IInv, TypeOK
<1>6. /\ beatAge' = beatAge + 1 /\ beatAge' <= Interval
      /\ newsAge < Lag => newsAge' = newsAge + 1
  <2>1. beatAge < Interval
    BY Zenon, <1>2
  <2>2. beatAge' = beatAge + 1 /\ (newsAge < Lag => newsAge' = newsAge + 1)
    BY Zenon, <1>1, <2>1 DEF Older
  <2> QED BY <1>2, <1>5, <2>2
<1>7. \A m \in Node : /\ changeAge'[m] \in 0..Expire /\ changeAge'[m] <= changeAge[m] + 1
                      /\ record'[m] \in 0..Expire /\ record'[m] <= record[m] + 1
  BY Zenon, <1>1, <1>5, OlderType
<1>8. ASSUME ~AllSettled, NEW m \in Node, Follows(m) PROVE changeAge'[m] <= newsAge'
  <2>1. changeAge[m] <= newsAge /\ newsAge' = newsAge + 1
    BY Zenon, <1>2, <1>6, <1>8 DEF Fresh
  <2> QED BY <1>5, <1>7, <2>1
<1>9. ASSUME NEW m \in Node, Follows(m)
      PROVE  record'[row] <= beatAge' \/ changeAge'[m] <= Lag + beatAge'
  <2>1. row \in Node
    BY Zenon, <1>9 DEF Follows, View, IInv, TypeOK, Peers, Host
  <2>2. record[row] <= beatAge \/ changeAge[m] <= Lag + beatAge
    BY Zenon, <1>2, <1>9 DEF Fresh
  <2> QED BY <1>5, <1>6, <1>7, <2>1, <2>2
<1>10. Fresh'
  BY Zenon, <1>1, <1>4, <1>6, <1>8, <1>9 DEF Fresh
<1> QED BY Zenon, <1>3, <1>10

\* Every step keeps the invariant of the calm.
LEMMA NextCalm ==
  ASSUME MaxBacklog = 1, Lag + Interval < Expire, IInv, Heard, CalmInv, [Next]_vars
  PROVE  CalmInv'
<1> SUFFICES ASSUME Calm' PROVE Quiet' /\ RowKnown' /\ Fresh'
  BY Zenon DEF CalmInv
<1>1. Calm
  BY Zenon, CalmBefore
<1>2. Quiet /\ RowKnown /\ Fresh
  BY Zenon, <1>1 DEF CalmInv
<1>3. CASE UNCHANGED <<election, checker, beatAge, disturbed>>
  <2>1. UNCHANGED <<row, seen, pending, newsAge, up, leader, remote, initialize, stream,
                    changeAge, retry, record, beatAge, spent>>
    BY Zenon, <1>3 DEF election, checker, disturbed
  <2>2. Quiet' /\ RowKnown'
    BY Zenon, <1>2, <2>1 DEF Quiet, RowKnown, View
  <2>3. (AllSettled' <=> AllSettled) /\ \A m \in Node : Follows(m)' <=> Follows(m)
    BY Zenon, <2>1 DEF AllSettled, Settled, Follows, View
  <2> QED BY Zenon, <1>2, <2>1, <2>2, <2>3 DEF Fresh
<1>4. ASSUME NEW n \in Node, Elect(n) \/ Notice(n) \/ OnEvent(n) \/ Report(n)
      PROVE  Quiet' /\ RowKnown' /\ Fresh'
  BY Zenon, <1>1, <1>4, ElectCalm, NoticeCalm, OnEventCalm, ReportCalm
<1>5. ASSUME NEW n \in Node, Check(n) PROVE Quiet' /\ RowKnown' /\ Fresh'
  BY Zenon, <1>3, <1>5 DEF Check
<1>6. ASSUME NEW n \in Node, Release(n) \/ Crash(n) PROVE FALSE
  <2>1. Spend("release") \/ Spend("crash")
    BY Zenon, <1>6 DEF Release, Crash
  <2>2. {"release", "crash"} \subseteq Disturbance \ {"switch"}
    BY Zenon DEF Disturbance
  <2>3. PICK d \in Disturbance \ {"switch"} : spent'[d] = spent[d] + 1
    BY Zenon, <2>1, <2>2, SpendType DEF IInv
  <2> QED BY <1>1, <2>3 DEF Calm, OneSwitch
<1>7. ASSUME NEW n \in Node, RetryFollower(n) \/ Restart(n) PROVE FALSE
  BY Zenon, <1>2, <1>7 DEF Quiet, RetryFollower, Restart
<1>8. ASSUME NEW n \in Node, Delete(n) PROVE FALSE
  BY Zenon, <1>8 DEF Delete, Calm
<1>9. ~Stop
  BY Zenon DEF Stop, Calm
<1>10. CASE Clock
  BY Zenon, <1>1, <1>10, ClockCalm
<1>11. CASE UNCHANGED vars
  BY Zenon, <1>3, <1>11 DEF vars, reports
<1> QED BY Zenon, <1>4, <1>5, <1>6, <1>7, <1>8, <1>9, <1>10, <1>11 DEF Next

\* A live instance is not taken down by a server that follows the current leader
\* while one change of leader is all that has happened: skipCheck suspends the
\* checks of that server for Expire from the event on, which is longer than the
\* others need to hear of the leader (Lag) and the instance to report again
\* (Interval).  It holds for any number of servers and any such delays, as long as
\* the events of a server do not overtake each other.
THEOREM CheckerNoFalseDown ==
  ASSUME MaxBacklog = 1, Lag + Interval < Expire PROVE Spec => []NoFalseDown
<1> DEFINE Inv == IInv /\ Heard /\ CalmInv
<1>1. Init => Inv /\ NoFalseDown
  <2>1. Init => served.kind # "down"
    BY DEF Init, Idle
  <2> QED BY Zenon, <2>1, InitIInv, InitHeard, InitCalm DEF NoFalseDown, FalseDown
<1>2. Inv /\ NoFalseDown /\ [Next]_vars => (Inv /\ NoFalseDown)'
  <2> SUFFICES ASSUME Inv, NoFalseDown, [Next]_vars PROVE Inv' /\ NoFalseDown'
    BY Zenon
  <2>1. Inv'
    BY Zenon, NextIInv, NextHeard, NextCalm
  <2>2. SUFFICES ASSUME OneSwitch', FalseDown' PROVE FALSE
    BY Zenon, <2>1 DEF NoFalseDown
  <2>3. Calm' /\ served'.kind = "down"
    BY Zenon, <2>2 DEF Calm, FalseDown
  <2>4. Calm
    BY Zenon, <2>3, CalmBefore
  <2>5. ASSUME NEW n \in Node, Check(n) PROVE FALSE
    <3>1. served'.by = n /\ View(n)' = View(n) /\ row' = row
      <4>1. PICK r \in Route(n, Node) :
              served' = IF Verdict(n, AgeAt(r)) = "stay" THEN Idle
                        ELSE [kind |-> Verdict(n, AgeAt(r)), by |-> n, hops |-> r.hops]
        BY Zenon, <2>5 DEF Check, AgeAt
      <4>2. served'.by = n
        BY Zenon, <2>3, <4>1 DEF Idle
      <4>3. View(n)' = View(n) /\ row' = row
        BY Zenon, <2>5 DEF Check, View, checker, election
      <4> QED BY Zenon, <4>2, <4>3
    <3>2. View(n) = row
      <4>1. View(n)' = row'
        BY Zenon, <2>2, <3>1 DEF FalseDown, View
      <4> QED BY Zenon, <3>1, <4>1
    <3> QED BY Zenon, <2>3, <2>4, <2>5, <3>2, CheckCalm
  <2>6. ASSUME NEW n \in Node, Report(n) \/ Delete(n) PROVE FALSE
    <3>1. CASE Report(n)
      <4>1. PICK r : served' = [kind |-> "report", by |-> n, hops |-> r.hops]
        BY Zenon, <3>1 DEF Report
      <4> QED BY Zenon, <2>3, <4>1
    <3>2. CASE Delete(n)
      BY Zenon, <2>3, <3>2 DEF Delete, Calm
    <3> QED BY Zenon, <2>6, <3>1, <3>2
  <2>7. ASSUME served' = Idle PROVE FALSE
    BY Zenon, <2>3, <2>7 DEF Idle
  <2>8. ASSUME NEW n \in Node, Elect(n) \/ Notice(n) \/ Release(n) \/ OnEvent(n) \/ RetryFollower(n)
                               \/ Crash(n) \/ Restart(n)
        PROVE  served' = Idle
    BY Zenon, <2>8 DEF Elect, Notice, Release, OnEvent, RetryFollower, Crash, Restart
  <2>9. Stop \/ Clock => served' = Idle
    BY Zenon DEF Stop, Clock
  <2>10. CASE UNCHANGED vars
    <3>1. FalseDown /\ OneSwitch
      BY Zenon, <2>2, <2>10 DEF FalseDown, OneSwitch, View, vars, election, checker, reports, disturbed
    <3> QED BY Zenon, <3>1 DEF NoFalseDown
  <2> QED BY Zenon, <2>5, <2>6, <2>7, <2>8, <2>9, <2>10 DEF Next
<1> QED BY <1>1, <1>2, PTL DEF Spec
=============================================================================
