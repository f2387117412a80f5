---------------------------- MODULE LeaderChecker ----------------------------
(***************************************************************************)
(* The leader health checker, src/plugin/healthchecker/leader: of a group  *)
(* of servers one, chosen by the store's leader election, keeps the        *)
(* heartbeat records of the instances in memory; the others forward        *)
(* reports and queries to it.  Each server learns of the leader from the   *)
(* events its own election machine publishes.                              *)
(*                                                                         *)
(* One instance is followed: it reports to any server, and any server      *)
(* checks it.  A request that is forwarded is one step, because it takes   *)
(* much less than the second in which the checker measures time and every  *)
(* server it passes holds its read lock meanwhile.  Times are kept as      *)
(* ages in units of the heartbeat interval and saturate where no           *)
(* comparison of the code tells them apart any more.                       *)
(***************************************************************************)
EXTENDS Integers, FiniteSets

CONSTANTS
    Node,          \* the servers
    NoNode,        \* no host: "" in an event, nil for a peer
    Expire,        \* ExpireDurationSec
    Interval,      \* the longest time between two reports of a live instance
    Lag,           \* how long a server may take to notice and handle a new leader
    MaxBacklog,    \* events of one server under way in the event hub
    Disturbances,  \* the sets of disturbances that there may be together, and
    Times          \* how often each: changes of leader while the old one could
                   \* go on, releases, crashes, errors of Serve

Disturbance == {"switch", "release", "crash", "error"}

ASSUME CheckerAssumption ==
    /\ NoNode \notin Node /\ Node # {} /\ IsFiniteSet(Node)
    /\ {Expire, Interval, MaxBacklog} \subseteq Nat \ {0}
    /\ Lag \in Nat /\ Times \in Nat
    /\ Disturbances \subseteq SUBSET Disturbance

VARIABLES
    \* the election, as far as it is published
    row,           \* the server the election row names
    seen,          \* what the machine of each server published last
    pending,       \* the events of each server under way in its event hub
    newsAge,       \* time since the election last moved
    \* LeaderHealthChecker of each server
    up, leader, remote, initialize,
    stream,        \* the heartbeat streams to the remote peer work
    changeAge,     \* time since refreshLeaderChangeTimeSec
    retry,         \* the goroutines that wait to call becomeFollower again
    record,        \* age of the heartbeat record the server keeps
    \* the instance
    instance,      \* "live" while it reports, "stopped", "deleted" when deregistered
    healthy, beatAge,
    served,        \* the last request and what became of it
    allowed,       \* the disturbances there may be
    spent          \* how often each of them happened

election == <<row, seen, pending, newsAge>>
checker == <<up, leader, remote, initialize, stream, changeAge, retry, record>>
reports == <<instance, healthy, beatAge>>
disturbed == <<allowed, spent>>
vars == <<election, checker, reports, served, disturbed>>

Host == Node \cup {NoNode}
Event == [leader : BOOLEAN, host : Host]
RetryOf == [host : Node, fresh : BOOLEAN]
Idle == [kind |-> "none", by |-> NoNode, hops |-> 0]

TypeOK ==
    /\ row \in Host /\ seen \in [Node -> Host] /\ newsAge \in 0..Lag
    /\ pending \in [Node -> SUBSET Event]
    /\ up \in [Node -> BOOLEAN] /\ leader \in [Node -> BOOLEAN]
    /\ initialize \in [Node -> BOOLEAN] /\ stream \in [Node -> BOOLEAN]
    /\ remote \in [Node -> Host]
    /\ changeAge \in [Node -> 0..Expire] /\ record \in [Node -> 0..Expire]
    /\ retry \in [Node -> SUBSET RetryOf]
    /\ instance \in {"live", "stopped", "deleted"} /\ healthy \in BOOLEAN /\ beatAge \in 0..Interval
    /\ served \in [kind : {"none", "report", "up", "down", "panic"},
                   by : Host, hops : 0..Cardinality(Node)]
    /\ allowed \subseteq Disturbance /\ spent \in [Disturbance -> 0..Times]

\* Every server has started its election: StartLeaderElection has published an
\* event without a host.
Started == [leader |-> FALSE, host |-> NoNode]

Init ==
    /\ row = NoNode /\ seen = [n \in Node |-> NoNode] /\ newsAge = Lag
    /\ pending = [n \in Node |-> {Started}]
    /\ up = [n \in Node |-> TRUE] /\ leader = [n \in Node |-> FALSE]
    /\ initialize = [n \in Node |-> FALSE] /\ remote = [n \in Node |-> NoNode]
    /\ changeAge = [n \in Node |-> Expire] /\ record = [n \in Node |-> Expire]
    /\ retry = [n \in Node |-> {}] /\ stream = [n \in Node |-> FALSE]
    /\ instance = "live" /\ healthy = TRUE /\ beatAge = 0 /\ served = Idle
    /\ allowed \in Disturbances /\ spent = [d \in Disturbance |-> 0]

Spend(kind) ==
    /\ kind \in allowed /\ spent[kind] < Times
    /\ spent' = [spent EXCEPT ![kind] = @ + 1] /\ UNCHANGED allowed

-----------------------------------------------------------------------------
\* The election machines (module LeaderElection) publish what they believe.
Publish(n, e) ==
    /\ Cardinality(pending[n]) < MaxBacklog
    /\ pending' = [pending EXCEPT ![n] = @ \cup {e}]
    /\ seen' = [seen EXCEPT ![n] = e.host]

ActingLeader == row # NoNode /\ up[row] /\ seen[row] = row

\* n takes over the row, or finds that the row is still its own.
Elect(n) ==
    /\ up[n] /\ seen[n] # n
    /\ IF ActingLeader THEN Spend("switch") ELSE UNCHANGED disturbed
    /\ Publish(n, [leader |-> TRUE, host |-> n])
    /\ row' = n /\ newsAge' = 0
    /\ served' = Idle /\ UNCHANGED <<checker, reports>>

\* n finds that somebody else holds the row.
Notice(n) ==
    /\ up[n] /\ row \notin {n, NoNode} /\ seen[n] # row
    /\ Publish(n, [leader |-> FALSE, host |-> row])
    /\ served' = Idle /\ UNCHANGED <<row, newsAge, checker, reports, disturbed>>

\* The leader gives up the leadership on request; the row stays.
Release(n) ==
    /\ up[n] /\ seen[n] = n /\ Spend("release")
    /\ Publish(n, Started) /\ newsAge' = 0
    /\ served' = Idle /\ UNCHANGED <<row, checker, reports>>

-----------------------------------------------------------------------------
\* Serve on the peer of host: dialling a server that is down fails, any other
\* attempt may fail.
ServeError(host) == IF up[host] THEN Spend("error") ELSE UNCHANGED disturbed

Connected(n, host) ==
    /\ remote' = [remote EXCEPT ![n] = host]
    /\ stream' = [stream EXCEPT ![n] = TRUE]
    /\ leader' = [leader EXCEPT ![n] = FALSE]
    /\ initialize' = [initialize EXCEPT ![n] = TRUE]

NotConnected(n) ==
    /\ remote' = [remote EXCEPT ![n] = NoNode]
    /\ stream' = [stream EXCEPT ![n] = FALSE]
    /\ initialize' = [initialize EXCEPT ![n] = FALSE]
    /\ UNCHANGED leader

\* becomeFollower(e, leaderVersion) on n.  A failed attempt leaves a goroutine that
\* tries again if leaderVersion is still the same: if its entry is still fresh.
\* others are the goroutines that wait already.
\* Mutant of becomeFollower: a failed attempt is not repeated.
becomeFollowerOnce(n, host, others) ==
    /\ retry' = [retry EXCEPT ![n] = others]
    /\ IF host = NoNode \/ remote[n] = host
           THEN /\ initialize' = [initialize EXCEPT ![n] = host # NoNode]
                /\ UNCHANGED <<leader, remote, stream, disturbed>>
           ELSE \/ up[host] /\ Connected(n, host) /\ UNCHANGED disturbed
                \/ ServeError(host) /\ NotConnected(n)

becomeFollower(n, host, others) ==
    \/ /\ host = NoNode
       /\ initialize' = [initialize EXCEPT ![n] = FALSE]
       /\ retry' = [retry EXCEPT ![n] = others]
       /\ UNCHANGED <<leader, remote, stream, disturbed>>
    \/ /\ host # NoNode /\ remote[n] = host
       /\ initialize' = [initialize EXCEPT ![n] = TRUE]
       /\ retry' = [retry EXCEPT ![n] = others]
       /\ UNCHANGED <<leader, remote, stream, disturbed>>
    \/ /\ host # NoNode /\ remote[n] # host /\ up[host]
       /\ Connected(n, host)
       /\ retry' = [retry EXCEPT ![n] = others]
       /\ UNCHANGED disturbed
    \/ /\ host # NoNode /\ remote[n] # host /\ ServeError(host)
       /\ NotConnected(n)
       /\ retry' = [retry EXCEPT ![n] = others \cup {[host |-> host, fresh |-> TRUE]}]

\* Mutant of becomeLeader: the peer of the old leader is kept.
becomeLeaderKeepsRemote(n, others) ==
    /\ leader' = [leader EXCEPT ![n] = TRUE]
    /\ initialize' = [initialize EXCEPT ![n] = TRUE]
    /\ retry' = [retry EXCEPT ![n] = others]
    /\ UNCHANGED <<remote, stream, disturbed>>

becomeLeader(n, others) ==
    /\ remote' = [remote EXCEPT ![n] = NoNode]
    /\ stream' = [stream EXCEPT ![n] = FALSE]
    /\ leader' = [leader EXCEPT ![n] = TRUE]
    /\ initialize' = [initialize EXCEPT ![n] = TRUE]
    /\ retry' = [retry EXCEPT ![n] = others]
    /\ UNCHANGED disturbed

Outdated(rs) == {[r EXCEPT !.fresh = FALSE] : r \in rs}

\* OnEvent: leaderVersion grows, so that every waiting goroutine is out of date;
\* a follower forgets its records.  The event hub sends every event to the
\* subscriber from a goroutine of its own: whichever is under way may come next.
\* Mutant of OnEvent: a follower keeps the records of its term as leader.
OnEventKeepsRecords(n) ==
    \E e \in pending[n] :
        /\ up[n]
        /\ pending' = [pending EXCEPT ![n] = @ \ {e}]
        /\ IF e.leader THEN becomeLeader(n, Outdated(retry[n]))
                       ELSE becomeFollower(n, e.host, Outdated(retry[n]))
        /\ changeAge' = [changeAge EXCEPT ![n] = 0]
        /\ served' = Idle /\ UNCHANGED <<row, seen, newsAge, up, record, reports>>

OnEvent(n) ==
    \E e \in pending[n] :
        /\ up[n]
        /\ pending' = [pending EXCEPT ![n] = @ \ {e}]
        /\ IF e.leader THEN becomeLeader(n, Outdated(retry[n])) /\ UNCHANGED record
                       ELSE /\ becomeFollower(n, e.host, Outdated(retry[n]))
                            /\ record' = [record EXCEPT ![n] = Expire]
        /\ changeAge' = [changeAge EXCEPT ![n] = 0]
        /\ served' = Idle /\ UNCHANGED <<row, seen, newsAge, up, reports>>

\* Mutant of RetryFollower: leaderVersion is not compared.
RetryFollowerAnyway(n) ==
    \E r \in retry[n] :
        /\ up[n]
        /\ becomeFollower(n, r.host, retry[n] \ {r})
        /\ served' = Idle /\ UNCHANGED <<election, up, changeAge, record, reports>>

\* The goroutine of becomeFollower after its sleep.
RetryFollower(n) ==
    \E r \in retry[n] :
        /\ up[n]
        /\ IF r.fresh THEN becomeFollower(n, r.host, retry[n] \ {r})
                      ELSE /\ retry' = [retry EXCEPT ![n] = @ \ {r}]
                           /\ UNCHANGED <<leader, remote, stream, initialize, disturbed>>
        /\ served' = Idle /\ UNCHANGED <<election, up, changeAge, record, reports>>

-----------------------------------------------------------------------------
\* Where a request that arrives at n ends, and after how many hops, when the
\* servers of via pass it on to their remote peers (findLeaderPeer): nowhere if it
\* goes round in a circle.  Requests of a peer carry no mark on arrival
\* (grpc.Header reads the header of the answer), so isSendFromPeer never stops one.
Ends(n, via) ==
    {e \in [node : Node \ via, hops : 0..(Cardinality(Node) - 1)] :
        \E way \in [1..(e.hops + 1) -> Node] :
            /\ way[1] = n /\ way[e.hops + 1] = e.node
            /\ \A i \in 1..e.hops : way[i] \in via /\ way[i + 1] = remote[way[i]]}

\* What becomes of a request that arrives at n: the server that holds the record,
\* NoNode when a server ignores the request or is down; or it goes round in a
\* circle.  usable: the followers that can pass it on.
Circle == [node |-> NoNode, hops |-> Cardinality(Node), circle |-> TRUE]

Route(n, usable) ==
    LET ready == {m \in Node : up[m] /\ initialize[m]}
        ends == Ends(n, {m \in ready \cap usable : ~leader[m]})
    IN  IF ends = {} THEN {Circle}
        ELSE {[node |-> IF e.node \in ready /\ leader[e.node] THEN e.node ELSE NoNode,
               hops |-> e.hops, circle |-> FALSE] : e \in ends}

\* Report at n.  It is answered with success also where it is ignored, and where
\* the stream to the leader is broken.
Report(n) ==
    /\ up[n] /\ instance = "live"
    /\ beatAge' = 0
    /\ UNCHANGED <<election, up, leader, remote, initialize, stream, changeAge, retry,
                   instance, healthy, disturbed>>
    /\ \E r \in Route(n, {m \in Node : stream[m]}) :
          /\ record' = [m \in Node |-> IF m = r.node THEN 0 ELSE record[m]]
          /\ served' = [kind |-> "report", by |-> n, hops |-> r.hops]

\* skipCheck: not initialised, or the leader changed less than Expire ago.  The
\* third ground, a Suspend less than Expire ago, is left out: the dispatcher calls
\* it when there are servers again after there were none (HealthCheck,
\* reloadSelfContinuum), and the dispatcher is not part of this module.
\* Mutants of skipCheck: no grace after a change of leader; the test of initialize
\* the wrong way round.
skipCheckNoGrace(n) == ~initialize[n]
skipCheckInverted(n) == initialize[n] \/ changeAge[n] < Expire

skipCheck(n) == ~initialize[n] \/ changeAge[n] < Expire

\* Check: the query first (a record that is not there counts as infinitely old),
\* then skipCheck, then the verdict on the record.
\* Mutant of Verdict: an instance is never found healthy again.
VerdictNoResume(n, age) ==
    IF ~skipCheck(n) /\ age >= Expire /\ healthy THEN "down" ELSE "stay"

Verdict(n, age) ==
    CASE skipCheck(n) -> "stay"
      [] ~skipCheck(n) /\ age >= Expire -> IF healthy THEN "down" ELSE "stay"
      [] ~skipCheck(n) /\ age < Expire -> IF healthy THEN "stay" ELSE "up"

Check(n) ==
    /\ up[n] /\ instance # "deleted"
    /\ UNCHANGED <<election, checker, instance, beatAge, disturbed>>
    /\ \E r \in Route(n, Node) :
          LET age == IF r.node = NoNode THEN Expire ELSE record[r.node] IN
          /\ ~r.circle
          /\ served' = IF Verdict(n, age) = "stay" THEN Idle
                       ELSE [kind |-> Verdict(n, age), by |-> n, hops |-> r.hops]
          /\ healthy' = CASE Verdict(n, age) = "up" -> TRUE
                           [] Verdict(n, age) = "down" -> FALSE
                           [] OTHER -> healthy

-----------------------------------------------------------------------------
\* A process that ends takes its checker with it; the streams to it break.
Down(n) ==
    /\ up' = [up EXCEPT ![n] = FALSE]
    /\ pending' = [pending EXCEPT ![n] = {}]
    /\ seen' = [seen EXCEPT ![n] = NoNode]
    /\ leader' = [leader EXCEPT ![n] = FALSE]
    /\ remote' = [remote EXCEPT ![n] = NoNode]
    /\ initialize' = [initialize EXCEPT ![n] = FALSE]
    /\ stream' = [m \in Node |-> stream[m] /\ m # n /\ remote[m] # n]
    /\ changeAge' = [changeAge EXCEPT ![n] = Expire]
    /\ retry' = [retry EXCEPT ![n] = {}]
    /\ record' = [record EXCEPT ![n] = Expire]
    /\ UNCHANGED <<row, newsAge>>

Crash(n) ==
    /\ up[n] /\ Spend("crash") /\ Down(n)
    /\ served' = Idle /\ UNCHANGED reports

Restart(n) ==
    /\ ~up[n]
    /\ up' = [up EXCEPT ![n] = TRUE]
    /\ Publish(n, Started) /\ newsAge' = 0
    /\ served' = Idle
    /\ UNCHANGED <<row, leader, remote, initialize, stream, changeAge, retry,
                   record, reports, disturbed>>

\* Delete when the instance is deregistered at n: findLeaderPeer, on every server
\* the request passes, without a look at initialize.  A peer that is nil ends the
\* process.
DeleteEnd(n) ==
    LET ends == Ends(n, {m \in Node : up[m] /\ ~leader[m] /\ remote[m] # NoNode})
    IN  IF ends = {} THEN {NoNode}
        ELSE {IF up[e.node] THEN e.node ELSE NoNode : e \in ends}

Delete(n) ==
    /\ up[n] /\ instance # "deleted" /\ instance' = "deleted"
    /\ \E m \in DeleteEnd(n) :
          IF m # NoNode /\ ~leader[m]
          THEN Down(m) /\ served' = [kind |-> "panic", by |-> m, hops |-> 0]
          ELSE /\ record' = [o \in Node |-> IF o = m THEN Expire ELSE record[o]]
               /\ served' = Idle
               /\ UNCHANGED <<election, up, leader, remote, initialize, stream, changeAge, retry>>
    /\ UNCHANGED <<healthy, beatAge, disturbed>>

Stop ==
    /\ instance = "live" /\ instance' = "stopped" /\ served' = Idle
    /\ UNCHANGED <<election, checker, healthy, beatAge, disturbed>>

\* Time passes.  A live instance reports every Interval, and within Lag every
\* server has noticed and handled what the election published.
Settled(n) ==
    /\ pending[n] = {}
    /\ row \notin {n, NoNode} => seen[n] = row
    /\ \A r \in retry[n] : r.fresh => ~up[r.host]

\* Mutant of Older: ages that grow without limit.
OlderUnbounded(age, limit) == age + 1

Older(age, limit) == IF age < limit THEN age + 1 ELSE limit

Clock ==
    /\ instance = "live" => beatAge < Interval
    /\ newsAge < Lag \/ \A n \in Node : up[n] => Settled(n)
    /\ newsAge' = Older(newsAge, Lag)
    /\ beatAge' = Older(beatAge, Interval)
    /\ changeAge' = [n \in Node |-> Older(changeAge[n], Expire)]
    /\ record' = [n \in Node |-> Older(record[n], Expire)]
    /\ served' = Idle
    /\ UNCHANGED <<row, seen, pending, up, leader, remote, initialize, stream, retry,
                   instance, healthy, disturbed>>

Next ==
    \/ \E n \in Node :
           \/ Elect(n) \/ Notice(n) \/ Release(n) \/ OnEvent(n) \/ RetryFollower(n)
           \/ Report(n) \/ Check(n) \/ Crash(n) \/ Restart(n) \/ Delete(n)
    \/ Stop \/ Clock

\* Tickers tick, goroutines that can run do, and crashed servers are restarted.  It
\* is enough that some server does: there are finitely many events to handle, and
\* an attempt that goes on failing holds back no other goroutine.
Fairness ==
    /\ WF_vars(Clock)
    /\ WF_vars(~ActingLeader /\ \E n \in Node : Elect(n))
    /\ WF_vars(\E n \in Node : Report(n))
    /\ WF_vars(\E n \in Node : Check(n))
    /\ WF_vars(\E n \in Node : Notice(n) \/ OnEvent(n) \/ Restart(n))
    /\ WF_vars(\E n \in Node : RetryFollower(n))

Spec == Init /\ [][Next]_vars /\ Fairness

-----------------------------------------------------------------------------
View(n) == IF leader[n] THEN n ELSE remote[n]

\* A server that answers requests has exactly one peer to answer them with: itself
\* as the leader, or a remote one (findLeaderPeer never yields nil to Report and
\* Query).
OnePeer == \A n \in Node : initialize[n] => (leader[n] <=> remote[n] = NoNode)

\* Records are kept by a leader that acts as one and by nobody else: what a server
\* recorded in an earlier term is gone when it becomes leader again.
RecordsAtLeader ==
    \A n \in Node : record[n] < Expire => initialize[n] /\ leader[n]

\* A server that has handled what its election machine published follows it: no
\* retry of an older connection attempt takes it back to an older leader.
ViewFollows ==
    \A n \in Node : initialize[n] /\ pending[n] = {} => View(n) = seen[n]

\* Who answers, who keeps the records and whom a server follows is settled at
\* every moment, through elections, failed dials, crashes and restarts.
PeersSound == TypeOK /\ OnePeer /\ RecordsAtLeader /\ ViewFollows

\* A server comes to know a leader, whatever errors and elections there are: the
\* event that a machine publishes last is one that its checker can act on
\* ("wait for the next notification").
LeaderKnown == \A n \in Node : []<>(initialize[n] \/ ~up[n])

\* A live instance is not taken down by a server that follows the current leader
\* as long as one change of leader is all that has disturbed the cluster: after it
\* the checks are suspended (skipCheck) long enough for the records to be complete
\* again.  (A server that sees nothing of a second change, back to the leader it
\* follows, does not suspend its checks.)
FalseDown == served.kind = "down" /\ View(served.by) = row /\ instance = "live"

OneSwitch == spent["switch"] <= 1 /\ \A d \in Disturbance \ {"switch"} : spent[d] = 0

NoFalseDown == OneSwitch => ~FalseDown

\* A request is forwarded at most once (ErrorRedirectOnlyOnce).
RedirectOnce == served.hops <= 1

\* Delete always has a peer to turn to.
DeleteHasPeer == served.kind # "panic"

\* A heartbeat that a server accepts while it follows an acting leader is recorded.
ReportRecorded ==
    /\ served.kind = "report" /\ initialize[served.by] /\ View(served.by) = row
    /\ leader[row] /\ initialize[row]
    => record[row] = 0

\* An instance that stops reporting is found unhealthy in the end, whatever
\* elections take place.
StoppedFound == instance = "stopped" ~> (~healthy \/ instance = "deleted")

\* An instance that goes on reporting and was taken down by mistake is found
\* healthy again, unless a server has crashed: nobody repairs the streams to a
\* leader that is elected again after a crash.
LiveHeals == []<>(healthy \/ instance # "live" \/ spent["crash"] > 0)

\* However elections, releases and errors fall, every server finds a leader, and
\* what the leader records about the instance gets through to its status.
Recovers == StoppedFound /\ LiveHeals /\ LeaderKnown
=============================================================================
