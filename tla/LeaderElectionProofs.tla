------------------------ MODULE LeaderElectionProofs ------------------------
(***************************************************************************)
(* Proofs about LeaderElection, for every set of servers and every value   *)
(* of the lease, the period and the bounds.                                *)
(***************************************************************************)
EXTENDS LeaderElection, FiniteSetTheorems, TLAPS

\* Between reading the version and swapping it, elect() holds the successor of
\* the version it is going to compare with: what makes the swap advance the row
\* by exactly one.
SwapReady == \A n \in Node : pc[n] = "swap" => version[n] = Succ(curVersion[n])

\* ReleaseAbstains without its restriction to running machines: a stopped
\* machine has a fresh tick limit.
Abstains == \A n \in Node : releaseTickLimit[n] > 0 => ~leaderFlag[n] /\ pc[n] = "idle"

\* A stopped machine is not inside a tick, and does not lead.
StoppedIdle == \A n \in Node : ~running[n] => pc[n] = "idle" /\ ~leaderFlag[n]

ElectSteps == Abstains /\ SwapReady /\ StoppedIdle
IInv == TypeOK /\ ViewConsistent /\ ElectSteps

\* The int64 successor stays a version.
LEMMA SuccVersion == \A v \in Version : Succ(v) \in Version
  BY ElectionAssumption DEF Version, Succ

\* Zero is a version, a minute, a calm count: the ranges are not empty.
LEMMA ZeroVersion == 0 \in Version /\ ReleaseTicks \in Nat /\ MaxAge \in Nat
  BY ElectionAssumption DEF Version, ReleaseTicks, MaxAge

\* The initial states satisfy the inductive invariant.
LEMMA InitIInv == Init => IInv
  BY ElectionAssumption, ZeroVersion
  DEF Init, IInv, TypeOK, ViewConsistent, ElectSteps, Abstains, SwapReady, StoppedIdle,
      Host, Version

\* What tick() does with a live row: lead if it names this host, follow if it
\* names a host this machine has not settled on, nothing otherwise.
LEMMA CheckAliveCases ==
    ASSUME NEW n \in Node, CheckAlive(n)
    PROVE \/ row.leader = n /\ changeToLeader(n)
          \/ row.leader \notin {n, leader[n]} /\ changeToFollower(n, row.leader)
          \/ row.leader # n /\ row.leader = leader[n] /\ UNCHANGED machine
  BY Zenon DEF CheckAlive

\* Every step keeps the types: the versions stay in int64, the tick limit in its
\* range, the hosts announced are hosts of the cluster or none.
LEMMA TypeStep == TypeOK /\ [Next]_vars => TypeOK'
<1> SUFFICES ASSUME TypeOK, [Next]_vars PROVE TypeOK'
  BY Zenon
<1> USE ElectionAssumption, SuccVersion, ZeroVersion
<1>1. CASE Clock
  <2>1. age' \in 0..MaxAge
    BY <1>1 DEF Clock, TypeOK, MaxAge
  <2>2. second' \in 0..(Minute - 1) /\ years' \in 0..MaxYears /\ calm' \in 0..CalmRounds
    BY <1>1 DEF Clock, TypeOK
  <2>3. carry' \in {"none", "minute", "year"} /\ due' \subseteq Node
    BY Zenon, <1>1 DEF Clock, TypeOK
  <2> QED
    BY Zenon, <1>1, <2>1, <2>2, <2>3 DEF Clock, TypeOK, machine, signals
<1>2. ASSUME NEW n \in Node, Tick(n) PROVE TypeOK'
  <2> USE DEF TypeOK, machine, signals, lease, history, EndTick, GoTo, Host
  <2>1. CASE AbandonTick(n)
    BY <2>1 DEF AbandonTick
  <2>2. CASE ReleaseTick(n)
    BY <2>2 DEF ReleaseTick, changeToFollower, ChangeTo
  <2>3. CASE FollowerTick(n)
    BY Zenon, <2>3 DEF FollowerTick
  <2>4. CASE HeartbeatOk(n)
    BY <2>4 DEF HeartbeatOk, Heartbeat, WriteRow, Undisturbed, MaxAge
  <2>5. CASE HeartbeatAbort(n)
    BY Zenon, <2>5 DEF HeartbeatAbort, Heartbeat, Undisturbed
  <2>6. CASE DiffOverflows /\ CheckError(n)
    BY Zenon, <2>6 DEF CheckError, CheckLeaderDead, Undisturbed
  <2>7. CASE CheckAlive(n)
    <3>1. UNCHANGED <<running, version, curVersion, signals, lease, second, years, history>>
          /\ EndTick(n)
      BY Zenon, <2>7 DEF CheckAlive, CheckLeaderDead, Undisturbed
    <3>2. leaderFlag' \in [Node -> BOOLEAN] /\ leader' \in [Node -> Host]
          /\ announced' \in [Node -> [Leader : BOOLEAN, LeaderHost : Host]]
      <4>1. CASE changeToLeader(n)
        BY Zenon, <4>1 DEF changeToLeader, ChangeTo
      <4>2. CASE changeToFollower(n, row.leader)
        <5>1. row.leader \in Host
          BY Zenon
        <5> QED
          BY Zenon, <4>2, <5>1 DEF changeToFollower, ChangeTo
      <4>3. CASE UNCHANGED machine
        BY Zenon, <4>3
      <4> QED
        BY Zenon, <2>7, <4>1, <4>2, <4>3, CheckAliveCases
    <3> QED
      BY Zenon, <3>1, <3>2
  <2>8. CASE CheckDead(n)
    BY <2>8 DEF CheckDead, CheckLeaderDead
  <2>9. CASE GetVersion(n)
    BY Zenon, <2>9 DEF GetVersion
  <2>10. CASE ElectOk(n)
    BY <2>10 DEF ElectOk, Swap, WriteRow, changeToLeader, ChangeTo, MaxAge
  <2>11. CASE ElectAbort(n)
    BY Zenon, <2>11 DEF ElectAbort, Swap, Undisturbed
  <2> QED
    BY Zenon, <1>2, <2>1, <2>2, <2>3, <2>4, <2>5, <2>6, <2>7, <2>8, <2>9, <2>10, <2>11 DEF Tick
<1>3. ASSUME NEW n \in Node, Fault(n) PROVE TypeOK'
  <2> USE DEF TypeOK, machine, signals, lease, Disturbed, EndTick, GoTo, Host
  <2>1. CASE HeartbeatError(n)
    BY <2>1 DEF HeartbeatError, Heartbeat, WriteRow, MaxAge
  <2>2. CASE ~DiffOverflows /\ CheckError(n)
    BY <2>2 DEF CheckError, CheckLeaderDead
  <2>3. CASE GetVersionError(n)
    BY <2>3 DEF GetVersionError
  <2>4. CASE ElectError(n)
    BY <2>4 DEF ElectError, Swap, WriteRow, MaxAge
  <2>5. CASE ReleaseLeaderElection(n)
    BY <2>5 DEF ReleaseLeaderElection
  <2>6. CASE Crash(n)
    BY <2>6 DEF Crash, FreshMachine, changeToFollower, ChangeTo
  <2>7. CASE Stall(n)
    BY <2>7 DEF Stall
  <2> QED
    BY Zenon, <1>3, <2>1, <2>2, <2>3, <2>4, <2>5, <2>6, <2>7 DEF Fault
<1>4. ASSUME NEW n \in Node, StartLeaderElection(n) PROVE TypeOK'
  BY <1>4 DEF StartLeaderElection, FreshMachine, changeToFollower, ChangeTo,
              TypeOK, Host, lease, history
<1>5. CASE UNCHANGED vars
  BY Zenon, <1>5 DEF TypeOK, vars, machine, signals, lease, history
<1> QED
  BY Zenon, <1>1, <1>2, <1>3, <1>4, <1>5 DEF Next

\* A machine's view changes by changeToLeader and changeToFollower only, and
\* changeToFollower is never called with the machine's own host.
LEMMA MachineSteps ==
    ASSUME TypeOK, [Next]_vars
    PROVE \/ UNCHANGED machine
          \/ \E n \in Node : changeToLeader(n)
          \/ \E n \in Node : \E h \in Host \ {n} : changeToFollower(n, h)
<1> USE ElectionAssumption
<1> DEFINE Goal == \/ UNCHANGED machine
                   \/ \E n \in Node : changeToLeader(n)
                   \/ \E n \in Node : \E h \in Host \ {n} : changeToFollower(n, h)
<1>1. CASE Clock
  BY Zenon, <1>1 DEF Clock, machine
<1>2. ASSUME NEW n \in Node, Tick(n) PROVE Goal
  <2>1. CASE ReleaseTick(n)
    BY Zenon, <2>1 DEF ReleaseTick, Host
  <2>2. CASE CheckAlive(n)
    BY Zenon, <2>2, CheckAliveCases DEF TypeOK
  <2>3. CASE ElectOk(n)
    BY Zenon, <2>3 DEF ElectOk
  <2>4. CASE AbandonTick(n) \/ FollowerTick(n) \/ HeartbeatOk(n) \/ HeartbeatAbort(n)
    BY Zenon, <2>4 DEF AbandonTick, FollowerTick, HeartbeatOk, HeartbeatAbort, Heartbeat
  <2>5. CASE CheckError(n) \/ CheckDead(n) \/ GetVersion(n) \/ ElectAbort(n)
    BY Zenon, <2>5 DEF CheckError, CheckDead, GetVersion, ElectAbort, machine
  <2> QED
    BY Zenon, <1>2, <2>1, <2>2, <2>3, <2>4, <2>5 DEF Tick
<1>3. ASSUME NEW n \in Node, Fault(n) PROVE Goal
  <2>1. CASE Crash(n)
    BY Zenon, <2>1 DEF Crash, FreshMachine, Host
  <2>2. CASE HeartbeatError(n) \/ CheckError(n) \/ GetVersionError(n) \/ ElectError(n)
    BY Zenon, <2>2 DEF HeartbeatError, Heartbeat, CheckError, GetVersionError, ElectError
  <2>3. CASE ReleaseLeaderElection(n) \/ Stall(n)
    BY Zenon, <2>3 DEF ReleaseLeaderElection, Stall
  <2> QED
    BY Zenon, <1>3, <2>1, <2>2, <2>3 DEF Fault
<1>4. ASSUME NEW n \in Node, StartLeaderElection(n) PROVE Goal
  BY Zenon, <1>4 DEF StartLeaderElection, FreshMachine, Host
<1>5. CASE UNCHANGED vars
  BY Zenon, <1>5 DEF vars
<1> QED
  BY Zenon, <1>1, <1>2, <1>3, <1>4, <1>5 DEF Next

\* A machine leads exactly when it has settled on its own host, and says so.
LEMMA ViewStep == TypeOK /\ ViewConsistent /\ [Next]_vars => ViewConsistent'
<1> SUFFICES ASSUME TypeOK, ViewConsistent, [Next]_vars PROVE ViewConsistent'
  BY Zenon
<1>1. CASE UNCHANGED machine
  BY Zenon, <1>1 DEF ViewConsistent, machine
<1>2. ASSUME NEW n \in Node, changeToLeader(n) PROVE ViewConsistent'
  BY ZenonT(30), <1>2 DEF ViewConsistent, changeToLeader, ChangeTo, TypeOK
<1>3. ASSUME NEW n \in Node, NEW h \in Host \ {n}, changeToFollower(n, h)
      PROVE ViewConsistent'
  BY ZenonT(30), <1>3 DEF ViewConsistent, changeToFollower, ChangeTo, TypeOK
<1> QED
  BY Zenon, <1>1, <1>2, <1>3, MachineSteps

\* A machine that released its leadership stays idle and a follower while its
\* tick limit runs down, and reads nothing between the calls of an election.
LEMMA AbstainStep ==
    TypeOK /\ ElectSteps /\ [Next]_vars => ElectSteps'
<1> SUFFICES ASSUME TypeOK, ElectSteps, [Next]_vars
             PROVE ElectSteps'
  BY Zenon
<1> USE DEF ElectSteps, Abstains, SwapReady, StoppedIdle, TypeOK
<1>1. CASE Clock
  BY Zenon, <1>1 DEF Clock, machine, signals
<1>2. ASSUME NEW n \in Node, Tick(n) PROVE ElectSteps'
  <2> USE DEF machine, signals, EndTick, GoTo
  <2>1. CASE AbandonTick(n)
    BY <2>1 DEF AbandonTick, TickStarts
  <2>2. CASE ReleaseTick(n)
    BY <2>2 DEF ReleaseTick, TickStarts, changeToFollower, ChangeTo
  <2>3. CASE FollowerTick(n)
    BY <2>3 DEF FollowerTick, TickStarts
  <2>4. CASE HeartbeatOk(n)
    BY <2>4 DEF HeartbeatOk, Heartbeat
  <2>5. CASE HeartbeatAbort(n)
    BY <2>5 DEF HeartbeatAbort, Heartbeat, TickStarts
  <2>6. CASE CheckError(n)
    BY <2>6 DEF CheckError, CheckLeaderDead
  <2>7. CASE CheckAlive(n)
    <3>1. \A m \in Node \ {n} : leaderFlag'[m] = leaderFlag[m]
      BY <2>7, CheckAliveCases DEF changeToLeader, changeToFollower, ChangeTo
    <3> QED
      BY <2>7, <3>1 DEF CheckAlive, CheckLeaderDead
  <2>8. CASE CheckDead(n)
    BY <2>8 DEF CheckDead, CheckLeaderDead
  <2>9. CASE GetVersion(n)
    BY <2>9 DEF GetVersion
  <2>10. CASE ElectOk(n)
    BY <2>10 DEF ElectOk, Swap, changeToLeader, ChangeTo
  <2>11. CASE ElectAbort(n)
    BY <2>11 DEF ElectAbort, Swap
  <2> QED
    BY Zenon, <1>2, <2>1, <2>2, <2>3, <2>4, <2>5, <2>6, <2>7, <2>8, <2>9, <2>10, <2>11 DEF Tick
<1>3. ASSUME NEW n \in Node, Fault(n) PROVE ElectSteps'
  <2> USE DEF machine, signals, EndTick, GoTo
  <2>1. CASE HeartbeatError(n)
    BY <2>1 DEF HeartbeatError, Heartbeat, TickStarts
  <2>2. CASE CheckError(n)
    BY Zenon, <2>2 DEF CheckError, CheckLeaderDead
  <2>3. CASE GetVersionError(n)
    BY Zenon, <2>3 DEF GetVersionError
  <2>4. CASE ElectError(n)
    BY <2>4 DEF ElectError, Swap
  <2>5. CASE ReleaseLeaderElection(n)
    BY Zenon, <2>5 DEF ReleaseLeaderElection
  <2>6. CASE Crash(n)
    BY <2>6 DEF Crash, FreshMachine, changeToFollower, ChangeTo
  <2>7. CASE Stall(n)
    BY Zenon, <2>7 DEF Stall
  <2> QED
    BY Zenon, <1>3, <2>1, <2>2, <2>3, <2>4, <2>5, <2>6, <2>7 DEF Fault
<1>4. ASSUME NEW n \in Node, StartLeaderElection(n) PROVE ElectSteps'
  BY <1>4 DEF StartLeaderElection, FreshMachine, changeToFollower, ChangeTo
<1>5. CASE UNCHANGED vars
  BY Zenon, <1>5 DEF vars, machine, signals
<1> QED
  BY Zenon, <1>1, <1>2, <1>3, <1>4, <1>5 DEF Next

\* The inductive invariant holds in every reachable state.
THEOREM ElectionInvariant == Spec => []IInv
<1>1. IInv /\ [Next]_vars => IInv'
  BY Zenon, TypeStep, ViewStep, AbstainStep DEF IInv
<1> QED
  BY <1>1, InitIInv, PTL DEF Spec

\* Type correctness of the election, versions kept to their width included.
THEOREM ElectionTypes == Spec => []TypeOK
<1>1. IInv => TypeOK
  BY Zenon DEF IInv
<1> QED
  BY <1>1, ElectionInvariant, PTL

\* In every reachable state IsLeader(), le.leader and the event last published
\* by changeToLeader / changeToFollower say the same thing.
THEOREM ElectionView == Spec => []ViewConsistent
<1>1. IInv => ViewConsistent
  BY Zenon DEF IInv
<1> QED
  BY <1>1, ElectionInvariant, PTL

\* A machine that released leadership neither leads nor elects until its tick
\* limit has run down.
THEOREM ElectionRelease == Spec => []ReleaseAbstains
<1>1. IInv => ReleaseAbstains
  BY Zenon DEF IInv, ElectSteps, Abstains, ReleaseAbstains
<1> QED
  BY <1>1, ElectionInvariant, PTL

\* A tick that acted on an answer about the row ends with IsLeader() equal to
\* what the row says.
THEOREM ElectionAgreement == Spec => TickAgreement
<1>1. ASSUME IInv, NEW n \in Node, HeartbeatOk(n) \/ CheckAlive(n) \/ ElectOk(n)
      PROVE leaderFlag'[n] <=> row'.leader = n
  <2>1. CASE HeartbeatOk(n)
    BY Zenon, <2>1 DEF HeartbeatOk, Heartbeat, WriteRow, machine
  <2>2. CASE CheckAlive(n)
    <3>1. row' = row
      BY Zenon, <2>2 DEF CheckAlive, CheckLeaderDead, lease
    <3>2. leaderFlag[n] <=> leader[n] = n
      BY Zenon, <1>1 DEF IInv, ViewConsistent
    <3> QED
      BY <1>1, <2>2, <3>1, <3>2, CheckAliveCases
      DEF IInv, TypeOK, machine, changeToLeader, changeToFollower, ChangeTo
  <2>3. CASE ElectOk(n)
    BY Zenon, <1>1, <2>3 DEF ElectOk, WriteRow, changeToLeader, ChangeTo, IInv, TypeOK
  <2> QED
    BY Zenon, <1>1, <2>1, <2>2, <2>3
<1>2. IInv /\ [Next]_vars =>
        [\A n \in Node : HeartbeatOk(n) \/ CheckAlive(n) \/ ElectOk(n) =>
            (leaderFlag'[n] <=> row'.leader = n)]_vars
  BY Zenon, <1>1
<1> QED
  BY <1>2, ElectionInvariant, PTL DEF Spec, TickAgreement

\* The row is fenced by its version: it is only ever written with the successor
\* of the version it had, by a server, and with a fresh mtime.
THEOREM ElectionFenced == Spec => RowFenced
<1> DEFINE Fenced == row' # row =>
                        /\ row'.version = Succ(row.version)
                        /\ row'.leader \in Node
                        /\ age' = 0 /\ carry' = "none"
<1>1. ASSUME IInv, Next PROVE Fenced
  <2>1. CASE Clock
    BY Zenon, <2>1 DEF Clock
  <2>2. ASSUME NEW n \in Node, Tick(n) PROVE Fenced
    <3>1. CASE HeartbeatOk(n)
      BY Zenon, <3>1 DEF HeartbeatOk, WriteRow
    <3>2. CASE ElectOk(n)
      BY Zenon, <1>1, <3>2 DEF ElectOk, Swap, WriteRow, IInv, ElectSteps, SwapReady
    <3>3. CASE AbandonTick(n) \/ ReleaseTick(n) \/ FollowerTick(n) \/ HeartbeatAbort(n)
      BY Zenon, <3>3 DEF AbandonTick, ReleaseTick, FollowerTick, HeartbeatAbort, lease
    <3>4. CASE CheckError(n) \/ CheckAlive(n) \/ CheckDead(n)
      BY Zenon, <3>4 DEF CheckError, CheckAlive, CheckDead, CheckLeaderDead, lease
    <3>5. CASE GetVersion(n) \/ ElectAbort(n)
      BY Zenon, <3>5 DEF GetVersion, ElectAbort, lease
    <3> QED
      BY Zenon, <2>2, <3>1, <3>2, <3>3, <3>4, <3>5 DEF Tick
  <2>3. ASSUME NEW n \in Node, Fault(n) PROVE Fenced
    <3>1. CASE HeartbeatError(n)
      BY <3>1 DEF HeartbeatError, WriteRow, lease
    <3>2. CASE ElectError(n)
      BY <1>1, <3>2 DEF ElectError, Swap, WriteRow, lease, IInv, ElectSteps, SwapReady
    <3>3. CASE CheckError(n) \/ GetVersionError(n)
      BY Zenon, <3>3 DEF CheckError, CheckLeaderDead, GetVersionError, lease
    <3>4. CASE ReleaseLeaderElection(n) \/ Crash(n) \/ Stall(n)
      BY Zenon, <3>4 DEF ReleaseLeaderElection, Crash, Stall, lease
    <3> QED
      BY Zenon, <2>3, <3>1, <3>2, <3>3, <3>4 DEF Fault
  <2>4. ASSUME NEW n \in Node, StartLeaderElection(n) PROVE Fenced
    BY Zenon, <2>4 DEF StartLeaderElection, lease
  <2> QED
    BY Zenon, <1>1, <2>1, <2>2, <2>3, <2>4 DEF Next
<1>2. IInv /\ [Next]_vars => [Fenced]_vars
  BY Zenon, <1>1
<1> QED
  BY <1>2, ElectionInvariant, PTL DEF Spec, RowFenced

\* The flag, the leader, the announcement and the release limit of a machine
\* never contradict each other (changeToLeader, changeToFollower, tick).
THEOREM ElectionSound == Spec => []MachineSound
<1>1. ViewConsistent /\ ReleaseAbstains => MachineSound
  BY Zenon DEF MachineSound
<1> QED
  BY <1>1, ElectionView, ElectionRelease, PTL

\* The row decides: its writes are fenced, and who asked it believes it.
THEOREM ElectionRow == Spec => RowDecides
  BY Zenon, ElectionAgreement, ElectionFenced DEF RowDecides
-----------------------------------------------------------------------------
(***************************************************************************)
(* CalmUniqueLeader.  The last CalmRounds rounds without a fault or an     *)
(* election go through phases.  Until enough of them have passed for a     *)
(* lease to run out, either a leader has renewed the row (Holder) or the   *)
(* row has aged.  In the next round, either nobody renews it and nobody    *)
(* ends the round as a leader, or whoever ends it as a leader is at most   *)
(* as many versions behind the row as machines have been served.  In the   *)
(* round after that the first renewal makes all the others abort, and the  *)
(* live row they then read makes them followers.                           *)
(***************************************************************************)

\* The int64 version w is k ahead of v.
Ahead(v, w, k) == w = v + k \/ w + VersionSize = v + k
Behind(v, w, low, high) == \E k \in low..high : Ahead(v, w, k)

\* The machines whose tick of this round is over, or that are stopped.
Served == Cardinality(Node \ due)

\* The machine the row names leads, has its version, and renewed the row in
\* this round, or in the last one and is going to renew it in this one.
Holder ==
    /\ row.leader \in Node /\ leaderFlag[row.leader] /\ pc[row.leader] = "idle"
    /\ version[row.leader] = row.version /\ ~releaseSignal[row.leader]
    /\ age = 0 \/ (age = TickTime /\ row.leader \in due)

\* Nobody has renewed the row for a lease; who still leads has its tick to come.
Unrenewed ==
    /\ age > LeaseTime
    /\ \A n \in Node : /\ leaderFlag[n] => n \in due
                       /\ pc[n] = "swap" => curVersion[n] = row.version

\* The row is held, and who ended the round as a leader, or is about to abort
\* its swap, is only a few versions behind.
Renewed ==
    /\ Holder
    /\ \A n \in Node :
        /\ leaderFlag[n] /\ n \notin due => Behind(version[n], row.version, 0, Served)
        /\ pc[n] = "swap" => Behind(curVersion[n], row.version, 0, Served)

\* Nobody elects; the leaders other than the holder have their tick to come, and
\* they are behind the row, by one at least once the holder has renewed it.
Trailing(d) ==
    \A n \in Node :
        /\ pc[n] \in {"idle", "check"}
        /\ leaderFlag[n] /\ n # row.leader =>
            /\ n \in due
            /\ pc[n] = "idle" => Behind(version[n], row.version, d, Cardinality(Node) + d)
Settling ==
    /\ Holder
    /\ \/ row.leader \in due /\ Trailing(0)
       \/ row.leader \notin due /\ Trailing(1)

Settled ==
    /\ Holder
    /\ \A n \in Node : /\ pc[n] \in {"idle", "check"}
                       /\ leaderFlag[n] => n = row.leader

\* Nobody leads, and the next machine to look at the row will elect.
Vacant == age > LeaseTime /\ \A n \in Node : ~leaderFlag[n]

Phases ==
    /\ calm \in 1..(CalmRounds - 3) => Holder \/ age >= calm * TickTime \/ age = MaxAge
    /\ calm = CalmRounds - 2 => Unrenewed \/ Renewed
    /\ calm = CalmRounds - 1 => Vacant \/ Settling
    /\ calm = CalmRounds => Vacant \/ Settled

\* Once a full round has passed, a tick in progress is one of this round.
InRound == calm # 0 => \A n \in Node : pc[n] # "idle" => n \in due

CalmInv == years = MaxYears => carry # "year" /\ InRound /\ Phases

\* What the argument needs of the constants.  The int64 version does not come
\* round while the machines of one round are served; LeaseTime is at least a
\* period and a minute at most 100 seconds, as they are in the code; and calm
\* counts two rounds more than a lease takes to run out.
CalmAssumption ==
    /\ IsFiniteSet(Node) /\ VersionSize > Cardinality(Node) + 1
    /\ TickTime <= LeaseTime /\ Minute <= 100
    /\ (CalmRounds - 2) * TickTime > LeaseTime

\* What a machine does in a round that stays calm.
QuietTick(n) ==
    \/ AbandonTick(n) \/ ReleaseTick(n) \/ FollowerTick(n)
    \/ HeartbeatOk(n) \/ HeartbeatAbort(n)
    \/ CheckAlive(n) \/ (CheckDead(n) /\ age > LeaseTime)
    \/ GetVersion(n) \/ ElectAbort(n) \/ StartLeaderElection(n)

\* The successor of a version, without the remainder.
LEMMA SuccCases ==
    ASSUME NEW v \in Version
    PROVE Succ(v) = IF v = VersionSize - 1 THEN 0 ELSE v + 1
<1> v \in 0..(VersionSize - 1) /\ VersionSize \in Nat \ {0}
  BY Zenon, ElectionAssumption DEF Version
<1>1. CASE v = VersionSize - 1
  BY <1>1 DEF Succ
<1>2. CASE v # VersionSize - 1
  BY <1>2 DEF Succ
<1> QED
  BY Zenon, <1>1, <1>2

\* A version is not behind itself.
LEMMA BehindSelf ==
    ASSUME NEW v \in Version, NEW high \in Nat
    PROVE Behind(v, v, 0, high)
  BY ElectionAssumption DEF Version, Behind, Ahead

\* The row advances: who was behind is one further behind.
LEMMA BehindRow ==
    ASSUME NEW v \in Version, NEW w \in Version, NEW low \in Nat, NEW high \in Nat,
           high < VersionSize, Behind(v, w, low, high)
    PROVE Behind(v, Succ(w), low + 1, high + 1)
<1>1. PICK k \in low..high : Ahead(v, w, k)
  BY Zenon DEF Behind
<1>2. Ahead(v, Succ(w), k + 1)
  BY <1>1, SuccCases, ElectionAssumption DEF Ahead, Version
<1> QED
  BY <1>1, <1>2 DEF Behind

\* A machine that is behind and advances its version catches up by one.
LEMMA BehindCatch ==
    ASSUME NEW v \in Version, NEW w \in Version, NEW high \in Nat,
           high < VersionSize, Behind(v, w, 0, high), v # w
    PROVE Behind(Succ(v), w, 0, high)
<1>1. PICK k \in 0..high : Ahead(v, w, k)
  BY Zenon DEF Behind
<1>2. k # 0
  BY <1>1, ElectionAssumption DEF Ahead, Version
<1>3. Ahead(Succ(v), w, k - 1)
  BY <1>1, <1>2, SuccCases, ElectionAssumption DEF Ahead, Version
<1> QED
  BY <1>1, <1>2, <1>3 DEF Behind

\* Less than a full turn behind is behind: the versions differ.
LEMMA BehindDistinct ==
    ASSUME NEW v \in Version, NEW w \in Version, NEW high \in Nat,
           high < VersionSize, Behind(v, w, 1, high)
    PROVE v # w
  BY ElectionAssumption DEF Behind, Ahead, Version

\* A wider range.
LEMMA BehindWider ==
    ASSUME NEW v, NEW w, NEW low \in Nat, NEW high \in Nat, NEW l \in Nat, NEW h \in Nat,
           l <= low, high <= h, Behind(v, w, low, high)
    PROVE Behind(v, w, l, h)
  BY DEF Behind

\* The machines served are counted, and there are no more of them than machines.
LEMMA ServedBound ==
    ASSUME CalmAssumption, NEW D \in SUBSET Node
    PROVE /\ Cardinality(Node \ D) \in Nat /\ Cardinality(Node) \in Nat
          /\ Cardinality(Node \ D) <= Cardinality(Node)
<1>1. IsFiniteSet(Node)
  BY Zenon DEF CalmAssumption
<1>2. IsFiniteSet(Node \ D) /\ Cardinality(Node \ D) <= Cardinality(Node)
  BY Zenon, <1>1, FS_Subset, Node \ D \in SUBSET Node
<1> QED
  BY Zenon, <1>1, <1>2, FS_CardinalityType

\* The end of a tick serves one more machine.
LEMMA ServedGrows ==
    ASSUME CalmAssumption, NEW D \in SUBSET Node, NEW n \in D
    PROVE Cardinality(Node \ (D \ {n})) = Cardinality(Node \ D) + 1
<1>1. IsFiniteSet(Node \ D)
  BY Zenon, FS_Subset, Node \ D \in SUBSET Node DEF CalmAssumption
<1>2. Node \ (D \ {n}) = (Node \ D) \cup {n} /\ n \notin Node \ D
  BY Zenon
<1> QED
  BY Zenon, <1>1, <1>2, FS_AddElement

\* The machines served are fewer than the version numbers, and every tick that ends
\* adds one to them.
LEMMA ServedNow ==
    ASSUME CalmAssumption, IInv
    PROVE /\ Served \in Nat /\ Served < VersionSize
          /\ \A n \in due : due' = due \ {n} => Served' = Served + 1
<1>1. due \in SUBSET Node
  BY Zenon DEF IInv, TypeOK
<1>2. /\ Served \in Nat /\ Cardinality(Node) \in Nat /\ Served <= Cardinality(Node)
  BY Zenon, <1>1, ServedBound DEF Served
<1>3. Cardinality(Node) + 1 < VersionSize
  BY Zenon, <1>2, ElectionAssumption DEF CalmAssumption
<1>4. \A n \in due : due' = due \ {n} => Served' = Served + 1
  BY Zenon, <1>1, ServedGrows DEF Served
<1> QED
  BY <1>2, <1>3, <1>4, ElectionAssumption

\* There are enough rounds for the phases.
LEMMA RoundsEnough == CalmAssumption => CalmRounds >= 4
<1> SUFFICES ASSUME CalmAssumption, CalmRounds < 4 PROVE FALSE
  BY ElectionAssumption
<1>1. CalmRounds \in {0, 1, 2, 3}
  BY ElectionAssumption
<1>2. (CalmRounds - 2) * TickTime <= TickTime
  BY <1>1, ElectionAssumption
<1> QED
  BY <1>2, ElectionAssumption DEF CalmAssumption

\* A row whose lease has run out is expired, whatever the calendar adds.
LEMMA AgedIsExpired ==
    ASSUME CalmAssumption, TypeOK, age > LeaseTime PROVE MtimeExpired
<1>1. Minute \in Nat /\ Minute <= 100 /\ age \in Nat /\ LeaseTime \in Nat
  BY ElectionAssumption DEF CalmAssumption, TypeOK, MaxAge
<1>2. CASE carry = "none"
  BY <1>1, <1>2 DEF MtimeExpired, DiffTime
<1>3. CASE carry # "none"
  BY <1>1, <1>3 DEF MtimeExpired, DiffTime
<1> QED
  BY Zenon, <1>2, <1>3

\* A step after which calm is not zero is the clock's or a quiet one: every
\* fault, every won election and every row called expired too early resets calm.
LEMMA QuietSteps ==
    ASSUME carry # "year", [Next]_vars, calm' # 0
    PROVE Clock \/ UNCHANGED vars \/ \E n \in Node : QuietTick(n)
<1>1. ASSUME NEW n \in Node, Tick(n) PROVE QuietTick(n)
  <2>1. ~(DiffOverflows /\ CheckError(n))
    BY Zenon DEF DiffOverflows
  <2>2. ~ElectOk(n)
    BY Zenon DEF ElectOk
  <2>3. CheckDead(n) => age > LeaseTime
    BY Zenon DEF CheckDead
  <2> QED
    BY Zenon, <1>1, <2>1, <2>2, <2>3 DEF Tick, QuietTick
<1>2. ASSUME NEW n \in Node PROVE ~Fault(n)
  BY Zenon DEF Fault, HeartbeatError, CheckError, GetVersionError, ElectError,
         ReleaseLeaderElection, Crash, Stall, Disturbed
<1> QED
  BY Zenon, <1>1, <1>2 DEF Next, QuietTick

\* A quiet step leaves calm and the years alone, and the row unless it renews it.
LEMMA QuietFrame ==
    ASSUME NEW n \in Node, QuietTick(n)
    PROVE /\ calm' = calm /\ years' = years
          /\ HeartbeatOk(n) \/ UNCHANGED lease
<1> USE DEF history, Undisturbed
<1>1. CASE AbandonTick(n) \/ ReleaseTick(n) \/ FollowerTick(n) \/ StartLeaderElection(n)
  BY Zenon, <1>1 DEF AbandonTick, ReleaseTick, FollowerTick, StartLeaderElection
<1>2. CASE HeartbeatOk(n) \/ HeartbeatAbort(n)
  BY Zenon, <1>2 DEF HeartbeatOk, HeartbeatAbort, Heartbeat
<1>3. CASE CheckAlive(n) \/ (CheckDead(n) /\ age > LeaseTime)
  BY Zenon, <1>3 DEF CheckAlive, CheckDead, CheckLeaderDead
<1>4. CASE GetVersion(n) \/ ElectAbort(n)
  BY Zenon, <1>4 DEF GetVersion, ElectAbort, Swap
<1> QED
  BY Zenon, <1>1, <1>2, <1>3, <1>4 DEF QuietTick

\* What a tick reads of a live row that names another machine makes it a follower.
LEMMA AliveFollows ==
    ASSUME IInv, NEW n \in Node, CheckAlive(n), row.leader # n
    PROVE /\ ~leaderFlag'[n]
          /\ \A m \in Node \ {n} : leaderFlag'[m] = leaderFlag[m]
<1>1. leaderFlag[n] <=> leader[n] = n
  BY Zenon DEF IInv, ViewConsistent
<1>2. leaderFlag \in [Node -> BOOLEAN]
  BY Zenon DEF IInv, TypeOK
<1>3. CASE row.leader \notin {n, leader[n]} /\ changeToFollower(n, row.leader)
  BY Zenon, <1>2, <1>3 DEF changeToFollower, ChangeTo
<1>4. CASE row.leader = leader[n] /\ UNCHANGED machine
  BY Zenon, <1>1, <1>4 DEF machine
<1> QED
  BY Zenon, <1>3, <1>4, CheckAliveCases

\* A renewal makes its machine the holder of the row.
LEMMA HeartbeatHolds ==
    ASSUME IInv, NEW n \in Node, HeartbeatOk(n)
    PROVE /\ Holder' /\ row'.leader = n /\ row'.version = Succ(row.version)
          /\ version'[n] = row'.version /\ row.version = version[n]
          /\ n \in due /\ due' = due \ {n} /\ pc' = pc /\ pc[n] = "idle"
          /\ leaderFlag' = leaderFlag /\ leaderFlag[n] /\ curVersion' = curVersion
          /\ \A m \in Node \ {n} : version'[m] = version[m]
<1>1. version \in [Node -> Version] /\ pc \in [Node -> {"idle", "check", "version", "swap"}]
  BY Zenon DEF IInv, TypeOK
<1>2. pc' = pc /\ pc[n] = "idle" /\ due' = due \ {n} /\ n \in due
  BY Zenon, <1>1 DEF HeartbeatOk, Heartbeat, TickStarts, EndTick
<1>3. /\ leaderFlag' = leaderFlag /\ leaderFlag[n] /\ ~releaseSignal[n]
      /\ releaseSignal' = releaseSignal /\ curVersion' = curVersion
  BY Zenon DEF HeartbeatOk, Heartbeat, machine, signals
<1>4. version' = [version EXCEPT ![n] = Succ(version[n])] /\ row.version = version[n]
  BY Zenon DEF HeartbeatOk, Heartbeat
<1>5. row' = [leader |-> n, version |-> Succ(version[n])] /\ age' = 0
  BY Zenon DEF HeartbeatOk, WriteRow
<1>6. version'[n] = row'.version /\ \A m \in Node \ {n} : version'[m] = version[m]
  BY Zenon, <1>1, <1>4, <1>5
<1> QED
  BY Zenon, <1>2, <1>3, <1>4, <1>5, <1>6 DEF Holder

\* The holder keeps the row until another machine renews it.
LEMMA HolderStep ==
    ASSUME CalmAssumption, IInv, Holder, NEW n \in Node, QuietTick(n)
    PROVE Holder'
<1>1. CASE HeartbeatOk(n)
  BY Zenon, <1>1, HeartbeatHolds
<1>2. CASE ~HeartbeatOk(n)
  <2> DEFINE L == row.leader
  <2>1. row' = row /\ age' = age
    BY Zenon, <1>2, QuietFrame DEF lease
  <2>2. L \in Node /\ leaderFlag[L] /\ pc[L] = "idle" /\ version[L] = row.version
        /\ ~releaseSignal[L]
    BY Zenon DEF Holder
  <2>3. age <= LeaseTime
    BY ElectionAssumption DEF CalmAssumption, Holder
  <2> SUFFICES n # L /\ /\ leaderFlag'[L] = leaderFlag[L] /\ pc'[L] = pc[L]
                        /\ version'[L] = version[L] /\ releaseSignal'[L] = releaseSignal[L]
                        /\ L \in due => L \in due'
    BY Zenon, <2>1, <2>2 DEF Holder
  <2> USE <2>2 DEF IInv, TypeOK, EndTick, GoTo, machine, signals
  <2>4. CASE AbandonTick(n)
    BY Zenon, <2>4 DEF AbandonTick, ElectSteps, Abstains
  <2>5. CASE ReleaseTick(n)
    BY Zenon, <2>5 DEF ReleaseTick, changeToFollower, ChangeTo
  <2>6. CASE FollowerTick(n)
    BY Zenon, <2>6 DEF FollowerTick
  <2>7. CASE HeartbeatAbort(n)
    BY Zenon, <2>7 DEF HeartbeatAbort, Heartbeat
  <2>8. CASE CheckAlive(n)
    <3>1. n # L
      BY Zenon, <2>8 DEF CheckAlive, CheckLeaderDead
    <3> QED
      BY ZenonT(30), <2>8, <3>1, AliveFollows DEF CheckAlive, CheckLeaderDead
  <2>9. CASE CheckDead(n) /\ age > LeaseTime
    BY <2>3, <2>9, ElectionAssumption DEF MaxAge
  <2>10. CASE GetVersion(n)
    BY Zenon, <2>10 DEF GetVersion
  <2>11. CASE ElectAbort(n)
    BY Zenon, <2>11 DEF ElectAbort, Swap
  <2>12. CASE StartLeaderElection(n)
    BY ZenonT(30), <2>12 DEF StartLeaderElection, FreshMachine, changeToFollower, ChangeTo,
                 ElectSteps, StoppedIdle
  <2> QED
    BY Zenon, <1>2, <2>4, <2>5, <2>6, <2>7, <2>8, <2>9, <2>10, <2>11, <2>12 DEF QuietTick
<1> QED
  BY Zenon, <1>1, <1>2

\* A round without a renewal leaves no leader that has been served; the first
\* renewal leaves only the one who made it.
LEMMA UnrenewedStep ==
    ASSUME CalmAssumption, IInv, Unrenewed, NEW n \in Node, QuietTick(n)
    PROVE Unrenewed' \/ Renewed'
<1>1. CASE HeartbeatOk(n)
  <2>1. Holder' /\ row'.version = Succ(row.version) /\ version'[n] = row'.version
    BY Zenon, <1>1, HeartbeatHolds
  <2>2. due' = due \ {n} /\ n \in due /\ pc' = pc /\ curVersion' = curVersion
        /\ leaderFlag' = leaderFlag
    BY Zenon, <1>1, HeartbeatHolds
  <2>3. Served \in Nat /\ Served' = Served + 1 /\ Served < VersionSize
    BY Zenon, <2>2, ServedNow
  <2>4. row.version \in Version /\ row'.version \in Version
    BY <2>1, SuccVersion DEF IInv, TypeOK
  <2>5. Behind(version'[n], row'.version, 0, Served')
    BY <2>1, <2>3, <2>4, BehindSelf
  <2>6. Behind(row.version, row'.version, 0, Served')
    <3>1. Behind(row.version, row'.version, 1, Served')
      BY <2>1, <2>3, <2>4, BehindSelf, BehindRow
    <3> QED
      BY <2>3, <3>1, BehindWider
  <2> QED
    BY Zenon, <2>1, <2>2, <2>5, <2>6 DEF Unrenewed, Renewed
<1>2. CASE ~HeartbeatOk(n)
  <2>1. row' = row /\ age' = age
    BY Zenon, <1>2, QuietFrame DEF lease
  <2> SUFFICES \A m \in Node : /\ leaderFlag'[m] => m \in due'
                               /\ pc'[m] = "swap" => curVersion'[m] = row.version
    BY Zenon, <2>1 DEF Unrenewed
  <2> USE DEF IInv, TypeOK, EndTick, GoTo, machine, Unrenewed
  <2>2. CASE AbandonTick(n)
    BY Zenon, <2>2 DEF AbandonTick, ElectSteps, Abstains
  <2>3. CASE ReleaseTick(n)
    BY Zenon, <2>3 DEF ReleaseTick, changeToFollower, ChangeTo
  <2>4. CASE FollowerTick(n)
    BY Zenon, <2>4 DEF FollowerTick
  <2>5. CASE HeartbeatAbort(n)
    BY Zenon, <2>5 DEF HeartbeatAbort, Heartbeat
  <2>6. CASE CheckAlive(n)
    BY Zenon, <2>6, AgedIsExpired DEF CheckAlive
  <2>7. CASE CheckDead(n)
    BY Zenon, <2>7 DEF CheckDead, CheckLeaderDead
  <2>8. CASE GetVersion(n)
    BY Zenon, <2>8 DEF GetVersion
  <2>9. CASE ElectAbort(n)
    BY Zenon, <2>9 DEF ElectAbort, Swap
  <2>10. CASE StartLeaderElection(n)
    BY <2>10 DEF StartLeaderElection, FreshMachine, changeToFollower, ChangeTo,
                 ElectSteps, StoppedIdle
  <2> QED
    BY Zenon, <1>2, <2>2, <2>3, <2>4, <2>5, <2>6, <2>7, <2>8, <2>9, <2>10 DEF QuietTick
<1> QED
  BY Zenon, <1>1, <1>2

\* In a round with renewals, who ends it as a leader stays within the machines
\* served of the row: a renewal serves its machine, and an aborted swap leaves
\* the successor of a version the row had in this round.
LEMMA RenewedStep ==
    ASSUME CalmAssumption, IInv, Renewed, NEW n \in Node, QuietTick(n),
           \A m \in Node : pc[m] # "idle" => m \in due
    PROVE Renewed'
<1>0. Holder'
  BY Zenon, HolderStep DEF Renewed
<1>1. Served \in Nat /\ Served < VersionSize /\ row.version \in Version
      /\ \A m \in Node : version[m] \in Version /\ curVersion[m] \in Version
  BY Zenon, ServedNow DEF IInv, TypeOK
<1>2. CASE HeartbeatOk(n)
  <2>1. row'.version = Succ(row.version) /\ version'[n] = row'.version
        /\ \A m \in Node \ {n} : version'[m] = version[m]
    BY Zenon, <1>2, HeartbeatHolds
  <2>2. due' = due \ {n} /\ n \in due /\ pc' = pc /\ curVersion' = curVersion
        /\ leaderFlag' = leaderFlag
    BY Zenon, <1>2, HeartbeatHolds
  <2>3. Served' = Served + 1
    BY Zenon, <2>2, ServedGrows DEF Served, IInv, TypeOK
  <2>4. ASSUME NEW v \in Version, Behind(v, row.version, 0, Served)
        PROVE Behind(v, row'.version, 0, Served')
    <3>1. Behind(v, row'.version, 1, Served')
      BY <1>1, <2>1, <2>3, <2>4, BehindRow
    <3> QED
      BY <1>1, <2>3, <3>1, BehindWider
  <2>5. Behind(version'[n], row'.version, 0, Served')
    BY <1>1, <2>1, <2>3, BehindSelf, SuccVersion
  <2>6. ASSUME NEW m \in Node, leaderFlag'[m], m \notin due'
        PROVE Behind(version'[m], row'.version, 0, Served')
    <3>1. CASE m = n
      BY Zenon, <2>5, <3>1
    <3>2. CASE m # n
      BY Zenon, <1>1, <2>1, <2>2, <2>4, <2>6, <3>2 DEF Renewed
    <3> QED
      BY Zenon, <3>1, <3>2
  <2>7. ASSUME NEW m \in Node, pc'[m] = "swap"
        PROVE Behind(curVersion'[m], row'.version, 0, Served')
    BY Zenon, <1>1, <2>2, <2>4, <2>7 DEF Renewed
  <2> QED
    BY Zenon, <1>0, <2>6, <2>7 DEF Renewed
<1>3. CASE ~HeartbeatOk(n)
  <2>1. row' = row /\ age' = age
    BY Zenon, <1>3, QuietFrame DEF lease
  <2>2. row.leader \in Node /\ pc[row.leader] = "idle" /\ age <= LeaseTime /\ age \in Nat
    BY ElectionAssumption DEF CalmAssumption, Renewed, Holder, IInv, TypeOK, MaxAge
  <2>3. ASSUME NEW v \in Version, Behind(v, row.version, 0, Served),
               due' = due \/ (n \in due /\ due' = due \ {n})
        PROVE Behind(v, row'.version, 0, Served')
    <3>1. Served' \in Nat /\ Served <= Served'
      <4>1. Served' = Served \/ Served' = Served + 1
        BY Zenon, <2>3, ServedNow DEF Served
      <4> QED
        BY <1>1, <4>1
    <3> QED
      BY <1>1, <2>1, <2>3, <3>1, BehindWider
  <2> DEFINE Late(m) ==
        /\ leaderFlag'[m] /\ m \notin due' => Behind(version'[m], row'.version, 0, Served')
        /\ pc'[m] = "swap" => Behind(curVersion'[m], row'.version, 0, Served')
  <2>4. SUFFICES \A m \in Node : Late(m)
    BY Zenon, <1>0 DEF Renewed
  <2>5. ASSUME due' = due \/ (n \in due /\ due' = due \ {n}),
               NEW m \in Node,
               leaderFlag'[m] /\ m \notin due' => /\ leaderFlag[m] /\ m \notin due
                                                  /\ version'[m] = version[m],
               pc'[m] = "swap" => pc[m] = "swap" /\ curVersion'[m] = curVersion[m]
        PROVE Late(m)
    BY Zenon, <1>1, <2>3, <2>5 DEF Renewed
  <2> HIDE DEF Late
  <2> USE <1>1, <2>1, <2>2 DEF EndTick, GoTo, machine, IInv, TypeOK
  <2>6. CASE AbandonTick(n)
    BY Zenon, <2>5, <2>6 DEF AbandonTick, TickStarts, ElectSteps, Abstains
  <2>7. CASE ReleaseTick(n)
    BY Zenon, <2>5, <2>7 DEF ReleaseTick, TickStarts, changeToFollower, ChangeTo
  <2>8. CASE FollowerTick(n)
    BY Zenon, <2>5, <2>8 DEF FollowerTick
  <2>9. CASE HeartbeatAbort(n)
    BY Zenon, <2>5, <2>9 DEF HeartbeatAbort, Heartbeat, TickStarts
  <2>10. CASE CheckAlive(n)
    <3>1. row.leader # n /\ n \in due
      BY Zenon, <2>10 DEF CheckAlive, CheckLeaderDead
    <3> QED
      BY ZenonT(30), <2>5, <2>10, <3>1, AliveFollows DEF CheckAlive, CheckLeaderDead
  <2>11. CASE CheckDead(n) /\ age > LeaseTime
    BY <2>2, <2>11, ElectionAssumption
  <2>12. CASE GetVersion(n)
    <3>1. ASSUME NEW m \in Node \ {n} PROVE Late(m)
      BY Zenon, <2>5, <2>12, <3>1 DEF GetVersion
    <3>2. n \in due /\ due' = due /\ curVersion'[n] = row.version
      BY Zenon, <2>12 DEF GetVersion
    <3>3. Behind(curVersion'[n], row'.version, 0, Served')
      BY Zenon, <3>2, BehindSelf DEF Served
    <3>4. Late(n)
      BY Zenon, <3>2, <3>3 DEF Late
    <3> QED
      BY Zenon, <3>1, <3>4
  <2>13. CASE ElectAbort(n)
    <3>1. n \in due /\ due' = due \ {n} /\ pc[n] = "swap" /\ pc'[n] = "idle"
          /\ version' = version /\ leaderFlag' = leaderFlag /\ row.version # curVersion[n]
      BY Zenon, <2>13 DEF ElectAbort, Swap
    <3>2. ASSUME NEW m \in Node \ {n} PROVE Late(m)
      BY Zenon, <2>5, <2>13, <3>1, <3>2 DEF ElectAbort, Swap
    <3>3. version[n] = Succ(curVersion[n]) /\ Behind(curVersion[n], row.version, 0, Served)
      BY Zenon, <3>1 DEF ElectSteps, SwapReady, Renewed
    <3>4. Behind(version[n], row.version, 0, Served)
      BY <3>1, <3>3, BehindCatch
    <3>5. Behind(version'[n], row'.version, 0, Served')
      BY Zenon, <2>3, <3>1, <3>4
    <3>6. Late(n)
      BY Zenon, <3>1, <3>5 DEF Late
    <3> QED
      BY Zenon, <3>2, <3>6
  <2>14. CASE StartLeaderElection(n)
    BY <2>5, <2>14 DEF StartLeaderElection, FreshMachine, changeToFollower, ChangeTo,
                       ElectSteps, StoppedIdle
  <2> QED
    BY Zenon, <1>3, <2>6, <2>7, <2>8, <2>9, <2>10, <2>11, <2>12, <2>13, <2>14 DEF QuietTick
<1> QED
  BY Zenon, <1>2, <1>3

\* While nobody elects, the renewal of one machine puts all the others behind,
\* and who is behind aborts and follows.
LEMMA SettlingStep ==
    ASSUME CalmAssumption, IInv, Settling, NEW n \in Node, QuietTick(n)
    PROVE Settling'
<1> DEFINE N == Cardinality(Node)
           L == row.leader
<1>0. Holder' /\ Holder
  BY Zenon, HolderStep DEF Settling
<1>1. /\ N \in Nat /\ N + 1 < VersionSize /\ row.version \in Version
      /\ \A m \in Node : version[m] \in Version
      /\ \A m \in Node : pc[m] \in {"idle", "check"}
  <2>1. N \in Nat /\ N + 1 < VersionSize
    BY Zenon, ServedBound, ElectionAssumption DEF CalmAssumption
  <2> QED
    BY Zenon, <2>1 DEF IInv, TypeOK, Settling, Trailing
<1>2. CASE HeartbeatOk(n)
  <2>1. /\ row'.version = Succ(row.version) /\ row'.leader = n /\ row.version = version[n]
        /\ \A m \in Node \ {n} : version'[m] = version[m]
    BY Zenon, <1>2, HeartbeatHolds
  <2>2. due' = due \ {n} /\ n \in due /\ pc' = pc /\ pc[n] = "idle"
        /\ leaderFlag' = leaderFlag /\ leaderFlag[n]
    BY Zenon, <1>2, HeartbeatHolds
  <2>3. L \in due /\ Trailing(0)
    <3>1. CASE L \notin due /\ Trailing(1)
      <4>1. n # L /\ Behind(version[n], row.version, 1, N + 1)
        BY Zenon, <2>2, <3>1 DEF Trailing
      <4>2. version[n] # row.version
        BY <1>1, <4>1, BehindDistinct
      <4> QED
        BY Zenon, <2>1, <4>2
    <3> QED
      BY Zenon, <3>1 DEF Settling
  <2>4. ASSUME NEW m \in Node, leaderFlag'[m], m # n
        PROVE m \in due' /\ (pc'[m] = "idle" => Behind(version'[m], row'.version, 1, N + 1))
    <3>1. m \in due
      BY Zenon, <2>2, <2>3, <2>4 DEF Trailing
    <3>2. ASSUME pc[m] = "idle" PROVE Behind(version[m], row.version, 0, N)
      <4>1. CASE m = L
        BY Zenon, <1>0, <1>1, <4>1, BehindSelf DEF Holder
      <4>2. CASE m # L
        BY <1>1, <2>2, <2>3, <2>4, <3>2, <4>2 DEF Trailing
      <4> QED
        BY Zenon, <4>1, <4>2
    <3>3. ASSUME pc[m] = "idle" PROVE Behind(version'[m], row'.version, 1, N + 1)
      <4>1. version'[m] = version[m] /\ 0 + 1 = 1 /\ N < VersionSize /\ 0 \in Nat
        BY <1>1, <2>1, <2>4, ElectionAssumption
      <4>2. Behind(version[m], Succ(row.version), 0 + 1, N + 1)
        <5> HIDE DEF N
        <5> QED
          BY Zenon, <1>1, <2>4, <3>2, <3>3, <4>1, BehindRow
      <4> QED
        BY Zenon, <2>1, <4>1, <4>2
    <3> QED
      BY Zenon, <2>2, <2>4, <3>1, <3>3
  <2>5. Trailing(1)'
    BY Zenon, <1>1, <2>1, <2>2, <2>4 DEF Trailing
  <2> QED
    BY Zenon, <1>0, <2>1, <2>2, <2>5 DEF Settling
<1>3. CASE ~HeartbeatOk(n)
  <2>1. row' = row /\ age' = age
    BY Zenon, <1>3, QuietFrame DEF lease
  <2>2. L \in Node /\ leaderFlag[L] /\ pc[L] = "idle" /\ version[L] = row.version
        /\ ~releaseSignal[L] /\ age <= LeaseTime /\ age \in Nat
    <3>1. age <= LeaseTime /\ age \in Nat
      BY <1>0, ElectionAssumption DEF CalmAssumption, Holder, IInv, TypeOK, MaxAge
    <3> QED
      BY Zenon, <1>0, <3>1 DEF Holder
  <2>0. IInv
    BY Zenon
  \* What a step of another machine than the holder does to the leaders.
  <2>3. /\ L \in due <=> L \in due'
        /\ \A m \in Node :
            /\ pc'[m] \in {"idle", "check"}
            /\ leaderFlag'[m] /\ m # L =>
                /\ leaderFlag[m] /\ m \in due => m \in due'
                /\ leaderFlag[m]
                /\ pc'[m] = "idle" => pc[m] = "idle" /\ version'[m] = version[m]
    <3> USE <1>1, <2>2 DEF EndTick, GoTo, machine, IInv, TypeOK
    <3>1. CASE AbandonTick(n)
      BY <3>1 DEF AbandonTick, TickStarts, ElectSteps, Abstains
    <3>2. CASE ReleaseTick(n)
      BY <3>2 DEF ReleaseTick, TickStarts, changeToFollower, ChangeTo
    <3>3. CASE FollowerTick(n)
      BY <3>3 DEF FollowerTick
    <3>4. CASE HeartbeatAbort(n)
      BY <3>4 DEF HeartbeatAbort, Heartbeat
    <3>5. CASE CheckAlive(n)
      <4>1. L # n
        BY Zenon, <3>5 DEF CheckAlive, CheckLeaderDead
      <4>2. ~leaderFlag'[n] /\ \A m \in Node \ {n} : leaderFlag'[m] = leaderFlag[m]
        BY Zenon, <2>0, <3>5, <4>1, AliveFollows
      <4>3. pc' = [pc EXCEPT ![n] = "idle"] /\ due' = due \ {n} /\ version' = version
        BY Zenon, <3>5 DEF CheckAlive, CheckLeaderDead
      <4> QED
        BY <4>1, <4>2, <4>3
    <3>6. CASE CheckDead(n) /\ age > LeaseTime
      <4>1. FALSE
        BY <2>2, <3>6, ElectionAssumption
      <4> QED
        BY Zenon, <4>1
    <3>7. CASE GetVersion(n) \/ ElectAbort(n)
      BY Zenon, <3>7 DEF GetVersion, ElectAbort, Swap
    <3>8. CASE StartLeaderElection(n)
      BY <3>8 DEF StartLeaderElection, FreshMachine, changeToFollower, ChangeTo,
                  ElectSteps, StoppedIdle
    <3> QED
      BY Zenon, <1>3, <3>1, <3>2, <3>3, <3>4, <3>5, <3>6, <3>7, <3>8 DEF QuietTick
  <2>4. ASSUME NEW d \in {0, 1}, Trailing(d) PROVE Trailing(d)'
    BY Zenon, <2>1, <2>3, <2>4 DEF Trailing
  <2> QED
    BY Zenon, <1>0, <2>1, <2>3, <2>4 DEF Settling
<1> QED
  BY Zenon, <1>2, <1>3

\* The holder is alone, and stays so: the others find its row alive.
LEMMA SettledStep ==
    ASSUME CalmAssumption, IInv, Settled, NEW n \in Node, QuietTick(n)
    PROVE Settled'
<1>0. Holder' /\ Holder
  BY Zenon, HolderStep DEF Settled
<1>1. CASE HeartbeatOk(n)
  BY <1>0, <1>1, HeartbeatHolds DEF Settled
<1>2. CASE ~HeartbeatOk(n)
  <2>1. row' = row /\ age' = age
    BY Zenon, <1>2, QuietFrame DEF lease
  <2>2. row.leader \in Node /\ pc[row.leader] = "idle" /\ age <= LeaseTime /\ age \in Nat
        /\ \A m \in Node : pc[m] \in {"idle", "check"} /\ (leaderFlag[m] => m = row.leader)
    <3>1. age <= LeaseTime /\ age \in Nat
      BY <1>0, ElectionAssumption DEF CalmAssumption, Settled, Holder, IInv, TypeOK, MaxAge
    <3> QED
      BY Zenon, <1>0, <3>1 DEF Settled, Holder
  <2>3. \A m \in Node : pc'[m] \in {"idle", "check"} /\ (leaderFlag'[m] => leaderFlag[m])
    <3> USE <2>2 DEF EndTick, GoTo, machine, IInv, TypeOK
    <3>1. CASE AbandonTick(n)
      BY Zenon, <3>1 DEF AbandonTick
    <3>2. CASE ReleaseTick(n)
      BY <3>2 DEF ReleaseTick, changeToFollower, ChangeTo
    <3>3. CASE FollowerTick(n)
      BY <3>3 DEF FollowerTick
    <3>4. CASE HeartbeatAbort(n)
      BY <3>4 DEF HeartbeatAbort, Heartbeat
    <3>5. CASE CheckAlive(n)
      <4>1. row.leader # n
        BY Zenon, <3>5 DEF CheckAlive, CheckLeaderDead
      <4> QED
        BY ZenonT(30), <3>5, <4>1, AliveFollows DEF CheckAlive, CheckLeaderDead
    <3>6. CASE CheckDead(n) /\ age > LeaseTime
      BY <3>6, ElectionAssumption
    <3>7. CASE GetVersion(n) \/ ElectAbort(n)
      BY Zenon, <3>7 DEF GetVersion, ElectAbort, Swap
    <3>8. CASE StartLeaderElection(n)
      BY <3>8 DEF StartLeaderElection, FreshMachine, changeToFollower, ChangeTo
    <3> QED
      BY Zenon, <1>2, <3>1, <3>2, <3>3, <3>4, <3>5, <3>6, <3>7, <3>8 DEF QuietTick
  <2> QED
    BY Zenon, <1>0, <2>1, <2>2, <2>3 DEF Settled
<1> QED
  BY Zenon, <1>1, <1>2

\* Without a leader and with an expired row only an election makes a leader.
LEMMA VacantStep ==
    ASSUME CalmAssumption, IInv, Vacant, NEW n \in Node, QuietTick(n)
    PROVE Vacant'
<1>1. ~HeartbeatOk(n) /\ ~CheckAlive(n)
  BY Zenon, AgedIsExpired DEF Vacant, IInv, HeartbeatOk, Heartbeat, CheckAlive
<1>2. age' = age
  BY Zenon, <1>1, QuietFrame DEF lease
<1>3. \A m \in Node : ~leaderFlag'[m]
  <2> USE DEF machine, Vacant, IInv, TypeOK
  <2>1. CASE AbandonTick(n) \/ FollowerTick(n) \/ HeartbeatAbort(n)
    BY <2>1 DEF AbandonTick, FollowerTick, HeartbeatAbort, Heartbeat
  <2>2. CASE ReleaseTick(n)
    BY Zenon, <2>2 DEF ReleaseTick
  <2>3. CASE CheckDead(n)
    BY Zenon, <2>3 DEF CheckDead
  <2>4. CASE GetVersion(n) \/ ElectAbort(n)
    BY Zenon, <2>4 DEF GetVersion, ElectAbort
  <2>5. CASE StartLeaderElection(n)
    BY Zenon, <2>5 DEF StartLeaderElection, FreshMachine, changeToFollower, ChangeTo
  <2> QED
    BY Zenon, <1>1, <2>1, <2>2, <2>3, <2>4, <2>5 DEF QuietTick
<1> QED
  BY Zenon, <1>2, <1>3 DEF Vacant

\* A tick in progress is of a machine that is due: a quiet step keeps that.
LEMMA RoundStep ==
    ASSUME IInv, NEW n \in Node, QuietTick(n), \A m \in Node : pc[m] # "idle" => m \in due
    PROVE (\A m \in Node : pc[m] # "idle" => m \in due)'
<1> USE DEF EndTick, GoTo, IInv, TypeOK
<1>1. CASE AbandonTick(n) \/ ReleaseTick(n)
  BY <1>1 DEF AbandonTick, ReleaseTick
<1>2. CASE FollowerTick(n)
  BY Zenon, <1>2 DEF FollowerTick, TickStarts
<1>3. CASE HeartbeatOk(n) \/ HeartbeatAbort(n)
  BY <1>3 DEF HeartbeatOk, HeartbeatAbort, Heartbeat, TickStarts
<1>4. CASE CheckAlive(n) \/ CheckDead(n)
  BY <1>4 DEF CheckAlive, CheckDead, CheckLeaderDead
<1>5. CASE GetVersion(n) \/ ElectAbort(n)
  BY <1>5 DEF GetVersion, ElectAbort, Swap
<1>6. CASE StartLeaderElection(n)
  BY Zenon, <1>6 DEF StartLeaderElection
<1> QED
  BY Zenon, <1>1, <1>2, <1>3, <1>4, <1>5, <1>6 DEF QuietTick

\* A period passes over the holder: its row is one period old, and its tick is due.
LEMMA HolderClock ==
    ASSUME CalmAssumption, IInv, Holder, Clock PROVE Holder'
<1>1. due = {} /\ due' = {n \in Node : running[n]}
  BY Zenon DEF Clock
<1>2. row' = row /\ leaderFlag' = leaderFlag /\ pc' = pc /\ version' = version
      /\ releaseSignal' = releaseSignal
  BY Zenon DEF Clock, machine, signals
<1>3. age = 0
  BY Zenon, <1>1 DEF Holder
<1>4. age' = TickTime
  BY <1>3, ElectionAssumption DEF Clock, MaxAge
<1>5. row.leader \in due'
  BY Zenon, <1>1 DEF Holder, IInv, ElectSteps, StoppedIdle, TypeOK
<1> QED
  BY Zenon, <1>2, <1>4, <1>5 DEF Holder

\* An expired row stays expired.
LEMMA AgedClock ==
    ASSUME TypeOK, Clock, age > LeaseTime PROVE age' > LeaseTime
  BY ElectionAssumption DEF TypeOK, Clock, MaxAge

\* Each phase leads to the next one when a round is over.
LEMMA PhaseClock ==
    ASSUME CalmAssumption, IInv, Clock, Phases, InRound PROVE Phases'
<1> USE ElectionAssumption
<1>1. /\ due = {} /\ due' = {n \in Node : running[n]}
      /\ row' = row /\ leaderFlag' = leaderFlag /\ pc' = pc /\ version' = version
  BY Zenon DEF Clock, machine
<1>2. calm \in 0..CalmRounds /\ CalmRounds >= 4
      /\ calm' = IF calm < CalmRounds THEN calm + 1 ELSE calm
  BY Zenon, RoundsEnough DEF Clock, IInv, TypeOK
<1>3. age' = IF age + TickTime > MaxAge THEN MaxAge ELSE age + TickTime
  BY Zenon DEF Clock
<1>4. \A n \in Node : leaderFlag[n] => n \in due'
  BY Zenon, <1>1 DEF IInv, TypeOK, ElectSteps, StoppedIdle
<1>5. ASSUME calm # 0 PROVE \A n \in Node : pc[n] = "idle"
  BY Zenon, <1>1, <1>5 DEF InRound
<1>6. CASE calm = 0
  <2>1. calm' = 1
    BY <1>2, <1>6
  <2>2. age' >= calm' * TickTime \/ age' = MaxAge
    BY <1>3, <2>1 DEF IInv, TypeOK
  <2> QED
    BY <1>2, <2>1, <2>2 DEF Phases
<1>7. CASE calm \in 1..(CalmRounds - 3)
  <2>1. calm' = calm + 1 /\ calm' \in 2..(CalmRounds - 2)
    BY <1>2, <1>7
  <2>2. (calm + 1) * TickTime = calm * TickTime + TickTime
    BY <1>7
  <2>3. Holder' \/ age' >= calm' * TickTime \/ age' = MaxAge
    <3>1. CASE Holder
      BY Zenon, <3>1, HolderClock
    <3>2. CASE age >= calm * TickTime \/ age = MaxAge
      <4> DEFINE c == calm * TickTime
      <4>1. c \in Int /\ age \in 0..MaxAge /\ MaxAge \in Nat
        BY <1>7 DEF IInv, TypeOK, MaxAge
      <4>2. age' >= c + TickTime \/ age' = MaxAge
        <5> HIDE DEF c
        <5>1. age >= c \/ age = MaxAge
          BY Zenon, <3>2 DEF c
        <5> QED
          BY <1>3, <4>1, <5>1
      <4> QED
        BY Zenon, <2>1, <2>2, <4>2
    <3> QED
      BY Zenon, <1>7, <3>1, <3>2 DEF Phases
  <2>4. CASE calm' # CalmRounds - 2
    BY <2>1, <2>3, <2>4 DEF Phases
  <2>5. CASE calm' = CalmRounds - 2
    <3>1. calm' * TickTime > LeaseTime /\ MaxAge > LeaseTime
      BY <2>5 DEF CalmAssumption, MaxAge
    <3>2. CASE Holder'
      <4>1. \A n \in Node : n \in due' \/ ~leaderFlag'[n]
        BY Zenon, <1>1, <1>4
      <4>2. \A n \in Node : pc'[n] = "idle"
        BY <1>1, <1>5, <1>7
      <4> QED
        BY <2>5, <3>2, <4>1, <4>2 DEF Phases, Renewed
    <3>3. CASE age' >= calm' * TickTime \/ age' = MaxAge
      <4>1. age' > LeaseTime
        <5> DEFINE c == calm' * TickTime
        <5>1. c \in Int /\ age' \in Int /\ MaxAge \in Int
          BY <1>3, <2>1 DEF IInv, TypeOK, MaxAge
        <5>2. c > LeaseTime /\ (age' >= c \/ age' = MaxAge)
          BY Zenon, <3>1, <3>3
        <5> HIDE DEF c
        <5> QED
          BY <3>1, <5>1, <5>2
      <4>2. Unrenewed'
        BY <1>1, <1>4, <1>5, <1>7, <4>1 DEF Unrenewed
      <4> QED
        BY <2>5, <4>2 DEF Phases
    <3> QED
      BY Zenon, <2>3, <3>2, <3>3
  <2> QED
    BY Zenon, <2>4, <2>5
<1>8. CASE calm = CalmRounds - 2
  <2>1. calm' = CalmRounds - 1
    BY <1>2, <1>8
  <2>2. CASE Unrenewed
    <3>1. Vacant'
      BY Zenon, <1>1, <2>2, AgedClock DEF Unrenewed, Vacant, IInv
    <3> QED
      BY <2>1, <3>1 DEF Phases
  <2>3. CASE Renewed
    <3>1. Holder' /\ row.leader \in Node /\ leaderFlag[row.leader]
      BY Zenon, <2>3, HolderClock DEF Renewed, Holder
    <3>2. row'.leader \in due'
      BY Zenon, <1>1, <1>4, <3>1
    <3>3. Served = Cardinality(Node)
      BY Zenon, <1>1, Node \ {} = Node DEF Served
    <3>4. Cardinality(Node) + 0 = Cardinality(Node)
      <4>1. Cardinality(Node) \in Nat
        BY Zenon, {} \in SUBSET Node, ServedBound
      <4> QED
        BY <4>1
    <3>5. ASSUME NEW n \in Node, leaderFlag'[n]
          PROVE n \in due' /\ Behind(version'[n], row'.version, 0, Cardinality(Node) + 0)
      BY Zenon, <1>1, <1>4, <2>3, <3>3, <3>4, <3>5 DEF Renewed
    <3>6. Trailing(0)'
      <4>1. \A n \in Node : pc'[n] = "idle"
        BY <1>1, <1>2, <1>5, <1>8
      <4> QED
        BY Zenon, <3>5, <4>1 DEF Trailing
    <3> QED
      BY <2>1, <3>1, <3>2, <3>6 DEF Phases, Settling
  <2> QED
    BY Zenon, <1>8, <2>2, <2>3 DEF Phases
<1>9. CASE calm = CalmRounds - 1
  <2>1. calm' = CalmRounds
    BY <1>2, <1>9
  <2>2. CASE Vacant
    <3>1. Vacant'
      BY Zenon, <1>1, <2>2, AgedClock DEF Vacant, IInv
    <3> QED
      BY <2>1, <3>1 DEF Phases
  <2>3. CASE Settling
    <3>1. Holder' /\ Trailing(1)
      BY Zenon, <1>1, <2>3, HolderClock DEF Settling
    <3>2. Settled'
      BY Zenon, <1>1, <3>1 DEF Settled, Trailing
    <3> QED
      BY <2>1, <3>2 DEF Phases
  <2> QED
    BY Zenon, <1>9, <2>2, <2>3 DEF Phases
<1>10. CASE calm = CalmRounds
  <2>1. calm' = CalmRounds
    BY <1>2, <1>10
  <2>2. CASE Vacant
    <3>1. Vacant'
      BY Zenon, <1>1, <2>2, AgedClock DEF Vacant, IInv
    <3> QED
      BY <2>1, <3>1 DEF Phases
  <2>3. CASE Settled
    <3>1. Settled'
      BY Zenon, <1>1, <2>3, HolderClock DEF Settled
    <3> QED
      BY <2>1, <3>1 DEF Phases
  <2> QED
    BY Zenon, <1>10, <2>2, <2>3 DEF Phases
<1> QED
  BY <1>2, <1>6, <1>7, <1>8, <1>9, <1>10

\* A quiet step stays in its phase.
LEMMA PhaseQuiet ==
    ASSUME CalmAssumption, IInv, Phases, NEW n \in Node, QuietTick(n), calm # 0,
           \A m \in Node : pc[m] # "idle" => m \in due
    PROVE Phases'
<1>1. calm' = calm /\ (HeartbeatOk(n) \/ age' = age)
  BY Zenon, QuietFrame DEF lease
<1>2. ASSUME Holder \/ age >= calm * TickTime \/ age = MaxAge
      PROVE (Holder \/ age >= calm * TickTime \/ age = MaxAge)'
  <2>1. CASE Holder
    BY Zenon, <2>1, HolderStep
  <2>2. CASE HeartbeatOk(n)
    BY Zenon, <2>2, HeartbeatHolds
  <2>3. CASE ~HeartbeatOk(n) /\ ~Holder
    BY Zenon, <1>1, <1>2, <2>3
  <2> QED
    BY Zenon, <2>1, <2>2, <2>3
<1> QED
  BY Zenon, <1>1, <1>2, UnrenewedStep, RenewedStep, VacantStep, SettlingStep, SettledStep DEF Phases

\* The calendar: a year that ends is counted, and nothing else is carried as one.
LEMMA CalendarStep ==
    ASSUME TypeOK, [Next]_vars
    PROVE \/ years' = years /\ carry' \in {carry, "none", "minute"}
          \/ years > 0 /\ years' = years - 1
<1> DEFINE Goal == \/ years' = years /\ carry' \in {carry, "none", "minute"}
                   \/ years > 0 /\ years' = years - 1
<1>1. CASE Clock
  BY Zenon, <1>1 DEF Clock
<1>2. ASSUME NEW n \in Node, Tick(n) PROVE Goal
  <2> USE DEF lease
  <2>1. CASE AbandonTick(n) \/ ReleaseTick(n) \/ FollowerTick(n)
    BY Zenon, <2>1 DEF AbandonTick, ReleaseTick, FollowerTick
  <2>2. CASE HeartbeatOk(n) \/ HeartbeatAbort(n)
    BY Zenon, <2>2 DEF HeartbeatOk, HeartbeatAbort, Heartbeat, WriteRow
  <2>3. CASE CheckError(n) \/ CheckAlive(n) \/ CheckDead(n)
    BY Zenon, <2>3 DEF CheckError, CheckAlive, CheckDead, CheckLeaderDead
  <2>4. CASE GetVersion(n) \/ ElectOk(n) \/ ElectAbort(n)
    BY Zenon, <2>4 DEF GetVersion, ElectOk, ElectAbort, Swap, WriteRow
  <2> QED
    BY Zenon, <1>2, <2>1, <2>2, <2>3, <2>4 DEF Tick
<1>3. ASSUME NEW n \in Node, Fault(n) PROVE Goal
  <2> USE DEF lease
  <2>1. CASE HeartbeatError(n) \/ ElectError(n)
    BY Zenon, <2>1 DEF HeartbeatError, Heartbeat, ElectError, Swap, WriteRow
  <2>2. CASE CheckError(n) \/ GetVersionError(n)
    BY Zenon, <2>2 DEF CheckError, CheckLeaderDead, GetVersionError
  <2>3. CASE ReleaseLeaderElection(n) \/ Crash(n) \/ Stall(n)
    BY Zenon, <2>3 DEF ReleaseLeaderElection, Crash, Stall
  <2> QED
    BY Zenon, <1>3, <2>1, <2>2, <2>3 DEF Fault
<1>4. ASSUME NEW n \in Node, StartLeaderElection(n) PROVE Goal
  BY Zenon, <1>4 DEF StartLeaderElection, lease
<1>5. CASE UNCHANGED vars
  BY Zenon, <1>5 DEF vars, lease
<1> QED
  BY Zenon, <1>1, <1>2, <1>3, <1>4, <1>5 DEF Next

\* The phases hold from the first full round on, as long as the year lasts.
LEMMA CalmStep ==
    ASSUME CalmAssumption, IInv, CalmInv, [Next]_vars PROVE CalmInv'
<1> SUFFICES ASSUME years' = MaxYears PROVE carry' # "year" /\ InRound' /\ Phases'
  BY Zenon DEF CalmInv
<1>1. years = MaxYears /\ years' = years
  BY CalendarStep, ElectionAssumption DEF IInv, TypeOK
<1>2. carry # "year" /\ InRound /\ Phases
  BY Zenon, <1>1 DEF CalmInv
<1>3. carry' # "year"
  BY <1>1, <1>2, CalendarStep DEF IInv, TypeOK
<1>4. CASE calm' = 0
  BY <1>3, <1>4, RoundsEnough, ElectionAssumption DEF InRound, Phases
<1>5. CASE Clock
  <2>1. InRound'
    BY Zenon, <1>5 DEF InRound, Clock, IInv, TypeOK, ElectSteps, StoppedIdle
  <2> QED
    BY Zenon, <1>2, <1>3, <1>5, <2>1, PhaseClock
<1>6. ASSUME NEW n \in Node, QuietTick(n), calm' # 0 PROVE InRound' /\ Phases'
  <2>1. calm # 0 /\ \A m \in Node : pc[m] # "idle" => m \in due
    BY Zenon, <1>2, <1>6, QuietFrame DEF InRound
  <2>2. InRound'
    BY Zenon, <1>6, <2>1, RoundStep DEF InRound
  <2> QED
    BY Zenon, <1>2, <1>6, <2>1, <2>2, PhaseQuiet
<1>7. CASE UNCHANGED vars
  <2>1. InRound'
    BY Zenon, <1>2, <1>7 DEF InRound, vars, history
  <2>2. Phases'
    BY ZenonT(30), <1>2, <1>7 DEF Phases, Holder, Unrenewed, Renewed, Vacant, Settling, Settled, Trailing,
                      Served, vars, machine, signals, lease, history
  <2> QED
    BY Zenon, <1>3, <2>1, <2>2
<1> QED
  BY Zenon, <1>2, <1>3, <1>4, <1>5, <1>6, <1>7, QuietSteps

\* Of at most one name there is at most one leader.
LEMMA AtMostOne ==
    ASSUME NEW h, \A n \in Node : leaderFlag[n] => n = h
    PROVE Cardinality(Leaders) <= 1
<1>1. Leaders = {} \/ Leaders = {h}
  BY Zenon DEF Leaders, IsLeader
<1>2. Cardinality({}) = 0 /\ Cardinality({h}) = 1
  BY Zenon, FS_EmptySet, FS_Singleton
<1> QED
  BY <1>1, <1>2

\* When CalmRounds rounds have passed without a fault and without an election,
\* at most one machine believes it leads (tick, heartbeat, elect), for every
\* number of servers and of faults before: a leader whose renewal aborts reads
\* the row, and a live row that names another machine makes it a follower.
THEOREM ElectionCalm == ASSUME CalmAssumption PROVE Spec => []CalmUniqueLeader
<1>1. Init => CalmInv
  BY RoundsEnough, ElectionAssumption DEF Init, CalmInv, InRound, Phases
<1>2. IInv /\ CalmInv /\ [Next]_vars => CalmInv'
  BY Zenon, CalmStep
<1>3. CalmInv => CalmUniqueLeader
  <2> SUFFICES ASSUME CalmInv, years = MaxYears, calm = CalmRounds
               PROVE Cardinality(Leaders) <= 1
    BY Zenon DEF CalmUniqueLeader
  <2>1. CASE Vacant
    BY Zenon, <2>1, AtMostOne DEF Vacant
  <2>2. CASE Settled
    BY Zenon, <2>2, AtMostOne DEF Settled
  <2> QED
    BY Zenon, <2>1, <2>2 DEF CalmInv, Phases
<1> QED
  BY <1>1, <1>2, <1>3, ElectionInvariant, PTL DEF Spec
=============================================================================
