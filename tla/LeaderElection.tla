--------------------------- MODULE LeaderElection ---------------------------
(***************************************************************************)
(* Leader election of the MySQL store (src/store/mysql/admin.go).          *)
(*                                                                         *)
(* Every server runs one leaderElectionStateMachine per election key.  The *)
(* machines share nothing but one row of the table leader_election:        *)
(* (leader, version, mtime).  A leader renews the row every TickTime       *)
(* seconds with a compare-and-swap on its version; a follower that finds   *)
(* the row older than LeaseTime tries to take it.                          *)
(*                                                                         *)
(* tick() makes up to four calls to the database.  Each is a step of its   *)
(* own here, since the ticks of other servers run between them.            *)
(***************************************************************************)
EXTENDS Integers, FiniteSets

CONSTANTS
    Node,          \* servers, each identified by its utils.LocalHost
    NoLeader,      \* the empty host name
    LeaseTime,     \* seconds a row is valid after its mtime
    TickTime,      \* seconds between two ticks of a state machine
    VersionSize,   \* number of values of the int64 version
    Minute,        \* seconds in a minute of the datetime column
    MaxFaults,     \* how many faults (errors, stalls, crashes) may happen
    MaxYears,      \* how many times the year may change
    CalmRounds     \* saturation of the ghost counter calm

ASSUME ElectionAssumption ==
    /\ NoLeader \notin Node
    /\ LeaseTime \in Nat \ {0} /\ TickTime \in Nat \ {0}
    /\ VersionSize \in Nat \ {0} /\ Minute \in Nat \ {0}
    /\ MaxFaults \in Nat /\ MaxYears \in Nat /\ CalmRounds \in Nat

VARIABLES
    running,           \* the process is up and its main loop is started
    pc,                \* the next database call of the tick in progress
    leaderFlag,        \* IsLeader()
    leader,            \* le.leader, the leader this machine last settled on
    announced,         \* the last LeaderChangeEvent it published
    version,           \* le.version
    curVersion,        \* the local curVersion of elect(), 0 outside it
    releaseSignal, releaseTickLimit,
    row,               \* [leader, version] of the row in leader_election
    age,               \* seconds since its mtime, up to LeaseTime + TickTime
    carry,             \* largest calendar field that changed since its mtime
    second,            \* seconds field of the database clock
    years,             \* how many more times the year may change
    due,               \* machines whose ticker has fired and not been served
    faults,            \* how many more faults may happen
    calm               \* ghost: full rounds since the last fault, the last
                       \* election and the last unexpired row called expired

machine == <<leaderFlag, leader, announced>>
signals == <<releaseSignal, releaseTickLimit>>
lease == <<row, age, carry>>
history == <<faults, calm>>
vars == <<running, pc, machine, version, curVersion, signals, lease,
          second, years, due, history>>

Host == Node \cup {NoLeader}
Version == 0..(VersionSize - 1)
MaxAge == LeaseTime + TickTime
ReleaseTicks == (LeaseTime \div TickTime) * 3

TypeOK ==
    /\ running \in [Node -> BOOLEAN]
    /\ pc \in [Node -> {"idle", "check", "version", "swap"}]
    /\ leaderFlag \in [Node -> BOOLEAN]
    /\ leader \in [Node -> Host]
    /\ announced \in [Node -> [Leader : BOOLEAN, LeaderHost : Host]]
    /\ version \in [Node -> Version] /\ curVersion \in [Node -> Version]
    /\ releaseSignal \in [Node -> BOOLEAN]
    /\ releaseTickLimit \in [Node -> 0..ReleaseTicks]
    /\ row \in [leader : Host, version : Version]
    /\ age \in 0..MaxAge /\ carry \in {"none", "minute", "year"}
    /\ second \in 0..(Minute - 1) /\ years \in 0..MaxYears
    /\ due \subseteq Node /\ faults \in 0..MaxFaults /\ calm \in 0..CalmRounds

-----------------------------------------------------------------------------
\* The row is created by the first StartLeaderElection (insert ignore), with
\* an empty leader; every main loop begins with changeToFollower("").
Init ==
    /\ running = [n \in Node |-> TRUE]
    /\ pc = [n \in Node |-> "idle"]
    /\ leaderFlag = [n \in Node |-> FALSE]
    /\ leader = [n \in Node |-> NoLeader]
    /\ announced = [n \in Node |-> [Leader |-> FALSE, LeaderHost |-> NoLeader]]
    /\ version = [n \in Node |-> 0] /\ curVersion = [n \in Node |-> 0]
    /\ releaseSignal = [n \in Node |-> FALSE]
    /\ releaseTickLimit = [n \in Node |-> 0]
    /\ row = [leader |-> NoLeader, version |-> 0]
    /\ age = 0 /\ carry = "none" /\ second = 0 /\ years = MaxYears
    /\ due = {} /\ faults = MaxFaults /\ calm = 0

\* Mutant of Succ: a version that outgrows its column.
SuccUnbounded(v) == v + 1

Succ(v) == (v + 1) % VersionSize

Undisturbed == UNCHANGED history
Disturbed == faults > 0 /\ faults' = faults - 1 /\ calm' = 0

ChangeTo(n, flag, host) ==
    /\ leaderFlag' = [leaderFlag EXCEPT ![n] = flag]
    /\ leader' = [leader EXCEPT ![n] = host]
    /\ announced' = [announced EXCEPT ![n] = [Leader |-> flag, LeaderHost |-> host]]

changeToLeader(n) == ChangeTo(n, TRUE, n)
\* Mutant of changeToFollower: the event is published before le.leader is set.
PublishBeforeSet(n, host) ==
    /\ leaderFlag' = [leaderFlag EXCEPT ![n] = FALSE]
    /\ leader' = [leader EXCEPT ![n] = host]
    /\ announced' = [announced EXCEPT ![n] = [Leader |-> FALSE, LeaderHost |-> leader[n]]]

changeToFollower(n, host) == ChangeTo(n, FALSE, host)

GoTo(n, step) == pc' = [pc EXCEPT ![n] = step] /\ UNCHANGED due
EndTick(n) == pc' = [pc EXCEPT ![n] = "idle"] /\ due' = due \ {n}

\* The update of CompareAndSwapVersion; ON UPDATE CURRENT_TIMESTAMP sets mtime.
WriteRow(n, new) ==
    row' = [leader |-> n, version |-> new] /\ age' = 0 /\ carry' = "none"

\* FROM_UNIXTIME(...) - mtime subtracts two datetimes as the decimal numbers
\* YYYYMMDDhhmmss: a change of the minute (or of the hour, day or month) adds at
\* least 40 to the seconds that have passed, and a change of the year makes the
\* difference larger than an int32, so that scanning it fails.
DiffTime == age + IF carry = "none" THEN 0 ELSE 100 - Minute
DiffOverflows == carry = "year"
MtimeExpired == DiffTime > LeaseTime

-----------------------------------------------------------------------------
\* The beginning of a tick, up to its first call to the database.
TickStarts(n) == running[n] /\ pc[n] = "idle" /\ n \in due

AbandonTick(n) ==
    /\ TickStarts(n)
    /\ releaseTickLimit[n] > 0
    /\ releaseTickLimit' = [releaseTickLimit EXCEPT ![n] = @ - 1]
    /\ EndTick(n)
    /\ UNCHANGED <<running, machine, version, curVersion, releaseSignal,
                   lease, second, years, history>>

ReleaseTick(n) ==
    /\ TickStarts(n) /\ releaseTickLimit[n] = 0
    /\ leaderFlag[n] /\ releaseSignal[n]
    /\ releaseSignal' = [releaseSignal EXCEPT ![n] = FALSE]
    /\ changeToFollower(n, NoLeader)
    /\ releaseTickLimit' = [releaseTickLimit EXCEPT ![n] = ReleaseTicks]
    /\ EndTick(n)
    /\ UNCHANGED <<running, version, curVersion, lease, second, years, history>>

\* Mutant of FollowerTick: the tick limit is not looked at.
FollowerTickUnlimited(n) ==
    /\ TickStarts(n) /\ ~leaderFlag[n]
    /\ releaseSignal' = [releaseSignal EXCEPT ![n] = FALSE]
    /\ GoTo(n, "check")
    /\ UNCHANGED <<running, machine, version, curVersion, releaseTickLimit,
                   lease, second, years, history>>

\* A follower has nothing to renew; a release signal it finds is dropped.
FollowerTick(n) ==
    /\ TickStarts(n) /\ releaseTickLimit[n] = 0 /\ ~leaderFlag[n]
    /\ releaseSignal' = [releaseSignal EXCEPT ![n] = FALSE]
    /\ GoTo(n, "check")
    /\ UNCHANGED <<running, machine, version, curVersion, releaseTickLimit,
                   lease, second, years, history>>

\* heartbeat(): the local version is advanced before the swap is tried, and
\* stays advanced when the swap fails.
Heartbeat(n) ==
    /\ TickStarts(n) /\ releaseTickLimit[n] = 0
    /\ leaderFlag[n] /\ ~releaseSignal[n]
    /\ version' = [version EXCEPT ![n] = Succ(@)]
    /\ UNCHANGED <<running, machine, curVersion, signals, second, years>>

HeartbeatOk(n) ==
    /\ Heartbeat(n) /\ row.version = version[n]
    /\ WriteRow(n, Succ(version[n]))
    /\ EndTick(n) /\ Undisturbed

\* Mutant of HeartbeatAbort: a swap that matched no row counts as a renewal.
HeartbeatAbortIgnored(n) ==
    /\ Heartbeat(n) /\ row.version # version[n]
    /\ EndTick(n) /\ UNCHANGED lease /\ Undisturbed

HeartbeatAbort(n) ==
    /\ Heartbeat(n) /\ row.version # version[n]
    /\ GoTo(n, "check") /\ UNCHANGED lease /\ Undisturbed

\* The database call fails, before or after the update has taken effect.
HeartbeatError(n) ==
    /\ Heartbeat(n)
    /\ \/ UNCHANGED lease
       \/ row.version = version[n] /\ WriteRow(n, Succ(version[n]))
    /\ GoTo(n, "check") /\ Disturbed

-----------------------------------------------------------------------------
\* checkLeaderDead() and what tick() does with its answer.
CheckLeaderDead(n) ==
    /\ running[n] /\ pc[n] = "check"
    /\ UNCHANGED <<running, version, curVersion, signals, lease, second, years>>

CheckError(n) ==
    /\ CheckLeaderDead(n)
    /\ IF DiffOverflows THEN Undisturbed ELSE Disturbed
    /\ EndTick(n) /\ UNCHANGED machine

\* Mutant of CheckAlive: a leader is not demoted by a row that names another.
CheckAliveKeepsLeader(n) ==
    /\ CheckLeaderDead(n) /\ ~DiffOverflows /\ ~MtimeExpired
    /\ CASE row.leader = n -> changeToLeader(n)
         [] row.leader \notin {n, leader[n]} /\ ~leaderFlag[n] ->
                changeToFollower(n, row.leader)
         [] OTHER -> UNCHANGED machine
    /\ EndTick(n) /\ Undisturbed

CheckAlive(n) ==
    /\ CheckLeaderDead(n) /\ ~DiffOverflows /\ ~MtimeExpired
    /\ CASE row.leader = n -> changeToLeader(n)
         [] row.leader \notin {n, leader[n]} -> changeToFollower(n, row.leader)
         [] OTHER -> UNCHANGED machine
    /\ EndTick(n) /\ Undisturbed

CheckDead(n) ==
    /\ CheckLeaderDead(n) /\ ~DiffOverflows /\ MtimeExpired
    /\ GoTo(n, "version") /\ UNCHANGED <<machine, faults>>
    /\ calm' = IF age > LeaseTime THEN calm ELSE 0

\* Mutant of GetVersion: the version is read and written back unchanged.
GetVersionNoStep(n) ==
    /\ running[n] /\ pc[n] = "version"
    /\ curVersion' = [curVersion EXCEPT ![n] = row.version]
    /\ version' = [version EXCEPT ![n] = row.version]
    /\ GoTo(n, "swap")
    /\ UNCHANGED <<running, machine, signals, lease, second, years, history>>

\* elect(): read the version, then swap it.
GetVersion(n) ==
    /\ running[n] /\ pc[n] = "version"
    /\ curVersion' = [curVersion EXCEPT ![n] = row.version]
    /\ version' = [version EXCEPT ![n] = Succ(row.version)]
    /\ GoTo(n, "swap")
    /\ UNCHANGED <<running, machine, signals, lease, second, years, history>>

GetVersionError(n) ==
    /\ running[n] /\ pc[n] = "version"
    /\ EndTick(n) /\ Disturbed
    /\ UNCHANGED <<running, machine, version, curVersion, signals, lease,
                   second, years>>

Swap(n) ==
    /\ running[n] /\ pc[n] = "swap" /\ EndTick(n)
    /\ curVersion' = [curVersion EXCEPT ![n] = 0]
    /\ UNCHANGED <<running, version, signals, second, years>>

ElectOk(n) ==
    /\ Swap(n) /\ row.version = curVersion[n]
    /\ WriteRow(n, version[n]) /\ changeToLeader(n)
    /\ calm' = 0 /\ UNCHANGED faults

ElectAbort(n) ==
    /\ Swap(n) /\ row.version # curVersion[n]
    /\ UNCHANGED <<machine, lease>> /\ Undisturbed

ElectError(n) ==
    /\ Swap(n)
    /\ \/ UNCHANGED lease
       \/ row.version = curVersion[n] /\ WriteRow(n, version[n])
    /\ UNCHANGED machine /\ Disturbed

-----------------------------------------------------------------------------
\* The administrator's request; it is the holder's next tick that obeys.
ReleaseLeaderElection(n) ==
    /\ running[n] /\ ~releaseSignal[n] /\ Disturbed
    /\ releaseSignal' = [releaseSignal EXCEPT ![n] = TRUE]
    /\ UNCHANGED <<running, pc, machine, version, curVersion, releaseTickLimit,
                   lease, second, years, due>>

\* The values StartLeaderElection gives a new state machine.
FreshMachine(n) ==
    /\ changeToFollower(n, NoLeader)
    /\ version' = [version EXCEPT ![n] = 0]
    /\ curVersion' = [curVersion EXCEPT ![n] = 0]
    /\ releaseSignal' = [releaseSignal EXCEPT ![n] = FALSE]
    /\ releaseTickLimit' = [releaseTickLimit EXCEPT ![n] = 0]

\* The process dies at any point of a tick, and its state machine with it.
Crash(n) ==
    /\ running[n] /\ Disturbed
    /\ running' = [running EXCEPT ![n] = FALSE]
    /\ FreshMachine(n) /\ EndTick(n)
    /\ UNCHANGED <<lease, second, years>>

\* The process starts again; the row of its previous life is still there, and
\* insert ignore leaves it as it is.
StartLeaderElection(n) ==
    /\ ~running[n]
    /\ running' = [running EXCEPT ![n] = TRUE]
    /\ FreshMachine(n)
    /\ UNCHANGED <<pc, lease, second, years, due, history>>

\* A machine is late: a pause, or a database call that outlasts the period.
Stall(n) ==
    /\ n \in due /\ Disturbed /\ due' = due \ {n}
    /\ UNCHANGED <<running, pc, machine, version, curVersion, signals, lease,
                   second, years>>

\* TickTime seconds pass; the ticker of every running machine fires.
Clock ==
    /\ due = {} /\ due' = {n \in Node : running[n]}
    /\ age' = IF age + TickTime > MaxAge THEN MaxAge ELSE age + TickTime
    /\ second' = (second + TickTime) % Minute
    /\ \/ /\ carry' = IF carry = "none" /\ second' < second THEN "minute" ELSE carry
          /\ UNCHANGED years
       \/ /\ second' < second /\ years > 0 /\ years' = years - 1
          /\ carry' = "year"
    /\ calm' = IF calm < CalmRounds THEN calm + 1 ELSE calm
    /\ UNCHANGED <<running, pc, machine, version, curVersion, signals, row, faults>>

Tick(n) ==
    \/ AbandonTick(n) \/ ReleaseTick(n) \/ FollowerTick(n)
    \/ HeartbeatOk(n) \/ HeartbeatAbort(n)
    \/ (DiffOverflows /\ CheckError(n)) \/ CheckAlive(n) \/ CheckDead(n)
    \/ GetVersion(n) \/ ElectOk(n) \/ ElectAbort(n)

Fault(n) ==
    \/ HeartbeatError(n) \/ (~DiffOverflows /\ CheckError(n))
    \/ GetVersionError(n) \/ ElectError(n)
    \/ ReleaseLeaderElection(n) \/ Crash(n) \/ Stall(n)

Next == Clock \/ \E n \in Node : Tick(n) \/ Fault(n) \/ StartLeaderElection(n)

\* A ticker keeps firing, a tick keeps going, and a dead server is restarted.
Fairness ==
    /\ WF_vars(Clock)
    /\ \A n \in Node : WF_vars(Tick(n)) /\ WF_vars(StartLeaderElection(n))

Spec == Init /\ [][Next]_vars /\ Fairness

-----------------------------------------------------------------------------
IsLeader(n) == leaderFlag[n]
Leaders == {n \in Node : IsLeader(n)}

\* A machine is a leader exactly when it has settled on its own host, and what
\* it last told the event hub says the same: the two branches after a live row
\* (changeToLeader, then changeToFollower(leader)) never leave a mixed state.
ViewConsistent ==
    \A n \in Node :
        /\ leaderFlag[n] <=> leader[n] = n
        /\ announced[n] = [Leader |-> leaderFlag[n], LeaderHost |-> leader[n]]

\* A machine that gave up leadership on request stays out of the election for
\* ReleaseTicks of its own ticks: it neither leads nor is inside an election.
ReleaseAbstains ==
    \A n \in Node : running[n] /\ releaseTickLimit[n] > 0 =>
                        ~leaderFlag[n] /\ pc[n] = "idle"

\* Of one machine: its flag, its leader, what it announced and what it released
\* never contradict each other.
MachineSound == ViewConsistent /\ ReleaseAbstains

\* Two machines may lead at once (a lost lease, a version that a failed
\* heartbeat advanced, a race between check and swap), but not for long: when
\* CalmRounds full rounds of ticks have passed since the last fault and the last
\* successful elect(), at most one machine believes it is the leader.  Until the
\* year ends, that is: then no machine learns what the row says.
CalmUniqueLeader ==
    years = MaxYears /\ calm = CalmRounds => Cardinality(Leaders) <= 1

\* Whenever tick() got an answer about the row that it acts on (a renewed row, a
\* live row, a row it won) the machine ends that tick as leader exactly when the
\* row names it.
TickAgreement ==
    [][\A n \in Node : HeartbeatOk(n) \/ CheckAlive(n) \/ ElectOk(n) =>
            (leaderFlag'[n] <=> row'.leader = n)]_vars

\* The version fences writers: whatever step changes the row, it is a step of a
\* node whose compare value was the row's version, and it moves the version by
\* exactly one, so no two writes of the row carry the same version in a row.
RowFenced ==
    [][row' # row =>
        /\ row'.version = Succ(row.version)
        /\ row'.leader \in Node
        /\ age' = 0 /\ carry' = "none"]_vars

\* The row decides: its writers are fenced by its version, and a machine that
\* got an answer about the row believes what the row says (tick, elect and
\* CompareAndSwapVersion).
RowDecides == RowFenced /\ TickAgreement

\* However the faults fall, the cluster always comes back to exactly one leader,
\* as long as the year does not end (LeaderElected says what happens then).
OneLeaderAgain == [](years = MaxYears) => []<>(Cardinality(Leaders) = 1)

\* The election always comes up with a leader again: what its users are promised
\* ("LeaderHealthChecker first elects a Leader with the LeaderElection of the
\* store"), whatever the calendar does meanwhile.
LeaderElected == []<>(Leaders # {})

\* What the log lines of tick() say of a machine whose renewal and whose check
\* both failed: "change to follower state", "stay follower state".
ErrorMeansFollower ==
    [][\A n \in Node : CheckError(n) => ~leaderFlag'[n]]_vars

\* CheckMtimeExpired reports a row as expired only when LeaseTime has passed
\* since its mtime, as checkLeaderValid of the same file computes it.
ExpiredMeansExpired ==
    [][\A n \in Node : CheckDead(n) => age > LeaseTime]_vars
=============================================================================
