------------------------------- MODULE Upgrade -------------------------------
(***************************************************************************)
(* How the version of a running etcd cluster is changed (pkg/controller:   *)
(* run(), upgrade.go, restore.go, commands.go).  Between versions that     *)
(* allow it, upgradeInPlace restarts one member per cycle.  Otherwise      *)
(* stopForUpgrade shuts clients out (quarantine), makes a backup, leaves a *)
(* command to restore it in the control store and stops etcd; later cycles *)
(* find the command, create a new cluster and restore the backup into it.  *)
(*                                                                         *)
(* Every call to a host and to the control store is a step.  Faults,       *)
(* crashes of the leader, writes by clients and changes of the spec happen *)
(* in between.  Hosts check the leader's token, the control store does     *)
(* not.  A host is here what a leader can tell of it; its own steps are in *)
(* EtcdHost and Formation, and those of adding a member in Resize.         *)
(***************************************************************************)
EXTENDS Naturals, Sequences, FiniteSets

CONSTANTS Hosts,      \* as many as the cluster has members
          Leaders,    \* the controllers that may lead
          Clusters,   \* the tokens of clusters
          Versions,   \* the minor versions of etcd 3
          Failures,   \* the kinds of fault that may happen
          MaxFaults,  \* bound: how many of them happen
          MaxSpecs,   \* bound: how often the operator changes the spec
          MaxWrites,  \* bound: how often clients write
          None        \* no value

(* What a host has in its state, when it has a cluster. *)
States == [cluster : Clusters, version : Versions, quarantined : BOOLEAN]

ASSUME UpgradeAssumption ==
    /\ IsFiniteSet(Hosts)
    /\ Versions \subseteq Nat
    /\ MaxFaults \in Nat /\ MaxSpecs \in Nat /\ MaxWrites \in Nat
    /\ None \notin Hosts \cup Leaders \cup Clusters \cup States

VARIABLES
    state,     \* state[h]: the state of host h; None without a cluster
    running,   \* the hosts whose etcd runs
    nodes,     \* nodes[c]: the members of etcd cluster c
    data,      \* data[c]: how many of the writes of clients c holds
    written,   \* history: how many writes clients have made
    spec,      \* control store: the version in the cluster spec
    commands,  \* control store: the restore commands
    leader,    \* the controller whose token the hosts accept
    cache,     \* cache[p]: what p has read from the control store, if it has
    rested,    \* rested[p]: p waits for CycleInterval before its next cycle
    pc,        \* pc[p]: the call that p makes next
    todo,      \* todo[p]: the hosts that the call is yet to be made to
    job,       \* job[p]: what p keeps in local variables
    faults,    \* the number of faults so far
    specs      \* the number of changes of the spec so far

etcdVars == <<state, running, nodes, data, written>>
storeVars == <<spec, commands>>
loopVars == <<rested, pc, todo, job>>
vars == <<etcdVars, storeVars, leader, cache, loopVars, faults, specs>>

Calls == {"idle", "backup", "quarantine", "backup_again", "command", "see", "halt",
          "roll_backup", "roll", "lift", "requarantine", "add",
          "stop", "create", "initial", "spec", "restore", "spec_again", "remove"}
Commands == [backup : 0..MaxWrites, version : Versions]
Jobs == [cluster : Clusters \cup {None}, version : Versions \cup {None},
         backup : 0..MaxWrites \cup {None}, able : SUBSET Hosts, peers : SUBSET Hosts,
         shut : SUBSET Hosts]
NoJob == [cluster |-> None, version |-> None, backup |-> None, able |-> {}, peers |-> {},
          shut |-> {}]
Caches == [spec : Versions, commands : Seq(Commands)]

UpgradeTypeOK ==
    /\ state \in [Hosts -> States \cup {None}]
    /\ running \subseteq {h \in Hosts : state[h] # None}
    /\ nodes \in [Clusters -> SUBSET Hosts]
    /\ data \in [Clusters -> 0..MaxWrites]
    /\ written \in 0..MaxWrites
    /\ spec \in Versions
    /\ commands \in Seq(Commands)
    /\ leader \in Leaders
    /\ cache \in [Leaders -> Caches \cup {None}]
    /\ pc \in [Leaders -> Calls]
    /\ todo \in [Leaders -> SUBSET Hosts]
    /\ job \in [Leaders -> Jobs]
    /\ rested \in [Leaders -> BOOLEAN]
    /\ faults \in 0..MaxFaults
    /\ specs \in 0..MaxSpecs

(* A healthy cluster of the version that is asked for, of all hosts or     *)
(* created when one of them was not there yet.                             *)
Init ==
    /\ spec \in Versions
    /\ \E c \in Clusters, absent \in {{}, {CHOOSE h \in Hosts : TRUE}} :
        /\ c = CHOOSE d \in Clusters : TRUE
        /\ running = Hosts \ absent
        /\ state = [h \in Hosts |-> IF h \in absent THEN None
                                    ELSE [cluster |-> c, version |-> spec, quarantined |-> FALSE]]
        /\ nodes = [d \in Clusters |-> IF d = c THEN Hosts \ absent ELSE {}]
    /\ data = [c \in Clusters |-> 0]
    /\ written = 0
    /\ commands = <<>>
    /\ leader \in Leaders
    /\ cache = [p \in Leaders |-> None]
    /\ rested = [p \in Leaders |-> FALSE]
    /\ pc = [p \in Leaders |-> "idle"]
    /\ todo = [p \in Leaders |-> {}]
    /\ job = [p \in Leaders |-> NoJob]
    /\ faults = 0
    /\ specs = 0

Fault(kind) ==
    /\ kind \in Failures
    /\ faults < MaxFaults
    /\ faults' = faults + 1
NoFault == UNCHANGED faults

(* quorumSize *)
QuorumSize(n) == (n \div 2) + 1
MemberCount == Cardinality(Hosts)
Enough(S) == Cardinality(S) >= QuorumSize(MemberCount)

In(h, c) == state[h] # None /\ state[h].cluster = c
Serving(c) == {h \in nodes[c] \cap running : In(h, c)}
HasQuorum(c) == nodes[c] # {} /\ Cardinality(Serving(c)) >= QuorumSize(Cardinality(nodes[c]))

(* Clients can write to c. *)
Open(c) == HasQuorum(c) /\ \E h \in Serving(c) : ~state[h].quarantined

(* run() of p returns, and p sleeps unless it has made progress. *)
Return(p, progress) ==
    /\ pc' = [pc EXCEPT ![p] = "idle"]
    /\ todo' = [todo EXCEPT ![p] = {}]
    /\ job' = [job EXCEPT ![p] = NoJob]
    /\ rested' = [rested EXCEPT ![p] = ~progress]

(* p goes on to a call that it makes to each of the hosts in S. *)
Enter(p, call, S) ==
    /\ pc' = [pc EXCEPT ![p] = call]
    /\ todo' = [todo EXCEPT ![p] = S]
    /\ UNCHANGED rested

-----------------------------------------------------------------------------
(* refreshControlStore *)

Store == [spec |-> spec, commands |-> commands]

(* When p becomes leader, and after removeCommand, p reads the control     *)
(* store; the time to live of what it has read is years.                   *)
Refresh(p) ==
    /\ pc[p] = "idle"
    /\ leader = p
    /\ cache[p] = None
    /\ cache' = [cache EXCEPT ![p] = Store]
    /\ UNCHANGED <<etcdVars, storeVars, leader, loopVars, faults, specs>>

-----------------------------------------------------------------------------
(* What run() decides, with the peers in P *)

(* The members and the healthy members, as updateClusterState finds them. *)
Seen == {c \in Clusters : HasQuorum(c)}
SeenMembers == UNION {nodes[c] : c \in Seen}
SeenHealthy == UNION {Serving(c) : c \in Seen}

Configured(P) == {h \in P : state[h] # None}
Quarantined(P) == {h \in Configured(P) : state[h].quarantined}
Mismatched(P, v) == {h \in Configured(P) : state[h].version # v}

(* Mutant: the difference of minor versions is not bounded. *)
UpgradeInPlaceToLater(from, to) == to >= from

(* UpgradeInPlaceSupported: the next minor version, or the same. *)
UpgradeInPlaceSupported(from, to) == to >= from /\ to - from <= 1
InPlace(P, v) == \A h \in Mismatched(P, v) : UpgradeInPlaceSupported(state[h].version, v)

MayLift(P, v) ==
    /\ Quarantined(P) # {}
    /\ Enough(SeenHealthy)
    /\ Mismatched(P, v) = {}

(* Some, but not all, are quarantined. *)
Uneven(P) == Quarantined(P) # {} /\ Quarantined(P) # Configured(P)

Idle(P) == P \ Configured(P)

(* Mutant: a majority of the members is good enough. *)
ReadyWithQuorum(P) ==
    /\ SeenMembers \subseteq P
    /\ Cardinality(SeenMembers) = MemberCount

(* prepareForUpgrade *)
ReadyForUpgrade(P) ==
    /\ SeenMembers \subseteq P
    /\ SeenHealthy = SeenMembers
    /\ Cardinality(SeenMembers) = MemberCount

(* What the peers have told is kept for the calls of the cycle. *)
Keep(P, c, v, b) ==
    [cluster |-> c, version |-> v, backup |-> b, able |-> SeenHealthy \cap P, peers |-> P,
     shut |-> Quarantined(P)]
SeenCluster == CHOOSE c \in Seen : TRUE

(* createNewCluster: enough peers for the cluster that is wanted, or for   *)
(* one with the same quorum.  That it declines is ignored.                 *)
Sufficient(P) ==
    Cardinality(P) >= MemberCount \/ QuorumSize(Cardinality(P)) = QuorumSize(MemberCount)

(* A cycle goes on with a call: the name of the call, the hosts that it is *)
(* made to and what is kept for later.                                     *)
Plan(P, v, cmds) ==
    IF cmds # <<>> THEN
        IF ~Enough(P) THEN None
        ELSE [call |-> IF Sufficient(P) THEN "stop" ELSE "restore", hosts |-> Configured(P),
              job |-> Keep(P, None, Head(cmds).version, Head(cmds).backup)]
    ELSE IF MayLift(P, v) THEN
        IF Enough(P) THEN [call |-> "lift", hosts |-> SeenMembers \cap P, job |-> NoJob] ELSE None
    ELSE IF Uneven(P) THEN
        IF SeenMembers \cap P # {}
        THEN [call |-> "requarantine", hosts |-> SeenMembers \cap P, job |-> NoJob] ELSE None
    ELSE IF Seen = {} THEN None
    ELSE IF Cardinality(SeenMembers) < MemberCount THEN
        IF Idle(P) # {} THEN [call |-> "add", hosts |-> Idle(P), job |-> Keep(P, SeenCluster, None, None)]
        ELSE None
    ELSE IF Mismatched(P, v) # {} /\ Enough(P) /\ ReadyForUpgrade(P) THEN
        [call |-> IF InPlace(P, v) THEN "roll_backup" ELSE "backup", hosts |-> Mismatched(P, v),
         job |-> Keep(P, SeenCluster, v, None)]
    ELSE None

(* Etcd has had the time to start if p has slept, unless it is slow; a     *)
(* host may be away from the gossip.                                       *)
BeginCycle(p, P) ==
    LET v == cache[p].spec
        plan == Plan(P, v, cache[p].commands)
        started == rested[p] => running = Configured(Hosts)
    IN  /\ pc[p] = "idle"
        /\ leader = p
        /\ cache[p] # None
        /\ \/ P = Hosts /\ started /\ NoFault
           \/ P = Hosts /\ ~started /\ Fault("slow")
           \/ P # Hosts /\ Cardinality(P) = MemberCount - 1 /\ Fault("away")
        /\ \/ /\ plan # None
              /\ IF plan.call = "stop" /\ plan.hosts = {}
                 THEN Enter(p, "create", P) ELSE Enter(p, plan.call, plan.hosts)
              /\ job' = [job EXCEPT ![p] = plan.job]
              /\ UNCHANGED cache
           \/ /\ plan = None
              /\ Return(p, FALSE)
              /\ cache' = IF Seen = {} /\ cache[p].commands = <<>> /\ ~Uneven(P)
                          THEN [cache EXCEPT ![p] = Store] ELSE cache
        /\ UNCHANGED <<etcdVars, storeVars, leader, specs>>

-----------------------------------------------------------------------------
(* Calls to hosts *)

HostCalls == {"backup", "quarantine", "backup_again", "halt", "roll_backup", "roll", "lift",
              "requarantine", "add", "stop", "create", "initial", "restore"}

(* The call does not get through, the token is not the leader's, or        *)
(* Reconfigure or StopEtcd finds no cluster on the host.                   *)
CallFails(p) ==
    /\ pc[p] \in HostCalls
    /\ \/ leader # p /\ NoFault
       \/ leader = p /\ Fault("call")
       \/ /\ pc[p] \in {"quarantine", "requarantine", "lift", "halt", "stop", "roll"}
          /\ leader = p
          /\ \E h \in todo[p] : state[h] = None
          /\ NoFault
    /\ Return(p, FALSE)
    /\ UNCHANGED <<etcdVars, storeVars, leader, cache, specs>>

(* What follows the calls to all hosts of a kind. *)
Onward(p) ==
    \/ pc[p] = "quarantine" /\ Enter(p, "backup_again", {}) /\ UNCHANGED job
    \/ pc[p] = "stop" /\ Enter(p, "create", {}) /\ UNCHANGED job
    \/ pc[p] = "initial" /\ Enter(p, "spec", {}) /\ UNCHANGED job
    \/ pc[p] \in {"halt", "lift", "requarantine"} /\ Return(p, TRUE)

(* h has carried out the call, and p learns of it or not. *)
Answered(p, h) ==
    \/ /\ NoFault
       /\ IF todo[p] = {h} THEN Onward(p) ELSE Enter(p, pc[p], todo[p] \ {h}) /\ UNCHANGED job
    \/ Fault("lost") /\ Return(p, FALSE)

Calling(p, h, call) == pc[p] = call /\ leader = p /\ h \in todo[p]

(* doClusterBackup: a member that was found healthy makes the backup. *)
Backup(p, call) ==
    /\ pc[p] = call
    /\ leader = p
    /\ \E h \in job[p].able \cap running :
        job' = [job EXCEPT ![p].backup = data[state[h].cluster]]
    /\ CASE call = "backup" -> Enter(p, "quarantine", nodes[job[p].cluster])
         [] call = "backup_again" -> Enter(p, "command", {})
         [] call = "roll_backup" -> Enter(p, "roll", todo[p])
    /\ UNCHANGED <<etcdVars, storeVars, leader, cache, faults, specs>>

(* No member makes the backup: the client of etcd waits for one that is    *)
(* being started, unless that takes too long.                              *)
BackupFails(p) ==
    /\ pc[p] \in {"backup", "backup_again", "roll_backup"}
    /\ job[p].able \cap running = {}
    /\ IF job[p].able \cap Configured(Hosts) = {} THEN NoFault ELSE Fault("slow")
    /\ Return(p, FALSE)
    /\ UNCHANGED <<etcdVars, storeVars, leader, cache, specs>>

(* updateQuarantine: Reconfigure restarts etcd on h. *)
SetQuarantine(p, h, call, quarantined) ==
    /\ Calling(p, h, call)
    /\ state[h] # None
    /\ state' = [state EXCEPT ![h].quarantined = quarantined]
    /\ running' = running \ {h}
    /\ Answered(p, h)
    /\ UNCHANGED <<nodes, data, written, storeVars, leader, cache, specs>>

(* StopEtcd, by stopForUpgrade and by createNewCluster. *)
StopEtcd(p, h, call) ==
    /\ Calling(p, h, call)
    /\ state[h] # None
    /\ state' = [state EXCEPT ![h] = None]
    /\ running' = running \ {h}
    /\ Answered(p, h)
    /\ UNCHANGED <<nodes, data, written, storeVars, leader, cache, specs>>

(* upgradeInPlace: one member that was not of the version restarts with    *)
(* it, and with the quarantine that it was found with.                     *)
Roll(p, h) ==
    /\ Calling(p, h, "roll")
    /\ state[h] # None
    /\ state' = [state EXCEPT ![h] = [cluster |-> state[h].cluster, version |-> job[p].version,
                                      quarantined |-> h \in job[p].shut]]
    /\ running' = running \ {h}
    /\ \/ NoFault /\ Return(p, TRUE)
       \/ Fault("lost") /\ Return(p, FALSE)
    /\ UNCHANGED <<nodes, data, written, storeVars, leader, cache, specs>>

(* addNodeToCluster: the version is that of whichever configured peer      *)
(* comes last, in the order of a map; the new member is not quarantined.   *)
(* Without such a peer it gives up, and without a quorum etcd does not add *)
(* a member.                                                               *)
AddNode(p, h) ==
    /\ Calling(p, h, "add")
    /\ LET c == job[p].cluster
           known == Configured(job[p].peers)
       IN  \E g \in IF HasQuorum(c) /\ known # {} THEN known ELSE {None} :
             /\ state' = IF g = None THEN state
                         ELSE [state EXCEPT ![h] = [state[g] EXCEPT !.cluster = c, !.quarantined = FALSE]]
             /\ nodes' = IF g = None THEN nodes ELSE [nodes EXCEPT ![c] = @ \cup {h}]
             /\ Return(p, g # None)
    /\ UNCHANGED <<running, data, written, storeVars, leader, cache, faults, specs>>

(* randomToken, the broadcast and PREPARE of createNewCluster.  A token    *)
(* that no host holds any more can stand for a new one; Clusters has one   *)
(* left.                                                                   *)
Fresh(c) == \A h \in Hosts : ~In(h, c)
BeginCreate(p) ==
    /\ pc[p] = "create"
    /\ leader = p
    /\ \E c \in Clusters : Fresh(c)
    /\ LET c == CHOOSE d \in Clusters : Fresh(d)
           P == job[p].peers
       IN  /\ job' = [job EXCEPT ![p].cluster = c]
           /\ nodes' = [d \in Clusters |-> IF d = c THEN P ELSE IF Fresh(d) THEN {} ELSE nodes[d]]
           /\ data' = [d \in Clusters |-> IF Fresh(d) THEN 0 ELSE data[d]]
           /\ Enter(p, "initial", P)
    /\ UNCHANGED <<state, running, written, storeVars, leader, cache, faults, specs>>

(* Mutant: the new cluster is open from the start. *)
JoinInitialOpen(p, h) ==
    /\ Calling(p, h, "initial")
    /\ state' = [state EXCEPT ![h] = [cluster |-> job[p].cluster, version |-> job[p].version,
                                      quarantined |-> FALSE]]
    /\ Answered(p, h)
    /\ UNCHANGED <<running, nodes, data, written, storeVars, leader, cache, specs>>

(* INITIAL_CLUSTER *)
JoinInitial(p, h) ==
    /\ Calling(p, h, "initial")
    /\ state' = [state EXCEPT ![h] = [cluster |-> job[p].cluster, version |-> job[p].version,
                                      quarantined |-> TRUE]]
    /\ Answered(p, h)
    /\ UNCHANGED <<running, nodes, data, written, storeVars, leader, cache, specs>>

(* restoreBackupAndLiftQuarantine: DoRestore on a host whose member was    *)
(* healthy before the new cluster was created.  The backup is read by an   *)
(* etcd of its own, which takes longer than the new cluster to start.      *)
DoRestore(p, h) ==
    /\ pc[p] = "restore"
    /\ leader = p
    /\ h \in job[p].able
    /\ state[h] # None
    /\ LET c == state[h].cluster
       IN  /\ HasQuorum(c)
           /\ data' = [data EXCEPT ![c] = IF @ > job[p].backup THEN @ ELSE job[p].backup]
    /\ \/ NoFault /\ Enter(p, "spec_again", {}) /\ UNCHANGED job
       \/ Fault("lost") /\ Return(p, FALSE)
    /\ UNCHANGED <<state, running, nodes, written, storeVars, leader, cache, specs>>

(* "unable to find peer on which to run restore operation" *)
NoPeerToRestore(p) ==
    /\ pc[p] = "restore"
    /\ job[p].able = {}
    /\ Return(p, FALSE)
    /\ UNCHANGED <<etcdVars, storeVars, leader, cache, faults, specs>>

-----------------------------------------------------------------------------
(* Calls to the control store, where a token is not checked.  One may fail *)
(* ("store"), or fail after it has had its effect ("unknown").             *)

(* AddCommand, by stopForUpgrade *)
AddCommand(p) ==
    LET cmd == [backup |-> job[p].backup, version |-> job[p].version]
    IN  /\ pc[p] = "command"
        /\ \/ commands' = Append(commands, cmd) /\ NoFault /\ Enter(p, "see", {}) /\ UNCHANGED job
           \/ commands' = Append(commands, cmd) /\ Fault("unknown") /\ Return(p, FALSE)
           \/ UNCHANGED commands /\ Fault("store") /\ Return(p, FALSE)
        /\ UNCHANGED <<etcdVars, spec, leader, cache, specs>>

(* stopForUpgrade waits until it sees a restore command. *)
SeeCommand(p) ==
    /\ pc[p] = "see"
    /\ commands # <<>>
    /\ cache' = [cache EXCEPT ![p] = Store]
    /\ Enter(p, "halt", nodes[job[p].cluster])
    /\ UNCHANGED <<etcdVars, storeVars, leader, job, faults, specs>>

(* SetExpectedClusterSpec, after the creation and after the restore *)
WriteSpec(p) ==
    /\ pc[p] \in {"spec", "spec_again"}
    /\ \/ /\ spec' = job[p].version
          /\ NoFault
          /\ Enter(p, IF pc[p] = "spec" THEN "restore" ELSE "remove", {})
          /\ UNCHANGED job
       \/ spec' = job[p].version /\ Fault("unknown") /\ Return(p, FALSE)
       \/ UNCHANGED spec /\ Fault("store") /\ Return(p, FALSE)
    /\ UNCHANGED <<etcdVars, commands, leader, cache, specs>>

(* removeCommand: what has been read of the control store is forgotten     *)
(* even after an error.                                                    *)
Without(cmds, i) == SubSeq(cmds, 1, i - 1) \o SubSeq(cmds, i + 1, Len(cmds))
Mine(p) == {i \in DOMAIN commands : /\ commands[i].backup = job[p].backup
                                    /\ commands[i].version = job[p].version}

(* Mutant: the cluster is not restored before the command is removed. *)
RemoveCommandFirst(p) ==
    /\ pc[p] \in {"restore", "remove"}
    /\ commands' = <<>>
    /\ cache' = [cache EXCEPT ![p] = None]
    /\ Return(p, TRUE)
    /\ UNCHANGED <<etcdVars, spec, leader, faults, specs>>

(* Mutant: what has been read is not forgotten. *)
RemoveCommandKeepCache(p) ==
    /\ pc[p] = "remove"
    /\ \/ \E i \in Mine(p) : commands' = Without(commands, i)
       \/ Mine(p) = {} /\ UNCHANGED commands
    /\ Return(p, TRUE)
    /\ UNCHANGED <<etcdVars, spec, leader, cache, faults, specs>>

RemoveCommand(p) ==
    /\ pc[p] = "remove"
    /\ \/ \E i \in Mine(p) : /\ commands' = Without(commands, i)
                             /\ \/ NoFault /\ Return(p, TRUE)
                                \/ Fault("unknown") /\ Return(p, FALSE)
       \/ /\ UNCHANGED commands
          /\ \/ Mine(p) = {} /\ NoFault
             \/ Mine(p) # {} /\ Fault("store")
          /\ Return(p, FALSE)
    /\ cache' = [cache EXCEPT ![p] = None]
    /\ UNCHANGED <<etcdVars, spec, leader, specs>>

-----------------------------------------------------------------------------
(* The hosts, the clients, the operator and the election *)

EtcdStarts(h) ==
    /\ state[h] # None
    /\ h \notin running
    /\ running' = running \cup {h}
    /\ UNCHANGED <<state, nodes, data, written, storeVars, leader, cache, loopVars, faults, specs>>

EtcdExits(h) ==
    /\ h \in running
    /\ Fault("exit")
    /\ running' = running \ {h}
    /\ UNCHANGED <<state, nodes, data, written, storeVars, leader, cache, loopVars, specs>>

ClientWrites(c) ==
    /\ Open(c)
    /\ written < MaxWrites
    /\ written' = written + 1
    /\ data' = [data EXCEPT ![c] = @ + 1]
    /\ UNCHANGED <<state, running, nodes, storeVars, leader, cache, loopVars, faults, specs>>

OperatorSetsSpec(v) ==
    /\ specs < MaxSpecs
    /\ v # spec
    /\ spec' = v
    /\ specs' = specs + 1
    /\ UNCHANGED <<etcdVars, commands, leader, cache, loopVars, faults>>

(* What p has read is too old (controlRefreshInterval). *)
CacheExpires(p) ==
    /\ pc[p] = "idle"
    /\ cache[p] \notin {None, Store}
    /\ cache' = [cache EXCEPT ![p] = None]
    /\ UNCHANGED <<etcdVars, storeVars, leader, loopVars, faults, specs>>

(* The hosts accept the token of p from now on, either because the leader  *)
(* has crashed and p has just been started, or because p has won an        *)
(* election.  In an election nobody loses what it knows: a controller that *)
(* has led before still has its token, and what it had read of the control *)
(* store, and the one that led until now goes on with what it is doing.    *)
TakeOver(p, kind) ==
    /\ Fault(kind)
    /\ leader' = p
    /\ IF kind = "crash"
       THEN /\ cache' = [cache EXCEPT ![p] = None, ![leader] = None]
            /\ Return(leader, FALSE)
       ELSE p # leader /\ UNCHANGED <<cache, loopVars>>
    /\ UNCHANGED <<etcdVars, storeVars, specs>>

-----------------------------------------------------------------------------

Control(p) ==
    \/ Refresh(p)
    \/ \E P \in SUBSET Hosts : BeginCycle(p, P)
    \/ CallFails(p)
    \/ \E call \in {"backup", "backup_again", "roll_backup"} : Backup(p, call)
    \/ BackupFails(p)
    \/ \E h \in Hosts : SetQuarantine(p, h, "quarantine", TRUE)
    \/ \E h \in Hosts : SetQuarantine(p, h, "requarantine", TRUE)
    \/ \E h \in Hosts : SetQuarantine(p, h, "lift", FALSE)
    \/ \E h \in Hosts, call \in {"halt", "stop"} : StopEtcd(p, h, call)
    \/ \E h \in Hosts : Roll(p, h)
    \/ \E h \in Hosts : AddNode(p, h)
    \/ BeginCreate(p)
    \/ \E h \in Hosts : JoinInitial(p, h)
    \/ \E h \in Hosts : DoRestore(p, h)
    \/ NoPeerToRestore(p)
    \/ AddCommand(p)
    \/ SeeCommand(p)
    \/ WriteSpec(p)
    \/ RemoveCommand(p)

Next ==
    \/ \E p \in Leaders : Control(p)
    \/ \E h \in Hosts : EtcdStarts(h)
    \/ \E h \in Hosts : EtcdExits(h)
    \/ \E c \in Clusters : ClientWrites(c)
    \/ \E v \in Versions : OperatorSetsSpec(v)
    \/ \E p \in Leaders : CacheExpires(p)
    \/ \E p \in Leaders, kind \in {"crash", "election"} : TakeOver(p, kind)

Spec == Init /\ [][Next]_vars

(* The control loop runs for ever, and a host restarts its etcd. *)
FairSpec ==
    /\ Spec
    /\ \A p \in Leaders : WF_vars(Control(p))
    /\ \A h \in Hosts : WF_vars(EtcdStarts(h))

-----------------------------------------------------------------------------

(* "We quarantine first, so that we don't have to get down to a single     *)
(* node before it is safe to do a backup" (upgrade.go:75): a change of     *)
(* version costs no write.  Whenever clients can use a cluster, it holds   *)
(* everything that clients have ever written.                              *)
NoWriteLost == \A c \in Clusters : Open(c) => data[c] = written

(* From the moment at which stopForUpgrade leaves the command until        *)
(* removeCommand, whatever fails and however often the restore is begun    *)
(* anew, clients are shut out: what they wrote would be overwritten.       *)
CommandShutsClientsOut == commands # <<>> => \A c \in Clusters : ~Open(c)

(* Members of one cluster are never more than a minor version apart, even  *)
(* when the operator changes the spec in the middle of a rolling upgrade   *)
(* (UpgradeInPlaceSupported).                                              *)
VersionsClose ==
    \A c \in Clusters : \A g, h \in Serving(c) :
        state[g].version <= state[h].version + 1

(* "We run one node per cycle so we can be sure we are fault tolerant"     *)
(* (upgrade.go:191): while nothing fails, upgradeInPlace never takes etcd  *)
(* below a quorum, although it returns before the member is back.          *)
RollingKeepsQuorum ==
    [][\A p \in Leaders, c \in Clusters :
        (pc[p] = "roll" /\ job[p].cluster = c /\ state' # state /\ faults = 0) => HasQuorum(c)']_vars

(* A host with the state of a cluster that is no more: it was away when    *)
(* the cluster was created anew.                                           *)
LeftBehind == \E h \in Hosts : state[h] # None /\ Seen # {} /\ state[h].cluster \notin Seen

(* Once faults have ceased, the cluster is open and of the version that    *)
(* the leader has read, whatever step had failed, except that a host left  *)
(* behind may stand in the way.                                            *)
AsLeaderWants ==
    /\ cache[leader] # None
    /\ \A h \in Hosts : state[h] # None /\ state[h].version = cache[leader].spec
    /\ \E c \in Clusters : Open(c)
UpgradeCompletes == <>[]AsLeaderWants \/ []<>LeftBehind
=============================================================================
