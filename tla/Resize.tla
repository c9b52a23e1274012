------------------------------- MODULE Resize -------------------------------
(***************************************************************************)
(* How the leader keeps a running etcd cluster at the size that its spec   *)
(* asks for, and turns TLS on (pkg/controller: run() from the comparison   *)
(* of sizes on, addNodeToCluster, removeNodeFromCluster, doClusterBackup,  *)
(* reconcileTLS).                                                          *)
(*                                                                         *)
(* One cycle of the leader observes the cluster, decides on at most one    *)
(* change, and makes it with several calls.  Each call is a step, so hosts *)
(* and etcd members fail, clients write, the operator changes the spec and *)
(* the leader crashes between them.  A member of etcd is named after the   *)
(* host that it runs on.  Elections and quarantine are left to Leadership  *)
(* and Formation: there is one leader here, which every host that is up    *)
(* has acked, and the version of etcd does not change.                     *)
(***************************************************************************)
EXTENDS Naturals, FiniteSets

CONSTANTS Hosts,       \* the hosts that run etcd-manager
          Founders,    \* the sets of hosts that clusters are created with
          Plain,       \* the hosts whose own peer URL is http (--peer-urls, --etcd-insecure)
          Counts,      \* the MemberCounts that the operator asks for
          Failures,    \* the kinds of fault that may happen
          MaxFaults,   \* bound: how many of them happen
          MaxSpecs,    \* bound: how often the operator changes the spec
          None         \* no host

ASSUME ResizeAssumption ==
    /\ IsFiniteSet(Hosts)
    /\ Founders \subseteq SUBSET Hosts
    /\ Plain \subseteq Hosts
    /\ Counts \subseteq Nat \ {0}
    /\ \A F \in Founders : Cardinality(F) \in Counts
    /\ MaxFaults \in Nat
    /\ MaxSpecs \in Nat
    /\ None \notin Hosts

VARIABLES
    members,     \* the members of the etcd cluster, as raft has them
    named,       \* those that have started once and published their name
    alive,       \* the hosts whose etcd runs
    up,          \* the hosts that are up
    prepared,    \* the hosts that hold a preparation, in memory
    configured,  \* the hosts with a cluster in their state
    secure,      \* the hosts whose node has TlsEnabled
    https,       \* the members whose peer URL is https
    count,       \* clusterSpec.MemberCount
    pc,          \* the call that the leader makes next
    target,      \* the host that the call is about
    suspect,     \* the members that the leader has found unhealthy
    unsaved,     \* history: the age of the oldest write in no backup
    calm,        \* history: the cycle began with a true view, and no fault since
    faults,      \* the number of faults so far
    specs        \* the number of changes of the spec so far

etcdVars == <<members, named, alive, https>>
hostVars == <<up, prepared, configured, secure>>
loopVars == <<pc, target, suspect>>
vars == <<etcdVars, hostVars, count, loopVars, unsaved, calm, faults, specs>>

Calls == {"idle", "add_backup", "prepare", "add", "join", "remove_backup", "remove", "url", "tls"}
Ages == {"none", "recent", "old"}

ResizeTypeOK ==
    /\ members \subseteq Hosts
    /\ named \subseteq members
    /\ alive \subseteq up
    /\ up \subseteq Hosts
    /\ prepared \subseteq up
    /\ configured \subseteq Hosts
    /\ secure \subseteq configured
    /\ https \subseteq members
    /\ count \in Counts
    /\ pc \in Calls
    /\ target \in Hosts \cup {None}
    /\ suspect \subseteq Hosts
    /\ unsaved \in Ages
    /\ calm \in BOOLEAN
    /\ faults \in 0..MaxFaults
    /\ specs \in 0..MaxSpecs

(* A cluster of the size that is asked for runs, with TLS or, started      *)
(* before TLS was turned on, without.                                      *)
Init ==
    /\ members \in Founders
    /\ count = Cardinality(members)
    /\ named = members
    /\ alive = members
    /\ up = Hosts
    /\ prepared = {}
    /\ configured = members
    /\ secure \in {{}, members}
    /\ https = secure
    /\ pc = "idle"
    /\ target = None
    /\ suspect = {}
    /\ unsaved = "none"
    /\ calm = TRUE
    /\ faults = 0
    /\ specs = 0

Fault(kind) ==
    /\ kind \in Failures
    /\ faults < MaxFaults
    /\ faults' = faults + 1
    /\ calm' = FALSE
NoFault == UNCHANGED <<faults, calm>>

(* quorumSize *)
QuorumSize(n) == (n \div 2) + 1

(* etcd commits: a majority of its members run. *)
HasQuorum == Cardinality(members \cap alive) >= QuorumSize(Cardinality(members))

(* run() returns. *)
Return == pc' = "idle" /\ target' = None

-----------------------------------------------------------------------------
(* updateClusterState, and what run() decides *)

(* The members that answer ListMembers.  One that has published no name    *)
(* has no client URLs.                                                     *)
Healthy == IF HasQuorum THEN named \cap alive ELSE {}

(* idlePeers *)
IdlePeers == up \ configured

(* configuredMembers: the peers with a cluster in their state, whether or  *)
(* not they are members of it.                                             *)
ConfiguredPeers == up \cap configured

(* ackedPeerCount *)
Acked(n) == Cardinality(up) >= QuorumSize(n)

(* Mutant: off by one. *)
JoinersAboveQuorum(H) ==
    IF /\ Acked(Cardinality(members))
       /\ Cardinality(H) > QuorumSize(Cardinality(members))
    THEN IdlePeers ELSE {}

(* addNodeToCluster: the idle peers that may join, when the members in H   *)
(* are healthy.                                                            *)
Joiners(H) ==
    IF /\ Acked(Cardinality(members))
       /\ Cardinality(H) >= QuorumSize(Cardinality(members))
    THEN IdlePeers ELSE {}

(* Mutant: "TODO: Sufficient to rely on map randomization?" *)
VictimsAtRandom(H) == IF Acked(Cardinality(ConfiguredPeers)) THEN members ELSE {}

(* removeNodeFromCluster: an unhealthy member goes first. *)
Victims(H) ==
    IF Acked(Cardinality(ConfiguredPeers))
    THEN IF H # members THEN members \ H ELSE members
    ELSE {}

(* run() removes unhealthy members. *)
Repairs(H) ==
    /\ H # members
    /\ IdlePeers # {}
    /\ Cardinality(members) > 2
    /\ Cardinality(members) > count
    /\ Acked(count)

(* reconcileTLS: the peers whose URL is to be changed in etcd, and those   *)
(* that are to be told to use TLS.                                         *)
NeedURL == (ConfiguredPeers \cap named) \ https

(* Mutant: TLS is turned on whatever the URL is. *)
NeedTLSAnyURL == (ConfiguredPeers \cap named) \ secure

NeedTLS == (ConfiguredPeers \cap named \cap https) \ secure

(* What the leader may set out to do when the members in H are healthy: a  *)
(* call to begin with and the host that it is about.  A member is removed  *)
(* for being unhealthy only when it has been so since an earlier cycle.    *)
Plans(H) ==
    IF Cardinality(members) < count THEN {"add_backup"} \X Joiners(H)
    ELSE IF Cardinality(ConfiguredPeers) > count THEN {"remove_backup"} \X Victims(H)
    ELSE IF Repairs(H) THEN {"remove_backup"} \X (suspect \ H)
    ELSE ({"url"} \X NeedURL) \cup ({"tls"} \X NeedTLS)

(* A cycle begins: the leader takes note of who is healthy, backs up the   *)
(* cluster if the interval has passed (maybeBackup), and decides.  A       *)
(* member may be too slow to be found healthy.                             *)
BeginCycle(H) ==
    /\ pc = "idle"
    /\ H \subseteq Healthy
    /\ H # {}
    /\ \/ H = Healthy /\ calm' = (H = members \cap alive) /\ UNCHANGED faults
       \/ H # Healthy /\ Fault("slow")
    /\ suspect' = members \ H
    /\ unsaved' \in {IF unsaved = "recent" THEN "old" ELSE unsaved, "none"}
    /\ \/ \E plan \in Plans(H) : pc' = plan[1] /\ target' = plan[2]
       \/ (Plans(H) = {} \/ Repairs(H)) /\ UNCHANGED <<pc, target>>
    /\ UNCHANGED <<etcdVars, hostVars, count, specs>>

(* No member answers: "etcd has 0 members registered; must issue           *)
(* restore-backup command to proceed".                                     *)
SeesNoMembers ==
    /\ pc = "idle"
    /\ Healthy = {}
    /\ UNCHANGED vars

-----------------------------------------------------------------------------
(* addNodeToCluster *)

(* doClusterBackup: a member that this cycle has found healthy makes a     *)
(* backup for its peer.                                                    *)
Backup(next) ==
    \/ /\ (named \cap alive) \ suspect # {}
       /\ NoFault
       /\ unsaved' = "none"
       /\ pc' = next
       /\ UNCHANGED target
    \/ /\ \/ (named \cap alive) \ suspect = {} /\ NoFault
          \/ Fault("backup")
       /\ Return
       /\ UNCHANGED unsaved

AddBackup ==
    /\ pc = "add_backup"
    /\ Backup("prepare")
    /\ UNCHANGED <<etcdVars, hostVars, count, suspect, specs>>

(* PREPARE, after which the host lets no one else begin until the          *)
(* preparation is used, cancelled or expired.  A call that fails may have  *)
(* arrived.                                                                *)
Prepare ==
    /\ pc = "prepare"
    /\ \/ /\ target \in up \ prepared
          /\ NoFault
          /\ prepared' = prepared \cup {target}
          /\ pc' = "add"
          /\ UNCHANGED target
       \/ /\ target \notin up \ prepared
          /\ NoFault
          /\ Return
          /\ UNCHANGED prepared
       \/ /\ Fault("call")
          /\ Return
          /\ prepared' \in {prepared, prepared \cup ({target} \cap up)}
    /\ UNCHANGED <<etcdVars, up, configured, secure, count, suspect, unsaved, specs>>

(* etcdAddMember, and CANCEL_PREPARE, which need not arrive, after an      *)
(* error.  The member is registered with the URL that the host goes by,    *)
(* whatever the scheme that it is told to join with.  etcd refuses a       *)
(* member with the URL of another one.                                     *)
AddMember ==
    /\ pc = "add"
    /\ \/ /\ HasQuorum
          /\ target \notin members
          /\ NoFault
          /\ members' = members \cup {target}
          /\ https' = https \cup ({target} \ Plain)
          /\ pc' = "join"
          /\ UNCHANGED <<target, prepared>>
       \/ /\ \/ ~HasQuorum /\ NoFault
             \/ target \in members /\ NoFault
             \/ Fault("refused")
          /\ prepared' \in {prepared, prepared \ {target}}
          /\ Return
          /\ UNCHANGED <<members, https>>
    /\ UNCHANGED <<named, alive, up, configured, secure, count, suspect, unsaved, specs>>

(* JOIN_EXISTING, which a host that is not, or no longer, prepared refuses.*)
Join ==
    /\ pc = "join"
    /\ \/ /\ target \in up \cap prepared
          /\ NoFault
          /\ prepared' = prepared \ {target}
          /\ configured' = configured \cup {target}
          /\ secure' = secure \cup {target}
       \/ /\ \/ target \notin up \cap prepared /\ NoFault
             \/ Fault("call")
          /\ UNCHANGED <<prepared, configured, secure>>
    /\ Return
    /\ UNCHANGED <<etcdVars, up, count, suspect, unsaved, specs>>

(* A preparation expires.  That it does so while the leader that made it   *)
(* is still adding the host is a fault: it is valid for a minute.          *)
PreparationExpires(h) ==
    /\ h \in prepared
    /\ IF h = target /\ pc \in {"add", "join"} THEN Fault("expiry") ELSE NoFault
    /\ prepared' = prepared \ {h}
    /\ UNCHANGED <<etcdVars, up, configured, secure, count, loopVars, unsaved, specs>>

-----------------------------------------------------------------------------
(* removeNodeFromCluster *)

(* Mutant: the backup is left to maybeBackup. *)
RemoveBackupSkipped ==
    /\ pc = "remove_backup"
    /\ pc' = "remove"
    /\ UNCHANGED <<etcdVars, hostVars, count, suspect, target, unsaved, calm, faults, specs>>

RemoveBackup ==
    /\ pc = "remove_backup"
    /\ Backup("remove")
    /\ UNCHANGED <<etcdVars, hostVars, count, suspect, specs>>

(* etcdRemoveMember.  The etcd of the member exits; its host keeps the     *)
(* cluster in its state.  The last member cannot be removed.               *)
RemoveMember ==
    /\ pc = "remove"
    /\ \/ /\ HasQuorum
          /\ target \in members
          /\ members # {target}
          /\ NoFault
          /\ members' = members \ {target}
          /\ named' = named \ {target}
          /\ alive' = alive \ {target}
          /\ https' = https \ {target}
       \/ /\ \/ ~(HasQuorum /\ target \in members /\ members # {target}) /\ NoFault
             \/ Fault("refused")
          /\ UNCHANGED etcdVars
    /\ Return
    /\ UNCHANGED <<hostVars, count, suspect, unsaved, specs>>

-----------------------------------------------------------------------------
(* reconcileTLS *)

(* updatePeerURLs *)
SetPeerURLs ==
    /\ pc = "url"
    /\ \/ /\ HasQuorum
          /\ target \in alive
          /\ NoFault
          /\ https' = https \cup {target}
       \/ /\ \/ ~(HasQuorum /\ target \in alive) /\ NoFault
             \/ Fault("refused")
          /\ UNCHANGED https
    /\ Return
    /\ UNCHANGED <<members, named, alive, hostVars, count, suspect, unsaved, specs>>

(* Reconfigure with EnableTls, which restarts etcd on the host. *)
EnableTLS ==
    /\ pc = "tls"
    /\ \/ /\ target \in up
          /\ NoFault
          /\ secure' = secure \cup {target}
          /\ alive' = alive \ {target}
       \/ /\ \/ target \notin up /\ NoFault
             \/ Fault("call")
          /\ UNCHANGED <<secure, alive>>
    /\ Return
    /\ UNCHANGED <<members, named, https, up, prepared, configured, count, suspect, unsaved, specs>>

-----------------------------------------------------------------------------
(* The hosts, etcd, the clients and the operator *)

(* The etcd of a member (re)starts, and publishes its name once it can.    *)
(* When it starts for the first time it compares its URL with the one that *)
(* it is registered with, and exits if they differ.                        *)
EtcdStarts(h) ==
    /\ h \in up \cap configured \cap members
    /\ h \notin alive
    /\ h \in named \/ (h \in secure <=> h \in https)
    /\ alive' = alive \cup {h}
    /\ UNCHANGED <<members, named, https, hostVars, count, loopVars, unsaved, calm, faults, specs>>

EtcdPublishes(h) ==
    /\ h \in (alive \cap members) \ named
    /\ HasQuorum
    /\ named' = named \cup {h}
    /\ UNCHANGED <<members, alive, https, hostVars, count, loopVars, unsaved, calm, faults, specs>>

HostFails(h) ==
    /\ h \in up
    /\ Fault("host")
    /\ up' = up \ {h}
    /\ prepared' = prepared \ {h}
    /\ alive' = alive \ {h}
    /\ UNCHANGED <<members, named, https, configured, secure, count, loopVars, unsaved, specs>>

HostReturns(h) ==
    /\ h \notin up
    /\ up' = up \cup {h}
    /\ UNCHANGED <<etcdVars, prepared, configured, secure, count, loopVars, unsaved, calm, faults, specs>>

EtcdExits(h) ==
    /\ h \in alive
    /\ Fault("exit")
    /\ alive' = alive \ {h}
    /\ UNCHANGED <<members, named, https, hostVars, count, loopVars, unsaved, specs>>

(* The controller that leads restarts, or another one takes over: peerState *)
(* is gone.                                                                *)
LeaderCrashes ==
    /\ pc # "idle"
    /\ Fault("crash")
    /\ Return
    /\ suspect' = {}
    /\ UNCHANGED <<etcdVars, hostVars, count, unsaved, specs>>

ClientWrites ==
    /\ HasQuorum
    /\ unsaved = "none"
    /\ unsaved' = "recent"
    /\ UNCHANGED <<etcdVars, hostVars, count, loopVars, calm, faults, specs>>

(* The operator sets the cluster spec, and the leader has read it. *)
SetClusterSpec(n) ==
    /\ pc = "idle"
    /\ specs < MaxSpecs
    /\ n # count
    /\ count' = n
    /\ specs' = specs + 1
    /\ UNCHANGED <<etcdVars, hostVars, loopVars, unsaved, calm, faults>>

-----------------------------------------------------------------------------

Control ==
    \/ \E H \in SUBSET members : BeginCycle(H)
    \/ SeesNoMembers
    \/ AddBackup
    \/ Prepare
    \/ AddMember
    \/ Join
    \/ RemoveBackup
    \/ RemoveMember
    \/ SetPeerURLs
    \/ EnableTLS

Next ==
    \/ Control
    \/ \E h \in Hosts : PreparationExpires(h)
    \/ \E h \in Hosts : EtcdStarts(h)
    \/ \E h \in Hosts : EtcdPublishes(h)
    \/ \E h \in Hosts : HostFails(h)
    \/ \E h \in Hosts : HostReturns(h)
    \/ \E h \in Hosts : EtcdExits(h)
    \/ LeaderCrashes
    \/ ClientWrites
    \/ \E n \in Counts : SetClusterSpec(n)

Spec == Init /\ [][Next]_vars

(* The control loop runs for ever, a host that is up keeps starting its    *)
(* etcd, which joins, and preparations expire.                             *)
FairSpec ==
    /\ Spec
    /\ WF_vars(Control)
    /\ \A h \in Hosts : /\ WF_vars(EtcdStarts(h))
                        /\ WF_vars(EtcdPublishes(h))
                        /\ WF_vars(NoFault /\ PreparationExpires(h))

-----------------------------------------------------------------------------

(* "Force a backup first" (controller.go:789, :988): when the membership   *)
(* changes, every write that a client made before the leader began its     *)
(* cycle is in a backup.                                                   *)
ChangesAreBackedUp == [][members' # members => unsaved # "old"]_vars

(* Removing a member never costs etcd its quorum when the leader saw which *)
(* members run and nothing has failed since: removeNodeFromCluster favours *)
(* an unhealthy member ("TODO: Sanity checks that we aren't about to break *)
(* the cluster", controller.go:938).  A member that runs but has yet to    *)
(* publish its name looks unhealthy, and losing it can cost the quorum.    *)
RemovalKeepsQuorum ==
    [][(calm /\ Cardinality(members') < Cardinality(members)) => HasQuorum']_vars

(* "We update the peerURLs first" (reconcile_configuration.go): an etcd    *)
(* that has joined uses TLS only when the other members dial it with TLS,  *)
(* whichever of the two calls of reconcileTLS a fault came between, and    *)
(* whatever scheme addNodeToCluster registered and asked it to join with.  *)
TLSFollowsURL == (named \cup alive) \cap secure \subseteq https

(* Members that were added to etcd but never told to join; hosts that are  *)
(* configured for a cluster that they are not a member of; and members     *)
(* that were told to join with https but are registered with http, whose   *)
(* etcd exits, and which reconcileTLS does not find, as they have no name. *)
Orphans == members \ configured
Retired == configured \ members
Mismatched == (members \cap secure) \ (named \cup https)

(* The cluster has the members that were asked for, they all run, and they *)
(* use TLS.                                                                *)
Settled ==
    /\ Cardinality(members) >= count
    /\ members \subseteq named \cap alive \cap secure

(* "If there is an etcd cluster but it has fewer members than desired, the *)
(* leader will try to pick a node to add" (README.md): once all hosts stay *)
(* up the cluster settles, and the only things that can keep it from that  *)
(* are a member that was added and never told to start, a host that was    *)
(* removed and kept its state, and a member that was told to start with a  *)
(* URL other than its own.                                                 *)
SettlesUnlessLeftovers ==
    <>[](up = Hosts) => (<>[]Settled \/ []<>(Orphans \cup Retired \cup Mismatched # {}))

(* "If there is an etcd cluster but it has more members than desired, the  *)
(* leader will try to remove an etcd cluster member" (README.md): only     *)
(* then does the leader remove a member.                                   *)
RemovesOnlySurplus == [][Cardinality(members') < Cardinality(members) => Cardinality(members) > count]_vars
=============================================================================
