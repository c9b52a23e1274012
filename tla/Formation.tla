----------------------------- MODULE Formation -----------------------------
(***************************************************************************)
(* How an etcd cluster comes into being: the controllers that lead         *)
(* (pkg/controller, run, createNewCluster, updateQuarantine), the hosts    *)
(* that they command (EtcdHost) and the marker in the control store that   *)
(* says that the cluster has been created.                                 *)
(*                                                                         *)
(* A leader asks every peer for its state, looks at the health of etcd,    *)
(* and reads the marker.  Without the marker it stops whatever etcd there  *)
(* is, prepares a proposed set of peers, starts them and sets the marker.  *)
(* With it, it lifts the quarantine of a cluster with a quorum.  Each RPC  *)
(* is a step of its own, so several leaders, restarts and failures         *)
(* interleave with all of this.                                            *)
(*                                                                         *)
(* The election is taken as LeaderToken describes it.  A token has one     *)
(* user, so accepted[q] names the controller whose token peer q has        *)
(* accepted last.  A superseded token of the same controller is not told   *)
(* apart from its current one, which only lets more requests through.      *)
(***************************************************************************)
EXTENDS EtcdHost, FiniteSets

CONSTANTS Leaders,      \* the hosts whose controller may win an election
          Views,        \* the sets of healthy peers that controllers may see
          MemberCount,  \* of the cluster spec
          Version,      \* of the cluster spec
          Recycle,      \* bound: one creation per element of Clusters, if FALSE
          Failures,     \* the kinds of fault that may happen
          MaxFaults,    \* bound: how many of them happen
          FaultyCreation \* whether they also happen in the middle of a creation

ASSUME FormationAssumption ==
    /\ Hosts \subseteq Nat /\ IsFiniteSet(Hosts) /\ None \notin Hosts
    /\ Leaders \subseteq Hosts
    /\ Views \subseteq SUBSET Hosts
    /\ MemberCount \in Nat \ {0}
    /\ Version \in Supported
    /\ Recycle \in BOOLEAN
    /\ MaxFaults \in Nat
    /\ FaultyCreation \in BOOLEAN

VARIABLES
    accepted,  \* accepted[q]: the leader whose token q checks requests against
    acked,     \* acked[p]: the peers that have acked p
    pc,        \* pc[p]: where the control loop of p stands
    peers,     \* peers[p]: "peers", as run() of p read them
    todo,      \* todo[p]: the peers still to be called in this stage
    info,      \* info[p]: what GetInfo told p of each peer
    seen,      \* seen[p]: clusterState.members and healthyMembers
    creating,  \* creating[p]: clusterToken in createNewCluster
    nodes,     \* nodes[c]: the nodes that cluster c was created with
    created,   \* the control store says that the cluster has been created
    opened,    \* history: the clusters that clients have been let into
    faults     \* the number of faults so far

loopVars == <<pc, peers, todo, info, seen, creating>>
sharedVars == <<accepted, acked, nodes, created, opened, faults>>
vars == <<hostVars, loopVars, sharedVars>>

Stages == {"idle", "assert", "info", "decide", "stop", "broadcast", "prepare", "initial", "mark",
           "lift", "requarantine"}
Infos == {"idle", "quarantined", "open"}
Unseen == [cluster |-> None, healthy |-> 0]

FormationTypeOK ==
    /\ TypeOK
    /\ accepted \in [Hosts -> Leaders \cup {None}]
    /\ acked \in [Leaders -> SUBSET Hosts]
    /\ pc \in [Leaders -> Stages]
    /\ peers \in [Leaders -> SUBSET Hosts]
    /\ todo \in [Leaders -> SUBSET Hosts]
    /\ info \in [Leaders -> [Hosts -> Infos]]
    /\ seen \in [Leaders -> [cluster : Clusters \cup {None}, healthy : Nat]]
    /\ creating \in [Leaders -> Clusters \cup {None}]
    /\ nodes \in [Clusters -> SUBSET Hosts]
    /\ created \in BOOLEAN
    /\ opened \subseteq Clusters
    /\ faults \in 0..MaxFaults

NoInfo == [q \in Hosts |-> "idle"]

Init ==
    /\ HostInit
    /\ accepted = [q \in Hosts |-> None]
    /\ acked = [p \in Leaders |-> {}]
    /\ pc = [p \in Leaders |-> "idle"]
    /\ peers = [p \in Leaders |-> {}]
    /\ todo = [p \in Leaders |-> {}]
    /\ info = [p \in Leaders |-> NoInfo]
    /\ seen = [p \in Leaders |-> Unseen]
    /\ creating = [p \in Leaders |-> None]
    /\ nodes = [c \in Clusters |-> {}]
    /\ created = FALSE
    /\ opened = {}
    /\ faults = 0

(* A fault: an outcome inside a request (EtcdHost's Outcomes), a peer that *)
(* drops out of the view ("dropped"), a request or an answer that is lost  *)
(* ("unreachable", "lost"), an etcd that is slow to answer ("slow"), an    *)
(* error of the control store ("store"), a PREPARE that runs out under its *)
(* leader ("expiry"), a restart of etcd-manager or an exit of etcd.        *)
Fault(kind) ==
    /\ kind \in Failures
    /\ faults < MaxFaults
    /\ faults' = faults + 1
NoFault == UNCHANGED faults

(* A fault in a call of p to a host. *)
CallFault(p, kind) ==
    /\ Fault(kind)
    /\ FaultyCreation \/ pc[p] \notin {"prepare", "initial"}

(* quorumSize *)
QuorumSize(n) == (n \div 2) + 1

(* run() returns for each controller in S, having done all it could or on  *)
(* an error.                                                               *)
ReturnAll(S) ==
    /\ pc' = [p \in Leaders |-> IF p \in S THEN "idle" ELSE pc[p]]
    /\ peers' = [p \in Leaders |-> IF p \in S THEN {} ELSE peers[p]]
    /\ todo' = [p \in Leaders |-> IF p \in S THEN {} ELSE todo[p]]
    /\ info' = [p \in Leaders |-> IF p \in S THEN NoInfo ELSE info[p]]
    /\ seen' = [p \in Leaders |-> IF p \in S THEN Unseen ELSE seen[p]]
    /\ creating' = [p \in Leaders |-> IF p \in S THEN None ELSE creating[p]]
Return(p) == ReturnAll({p})

(* The loop goes on to a stage in which it calls each of the peers in Q. *)
Enter(p, stage, Q) ==
    /\ pc' = [pc EXCEPT ![p] = stage]
    /\ todo' = [todo EXCEPT ![p] = Q]

-----------------------------------------------------------------------------
(* Election *)

(* p leads among the peers in A: the one with the lowest id does. *)
Leads(p, A) == p \in A /\ \A q \in A : p <= q

(* q accepts the token that p offers in a bid. *)
AcceptBid(p, q) ==
    /\ pc[p] = "idle"
    /\ up[p] /\ up[q]
    /\ q \notin acked[p]
    /\ \E A \in Views : Leads(p, A) /\ q \in A
    /\ accepted' = [accepted EXCEPT ![q] = p]
    /\ acked' = [acked EXCEPT ![p] = @ \cup {q}]
    /\ UNCHANGED <<hostVars, loopVars, nodes, created, opened, faults>>

(* run() of a leader begins: the healthy peers have all acked its bid. *)
BeginCycle(p, A) ==
    /\ pc[p] = "idle"
    /\ up[p]
    /\ Leads(p, A)
    /\ A \subseteq acked[p]
    /\ Enter(p, "assert", A)
    /\ peers' = [peers EXCEPT ![p] = A]
    /\ UNCHANGED <<hostVars, info, seen, creating, sharedVars>>

(* AssertLeadership: q accepts p's token again.  If q has dropped out of   *)
(* the view by the time it is put together, q is not asked, though it      *)
(* still counts among the peers.                                           *)
Assert(p, q) ==
    /\ pc[p] = "assert"
    /\ q \in todo[p]
    /\ \/ up[q] /\ accepted' = [accepted EXCEPT ![q] = p] /\ NoFault
       \/ Fault("dropped") /\ UNCHANGED accepted
    /\ IF todo[p] = {q} THEN Enter(p, "info", peers[p])
                        ELSE Enter(p, "assert", todo[p] \ {q})
    /\ UNCHANGED <<hostVars, peers, info, seen, creating, acked, nodes, created, opened>>

(* q refuses it, because q knows of a healthy peer that is not in the      *)
(* view, or cannot be reached.                                             *)
AssertRejected(p, q) ==
    /\ pc[p] = "assert"
    /\ q \in todo[p]
    /\ ~up[q] \/ \E A \in Views : q \in A /\ ~(A \subseteq peers[p])
    /\ Return(p)
    /\ UNCHANGED <<hostVars, sharedVars>>

-----------------------------------------------------------------------------
(* updateClusterState *)

InfoOf(q) == IF ~Configured(q) THEN "idle"
             ELSE IF state[q].quarantined THEN "quarantined" ELSE "open"

GetInfo(p, q) ==
    /\ pc[p] = "info"
    /\ Leads(q, todo[p])
    /\ up[q]
    /\ info' = [info EXCEPT ![p][q] = InfoOf(q)]
    /\ todo' = [todo EXCEPT ![p] = @ \ {q}]
    /\ UNCHANGED <<hostVars, pc, peers, seen, creating, sharedVars>>

(* The members of etcd cluster c that serve requests, at most. *)
Members(c) == {q \in nodes[c] : Running(q) /\ process[q].cluster = c /\ c \in data[q]}
HasQuorum(c) == Cardinality(Members(c)) >= QuorumSize(Cardinality(nodes[c]))

(* Clients can write to c: it has a quorum, and one of its members listens *)
(* to them.                                                                *)
Open(c) == HasQuorum(c) /\ \E q \in Members(c) : ~process[q].quarantined
RecordOpened == opened' = opened \cup {c \in Clusters : Open(c)'}

(* The members of c that answer the client that p makes for them: the URLs *)
(* of a peer are picked by what GetInfo said of its quarantine.            *)
Healthy(p, c) ==
    {q \in Members(c) : q \in peers[p] => (info[p][q] = "quarantined") = process[q].quarantined}

(* The first configured peer whose etcd answers ListMembers gives the      *)
(* members, and then each member is asked.  Members of a cluster with a    *)
(* quorum answer, unless they are slow; without one, they may.             *)
Observe(p) ==
    LET answering == {q \in peers[p] : /\ info[p][q] # "idle"
                                       /\ Running(q)
                                       /\ q \in Healthy(p, process[q].cluster)}
    IN  /\ pc[p] = "info"
        /\ todo[p] = {}
        /\ \/ \E q \in answering, n \in 0..Cardinality(Hosts) :
                LET c == process[q].cluster
                IN  /\ seen' = [seen EXCEPT ![p] = [cluster |-> c, healthy |-> n]]
                    /\ \/ n = Cardinality(Healthy(p, c)) /\ NoFault
                       \/ n < Cardinality(Healthy(p, c)) /\ Fault("slow")
           \/ /\ UNCHANGED seen
              /\ \/ (\A q \in answering : ~HasQuorum(process[q].cluster)) /\ NoFault
                 \/ (\E q \in answering : HasQuorum(process[q].cluster)) /\ Fault("slow")
        /\ Enter(p, "decide", {})
        /\ UNCHANGED <<hostVars, peers, info, creating, accepted, acked, nodes, created, opened>>

-----------------------------------------------------------------------------
(* The decision: create a cluster, lift or restore quarantine, or nothing *)

(* What p has found out has served its purpose once p has decided. *)
Decided(p) ==
    /\ peers' = [peers EXCEPT ![p] = {}]
    /\ info' = [info EXCEPT ![p] = NoInfo]
    /\ seen' = [seen EXCEPT ![p] = Unseen]

InUse(c) ==
    \/ \E p \in Leaders : creating[p] = c \/ seen[p].cluster = c
    \/ c \in opened
    \/ \E q \in Hosts : \/ state[q] # None /\ state[q].cluster = c
                        \/ disk[q] \notin {None, Corrupt} /\ disk[q].cluster = c
                        \/ prepared[q] # None /\ prepared[q].token = c
                        \/ process[q] # None /\ process[q].cluster = c
                        \/ c \in data[q]

(* randomToken.  A token that nobody holds any more can stand for a new    *)
(* one.                                                                    *)
Fresh(c) == nodes[c] = {} \/ (Recycle /\ ~InUse(c))
FreshCluster == CHOOSE c \in Clusters : Fresh(c)

(* Enough peers for the cluster that is wanted, or for one with the same   *)
(* quorum.                                                                 *)
Sufficient(n) ==
    /\ n >= QuorumSize(MemberCount)
    /\ n >= MemberCount \/ QuorumSize(n) = QuorumSize(MemberCount)

BeginCreate(p, P) ==
    /\ pc[p] = "decide"
    /\ ~created
    /\ Sufficient(Cardinality(peers[p]))
    /\ P \subseteq peers[p]
    /\ P = peers[p] \/ Cardinality(P) = MemberCount
    /\ Cardinality(P) <= MemberCount
    /\ \E c \in Clusters : Fresh(c)
    /\ creating' = [creating EXCEPT ![p] = FreshCluster]
    /\ nodes' = [c \in Clusters |-> IF c = FreshCluster THEN P
                                    ELSE IF Fresh(c) THEN {} ELSE nodes[c]]
    /\ LET running == {q \in peers[p] : info[p][q] # "idle"}
       IN  IF running # {} THEN Enter(p, "stop", running) ELSE Enter(p, "broadcast", {})
    /\ info' = [info EXCEPT ![p] = NoInfo]
    /\ seen' = [seen EXCEPT ![p] = Unseen]
    /\ UNCHANGED <<hostVars, peers, accepted, acked, created, opened, faults>>

Quarantined(p) == \E q \in peers[p] : info[p][q] = "quarantined"

(* Mutant: off by one. *)
MayLiftAboveQuorum(p) ==
    /\ Quarantined(p)
    /\ seen[p].healthy > QuorumSize(MemberCount)

MayLift(p) ==
    /\ Quarantined(p)
    /\ seen[p].healthy >= QuorumSize(MemberCount)

(* Mutant: clients are let in before the marker is set. *)
BeginLiftUnmarked(p) ==
    /\ pc[p] = "decide"
    /\ MayLift(p)
    /\ Cardinality(peers[p]) >= QuorumSize(MemberCount)
    /\ Enter(p, "lift", peers[p] \cap nodes[seen[p].cluster])
    /\ Decided(p)
    /\ UNCHANGED <<hostVars, creating, sharedVars>>

BeginLift(p) ==
    /\ pc[p] = "decide"
    /\ created
    /\ MayLift(p)
    /\ Cardinality(peers[p]) >= QuorumSize(MemberCount)
    /\ Enter(p, "lift", peers[p] \cap nodes[seen[p].cluster])
    /\ Decided(p)
    /\ UNCHANGED <<hostVars, creating, sharedVars>>

BeginRequarantine(p) ==
    /\ pc[p] = "decide"
    /\ created
    /\ Quarantined(p)
    /\ ~MayLift(p)
    /\ \E q \in peers[p] : info[p][q] = "open"
    /\ seen[p].cluster # None
    /\ Enter(p, "requarantine", peers[p] \cap nodes[seen[p].cluster])
    /\ Decided(p)
    /\ UNCHANGED <<hostVars, creating, sharedVars>>

(* The cycle ends here.  What run() does with an open cluster, resizing    *)
(* and upgrading it, is not part of this module.  Bound: no cluster is     *)
(* created when no token is fresh.                                         *)
Decline(p) ==
    /\ pc[p] = "decide"
    /\ \/ ~created /\ ~Sufficient(Cardinality(peers[p]))
       \/ ~created /\ \A c \in Clusters : ~Fresh(c)
       \/ created /\ MayLift(p) /\ Cardinality(peers[p]) < QuorumSize(MemberCount)
       \/ /\ created
          /\ ~MayLift(p)
          /\ \/ ~Quarantined(p)
             \/ seen[p].cluster = None
             \/ \A q \in peers[p] : info[p][q] # "open"
    /\ Return(p)
    /\ UNCHANGED <<hostVars, sharedVars>>

-----------------------------------------------------------------------------
(* Requests from leader p to peer q *)

Calling(p, q, stage) == pc[p] = stage /\ q \in todo[p] /\ up[q]

(* Mutant: a token from any leader that q has ever accepted will do. *)
ValidatedOnceAccepted(p, q) == q \in acked[p]

(* validateHeader: q checks the token. *)
Validated(p, q) == accepted[q] = p

(* StopEtcd and Reconfigure answer "cluster not running" besides. *)
Admits(p, q) ==
    /\ Validated(p, q)
    /\ pc[p] \in {"stop", "lift", "requarantine"} => state[q] # None

(* After the last peer of a stage p goes on to the next one. *)
Proceed(p, q) ==
    \/ todo[p] # {q} /\ Enter(p, pc[p], todo[p] \ {q})
    \/ todo[p] = {q} /\ pc[p] = "stop" /\ Enter(p, "broadcast", {})
    \/ todo[p] = {q} /\ pc[p] = "prepare" /\ Enter(p, "initial", nodes[creating[p]])
    \/ todo[p] = {q} /\ pc[p] = "initial" /\ Enter(p, "mark", {})

(* p goes on after "ok", and gives up after an error or a lost answer. *)
Deliver(p, q, reply, o) ==
    \/ /\ reply = "ok"
       /\ IF o = "ok" THEN NoFault ELSE CallFault(p, o)
       /\ IF todo[p] = {q} /\ pc[p] \in {"lift", "requarantine"}
          THEN Return(p)
          ELSE Proceed(p, q) /\ UNCHANGED <<peers, info, seen, creating>>
    \/ /\ reply = "error"
       /\ IF o = "ok" THEN NoFault ELSE CallFault(p, o)
       /\ Return(p)
    \/ /\ reply = "ok" /\ o = "ok"
       /\ CallFault(p, "lost")
       /\ Return(p)

(* The request does not reach q, or q turns it down. *)
CallFails(p, q) ==
    /\ pc[p] \in {"info", "stop", "prepare", "initial", "lift", "requarantine"}
    /\ q \in todo[p]
    /\ \/ ~up[q] /\ NoFault
       \/ up[q] /\ pc[p] # "info" /\ ~Admits(p, q) /\ NoFault
       \/ up[q] /\ CallFault(p, "unreachable")
    /\ Return(p)
    /\ UNCHANGED <<hostVars, accepted, acked, nodes, created, opened>>

Outcome == Outcomes \cap ({"ok"} \cup Failures)

StopCall(p, q) ==
    /\ Calling(p, q, "stop")
    /\ Validated(p, q)
    /\ \E o \in Outcome, d \in Leftovers, r \in Replies :
        /\ StopEtcd(q, o, d, r)
        /\ Deliver(p, q, r, o)
    /\ UNCHANGED <<accepted, acked, nodes, created, opened>>

(* broadcastMemberMap: every peer must take the proposed member map, which *)
(* is not modelled further; the leader's token is not checked.             *)
Broadcast(p) ==
    /\ pc[p] = "broadcast"
    /\ \/ /\ \A q \in peers[p] : up[q]
          /\ NoFault
          /\ Enter(p, "prepare", nodes[creating[p]])
          /\ peers' = [peers EXCEPT ![p] = {}]
          /\ UNCHANGED <<info, seen, creating>>
       \/ (\E q \in peers[p] : ~up[q]) /\ NoFault /\ Return(p)
       \/ Fault("unreachable") /\ Return(p)
    /\ UNCHANGED <<hostVars, accepted, acked, nodes, created, opened>>

PrepareCall(p, q) ==
    /\ Calling(p, q, "prepare")
    /\ Validated(p, q)
    /\ \E r \in Replies :
        /\ JoinPrepare(q, creating[p], Version, r)
        /\ Deliver(p, q, r, "ok")
    /\ UNCHANGED <<accepted, acked, nodes, created, opened>>

InitialCall(p, q) ==
    /\ Calling(p, q, "initial")
    /\ Validated(p, q)
    /\ \E o \in Outcome, d \in Leftovers, r \in Replies :
        /\ \/ JoinInitial(q, creating[p], Version, o, d, r)
           \/ o = "ok" /\ JoinRefused(q, creating[p], Version, r)
        /\ Deliver(p, q, r, o)
    /\ UNCHANGED <<accepted, acked, nodes, created, opened>>

(* updateQuarantine *)
QuarantineCall(p, q, stage) ==
    /\ Calling(p, q, stage)
    /\ Validated(p, q)
    /\ \E o \in Outcome, d \in Leftovers, r \in Replies :
        /\ Reconfigure(q, stage = "requarantine", None, o, d, r)
        /\ Deliver(p, q, r, o)
    /\ UNCHANGED <<accepted, acked, nodes, created>>
    /\ RecordOpened

(* Mutant: the accepted token outlives the restart. *)
LoseButKeepToken(q, S) ==
    /\ ReturnAll(S \cup {q})
    /\ acked' = [p \in Leaders |-> IF p = q THEN {} ELSE acked[p]]
    /\ UNCHANGED <<accepted, nodes, created, opened>>

(* etcd-manager on q stops and comes back: its controller and the token it *)
(* had accepted are gone, and so is what the controllers in S were doing.  *)
Lose(q, S) ==
    /\ ReturnAll(S \cup {q})
    /\ accepted' = [accepted EXCEPT ![q] = None]
    /\ acked' = [p \in Leaders |-> IF p = q THEN {} ELSE acked[p]]
    /\ UNCHANGED <<nodes, created, opened>>

(* The handler of Reconfigure panics. *)
CallPanics(p, q) ==
    /\ pc[p] \in {"lift", "requarantine"}
    /\ Calling(p, q, pc[p])
    /\ Validated(p, q)
    /\ RequestPanics(q, "error")
    /\ Lose(q, {p})
    /\ UNCHANGED faults

(* MarkClusterCreated *)
MarkCreated(p) ==
    /\ pc[p] = "mark"
    /\ created' = TRUE
    /\ Return(p)
    /\ UNCHANGED <<hostVars, accepted, acked, nodes, opened, faults>>

(* A call to the control store fails. *)
StoreFails(p) ==
    /\ pc[p] \in {"decide", "mark"}
    /\ Fault("store")
    /\ Return(p)
    /\ UNCHANGED <<hostVars, accepted, acked, nodes, created, opened>>

-----------------------------------------------------------------------------
(* Hosts *)

HostRestarts(q) ==
    /\ Fault("restart")
    /\ Restart(q)
    /\ Lose(q, {})

(* A PREPARE runs out; that its leader is still at work is a fault. *)
PrepareExpires(q) ==
    /\ Expire(q)
    /\ IF \E p \in Leaders : creating[p] = prepared[q].token THEN Fault("expiry") ELSE NoFault
    /\ UNCHANGED <<loopVars, accepted, acked, nodes, created, opened>>

(* q is one of the hosts of a creation, or its etcd has yet to set up its  *)
(* data.                                                                   *)
Founding(q) ==
    \/ \E p \in Leaders : creating[p] # None /\ q \in nodes[creating[p]]
    \/ process[q] # None /\ process[q].cluster \notin data[q]

EtcdExits(q) ==
    /\ Fault("exit")
    /\ FaultyCreation \/ ~Founding(q)
    /\ ProcessExits(q)
    /\ UNCHANGED <<loopVars, accepted, acked, nodes, created, opened>>

(* An etcd that is started for a new cluster sets up its data.  One that   *)
(* is started for an existing cluster, because it had exited before it had *)
(* got there, must find a member that has.                                 *)
EtcdFounds(q) ==
    /\ EtcdInitialises(q)
    /\ process[q].new \/ Members(process[q].cluster) # {}
    /\ UNCHANGED <<loopVars, accepted, acked, nodes, created, faults>>
    /\ RecordOpened

Supervise(q, o) ==
    /\ RunOnce(q, o)
    /\ IF o = "ok" THEN NoFault ELSE Fault(o)
    /\ UNCHANGED <<loopVars, accepted, acked, nodes, created>>
    /\ RecordOpened

-----------------------------------------------------------------------------

Control(p) ==
    \/ \E A \in Views : BeginCycle(p, A)
    \/ \E q \in Hosts : Assert(p, q)
    \/ \E q \in Hosts : AssertRejected(p, q)
    \/ \E q \in Hosts : GetInfo(p, q)
    \/ Observe(p)
    \/ \E P \in SUBSET Hosts : BeginCreate(p, P)
    \/ BeginLift(p)
    \/ BeginRequarantine(p)
    \/ Decline(p)
    \/ \E q \in Hosts : StopCall(p, q)
    \/ Broadcast(p)
    \/ \E q \in Hosts : PrepareCall(p, q)
    \/ \E q \in Hosts : InitialCall(p, q)
    \/ \E q \in Hosts : QuarantineCall(p, q, "lift")
    \/ \E q \in Hosts : QuarantineCall(p, q, "requarantine")
    \/ \E q \in Hosts : CallFails(p, q)
    \/ \E q \in Hosts : CallPanics(p, q)
    \/ MarkCreated(p)
    \/ StoreFails(p)

Next ==
    \/ \E p \in Leaders : Control(p)
    \/ \E p \in Leaders, q \in Hosts : AcceptBid(p, q)
    \/ \E q \in Hosts : HostRestarts(q)
    \/ \E q \in Hosts : PrepareExpires(q)
    \/ \E q \in Hosts : EtcdExits(q)
    \/ \E q \in Hosts : EtcdFounds(q)
    \/ \E q \in Hosts, o \in Outcome : Supervise(q, o)

Spec == Init /\ [][Next]_vars

(* The control loop and the supervision loop keep running                  *)
(* (contextutil.Forever), bids to a healthy peer are accepted, a PREPARE   *)
(* runs out, and an etcd that can found its cluster does.                  *)
FairSpec ==
    /\ Spec
    /\ \A p \in Leaders : WF_vars(Control(p))
    /\ \A p \in Leaders, q \in Hosts : WF_vars(AcceptBid(p, q))
    /\ \A q \in Hosts : WF_vars(PrepareExpires(q)) /\ WF_vars(EtcdFounds(q)) /\ WF_vars(Supervise(q, "ok"))

(* Once clients have been let into a cluster, a majority of its members    *)
(* keep its data: no leader, however late, destroys it by creating a       *)
(* cluster again (createNewCluster stops etcd and trashes the data).       *)
(* "Mark cluster created so we won't create it again" (controller.go:377); *)
(* "unsafe operations require a command.  (unsafe = potential for data     *)
(* loss)" (controller.go:275).                                             *)
OpenedDataSurvives ==
    \A c \in opened : Cardinality({q \in nodes[c] : c \in data[q]}) >= QuorumSize(Cardinality(nodes[c]))

(* With fewer than two quorums of hosts, clients are never let into two    *)
(* different clusters, whoever leads.                                      *)
OneClusterOpened == Cardinality(opened) <= 1

(* A leader acts on what GetInfo said a while ago, but a host that has     *)
(* been stopped or restarted since refuses its token: StopEtcd, which      *)
(* looks into state.Cluster unchecked, always finds a cluster there.       *)
StaleInfoIsFenced ==
    \A p \in Leaders, q \in Hosts :
        Calling(p, q, "stop") /\ Validated(p, q) => Configured(q)

(* "If no peer is running etcd, it will try to start etcd" (README.md):    *)
(* a leader brings up a cluster that clients can use, however often its    *)
(* store fails, its etcds are slow or exit, peers drop out of its view or  *)
(* a call to a host fails or loses its answer, half-way through            *)
(* updateQuarantine included, except for the calls and the etcds in the    *)
(* middle of a creation.                                                   *)
ClusterOpens == <>[](\E c \in Clusters : Open(c))

(* Reconfigure answers "cluster not running" on a host without a cluster   *)
(* (etcdserver.go:412), so a leader that lifts the quarantine never brings *)
(* down a host.                                                            *)
NoRequestPanics == \A p \in Leaders, q \in Hosts : ~ENABLED CallPanics(p, q)
=============================================================================
