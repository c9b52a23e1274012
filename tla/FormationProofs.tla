--------------------------- MODULE FormationProofs ---------------------------
(***************************************************************************)
(* Proofs about Formation, for any numbers of hosts, leaders, clusters and *)
(* faults of any kinds.                                                    *)
(*                                                                         *)
(* What EtcdHost's theorems say of a host holds here too, as everything    *)
(* that a leader does to a host is one of EtcdHost's requests (HostsStep). *)
(* FenceInv is the use of the token: a host that still takes a leader's    *)
(* requests is as that leader was told.                                    *)
(*                                                                         *)
(* The data of an opened cluster rests on the marker.  Until it is set all *)
(* hosts are in quarantine (ClosedInv), and once it is set, a leader that  *)
(* reads it creates no cluster; so data is lost only to a creation that    *)
(* had begun before (OnlyOverlapsLoseData), and a leader that is alone has *)
(* none.  That one cluster is opened rests on the state files: when the    *)
(* marker is set, the nodes of the new cluster, a quorum, remember no      *)
(* other one (HoldInv, MarkedInv).                                         *)
(***************************************************************************)
EXTENDS Formation, EtcdHostProofs

(* The stages of createNewCluster. *)
Making == {"stop", "broadcast", "prepare", "initial", "mark"}

LoopTypes ==
    /\ pc \in [Leaders -> Stages]
    /\ peers \in [Leaders -> SUBSET Hosts]
    /\ todo \in [Leaders -> SUBSET Hosts]
    /\ info \in [Leaders -> [Hosts -> Infos]]
    /\ seen \in [Leaders -> [cluster : Clusters \cup {None}, healthy : Nat]]
    /\ creating \in [Leaders -> Clusters \cup {None}]

SharedTypes ==
    /\ accepted \in [Hosts -> Leaders \cup {None}]
    /\ acked \in [Leaders -> SUBSET Hosts]
    /\ nodes \in [Clusters -> SUBSET Hosts]
    /\ created \in BOOLEAN
    /\ opened \subseteq Clusters
    /\ faults \in 0..MaxFaults

(* A loop knows what GetInfo said until it has decided, has a cluster in   *)
(* hand while it creates one, and touches quarantine only once the marker  *)
(* is set.                                                                 *)
LoopInv ==
    \A p \in Leaders :
        /\ pc[p] \notin {"info", "decide"} => info[p] = NoInfo
        /\ creating[p] # None <=> pc[p] \in Making
        /\ pc[p] \in {"lift", "requarantine"} => created

TypesInv == HostInv /\ LoopTypes /\ SharedTypes /\ LoopInv

-----------------------------------------------------------------------------
(* The hosts *)

LEMMA VersionIsKnown == Version \in Versions /\ Outcome \subseteq Outcomes
  BY FormationAssumption, HostAssumption, Zenon DEF Outcome

(* What a leader does to a host is one of the requests that EtcdHost's     *)
(* HostNext allows, so that what is true of hosts on their own is true of  *)
(* them here.                                                              *)
LEMMA HostsStep ==
  ASSUME TypesInv, [Next]_vars
  PROVE  [HostNext]_hostVars
<1>1. ASSUME NEW p \in Leaders, NEW q \in Hosts, StopCall(p, q)
      PROVE  HostNext
  <2>1. PICK o \in Outcomes, d \in Leftovers, r \in Replies : StopEtcd(q, o, d, r)
    BY <1>1, VersionIsKnown, Zenon DEF StopCall
  <2>2. OtherRequest(q)
    BY <2>1, Zenon DEF OtherRequest
  <2> QED
    BY <2>2, Zenon DEF HostNext
<1>2. ASSUME NEW p \in Leaders, NEW q \in Hosts, PrepareCall(p, q)
      PROVE  HostNext
  <2>1. creating[p] \in Clusters
    BY <1>2, Zenon DEF PrepareCall, Calling, TypesInv, LoopTypes, LoopInv, Making
  <2>2. JoinRequest(q)
    BY <1>2, <2>1, VersionIsKnown, Zenon DEF PrepareCall, JoinRequest
  <2> QED
    BY <2>2, Zenon DEF HostNext
<1>3. ASSUME NEW p \in Leaders, NEW q \in Hosts, InitialCall(p, q)
      PROVE  HostNext
  <2>1. creating[p] \in Clusters
    BY <1>3, Zenon DEF InitialCall, Calling, TypesInv, LoopTypes, LoopInv, Making
  <2>2. JoinRequest(q)
    BY <1>3, <2>1, VersionIsKnown, Zenon DEF InitialCall, JoinRequest
  <2> QED
    BY <2>2 DEF HostNext
<1>4. ASSUME NEW p \in Leaders, NEW q \in Hosts, NEW stage, QuarantineCall(p, q, stage)
      PROVE  HostNext
  <2>1. (stage = "requarantine") \in BOOLEAN
    BY Zenon
  <2>2. PICK o \in Outcomes, d \in Leftovers, r \in Replies :
           Reconfigure(q, stage = "requarantine", None, o, d, r)
    BY <1>4, VersionIsKnown, Zenon DEF QuarantineCall
  <2>3. OtherRequest(q)
    BY <2>1, <2>2, Zenon DEF OtherRequest
  <2> QED
    BY <2>3 DEF HostNext
<1>5. ASSUME NEW p \in Leaders, NEW q \in Hosts, CallPanics(p, q)
      PROVE  HostNext
  BY <1>5, Zenon DEF CallPanics, OtherRequest, HostNext, Replies
<1>6. ASSUME NEW p \in Leaders, Control(p)
      PROVE  HostNext \/ UNCHANGED hostVars
  <2>1. CASE \/ \E q \in Hosts : \/ StopCall(p, q) \/ PrepareCall(p, q) \/ InitialCall(p, q)
                                 \/ CallPanics(p, q)
             \/ \E q \in Hosts : QuarantineCall(p, q, "lift") \/ QuarantineCall(p, q, "requarantine")
    BY <1>1, <1>2, <1>3, <1>4, <1>5, <2>1, Zenon
  <2> QED
    BY <1>6, <2>1, Zenon
       DEF Control, BeginCycle, Assert, AssertRejected, GetInfo, Observe, BeginCreate, BeginLift,
           BeginRequarantine, Decline, Broadcast, CallFails, MarkCreated, StoreFails
<1>7. ASSUME NEW q \in Hosts,
             \/ HostRestarts(q) \/ PrepareExpires(q) \/ EtcdExits(q) \/ EtcdFounds(q)
             \/ \E o \in Outcome : Supervise(q, o)
      PROVE  HostNext
  BY <1>7, VersionIsKnown, Zenon
     DEF HostRestarts, PrepareExpires, EtcdExits, EtcdFounds, Supervise, HostNext
<1>8. ASSUME NEW p \in Leaders, NEW q \in Hosts, AcceptBid(p, q)
      PROVE  UNCHANGED hostVars
  BY <1>8, Zenon DEF AcceptBid
<1>9. CASE UNCHANGED vars
  BY <1>9, Zenon DEF vars
<1> QED
  BY <1>6, <1>7, <1>8, <1>9, Zenon DEF Next

-----------------------------------------------------------------------------
(* The control loops *)

LEMMA FaultsAreFew ==
  ASSUME SharedTypes
  PROVE  /\ NoFault => faults' \in 0..MaxFaults
         /\ \A kind : Fault(kind) => faults' \in 0..MaxFaults
         /\ \A p, kind : CallFault(p, kind) => faults' \in 0..MaxFaults
  BY FormationAssumption DEF SharedTypes, NoFault, Fault, CallFault

LEMMA ReturnKeepsLoops ==
  ASSUME TypesInv, NEW S, ReturnAll(S), created => created'
  PROVE  LoopTypes' /\ LoopInv'
<1>1. NoInfo \in [Hosts -> Infos] /\ Unseen \in [cluster : Clusters \cup {None}, healthy : Nat]
  BY Zenon DEF NoInfo, Infos, Unseen
<1>2. LoopTypes'
  BY <1>1, Zenon DEF TypesInv, LoopTypes, ReturnAll, Stages
<1>3. LoopInv'
  BY Zenon DEF TypesInv, LoopTypes, LoopInv, ReturnAll, Making
<1> QED
  BY <1>2, <1>3, Zenon

(* The next stage of one loop that keeps what it has found out.            *)
LEMMA EnterKeepsLoops ==
  ASSUME TypesInv, NEW p \in Leaders, NEW stage \in Stages, NEW Q \in SUBSET Hosts,
         Enter(p, stage, Q), peers' \in [Leaders -> SUBSET Hosts],
         UNCHANGED <<info, seen, creating>>, created => created',
         stage \in {"info", "decide"} \/ info[p] = NoInfo,
         creating[p] # None <=> stage \in Making,
         stage \in {"lift", "requarantine"} => created
  PROVE  LoopTypes' /\ LoopInv'
<1>1. LoopTypes'
  BY Zenon DEF TypesInv, LoopTypes, Enter
<1>2. LoopInv'
  BY Zenon DEF TypesInv, LoopTypes, LoopInv, Enter
<1> QED
  BY <1>1, <1>2, Zenon

LEMMA DeliverKeepsLoops ==
  ASSUME TypesInv, NEW p \in Leaders, NEW q \in Hosts, NEW reply, NEW o,
         pc[p] \in {"stop", "prepare", "initial", "lift", "requarantine"},
         Deliver(p, q, reply, o), UNCHANGED created
  PROVE  LoopTypes' /\ LoopInv' /\ faults' \in 0..MaxFaults
<1>1. faults' \in 0..MaxFaults
  BY FaultsAreFew, Zenon DEF TypesInv, Deliver
<1>2. CASE Return(p)
  BY <1>1, <1>2, ReturnKeepsLoops, Zenon DEF Return
<1>3. CASE Proceed(p, q) /\ UNCHANGED <<peers, info, seen, creating>>
                         /\ ~(todo[p] = {q} /\ pc[p] \in {"lift", "requarantine"})
  <2>1. /\ pc[p] \in Stages /\ info[p] = NoInfo /\ todo[p] \ {q} \in SUBSET Hosts
        /\ creating[p] # None <=> pc[p] \in Making
        /\ pc[p] \in {"lift", "requarantine"} => created
        /\ peers \in [Leaders -> SUBSET Hosts]
    BY Zenon DEF TypesInv, LoopTypes, LoopInv
  <2>2. CASE Enter(p, pc[p], todo[p] \ {q})
    BY <1>1, <1>3, <2>1, <2>2, EnterKeepsLoops, Zenon
  <2>3. CASE pc[p] = "stop" /\ Enter(p, "broadcast", {})
    BY <1>1, <1>3, <2>1, <2>3, EnterKeepsLoops DEF Making, Stages
  <2>4. CASE pc[p] = "prepare" /\ Enter(p, "initial", nodes[creating[p]])
    <3>1. nodes[creating[p]] \in SUBSET Hosts
      BY <2>1, <2>4, Zenon DEF TypesInv, LoopTypes, SharedTypes, Making
    <3> QED
      BY <1>1, <1>3, <2>1, <2>4, <3>1, EnterKeepsLoops DEF Making, Stages
  <2>5. CASE pc[p] = "initial" /\ Enter(p, "mark", {})
    BY <1>1, <1>3, <2>1, <2>5, EnterKeepsLoops DEF Making, Stages
  <2> QED
    BY <1>3, <2>2, <2>3, <2>4, <2>5, Zenon DEF Proceed
<1> QED
  BY <1>2, <1>3, Zenon DEF Deliver

(* The cycle up to the decision.                                           *)
LEMMA ObservingKeepsLoops ==
  ASSUME TypesInv, NEW p \in Leaders,
         \/ \E A \in Views : BeginCycle(p, A)
         \/ \E q \in Hosts : Assert(p, q) \/ GetInfo(p, q)
         \/ Observe(p)
  PROVE  LoopTypes' /\ LoopInv' /\ SharedTypes'
<1>1. /\ peers \in [Leaders -> SUBSET Hosts] /\ peers[p] \in SUBSET Hosts
      /\ todo[p] \in SUBSET Hosts
  BY Zenon DEF TypesInv, LoopTypes
<1>2. ASSUME NEW A \in Views, BeginCycle(p, A)
      PROVE  LoopTypes' /\ LoopInv' /\ SharedTypes'
  <2>1. A \in SUBSET Hosts /\ peers' \in [Leaders -> SUBSET Hosts]
    BY <1>1, <1>2, FormationAssumption, Zenon DEF BeginCycle
  <2>2. info[p] = NoInfo /\ creating[p] = None
    BY <1>2, Zenon DEF BeginCycle, TypesInv, LoopInv, Making
  <2>3. LoopTypes' /\ LoopInv'
    BY <1>2, <2>1, <2>2, EnterKeepsLoops, Zenon DEF BeginCycle, Stages, Making, sharedVars
  <2> QED
    BY <1>2, <2>3, Zenon DEF BeginCycle, sharedVars, TypesInv, SharedTypes
<1>3. ASSUME NEW q \in Hosts, Assert(p, q)
      PROVE  LoopTypes' /\ LoopInv' /\ SharedTypes'
  <2>1. info[p] = NoInfo /\ creating[p] = None
    BY <1>3, Zenon DEF Assert, TypesInv, LoopInv, Making
  <2>2. \E stage \in {"info", "assert"}, Q \in SUBSET Hosts : Enter(p, stage, Q)
    BY <1>1, <1>3, Zenon DEF Assert
  <2>3. LoopTypes' /\ LoopInv'
    BY <1>1, <1>3, <2>1, <2>2, EnterKeepsLoops, Zenon DEF Assert, Stages, Making
  <2>4. faults' \in 0..MaxFaults
    BY <1>3, FaultsAreFew, Zenon DEF Assert, TypesInv
  <2> QED
    BY <1>3, <2>3, <2>4 DEF Assert, TypesInv, SharedTypes
<1>4. ASSUME NEW q \in Hosts, GetInfo(p, q)
      PROVE  LoopTypes' /\ LoopInv' /\ SharedTypes'
  <2>1. InfoOf(q) \in Infos
    BY Zenon DEF InfoOf, Infos
  <2>2. LoopTypes'
    BY <1>4, <2>1, Zenon DEF GetInfo, TypesInv, LoopTypes
  <2>3. LoopInv'
    BY <1>4, Zenon DEF GetInfo, TypesInv, LoopTypes, LoopInv, sharedVars
  <2> QED
    BY <1>4, <2>2, <2>3, Zenon DEF GetInfo, sharedVars, TypesInv, SharedTypes
<1>5. ASSUME Observe(p)
      PROVE  LoopTypes' /\ LoopInv' /\ SharedTypes'
  <2>1. faults' \in 0..MaxFaults
    BY <1>5, FaultsAreFew, Zenon DEF Observe, TypesInv
  <2>2. ASSUME NEW q \in peers[p], Running(q), NEW n \in 0..Cardinality(Hosts)
        PROVE  [cluster |-> process[q].cluster, healthy |-> n]
                   \in [cluster : Clusters \cup {None}, healthy : Nat]
    <3>1. process[q] \in Processes
      BY <1>1, <2>2, Zenon DEF Running, TypesInv, HostInv, TypeOK
    <3>2. process[q].cluster \in Clusters
      BY <3>1, Zenon DEF Processes
    <3>3. n \in Nat
      BY FormationAssumption
    <3> QED
      BY <3>2, <3>3, Zenon
  <2>3. seen' \in [Leaders -> [cluster : Clusters \cup {None}, healthy : Nat]]
    <3>1. \/ UNCHANGED seen
          \/ \E q \in peers[p], n \in 0..Cardinality(Hosts) :
                /\ Running(q)
                /\ seen' = [seen EXCEPT ![p] = [cluster |-> process[q].cluster, healthy |-> n]]
      BY <1>5, Zenon DEF Observe
    <3>2. seen \in [Leaders -> [cluster : Clusters \cup {None}, healthy : Nat]]
      BY Zenon DEF TypesInv, LoopTypes
    <3> QED
      BY <2>2, <3>1, <3>2
  <2>4. LoopTypes' /\ LoopInv'
    BY <1>5, <2>3, Zenon DEF Observe, Enter, TypesInv, LoopTypes, LoopInv, Stages, Making
  <2> QED
    BY <1>5, <2>1, <2>4, Zenon DEF Observe, TypesInv, SharedTypes
<1> QED
  BY <1>2, <1>3, <1>4, <1>5, Zenon

(* The decision.                                                           *)
LEMMA DecidingKeepsLoops ==
  ASSUME TypesInv, NEW p \in Leaders,
         \/ \E P \in SUBSET Hosts : BeginCreate(p, P)
         \/ BeginLift(p) \/ BeginRequarantine(p)
  PROVE  LoopTypes' /\ LoopInv' /\ SharedTypes'
<1>1. NoInfo \in [Hosts -> Infos] /\ Unseen \in [cluster : Clusters \cup {None}, healthy : Nat]
  BY Zenon DEF NoInfo, Infos, Unseen
<1>2. peers[p] \in SUBSET Hosts
  BY Zenon DEF TypesInv, LoopTypes
<1>3. ASSUME NEW P \in SUBSET Hosts, BeginCreate(p, P)
      PROVE  LoopTypes' /\ LoopInv' /\ SharedTypes'
  <2>1. PICK c \in Clusters : c = FreshCluster
    BY <1>3, Zenon DEF BeginCreate, FreshCluster
  <2>2. /\ creating' = [creating EXCEPT ![p] = c] /\ c # None
        /\ info' = [info EXCEPT ![p] = NoInfo]
        /\ seen' = [seen EXCEPT ![p] = Unseen]
        /\ UNCHANGED <<peers, accepted, acked, created, opened, faults>>
        /\ \E stage \in {"stop", "broadcast"}, Q \in SUBSET Hosts : Enter(p, stage, Q)
    BY <1>2, <1>3, <2>1, HostAssumption, Zenon DEF BeginCreate
  <2>3. nodes' \in [Clusters -> SUBSET Hosts]
    BY <1>3, Zenon DEF BeginCreate, TypesInv, SharedTypes
  <2>4. LoopTypes'
    BY <1>1, <2>2 DEF Enter, TypesInv, LoopTypes, Stages
  <2>5. LoopInv'
    BY <2>2, Zenon DEF Enter, TypesInv, LoopTypes, LoopInv, Making
  <2> QED
    BY <2>2, <2>3, <2>4, <2>5, Zenon DEF TypesInv, SharedTypes
<1>4. ASSUME BeginLift(p) \/ BeginRequarantine(p)
      PROVE  LoopTypes' /\ LoopInv' /\ SharedTypes'
  <2>1. /\ pc[p] = "decide" /\ created /\ UNCHANGED <<creating, sharedVars>>
        /\ \E stage \in {"lift", "requarantine"}, Q \in SUBSET Hosts : Enter(p, stage, Q)
        /\ Decided(p)
    BY <1>2, <1>4, Zenon DEF BeginLift, BeginRequarantine
  <2>2. LoopTypes'
    BY <1>1, <2>1 DEF Enter, Decided, TypesInv, LoopTypes, Stages
  <2>3. LoopInv'
    BY <2>1, Zenon DEF Enter, Decided, TypesInv, LoopTypes, LoopInv, Making, sharedVars
  <2> QED
    BY <2>1, <2>2, <2>3, Zenon DEF TypesInv, SharedTypes, sharedVars
<1> QED
  BY <1>3, <1>4, Zenon

(* The requests to the hosts.                                              *)
LEMMA CallingKeepsLoops ==
  ASSUME TypesInv, NEW p \in Leaders, NEW q \in Hosts,
         \/ StopCall(p, q) \/ PrepareCall(p, q) \/ InitialCall(p, q)
         \/ QuarantineCall(p, q, "lift") \/ QuarantineCall(p, q, "requarantine")
  PROVE  LoopTypes' /\ LoopInv' /\ SharedTypes'
<1>1. /\ pc[p] \in {"stop", "prepare", "initial", "lift", "requarantine"}
      /\ UNCHANGED <<accepted, acked, nodes, created>>
      /\ \E reply, o : Deliver(p, q, reply, o)
  BY Zenon DEF StopCall, PrepareCall, InitialCall, QuarantineCall, Calling
<1>2. UNCHANGED opened \/ RecordOpened
  BY Zenon DEF StopCall, PrepareCall, InitialCall, QuarantineCall
<1>3. opened' \subseteq Clusters
  BY <1>2, Zenon DEF RecordOpened, TypesInv, SharedTypes
<1>4. LoopTypes' /\ LoopInv' /\ faults' \in 0..MaxFaults
  BY <1>1, DeliverKeepsLoops
<1> QED
  BY <1>1, <1>3, <1>4, Zenon DEF TypesInv, SharedTypes

(* The cycles that end, and the restarts.                                  *)
LEMMA EndingKeepsLoops ==
  ASSUME TypesInv, NEW p \in Leaders,
         \/ Decline(p) \/ MarkCreated(p) \/ StoreFails(p)
         \/ \E q \in Hosts : AssertRejected(p, q) \/ CallFails(p, q)
  PROVE  LoopTypes' /\ LoopInv' /\ SharedTypes'
<1>1. /\ Return(p) /\ (created => created') /\ created' \in BOOLEAN
      /\ UNCHANGED <<accepted, acked, nodes, opened>>
  BY Zenon DEF Decline, MarkCreated, StoreFails, AssertRejected, CallFails, sharedVars, TypesInv,
         SharedTypes
<1>2. faults' \in 0..MaxFaults
  BY FaultsAreFew, Zenon
     DEF Decline, MarkCreated, StoreFails, AssertRejected, CallFails, sharedVars, TypesInv, NoFault
<1>3. LoopTypes' /\ LoopInv'
  BY <1>1, ReturnKeepsLoops, Zenon DEF Return
<1> QED
  BY <1>1, <1>2, <1>3, Zenon DEF TypesInv, SharedTypes

LEMMA BroadcastKeepsLoops ==
  ASSUME TypesInv, NEW p \in Leaders, Broadcast(p)
  PROVE  LoopTypes' /\ LoopInv' /\ SharedTypes'
<1>1. UNCHANGED <<accepted, acked, nodes, created, opened>> /\ faults' \in 0..MaxFaults
  BY FaultsAreFew, Zenon DEF Broadcast, TypesInv
<1>2. CASE Return(p)
  BY <1>1, <1>2, ReturnKeepsLoops, Zenon DEF Return, TypesInv, SharedTypes
<1>3. CASE /\ Enter(p, "prepare", nodes[creating[p]])
           /\ peers' = [peers EXCEPT ![p] = {}]
           /\ UNCHANGED <<info, seen, creating>>
  <2>1. creating[p] # None /\ info[p] = NoInfo
    BY Zenon DEF Broadcast, TypesInv, LoopInv, Making
  <2>2. nodes[creating[p]] \in SUBSET Hosts /\ peers' \in [Leaders -> SUBSET Hosts]
    BY <1>3, <2>1, Zenon DEF TypesInv, LoopTypes, SharedTypes
  <2>3. LoopTypes' /\ LoopInv'
    BY <1>1, <1>3, <2>1, <2>2, EnterKeepsLoops, Zenon DEF Stages, Making
  <2> QED
    BY <1>1, <2>3, Zenon DEF TypesInv, SharedTypes
<1> QED
  BY <1>2, <1>3, Zenon DEF Broadcast

LEMMA LosingKeepsLoops ==
  ASSUME TypesInv, NEW q \in Hosts, NEW S, Lose(q, S), NEW kind, Fault(kind) \/ UNCHANGED faults
  PROVE  LoopTypes' /\ LoopInv' /\ SharedTypes'
<1>1. LoopTypes' /\ LoopInv'
  BY ReturnKeepsLoops, Zenon DEF Lose
<1>2. faults' \in 0..MaxFaults
  BY FaultsAreFew, Zenon DEF TypesInv, NoFault
<1> QED
  BY <1>1, <1>2, Zenon DEF Lose, TypesInv, SharedTypes

(* What happens to a host, or to etcd, from outside.                       *)
LEMMA HostsKeepLoops ==
  ASSUME TypesInv, NEW q \in Hosts,
         \/ PrepareExpires(q) \/ EtcdExits(q) \/ EtcdFounds(q)
         \/ \E o \in Outcome : Supervise(q, o)
  PROVE  LoopTypes' /\ LoopInv' /\ SharedTypes'
<1>1. UNCHANGED <<loopVars, accepted, acked, nodes, created>>
  BY Zenon DEF PrepareExpires, EtcdExits, EtcdFounds, Supervise
<1>2. faults' \in 0..MaxFaults
  BY FaultsAreFew, Zenon DEF PrepareExpires, EtcdExits, EtcdFounds, Supervise, TypesInv, NoFault
<1>3. UNCHANGED opened \/ RecordOpened
  BY Zenon DEF PrepareExpires, EtcdExits, EtcdFounds, Supervise
<1>4. opened' \subseteq Clusters
  BY <1>3, Zenon DEF RecordOpened, TypesInv, SharedTypes
<1> QED
  BY <1>1, <1>2, <1>4, Zenon DEF TypesInv, SharedTypes, LoopTypes, LoopInv, loopVars

LEMMA TypesStep ==
  ASSUME TypesInv, [Next]_vars
  PROVE  TypesInv'
<1>1. HostInv'
  BY HostsStep, NextHostInv, Zenon DEF TypesInv
<1>2. ASSUME NEW p \in Leaders, Control(p)
      PROVE  LoopTypes' /\ LoopInv' /\ SharedTypes'
  <2>1. ASSUME NEW q \in Hosts, CallPanics(p, q)
        PROVE  LoopTypes' /\ LoopInv' /\ SharedTypes'
    BY <2>1, LosingKeepsLoops, Zenon DEF CallPanics
  <2> QED
    BY <1>2, <2>1, ObservingKeepsLoops, DecidingKeepsLoops, CallingKeepsLoops, EndingKeepsLoops,
       BroadcastKeepsLoops, Zenon DEF Control
<1>3. ASSUME NEW p \in Leaders, NEW q \in Hosts, AcceptBid(p, q)
      PROVE  LoopTypes' /\ LoopInv' /\ SharedTypes'
  BY <1>3, Zenon DEF AcceptBid, loopVars, TypesInv, LoopTypes, SharedTypes, LoopInv
<1>4. ASSUME NEW q \in Hosts, HostRestarts(q)
      PROVE  LoopTypes' /\ LoopInv' /\ SharedTypes'
  BY <1>4, LosingKeepsLoops, Zenon DEF HostRestarts
<1>5. ASSUME UNCHANGED vars
      PROVE  LoopTypes' /\ LoopInv' /\ SharedTypes'
  BY <1>5, Zenon DEF vars, loopVars, sharedVars, TypesInv, LoopTypes, SharedTypes, LoopInv
<1>6. ASSUME NEW q \in Hosts,
             \/ PrepareExpires(q) \/ EtcdExits(q) \/ EtcdFounds(q)
             \/ \E o \in Outcome : Supervise(q, o)
      PROVE  LoopTypes' /\ LoopInv' /\ SharedTypes'
  BY <1>6, HostsKeepLoops, Zenon
<1>7. LoopTypes' /\ LoopInv' /\ SharedTypes'
  BY <1>2, <1>3, <1>4, <1>5, <1>6, Zenon DEF Next
<1> QED
  BY <1>1, <1>7, Zenon DEF TypesInv

LEMMA TypesInit == Init => TypesInv
<1> SUFFICES ASSUME Init PROVE TypesInv
  BY Zenon
<1>1. HostInv
  BY InitHostInv, Zenon DEF Init
<1>2. LoopTypes /\ LoopInv
  BY Zenon DEF Init, LoopTypes, LoopInv, Stages, NoInfo, Infos, Unseen, Making
<1>3. faults \in 0..MaxFaults
  BY FormationAssumption DEF Init
<1>4. SharedTypes
  BY <1>3, Zenon DEF Init, SharedTypes
<1> QED
  BY <1>1, <1>2, <1>4, Zenon DEF TypesInv

(* The types of the loops, of the store and of the hosts.                  *)
THEOREM FormationTypes == Spec => []FormationTypeOK
<1>1. TypesInv /\ [Next]_vars => TypesInv'
  BY TypesStep, Zenon
<1>2. TypesInv => FormationTypeOK
  BY Zenon DEF TypesInv, HostInv, LoopTypes, SharedTypes, FormationTypeOK
<1> QED
  BY <1>1, <1>2, TypesInit, PTL DEF Spec

(* Each call of a leader (createNewCluster, updateQuarantine), restart,    *)
(* exit and expiry is a step that EtcdHost allows a host, so the theorems  *)
(* about hosts on their own are about hosts under leaders too: etcd runs   *)
(* what GetInfo reports, and a restart resumes it.                         *)
THEOREM HostsStaySoundUnderLeaders ==
    Spec => [](ProcessMatchesState /\ StateIsDurable)
<1>1. Init => HostInit
  BY Zenon DEF Init
<1>2. TypesInv /\ [Next]_vars => [HostNext]_hostVars
  BY HostsStep, Zenon
<1>3. TypesInv /\ [Next]_vars => TypesInv'
  BY TypesStep
<1>4. Spec => HostSpec
  BY <1>1, <1>2, <1>3, TypesInit, PTL DEF Spec, HostSpec
<1> QED
  BY <1>4, ProcessAlwaysMatches, StateSurvivesRestart, PTL

-----------------------------------------------------------------------------
(* Stale information *)

(* A host that still honours p's token is configured if p was told so: p   *)
(* offers its token only before it asks, and whatever another leader or a  *)
(* restart does to the host takes the token away.                          *)
FenceInv ==
    \A p \in Leaders, q \in Hosts :
        accepted[q] = p /\ (info[p][q] # "idle" \/ (pc[p] = "stop" /\ q \in todo[p]))
            => Configured(q)

(* A loop that learns nothing and goes on to stop no further host.         *)
Forgets(p) ==
    /\ info'[p] = info[p] \/ info'[p] = NoInfo
    /\ pc'[p] = "stop" => pc[p] = "stop" /\ todo'[p] \subseteq todo[p]

LEMMA FenceFrame ==
  ASSUME FenceInv, \A p \in Leaders : Forgets(p),
         \A q \in Hosts : accepted'[q] \in {accepted[q], None},
         \A q \in Hosts : Configured(q) => Configured(q)' \/ accepted'[q] = None
  PROVE  FenceInv'
<1> SUFFICES ASSUME NEW p \in Leaders, NEW q \in Hosts, accepted'[q] = p,
                    info'[p][q] # "idle" \/ (pc'[p] = "stop" /\ q \in todo'[p])
             PROVE  Configured(q)'
  BY Zenon DEF FenceInv
<1>1. p # None
  BY FormationAssumption, Zenon
<1>2. accepted[q] = p
  BY <1>1, Zenon
<1>3. info[p][q] # "idle" \/ (pc[p] = "stop" /\ q \in todo[p])
  BY Zenon DEF Forgets, NoInfo
<1> QED
  BY <1>1, <1>2, <1>3, Zenon DEF FenceInv

LEMMA ReturnForgets ==
  ASSUME NEW S, ReturnAll(S), NEW p \in Leaders
  PROVE  Forgets(p)
  BY Zenon DEF ReturnAll, Forgets

LEMMA EnterForgets ==
  ASSUME TypesInv, NEW p \in Leaders, NEW stage, NEW Q, Enter(p, stage, Q),
         stage = "stop" => pc[p] = "stop" /\ Q \subseteq todo[p],
         UNCHANGED info \/ info' = [info EXCEPT ![p] = NoInfo], NEW r \in Leaders
  PROVE  Forgets(r)
  BY Zenon DEF Enter, Forgets, TypesInv, LoopTypes

LEMMA DeliverForgets ==
  ASSUME TypesInv, NEW p \in Leaders, NEW q \in Hosts, NEW reply, NEW o, Deliver(p, q, reply, o)
  PROVE  \A r \in Leaders : Forgets(r)
<1>1. CASE Return(p)
  BY <1>1, ReturnForgets, Zenon DEF Return
<1>2. CASE Proceed(p, q) /\ UNCHANGED <<peers, info, seen, creating>>
  <2>1. \E stage, Q : /\ Enter(p, stage, Q)
                      /\ stage = "stop" => pc[p] = "stop" /\ Q \subseteq todo[p]
    BY <1>2 DEF Proceed
  <2> QED
    BY <1>2, <2>1, EnterForgets, Zenon
<1> QED
  BY <1>1, <1>2, Zenon DEF Deliver

(* StopEtcd: its leader has done with the host, whatever the answer.       *)
LEMMA StopKeepsFence ==
  ASSUME TypesInv, FenceInv, NEW p \in Leaders, NEW q \in Hosts, StopCall(p, q)
  PROVE  FenceInv'
<1>1. PICK o, d, reply : StopEtcd(q, o, d, reply) /\ Deliver(p, q, reply, o)
  BY Zenon DEF StopCall
<1>2. accepted[q] = p /\ UNCHANGED accepted /\ pc[p] = "stop"
  BY Zenon DEF StopCall, Calling, Validated
<1>3. \A r \in Hosts \ {q} : state'[r] = state[r]
  BY <1>1, Zenon DEF StopEtcd, Becomes, TypesInv, HostInv, TypeOK
<1>4. info'[p] = NoInfo /\ ~(pc'[p] = "stop" /\ q \in todo'[p])
  <2>1. CASE Return(p)
    BY <2>1, Zenon DEF Return, ReturnAll
  <2>2. CASE Proceed(p, q) /\ UNCHANGED <<peers, info, seen, creating>>
    <3>1. info[p] = NoInfo
      BY <1>2, Zenon DEF TypesInv, LoopInv
    <3>2. pc'[p] = "broadcast" \/ todo'[p] = todo[p] \ {q}
      BY <1>2, <2>2, Zenon DEF Proceed, Enter, TypesInv, LoopTypes
    <3> QED
      BY <2>2, <3>1, <3>2, Zenon
  <2> QED
    BY <1>1, <1>2, <2>1, <2>2, Zenon DEF Deliver
<1>5. \A r \in Leaders : Forgets(r)
  BY <1>1, DeliverForgets, Zenon
<1> SUFFICES ASSUME NEW r \in Leaders, NEW h \in Hosts, accepted'[h] = r,
                    info'[r][h] # "idle" \/ (pc'[r] = "stop" /\ h \in todo'[r])
             PROVE  Configured(h)'
  BY Zenon DEF FenceInv
<1>6. h # q
  BY <1>2, <1>4, Zenon DEF NoInfo
<1>7. info[r][h] # "idle" \/ (pc[r] = "stop" /\ h \in todo[r])
  BY <1>5, Zenon DEF Forgets, NoInfo
<1>8. Configured(h)
  BY <1>2, <1>7, Zenon DEF FenceInv
<1> QED
  BY <1>3, <1>6, <1>8, Zenon DEF Configured

(* The other requests leave a cluster in the state of the host.            *)
LEMMA CallsKeepFence ==
  ASSUME TypesInv, FenceInv, NEW p \in Leaders, NEW q \in Hosts,
         \/ PrepareCall(p, q) \/ InitialCall(p, q)
         \/ QuarantineCall(p, q, "lift") \/ QuarantineCall(p, q, "requarantine")
  PROVE  FenceInv'
<1>1. UNCHANGED accepted /\ \E reply, o : Deliver(p, q, reply, o)
  BY Zenon DEF PrepareCall, InitialCall, QuarantineCall
<1>2. \A r \in Leaders : Forgets(r)
  BY <1>1, DeliverForgets, Zenon
<1>3. \/ UNCHANGED state
      \/ \E s : s # None /\ s.cluster # None /\ state' = [state EXCEPT ![q] = s]
  <2>1. CASE PrepareCall(p, q)
    BY <2>1, Zenon DEF PrepareCall, JoinPrepare
  <2>2. CASE InitialCall(p, q)
    <3>1. creating[p] \in Clusters
      BY <2>2, Zenon DEF InitialCall, Calling, TypesInv, LoopTypes, LoopInv, Making
    <3>2. \A new \in BOOLEAN : LET s == Joined(creating[p], Version, new, TRUE)
                               IN  s \in States /\ s.cluster # None
      BY <3>1, VersionIsKnown, JoinedState, Zenon
    <3>3. \/ UNCHANGED state
          \/ \E new \in BOOLEAN :
                state' = [state EXCEPT ![q] = Joined(creating[p], Version, new, TRUE)]
      BY <2>2, Zenon DEF InitialCall, JoinInitial, JoinRefused, Becomes
    <3> QED
      BY <3>2, <3>3, StateAssumption, Zenon
  <2>3. CASE QuarantineCall(p, q, "lift") \/ QuarantineCall(p, q, "requarantine")
    <3>1. PICK quarantined \in BOOLEAN : \E o, d, r : Reconfigure(q, quarantined, None, o, d, r)
      BY <2>3, Zenon DEF QuarantineCall
    <3> DEFINE s == [cluster |-> state[q].cluster, new |-> state[q].new,
                     quarantined |-> quarantined, version |-> state[q].version]
    <3>2. UNCHANGED state \/ state' = [state EXCEPT ![q] = s]
      BY <3>1, Zenon DEF Reconfigure, Becomes
    <3>3. state[q] \in States /\ state[q].cluster # None /\ quarantined \in BOOLEAN
      BY <3>1, Zenon DEF Reconfigure, Configured, TypesInv, HostInv, TypeOK
    <3>4. s \in States /\ s.cluster # None
      BY <3>3, Zenon DEF States
    <3> QED
      BY <3>2, <3>4, StateAssumption, Zenon
  <2> QED
    BY <2>1, <2>2, <2>3, Zenon
<1>4. \A h \in Hosts : Configured(h) => Configured(h)'
  BY <1>3, Zenon DEF Configured, TypesInv, HostInv, TypeOK
<1> QED
  BY <1>1, <1>2, <1>4, FenceFrame, Zenon

(* A bid or an assertion comes before its leader has asked anything.       *)
LEMMA TokensKeepFence ==
  ASSUME TypesInv, FenceInv, NEW p \in Leaders, NEW q \in Hosts, AcceptBid(p, q) \/ Assert(p, q)
  PROVE  FenceInv'
<1>1. /\ info[p] = NoInfo /\ pc[p] # "stop" /\ UNCHANGED <<state, info>>
      /\ pc' = [pc EXCEPT ![p] = pc'[p]] /\ pc'[p] # "stop"
      /\ \A r \in Leaders \ {p} : todo'[r] = todo[r]
      /\ accepted' = [accepted EXCEPT ![q] = p] \/ UNCHANGED accepted
  BY Zenon DEF AcceptBid, Assert, Enter, hostVars, loopVars, TypesInv, LoopTypes, LoopInv
<1> SUFFICES ASSUME NEW r \in Leaders, NEW h \in Hosts, accepted'[h] = r,
                    info'[r][h] # "idle" \/ (pc'[r] = "stop" /\ h \in todo'[r])
             PROVE  Configured(h)'
  BY Zenon DEF FenceInv
<1>2. r # p
  BY <1>1, Zenon DEF NoInfo
<1>3. accepted[h] = r /\ pc'[r] = pc[r]
  BY <1>1, <1>2, Zenon DEF TypesInv, SharedTypes, LoopTypes
<1> QED
  BY <1>1, <1>2, <1>3, Zenon DEF FenceInv, Configured

(* What a leader is told, and what it then sets out to stop.               *)
LEMMA LearningKeepsFence ==
  ASSUME TypesInv, FenceInv, NEW p \in Leaders,
         (\E q \in Hosts : GetInfo(p, q)) \/ (\E P \in SUBSET Hosts : BeginCreate(p, P))
  PROVE  FenceInv'
<1>1. UNCHANGED <<state, accepted>>
  BY Zenon DEF GetInfo, BeginCreate, hostVars, sharedVars
<1> SUFFICES ASSUME NEW r \in Leaders, NEW h \in Hosts, accepted'[h] = r,
                    info'[r][h] # "idle" \/ (pc'[r] = "stop" /\ h \in todo'[r])
             PROVE  Configured(h)'
  BY Zenon DEF FenceInv
<1>2. ASSUME NEW q \in Hosts, GetInfo(p, q)
      PROVE  Configured(h)'
  <2>1. UNCHANGED pc /\ todo'[r] \subseteq todo[r]
    BY <1>2, Zenon DEF GetInfo, TypesInv, LoopTypes
  <2>2. info'[r][h] = info[r][h] \/ (h = q /\ info'[r][h] = InfoOf(q))
    BY <1>2, Zenon DEF GetInfo, TypesInv, LoopTypes
  <2>3. CASE info'[r][h] = info[r][h]
    BY <1>1, <2>1, <2>3, Zenon DEF FenceInv, Configured
  <2>4. CASE h = q /\ info'[r][h] = InfoOf(q)
    <3>1. CASE InfoOf(q) # "idle"
      BY <1>1, <2>4, <3>1, Zenon DEF InfoOf, Configured
    <3>2. CASE InfoOf(q) = "idle"
      BY <1>1, <2>1, <2>4, <3>2, Zenon DEF FenceInv, Configured
    <3> QED
      BY <3>1, <3>2, Zenon
  <2> QED
    BY <2>2, <2>3, <2>4, Zenon
<1>3. ASSUME NEW P \in SUBSET Hosts, BeginCreate(p, P)
      PROVE  Configured(h)'
  <2>1. /\ r # p => info'[r] = info[r] /\ pc'[r] = pc[r] /\ todo'[r] = todo[r]
        /\ r = p => info'[r] = NoInfo /\ todo'[r] \subseteq {q \in peers[p] : info[p][q] # "idle"}
    BY <1>3, Zenon DEF BeginCreate, Enter, TypesInv, LoopTypes
  <2>2. info[r][h] # "idle" \/ (pc[r] = "stop" /\ h \in todo[r])
    BY <2>1, Zenon DEF NoInfo
  <2> QED
    BY <1>1, <2>2, Zenon DEF FenceInv, Configured
<1> QED
  BY <1>2, <1>3, Zenon

(* A restart or a panic takes the token away from whoever held it.         *)
LEMMA LosingKeepsFence ==
  ASSUME TypesInv, FenceInv, NEW q \in Hosts, NEW S, Lose(q, S), Restart(q)
  PROVE  FenceInv'
<1>1. \A r \in Leaders : Forgets(r)
  BY ReturnForgets, Zenon DEF Lose
<1>2. accepted' = [accepted EXCEPT ![q] = None]
  BY Zenon DEF Lose
<1>3. \A h \in Hosts : accepted'[h] \in {accepted[h], None}
  BY <1>2, Zenon DEF TypesInv, SharedTypes
<1>4. \A h \in Hosts : Configured(h) => Configured(h)' \/ accepted'[h] = None
  BY <1>2, Zenon DEF Restart, Configured, TypesInv, SharedTypes, HostInv, TypeOK
<1> QED
  BY <1>1, <1>3, <1>4, FenceFrame, Zenon

(* The steps of a loop that touch neither a host nor its token.            *)
LEMMA QuietKeepsFence ==
  ASSUME TypesInv, FenceInv, NEW p \in Leaders,
         \/ \E A \in Views : BeginCycle(p, A)
         \/ Observe(p) \/ BeginLift(p) \/ BeginRequarantine(p) \/ Decline(p) \/ Broadcast(p)
         \/ MarkCreated(p) \/ StoreFails(p)
         \/ \E q \in Hosts : AssertRejected(p, q) \/ CallFails(p, q)
  PROVE  FenceInv'
<1>1. UNCHANGED <<state, accepted>>
  BY Zenon DEF BeginCycle, Observe, BeginLift, BeginRequarantine, Decline, Broadcast, MarkCreated,
         StoreFails, AssertRejected, CallFails, hostVars, sharedVars
<1>2. \/ Return(p)
      \/ /\ \E stage \in Stages \ {"stop"} : \E Q : Enter(p, stage, Q)
         /\ UNCHANGED info \/ info' = [info EXCEPT ![p] = NoInfo]
  BY Zenon DEF BeginCycle, Observe, BeginLift, BeginRequarantine, Decline, Broadcast, MarkCreated,
         StoreFails, AssertRejected, CallFails, Decided, Stages
<1>3. \A r \in Leaders : Forgets(r)
  BY <1>2, ReturnForgets, EnterForgets, Zenon DEF Return
<1>4. \A h \in Hosts : Configured(h) => Configured(h)'
  BY <1>1, Zenon DEF Configured
<1> QED
  BY <1>1, <1>3, <1>4, FenceFrame, Zenon

LEMMA FenceStep ==
  ASSUME TypesInv, FenceInv, [Next]_vars
  PROVE  FenceInv'
<1>1. ASSUME NEW p \in Leaders, Control(p)
      PROVE  FenceInv'
  <2>1. ASSUME NEW q \in Hosts, CallPanics(p, q)
        PROVE  FenceInv'
    BY <2>1, LosingKeepsFence, Zenon DEF CallPanics, RequestPanics
  <2> QED
    BY <1>1, <2>1, StopKeepsFence, CallsKeepFence, TokensKeepFence, LearningKeepsFence,
       QuietKeepsFence, Zenon DEF Control
<1>2. ASSUME NEW p \in Leaders, NEW q \in Hosts, AcceptBid(p, q)
      PROVE  FenceInv'
  BY <1>2, TokensKeepFence, Zenon
<1>3. ASSUME NEW q \in Hosts, HostRestarts(q)
      PROVE  FenceInv'
  BY <1>3, LosingKeepsFence, Zenon DEF HostRestarts
<1>4. ASSUME \/ \E q \in Hosts : \/ PrepareExpires(q) \/ EtcdExits(q) \/ EtcdFounds(q)
                                 \/ \E o \in Outcome : Supervise(q, o)
             \/ UNCHANGED vars
      PROVE  FenceInv'
  <2>1. UNCHANGED <<state, accepted, loopVars>>
    BY <1>4, Zenon DEF PrepareExpires, EtcdExits, EtcdFounds, Supervise, Expire, ProcessExits,
                EtcdInitialises, RunOnce, vars, hostVars, sharedVars
  <2> QED
    BY <2>1, Zenon DEF FenceInv, Configured, loopVars
<1> QED
  BY <1>1, <1>2, <1>3, <1>4, Zenon DEF Next

(* A leader acts on what GetInfo said a while ago, but a host that has     *)
(* been stopped or restarted since refuses its token, so that StopEtcd     *)
(* always finds a cluster to look into: for any number of leaders, with    *)
(* any views, and under any faults.                                        *)
THEOREM StaleInfoIsAlwaysFenced == Spec => []StaleInfoIsFenced
<1>1. Init => FenceInv
  BY DEF Init, FenceInv, NoInfo
<1>2. TypesInv /\ FenceInv /\ [Next]_vars => TypesInv' /\ FenceInv'
  BY TypesStep, FenceStep, Zenon
<1>3. FenceInv => StaleInfoIsFenced
  BY Zenon DEF FenceInv, StaleInfoIsFenced, Calling, Validated
<1> QED
  BY <1>1, <1>2, <1>3, TypesInit, PTL DEF Spec

-----------------------------------------------------------------------------
(* Quarantine *)

Closed(s) == s.cluster # None => s.quarantined
AllClosed ==
    \A q \in Hosts : /\ state[q] # None => Closed(state[q])
                     /\ disk[q] \notin {None, Corrupt} => Closed(disk[q])

(* Until the marker is set every etcd is in quarantine, after whatever     *)
(* restarts, and no client has been let in.                                *)
ClosedInv == ~created => opened = {} /\ AllClosed

LEMMA BecomesClosed ==
  ASSUME TypesInv, AllClosed, NEW h \in Hosts, NEW s, NEW written, NEW saved, NEW p,
         Becomes(h, s, written, saved, p), Closed(s),
         written \notin {None, Corrupt} => Closed(written)
  PROVE  AllClosed'
  BY Zenon DEF Becomes, AllClosed, TypesInv, HostInv, TypeOK

LEMMA LeftoverIsClosed ==
  ASSUME NEW old, old \notin {None, Corrupt} => Closed(old), NEW d \in Leftovers
  PROVE  LeftBy(d, old) \notin {None, Corrupt} => Closed(LeftBy(d, old))
<1>1. Closed(EmptyState)
  BY Zenon DEF Closed, EmptyState
<1> QED
  BY <1>1, Zenon DEF Leftovers, LeftBy

(* createNewCluster starts etcd in quarantine.                             *)
LEMMA CreatingKeepsClosed ==
  ASSUME TypesInv, AllClosed, NEW p \in Leaders, NEW q \in Hosts,
         StopCall(p, q) \/ InitialCall(p, q)
  PROVE  AllClosed'
<1>1. disk[q] \notin {None, Corrupt} => Closed(disk[q])
  BY Zenon DEF AllClosed
<1>2. Closed(EmptyState)
  BY Zenon DEF Closed, EmptyState
<1>3. \A new : Closed(Joined(creating[p], Version, new, TRUE))
  BY Zenon DEF Closed, Joined
<1>4. ASSUME UNCHANGED <<state, disk>> PROVE AllClosed'
  BY <1>4, Zenon DEF AllClosed
<1>5. CASE StopCall(p, q)
  <2>1. PICK o \in Outcome, d \in Leftovers, r \in Replies : StopEtcd(q, o, d, r)
    BY <1>5, Zenon DEF StopCall
  <2>2. \/ UNCHANGED <<state, disk>>
        \/ Becomes(q, EmptyState, LeftBy(d, disk[q]), FALSE, None)
        \/ Becomes(q, EmptyState, EmptyState, TRUE, None)
    BY <2>1, Zenon DEF StopEtcd
  <2>3. LeftBy(d, disk[q]) \notin {None, Corrupt} => Closed(LeftBy(d, disk[q]))
    BY <1>1, LeftoverIsClosed, Zenon
  <2> QED
    BY <1>2, <1>4, <2>2, <2>3, BecomesClosed, Zenon
<1>6. CASE InitialCall(p, q)
  <2> DEFINE new == Joined(creating[p], Version, TRUE, TRUE)
             existing == Joined(creating[p], Version, FALSE, TRUE)
  <2>1. PICK o \in Outcome, d \in Leftovers, r \in Replies :
            \/ JoinInitial(q, creating[p], Version, o, d, r)
            \/ JoinRefused(q, creating[p], Version, r)
    BY <1>6, Zenon DEF InitialCall
  <2>2. Closed(new) /\ Closed(existing)
    BY <1>3, Zenon
  <2>3. \/ UNCHANGED <<state, disk>>
        \/ Becomes(q, existing, existing, TRUE, Started(new))
        \/ Becomes(q, new, LeftBy(d, disk[q]), FALSE, None)
        \/ Becomes(q, new, new, TRUE, None)
        \/ Becomes(q, existing, LeftBy(d, new), FALSE, Started(new))
    BY <2>1, Zenon DEF JoinInitial, JoinRefused
  <2> HIDE DEF new, existing
  <2>4. /\ LeftBy(d, disk[q]) \notin {None, Corrupt} => Closed(LeftBy(d, disk[q]))
        /\ LeftBy(d, new) \notin {None, Corrupt} => Closed(LeftBy(d, new))
    BY <1>1, <2>2, LeftoverIsClosed, Zenon
  <2> QED
    BY <1>4, <2>2, <2>3, <2>4, BecomesClosed, Zenon
<1> QED
  BY <1>5, <1>6, Zenon

(* While every etcd is in quarantine no client is let in.                  *)
LEMMA ClosedIsNotOpen ==
  ASSUME HostInv', AllClosed', SharedTypes', NEW c \in Clusters
  PROVE  ~Open(c)'
<1> SUFFICES ASSUME NEW q \in Members(c)', ~process'[q].quarantined PROVE FALSE
  BY Zenon DEF Open
<1>1. q \in Hosts /\ process'[q] # None
  BY Zenon DEF Members, Running, SharedTypes
<1>2. /\ state'[q] # None /\ state'[q].cluster # None
      /\ process'[q].quarantined = state'[q].quarantined
  BY <1>1, Zenon DEF HostInv, ProcessMatchesState, Configured
<1> QED
  BY <1>1, <1>2, Zenon DEF AllClosed, Closed

(* The steps that leave the states of the hosts alone.                     *)
LEMMA LoopsKeepStates ==
  ASSUME TypesInv, [Next]_vars
  PROVE  \/ UNCHANGED <<state, disk>>
         \/ \E p \in Leaders, q \in Hosts : StopCall(p, q) \/ InitialCall(p, q)
         \/ \E p \in Leaders, q \in Hosts : \/ QuarantineCall(p, q, "lift")
                                            \/ QuarantineCall(p, q, "requarantine")
         \/ \E q \in Hosts : Restart(q)
<1>1. ASSUME NEW p \in Leaders, Control(p)
      PROVE  \/ UNCHANGED <<state, disk>>
             \/ \E q \in Hosts : StopCall(p, q) \/ InitialCall(p, q)
             \/ \E q \in Hosts : \/ QuarantineCall(p, q, "lift")
                                 \/ QuarantineCall(p, q, "requarantine")
             \/ \E q \in Hosts : Restart(q)
  BY <1>1, Zenon DEF Control, BeginCycle, Assert, AssertRejected, GetInfo, Observe, BeginCreate, BeginLift,
     BeginRequarantine, Decline, Broadcast, CallFails, MarkCreated, StoreFails, PrepareCall,
     JoinPrepare, CallPanics, RequestPanics, hostVars
<1>2. ASSUME \/ \E p \in Leaders, q \in Hosts : AcceptBid(p, q)
             \/ \E q \in Hosts : \/ PrepareExpires(q) \/ EtcdExits(q) \/ EtcdFounds(q)
                                 \/ \E o \in Outcome : Supervise(q, o)
             \/ UNCHANGED vars
      PROVE  UNCHANGED <<state, disk>>
  BY <1>2, Zenon DEF AcceptBid, PrepareExpires, EtcdExits, EtcdFounds, Supervise, Expire, ProcessExits,
              EtcdInitialises, RunOnce, vars, hostVars
<1>3. ASSUME NEW q \in Hosts, HostRestarts(q)
      PROVE  Restart(q)
  BY <1>3, Zenon DEF HostRestarts
<1> QED
  BY <1>1, <1>2, <1>3, Zenon DEF Next

(* The marker stays, and clients are let in by RecordOpened alone.         *)
LEMMA MarkerStays ==
  ASSUME TypesInv, [Next]_vars
  PROVE  /\ created => created'
         /\ \/ UNCHANGED opened
            \/ RecordOpened /\ UNCHANGED <<created, nodes>>
         /\ UNCHANGED nodes \/ ~created
<1>1. ASSUME NEW p \in Leaders, Control(p)
      PROVE  /\ created => created'
             /\ UNCHANGED opened \/ (RecordOpened /\ UNCHANGED <<created, nodes>>)
             /\ UNCHANGED nodes \/ ~created
  <2>1. CASE \E q \in Hosts : QuarantineCall(p, q, "lift") \/ QuarantineCall(p, q, "requarantine")
    BY <2>1 DEF QuarantineCall
  <2>2. CASE \E P \in SUBSET Hosts : BeginCreate(p, P)
    BY <2>2, Zenon DEF BeginCreate
  <2>3. CASE MarkCreated(p)
    BY <2>3, Zenon DEF MarkCreated
  <2>4. CASE \E q \in Hosts : \/ StopCall(p, q) \/ PrepareCall(p, q) \/ InitialCall(p, q)
                             \/ CallFails(p, q) \/ CallPanics(p, q)
    <3>1. UNCHANGED <<nodes, created, opened>>
      BY <2>4, Zenon DEF StopCall, PrepareCall, InitialCall, CallFails, CallPanics, Lose
    <3> QED
      BY <3>1, Zenon
  <2>5. CASE \/ \E A \in Views : BeginCycle(p, A)
             \/ \E q \in Hosts : Assert(p, q) \/ AssertRejected(p, q) \/ GetInfo(p, q)
             \/ Observe(p) \/ BeginLift(p) \/ BeginRequarantine(p) \/ Decline(p) \/ Broadcast(p)
             \/ StoreFails(p)
    <3>1. ASSUME Observe(p)
          PROVE  UNCHANGED <<nodes, created, opened>>
      BY <3>1, Zenon DEF Observe
    <3>2. ASSUME \/ \E A \in Views : BeginCycle(p, A)
                 \/ \E q \in Hosts : Assert(p, q) \/ AssertRejected(p, q) \/ GetInfo(p, q)
          PROVE  UNCHANGED <<nodes, created, opened>>
      BY <3>2, Zenon DEF BeginCycle, Assert, AssertRejected, GetInfo, sharedVars
    <3>3. ASSUME \/ BeginLift(p) \/ BeginRequarantine(p) \/ Decline(p) \/ Broadcast(p)
                 \/ StoreFails(p)
          PROVE  UNCHANGED <<nodes, created, opened>>
      BY <3>3, Zenon DEF BeginLift, BeginRequarantine, Decline, Broadcast, StoreFails, sharedVars
    <3>4. UNCHANGED <<nodes, created, opened>>
      BY <2>5, <3>1, <3>2, <3>3, Zenon
    <3> QED
      BY <3>4
  <2> QED
    BY <1>1, <2>1, <2>2, <2>3, <2>4, <2>5, Zenon DEF Control
<1>2. ASSUME \/ \E p \in Leaders, q \in Hosts : AcceptBid(p, q)
             \/ \E q \in Hosts : \/ HostRestarts(q)
                                 \/ PrepareExpires(q) \/ EtcdExits(q) \/ EtcdFounds(q)
                                 \/ \E o \in Outcome : Supervise(q, o)
             \/ UNCHANGED vars
      PROVE  /\ UNCHANGED <<created, nodes>>
             /\ UNCHANGED opened \/ RecordOpened
  BY <1>2, Zenon DEF AcceptBid, HostRestarts, Lose, PrepareExpires, EtcdExits, EtcdFounds, Supervise, vars,
     sharedVars
<1> QED
  BY <1>1, <1>2 DEF Next

LEMMA ClosedStep ==
  ASSUME TypesInv, ClosedInv, [Next]_vars
  PROVE  ClosedInv'
<1> SUFFICES ASSUME ~created'
             PROVE  opened' = {} /\ AllClosed'
  BY Zenon DEF ClosedInv
<1>1. ~created /\ opened = {} /\ AllClosed
  BY MarkerStays, Zenon DEF ClosedInv
<1>2. AllClosed'
  <2>1. ASSUME NEW p \in Leaders, NEW q \in Hosts,
               QuarantineCall(p, q, "lift") \/ QuarantineCall(p, q, "requarantine")
        PROVE  FALSE
    BY <1>1, <2>1, Zenon DEF QuarantineCall, Calling, TypesInv, LoopInv
  <2>2. ASSUME NEW q \in Hosts, Restart(q)
        PROVE  AllClosed'
    BY <1>1, <2>2, Zenon DEF Restart, AllClosed, TypesInv, HostInv, TypeOK
  <2>3. CASE UNCHANGED <<state, disk>>
    BY <1>1, <2>3, Zenon DEF AllClosed
  <2> QED
    BY <1>1, <2>1, <2>2, <2>3, LoopsKeepStates, CreatingKeepsClosed, Zenon
<1>3. opened' = {}
  <2>1. HostInv' /\ SharedTypes'
    BY TypesStep, Zenon DEF TypesInv
  <2>2. ASSUME NEW c \in Clusters PROVE ~Open(c)'
    BY <1>2, <2>1, ClosedIsNotOpen, Zenon
  <2> QED
    BY <1>1, <2>2, MarkerStays, Zenon DEF RecordOpened
<1> QED
  BY <1>2, <1>3, Zenon

-----------------------------------------------------------------------------
(* The data of an opened cluster *)

(* No controller was still creating a cluster when the marker was set.     *)
NoOverlap == created => \A p \in Leaders : creating[p] = None

(* The marker is set, and whoever was creating a cluster has finished.     *)
Settled == created /\ \A p \in Leaders : creating[p] = None

(* A step begins a creation, or leaves alone the nodes of the clusters and *)
(* at most ends creations.                                                 *)
Begins == \E p \in Leaders, P \in SUBSET Hosts : BeginCreate(p, P)
Ends == UNCHANGED nodes /\ \A p \in Leaders : creating'[p] \in {creating[p], None}

LEMMA CreatingStep ==
  ASSUME TypesInv, [Next]_vars
  PROVE  Begins \/ Ends
<1>1. ASSUME NEW r \in Leaders, Return(r) \/ UNCHANGED creating, UNCHANGED nodes
      PROVE  Ends
  BY <1>1, Zenon DEF Return, ReturnAll, Ends
<1>2. ASSUME NEW r \in Leaders, NEW q \in Hosts, NEW reply, NEW o, Deliver(r, q, reply, o),
             UNCHANGED nodes
      PROVE  Ends
  BY <1>1, <1>2, Zenon DEF Deliver
<1>3. ASSUME NEW r \in Leaders, Control(r)
      PROVE  Begins \/ Ends
  <2>1. CASE \E q \in Hosts : \/ StopCall(r, q) \/ PrepareCall(r, q) \/ InitialCall(r, q)
                              \/ QuarantineCall(r, q, "lift") \/ QuarantineCall(r, q, "requarantine")
    BY <1>2, <2>1, Zenon DEF StopCall, PrepareCall, InitialCall, QuarantineCall
  <2>2. CASE \E q \in Hosts : CallPanics(r, q)
    BY <2>2, Zenon DEF CallPanics, Lose, ReturnAll, Ends
  <2>3. CASE \E P \in SUBSET Hosts : BeginCreate(r, P)
    BY <2>3, Zenon DEF Begins
  <2>4. CASE \/ \E A \in Views : BeginCycle(r, A)
             \/ \E q \in Hosts : Assert(r, q) \/ AssertRejected(r, q) \/ GetInfo(r, q) \/ CallFails(r, q)
             \/ Observe(r) \/ BeginLift(r) \/ BeginRequarantine(r) \/ Decline(r) \/ Broadcast(r)
             \/ StoreFails(r) \/ MarkCreated(r)
    <3>1. (Return(r) \/ UNCHANGED creating) /\ UNCHANGED nodes
      BY <2>4, Zenon DEF BeginCycle, Assert, AssertRejected, GetInfo, CallFails, Observe, BeginLift,
                  BeginRequarantine, Decline, Broadcast, StoreFails, MarkCreated, sharedVars
    <3> QED
      BY <1>1, <3>1, Zenon
  <2> QED
    BY <1>3, <2>1, <2>2, <2>3, <2>4, Zenon DEF Control
<1>4. ASSUME NEW q \in Hosts, HostRestarts(q)
      PROVE  Ends
  BY <1>4, Zenon DEF HostRestarts, Lose, ReturnAll, Ends
<1>5. ASSUME \/ \E r \in Leaders, q \in Hosts : AcceptBid(r, q)
             \/ \E q \in Hosts : \/ PrepareExpires(q) \/ EtcdExits(q) \/ EtcdFounds(q)
                                 \/ \E o \in Outcome : Supervise(q, o)
             \/ UNCHANGED vars
      PROVE  Ends
  BY <1>5, Zenon DEF AcceptBid, PrepareExpires, EtcdExits, EtcdFounds, Supervise, vars, loopVars,
              sharedVars, Ends
<1> QED
  BY <1>3, <1>4, <1>5, Zenon DEF Next

(* Data is lost by StopEtcd alone, which createNewCluster alone calls.     *)
LEMMA DataStep ==
  ASSUME TypesInv, [Next]_vars, \A p \in Leaders : creating[p] = None, NEW h \in Hosts
  PROVE  data[h] \subseteq data'[h]
<1>1. ASSUME NEW p \in Leaders, NEW q \in Hosts, StopCall(p, q)
      PROVE  FALSE
  BY <1>1, Zenon DEF StopCall, Calling, TypesInv, LoopInv, Making
<1>2. ASSUME NEW p \in Leaders, Control(p)
      PROVE  UNCHANGED data
  <2>1. ASSUME NEW q \in Hosts, PrepareCall(p, q) \/ InitialCall(p, q)
        PROVE  UNCHANGED data
    BY <2>1, Zenon DEF PrepareCall, InitialCall, JoinPrepare, JoinInitial, JoinRefused
  <2>2. ASSUME NEW q \in Hosts,
               QuarantineCall(p, q, "lift") \/ QuarantineCall(p, q, "requarantine")
        PROVE  UNCHANGED data
    <3>1. \E quarantined, o, d, r : Reconfigure(q, quarantined, None, o, d, r)
      BY <2>2, Zenon DEF QuarantineCall
    <3> QED
      BY <3>1, Zenon DEF Reconfigure
  <2>3. ASSUME NEW q \in Hosts, CallPanics(p, q)
        PROVE  UNCHANGED data
    BY <2>3, Zenon DEF CallPanics, RequestPanics, Restart
  <2> QED
    BY <1>1, <1>2, <2>1, <2>2, <2>3, Zenon
       DEF Control, BeginCycle, Assert, AssertRejected, GetInfo, Observe, BeginCreate, BeginLift,
           BeginRequarantine, Decline, Broadcast, CallFails, MarkCreated, StoreFails, hostVars
<1>3. ASSUME NEW q \in Hosts, EtcdFounds(q)
      PROVE  data[h] \subseteq data'[h]
  BY <1>3, Zenon DEF EtcdFounds, EtcdInitialises, TypesInv, HostInv, TypeOK
<1>4. ASSUME \/ \E p \in Leaders, q \in Hosts : AcceptBid(p, q)
             \/ \E q \in Hosts : \/ PrepareExpires(q) \/ EtcdExits(q) \/ HostRestarts(q)
                                 \/ \E o \in Outcome : Supervise(q, o)
             \/ UNCHANGED vars
      PROVE  UNCHANGED data
  BY <1>4, Zenon DEF AcceptBid, PrepareExpires, EtcdExits, HostRestarts, Supervise, Expire, ProcessExits,
              RunOnce, Restart, vars, hostVars
<1> QED
  BY <1>2, <1>3, <1>4, Zenon DEF Next

LEMMA SettledStep ==
  ASSUME TypesInv, [Next]_vars, Settled
  PROVE  Settled' /\ \A h \in Hosts : data[h] \subseteq data'[h]
<1>1. created' /\ \A p \in Leaders : creating'[p] = None
  BY MarkerStays, CreatingStep, Zenon DEF Settled, Begins, Ends, BeginCreate
<1> QED
  BY <1>1, DataStep, Zenon DEF Settled

(* Once the marker is set and no creation is in flight, it stays that way, *)
(* and no step of any leader, restart or failure takes the data of any     *)
(* cluster from any host: "Mark cluster created so we won't create it      *)
(* again" (controller.go).                                                 *)
THEOREM SettledDataStays ==
  Spec => [][Settled => Settled' /\ \A h \in Hosts : data[h] \subseteq data'[h]]_vars
<1>1. TypesInv /\ [Next]_vars => TypesInv'
  BY TypesStep
<1>2. TypesInv /\ [Next]_vars
        => [Settled => Settled' /\ \A h \in Hosts : data[h] \subseteq data'[h]]_vars
  BY SettledStep, Zenon
<1> QED
  BY <1>1, <1>2, TypesInit, PTL DEF Spec

(* A cluster that is let in has a quorum of members with its data, and     *)
(* keeps them.                                                             *)
-----------------------------------------------------------------------------
(* A single leader *)

LEMMA OnlyMarkMarks ==
  ASSUME [Next]_vars, ~created, created'
  PROVE  \E p \in Leaders : MarkCreated(p)
<1>1. ASSUME \/ \E p \in Leaders, q \in Hosts : AcceptBid(p, q)
             \/ \E q \in Hosts : \/ HostRestarts(q)
                                 \/ PrepareExpires(q) \/ EtcdExits(q) \/ EtcdFounds(q)
                                 \/ \E o \in Outcome : Supervise(q, o)
             \/ UNCHANGED vars
      PROVE  UNCHANGED created
  BY <1>1, Zenon DEF AcceptBid, HostRestarts, Lose, PrepareExpires, EtcdExits, EtcdFounds, Supervise,
              vars, sharedVars
<1>2. ASSUME NEW p \in Leaders, Control(p), ~MarkCreated(p)
      PROVE  UNCHANGED created
  <2>1. CASE \E q \in Hosts : \/ StopCall(p, q) \/ PrepareCall(p, q) \/ InitialCall(p, q)
                              \/ QuarantineCall(p, q, "lift")
                              \/ QuarantineCall(p, q, "requarantine")
                              \/ CallFails(p, q) \/ CallPanics(p, q)
    BY <2>1, Zenon DEF StopCall, PrepareCall, InitialCall, QuarantineCall, CallFails, CallPanics, Lose
  <2>2. CASE \/ \E A \in Views : BeginCycle(p, A)
             \/ \E q \in Hosts : Assert(p, q) \/ AssertRejected(p, q) \/ GetInfo(p, q)
             \/ Observe(p) \/ (\E P \in SUBSET Hosts : BeginCreate(p, P))
    BY <2>2, Zenon DEF BeginCycle, Assert, AssertRejected, GetInfo, Observe, BeginCreate, sharedVars
  <2>3. CASE \/ BeginLift(p) \/ BeginRequarantine(p) \/ Decline(p) \/ Broadcast(p)
             \/ StoreFails(p)
    BY <2>3, Zenon DEF BeginLift, BeginRequarantine, Decline, Broadcast, StoreFails, sharedVars
  <2> QED
    BY <1>2, <2>1, <2>2, <2>3, Zenon DEF Control
<1> QED
  BY <1>1, <1>2, Zenon DEF Next

(* The leader that sets the marker has finished its creation by then.      *)
LEMMA AloneStep ==
  ASSUME \A p, r \in Leaders : p = r, TypesInv, NoOverlap, [Next]_vars
  PROVE  NoOverlap'
<1>1. CASE created
  BY <1>1, CreatingStep, Zenon DEF NoOverlap, Begins, Ends, BeginCreate
<1>2. CASE ~created /\ created'
  <2>1. PICK p \in Leaders : MarkCreated(p)
    BY <1>2, OnlyMarkMarks, Zenon
  <2> QED
    BY <2>1, Zenon DEF MarkCreated, Return, ReturnAll, NoOverlap
<1> QED
  BY <1>1, <1>2, Zenon DEF NoOverlap

LEMMA AloneSettles ==
  ASSUME \A p, r \in Leaders : p = r
  PROVE  Spec => []NoOverlap
<1>1. Init => NoOverlap
  BY Zenon DEF Init, NoOverlap
<1>2. TypesInv /\ NoOverlap /\ [Next]_vars => TypesInv' /\ NoOverlap'
  BY TypesStep, AloneStep, Zenon
<1> QED
  BY <1>1, <1>2, TypesInit, PTL DEF Spec

(* Every cluster is created with enough nodes for the quorum that is       *)
(* wanted, and not more than that quorum allows.                           *)
NodesInv ==
    /\ \A c \in Clusters : nodes[c] # {} =>
          /\ QuorumSize(Cardinality(nodes[c])) = QuorumSize(MemberCount)
          /\ Cardinality(nodes[c]) >= QuorumSize(MemberCount)
    /\ \A p \in Leaders : creating[p] # None => nodes[creating[p]] # {}

(* Which clusters the state and the state file of a host name.             *)
Names(s, c) == s \notin {None, Corrupt} /\ s.cluster = c
Holds(q, c) == Names(state[q], c) /\ Names(disk[q], c)
Mentions(q, c) == (state[q] # None /\ state[q].cluster = c) \/ Names(disk[q], c)

(* Once all hosts have joined, the cluster is in their files, and none of  *)
(* them remembers another.                                                 *)
HoldInv ==
    \A p \in Leaders :
        /\ pc[p] = "initial" => \A q \in nodes[creating[p]] \ todo[p] : Holds(q, creating[p])
        /\ pc[p] = "mark" => \A q \in nodes[creating[p]] : Holds(q, creating[p])

(* A quorum of hosts know no cluster but the one that was marked.          *)
MarkedInv ==
    created => \E c \in Clusters, N \in SUBSET Hosts :
                  /\ Cardinality(N) >= QuorumSize(MemberCount)
                  /\ \A q \in N, e \in Clusters \ {c} : ~Mentions(q, e)
                  /\ opened \subseteq {c}

LEMMA RestartHolds ==
  ASSUME TypesInv, NEW h \in Hosts, Restart(h), NEW q \in Hosts, NEW c, Holds(q, c)
  PROVE  Holds(q, c)'
  BY Zenon DEF Restart, Holds, Names, TypesInv, HostInv, TypeOK

(* The loop of a leader gets to these stages from the ones before only.    *)
LEMMA LateStages ==
  ASSUME TypesInv, NEW p \in Leaders, Control(p), pc'[p] \in {"initial", "mark"}
  PROVE  \E q \in Hosts : PrepareCall(p, q) \/ InitialCall(p, q)
<1>1. ASSUME Return(p) PROVE FALSE
  BY <1>1, Zenon DEF Return, ReturnAll
<1>2. ASSUME NEW stage, stage \notin {"initial", "mark"}, NEW Q, Enter(p, stage, Q)
      PROVE  FALSE
  BY <1>2, Zenon DEF Enter, TypesInv, LoopTypes
<1>3. ASSUME NEW q \in Hosts, NEW reply, NEW o, Deliver(p, q, reply, o),
             pc[p] \in {"stop", "lift", "requarantine"}
      PROVE  FALSE
  BY <1>1, <1>2, <1>3, Zenon DEF Deliver, Proceed
<1>4. ASSUME NEW q \in Hosts,
             \/ StopCall(p, q) \/ QuarantineCall(p, q, "lift") \/ QuarantineCall(p, q, "requarantine")
      PROVE  FALSE
  BY <1>3, <1>4, Zenon DEF StopCall, QuarantineCall, Calling
<1>5. ASSUME NEW q \in Hosts, CallPanics(p, q)
      PROVE  FALSE
  BY <1>5, Zenon DEF CallPanics, Lose, ReturnAll
<1>6. ASSUME \/ \E A \in Views : BeginCycle(p, A)
             \/ \E q \in Hosts : Assert(p, q) \/ AssertRejected(p, q) \/ CallFails(p, q)
             \/ Observe(p) \/ BeginLift(p) \/ BeginRequarantine(p) \/ Decline(p) \/ Broadcast(p)
             \/ StoreFails(p) \/ MarkCreated(p) \/ (\E P \in SUBSET Hosts : BeginCreate(p, P))
      PROVE  FALSE
  <2>1. \/ Return(p)
        \/ \E stage \in Stages \ {"initial", "mark"} : \E Q : Enter(p, stage, Q)
    BY <1>6, Zenon DEF BeginCycle, Assert, AssertRejected, CallFails, Observe, BeginLift,
                BeginRequarantine, Decline, Broadcast, StoreFails, MarkCreated, BeginCreate, Stages
  <2> QED
    BY <1>1, <1>2, <2>1, Zenon
<1>7. ASSUME NEW q \in Hosts, GetInfo(p, q)
      PROVE  FALSE
  BY <1>7, Zenon DEF GetInfo
<1> QED
  BY <1>4, <1>5, <1>6, <1>7, Zenon DEF Control

LEMMA JoiningKeepsHolds ==
  ASSUME \A p, r \in Leaders : p = r, TypesInv, HoldInv, NEW p \in Leaders, NEW q \in Hosts,
         PrepareCall(p, q) \/ InitialCall(p, q), pc'[p] \in {"initial", "mark"}
  PROVE  HoldInv'
<1>1. creating[p] \in Clusters /\ UNCHANGED nodes
  BY Zenon DEF PrepareCall, InitialCall, Calling, TypesInv, LoopTypes, LoopInv, Making
<1> PICK c \in Clusters : c = creating[p]
  BY <1>1, Zenon
<1>2. PICK o, r : /\ Deliver(p, q, r, o)
                  /\ \/ PrepareCall(p, q)
                     \/ /\ pc[p] = "initial"
                        /\ \/ \E d : JoinInitial(q, c, Version, o, d, r)
                           \/ JoinRefused(q, c, Version, r)
  BY Zenon DEF PrepareCall, InitialCall, Calling
<1>3. r = "ok" /\ Proceed(p, q) /\ UNCHANGED creating
  <2>1. ~Return(p)
    BY Zenon DEF Return, ReturnAll
  <2> QED
    BY <1>2, <2>1, Zenon DEF Deliver
<1>4. CASE PrepareCall(p, q)
  <2>1. pc[p] = "prepare"
    BY <1>4, Zenon DEF PrepareCall, Calling
  <2>2. pc'[p] = "initial" /\ todo'[p] = nodes[c]
    BY <1>3, <2>1, Zenon DEF Proceed, Enter, TypesInv, LoopTypes
  <2> QED
    BY <1>1, <1>3, <2>2, Zenon DEF HoldInv
<1>5. CASE /\ pc[p] = "initial"
           /\ \/ \E d : JoinInitial(q, c, Version, o, d, r)
              \/ JoinRefused(q, c, Version, r)
  <2> DEFINE s == Joined(c, Version, FALSE, TRUE)
  <2>1. o = "ok" /\ \E d : JoinInitial(q, c, Version, o, d, r)
    BY <1>3, <1>5, Zenon DEF JoinInitial, JoinRefused
  <2>2. state' = [state EXCEPT ![q] = s] /\ disk' = [disk EXCEPT ![q] = s]
    BY <2>1, Zenon DEF JoinInitial, Becomes
  <2>3. s.cluster = c /\ s \in States
    BY <1>1, VersionIsKnown, JoinedState, Zenon DEF Joined
  <2>4. s \notin {None, Corrupt}
    BY <2>3, StateAssumption, Zenon
  <2> HIDE DEF s
  <2>5. Holds(q, c)'
    BY <2>2, <2>3, <2>4, Zenon DEF Holds, Names, TypesInv, HostInv, TypeOK
  <2>6. \A h \in Hosts \ {q} : Holds(h, c) => Holds(h, c)'
    BY <2>2, Zenon DEF Holds, TypesInv, HostInv, TypeOK
  <2>7. nodes[c] \subseteq Hosts
    BY <1>1, Zenon DEF TypesInv, SharedTypes
  <2>8. \A h \in nodes[c] \ todo[p] : Holds(h, c)
    BY <1>5, Zenon DEF HoldInv
  <2>9. \/ pc'[p] = "initial" /\ todo'[p] = todo[p] \ {q}
        \/ pc'[p] = "mark" /\ todo[p] = {q}
    BY <1>3, <1>5, Zenon DEF Proceed, Enter, TypesInv, LoopTypes
  <2>10. \A h \in nodes[c] \ (todo[p] \ {q}) : Holds(h, c)'
    BY <2>5, <2>6, <2>7, <2>8, Zenon
  <2> QED
    BY <1>1, <1>3, <2>9, <2>10, Zenon DEF HoldInv
<1> QED
  BY <1>2, <1>4, <1>5, Zenon

LEMMA HoldStep ==
  ASSUME \A p, r \in Leaders : p = r, TypesInv, HoldInv, [Next]_vars
  PROVE  HoldInv'
<1> SUFFICES ASSUME NEW p \in Leaders, pc'[p] \in {"initial", "mark"}
             PROVE  HoldInv'
  BY Zenon DEF HoldInv
<1>1. CASE \E r \in Leaders : Control(r)
  BY <1>1, LateStages, JoiningKeepsHolds, Zenon
<1>2. ASSUME NEW c \in Clusters, c = creating[p],
             pc'[p] = pc[p] /\ todo'[p] = todo[p] /\ creating'[p] = creating[p] /\ UNCHANGED nodes,
             \A q \in Hosts : Holds(q, c) => Holds(q, c)'
      PROVE  HoldInv'
  <2>1. nodes[c] \subseteq Hosts
    BY Zenon DEF TypesInv, SharedTypes
  <2> QED
    BY <1>2, <2>1, Zenon DEF HoldInv
<1>3. ASSUME pc'[p] = pc[p] PROVE creating[p] \in Clusters
  BY <1>3, Zenon DEF TypesInv, LoopTypes, LoopInv, Making
<1>4. CASE \/ \E r \in Leaders, q \in Hosts : AcceptBid(r, q)
           \/ \E q \in Hosts : \/ PrepareExpires(q) \/ EtcdExits(q) \/ EtcdFounds(q)
                               \/ \E o \in Outcome : Supervise(q, o)
           \/ UNCHANGED vars
  <2>1. UNCHANGED <<pc, todo, creating, nodes, state, disk>>
    BY <1>4, Zenon DEF AcceptBid, PrepareExpires, EtcdExits, EtcdFounds, Supervise, Expire, ProcessExits,
                EtcdInitialises, RunOnce, vars, hostVars, loopVars, sharedVars
  <2> QED
    BY <2>1, Zenon DEF HoldInv, Holds
<1>5. ASSUME NEW q \in Hosts, HostRestarts(q)
      PROVE  HoldInv'
  <2>1. /\ pc'[p] = pc[p] /\ todo'[p] = todo[p] /\ creating'[p] = creating[p]
        /\ UNCHANGED nodes /\ Restart(q)
    BY <1>5, Zenon DEF HostRestarts, Lose, ReturnAll
  <2>2. PICK c \in Clusters : c = creating[p]
    BY <1>3, <2>1, Zenon
  <2>3. \A h \in Hosts : Holds(h, c) => Holds(h, c)'
    BY <2>1, RestartHolds, Zenon
  <2> QED
    BY <1>2, <2>1, <2>2, <2>3, Zenon
<1> QED
  BY <1>1, <1>4, <1>5, Zenon DEF Next

(* A host gets to know a cluster only from a controller that creates it.   *)
LEMMA MentionsStep ==
  ASSUME TypesInv, [Next]_vars, \A p \in Leaders : creating[p] = None,
         NEW q \in Hosts, NEW e \in Clusters, Mentions(q, e)'
  PROVE  Mentions(q, e)
<1>1. ASSUME NEW p \in Leaders, NEW h \in Hosts, StopCall(p, h) \/ InitialCall(p, h)
      PROVE  FALSE
  BY <1>1, Zenon DEF StopCall, InitialCall, Calling, TypesInv, LoopInv, Making
<1>2. CASE UNCHANGED <<state, disk>>
  BY <1>2, Zenon DEF Mentions
<1>3. ASSUME NEW h \in Hosts, Restart(h)
      PROVE  Mentions(q, e)
  BY <1>3, Zenon DEF Restart, Mentions, Names, TypesInv, HostInv, TypeOK
<1>4. ASSUME NEW p \in Leaders, NEW h \in Hosts,
             QuarantineCall(p, h, "lift") \/ QuarantineCall(p, h, "requarantine")
      PROVE  Mentions(q, e)
  <2>1. PICK quarantined \in BOOLEAN, o \in Outcome, d \in Leftovers, r \in Replies :
            Reconfigure(h, quarantined, None, o, d, r)
    BY <1>4, Zenon DEF QuarantineCall
  <2> DEFINE s == [cluster |-> state[h].cluster, new |-> state[h].new,
                   quarantined |-> quarantined, version |-> state[h].version]
  <2>2. s.cluster = state[h].cluster /\ state[h] # None
    BY <2>1, Zenon DEF Reconfigure, Configured
  <2>3. \/ UNCHANGED <<state, disk>>
        \/ /\ state' = [state EXCEPT ![h] = s]
           /\ \E w \in {s, LeftBy(d, disk[h])} : disk' = [disk EXCEPT ![h] = w]
    BY <2>1, Zenon DEF Reconfigure, Becomes
  <2>4. Names(LeftBy(d, disk[h]), e) => Names(disk[h], e)
    <3>1. ~Names(EmptyState, e) /\ ~Names(Corrupt, e)
      BY HostAssumption, Zenon DEF Names, EmptyState
    <3> QED
      BY <3>1, Zenon DEF LeftBy, Leftovers
  <2> HIDE DEF s
  <2> QED
    BY <1>2, <2>2, <2>3, <2>4, Zenon DEF Mentions, Names, TypesInv, HostInv, TypeOK
<1> QED
  BY <1>1, <1>2, <1>3, <1>4, LoopsKeepStates, Zenon

-----------------------------------------------------------------------------
(* Quorums, which take the theorems about finite sets                      *)

Finite == INSTANCE FiniteSetTheorems

(* The library's theorems, for the operators of FiniteSets that the model  *)
(* is written with.                                                        *)
LEMMA SameFinite == \A S : IsFiniteSet(S) <=> Finite!IsFiniteSet(S)
BY Zenon DEF IsFiniteSet, Finite!IsFiniteSet

LEMMA SameSize == \A S : Cardinality(S) = Finite!Cardinality(S)
BY Zenon DEF Cardinality, Finite!Cardinality

LEMMA SizeIsNatural ==
    ASSUME NEW S, IsFiniteSet(S)
    PROVE  Cardinality(S) \in Nat
BY SameFinite, SameSize, Finite!FS_CardinalityType, Zenon

LEMMA EmptySize ==
    /\ IsFiniteSet({}) /\ Cardinality({}) = 0
    /\ \A S : IsFiniteSet(S) => (Cardinality(S) = 0 <=> S = {})
BY SameFinite, SameSize, Finite!FS_EmptySet, Zenon

LEMMA SingletonSize ==
    \A x : IsFiniteSet({x}) /\ Cardinality({x}) = 1
BY SameFinite, SameSize, Finite!FS_Singleton, Zenon

LEMMA SubsetSize ==
    ASSUME NEW S, IsFiniteSet(S), NEW T \in SUBSET S
    PROVE  /\ IsFiniteSet(T) /\ Cardinality(T) <= Cardinality(S)
           /\ Cardinality(S) = Cardinality(T) => S = T
BY SameFinite, SameSize, Finite!FS_Subset, Zenon

LEMMA DifferenceSize ==
    ASSUME NEW S, NEW T, IsFiniteSet(S)
    PROVE  /\ IsFiniteSet(S \ T)
           /\ Cardinality(S \ T) = Cardinality(S) - Cardinality(S \cap T)
BY SameFinite, SameSize, Finite!FS_Difference, Zenon

LEMMA OpenedStep ==
  ASSUME TypesInv, ClosedInv, NoOverlap, OpenedDataSurvives, [Next]_vars
  PROVE  OpenedDataSurvives'
<1> SUFFICES ASSUME NEW c \in opened'
             PROVE  Cardinality({q \in nodes'[c] : c \in data'[q]})
                        >= QuorumSize(Cardinality(nodes'[c]))
  BY Zenon DEF OpenedDataSurvives
<1>1. opened' \subseteq Clusters /\ nodes' \in [Clusters -> SUBSET Hosts]
  BY TypesStep, Zenon DEF TypesInv, SharedTypes
<1> DEFINE Keepers == {q \in nodes'[c] : c \in data'[q]}
<1>2. IsFiniteSet(Keepers) /\ IsFiniteSet(nodes'[c])
  BY <1>1, FormationAssumption, SubsetSize, Zenon
<1>3. QuorumSize(Cardinality(nodes'[c])) \in Nat
  BY <1>2, SizeIsNatural DEF QuorumSize
<1>4. ASSUME c \notin opened
      PROVE  Cardinality(Keepers) >= QuorumSize(Cardinality(nodes'[c]))
  <2>1. HasQuorum(c)'
    BY <1>4, MarkerStays, Zenon DEF RecordOpened, Open
  <2>2. Members(c)' \subseteq Keepers
    BY Zenon DEF Members
  <2>3. Cardinality(Members(c)') <= Cardinality(Keepers) /\ Cardinality(Members(c)') \in Nat
    BY <1>2, <2>2, SubsetSize, SizeIsNatural, Zenon
  <2>4. Cardinality(Keepers) \in Nat
    BY <1>2, SizeIsNatural, Zenon
  <2>5. Cardinality(Members(c)') >= QuorumSize(Cardinality(nodes'[c]))
    BY <2>1, Zenon DEF HasQuorum
  <2> QED
    BY <1>3, <2>3, <2>4, <2>5
<1>5. ASSUME c \in opened
      PROVE  Cardinality(Keepers) >= QuorumSize(Cardinality(nodes'[c]))
  <2>1. Settled
    BY <1>5, Zenon DEF ClosedInv, NoOverlap, Settled
  <2>2. UNCHANGED nodes /\ \A h \in Hosts : data[h] \subseteq data'[h]
    BY <2>1, SettledStep, MarkerStays, Zenon DEF Settled
  <2> DEFINE Before == {q \in nodes[c] : c \in data[q]}
  <2>3. Before \subseteq Keepers
    BY <1>1, <2>2, Zenon
  <2>4. Cardinality(Before) <= Cardinality(Keepers) /\ Cardinality(Before) \in Nat
    BY <1>2, <2>3, SubsetSize, SizeIsNatural, Zenon
  <2>5. Cardinality(Keepers) \in Nat
    BY <1>2, SizeIsNatural
  <2>6. Cardinality(Before) >= QuorumSize(Cardinality(nodes'[c]))
    BY <1>5, <2>2, Zenon DEF OpenedDataSurvives
  <2> HIDE DEF Before, Keepers
  <2> QED
    BY <1>3, <2>4, <2>5, <2>6
<1> QED
  BY <1>4, <1>5, Zenon

(* However many controllers lead, an opened cluster can lose data only     *)
(* to one that was creating a cluster of its own when the marker was set.  *)
THEOREM OnlyOverlapsLoseData == Spec /\ []NoOverlap => []OpenedDataSurvives
<1>1. Init => ClosedInv /\ OpenedDataSurvives
  BY Zenon DEF Init, HostInit, ClosedInv, AllClosed, OpenedDataSurvives
<1>2. TypesInv /\ ClosedInv /\ OpenedDataSurvives /\ NoOverlap /\ [Next]_vars
        => TypesInv' /\ ClosedInv' /\ OpenedDataSurvives'
  BY TypesStep, ClosedStep, OpenedStep, Zenon
<1> QED
  BY <1>1, <1>2, TypesInit, PTL DEF Spec

(* With one leader, a majority of the members of a cluster that clients    *)
(* have been let into keep its data, whatever fails and restarts in        *)
(* between, for any number of hosts and clusters: createNewCluster never   *)
(* stops a cluster that has been opened.                                   *)
THEOREM LoneLeaderKeepsData ==
  ASSUME \A p, r \in Leaders : p = r
  PROVE  Spec => []OpenedDataSurvives
  BY AloneSettles, OnlyOverlapsLoseData, PTL

LEMMA NodesStep ==
  ASSUME TypesInv, NodesInv, [Next]_vars
  PROVE  NodesInv'
<1>1. ASSUME Ends PROVE NodesInv'
  BY <1>1, Zenon DEF NodesInv, Ends
<1>2. ASSUME NEW p \in Leaders, NEW P \in SUBSET Hosts, BeginCreate(p, P)
      PROVE  NodesInv'
  <2>1. /\ P \subseteq peers[p] /\ (P = peers[p] \/ Cardinality(P) = MemberCount)
        /\ Cardinality(P) <= MemberCount /\ Sufficient(Cardinality(peers[p]))
    BY <1>2, Zenon DEF BeginCreate
  <2>2. MemberCount \in Nat \ {0} /\ IsFiniteSet(P) /\ Cardinality(P) \in Nat
    BY FormationAssumption, SubsetSize, SizeIsNatural, Zenon
  <2>3. /\ Cardinality(P) >= QuorumSize(MemberCount)
        /\ QuorumSize(Cardinality(P)) = QuorumSize(MemberCount)
    BY <2>1, <2>2 DEF Sufficient, QuorumSize
  <2>4. P # {}
    BY <2>2, <2>3, EmptySize DEF QuorumSize
  <2>5. PICK c \in Clusters : c = FreshCluster
    BY <1>2, Zenon DEF BeginCreate, FreshCluster
  <2>6. /\ nodes' = [e \in Clusters |-> IF e = c THEN P ELSE IF Fresh(e) THEN {} ELSE nodes[e]]
        /\ creating' = [creating EXCEPT ![p] = c]
    BY <1>2, <2>5, Zenon DEF BeginCreate
  <2>7. \A e \in Clusters : nodes'[e] \in {P, {}, nodes[e]}
    BY <2>6, Zenon
  <2>8. ASSUME NEW e \in Clusters, nodes'[e] # {}
        PROVE  /\ QuorumSize(Cardinality(nodes'[e])) = QuorumSize(MemberCount)
               /\ Cardinality(nodes'[e]) >= QuorumSize(MemberCount)
    BY <2>3, <2>7, <2>8, Zenon DEF NodesInv
  <2>9. ASSUME NEW r \in Leaders, creating'[r] # None
        PROVE  nodes'[creating'[r]] # {}
    <3>1. CASE creating'[r] = c
      BY <2>4, <2>6, <3>1, Zenon
    <3>2. CASE creating'[r] # c
      <4>1. creating'[r] = creating[r] /\ creating[r] \in Clusters
        BY <2>6, <2>9, <3>2, Zenon DEF TypesInv, LoopTypes
      <4>2. nodes[creating[r]] # {} /\ InUse(creating[r])
        BY <2>9, <4>1, Zenon DEF NodesInv, InUse
      <4> QED
        BY <2>6, <3>2, <4>1, <4>2, Zenon DEF Fresh
    <3> QED
      BY <3>1, <3>2, Zenon
  <2> QED
    BY <2>8, <2>9, Zenon DEF NodesInv
<1> QED
  BY <1>1, <1>2, CreatingStep, Zenon DEF Begins

(* Too few hosts are left to any other cluster.                            *)
LEMMA OthersStayClosed ==
  ASSUME Cardinality(Hosts) < 2 * QuorumSize(MemberCount),
         TypesInv', NodesInv', NEW c \in Clusters, NEW N \in SUBSET Hosts,
         Cardinality(N) >= QuorumSize(MemberCount),
         \A q \in N, e \in Clusters \ {c} : ~Mentions(q, e)',
         NEW e \in Clusters, Open(e)'
  PROVE  e = c
<1> SUFFICES ASSUME e # c PROVE FALSE
  BY Zenon
<1>1. nodes'[e] \subseteq Hosts
  BY Zenon DEF TypesInv, SharedTypes
<1>2. Members(e)' \subseteq Hosts \ N
  <2> SUFFICES ASSUME NEW q \in Members(e)' PROVE q \in Hosts \ N
    BY Zenon
  <2>1. q \in Hosts /\ process'[q] # None /\ process'[q].cluster = e
    BY <1>1, Zenon DEF Members, Running
  <2>2. state'[q] # None /\ state'[q].cluster = e
    BY <2>1, Zenon DEF TypesInv, HostInv, ProcessMatchesState, Configured
  <2> QED
    BY <2>1, <2>2, Zenon DEF Mentions
<1>3. QuorumSize(Cardinality(nodes'[e])) = QuorumSize(MemberCount)
  <2>1. \E q : q \in Members(e)'
    BY Zenon DEF Open
  <2> QED
    BY <2>1, Zenon DEF Members, NodesInv
<1>4. /\ IsFiniteSet(Hosts) /\ IsFiniteSet(N) /\ N \subseteq Hosts /\ IsFiniteSet(Hosts \ N)
      /\ MemberCount \in Nat
  BY FormationAssumption, SubsetSize, Zenon
<1>5. Cardinality(Hosts \ N) = Cardinality(Hosts) - Cardinality(N)
  <2>1. Hosts \cap N = N
    BY <1>4, Zenon
  <2> QED
    BY <1>4, <2>1, DifferenceSize, Zenon
<1>6. Cardinality(Members(e)') <= Cardinality(Hosts \ N)
  BY <1>2, <1>4, SubsetSize, Zenon
<1>7. /\ Cardinality(Hosts) \in Nat /\ Cardinality(N) \in Nat /\ Cardinality(Members(e)') \in Nat
      /\ QuorumSize(MemberCount) \in Nat
  BY <1>2, <1>4, SubsetSize, SizeIsNatural DEF QuorumSize
<1>8. Cardinality(Members(e)') >= QuorumSize(MemberCount)
  BY <1>3, Zenon DEF Open, HasQuorum
<1> QED
  BY <1>5, <1>6, <1>7, <1>8

LEMMA MarkedStep ==
  ASSUME \A p, r \in Leaders : p = r, Cardinality(Hosts) < 2 * QuorumSize(MemberCount),
         TypesInv, ClosedInv, NoOverlap, NodesInv, HoldInv, MarkedInv, [Next]_vars
  PROVE  MarkedInv'
<1>1. TypesInv' /\ NodesInv'
  BY TypesStep, NodesStep, Zenon
<1>2. CASE created
  <2>1. PICK c \in Clusters, N \in SUBSET Hosts :
            /\ Cardinality(N) >= QuorumSize(MemberCount)
            /\ \A q \in N, e \in Clusters \ {c} : ~Mentions(q, e)
            /\ opened \subseteq {c}
    BY <1>2, Zenon DEF MarkedInv
  <2>2. \A q \in N, e \in Clusters \ {c} : ~Mentions(q, e)'
    BY <1>2, <2>1, MentionsStep, Zenon DEF NoOverlap
  <2>3. \A e \in Clusters : Open(e)' => e = c
    BY <1>1, <2>1, <2>2, OthersStayClosed, Zenon
  <2>4. opened' \subseteq {c}
    BY <2>1, <2>3, MarkerStays, Zenon DEF RecordOpened
  <2> QED
    BY <2>1, <2>2, <2>4, Zenon DEF MarkedInv
<1>3. CASE ~created /\ created'
  <2>1. PICK p \in Leaders : MarkCreated(p)
    BY <1>3, OnlyMarkMarks, Zenon
  <2>2. PICK c \in Clusters : c = creating[p]
    BY <2>1, Zenon DEF MarkCreated, TypesInv, LoopTypes, LoopInv, Making
  <2>3. /\ UNCHANGED <<state, disk, nodes, opened>>
        /\ pc[p] = "mark"
    BY <2>1, Zenon DEF MarkCreated, hostVars
  <2>4. \A q \in nodes[c] : Holds(q, c)
    BY <2>2, <2>3, Zenon DEF HoldInv
  <2>5. \A q \in nodes[c], e \in Clusters \ {c} : ~Mentions(q, e)'
    BY <2>3, <2>4 DEF Holds, Mentions, Names
  <2>6. Cardinality(nodes[c]) >= QuorumSize(MemberCount) /\ nodes[c] \in SUBSET Hosts
    BY <2>2, HostAssumption, Zenon DEF NodesInv, TypesInv, SharedTypes
  <2>7. opened' \subseteq {c}
    BY <1>3, <2>3, Zenon DEF ClosedInv
  <2> QED
    BY <2>5, <2>6, <2>7, Zenon DEF MarkedInv
<1> QED
  BY <1>2, <1>3, Zenon DEF MarkedInv

(* With one leader and fewer than two quorums of hosts, clients are never  *)
(* let into two different clusters, however often createNewCluster had to  *)
(* start anew: the hosts of the cluster that was marked remember no other  *)
(* one, and the rest of the hosts are too few for a quorum.                *)
THEOREM LoneLeaderOpensOneCluster ==
  ASSUME \A p, r \in Leaders : p = r, Cardinality(Hosts) < 2 * QuorumSize(MemberCount)
  PROVE  Spec => []OneClusterOpened
<1> DEFINE Inv == /\ TypesInv /\ ClosedInv /\ NoOverlap /\ NodesInv
                  /\ HoldInv /\ MarkedInv
<1>1. Init => Inv
  <2> SUFFICES ASSUME Init PROVE Inv
    BY Zenon
  <2>1. ClosedInv /\ NoOverlap /\ HoldInv /\ MarkedInv
    BY Zenon DEF Init, HostInit, ClosedInv, AllClosed, NoOverlap, HoldInv, MarkedInv
  <2>2. NodesInv
    BY Zenon DEF Init, NodesInv
  <2> QED
    BY <2>1, <2>2, TypesInit, Zenon
<1>2. Inv /\ [Next]_vars => Inv'
  BY TypesStep, ClosedStep, AloneStep, NodesStep, HoldStep, MarkedStep, Zenon
<1>3. Inv => OneClusterOpened
  <2> SUFFICES ASSUME Inv PROVE Cardinality(opened) <= 1
    BY Zenon DEF OneClusterOpened
  <2>1. \E c : opened \subseteq {c}
    BY Zenon DEF ClosedInv, MarkedInv
  <2>2. PICK c : opened \subseteq {c}
    BY <2>1, Zenon
  <2>3. IsFiniteSet({c}) /\ Cardinality({c}) = 1
    BY SingletonSize, Zenon
  <2> QED
    BY <2>2, <2>3, SubsetSize, Zenon
<1> QED
  BY <1>1, <1>2, <1>3, PTL DEF Spec
=============================================================================
