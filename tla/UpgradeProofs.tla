---------------------------- MODULE UpgradeProofs ----------------------------
(***************************************************************************)
(* Proofs about Upgrade, for any number of hosts, leaders, clusters and    *)
(* versions and any bounds.                                                *)
(*                                                                         *)
(* TypeInv holds whoever leads and whatever fails.  Shape(m, o) says which *)
(* cluster is the one in use and that the leader alone works on it; Kept   *)
(* adds where the writes of clients are.  Both are invariants for some m   *)
(* and o as long as no election replaces a leader that goes on; the step   *)
(* of createNewCluster is the only one that changes m.                     *)
(***************************************************************************)
EXTENDS Upgrade, TLAPS

-----------------------------------------------------------------------------
(* Types, for any number of leaders and any faults                         *)

(* Commands with a backup of no more than what has been written. *)
Cmds == [backup : 0..written, version : Versions]

EtcdOK ==
    /\ state \in [Hosts -> States \cup {None}]
    /\ running \subseteq {h \in Hosts : state[h] # None}
    /\ nodes \in [Clusters -> SUBSET Hosts]
    /\ data \in [Clusters -> 0..written]
    /\ written \in 0..MaxWrites

StoreOK ==
    /\ spec \in Versions
    /\ commands \in Seq(Cmds)
    /\ cache \in [Leaders -> [spec : Versions, commands : Seq(Cmds)] \cup {None}]

(* The calls for which a job needs a cluster, a version and a backup.      *)
Halting == {"backup", "quarantine", "backup_again", "command", "see", "halt"}
Rolling == {"roll_backup", "roll"}
Restoring == {"stop", "create", "initial", "spec", "restore", "spec_again", "remove"}

JobOK(call, j, w) ==
    /\ call \in Halting \cup Rolling \cup {"add", "initial"} => j.cluster \in Clusters
    /\ call \in Halting \cup Rolling \cup Restoring => j.version \in Versions
    /\ call \in Restoring \cup {"command"} => j.backup \in 0..w

LoopOK ==
    /\ pc \in [Leaders -> Calls]
    /\ todo \in [Leaders -> SUBSET Hosts]
    /\ job \in [Leaders -> Jobs]
    /\ rested \in [Leaders -> BOOLEAN]
    /\ \A p \in Leaders : JobOK(pc[p], job[p], written)

CountOK == leader \in Leaders /\ faults \in 0..MaxFaults /\ specs \in 0..MaxSpecs

TypeInv == EtcdOK /\ StoreOK /\ LoopOK /\ CountOK

(* The fault counter. *)
LEMMA FaultOK ==
    ASSUME TypeInv, NEW kind, NoFault \/ Fault(kind)
    PROVE  faults' \in 0..MaxFaults
BY UpgradeAssumption DEF TypeInv, CountOK, NoFault, Fault

(* run() returns. *)
LEMMA ReturnOK ==
    ASSUME TypeInv, NEW p \in Leaders, NEW b \in BOOLEAN, Return(p, b), UNCHANGED written
    PROVE  LoopOK'
<1>1. NoJob \in Jobs
  BY Zenon DEF NoJob, Jobs
<1>2. /\ pc' \in [Leaders -> Calls] /\ todo' \in [Leaders -> SUBSET Hosts]
      /\ pc'[p] = "idle" /\ \A q \in Leaders \ {p} : pc'[q] = pc[q] /\ job'[q] = job[q]
  BY Zenon DEF TypeInv, LoopOK, Return, Calls
<1>3. job' \in [Leaders -> Jobs]
  BY <1>1, Zenon DEF TypeInv, LoopOK, Return
<1>4. rested' \in [Leaders -> BOOLEAN]
  BY Zenon DEF TypeInv, LoopOK, Return
<1>5. \A q \in Leaders : JobOK(pc'[q], job'[q], written')
  BY <1>2, Zenon DEF TypeInv, LoopOK, JobOK, Halting, Rolling, Restoring
<1> QED
  BY <1>2, <1>3, <1>4, <1>5, Zenon DEF LoopOK

(* The next call, with what is kept for it. *)
LEMMA EnterOK ==
    ASSUME TypeInv, NEW p \in Leaders, NEW call \in Calls, NEW S \in SUBSET Hosts,
           Enter(p, call, S), NEW j \in Jobs, job' = [job EXCEPT ![p] = j], JobOK(call, j, written),
           UNCHANGED written
    PROVE  LoopOK'
<1>1. /\ pc' \in [Leaders -> Calls] /\ todo' \in [Leaders -> SUBSET Hosts]
      /\ job' \in [Leaders -> Jobs] /\ rested' = rested
      /\ pc'[p] = call /\ job'[p] = j
      /\ \A q \in Leaders \ {p} : pc'[q] = pc[q] /\ job'[q] = job[q]
  BY Zenon DEF TypeInv, LoopOK, Enter
<1>2. \A q \in Leaders : JobOK(pc'[q], job'[q], written')
  BY <1>1, Zenon DEF TypeInv, LoopOK, JobOK
<1> QED
  BY <1>1, <1>2, Zenon DEF TypeInv, LoopOK

(* The same, with the job as it is. *)
LEMMA EnterSameJobOK ==
    ASSUME TypeInv, NEW p \in Leaders, NEW call \in Calls, NEW S \in SUBSET Hosts,
           Enter(p, call, S), UNCHANGED job, JobOK(call, job[p], written), UNCHANGED written
    PROVE  LoopOK'
<1>1. job[p] \in Jobs /\ job' = [job EXCEPT ![p] = job[p]]
  BY Zenon DEF TypeInv, LoopOK
<1> QED
  BY <1>1, EnterOK, Zenon

(* The call has its effect and run() goes on, or it fails. *)
LEMMA ProceedOK ==
    ASSUME TypeInv, NEW p \in Leaders, NEW call \in Calls, JobOK(call, job[p], written),
           UNCHANGED written,
           \/ NoFault /\ Enter(p, call, {}) /\ UNCHANGED job
           \/ \E kind : Fault(kind) /\ Return(p, FALSE)
    PROVE  LoopOK' /\ faults' \in 0..MaxFaults
<1>1. CASE NoFault /\ Enter(p, call, {}) /\ UNCHANGED job
  BY <1>1, FaultOK, EnterSameJobOK, Zenon
<1>2. CASE \E kind : Fault(kind) /\ Return(p, FALSE)
  BY <1>2, FaultOK, ReturnOK, Zenon
<1> QED
  BY <1>1, <1>2, Zenon

LEMMA AnsweredOK ==
    ASSUME TypeInv, NEW p \in Leaders, NEW h, Answered(p, h), UNCHANGED written
    PROVE  LoopOK' /\ faults' \in 0..MaxFaults
<1>1. faults' \in 0..MaxFaults
  BY FaultOK, Zenon DEF Answered
<1>2. pc[p] \in Calls /\ todo[p] \ {h} \in SUBSET Hosts /\ JobOK(pc[p], job[p], written)
  BY Zenon DEF TypeInv, LoopOK
<1>3. CASE \E b \in BOOLEAN : Return(p, b)
  BY <1>1, <1>3, ReturnOK, Zenon
<1>4. CASE Enter(p, pc[p], todo[p] \ {h}) /\ UNCHANGED job
  BY <1>1, <1>2, <1>4, EnterSameJobOK, Zenon
<1>5. CASE Onward(p) /\ ~\E b \in BOOLEAN : Return(p, b)
  <2>1. PICK call \in {"backup_again", "create", "spec"} :
           /\ Enter(p, call, {}) /\ UNCHANGED job
           /\ call = "backup_again" => pc[p] = "quarantine"
           /\ call = "create" => pc[p] = "stop"
           /\ call = "spec" => pc[p] = "initial"
    BY <1>5, Zenon DEF Onward
  <2>2. JobOK(call, job[p], written) /\ call \in Calls
    BY <1>2, <2>1, Zenon DEF JobOK, Halting, Rolling, Restoring, Calls
  <2> QED
    BY <1>1, <2>1, <2>2, EnterSameJobOK, Zenon
<1>6. QED
  BY <1>1, <1>3, <1>4, <1>5, Zenon DEF Answered

-----------------------------------------------------------------------------
(* What run() decides                                                      *)

(* What a cycle that goes on knows, by the call that it goes on with. *)
PlanOK(plan, P, v, cmds) ==
    /\ plan.call \in {"stop", "restore", "lift", "requarantine", "add", "roll_backup", "backup"}
    /\ plan.hosts \in SUBSET Hosts /\ plan.job \in Jobs /\ JobOK(plan.call, plan.job, written)
    /\ cmds # <<>> <=> plan.call \in {"stop", "restore"}
    /\ plan.call \in {"stop", "restore"} =>
         /\ Enough(P) /\ plan.hosts = Configured(P)
         /\ plan.job.peers = P /\ plan.job.backup = Head(cmds).backup
         /\ plan.call = "stop" <=> Sufficient(P)
    /\ plan.call = "add" => plan.hosts = Idle(P)
    /\ plan.call \in {"add", "roll_backup", "backup"} =>
         /\ plan.job.cluster \in Seen
         /\ plan.job.able = SeenHealthy \cap P
    /\ plan.call \in {"roll_backup", "backup"} =>
         /\ ReadyForUpgrade(P) /\ plan.job.version = v
    /\ plan.call = "roll_backup" => InPlace(P, v) /\ plan.job.shut = Quarantined(P)

LEMMA PlanFacts ==
    ASSUME TypeInv, NEW P \in SUBSET Hosts, NEW v \in Versions, NEW cmds \in Seq(Cmds),
           Plan(P, v, cmds) # None
    PROVE  PlanOK(Plan(P, v, cmds), P, v, cmds)
<1> DEFINE plan == Plan(P, v, cmds)
<1> SUFFICES PlanOK(plan, P, v, cmds)
  BY Zenon
<1>1. /\ Configured(P) \in SUBSET Hosts /\ SeenMembers \cap P \in SUBSET Hosts
      /\ Idle(P) \in SUBSET Hosts /\ Mismatched(P, v) \in SUBSET Hosts
      /\ SeenHealthy \cap P \in SUBSET Hosts /\ Quarantined(P) \in SUBSET Hosts
  BY Zenon DEF Configured, Idle, Mismatched, Quarantined
<1>2. Seen # {} => SeenCluster \in Seen /\ SeenCluster \in Clusters
  BY Zenon DEF SeenCluster, Seen
<1>3. ASSUME cmds # <<>>
      PROVE  Head(cmds).version \in Versions /\ Head(cmds).backup \in 0..written
  <2>1. Head(cmds) \in Cmds
    BY <1>3
  <2> QED
    BY <2>1, Zenon DEF Cmds
<1>4. written \in 0..MaxWrites
  BY Zenon DEF TypeInv, EtcdOK
<1>5. 0..written \subseteq 0..MaxWrites
  BY <1>4, UpgradeAssumption
<1>6. ASSUME NEW call, NEW hosts, NEW j, plan = [call |-> call, hosts |-> hosts, job |-> j]
      PROVE  plan.call = call /\ plan.hosts = hosts /\ plan.job = j
  BY <1>6
<1>7. CASE cmds # <<>>
  <2> DEFINE j == Keep(P, None, Head(cmds).version, Head(cmds).backup)
             call == IF Sufficient(P) THEN "stop" ELSE "restore"
  <2>1. Enough(P) /\ plan = [call |-> call, hosts |-> Configured(P), job |-> j]
    BY <1>7, Zenon DEF Plan
  <2>2. plan.call = call /\ plan.hosts = Configured(P) /\ plan.job = j
    BY <1>6, <2>1, Zenon
  <2>3. /\ j \in Jobs /\ j.version \in Versions /\ j.backup \in 0..written
        /\ j.peers = P /\ j.backup = Head(cmds).backup
    <3>1. /\ None \in Clusters \cup {None} /\ Head(cmds).version \in Versions \cup {None}
          /\ Head(cmds).backup \in 0..MaxWrites \cup {None}
      BY <1>3, <1>5, <1>7, Zenon
    <3>2. /\ j.version = Head(cmds).version /\ j.backup = Head(cmds).backup /\ j.peers = P
      BY Zenon DEF Keep
    <3>3. j \in Jobs
      BY <1>1, <3>1, Zenon DEF Keep, Jobs
    <3> QED
      BY <1>3, <1>7, <3>2, <3>3, Zenon
  <2> HIDE DEF plan, j
  <2>4. JobOK(call, j, written)
    BY <2>3, Zenon DEF JobOK, Halting, Rolling, Restoring
  <2> QED
    BY <1>1, <1>7, <2>1, <2>2, <2>3, <2>4, Zenon DEF PlanOK, call
<1>8. ASSUME cmds = <<>>, NEW call \in {"lift", "requarantine"},
             plan = [call |-> call, hosts |-> SeenMembers \cap P, job |-> NoJob]
      PROVE  PlanOK(plan, P, v, cmds)
  <2>1. plan.call = call /\ plan.hosts = SeenMembers \cap P /\ plan.job = NoJob
    BY <1>6, <1>8, Zenon
  <2>2. NoJob \in Jobs
    BY Zenon DEF NoJob, Jobs
  <2> HIDE DEF plan
  <2> QED
    BY <1>1, <1>8, <2>1, <2>2, Zenon DEF PlanOK, JobOK, Halting, Rolling, Restoring
<1>9. ASSUME cmds = <<>>, Seen # {},
             plan = [call |-> "add", hosts |-> Idle(P), job |-> Keep(P, SeenCluster, None, None)]
      PROVE  PlanOK(plan, P, v, cmds)
  <2> DEFINE j == Keep(P, SeenCluster, None, None)
  <2>1. plan.call = "add" /\ plan.hosts = Idle(P) /\ plan.job = j
    BY <1>6, <1>9, Zenon
  <2>2. j \in Jobs /\ j.cluster = SeenCluster /\ j.able = SeenHealthy \cap P
    <3>1. /\ SeenCluster \in Clusters \cup {None} /\ None \in Versions \cup {None}
          /\ None \in 0..MaxWrites \cup {None}
      BY <1>2, <1>9, Zenon
    <3>2. j.cluster = SeenCluster /\ j.able = SeenHealthy \cap P
      BY Zenon DEF Keep
    <3> QED
      BY <1>1, <3>1, <3>2, Zenon DEF Keep, Jobs
  <2> HIDE DEF plan, j
  <2>3. JobOK("add", j, written)
    BY <1>2, <1>9, <2>2, Zenon DEF JobOK, Halting, Rolling, Restoring
  <2> QED
    BY <1>1, <1>2, <1>9, <2>1, <2>2, <2>3, Zenon DEF PlanOK
<1>10. ASSUME cmds = <<>>, Seen # {}, ReadyForUpgrade(P),
              plan = [call |-> IF InPlace(P, v) THEN "roll_backup" ELSE "backup",
                      hosts |-> Mismatched(P, v), job |-> Keep(P, SeenCluster, v, None)]
       PROVE  PlanOK(plan, P, v, cmds)
  <2> DEFINE j == Keep(P, SeenCluster, v, None)
             call == IF InPlace(P, v) THEN "roll_backup" ELSE "backup"
  <2>1. plan.call = call /\ plan.hosts = Mismatched(P, v) /\ plan.job = j
    BY <1>6, <1>10, Zenon
  <2>2. /\ j \in Jobs /\ j.cluster = SeenCluster /\ j.able = SeenHealthy \cap P
        /\ j.version = v /\ j.shut = Quarantined(P)
    <3>1. /\ SeenCluster \in Clusters \cup {None} /\ v \in Versions \cup {None}
          /\ None \in 0..MaxWrites \cup {None}
      BY <1>2, <1>10, Zenon
    <3>2. /\ j.cluster = SeenCluster /\ j.able = SeenHealthy \cap P
          /\ j.version = v /\ j.shut = Quarantined(P)
      BY Zenon DEF Keep
    <3>3. j \in Jobs
      BY <1>1, <3>1, Zenon DEF Keep, Jobs
    <3> QED
      BY <3>2, <3>3, Zenon
  <2> HIDE DEF plan, j
  <2>3. JobOK(call, j, written)
    BY <1>2, <1>10, <2>2, Zenon DEF JobOK, Halting, Rolling, Restoring
  <2> QED
    BY <1>1, <1>2, <1>10, <2>1, <2>2, <2>3, Zenon DEF PlanOK
<1>11. \/ cmds # <<>>
       \/ /\ cmds = <<>>
          /\ \/ \E call \in {"lift", "requarantine"} :
                   plan = [call |-> call, hosts |-> SeenMembers \cap P, job |-> NoJob]
             \/ /\ Seen # {}
                /\ plan = [call |-> "add", hosts |-> Idle(P), job |-> Keep(P, SeenCluster, None, None)]
             \/ /\ Seen # {} /\ ReadyForUpgrade(P)
                /\ plan = [call |-> IF InPlace(P, v) THEN "roll_backup" ELSE "backup",
                           hosts |-> Mismatched(P, v), job |-> Keep(P, SeenCluster, v, None)]
  BY Zenon DEF Plan
<1> QED
  BY <1>7, <1>8, <1>9, <1>10, <1>11, Zenon

-----------------------------------------------------------------------------
(* Every step keeps the types                                              *)

LEMMA RefreshTypes ==
    ASSUME TypeInv, NEW p \in Leaders, Refresh(p)
    PROVE  TypeInv'
<1>1. Store \in [spec : Versions, commands : Seq(Cmds)]
  BY Zenon DEF TypeInv, StoreOK, Store
<1>2. StoreOK'
  BY <1>1, Zenon DEF TypeInv, StoreOK, Refresh, storeVars, etcdVars, Cmds
<1>3. EtcdOK' /\ CountOK'
  BY Zenon DEF TypeInv, EtcdOK, CountOK, Refresh, etcdVars
<1>4. LoopOK'
  BY Zenon DEF TypeInv, LoopOK, Refresh, etcdVars, loopVars
<1> QED
  BY <1>2, <1>3, <1>4, Zenon DEF TypeInv

LEMMA BeginCycleTypes ==
    ASSUME TypeInv, NEW p \in Leaders, NEW P \in SUBSET Hosts, BeginCycle(p, P)
    PROVE  TypeInv'
<1> DEFINE v == cache[p].spec
           cmds == cache[p].commands
           plan == Plan(P, v, cmds)
<1>1. v \in Versions /\ cmds \in Seq(Cmds)
  BY Zenon DEF TypeInv, StoreOK, BeginCycle
<1>2. Store \in [spec : Versions, commands : Seq(Cmds)]
  BY Zenon DEF TypeInv, StoreOK, Store
<1>3. /\ UNCHANGED <<state, running, nodes, data, written, spec, commands, leader, specs>>
      /\ cache' = cache \/ cache' = [cache EXCEPT ![p] = Store]
      /\ \E kind : NoFault \/ Fault(kind)
  BY Zenon DEF BeginCycle, etcdVars, storeVars
<1>4. faults' \in 0..MaxFaults
  BY <1>3, FaultOK, Zenon
<1>5. EtcdOK' /\ StoreOK' /\ CountOK'
  BY <1>2, <1>3, <1>4, Zenon DEF TypeInv, EtcdOK, StoreOK, CountOK, Cmds
<1>6. LoopOK'
  <2>1. CASE plan = None
    <3>1. Return(p, FALSE)
      BY <2>1, Zenon DEF BeginCycle
    <3> QED
      BY <1>3, <3>1, ReturnOK, Zenon
  <2>2. CASE plan # None
    <3>1. PlanOK(plan, P, v, cmds)
      BY <1>1, <2>2, PlanFacts, Zenon
    <3>2. job' = [job EXCEPT ![p] = plan.job]
      BY <2>2, Zenon DEF BeginCycle
    <3>3. \/ Enter(p, plan.call, plan.hosts)
          \/ plan.call = "stop" /\ Enter(p, "create", P)
      BY <2>2, Zenon DEF BeginCycle
    <3> HIDE DEF plan, v, cmds
    <3>4. /\ plan.call \in Calls /\ plan.hosts \in SUBSET Hosts /\ plan.job \in Jobs
          /\ JobOK(plan.call, plan.job, written)
      BY <3>1, Zenon DEF PlanOK, Calls
    <3>5. plan.call = "stop" => JobOK("create", plan.job, written)
      BY <3>4, Zenon DEF JobOK, Halting, Rolling, Restoring
    <3>6. CASE Enter(p, plan.call, plan.hosts)
      BY <1>3, <3>2, <3>4, <3>6, EnterOK, Zenon
    <3>7. CASE plan.call = "stop" /\ Enter(p, "create", P)
      <4>1. "create" \in Calls
        BY Zenon DEF Calls
      <4> QED
        BY <1>3, <3>2, <3>4, <3>5, <3>7, <4>1, EnterOK, Zenon
    <3> QED
      BY <3>3, <3>6, <3>7, Zenon
  <2> QED
    BY <2>1, <2>2, Zenon
<1> QED
  BY <1>5, <1>6, Zenon DEF TypeInv

(* A call to a host leaves the control store and what is read of it. *)
LEMMA CallTypes ==
    ASSUME TypeInv, UNCHANGED <<written, storeVars, cache, leader, specs>>,
           faults' \in 0..MaxFaults, EtcdOK', LoopOK'
    PROVE  TypeInv'
BY Zenon DEF TypeInv, StoreOK, CountOK, Cmds, storeVars

LEMMA CallFailsTypes ==
    ASSUME TypeInv, NEW p \in Leaders, CallFails(p) \/ BackupFails(p) \/ NoPeerToRestore(p)
    PROVE  TypeInv'
<1>1. /\ Return(p, FALSE) /\ UNCHANGED <<etcdVars, storeVars, leader, cache, specs>>
      /\ \E kind : NoFault \/ Fault(kind)
  BY Zenon DEF CallFails, BackupFails, NoPeerToRestore, NoFault
<1>2. LoopOK' /\ faults' \in 0..MaxFaults
  BY <1>1, FaultOK, ReturnOK, Zenon DEF etcdVars
<1>3. EtcdOK'
  BY <1>1, Zenon DEF TypeInv, EtcdOK, etcdVars
<1> QED
  BY <1>1, <1>2, <1>3, CallTypes, Zenon DEF etcdVars, storeVars

LEMMA BackupTypes ==
    ASSUME TypeInv, NEW p \in Leaders, NEW call \in {"backup", "backup_again", "roll_backup"},
           Backup(p, call)
    PROVE  TypeInv'
<1>1. /\ pc[p] = call /\ job[p] \in Jobs /\ JobOK(pc[p], job[p], written) /\ job \in [Leaders -> Jobs]
      /\ UNCHANGED <<etcdVars, storeVars, leader, cache, faults, specs>>
  BY Zenon DEF TypeInv, LoopOK, Backup
<1>2. PICK h \in job[p].able \cap running :
         job' = [job EXCEPT ![p].backup = data[state[h].cluster]]
  BY Zenon DEF Backup
<1> DEFINE b == data[state[h].cluster]
           j == [job[p] EXCEPT !.backup = b]
<1>3. b \in 0..written /\ b \in 0..MaxWrites
  <2>1. state[h].cluster \in Clusters
    BY <1>2, Zenon DEF TypeInv, EtcdOK, States
  <2>2. b \in 0..written /\ written \in 0..MaxWrites
    BY <2>1, Zenon DEF TypeInv, EtcdOK
  <2> QED
    BY <2>2, UpgradeAssumption
<1>4. job' = [job EXCEPT ![p] = j]
  BY <1>1, <1>2, Zenon
<1> HIDE DEF b
<1>5. /\ j \in Jobs /\ j.backup = b /\ j.cluster = job[p].cluster /\ j.version = job[p].version
  BY <1>1, <1>3, Zenon DEF Jobs
<1> HIDE DEF j
<1>6. PICK next \in {"quarantine", "command", "roll"}, S \in SUBSET Hosts :
         /\ Enter(p, next, S)
         /\ next = "roll" <=> call = "roll_backup"
  <2>1. CASE call = "backup"
    <3>1. nodes[job[p].cluster] \in SUBSET Hosts
      BY <1>1, <2>1, Zenon DEF TypeInv, EtcdOK, JobOK, Halting
    <3> QED
      BY <2>1, <3>1, Zenon DEF Backup
  <2>2. CASE call = "backup_again"
    BY <2>2 DEF Backup
  <2>3. CASE call = "roll_backup"
    <3>1. todo[p] \in SUBSET Hosts
      BY Zenon DEF TypeInv, LoopOK
    <3> QED
      BY <2>3, <3>1, Zenon DEF Backup
  <2> QED
    BY <2>1, <2>2, <2>3, Zenon
<1>7. next \in Calls /\ JobOK(next, j, written)
  BY <1>1, <1>3, <1>5, <1>6, Zenon DEF Calls, JobOK, Halting, Rolling, Restoring
<1>8. LoopOK'
  BY <1>1, <1>4, <1>5, <1>6, <1>7, EnterOK, Zenon DEF etcdVars
<1>9. EtcdOK' /\ faults' \in 0..MaxFaults
  BY <1>1, Zenon DEF TypeInv, EtcdOK, CountOK, etcdVars
<1> QED
  BY <1>1, <1>8, <1>9, CallTypes, Zenon DEF etcdVars, storeVars

(* The state of one host changes, and its etcd is down until it restarts. *)
LEMMA HostStateTypes ==
    ASSUME TypeInv, NEW h \in Hosts, NEW s \in States \cup {None},
           state' = [state EXCEPT ![h] = s], running' = running \ {h},
           UNCHANGED <<nodes, data, written>>
    PROVE  EtcdOK'
BY Zenon DEF TypeInv, EtcdOK

LEMMA SetQuarantineTypes ==
    ASSUME TypeInv, NEW p \in Leaders, NEW h \in Hosts, NEW call, NEW q \in BOOLEAN,
           SetQuarantine(p, h, call, q)
    PROVE  TypeInv'
<1> DEFINE s == [state[h] EXCEPT !.quarantined = q]
<1>1. state \in [Hosts -> States \cup {None}] /\ state[h] \in States
  BY Zenon DEF TypeInv, EtcdOK, SetQuarantine
<1>2. s \in States /\ state' = [state EXCEPT ![h] = s]
  BY <1>1, Zenon DEF SetQuarantine, States
<1>3. /\ running' = running \ {h} /\ Answered(p, h)
      /\ UNCHANGED <<nodes, data, written, storeVars, leader, cache, specs>>
  BY Zenon DEF SetQuarantine
<1>4. EtcdOK'
  BY <1>2, <1>3, HostStateTypes, Zenon
<1>5. LoopOK' /\ faults' \in 0..MaxFaults
  BY <1>3, AnsweredOK, Zenon
<1> QED
  BY <1>3, <1>4, <1>5, CallTypes, Zenon

LEMMA StopEtcdTypes ==
    ASSUME TypeInv, NEW p \in Leaders, NEW h \in Hosts, NEW call, StopEtcd(p, h, call)
    PROVE  TypeInv'
<1>1. /\ running' = running \ {h} /\ Answered(p, h) /\ state' = [state EXCEPT ![h] = None]
      /\ UNCHANGED <<nodes, data, written, storeVars, leader, cache, specs>>
  BY Zenon DEF StopEtcd
<1>2. EtcdOK'
  BY <1>1, HostStateTypes, Zenon
<1>3. LoopOK' /\ faults' \in 0..MaxFaults
  BY <1>1, AnsweredOK, Zenon
<1> QED
  BY <1>1, <1>2, <1>3, CallTypes, Zenon

LEMMA SetByRoll ==
    ASSUME TypeInv, NEW p \in Leaders, NEW h \in Hosts, Roll(p, h)
    PROVE  state'[h] \in States /\ state'[h] # None /\ state' = [state EXCEPT ![h] = state'[h]]
<1> DEFINE s == [cluster |-> state[h].cluster, version |-> job[p].version,
                 quarantined |-> h \in job[p].shut]
<1>1. state \in [Hosts -> States \cup {None}] /\ state[h] \in States /\ job[p].version \in Versions
  BY Zenon DEF TypeInv, EtcdOK, LoopOK, JobOK, Roll, Calling, Rolling
<1>2. s \in States /\ state' = [state EXCEPT ![h] = s]
  <2>1. state[h].cluster \in Clusters
    BY <1>1, Zenon DEF States
  <2>2. (h \in job[p].shut) \in BOOLEAN
    OBVIOUS
  <2> QED
    BY <1>1, <2>1, <2>2, Zenon DEF Roll, States
<1> HIDE DEF s
<1> QED
  BY <1>1, <1>2, UpgradeAssumption, Zenon

LEMMA RollTypes ==
    ASSUME TypeInv, NEW p \in Leaders, NEW h \in Hosts, Roll(p, h)
    PROVE  TypeInv'
<1>1. /\ running' = running \ {h} /\ \E b \in BOOLEAN : Return(p, b)
      /\ \E kind : NoFault \/ Fault(kind)
      /\ UNCHANGED <<nodes, data, written, storeVars, leader, cache, specs>>
  BY Zenon DEF Roll
<1>2. EtcdOK'
  <2>1. PICK s \in States : state' = [state EXCEPT ![h] = s]
    BY SetByRoll, Zenon
  <2> QED
    BY <1>1, <2>1, HostStateTypes, Zenon
<1>3. LoopOK' /\ faults' \in 0..MaxFaults
  BY <1>1, FaultOK, ReturnOK, Zenon
<1> QED
  BY <1>1, <1>2, <1>3, CallTypes, Zenon

LEMMA AddNodeTypes ==
    ASSUME TypeInv, NEW p \in Leaders, NEW h \in Hosts, AddNode(p, h)
    PROVE  TypeInv'
<1> DEFINE c == job[p].cluster
<1>1. c \in Clusters
  BY Zenon DEF TypeInv, LoopOK, JobOK, AddNode, Calling
<1>2. /\ UNCHANGED <<running, data, written, storeVars, leader, cache, faults, specs>>
      /\ \E b \in BOOLEAN : Return(p, b)
  <2>1. PICK g : Return(p, g # None)
    BY Zenon DEF AddNode
  <2>2. (g # None) \in BOOLEAN
    BY Zenon
  <2> QED
    BY <2>1, <2>2, Zenon DEF AddNode
<1>3. EtcdOK'
  <2>1. CASE UNCHANGED <<state, nodes>>
    BY <1>2, <2>1, Zenon DEF TypeInv, EtcdOK
  <2>2. CASE \E g \in Configured(job[p].peers) :
               /\ state' = [state EXCEPT ![h] = [state[g] EXCEPT !.cluster = c, !.quarantined = FALSE]]
               /\ nodes' = [nodes EXCEPT ![c] = @ \cup {h}]
    <3>1. PICK g \in Configured(job[p].peers) :
               /\ state' = [state EXCEPT ![h] = [state[g] EXCEPT !.cluster = c, !.quarantined = FALSE]]
               /\ nodes' = [nodes EXCEPT ![c] = @ \cup {h}]
      BY <2>2, Zenon
    <3>2. state[g] \in States
      BY <3>1, Zenon DEF Configured, TypeInv, EtcdOK, LoopOK, Jobs
    <3>3. [state[g] EXCEPT !.cluster = c, !.quarantined = FALSE] \in States
      BY <1>1, <3>2, Zenon DEF States
    <3>4. nodes' \in [Clusters -> SUBSET Hosts]
      BY <1>1, <3>1, Zenon DEF TypeInv, EtcdOK
    <3>5. /\ state' \in [Hosts -> States \cup {None}]
          /\ \A x \in Hosts : state[x] # None => state'[x] # None
      BY <3>1, <3>3, UpgradeAssumption, Zenon DEF TypeInv, EtcdOK
    <3> QED
      BY <1>2, <3>4, <3>5, Zenon DEF TypeInv, EtcdOK
  <2> QED
    BY <2>1, <2>2, Zenon DEF AddNode
<1>4. LoopOK' /\ faults' \in 0..MaxFaults
  BY <1>2, ReturnOK, Zenon DEF TypeInv, CountOK
<1> QED
  BY <1>2, <1>3, <1>4, CallTypes, Zenon

LEMMA BeginCreateTypes ==
    ASSUME TypeInv, NEW p \in Leaders, BeginCreate(p)
    PROVE  TypeInv'
<1> DEFINE c == CHOOSE d \in Clusters : Fresh(d)
           P == job[p].peers
           j == [job[p] EXCEPT !.cluster = c]
<1>1. c \in Clusters
  BY Zenon DEF BeginCreate
<1>2. /\ job[p] \in Jobs /\ job \in [Leaders -> Jobs] /\ JobOK("create", job[p], written)
      /\ P \in SUBSET Hosts
  BY Zenon DEF TypeInv, LoopOK, BeginCreate, Jobs
<1>3. /\ job' = [job EXCEPT ![p].cluster = c] /\ Enter(p, "initial", P)
      /\ nodes' = [d \in Clusters |-> IF d = c THEN P ELSE IF Fresh(d) THEN {} ELSE nodes[d]]
      /\ data' = [d \in Clusters |-> IF Fresh(d) THEN 0 ELSE data[d]]
      /\ UNCHANGED <<state, running, written, storeVars, leader, cache, faults, specs>>
  BY Zenon DEF BeginCreate
<1>4. job' = [job EXCEPT ![p] = j]
  BY <1>2, <1>3, Zenon
<1> HIDE DEF c, P
<1>5. /\ nodes' \in [Clusters -> SUBSET Hosts] /\ data' \in [Clusters -> 0..written]
  BY <1>2, <1>3 DEF TypeInv, EtcdOK
<1>6. EtcdOK'
  BY <1>3, <1>5, Zenon DEF TypeInv, EtcdOK
<1>7. j \in Jobs /\ j.cluster = c /\ j.version = job[p].version /\ j.backup = job[p].backup
  BY <1>1, <1>2, Zenon DEF Jobs
<1> HIDE DEF j
<1>8. "initial" \in Calls /\ JobOK("initial", j, written)
  BY <1>1, <1>2, <1>7, Zenon DEF Calls, JobOK, Halting, Rolling, Restoring
<1>9. LoopOK' /\ faults' \in 0..MaxFaults
  BY <1>2, <1>3, <1>4, <1>7, <1>8, EnterOK, Zenon DEF TypeInv, CountOK
<1> QED
  BY <1>3, <1>6, <1>9, CallTypes, Zenon

LEMMA JoinInitialTypes ==
    ASSUME TypeInv, NEW p \in Leaders, NEW h \in Hosts, JoinInitial(p, h)
    PROVE  TypeInv'
<1> DEFINE s == [cluster |-> job[p].cluster, version |-> job[p].version, quarantined |-> TRUE]
<1>1. job[p].cluster \in Clusters /\ job[p].version \in Versions
  BY Zenon DEF TypeInv, LoopOK, JobOK, JoinInitial, Calling, Restoring
<1>2. s \in States
  BY <1>1, Zenon DEF States
<1>3. /\ state' = [state EXCEPT ![h] = s] /\ Answered(p, h)
      /\ UNCHANGED <<running, nodes, data, written, storeVars, leader, cache, specs>>
  BY Zenon DEF JoinInitial
<1>4. EtcdOK'
  BY <1>2, <1>3, UpgradeAssumption, Zenon DEF TypeInv, EtcdOK
<1>5. LoopOK' /\ faults' \in 0..MaxFaults
  BY <1>3, AnsweredOK, Zenon
<1> QED
  BY <1>3, <1>4, <1>5, CallTypes, Zenon

LEMMA DoRestoreTypes ==
    ASSUME TypeInv, NEW p \in Leaders, NEW h \in Hosts, DoRestore(p, h)
    PROVE  TypeInv'
<1>1. job[p].backup \in 0..written /\ JobOK("spec_again", job[p], written) /\ "spec_again" \in Calls
  BY Zenon DEF TypeInv, LoopOK, JobOK, DoRestore, Halting, Rolling, Restoring, Calls
<1>2. state[h].cluster \in Clusters
  BY Zenon DEF TypeInv, EtcdOK, DoRestore, States
<1>3. /\ UNCHANGED <<state, running, nodes, written, storeVars, leader, cache, specs>>
      /\ \/ NoFault /\ Enter(p, "spec_again", {}) /\ UNCHANGED job
         \/ Fault("lost") /\ Return(p, FALSE)
  BY Zenon DEF DoRestore
<1>4. data' \in [Clusters -> 0..written]
  BY <1>1, <1>2, Zenon DEF TypeInv, EtcdOK, DoRestore
<1>5. EtcdOK'
  BY <1>3, <1>4, Zenon DEF TypeInv, EtcdOK
<1>6. LoopOK' /\ faults' \in 0..MaxFaults
  <2>1. \/ NoFault /\ Enter(p, "spec_again", {}) /\ UNCHANGED job
        \/ \E kind : Fault(kind) /\ Return(p, FALSE)
    BY <1>3, Zenon
  <2> QED
    BY <1>1, <1>3, <2>1, ProceedOK, Zenon
<1> QED
  BY <1>3, <1>5, <1>6, CallTypes, Zenon

(* Calls to the control store. *)
LEMMA AddCommandTypes ==
    ASSUME TypeInv, NEW p \in Leaders, AddCommand(p)
    PROVE  TypeInv'
<1> DEFINE cmd == [backup |-> job[p].backup, version |-> job[p].version]
<1>1. /\ job[p].backup \in 0..written /\ job[p].version \in Versions
      /\ JobOK("see", job[p], written) /\ "see" \in Calls
  BY Zenon DEF TypeInv, LoopOK, JobOK, AddCommand, Halting, Rolling, Restoring, Calls
<1>2. cmd \in Cmds
  BY <1>1, Zenon DEF Cmds
<1>3. /\ UNCHANGED <<etcdVars, spec, leader, cache, specs>>
      /\ commands' = Append(commands, cmd) \/ commands' = commands
      /\ \/ NoFault /\ Enter(p, "see", {}) /\ UNCHANGED job
         \/ \E kind : Fault(kind) /\ Return(p, FALSE)
  BY Zenon DEF AddCommand
<1>4. commands' \in Seq(Cmds)
  BY <1>2, <1>3 DEF TypeInv, StoreOK
<1>5. EtcdOK' /\ StoreOK'
  BY <1>3, <1>4, Zenon DEF TypeInv, EtcdOK, StoreOK, etcdVars, Cmds
<1>6. LoopOK' /\ faults' \in 0..MaxFaults
  BY <1>1, <1>3, ProceedOK, Zenon DEF etcdVars
<1> QED
  BY <1>3, <1>5, <1>6, Zenon DEF TypeInv, CountOK

LEMMA SeeCommandTypes ==
    ASSUME TypeInv, NEW p \in Leaders, SeeCommand(p)
    PROVE  TypeInv'
<1>1. /\ job[p].cluster \in Clusters /\ JobOK("halt", job[p], written) /\ "halt" \in Calls
  BY Zenon DEF TypeInv, LoopOK, JobOK, SeeCommand, Halting, Rolling, Restoring, Calls
<1>2. /\ cache' = [cache EXCEPT ![p] = Store] /\ Enter(p, "halt", nodes[job[p].cluster])
      /\ UNCHANGED <<etcdVars, storeVars, leader, job, faults, specs>>
  BY Zenon DEF SeeCommand
<1>3. nodes[job[p].cluster] \in SUBSET Hosts
  BY <1>1, Zenon DEF TypeInv, EtcdOK
<1>4. LoopOK'
  BY <1>1, <1>2, <1>3, EnterSameJobOK, Zenon DEF etcdVars
<1>5. Store \in [spec : Versions, commands : Seq(Cmds)]
  BY DEF TypeInv, StoreOK, Store
<1>6. EtcdOK' /\ StoreOK' /\ CountOK'
  BY <1>2, <1>5, Zenon DEF TypeInv, EtcdOK, StoreOK, CountOK, etcdVars, storeVars, Cmds
<1> QED
  BY <1>4, <1>6, Zenon DEF TypeInv

LEMMA WriteSpecTypes ==
    ASSUME TypeInv, NEW p \in Leaders, WriteSpec(p)
    PROVE  TypeInv'
<1> DEFINE next == IF pc[p] = "spec" THEN "restore" ELSE "remove"
<1>1. job[p].version \in Versions /\ JobOK(next, job[p], written) /\ next \in Calls
  BY Zenon DEF TypeInv, LoopOK, JobOK, WriteSpec, Halting, Rolling, Restoring, Calls
<1>2. /\ UNCHANGED <<etcdVars, commands, leader, cache, specs>>
      /\ spec' \in {spec, job[p].version}
      /\ \/ NoFault /\ Enter(p, next, {}) /\ UNCHANGED job
         \/ \E kind : Fault(kind) /\ Return(p, FALSE)
  BY Zenon DEF WriteSpec
<1> HIDE DEF next
<1>3. LoopOK' /\ faults' \in 0..MaxFaults
  BY <1>1, <1>2, ProceedOK, Zenon DEF etcdVars
<1>4. EtcdOK' /\ StoreOK'
  BY <1>1, <1>2, Zenon DEF TypeInv, EtcdOK, StoreOK, etcdVars, Cmds
<1> QED
  BY <1>2, <1>3, <1>4, Zenon DEF TypeInv, CountOK

(* What removeCommand leaves are commands that were there. *)
LEMMA WithoutType ==
    ASSUME NEW T, NEW s \in Seq(T), NEW i \in DOMAIN s
    PROVE  Without(s, i) \in Seq(T)
<1>1. Len(s) \in Nat /\ i \in 1..Len(s) /\ \A k \in 1..Len(s) : s[k] \in T
  OBVIOUS
<1>2. SubSeq(s, 1, i - 1) \in Seq(T) /\ SubSeq(s, i + 1, Len(s)) \in Seq(T)
  BY <1>1
<1> QED
  BY <1>2 DEF Without

LEMMA RemoveCommandTypes ==
    ASSUME TypeInv, NEW p \in Leaders, RemoveCommand(p)
    PROVE  TypeInv'
<1>1. /\ UNCHANGED <<etcdVars, spec, leader, specs>> /\ cache' = [cache EXCEPT ![p] = None]
      /\ commands' = commands \/ \E i \in Mine(p) : commands' = Without(commands, i)
      /\ \E kind : NoFault \/ Fault(kind)
      /\ \E b \in BOOLEAN : Return(p, b)
  BY Zenon DEF RemoveCommand
<1>2. Mine(p) \subseteq DOMAIN commands /\ commands \in Seq(Cmds)
  BY Zenon DEF Mine, TypeInv, StoreOK
<1>3. commands' \in Seq(Cmds)
  BY <1>1, <1>2, WithoutType, Zenon
<1>4. EtcdOK' /\ StoreOK'
  BY <1>1, <1>3, Zenon DEF TypeInv, EtcdOK, StoreOK, etcdVars, Cmds
<1>5. LoopOK' /\ faults' \in 0..MaxFaults
  BY <1>1, FaultOK, ReturnOK, Zenon DEF etcdVars
<1> QED
  BY <1>1, <1>4, <1>5, Zenon DEF TypeInv, CountOK

(* Etcd, the clients, the operator and the election. *)
LEMMA MoreCommands ==
    ASSUME TypeInv, written' \in 0..MaxWrites, written' >= written
    PROVE  /\ Seq(Cmds) \subseteq Seq(Cmds') /\ 0..written \subseteq 0..written'
           /\ \A call, j : JobOK(call, j, written) => JobOK(call, j, written')
<1>1. written \in Nat /\ written' \in Nat
  BY UpgradeAssumption DEF TypeInv, EtcdOK
<1>2. 0..written \subseteq 0..written'
  BY <1>1
<1>3. Cmds \subseteq Cmds'
  BY <1>2, Zenon DEF Cmds
<1>4. Seq(Cmds) \subseteq Seq(Cmds')
  BY <1>3
<1> QED
  BY <1>2, <1>4, Zenon DEF JobOK

LEMMA OutsideTypes ==
    ASSUME TypeInv,
           \/ \E h \in Hosts : EtcdStarts(h) \/ EtcdExits(h)
           \/ \E c \in Clusters : ClientWrites(c)
           \/ \E v \in Versions : OperatorSetsSpec(v)
           \/ \E p \in Leaders : CacheExpires(p)
    PROVE  TypeInv'
<1>1. CASE \E h \in Hosts : EtcdStarts(h) \/ EtcdExits(h)
  <2>1. /\ UNCHANGED <<state, nodes, data, written, storeVars, leader, cache, loopVars, specs>>
        /\ \E h \in Hosts : running' = running \ {h} \/ (running' = running \cup {h} /\ state[h] # None)
        /\ \E kind : NoFault \/ Fault(kind)
    BY <1>1, Zenon DEF EtcdStarts, EtcdExits, NoFault
  <2>2. EtcdOK' /\ LoopOK' /\ faults' \in 0..MaxFaults
    <3>1. EtcdOK'
      BY <2>1, Zenon DEF TypeInv, EtcdOK
    <3>2. LoopOK'
      BY <2>1, Zenon DEF TypeInv, LoopOK, loopVars
    <3> QED
      BY <2>1, <3>1, <3>2, FaultOK, Zenon
  <2> QED
    BY <2>1, <2>2, CallTypes, Zenon
<1>2. CASE \E c \in Clusters : ClientWrites(c)
  <2>1. PICK c \in Clusters : ClientWrites(c)
    BY <1>2, Zenon
  <2>2. /\ written < MaxWrites /\ written' = written + 1 /\ data' = [data EXCEPT ![c] = @ + 1]
        /\ UNCHANGED <<state, running, nodes, storeVars, leader, cache, loopVars, faults, specs>>
    BY <2>1, Zenon DEF ClientWrites
  <2>3. written \in Nat /\ written' \in 0..MaxWrites /\ written' >= written
    BY <2>2, UpgradeAssumption DEF TypeInv, EtcdOK
  <2>4. data' \in [Clusters -> 0..written']
    BY <2>2, <2>3 DEF TypeInv, EtcdOK
  <2>5. EtcdOK'
    BY <2>2, <2>3, <2>4, Zenon DEF TypeInv, EtcdOK
  <2>6. StoreOK'
    <3>1. [spec : Versions, commands : Seq(Cmds)] \subseteq [spec : Versions, commands : Seq(Cmds')]
      BY <2>3, MoreCommands, Zenon
    <3>2. spec' = spec /\ commands' = commands /\ cache' = cache
      BY <2>2, Zenon DEF storeVars
    <3>3. cache \in [Leaders -> [spec : Versions, commands : Seq(Cmds')] \cup {None}]
      BY <3>1, Zenon DEF TypeInv, StoreOK
    <3>4. spec \in Versions /\ commands \in Seq(Cmds')
      BY <2>3, MoreCommands, Zenon DEF TypeInv, StoreOK
    <3> QED
      BY <3>2, <3>3, <3>4, Zenon DEF StoreOK
  <2>7. LoopOK'
    BY <2>2, <2>3, MoreCommands, Zenon DEF TypeInv, LoopOK, loopVars
  <2> QED
    BY <2>2, <2>5, <2>6, <2>7, Zenon DEF TypeInv, CountOK
<1>3. CASE \E v \in Versions : OperatorSetsSpec(v)
  <2>1. /\ UNCHANGED <<etcdVars, commands, leader, cache, loopVars, faults>> /\ spec' \in Versions
        /\ specs < MaxSpecs /\ specs' = specs + 1
    BY <1>3, Zenon DEF OperatorSetsSpec
  <2>2. EtcdOK' /\ StoreOK' /\ CountOK'
    <3>1. EtcdOK' /\ StoreOK'
      BY <2>1, Zenon DEF TypeInv, EtcdOK, StoreOK, etcdVars, Cmds
    <3>2. CountOK'
      BY <2>1, UpgradeAssumption DEF TypeInv, CountOK
    <3> QED
      BY <3>1, <3>2, Zenon
  <2>3. LoopOK'
    BY <2>1, Zenon DEF TypeInv, LoopOK, loopVars, etcdVars
  <2> QED
    BY <2>2, <2>3, Zenon DEF TypeInv
<1>4. CASE \E p \in Leaders : CacheExpires(p)
  <2>1. /\ UNCHANGED <<etcdVars, storeVars, leader, loopVars, faults, specs>>
        /\ \E p \in Leaders : cache' = [cache EXCEPT ![p] = None]
    BY <1>4, Zenon DEF CacheExpires
  <2>2. EtcdOK' /\ StoreOK' /\ CountOK'
    BY <2>1, Zenon DEF TypeInv, EtcdOK, StoreOK, CountOK, etcdVars, storeVars, Cmds
  <2>3. LoopOK'
    BY <2>1, Zenon DEF TypeInv, LoopOK, loopVars, etcdVars
  <2> QED
    BY <2>2, <2>3 DEF TypeInv
<1> QED
  BY <1>1, <1>2, <1>3, <1>4, Zenon

LEMMA TakeOverTypes ==
    ASSUME TypeInv, NEW p \in Leaders, NEW kind, TakeOver(p, kind)
    PROVE  TypeInv'
<1>1. /\ leader' = p /\ UNCHANGED <<etcdVars, storeVars, specs>> /\ leader \in Leaders
      /\ faults' \in 0..MaxFaults
  BY FaultOK, Zenon DEF TakeOver, TypeInv, CountOK
<1>2. EtcdOK' /\ CountOK'
  BY <1>1, Zenon DEF TypeInv, EtcdOK, CountOK, etcdVars
<1>3. CASE Return(leader, FALSE) /\ cache' = [cache EXCEPT ![p] = None, ![leader] = None]
  <2>1. LoopOK'
    BY <1>1, <1>3, ReturnOK, Zenon DEF etcdVars
  <2>2. StoreOK'
    BY <1>1, <1>3, Zenon DEF TypeInv, StoreOK, etcdVars, storeVars, Cmds
  <2> QED
    BY <1>2, <2>1, <2>2, Zenon DEF TypeInv
<1>4. CASE UNCHANGED <<cache, loopVars>>
  <2>1. LoopOK'
    BY <1>1, <1>4, Zenon DEF TypeInv, LoopOK, loopVars, etcdVars
  <2>2. StoreOK'
    BY <1>1, <1>4, Zenon DEF TypeInv, StoreOK, etcdVars, storeVars, Cmds
  <2> QED
    BY <1>2, <2>1, <2>2 DEF TypeInv
<1> QED
  BY <1>3, <1>4, Zenon DEF TakeOver

LEMMA ControlTypes ==
    ASSUME TypeInv, NEW p \in Leaders, Control(p)
    PROVE  TypeInv'
<1>1. CASE Refresh(p)
  BY <1>1, RefreshTypes, Zenon
<1>2. CASE \E P \in SUBSET Hosts : BeginCycle(p, P)
  BY <1>2, BeginCycleTypes, Zenon
<1>3. CASE CallFails(p) \/ BackupFails(p) \/ NoPeerToRestore(p)
  BY <1>3, CallFailsTypes, Zenon
<1>4. CASE \E call \in {"backup", "backup_again", "roll_backup"} : Backup(p, call)
  BY <1>4, BackupTypes, Zenon
<1>5. CASE \E h \in Hosts : \/ SetQuarantine(p, h, "quarantine", TRUE)
                            \/ SetQuarantine(p, h, "requarantine", TRUE)
                            \/ SetQuarantine(p, h, "lift", FALSE)
  <2>1. TRUE \in BOOLEAN /\ FALSE \in BOOLEAN
    BY Zenon
  <2> QED
    BY <1>5, <2>1, SetQuarantineTypes, Zenon
<1>6. CASE \E h \in Hosts, call \in {"halt", "stop"} : StopEtcd(p, h, call)
  BY <1>6, StopEtcdTypes, Zenon
<1>7. CASE \E h \in Hosts : Roll(p, h)
  BY <1>7, RollTypes, Zenon
<1>8. CASE \E h \in Hosts : AddNode(p, h)
  BY <1>8, AddNodeTypes, Zenon
<1>9. CASE BeginCreate(p)
  BY <1>9, BeginCreateTypes
<1>10. CASE \E h \in Hosts : JoinInitial(p, h)
  BY <1>10, JoinInitialTypes
<1>11. CASE \E h \in Hosts : DoRestore(p, h)
  BY <1>11, DoRestoreTypes
<1>12. CASE AddCommand(p)
  BY <1>12, AddCommandTypes
<1>13. CASE SeeCommand(p)
  BY <1>13, SeeCommandTypes
<1>14. CASE WriteSpec(p)
  BY <1>14, WriteSpecTypes
<1>15. CASE RemoveCommand(p)
  BY <1>15, RemoveCommandTypes
<1> QED
  BY <1>1, <1>2, <1>3, <1>4, <1>5, <1>6, <1>7, <1>8, <1>9, <1>10, <1>11, <1>12, <1>13, <1>14,
     <1>15, Zenon, Zenon DEF Control

LEMMA TypesInit ==
    ASSUME Init
    PROVE  TypeInv
<1>1. NoJob \in Jobs /\ "idle" \in Calls
  BY Zenon DEF NoJob, Jobs, Calls
<1>2. /\ pc = [p \in Leaders |-> "idle"] /\ job = [p \in Leaders |-> NoJob]
      /\ todo = [p \in Leaders |-> {}] /\ rested = [p \in Leaders |-> FALSE]
  BY Zenon DEF Init
<1>3. LoopOK
  <2>1. rested \in [Leaders -> BOOLEAN]
    BY <1>2, Zenon
  <2> QED
    BY <1>1, <1>2, <2>1, Zenon DEF LoopOK, JobOK, Halting, Rolling, Restoring
<1>4. CountOK
  BY UpgradeAssumption DEF Init, CountOK
<1>5. StoreOK
  BY DEF Init, StoreOK
<1>6. EtcdOK
  <2>1. PICK c \in Clusters, absent \in {{}, {CHOOSE h \in Hosts : TRUE}} :
        /\ running = Hosts \ absent
        /\ state = [h \in Hosts |-> IF h \in absent THEN None
                                    ELSE [cluster |-> c, version |-> spec, quarantined |-> FALSE]]
        /\ nodes = [d \in Clusters |-> IF d = c THEN Hosts \ absent ELSE {}]
    BY Zenon DEF Init
  <2> DEFINE s == [cluster |-> c, version |-> spec, quarantined |-> FALSE]
  <2>2. s \in States /\ s # None
    <3>1. spec \in Versions
      BY Zenon DEF Init
    <3>2. s \in States
      BY <3>1, Zenon DEF States
    <3> QED
      BY <3>2, UpgradeAssumption, Zenon
  <2>3. state = [h \in Hosts |-> IF h \in absent THEN None ELSE s]
    BY <2>1, Zenon
  <2> HIDE DEF s
  <2>4. state \in [Hosts -> States \cup {None}] /\ \A h \in running : state[h] # None
    BY <2>1, <2>2, <2>3, Zenon
  <2>5. /\ running \subseteq Hosts /\ nodes \in [Clusters -> SUBSET Hosts]
    BY <2>1, Zenon
  <2>6. data \in [Clusters -> 0..written] /\ written \in 0..MaxWrites
    BY UpgradeAssumption DEF Init
  <2> QED
    BY <2>4, <2>5, <2>6, Zenon DEF EtcdOK
<1> QED
  BY <1>3, <1>4, <1>5, <1>6, Zenon DEF TypeInv

LEMMA TypesNext ==
    ASSUME TypeInv, [Next]_vars
    PROVE  TypeInv'
<1>1. CASE \E p \in Leaders : Control(p)
  BY <1>1, ControlTypes, Zenon
<1>2. CASE \/ \E h \in Hosts : EtcdStarts(h) \/ EtcdExits(h)
           \/ \E c \in Clusters : ClientWrites(c)
           \/ \E v \in Versions : OperatorSetsSpec(v)
           \/ \E p \in Leaders : CacheExpires(p)
  BY <1>2, OutsideTypes, Zenon
<1>3. CASE \E p \in Leaders, kind \in {"crash", "election"} : TakeOver(p, kind)
  BY <1>3, TakeOverTypes, Zenon
<1>4. CASE UNCHANGED vars
  <2>1. EtcdOK' /\ StoreOK' /\ CountOK'
    BY <1>4, Zenon DEF vars, etcdVars, storeVars, TypeInv, EtcdOK, StoreOK, CountOK, Cmds
  <2>2. LoopOK'
    BY <1>4, Zenon DEF vars, etcdVars, loopVars, TypeInv, LoopOK
  <2> QED
    BY <2>1, <2>2, Zenon DEF TypeInv
<1> QED
  BY <1>1, <1>2, <1>3, <1>4, Zenon DEF Next

(* The control loops, the hosts and the control store keep their types,    *)
(* whoever leads and whatever fails: in particular, every call finds in    *)
(* the local variables of run() the cluster, the version and the backup    *)
(* that it uses (JobOK), and no backup holds more than has been written.   *)
THEOREM UpgradeTypes == Spec => []UpgradeTypeOK
<1>1. TypeInv => UpgradeTypeOK
  <2> SUFFICES ASSUME TypeInv PROVE UpgradeTypeOK
    BY Zenon
  <2>1. 0..written \subseteq 0..MaxWrites
    BY UpgradeAssumption DEF TypeInv, EtcdOK
  <2>2. Cmds \subseteq Commands
    BY <2>1, Zenon DEF Cmds, Commands
  <2>3. Seq(Cmds) \subseteq Seq(Commands)
    BY <2>2
  <2>4. [spec : Versions, commands : Seq(Cmds)] \subseteq Caches
    BY <2>3, Zenon DEF Caches
  <2>5. cache \in [Leaders -> Caches \cup {None}] /\ commands \in Seq(Commands)
    BY <2>3, <2>4, Zenon DEF TypeInv, StoreOK
  <2>6. data \in [Clusters -> 0..MaxWrites]
    BY <2>1, Zenon DEF TypeInv, EtcdOK
  <2> QED
    BY <2>5, <2>6, Zenon DEF TypeInv, EtcdOK, StoreOK, LoopOK, CountOK, UpgradeTypeOK
<1> QED
  BY <1>1, TypesInit, TypesNext, PTL DEF Spec

-----------------------------------------------------------------------------
(* One cluster at a time                                                   *)
(*                                                                         *)
(* As long as nobody wins an election over a leader that goes on, all      *)
(* hosts but one at the most are without a cluster or in the cluster m     *)
(* that was created last.  The other, o, was away at the time; there is    *)
(* none where a cluster of less than three hosts was created.              *)

Pc == pc[leader]
Todo == todo[leader]
Job == job[leader]
Odd == {x \in Hosts \cup {None} : MemberCount < 3 => x = None}

(* Only the leader is doing something or has read the control store. *)
OthersRest == \A q \in Leaders \ {leader} : pc[q] = "idle" /\ cache[q] = None

OneMain(m, o) ==
    /\ \A h \in Hosts : h = o \/ state[h] = None \/ In(h, m)
    /\ MemberCount >= 3 => \A c \in Clusters : c = m \/ ~Fresh(c) => Cardinality(nodes[c]) >= 2

CloseIn(m) ==
    \A g, h \in Hosts : In(g, m) /\ In(h, m) => state[g].version <= state[h].version + 1

(* A new cluster is created when the hosts that take part have stopped. *)
Creating ==
    /\ Pc \in {"stop", "create"} => \E x \in Odd : Hosts \ {x} \subseteq Job.peers
    /\ Pc = "stop" => \A h \in Job.peers : h \in Todo \/ state[h] = None
    /\ Pc = "create" => \A h \in Job.peers : state[h] = None

(* The leader works on m, and changes its version where that is safe. *)
Working(m) ==
    /\ Pc \in Halting \cup Rolling \cup {"add", "initial"} => Job.cluster = m
    /\ Pc = "initial" => \A h \in Hosts : In(h, m) => state[h].version = Job.version
    /\ Pc \in Halting \cup Rolling => nodes[m] = Hosts
    /\ Pc \in Rolling => \A h \in Hosts : /\ In(h, m) /\ state[h].version <= Job.version
                                          /\ Job.version <= state[h].version + 1

Shape(m, o) == OthersRest /\ OneMain(m, o) /\ CloseIn(m) /\ Creating /\ Working(m)

(* A host is added only when whoever is configured is in m: as long as no  *)
(* cluster is being created, either the other is in m too, or every host   *)
(* but the other has a cluster, and there is none to add but the other.    *)
(* A cluster is created only under a command; where it needs all hosts     *)
(* (Strict), there is no other.                                            *)
Aligned(m) == \A h \in Hosts : state[h] = None \/ In(h, m)
Whole(m, o) == Aligned(m) \/ \A h \in Hosts : h = o \/ state[h] # None
Strict == QuorumSize(MemberCount - 1) # QuorumSize(MemberCount)
Read == cache[leader] # None
NoCommand == commands = <<>> \/ (Read /\ cache[leader].commands = <<>>)

Remembered(m, o) ==
    /\ Read /\ cache[leader].commands # <<>> => commands # <<>>
    /\ NoCommand => Whole(m, o)
    /\ Strict => Aligned(m)

Settled(m, o) ==
    /\ Remembered(m, o)
    /\ Pc \in {"stop", "create", "initial"} => ~NoCommand
    /\ Pc \in Halting => Aligned(m)
    /\ Pc \in {"add", "spec", "restore", "spec_again", "remove"} => Whole(m, o)
    /\ Pc \in {"stop", "create"} /\ Strict => Hosts \subseteq Job.peers
    /\ Pc = "initial" => \A h \in Hosts : h = o \/ h \in Todo \/ state[h] # None
    /\ Pc = "add" => \A h \in Todo : state[h] = None

Sound(m, o) == Shape(m, o) /\ Settled(m, o)

(* Clients are shut out between the last backup and the restore, and the   *)
(* cluster has everything in it otherwise.                                 *)
ShutOut == \A h \in Hosts : state[h] = None \/ state[h].quarantined
Before == {"backup", "quarantine", "backup_again", "command", "roll_backup", "roll", "lift", "add",
           "requarantine"}
After == {"stop", "create", "initial", "spec", "restore", "spec_again", "remove"}

Stored(m) ==
    /\ Len(commands) <= 1
    /\ cache[leader] # None /\ Pc # "see" => cache[leader].commands = commands
    /\ Pc \in Before => commands = <<>>
    /\ Pc \in After \cup {"see", "halt"} => commands # <<>>
    /\ commands # <<>> => ShutOut /\ commands[1].backup = written
    /\ commands = <<>> \/ Pc \in {"spec_again", "remove"} => data[m] = written

Shutting(m) ==
    /\ Pc = "quarantine" => \A h \in Hosts : h \in Todo \/ state[h] = None \/ state[h].quarantined
    /\ Pc \in {"backup_again", "command"} => ShutOut
    /\ Pc \in {"backup", "quarantine", "backup_again"} => \A h \in Job.able : In(h, m)
    /\ Pc \in After \cup {"command"} => Job.backup = written

Kept(m) == Stored(m) /\ Shutting(m)

VInv == \E m \in Clusters, o \in Odd : Sound(m, o)
UInv == \E m \in Clusters, o \in Odd : Sound(m, o) /\ Kept(m)
RInv == faults = 0 => VInv /\ (Pc \in Rolling => running = Hosts)

-----------------------------------------------------------------------------
(* What the leader sees                                                    *)

(* How subsets of Hosts count.  The lemmas that need it assume it; it is   *)
(* proved (HostsAreCounted) right before the theorems, so that the library *)
(* of finite sets is not in the way of every other proof.                  *)
HostsCount ==
    /\ MemberCount \in Nat
    /\ \A S \in SUBSET Hosts : /\ Cardinality(S) \in Nat
                               /\ Cardinality(S) <= MemberCount
                               /\ Cardinality(S) = MemberCount => S = Hosts
                               /\ S = {} => Cardinality(S) = 0
                               /\ \A h \in Hosts : S \subseteq {h} => Cardinality(S) <= 1
                               /\ \A T \in SUBSET S : Cardinality(T) <= Cardinality(S)
                               /\ \A h \in Hosts \ S : Cardinality(S \cup {h}) = Cardinality(S) + 1

LEMMA AllButOne ==
    ASSUME HostsCount, NEW x
    PROVE  /\ Cardinality(Hosts \ {x}) >= MemberCount - 1
           /\ x \in Hosts => Cardinality(Hosts \ {x}) = MemberCount - 1
<1>1. CASE x \in Hosts
  <2>1. /\ Hosts \ {x} \in SUBSET Hosts /\ x \in Hosts \ (Hosts \ {x})
        /\ (Hosts \ {x}) \cup {x} = Hosts
    BY <1>1, Zenon
  <2>2. MemberCount = Cardinality(Hosts \ {x}) + 1 /\ Cardinality(Hosts \ {x}) \in Nat
    BY <2>1, Zenon DEF HostsCount, MemberCount
  <2> QED
    BY <2>2
<1>2. CASE x \notin Hosts
  <2>1. Hosts \ {x} = Hosts
    BY <1>2, Zenon
  <2> QED
    BY <1>2, <2>1 DEF HostsCount, MemberCount
<1> QED
  BY <1>1, <1>2, Zenon

(* Only the cluster created last can have a quorum. *)
LEMMA SeesMain ==
    ASSUME HostsCount, TypeInv, NEW m \in Clusters, NEW o \in Odd, OneMain(m, o),
           NEW c \in Clusters, HasQuorum(c)
    PROVE  c = m
<1> SUFFICES ASSUME c # m PROVE FALSE
  BY Zenon
<1> DEFINE n == Cardinality(nodes[c])
           k == Cardinality(Serving(c))
<1>1. nodes[c] \in SUBSET Hosts /\ Serving(c) \in SUBSET Hosts
  BY Zenon DEF TypeInv, EtcdOK, Serving
<1>2. n \in Nat /\ k \in Nat /\ k >= QuorumSize(n)
  BY <1>1, Zenon DEF HostsCount, HasQuorum
<1>3. Serving(c) \subseteq {o}
  BY <1>1, Zenon DEF Serving, In, OneMain
<1>4. k <= 1 /\ (Serving(c) = {} => k = 0)
  <2>1. CASE o \in Hosts
    BY <1>1, <1>3, <2>1, Zenon DEF HostsCount
  <2>2. CASE o \notin Hosts
    BY <1>1, <1>3, <2>2 DEF HostsCount
  <2> QED
    BY <2>1, <2>2, Zenon
<1> HIDE DEF n, k
<1>5. k >= 1
  BY <1>2 DEF QuorumSize
<1>6. o \in Serving(c)
  BY <1>3, <1>4, <1>5
<1>7. MemberCount >= 3 /\ ~Fresh(c)
  <2>1. o \in Hosts /\ In(o, c)
    BY <1>1, <1>6, Zenon DEF Serving
  <2>2. ~(MemberCount < 3)
    BY <2>1, UpgradeAssumption, Zenon DEF Odd
  <2> QED
    BY <2>1, <2>2 DEF HostsCount, Fresh
<1>8. n >= 2
  BY <1>7, Zenon DEF OneMain, n
<1> QED
  BY <1>2, <1>4, <1>8 DEF QuorumSize

LEMMA SeesOneCluster ==
    ASSUME HostsCount, TypeInv, NEW m \in Clusters, NEW o \in Odd, OneMain(m, o)
    PROVE  /\ Seen \subseteq {m}
           /\ Seen # {} => SeenCluster = m
           /\ SeenMembers \subseteq nodes[m] /\ SeenHealthy \subseteq Serving(m)
<1>1. Seen \subseteq {m}
  BY SeesMain, Zenon DEF Seen
<1> QED
  BY <1>1, Zenon DEF SeenCluster, SeenMembers, SeenHealthy

(* Every member is there and serves. *)
LEMMA SeesReady ==
    ASSUME HostsCount, TypeInv, NEW m \in Clusters, NEW o \in Odd, OneMain(m, o), Seen # {},
           NEW P \in SUBSET Hosts, ReadyForUpgrade(P)
    PROVE  /\ P = Hosts /\ nodes[m] = Hosts /\ running = Hosts
           /\ \A h \in Hosts : In(h, m)
<1>1. SeenMembers \subseteq nodes[m] /\ SeenHealthy \subseteq Serving(m) /\ nodes[m] \in SUBSET Hosts
  BY SeesOneCluster, Zenon DEF TypeInv, EtcdOK
<1>2. SeenMembers = Hosts
  BY <1>1, Zenon DEF HostsCount, ReadyForUpgrade
<1>3. Serving(m) = Hosts
  BY <1>1, <1>2, Zenon DEF ReadyForUpgrade, Serving
<1>4. running \subseteq Hosts
  BY Zenon DEF TypeInv, EtcdOK
<1> QED
  BY <1>1, <1>2, <1>3, <1>4, Zenon DEF ReadyForUpgrade, Serving

(* All hosts but one at the most take part in a creation. *)
LEMMA PeersOfCreation ==
    ASSUME HostsCount, NEW P \in SUBSET Hosts, P = Hosts \/ Cardinality(P) = MemberCount - 1, Enough(P)
    PROVE  \E x \in Odd : Hosts \ {x} \subseteq P
<1>1. CASE P = Hosts
  <2>1. None \in Odd
    BY Zenon DEF Odd
  <2> QED
    BY <1>1, <2>1, Zenon
<1>2. CASE P # Hosts /\ Cardinality(P) = MemberCount - 1
  <2>1. MemberCount \in Nat /\ MemberCount >= 3
    BY <1>2 DEF HostsCount, Enough, QuorumSize
  <2>2. PICK x \in Hosts : x \notin P
    BY <1>2, Zenon
  <2>3. Cardinality(P \cup {x}) = Cardinality(P) + 1
    BY <2>2, Zenon DEF HostsCount
  <2>4. P \cup {x} = Hosts
    BY <1>2, <2>1, <2>2, <2>3 DEF HostsCount
  <2>5. x \in Odd
    BY <2>1, <2>2 DEF Odd
  <2> QED
    BY <2>4, <2>5, Zenon
<1> QED
  BY <1>1, <1>2, Zenon

-----------------------------------------------------------------------------
(* How the leader moves on                                                 *)

LEMMA ReturnMoves ==
    ASSUME TypeInv, OthersRest, NEW b, Return(leader, b), UNCHANGED leader,
           \A q \in Leaders \ {leader} : cache'[q] = cache[q]
    PROVE  OthersRest' /\ Pc' = "idle"
BY Zenon DEF TypeInv, LoopOK, CountOK, OthersRest, Return, Pc

LEMMA EnterMoves ==
    ASSUME TypeInv, OthersRest, NEW call, NEW S, Enter(leader, call, S), UNCHANGED leader,
           \A q \in Leaders \ {leader} : cache'[q] = cache[q]
    PROVE  OthersRest' /\ Pc' = call /\ Todo' = S
BY Zenon DEF TypeInv, LoopOK, CountOK, OthersRest, Enter, Pc, Todo

(* What a call to a host leads to. *)
Moved(h) ==
    \/ Pc' = "idle"
    \/ Pc' = Pc /\ Todo' = Todo \ {h} /\ Job' = Job
    \/ /\ Todo = {h} /\ Job' = Job
       /\ \/ Pc = "quarantine" /\ Pc' = "backup_again"
          \/ Pc = "stop" /\ Pc' = "create"
          \/ Pc = "initial" /\ Pc' = "spec"

LEMMA AnsweredMoves ==
    ASSUME TypeInv, OthersRest, NEW h, Answered(leader, h), UNCHANGED <<leader, cache>>
    PROVE  OthersRest' /\ Moved(h)
<1>1. CASE \E b : Return(leader, b)
  BY <1>1, ReturnMoves, Zenon DEF Moved
<1>2. CASE Enter(leader, Pc, Todo \ {h}) /\ UNCHANGED job
  <2>1. OthersRest' /\ Pc' = Pc /\ Todo' = Todo \ {h}
    BY <1>2, EnterMoves, Zenon
  <2> QED
    BY <1>2, <2>1, Zenon DEF Moved, Job
<1>3. CASE Todo = {h} /\ Onward(leader)
  <2>1. \/ Pc = "quarantine" /\ Enter(leader, "backup_again", {}) /\ UNCHANGED job
        \/ Pc = "stop" /\ Enter(leader, "create", {}) /\ UNCHANGED job
        \/ Pc = "initial" /\ Enter(leader, "spec", {}) /\ UNCHANGED job
        \/ \E b : Return(leader, b)
    BY <1>3, Zenon DEF Onward, Pc
  <2>2. CASE Pc = "quarantine" /\ Enter(leader, "backup_again", {}) /\ UNCHANGED job
    BY <1>3, <2>2, EnterMoves, Zenon DEF Moved, Job
  <2>3. CASE Pc = "stop" /\ Enter(leader, "create", {}) /\ UNCHANGED job
    BY <1>3, <2>3, EnterMoves, Zenon DEF Moved, Job
  <2>4. CASE Pc = "initial" /\ Enter(leader, "spec", {}) /\ UNCHANGED job
    BY <1>3, <2>4, EnterMoves, Zenon DEF Moved, Job
  <2> QED
    BY <1>1, <2>1, <2>2, <2>3, <2>4, Zenon
<1> QED
  BY <1>1, <1>2, <1>3, Zenon DEF Answered, Pc, Todo

(* Only the leader takes steps. *)
LEMMA LeaderActs ==
    ASSUME OthersRest, NEW p \in Leaders, Control(p)
    PROVE  p = leader
<1> SUFFICES ASSUME p # leader PROVE FALSE
  BY Zenon
<1>1. pc[p] = "idle"
  BY Zenon DEF OthersRest
<1> QED
  BY <1>1, Zenon DEF Control, Refresh, BeginCycle, CallFails, Backup, BackupFails, SetQuarantine, StopEtcd,
     Roll, AddNode, BeginCreate, JoinInitial, DoRestore, NoPeerToRestore, AddCommand, SeeCommand,
     WriteSpec, RemoveCommand, Calling, HostCalls

(* Nothing is asked of a leader that is about to begin a cycle. *)
LEMMA IdleShape ==
    ASSUME NEW m, Pc' = "idle"
    PROVE  Creating' /\ Working(m)'
BY Zenon DEF Creating, Working, Halting, Rolling

LEMMA SameHosts ==
    ASSUME NEW m, NEW o, OneMain(m, o), CloseIn(m), UNCHANGED <<state, nodes>>
    PROVE  OneMain(m, o)' /\ CloseIn(m)'
BY Zenon DEF OneMain, CloseIn, In, Fresh

(* A step of the leader that returns, and leaves the hosts alone. *)
LEMMA ReturnShape ==
    ASSUME TypeInv, NEW m \in Clusters, NEW o \in Odd, Shape(m, o), NEW b, Return(leader, b),
           UNCHANGED <<state, nodes, leader>>, \A q \in Leaders \ {leader} : cache'[q] = cache[q]
    PROVE  Shape(m, o)'
<1>1. OthersRest' /\ Pc' = "idle"
  BY ReturnMoves, Zenon DEF Shape
<1> QED
  BY <1>1, IdleShape, SameHosts, Zenon DEF Shape

(* A step of the leader that goes on to a call of which Shape says no more *)
(* than of the one before.                                                 *)
LEMMA EnterShape ==
    ASSUME TypeInv, NEW m \in Clusters, NEW o \in Odd, Shape(m, o), NEW call, NEW S,
           Enter(leader, call, S), UNCHANGED <<state, nodes, leader>>,
           \A q \in Leaders \ {leader} : cache'[q] = cache[q],
           Job'.cluster = Job.cluster, Job'.version = Job.version,
           call \notin {"stop", "create", "initial", "add"},
           call \in Halting => Pc \in Halting, call \in Rolling => Pc \in Rolling
    PROVE  Shape(m, o)'
<1>1. OthersRest' /\ Pc' = call
  BY EnterMoves, Zenon DEF Shape
<1>2. OneMain(m, o)' /\ CloseIn(m)'
  BY SameHosts, Zenon DEF Shape
<1>3. Creating'
  BY <1>1, Zenon DEF Creating
<1>4. Working(m)'
  BY <1>1, Zenon DEF Shape, Working, In
<1> QED
  BY <1>1, <1>2, <1>3, <1>4, Zenon DEF Shape

-----------------------------------------------------------------------------
(* Every step keeps the shape                                              *)

LEMMA BeginCycleShape ==
    ASSUME HostsCount, TypeInv, NEW m \in Clusters, NEW o \in Odd, Shape(m, o),
           NEW P \in SUBSET Hosts, BeginCycle(leader, P)
    PROVE  Shape(m, o)'
<1> DEFINE v == cache[leader].spec
           cmds == cache[leader].commands
           plan == Plan(P, v, cmds)
<1>1. v \in Versions /\ cmds \in Seq(Cmds) /\ leader \in Leaders /\ OneMain(m, o) /\ OthersRest
  BY Zenon DEF TypeInv, StoreOK, CountOK, BeginCycle, Shape
<1>2. /\ UNCHANGED <<state, nodes, leader>>
      /\ cache' = cache \/ cache' = [cache EXCEPT ![leader] = Store]
  BY Zenon DEF BeginCycle, etcdVars
<1>3. \A q \in Leaders \ {leader} : cache'[q] = cache[q]
  BY <1>2, Zenon DEF TypeInv, StoreOK
<1>4. CASE plan = None
  <2>1. Return(leader, FALSE)
    BY <1>4, Zenon DEF BeginCycle
  <2> QED
    BY <1>2, <1>3, <2>1, ReturnShape, Zenon
<1>5. CASE plan # None
  <2>1. PlanOK(plan, P, v, cmds)
    BY <1>1, <1>5, PlanFacts, Zenon
  <2>2. job' = [job EXCEPT ![leader] = plan.job]
    BY <1>5, Zenon DEF BeginCycle
  <2>3. \/ Enter(leader, plan.call, plan.hosts) /\ (plan.call # "stop" \/ plan.hosts # {})
        \/ plan.call = "stop" /\ plan.hosts = {} /\ Enter(leader, "create", P)
    BY <1>5, Zenon DEF BeginCycle
  <2>4. P = Hosts \/ Cardinality(P) = MemberCount - 1
    BY Zenon DEF BeginCycle
  <2> HIDE DEF plan, v, cmds
  <2>5. Job' = plan.job
    BY <1>1, <1>2, <2>2, Zenon DEF Job, TypeInv, LoopOK
  <2>6. OneMain(m, o)' /\ CloseIn(m)'
    BY <1>2, SameHosts, Zenon DEF Shape
  <2>7. CASE plan.call = "stop" /\ plan.hosts = {} /\ Enter(leader, "create", P)
    <3>1. OthersRest' /\ Pc' = "create"
      BY <1>1, <1>2, <1>3, <2>7, EnterMoves, Zenon
    <3>2. Job'.peers = P /\ Enough(P) /\ Configured(P) = {}
      BY <2>1, <2>5, <2>7, Zenon DEF PlanOK
    <3>3. Creating'
      BY <1>2, <2>4, <3>1, <3>2, PeersOfCreation, Zenon DEF Creating, Configured
    <3>4. Working(m)'
      BY <3>1, Zenon DEF Working, Halting, Rolling
    <3> QED
      BY <2>6, <3>1, <3>3, <3>4, Zenon DEF Shape
  <2>8. CASE Enter(leader, plan.call, plan.hosts)
    <3>1. OthersRest' /\ Pc' = plan.call /\ Todo' = plan.hosts
      BY <1>1, <1>2, <1>3, <2>8, EnterMoves, Zenon
    <3>2. Creating'
      <4>1. CASE plan.call = "stop"
        <5>1. Job'.peers = P /\ Enough(P) /\ plan.hosts = Configured(P)
          BY <2>1, <2>5, <4>1, Zenon DEF PlanOK
        <5> QED
          BY <1>2, <2>4, <3>1, <4>1, <5>1, PeersOfCreation, Zenon DEF Creating, Configured
      <4>2. CASE plan.call # "stop"
        BY <2>1, <3>1, <4>2, Zenon DEF Creating, PlanOK
      <4> QED
        BY <4>1, <4>2, Zenon
    <3>3. Working(m)'
      <4>1. CASE plan.call \in {"roll_backup", "backup"}
        <5>1. /\ Job'.cluster \in Seen /\ ReadyForUpgrade(P) /\ Job'.version = v
              /\ plan.call = "roll_backup" => InPlace(P, v)
          BY <2>1, <2>5, <4>1, Zenon DEF PlanOK
        <5>2. Job'.cluster = m
          BY <1>1, <5>1, SeesOneCluster, Zenon
        <5>3. P = Hosts /\ nodes[m] = Hosts /\ \A h \in Hosts : In(h, m)
          BY <1>1, <5>1, SeesReady, Zenon
        <5>4. \A h \in Hosts : state[h].version \in Nat /\ v \in Nat
          BY <1>1, <5>3, UpgradeAssumption, Zenon DEF TypeInv, EtcdOK, In, States
        <5>5. ASSUME plan.call = "roll_backup", NEW h \in Hosts
              PROVE  state[h].version <= v /\ v <= state[h].version + 1
          <6>1. state[h].version = v \/ UpgradeInPlaceSupported(state[h].version, v)
            BY <5>1, <5>3, <5>5, Zenon DEF InPlace, Mismatched, Configured, In
          <6> QED
            BY <5>4, <6>1 DEF UpgradeInPlaceSupported
        <5> QED
          BY <1>2, <3>1, <4>1, <5>1, <5>2, <5>3, <5>5, Zenon DEF Working, Halting, Rolling, In
      <4>2. CASE plan.call = "add"
        <5>1. Job'.cluster = m
          BY <1>1, <2>1, <2>5, <4>2, SeesOneCluster, Zenon DEF PlanOK
        <5> QED
          BY <3>1, <4>2, <5>1, Zenon DEF Working, Halting, Rolling
      <4>3. CASE plan.call \notin {"roll_backup", "backup", "add"}
        BY <2>1, <3>1, <4>3, Zenon DEF PlanOK, Working, Halting, Rolling
      <4> QED
        BY <4>1, <4>2, <4>3, Zenon
    <3> QED
      BY <2>6, <3>1, <3>2, <3>3, Zenon DEF Shape
  <2> QED
    BY <2>3, <2>7, <2>8, Zenon
<1> QED
  BY <1>4, <1>5, Zenon

LEMMA BackupShape ==
    ASSUME TypeInv, NEW m \in Clusters, NEW o \in Odd, Shape(m, o),
           NEW call \in {"backup", "backup_again", "roll_backup"}, Backup(leader, call)
    PROVE  Shape(m, o)'
<1>1. /\ Pc = call /\ UNCHANGED <<state, nodes, leader, cache>> /\ leader \in Leaders
      /\ job \in [Leaders -> Jobs]
  BY Zenon DEF Backup, etcdVars, Pc, TypeInv, CountOK, LoopOK
<1>2. PICK b : job' = [job EXCEPT ![leader].backup = b]
  BY Zenon DEF Backup
<1>3. Job'.cluster = Job.cluster /\ Job'.version = Job.version
  <2>1. Job \in Jobs /\ Job' = [Job EXCEPT !.backup = b]
    BY <1>1, <1>2, Zenon DEF Job
  <2> QED
    BY <2>1, Zenon DEF Jobs
<1>4. PICK next, S : /\ Enter(leader, next, S)
                     /\ \/ next \in {"quarantine", "command"} /\ Pc \in {"backup", "backup_again"}
                        \/ next = "roll" /\ Pc = "roll_backup"
  BY <1>1, Zenon DEF Backup
<1>5. /\ next \notin {"stop", "create", "initial", "add"}
      /\ next \in Halting => Pc \in Halting
      /\ next \in Rolling => Pc \in Rolling
  BY <1>4, Zenon DEF Halting, Rolling
<1> QED
  BY <1>1, <1>3, <1>4, <1>5, EnterShape, Zenon

(* A host of m changes only its quarantine. *)
LEMMA SetQuarantineShape ==
    ASSUME TypeInv, NEW m \in Clusters, NEW o \in Odd, Shape(m, o), NEW h \in Hosts,
           NEW call \in {"quarantine", "requarantine", "lift"}, NEW q \in BOOLEAN,
           SetQuarantine(leader, h, call, q)
    PROVE  Shape(m, o)'
<1>1. /\ Pc = call /\ UNCHANGED <<nodes, leader, cache>> /\ Answered(leader, h)
      /\ state[h] # None /\ state' = [state EXCEPT ![h].quarantined = q]
  BY Zenon DEF SetQuarantine, Calling, Pc
<1>2. OthersRest' /\ Moved(h)
  BY <1>1, AnsweredMoves, Zenon DEF Shape
<1>3. \A g \in Hosts : /\ state'[g] = None <=> state[g] = None
                       /\ \A c : In(g, c)' <=> In(g, c)
                       /\ state[g] # None => state'[g].version = state[g].version
  <2>1. state \in [Hosts -> States \cup {None}] /\ state[h] \in States
    BY <1>1, Zenon DEF TypeInv, EtcdOK
  <2>2. state' = [state EXCEPT ![h] = [state[h] EXCEPT !.quarantined = q]]
    BY <1>1, <2>1, Zenon
  <2>3. /\ [state[h] EXCEPT !.quarantined = q] \in States
        /\ [state[h] EXCEPT !.quarantined = q].cluster = state[h].cluster
        /\ [state[h] EXCEPT !.quarantined = q].version = state[h].version
    BY <2>1, Zenon DEF States
  <2> QED
    BY <2>1, <2>2, <2>3, UpgradeAssumption, Zenon DEF In
<1>4. OneMain(m, o)' /\ CloseIn(m)'
  BY <1>1, <1>3 DEF Shape, OneMain, CloseIn, Fresh, In
<1>5. Creating' /\ Working(m)'
  <2>1. Pc' = "idle" \/ (Pc' \in {"quarantine", "backup_again"} /\ Pc = "quarantine" /\ Job' = Job)
        \/ Pc' \in {"requarantine", "lift"}
    BY <1>1, <1>2, Zenon DEF Moved
  <2> QED
    BY <1>1, <2>1, Zenon DEF Shape, Creating, Working, Halting, Rolling
<1> QED
  BY <1>2, <1>4, <1>5, Zenon DEF Shape

LEMMA StopEtcdShape ==
    ASSUME TypeInv, NEW m \in Clusters, NEW o \in Odd, Shape(m, o), NEW h \in Hosts,
           NEW call \in {"halt", "stop"}, StopEtcd(leader, h, call)
    PROVE  Shape(m, o)'
<1>1. /\ Pc = call /\ UNCHANGED <<nodes, leader, cache>> /\ Answered(leader, h)
      /\ state' = [state EXCEPT ![h] = None] /\ state \in [Hosts -> States \cup {None}]
  BY Zenon DEF StopEtcd, Calling, Pc, TypeInv, EtcdOK
<1>2. OthersRest' /\ Moved(h)
  BY <1>1, AnsweredMoves, Zenon DEF Shape
<1>3. state'[h] = None /\ \A g \in Hosts \ {h} : state'[g] = state[g]
  BY <1>1, Zenon
<1>4. OneMain(m, o)' /\ CloseIn(m)'
  BY <1>1, <1>3, Zenon DEF Shape, OneMain, CloseIn, Fresh, In
<1>5. CASE Pc' = "idle"
  BY <1>2, <1>4, <1>5, IdleShape, Zenon DEF Shape
<1>6. CASE Pc = "halt" /\ Pc' = "halt" /\ Job' = Job
  BY <1>1, <1>2, <1>4, <1>6, Zenon DEF Shape, Creating, Working, Halting, Rolling
<1>7. CASE Pc = "stop" /\ Pc' = "stop" /\ Job' = Job /\ Todo' = Todo \ {h}
  <2>1. Job.peers \in SUBSET Hosts
    BY Zenon DEF Job, TypeInv, LoopOK, CountOK, Jobs
  <2>2. Creating'
    BY <1>3, <1>7, <2>1, Zenon DEF Shape, Creating
  <2> QED
    BY <1>2, <1>4, <1>7, <2>2, Zenon DEF Shape, Working, Halting, Rolling
<1>8. CASE Pc = "stop" /\ Pc' = "create" /\ Job' = Job /\ Todo = {h}
  <2>1. Job.peers \in SUBSET Hosts
    BY DEF Job, TypeInv, LoopOK, CountOK, Jobs
  <2>2. Creating'
    BY <1>3, <1>8, <2>1, Zenon DEF Shape, Creating
  <2> QED
    BY <1>2, <1>4, <1>8, <2>2, Zenon DEF Shape, Working, Halting, Rolling
<1> QED
  BY <1>1, <1>2, <1>5, <1>6, <1>7, <1>8, Zenon DEF Moved

(* The version of one member changes to the next one, when all others are  *)
(* of the one or the other.                                                *)
LEMMA RollShape ==
    ASSUME TypeInv, NEW m \in Clusters, NEW o \in Odd, Shape(m, o), NEW h \in Hosts,
           Roll(leader, h)
    PROVE  Shape(m, o)'
<1> DEFINE s == [cluster |-> state[h].cluster, version |-> Job.version,
                 quarantined |-> h \in Job.shut]
<1>1. /\ Pc = "roll" /\ UNCHANGED <<nodes, leader, cache>> /\ \E b : Return(leader, b)
      /\ state' = [state EXCEPT ![h] = s] /\ state \in [Hosts -> States \cup {None}]
  BY Zenon DEF Roll, Calling, Pc, Job, TypeInv, EtcdOK
<1>2. /\ Job.version \in Nat
      /\ \A g \in Hosts : /\ In(g, m) /\ state[g].version <= Job.version
                          /\ Job.version <= state[g].version + 1
                          /\ state[g].version \in Nat
  <2>1. Job.version \in Versions
    BY <1>1, Zenon DEF TypeInv, LoopOK, CountOK, JobOK, Rolling, Pc, Job
  <2>2. \A g \in Hosts : In(g, m)
    BY <1>1, Zenon DEF Shape, Working, Rolling
  <2>3. \A g \in Hosts : state[g].version \in Versions
    BY <2>2, Zenon DEF In, TypeInv, EtcdOK, States
  <2> QED
    BY <1>1, <2>1, <2>2, <2>3, UpgradeAssumption, Zenon DEF Shape, Working, Rolling
<1>3. s.version = Job.version /\ s.cluster = m /\ s # None
  <2>1. s.version = Job.version /\ s.cluster = m
    BY <1>2, Zenon DEF In
  <2>2. state'[h] = s /\ state'[h] # None
    BY <1>1, SetByRoll, Zenon DEF Roll, TypeInv, CountOK
  <2> QED
    BY <2>1, <2>2, Zenon
<1> HIDE DEF s
<1>4. /\ state'[h] = s /\ \A g \in Hosts \ {h} : state'[g] = state[g]
  BY <1>1, Zenon
<1>5. OthersRest' /\ Pc' = "idle"
  BY <1>1, ReturnMoves, Zenon DEF Shape
<1>6. OneMain(m, o)'
  <2>1. \A g \in Hosts, c \in Clusters : In(g, c)' <=> In(g, c)
    BY <1>2, <1>3, <1>4, Zenon DEF In
  <2> QED
    BY <1>1, <1>2, <2>1, Zenon DEF Shape, OneMain, Fresh
<1>7. CloseIn(m)'
  BY <1>2, <1>3, <1>4 DEF CloseIn
<1> QED
  BY <1>5, <1>6, <1>7, IdleShape, Zenon DEF Shape

(* A host that joins m takes the version of a member: whichever peer comes *)
(* last is in m.                                                           *)
LEMMA AddNodeShape ==
    ASSUME HostsCount, TypeInv, NEW m \in Clusters, NEW o \in Odd, Sound(m, o), NEW h \in Hosts,
           AddNode(leader, h)
    PROVE  Shape(m, o)'
<1>1. /\ Job.cluster = m /\ UNCHANGED <<leader, cache>> /\ \E b : Return(leader, b)
  <2>1. Pc = "add" /\ UNCHANGED <<leader, cache>> /\ \E b : Return(leader, b)
    BY Zenon DEF AddNode, Calling, Pc
  <2> QED
    BY <2>1, Zenon DEF Sound, Shape, Working
<1>2. OthersRest' /\ Pc' = "idle"
  BY <1>1, ReturnMoves, Zenon DEF Sound, Shape
<1>3. CASE UNCHANGED <<state, nodes>>
  BY <1>2, <1>3, IdleShape, SameHosts, Zenon DEF Sound, Shape
<1>4. CASE \E g \in Configured(Job.peers) :
             /\ state' = [state EXCEPT ![h] = [state[g] EXCEPT !.cluster = m, !.quarantined = FALSE]]
             /\ nodes' = [nodes EXCEPT ![m] = @ \cup {h}]
  <2>1. PICK g \in Configured(Job.peers) :
             /\ state' = [state EXCEPT ![h] = [state[g] EXCEPT !.cluster = m, !.quarantined = FALSE]]
             /\ nodes' = [nodes EXCEPT ![m] = @ \cup {h}]
    BY <1>4, Zenon
  <2>2. g \in Hosts /\ In(g, m) /\ state[g] \in States
    <3>1. g \in Hosts /\ state[g] # None /\ state[g] \in States
      BY <2>1, Zenon DEF Configured, TypeInv, EtcdOK, LoopOK, CountOK, Jobs, Job
    <3>2. Pc = "add" /\ h \in Todo
      BY Zenon DEF AddNode, Calling, Pc, Todo
    <3>3. state[h] = None /\ Whole(m, o)
      BY <3>2, Zenon DEF Sound, Settled
    <3> QED
      BY <3>1, <3>3, Zenon DEF Whole, Aligned, Sound, Shape, OneMain
  <2> DEFINE s == [state[g] EXCEPT !.cluster = m, !.quarantined = FALSE]
  <2>3. s \in States /\ s.cluster = m /\ s.version = state[g].version
    BY <2>2, Zenon DEF States
  <2>4. state' = [state EXCEPT ![h] = s]
    BY <2>1, Zenon
  <2> HIDE DEF s
  <2>5. /\ s # None /\ s.cluster = m
        /\ state'[h] = s /\ \A x \in Hosts \ {h} : state'[x] = state[x]
    BY <2>2, <2>3, <2>4, UpgradeAssumption, Zenon DEF In, TypeInv, EtcdOK
  <2>6. CloseIn(m)'
    <3>1. \A x \in Hosts : In(x, m)' => \E y \in Hosts : In(y, m) /\ state'[x].version = state[y].version
      BY <2>2, <2>3, <2>5, Zenon DEF In
    <3> QED
      BY <3>1, Zenon DEF Sound, Shape, CloseIn
  <2>7. OneMain(m, o)'
    <3>1. \A x \in Hosts : x = o \/ state'[x] = None \/ In(x, m)'
      BY <2>5, Zenon DEF Sound, Shape, OneMain, In
    <3>2. ASSUME MemberCount >= 3, NEW c \in Clusters, c = m \/ ~Fresh(c)'
          PROVE  Cardinality(nodes'[c]) >= 2
      <4>1. nodes[c] \in SUBSET Hosts /\ nodes'[c] \in SUBSET Hosts /\ nodes[c] \subseteq nodes'[c]
        BY <2>1, Zenon DEF TypeInv, EtcdOK
      <4>2. Cardinality(nodes[c]) <= Cardinality(nodes'[c])
        BY <4>1, Zenon DEF HostsCount
      <4>3. c = m \/ ~Fresh(c)
        BY <2>5, <3>2, Zenon DEF Fresh, In
      <4>4. Cardinality(nodes[c]) >= 2
        BY <3>2, <4>3, Zenon DEF Sound, Shape, OneMain
      <4> QED
        BY <4>1, <4>2, <4>4 DEF HostsCount
    <3> QED
      BY <3>1, <3>2, Zenon DEF OneMain
  <2> QED
    BY <1>2, <2>6, <2>7, IdleShape, Zenon DEF Shape
<1> QED
  BY <1>1, <1>3, <1>4, Zenon DEF AddNode, Job

(* The new cluster takes the place of m; whoever was away is the other. *)
LEMMA BeginCreateShape ==
    ASSUME HostsCount, TypeInv, NEW m \in Clusters, NEW o \in Odd, Shape(m, o), BeginCreate(leader)
    PROVE  \E n \in Clusters, x \in Odd : /\ Shape(n, x)' /\ Job'.cluster = n
                                         /\ Hosts \ {x} \subseteq Job.peers
<1> DEFINE P == Job.peers
<1>1. PICK c \in Clusters : Fresh(c) /\ c = CHOOSE d \in Clusters : Fresh(d)
  BY Zenon DEF BeginCreate
<1>2. /\ leader \in Leaders /\ Pc = "create" /\ UNCHANGED <<state, leader, cache>> /\ Enter(leader, "initial", P)
      /\ nodes' = [d \in Clusters |-> IF d = c THEN P ELSE IF Fresh(d) THEN {} ELSE nodes[d]]
      /\ job' = [job EXCEPT ![leader].cluster = c]
  BY <1>1, Zenon DEF BeginCreate, Pc, Job, TypeInv, CountOK
<1>3. OthersRest' /\ Pc' = "initial"
  BY <1>2, EnterMoves, Zenon DEF Shape
<1>4. Job'.cluster = c
  BY <1>1, <1>2, Zenon DEF Job, TypeInv, LoopOK, Jobs
<1>5. PICK x \in Odd : Hosts \ {x} \subseteq P
  BY <1>2, Zenon DEF Shape, Creating
<1>6. OneMain(c, x)'
  <2>1. \A h \in Hosts : h = x \/ state[h] = None
    BY <1>2, <1>5, Zenon DEF Shape, Creating
  <2>2. ASSUME MemberCount >= 3, NEW d \in Clusters, d = c \/ ~Fresh(d)
        PROVE  Cardinality(nodes'[d]) >= 2
    <3>1. CASE d = c
      <4>1. P \in SUBSET Hosts /\ nodes'[d] = P
        BY <1>2, <3>1, Zenon DEF Job, TypeInv, LoopOK, CountOK, Jobs
      <4>2. Cardinality(Hosts \ {x}) >= MemberCount - 1
        BY AllButOne, Zenon
      <4>3. Cardinality(Hosts \ {x}) <= Cardinality(P)
        BY <1>5, <4>1, Zenon DEF HostsCount
      <4> QED
        BY <2>2, <4>1, <4>2, <4>3 DEF HostsCount
    <3>2. CASE d # c /\ ~Fresh(d)
      <4>1. nodes'[d] = nodes[d]
        BY <1>2, <3>2, Zenon
      <4> QED
        BY <2>2, <3>2, <4>1, Zenon DEF Shape, OneMain
    <3> QED
      BY <2>2, <3>1, <3>2, Zenon
  <2> QED
    BY <1>2, <2>1, <2>2, Zenon DEF OneMain, Fresh, In
<1>7. CloseIn(c)' /\ Working(c)' /\ Creating'
  BY <1>1, <1>2, <1>3, <1>4, Zenon DEF CloseIn, Working, Creating, Fresh, In, Halting, Rolling
<1> QED
  BY <1>1, <1>3, <1>4, <1>5, <1>6, <1>7, Zenon DEF Shape

LEMMA JoinInitialShape ==
    ASSUME TypeInv, NEW m \in Clusters, NEW o \in Odd, Shape(m, o), NEW h \in Hosts,
           JoinInitial(leader, h)
    PROVE  Shape(m, o)'
<1> DEFINE s == [cluster |-> Job.cluster, version |-> Job.version, quarantined |-> TRUE]
<1>1. /\ Pc = "initial" /\ UNCHANGED <<nodes, leader, cache>> /\ Answered(leader, h)
      /\ state' = [state EXCEPT ![h] = s] /\ state \in [Hosts -> States \cup {None}]
  BY Zenon DEF JoinInitial, Calling, Pc, Job, TypeInv, EtcdOK
<1>2. OthersRest' /\ Moved(h)
  BY <1>1, AnsweredMoves, Zenon DEF Shape
<1>3. s.cluster = m /\ s.version = Job.version /\ s # None /\ Job.version \in Nat
  <2>1. Job.cluster = m /\ Job.version \in Versions
    BY <1>1, Zenon DEF Shape, Working, TypeInv, LoopOK, CountOK, JobOK, Restoring, Pc, Job
  <2>2. s \in States
    BY <2>1, Zenon DEF States
  <2> QED
    BY <2>1, <2>2, UpgradeAssumption, Zenon
<1> HIDE DEF s
<1>4. state'[h] = s /\ \A x \in Hosts \ {h} : state'[x] = state[x]
  BY <1>1, Zenon
<1>5. OneMain(m, o)'
  BY <1>1, <1>3, <1>4, Zenon DEF Shape, OneMain, Fresh, In
<1>6. \A x \in Hosts : In(x, m)' => state'[x].version = Job.version
  BY <1>1, <1>3, <1>4, Zenon DEF Shape, Working, In
<1>7. CloseIn(m)'
  BY <1>3, <1>6 DEF CloseIn
<1>8. Creating' /\ Working(m)'
  <2>1. Pc' \in {"idle", "spec"} \/ (Pc' = "initial" /\ Job' = Job)
    BY <1>1, <1>2, Zenon DEF Moved
  <2> QED
    BY <1>1, <1>6, <2>1, Zenon DEF Shape, Creating, Working, Halting, Rolling
<1> QED
  BY <1>2, <1>5, <1>7, <1>8, Zenon DEF Shape

(* The calls to the control store, a restore and what fails leave the      *)
(* hosts alone.                                                            *)
LEMMA StoreShape ==
    ASSUME TypeInv, NEW m \in Clusters, NEW o \in Odd, Shape(m, o),
           \/ CallFails(leader) \/ BackupFails(leader) \/ NoPeerToRestore(leader)
           \/ \E h \in Hosts : DoRestore(leader, h)
           \/ AddCommand(leader) \/ SeeCommand(leader) \/ WriteSpec(leader)
           \/ RemoveCommand(leader)
    PROVE  Shape(m, o)'
<1>1. /\ UNCHANGED <<state, nodes, leader>>
      /\ cache' = cache \/ cache' = [cache EXCEPT ![leader] = Store]
         \/ cache' = [cache EXCEPT ![leader] = None]
  BY Zenon DEF CallFails, BackupFails, NoPeerToRestore, DoRestore, AddCommand, SeeCommand, WriteSpec,
     RemoveCommand, etcdVars
<1>2. \A q \in Leaders \ {leader} : cache'[q] = cache[q]
  BY <1>1, Zenon DEF TypeInv, StoreOK
<1>3. CASE \E b : Return(leader, b)
  BY <1>1, <1>2, <1>3, ReturnShape, Zenon
<1>4. CASE \E call, S : /\ Enter(leader, call, S) /\ UNCHANGED job
                        /\ \/ call \in {"spec_again", "restore", "remove"}
                           \/ call \in {"see", "halt"} /\ Pc \in {"command", "see"}
  <2>1. PICK call, S : /\ Enter(leader, call, S) /\ UNCHANGED job
                       /\ \/ call \in {"spec_again", "restore", "remove"}
                          \/ call \in {"see", "halt"} /\ Pc \in {"command", "see"}
    BY <1>4, Zenon
  <2>2. /\ call \notin {"stop", "create", "initial", "add"}
        /\ call \in Halting => Pc \in Halting
        /\ call \in Rolling => Pc \in Rolling
        /\ Job' = Job
    BY <1>1, <2>1, Zenon DEF Halting, Rolling, Job
  <2> QED
    BY <1>1, <1>2, <2>1, <2>2, EnterShape, Zenon
<1>5. (\E b : Return(leader, b))
      \/ \E call, S : /\ Enter(leader, call, S) /\ UNCHANGED job
                      /\ \/ call \in {"spec_again", "restore", "remove"}
                         \/ call \in {"see", "halt"} /\ Pc \in {"command", "see"}
  <2>1. CASE CallFails(leader) \/ BackupFails(leader) \/ NoPeerToRestore(leader) \/ RemoveCommand(leader)
    BY <2>1, Zenon DEF CallFails, BackupFails, NoPeerToRestore, RemoveCommand
  <2>2. CASE \E h \in Hosts : DoRestore(leader, h)
    BY <2>2, Zenon DEF DoRestore
  <2>3. CASE AddCommand(leader)
    BY <2>3, Zenon DEF AddCommand, Pc
  <2>4. CASE SeeCommand(leader)
    BY <2>4, Zenon DEF SeeCommand, Pc
  <2>5. CASE WriteSpec(leader)
    BY <2>5, Zenon DEF WriteSpec
  <2> QED
    BY <2>1, <2>2, <2>3, <2>4, <2>5, Zenon
<1> QED
  BY <1>3, <1>4, <1>5, Zenon

(* Steps that leave the leader, its loop and the hosts' state alone. *)
LEMMA StillShape ==
    ASSUME TypeInv, NEW m \in Clusters, NEW o \in Odd, Shape(m, o),
           UNCHANGED <<state, nodes, leader, loopVars>>,
           \A q \in Leaders \ {leader} : cache'[q] = cache[q] \/ cache'[q] = None
    PROVE  Shape(m, o)'
<1>1. OneMain(m, o)' /\ CloseIn(m)'
  BY SameHosts, Zenon DEF Shape
<1>2. OthersRest'
  BY Zenon DEF Shape, OthersRest, loopVars
<1>3. Creating' /\ Working(m)'
  BY Zenon DEF Shape, Creating, Working, Pc, Todo, Job, loopVars, In
<1> QED
  BY <1>1, <1>2, <1>3, Zenon DEF Shape

LEMMA OutsideShape ==
    ASSUME TypeInv, NEW m \in Clusters, NEW o \in Odd, Shape(m, o),
           \/ Refresh(leader)
           \/ \E h \in Hosts : EtcdStarts(h) \/ EtcdExits(h)
           \/ \E c \in Clusters : ClientWrites(c)
           \/ \E v \in Versions : OperatorSetsSpec(v)
           \/ \E p \in Leaders : CacheExpires(p)
           \/ UNCHANGED vars
    PROVE  Shape(m, o)'
<1>1. /\ UNCHANGED <<state, nodes, leader, loopVars>>
      /\ \/ cache' = cache
         \/ cache' = [cache EXCEPT ![leader] = Store]
         \/ \E p \in Leaders : cache' = [cache EXCEPT ![p] = None]
  BY Zenon DEF Refresh, EtcdStarts, EtcdExits, ClientWrites, OperatorSetsSpec, CacheExpires, vars,
     etcdVars
<1>2. \A q \in Leaders \ {leader} : cache'[q] = cache[q] \/ cache'[q] = None
  BY <1>1, Zenon DEF TypeInv, StoreOK
<1> QED
  BY <1>1, <1>2, StillShape, Zenon

(* The leader crashes, and another controller starts with nothing. *)
LEMMA CrashShape ==
    ASSUME TypeInv, NEW m \in Clusters, NEW o \in Odd, Shape(m, o), NEW p \in Leaders,
           TakeOver(p, "crash")
    PROVE  Shape(m, o)' /\ Pc' = "idle" /\ cache'[leader'] = None
<1>1. /\ leader' = p /\ UNCHANGED <<state, nodes>> /\ leader \in Leaders
      /\ cache' = [cache EXCEPT ![p] = None, ![leader] = None] /\ Return(leader, FALSE)
      /\ cache \in [Leaders -> [spec : Versions, commands : Seq(Cmds)] \cup {None}]
      /\ pc \in [Leaders -> Calls]
  BY Zenon DEF TakeOver, etcdVars, TypeInv, CountOK, StoreOK, LoopOK
<1>2. /\ \A q \in Leaders : pc'[q] = IF q = leader THEN "idle" ELSE pc[q]
      /\ \A q \in Leaders : cache'[q] = IF q = leader \/ q = p THEN None ELSE cache[q]
  BY <1>1, Zenon DEF Return
<1>3. OthersRest' /\ Pc' = "idle" /\ cache'[leader'] = None
  BY <1>1, <1>2, Zenon DEF Shape, OthersRest, Pc
<1> QED
  BY <1>1, <1>3, IdleShape, SameHosts, Zenon DEF Shape

LEMMA ControlShape ==
    ASSUME HostsCount, TypeInv, NEW m \in Clusters, NEW o \in Odd, Sound(m, o), Control(leader),
           ~BeginCreate(leader)
    PROVE  Shape(m, o)'
<1> USE DEF Sound
<1>1. CASE Refresh(leader)
  BY <1>1, OutsideShape, Zenon
<1>2. CASE \E P \in SUBSET Hosts : BeginCycle(leader, P)
  BY <1>2, BeginCycleShape, Zenon
<1>3. CASE \E call \in {"backup", "backup_again", "roll_backup"} : Backup(leader, call)
  BY <1>3, BackupShape, Zenon
<1>4. CASE \E h \in Hosts, call \in {"quarantine", "requarantine", "lift"}, q \in BOOLEAN :
             SetQuarantine(leader, h, call, q)
  BY <1>4, SetQuarantineShape, Zenon
<1>5. CASE \E h \in Hosts, call \in {"halt", "stop"} : StopEtcd(leader, h, call)
  BY <1>5, StopEtcdShape, Zenon
<1>6. CASE \E h \in Hosts : Roll(leader, h)
  BY <1>6, RollShape, Zenon
<1>7. CASE \E h \in Hosts : AddNode(leader, h)
  BY <1>7, AddNodeShape, Zenon
<1>8. CASE \E h \in Hosts : JoinInitial(leader, h)
  BY <1>8, JoinInitialShape, Zenon
<1>9. CASE \/ CallFails(leader) \/ BackupFails(leader) \/ NoPeerToRestore(leader)
           \/ \E h \in Hosts : DoRestore(leader, h)
           \/ AddCommand(leader) \/ SeeCommand(leader) \/ WriteSpec(leader)
           \/ RemoveCommand(leader)
  BY <1>9, StoreShape, Zenon
<1>10. (\E h \in Hosts : \/ SetQuarantine(leader, h, "quarantine", TRUE)
                         \/ SetQuarantine(leader, h, "requarantine", TRUE)
                         \/ SetQuarantine(leader, h, "lift", FALSE))
       => \E h \in Hosts, call \in {"quarantine", "requarantine", "lift"}, q \in BOOLEAN :
             SetQuarantine(leader, h, call, q)
  <2>1. TRUE \in BOOLEAN /\ FALSE \in BOOLEAN
    BY Zenon
  <2> QED
    BY <2>1, Zenon
<1> QED
  BY <1>1, <1>2, <1>3, <1>4, <1>5, <1>6, <1>7, <1>8, <1>9, <1>10, Zenon DEF Control

-----------------------------------------------------------------------------
(* Every step keeps Settled                                                *)

LEMMA SameWhole ==
    ASSUME NEW m, NEW o, \A h \in Hosts : /\ state'[h] = None <=> state[h] = None
                                          /\ In(h, m)' <=> In(h, m)
    PROVE  (Aligned(m)' <=> Aligned(m)) /\ (Whole(m, o)' <=> Whole(m, o))
<1>1. Aligned(m)' <=> Aligned(m)
  BY Zenon DEF Aligned
<1> QED
  BY <1>1, Zenon DEF Whole

LEMMA RememberedStays ==
    ASSUME NEW m, NEW o, Remembered(m, o), Aligned(m) => Aligned(m)', Whole(m, o) => Whole(m, o)',
           commands' = <<>> => commands = <<>> \/ Whole(m, o),
           \/ cache'[leader'] = None
           \/ cache'[leader'].commands = commands'
           \/ cache'[leader'] = cache[leader] /\ (commands' = <<>> => commands = <<>>)
    PROVE  Remembered(m, o)'
<1>1. commands' = <<>> => Whole(m, o)'
  BY Zenon DEF Remembered, NoCommand
<1>2. CASE cache'[leader'] = None
  BY <1>1, <1>2, Zenon DEF Remembered, NoCommand, Read
<1>3. CASE cache'[leader'].commands = commands'
  BY <1>1, <1>3, Zenon DEF Remembered, NoCommand, Read
<1>4. CASE cache'[leader'] = cache[leader] /\ (commands' = <<>> => commands = <<>>)
  BY <1>1, <1>4, Zenon DEF Remembered, NoCommand, Read
<1> QED
  BY <1>2, <1>3, <1>4, Zenon

LEMMA IdleSettled ==
    ASSUME NEW m, NEW o, Remembered(m, o)', Pc' = "idle"
    PROVE  Settled(m, o)'
BY Zenon DEF Settled, Halting

(* A step on the way to the end of the cluster, or to its restore. *)
LEMMA OnwardSettled ==
    ASSUME NEW m, NEW o, Settled(m, o), Remembered(m, o)', Aligned(m) => Aligned(m)',
           Whole(m, o) => Whole(m, o)', Pc' \notin {"stop", "create", "initial", "add"},
           Pc' \in Halting => Pc \in Halting,
           Pc' \in {"spec", "restore", "spec_again", "remove"}
              => Pc \in {"spec", "restore", "spec_again", "remove"}
    PROVE  Settled(m, o)'
BY Zenon DEF Settled

LEMMA BeginCycleSettled ==
    ASSUME HostsCount, TypeInv, NEW m \in Clusters, NEW o \in Odd, Sound(m, o),
           NEW P \in SUBSET Hosts, BeginCycle(leader, P)
    PROVE  Settled(m, o)'
<1> DEFINE v == cache[leader].spec
           cmds == cache[leader].commands
           plan == Plan(P, v, cmds)
<1>1. /\ v \in Versions /\ cmds \in Seq(Cmds) /\ leader \in Leaders /\ OneMain(m, o) /\ OthersRest
      /\ cache[leader] # None /\ Remembered(m, o)
  BY Zenon DEF TypeInv, StoreOK, CountOK, BeginCycle, Sound, Shape, Settled
<1>2. /\ UNCHANGED <<state, nodes, running, commands, leader>>
      /\ cache' = cache \/ cache' = [cache EXCEPT ![leader] = Store]
      /\ P = Hosts \/ Cardinality(P) = MemberCount - 1
  BY Zenon DEF BeginCycle, etcdVars, storeVars
<1>3. \A q \in Leaders \ {leader} : cache'[q] = cache[q]
  BY <1>2, Zenon DEF TypeInv, StoreOK
<1>4. (Aligned(m)' <=> Aligned(m)) /\ (Whole(m, o)' <=> Whole(m, o))
  BY <1>2, SameWhole, Zenon DEF In
<1>5. Remembered(m, o)'
  <2>1. cache'[leader'] = cache[leader] \/ cache'[leader'].commands = commands'
    <3>1. Store.commands = commands
      BY Zenon DEF Store
    <3>2. CASE cache' = cache
      BY <1>2, <3>2, Zenon
    <3>3. CASE cache' = [cache EXCEPT ![leader] = Store]
      <4>1. cache'[leader'] = Store
        BY <1>1, <1>2, <3>3, Zenon DEF TypeInv, StoreOK
      <4> QED
        BY <1>2, <3>1, <4>1, Zenon
    <3> QED
      BY <1>2, <3>2, <3>3, Zenon
  <2> QED
    BY <1>1, <1>2, <1>4, <2>1, RememberedStays, Zenon
<1>6. CASE plan = None
  <2>1. Return(leader, FALSE)
    BY <1>6, Zenon DEF BeginCycle
  <2>2. Pc' = "idle"
    BY <1>1, <1>2, <1>3, <2>1, ReturnMoves, Zenon
  <2> QED
    BY <1>5, <2>2, IdleSettled, Zenon
<1>7. CASE plan # None
  <2>1. PlanOK(plan, P, v, cmds)
    BY <1>1, <1>7, PlanFacts, Zenon
  <2>2. job' = [job EXCEPT ![leader] = plan.job] /\ UNCHANGED cache
    BY <1>7, Zenon DEF BeginCycle
  <2>3. \/ Enter(leader, plan.call, plan.hosts)
        \/ plan.call = "stop" /\ Enter(leader, "create", P)
    BY <1>7, Zenon DEF BeginCycle
  <2>4. cmds # <<>> <=> plan.call \in {"stop", "restore"}
    BY <2>1, Zenon DEF PlanOK
  <2>5. plan.call \in {"stop", "restore"} => Job'.peers = P /\ (plan.call = "stop" <=> Sufficient(P))
    BY <1>1, <1>2, <2>1, <2>2, Zenon DEF PlanOK, Job, TypeInv, LoopOK
  <2>6. /\ plan.call \in {"stop", "restore", "lift", "requarantine", "add", "roll_backup", "backup"}
        /\ plan.call = "add" => plan.hosts = Idle(P)
        /\ plan.call = "backup" => Seen # {} /\ ReadyForUpgrade(P)
    BY <2>1, Zenon DEF PlanOK
  <2>7. NoCommand <=> commands = <<>> \/ cmds = <<>>
    BY <1>1, Zenon DEF NoCommand, Read
  <2>8. cmds # <<>> => commands # <<>>
    BY <1>1, Zenon DEF Remembered, Read
  <2> HIDE DEF plan, v, cmds
  <2>9. /\ Pc' = plan.call \/ (plan.call = "stop" /\ Pc' = "create")
        /\ Pc' = plan.call => Todo' = plan.hosts \/ plan.call = "stop"
    <3>1. CASE Enter(leader, plan.call, plan.hosts)
      BY <1>1, <1>2, <1>3, <3>1, EnterMoves, Zenon
    <3>2. CASE plan.call = "stop" /\ Enter(leader, "create", P)
      BY <1>1, <1>2, <1>3, <3>2, EnterMoves, Zenon
    <3> QED
      BY <2>3, <3>1, <3>2, Zenon
  <2>10. CASE plan.call = "stop"
    <3>1. NoCommand' <=> NoCommand
      BY <1>2, <2>2, Zenon DEF NoCommand, Read
    <3>2. ~NoCommand' /\ Pc' \in {"stop", "create"}
      BY <2>4, <2>7, <2>8, <2>9, <2>10, <3>1, Zenon
    <3>3. Strict => Hosts \subseteq Job'.peers
      <4>1. Sufficient(P) /\ Job'.peers = P
        BY <2>5, <2>10, Zenon
      <4>2. Cardinality(P) >= MemberCount => P = Hosts
        BY DEF HostsCount
      <4>3. Strict => P = Hosts
        BY <1>2, <4>1, <4>2, Zenon DEF Strict, Sufficient
      <4> QED
        BY <4>1, <4>3, Zenon
    <3> QED
      BY <1>5, <3>2, <3>3, Zenon DEF Settled, Halting
  <2>11. CASE plan.call = "restore"
    <3>1. Pc' = "restore" /\ ~Sufficient(P)
      BY <2>5, <2>9, <2>11
    <3>2. P # Hosts
      BY <3>1 DEF Sufficient, HostsCount, MemberCount
    <3>3. Strict
      BY <1>2, <3>1, <3>2, Zenon DEF Strict, Sufficient
    <3>4. Whole(m, o)'
      BY <1>1, <1>4, <3>3, Zenon DEF Remembered, Whole
    <3> QED
      BY <1>5, <3>1, <3>4, Zenon DEF Settled, Halting
  <2>12. CASE plan.call = "add"
    <3>1. Pc' = "add" /\ Todo' = Idle(P) /\ Whole(m, o)'
      BY <1>1, <1>4, <2>4, <2>6, <2>7, <2>9, <2>12, Zenon DEF Remembered
    <3>2. \A h \in Todo' : state'[h] = None
      BY <1>2, <3>1, Zenon DEF Idle, Configured
    <3> QED
      BY <1>5, <3>1, <3>2, Zenon DEF Settled, Halting
  <2>13. CASE plan.call = "backup"
    <3>1. Pc' = "backup" /\ \A h \in Hosts : In(h, m)
      BY <1>1, <2>6, <2>9, <2>13, SeesReady, Zenon
    <3>2. Aligned(m)'
      BY <1>4, <3>1, Zenon DEF Aligned
    <3> QED
      BY <1>5, <3>1, <3>2, Zenon DEF Settled
  <2>14. CASE plan.call \in {"lift", "requarantine", "roll_backup"}
    BY <1>5, <2>9, <2>14, Zenon DEF Settled, Halting
  <2> QED
    BY <2>6, <2>10, <2>11, <2>12, <2>13, <2>14, Zenon
<1> QED
  BY <1>6, <1>7, Zenon

(* The backups, the calls to the control store and what fails. *)
LEMMA StoreSettled ==
    ASSUME TypeInv, NEW m \in Clusters, NEW o \in Odd, Sound(m, o),
           \/ \E call \in {"backup", "backup_again", "roll_backup"} : Backup(leader, call)
           \/ CallFails(leader) \/ BackupFails(leader) \/ NoPeerToRestore(leader)
           \/ \E h \in Hosts : DoRestore(leader, h)
           \/ AddCommand(leader) \/ SeeCommand(leader) \/ WriteSpec(leader)
           \/ RemoveCommand(leader)
    PROVE  Settled(m, o)'
<1>1. UNCHANGED <<state, leader>>
  BY Zenon DEF Backup, CallFails, BackupFails, NoPeerToRestore, DoRestore, AddCommand, SeeCommand,
     WriteSpec, RemoveCommand, etcdVars
<1>2. \/ UNCHANGED <<cache, commands>>
      \/ cache' = cache /\ commands' # <<>>
      \/ cache' = [cache EXCEPT ![leader] = Store] /\ UNCHANGED commands
      \/ Pc = "remove" /\ cache' = [cache EXCEPT ![leader] = None]
  <2>1. CASE AddCommand(leader)
    <3>1. \A cmd : Append(commands, cmd) # <<>>
      BY DEF TypeInv, StoreOK
    <3> QED
      BY <2>1, <3>1, Zenon DEF AddCommand
  <2>2. CASE RemoveCommand(leader)
    BY <2>2, Zenon DEF RemoveCommand, Pc
  <2> QED
    BY <2>1, <2>2, Zenon DEF Backup, CallFails, BackupFails, NoPeerToRestore, DoRestore, SeeCommand,
       WriteSpec, storeVars
<1>3. \A q \in Leaders \ {leader} : cache'[q] = cache[q]
  BY <1>2, Zenon DEF TypeInv, StoreOK
<1>4. (Aligned(m)' <=> Aligned(m)) /\ (Whole(m, o)' <=> Whole(m, o))
  BY <1>1, SameWhole, Zenon DEF In
<1>5. Remembered(m, o)'
  <2>1. /\ leader \in Leaders /\ Remembered(m, o) /\ (Pc = "remove" => Whole(m, o))
        /\ cache \in [Leaders -> [spec : Versions, commands : Seq(Cmds)] \cup {None}]
    BY Zenon DEF TypeInv, StoreOK, CountOK, Sound, Settled
  <2>2. CASE cache' = cache /\ (commands' = commands \/ commands' # <<>>)
    BY <1>1, <1>4, <2>1, <2>2, RememberedStays, Zenon
  <2>3. CASE cache' = [cache EXCEPT ![leader] = Store] /\ UNCHANGED commands
    BY <1>1, <1>4, <2>1, <2>3, RememberedStays, Zenon DEF Store
  <2>4. CASE Pc = "remove" /\ cache' = [cache EXCEPT ![leader] = None]
    BY <1>1, <1>4, <2>1, <2>4, RememberedStays, Zenon
  <2> QED
    BY <1>2, <2>2, <2>3, <2>4, Zenon
<1>6. OthersRest
  BY Zenon DEF Sound, Shape
<1>7. CASE \E b : Return(leader, b)
  <2>1. Pc' = "idle"
    BY <1>1, <1>3, <1>6, <1>7, ReturnMoves, Zenon
  <2> QED
    BY <1>5, <2>1, IdleSettled, Zenon
<1>8. CASE \E call, S : /\ Enter(leader, call, S)
                        /\ \/ call \in {"spec_again", "restore", "remove"}
                              /\ Pc \in {"spec", "restore", "spec_again"}
                           \/ call \in {"quarantine", "command", "see", "halt"} /\ Pc \in Halting
                           \/ call = "roll"
  <2>1. PICK call, S : /\ Enter(leader, call, S)
                       /\ \/ call \in {"spec_again", "restore", "remove"}
                             /\ Pc \in {"spec", "restore", "spec_again"}
                          \/ call \in {"quarantine", "command", "see", "halt"} /\ Pc \in Halting
                          \/ call = "roll"
    BY <1>8, Zenon
  <2>2. Pc' = call
    BY <1>1, <1>3, <1>6, <2>1, EnterMoves, Zenon
  <2>3. /\ call \notin {"stop", "create", "initial", "add"}
        /\ call \in Halting => Pc \in Halting
        /\ call \in {"spec", "restore", "spec_again", "remove"}
              => Pc \in {"spec", "restore", "spec_again", "remove"}
    BY <2>1, Zenon DEF Halting
  <2> QED
    BY <1>4, <1>5, <2>2, <2>3, OnwardSettled, Zenon DEF Sound
<1>9. (\E b : Return(leader, b))
      \/ \E call, S : /\ Enter(leader, call, S)
                      /\ \/ call \in {"spec_again", "restore", "remove"}
                            /\ Pc \in {"spec", "restore", "spec_again"}
                         \/ call \in {"quarantine", "command", "see", "halt"} /\ Pc \in Halting
                         \/ call = "roll"
  <2>1. CASE CallFails(leader) \/ BackupFails(leader) \/ NoPeerToRestore(leader) \/ RemoveCommand(leader)
    BY <2>1, Zenon DEF CallFails, BackupFails, NoPeerToRestore, RemoveCommand
  <2>2. CASE \E h \in Hosts : DoRestore(leader, h)
    BY <2>2, Zenon DEF DoRestore, Pc
  <2>3. CASE AddCommand(leader)
    BY <2>3, Zenon DEF AddCommand, Pc, Halting
  <2>4. CASE SeeCommand(leader)
    BY <2>4, Zenon DEF SeeCommand, Pc, Halting
  <2>5. CASE WriteSpec(leader)
    BY <2>5, Zenon DEF WriteSpec, Pc
  <2>6. CASE \E call \in {"backup", "backup_again", "roll_backup"} : Backup(leader, call)
    BY <2>6, Zenon DEF Backup, Pc, Halting
  <2> QED
    BY <2>1, <2>2, <2>3, <2>4, <2>5, <2>6, Zenon
<1> QED
  BY <1>7, <1>8, <1>9, Zenon

LEMMA SetQuarantineSettled ==
    ASSUME TypeInv, NEW m \in Clusters, NEW o \in Odd, Sound(m, o), NEW h \in Hosts,
           NEW call \in {"quarantine", "requarantine", "lift"}, NEW q \in BOOLEAN,
           SetQuarantine(leader, h, call, q)
    PROVE  Settled(m, o)'
<1>1. /\ Pc = call /\ UNCHANGED <<leader, cache, commands>> /\ Answered(leader, h)
      /\ state[h] # None /\ state' = [state EXCEPT ![h].quarantined = q]
  BY Zenon DEF SetQuarantine, Calling, Pc, storeVars
<1>2. Moved(h)
  BY <1>1, AnsweredMoves, Zenon DEF Sound, Shape
<1>3. \A g \in Hosts : /\ state'[g] = None <=> state[g] = None
                       /\ In(g, m)' <=> In(g, m)
  <2>1. state \in [Hosts -> States \cup {None}] /\ state[h] \in States
    BY <1>1, Zenon DEF TypeInv, EtcdOK
  <2>2. state' = [state EXCEPT ![h] = [state[h] EXCEPT !.quarantined = q]]
    BY <1>1, <2>1, Zenon
  <2>3. /\ [state[h] EXCEPT !.quarantined = q] \in States
        /\ [state[h] EXCEPT !.quarantined = q].cluster = state[h].cluster
    BY <2>1, Zenon DEF States
  <2> QED
    BY <2>1, <2>2, <2>3, UpgradeAssumption, Zenon DEF In
<1>4. (Aligned(m)' <=> Aligned(m)) /\ (Whole(m, o)' <=> Whole(m, o))
  BY <1>3, SameWhole, Zenon
<1>5. Remembered(m, o)'
  BY <1>1, <1>4, RememberedStays, Zenon DEF Sound, Settled
<1>6. \/ Pc' = "idle" \/ Pc' \in {"requarantine", "lift"}
      \/ Pc' \in {"quarantine", "backup_again"} /\ Pc = "quarantine"
  BY <1>1, <1>2, Zenon DEF Moved
<1> QED
  BY <1>4, <1>5, <1>6, OnwardSettled, Zenon DEF Sound, Halting

LEMMA StopEtcdSettled ==
    ASSUME TypeInv, NEW m \in Clusters, NEW o \in Odd, Sound(m, o), NEW h \in Hosts,
           NEW call \in {"halt", "stop"}, StopEtcd(leader, h, call)
    PROVE  Settled(m, o)'
<1>1. /\ Pc = call /\ UNCHANGED <<leader, cache, commands>> /\ Answered(leader, h)
      /\ state' = [state EXCEPT ![h] = None] /\ state \in [Hosts -> States \cup {None}]
  BY Zenon DEF StopEtcd, Calling, Pc, TypeInv, EtcdOK, storeVars
<1>2. Moved(h)
  BY <1>1, AnsweredMoves, Zenon DEF Sound, Shape
<1>3. Aligned(m) => Aligned(m)'
  BY <1>1, Zenon DEF Aligned, In
<1>4. NoCommand' <=> NoCommand
  BY <1>1, Zenon DEF NoCommand, Read
<1>5. CASE Pc = "halt"
  <2>1. Aligned(m)' /\ Whole(m, o)'
    BY <1>3, <1>5, Zenon DEF Sound, Settled, Halting, Whole
  <2>2. Remembered(m, o)'
    BY <1>1, <1>3, <2>1, RememberedStays, Zenon DEF Sound, Settled
  <2>3. Pc' \in {"idle", "halt"}
    BY <1>2, <1>5, Zenon DEF Moved
  <2> QED
    BY <1>3, <1>5, <2>1, <2>2, <2>3, OnwardSettled, Zenon DEF Sound, Halting
<1>6. CASE Pc = "stop"
  <2>1. ~NoCommand'
    BY <1>4, <1>6, Zenon DEF Sound, Settled
  <2>2. Remembered(m, o)'
    BY <1>1, <1>3, <2>1, Zenon DEF Remembered, NoCommand, Read, Sound, Settled
  <2>3. Pc' = "idle" \/ (Pc' \in {"stop", "create"} /\ Job' = Job)
    BY <1>2, <1>6, Zenon DEF Moved
  <2>4. CASE Pc' \in {"stop", "create"} /\ Job' = Job
    <3>1. Strict => Hosts \subseteq Job'.peers
      BY <1>6, <2>4, Zenon DEF Sound, Settled
    <3> QED
      BY <2>1, <2>2, <2>4, <3>1, Zenon DEF Settled, Halting
  <2> QED
    BY <2>2, <2>3, <2>4, IdleSettled, Zenon
<1> QED
  BY <1>1, <1>5, <1>6, Zenon

(* A host that changes its version, or that joins m. *)
LEMMA JoinWhole ==
    ASSUME TypeInv, NEW m \in Clusters, NEW o, NEW h \in Hosts, NEW s, s # None, s.cluster = m,
           state' = [state EXCEPT ![h] = s]
    PROVE  /\ Aligned(m) => Aligned(m)'
           /\ Whole(m, o) => Whole(m, o)'
           /\ state'[h] # None /\ \A g \in Hosts \ {h} : state'[g] = state[g]
<1>1. state'[h] = s /\ \A g \in Hosts \ {h} : state'[g] = state[g]
  BY Zenon DEF TypeInv, EtcdOK
<1>2. Aligned(m) => Aligned(m)'
  BY <1>1, Zenon DEF Aligned, In
<1>3. Whole(m, o) => Whole(m, o)'
  BY <1>1, <1>2, Zenon DEF Whole
<1> QED
  BY <1>1, <1>2, <1>3, Zenon

LEMMA RollSettled ==
    ASSUME TypeInv, NEW m \in Clusters, NEW o \in Odd, Sound(m, o), NEW h \in Hosts,
           Roll(leader, h)
    PROVE  Settled(m, o)'
<1> DEFINE s == [cluster |-> state[h].cluster, version |-> Job.version,
                 quarantined |-> h \in Job.shut]
<1>1. /\ Pc = "roll" /\ UNCHANGED <<leader, cache, commands>> /\ \E b : Return(leader, b)
      /\ state' = [state EXCEPT ![h] = s]
  BY Zenon DEF Roll, Calling, Pc, Job, storeVars
<1>2. In(h, m)
  BY <1>1, Zenon DEF Sound, Shape, Working, Rolling
<1>3. s.cluster = m /\ s # None
  <2>1. s.cluster = m
    BY <1>2, Zenon DEF In
  <2>2. state'[h] = s /\ state'[h] # None
    BY <1>1, SetByRoll, Zenon DEF Roll, TypeInv, EtcdOK, CountOK
  <2> QED
    BY <2>1, <2>2, Zenon
<1> HIDE DEF s
<1>4. (Aligned(m) => Aligned(m)') /\ (Whole(m, o) => Whole(m, o)')
  BY <1>1, <1>3, JoinWhole, Zenon
<1>5. Remembered(m, o)'
  BY <1>1, <1>4, RememberedStays, Zenon DEF Sound, Settled
<1>6. Pc' = "idle"
  BY <1>1, ReturnMoves, Zenon DEF Sound, Shape
<1> QED
  BY <1>5, <1>6, IdleSettled, Zenon

LEMMA AddNodeSettled ==
    ASSUME TypeInv, NEW m \in Clusters, NEW o \in Odd, Sound(m, o), NEW h \in Hosts,
           AddNode(leader, h)
    PROVE  Settled(m, o)'
<1>1. /\ Pc = "add" /\ UNCHANGED <<leader, cache, commands>> /\ \E b : Return(leader, b)
  BY Zenon DEF AddNode, Calling, Pc, storeVars
<1>2. Job.cluster = m
  BY <1>1, Zenon DEF Sound, Shape, Working
<1>3. Pc' = "idle"
  BY <1>1, ReturnMoves, Zenon DEF Sound, Shape
<1>4. (Aligned(m) => Aligned(m)') /\ (Whole(m, o) => Whole(m, o)')
  <2>1. CASE UNCHANGED state
    BY <2>1, SameWhole, Zenon DEF In
  <2>2. CASE \E g \in Configured(Job.peers) :
               state' = [state EXCEPT ![h] = [state[g] EXCEPT !.cluster = m, !.quarantined = FALSE]]
    <3>1. PICK g \in Configured(Job.peers) :
               state' = [state EXCEPT ![h] = [state[g] EXCEPT !.cluster = m, !.quarantined = FALSE]]
      BY <2>2, Zenon
    <3>2. state[g] \in States
      BY <3>1, Zenon DEF Configured, TypeInv, EtcdOK, LoopOK, CountOK, Jobs, Job
    <3> DEFINE s == [state[g] EXCEPT !.cluster = m, !.quarantined = FALSE]
    <3>3. s \in States /\ s.cluster = m
      BY <3>2, Zenon DEF States
    <3>4. s # None
      BY <3>3, UpgradeAssumption, Zenon
    <3>5. state' = [state EXCEPT ![h] = s]
      BY <3>1, Zenon
    <3> HIDE DEF s
    <3> QED
      BY <3>3, <3>4, <3>5, JoinWhole, Zenon
  <2> QED
    BY <1>2, <2>1, <2>2, Zenon DEF AddNode, Job
<1>5. Remembered(m, o)'
  BY <1>1, <1>4, RememberedStays, Zenon DEF Sound, Settled
<1> QED
  BY <1>3, <1>5, IdleSettled, Zenon

(* All hosts that take part have stopped. *)
LEMMA BeginCreateSettled ==
    ASSUME TypeInv, NEW m \in Clusters, NEW o \in Odd, Sound(m, o), BeginCreate(leader),
           NEW n \in Clusters, NEW x \in Odd, Hosts \ {x} \subseteq Job.peers
    PROVE  Settled(n, x)'
<1>1. /\ Pc = "create" /\ UNCHANGED <<state, leader, cache, commands>>
      /\ Enter(leader, "initial", Job.peers) /\ leader \in Leaders
  BY Zenon DEF BeginCreate, Pc, Job, storeVars, TypeInv, CountOK
<1>2. Pc' = "initial" /\ Todo' = Job.peers
  BY <1>1, EnterMoves, Zenon DEF Sound, Shape
<1>3. ~NoCommand'
  <2>1. NoCommand' <=> NoCommand
    BY <1>1, Zenon DEF NoCommand, Read
  <2> QED
    BY <1>1, <2>1, Zenon DEF Sound, Settled
<1>4. Strict => Aligned(n)'
  BY <1>1, Zenon DEF Sound, Settled, Shape, Creating, Aligned
<1>5. Remembered(n, x)'
  BY <1>3, <1>4, Zenon DEF Remembered, NoCommand
<1> QED
  BY <1>2, <1>3, <1>5, Zenon DEF Settled, Halting

LEMMA JoinInitialSettled ==
    ASSUME TypeInv, NEW m \in Clusters, NEW o \in Odd, Sound(m, o), NEW h \in Hosts,
           JoinInitial(leader, h)
    PROVE  Settled(m, o)'
<1> DEFINE s == [cluster |-> Job.cluster, version |-> Job.version, quarantined |-> TRUE]
<1>1. /\ Pc = "initial" /\ UNCHANGED <<leader, cache, commands>> /\ Answered(leader, h)
      /\ state' = [state EXCEPT ![h] = s]
  BY Zenon DEF JoinInitial, Calling, Pc, Job, storeVars
<1>2. Moved(h)
  BY <1>1, AnsweredMoves, Zenon DEF Sound, Shape
<1>3. s.cluster = m /\ s # None
  <2>1. Job.cluster = m /\ Job.version \in Versions
    BY <1>1, Zenon DEF Sound, Shape, Working, TypeInv, LoopOK, CountOK, JobOK, Restoring, Pc, Job
  <2>2. s \in States
    BY <2>1, Zenon DEF States
  <2> QED
    BY <2>1, <2>2, UpgradeAssumption, Zenon
<1> HIDE DEF s
<1>4. /\ Aligned(m) => Aligned(m)'
      /\ state'[h] # None /\ \A g \in Hosts \ {h} : state'[g] = state[g]
  BY <1>1, <1>3, JoinWhole, Zenon
<1>5. ~NoCommand'
  <2>1. NoCommand' <=> NoCommand
    BY <1>1, Zenon DEF NoCommand, Read
  <2> QED
    BY <1>1, <2>1, Zenon DEF Sound, Settled
<1>6. Remembered(m, o)'
  <2>1. Strict => Aligned(m)'
    BY <1>4, Zenon DEF Sound, Settled, Remembered
  <2> QED
    BY <1>5, <2>1, Zenon DEF Remembered, NoCommand
<1>7. \A g \in Hosts : g = o \/ g \in Todo \ {h} \/ state'[g] # None
  BY <1>1, <1>4, Zenon DEF Sound, Settled
<1>8. CASE Pc' = "initial" /\ Todo' = Todo \ {h}
  BY <1>5, <1>6, <1>7, <1>8, Zenon DEF Settled, Halting
<1>9. CASE Pc' = "spec" /\ Todo = {h}
  <2>1. Whole(m, o)'
    BY <1>7, <1>9, Zenon DEF Whole
  <2> QED
    BY <1>6, <1>9, <2>1, Zenon DEF Settled, Halting
<1> QED
  BY <1>1, <1>2, <1>6, <1>8, <1>9, IdleSettled, Zenon DEF Moved

(* Steps that leave the leader, its loop and the hosts' state alone. *)
LEMMA OutsideSettled ==
    ASSUME TypeInv, NEW m \in Clusters, NEW o \in Odd, Sound(m, o),
           \/ Refresh(leader)
           \/ \E h \in Hosts : EtcdStarts(h) \/ EtcdExits(h)
           \/ \E c \in Clusters : ClientWrites(c)
           \/ \E v \in Versions : OperatorSetsSpec(v)
           \/ \E p \in Leaders : CacheExpires(p)
           \/ UNCHANGED vars
    PROVE  Settled(m, o)'
<1>1. /\ UNCHANGED <<state, leader, pc, todo, job, commands>>
      /\ \/ cache' = cache
         \/ Pc = "idle" /\ cache' = [cache EXCEPT ![leader] = Store]
         \/ \E p \in Leaders : pc[p] = "idle" /\ cache' = [cache EXCEPT ![p] = None]
  BY Zenon DEF Refresh, EtcdStarts, EtcdExits, ClientWrites, OperatorSetsSpec, CacheExpires, vars,
     etcdVars, storeVars, loopVars, Pc
<1>2. \/ cache'[leader'] = cache[leader]
      \/ Pc = "idle" /\ (cache'[leader'] = None \/ cache'[leader'].commands = commands')
  <2>1. leader \in Leaders /\ cache \in [Leaders -> [spec : Versions, commands : Seq(Cmds)] \cup {None}]
    BY Zenon DEF TypeInv, StoreOK, CountOK
  <2>2. CASE cache' = cache
    BY <1>1, <2>2, Zenon
  <2>3. CASE Pc = "idle" /\ cache' = [cache EXCEPT ![leader] = Store]
    <3>1. cache'[leader'] = Store
      BY <1>1, <2>1, <2>3, Zenon
    <3>2. Store.commands = commands
      BY Zenon DEF Store
    <3> QED
      BY <1>1, <2>3, <3>1, <3>2, Zenon
  <2>4. CASE \E p \in Leaders : pc[p] = "idle" /\ cache' = [cache EXCEPT ![p] = None]
    BY <1>1, <2>1, <2>4, Zenon DEF Pc
  <2> QED
    BY <1>1, <2>2, <2>3, <2>4, Zenon
<1>3. (Aligned(m)' <=> Aligned(m)) /\ (Whole(m, o)' <=> Whole(m, o))
  BY <1>1, SameWhole, Zenon DEF In
<1>4. Remembered(m, o)'
  BY <1>1, <1>2, <1>3, RememberedStays, Zenon DEF Sound, Settled
<1>5. Pc' = Pc /\ Todo' = Todo /\ Job' = Job
  BY <1>1, Zenon DEF Pc, Todo, Job
<1>6. CASE Pc = "idle"
  BY <1>4, <1>5, <1>6, IdleSettled, Zenon
<1>7. CASE cache'[leader'] = cache[leader]
  <2>1. NoCommand' <=> NoCommand
    BY <1>1, <1>7, Zenon DEF NoCommand, Read
  <2> QED
    BY <1>1, <1>3, <1>4, <1>5, <2>1, Zenon DEF Sound, Settled
<1> QED
  BY <1>2, <1>6, <1>7, Zenon

LEMMA CrashSettled ==
    ASSUME TypeInv, NEW m \in Clusters, NEW o \in Odd, Sound(m, o), NEW p \in Leaders,
           TakeOver(p, "crash")
    PROVE  Settled(m, o)'
<1>1. Pc' = "idle" /\ cache'[leader'] = None
  BY CrashShape, Zenon DEF Sound
<1>2. UNCHANGED <<state, commands>>
  BY Zenon DEF TakeOver, etcdVars, storeVars
<1>3. (Aligned(m)' <=> Aligned(m)) /\ (Whole(m, o)' <=> Whole(m, o))
  BY <1>2, SameWhole, Zenon DEF In
<1>4. Remembered(m, o)'
  BY <1>1, <1>2, <1>3, RememberedStays, Zenon DEF Sound, Settled
<1> QED
  BY <1>1, <1>4, IdleSettled, Zenon

LEMMA ControlSettled ==
    ASSUME HostsCount, TypeInv, NEW m \in Clusters, NEW o \in Odd, Sound(m, o), Control(leader),
           ~BeginCreate(leader)
    PROVE  Settled(m, o)'
<1>1. CASE Refresh(leader)
  BY <1>1, OutsideSettled, Zenon
<1>2. CASE \E P \in SUBSET Hosts : BeginCycle(leader, P)
  BY <1>2, BeginCycleSettled, Zenon
<1>3. CASE \E h \in Hosts, call \in {"quarantine", "requarantine", "lift"}, q \in BOOLEAN :
             SetQuarantine(leader, h, call, q)
  BY <1>3, SetQuarantineSettled, Zenon
<1>4. CASE \E h \in Hosts, call \in {"halt", "stop"} : StopEtcd(leader, h, call)
  BY <1>4, StopEtcdSettled, Zenon
<1>5. CASE \E h \in Hosts : Roll(leader, h)
  BY <1>5, RollSettled, Zenon
<1>6. CASE \E h \in Hosts : AddNode(leader, h)
  BY <1>6, AddNodeSettled, Zenon
<1>7. CASE \E h \in Hosts : JoinInitial(leader, h)
  BY <1>7, JoinInitialSettled, Zenon
<1>8. CASE \/ \E call \in {"backup", "backup_again", "roll_backup"} : Backup(leader, call)
           \/ CallFails(leader) \/ BackupFails(leader) \/ NoPeerToRestore(leader)
           \/ \E h \in Hosts : DoRestore(leader, h)
           \/ AddCommand(leader) \/ SeeCommand(leader) \/ WriteSpec(leader)
           \/ RemoveCommand(leader)
  BY <1>8, StoreSettled, Zenon
<1>9. (\E h \in Hosts : \/ SetQuarantine(leader, h, "quarantine", TRUE)
                        \/ SetQuarantine(leader, h, "requarantine", TRUE)
                        \/ SetQuarantine(leader, h, "lift", FALSE))
      => \E h \in Hosts, call \in {"quarantine", "requarantine", "lift"}, q \in BOOLEAN :
             SetQuarantine(leader, h, call, q)
  <2>1. TRUE \in BOOLEAN /\ FALSE \in BOOLEAN
    BY Zenon
  <2> QED
    BY <2>1, Zenon
<1> QED
  BY <1>1, <1>2, <1>3, <1>4, <1>5, <1>6, <1>7, <1>8, <1>9, Zenon DEF Control

-----------------------------------------------------------------------------
(* What every step keeps                                                   *)

LEMMA ShapeNext ==
    ASSUME HostsCount, TypeInv, NEW m \in Clusters, NEW o \in Odd, Sound(m, o), [Next]_vars,
           \A p \in Leaders : ~TakeOver(p, "election")
    PROVE  \/ Sound(m, o)'
           \/ BeginCreate(leader) /\ \E n \in Clusters, x \in Odd : Sound(n, x)' /\ Job'.cluster = n
<1>1. CASE \E p \in Leaders : Control(p)
  <2>1. Control(leader)
    BY <1>1, LeaderActs, Zenon DEF Sound, Shape
  <2>2. CASE ~BeginCreate(leader)
    BY <2>1, <2>2, ControlShape, ControlSettled, Zenon DEF Sound
  <2>3. CASE BeginCreate(leader)
    <3>1. PICK n \in Clusters, x \in Odd : /\ Shape(n, x)' /\ Job'.cluster = n
                                           /\ Hosts \ {x} \subseteq Job.peers
      BY <2>3, BeginCreateShape, Zenon DEF Sound
    <3> QED
      BY <2>3, <3>1, BeginCreateSettled, Zenon DEF Sound
  <2> QED
    BY <2>2, <2>3, Zenon
<1>2. CASE \/ \E h \in Hosts : EtcdStarts(h) \/ EtcdExits(h)
           \/ \E c \in Clusters : ClientWrites(c)
           \/ \E v \in Versions : OperatorSetsSpec(v)
           \/ \E p \in Leaders : CacheExpires(p)
           \/ UNCHANGED vars
  BY <1>2, OutsideShape, OutsideSettled, Zenon DEF Sound
<1>3. CASE \E p \in Leaders : TakeOver(p, "crash")
  BY <1>3, CrashShape, CrashSettled, Zenon DEF Sound
<1> QED
  BY <1>1, <1>2, <1>3, Zenon DEF Next

LEMMA ShapeInit ==
    ASSUME HostsCount, Init
    PROVE  \E m \in Clusters, o \in Odd : Sound(m, o) /\ \A c \in Clusters : data[c] = 0
<1>1. PICK m \in Clusters, absent \in {{}, {CHOOSE h \in Hosts : TRUE}} :
      /\ state = [h \in Hosts |-> IF h \in absent THEN None
                                  ELSE [cluster |-> m, version |-> spec, quarantined |-> FALSE]]
      /\ nodes = [d \in Clusters |-> IF d = m THEN Hosts \ absent ELSE {}]
  BY Zenon DEF Init
<1>2. None \in Odd
  BY Zenon DEF Odd
<1>3. TypeInv
  BY TypesInit, Zenon
<1>4. /\ \A h \in Hosts : state[h] = None \/ (In(h, m) /\ state[h].version = spec)
      /\ spec \in Nat
  BY <1>1, UpgradeAssumption, Zenon DEF In, Init
<1>5. OneMain(m, None)
  <2>1. ASSUME MemberCount >= 3 PROVE Cardinality(nodes[m]) >= 2
    <3>1. nodes[m] = Hosts \ absent
      BY <1>1, Zenon
    <3>2. PICK x : absent \subseteq {x}
      BY <1>1, Zenon
    <3>3. Cardinality(Hosts \ {x}) >= MemberCount - 1
      BY AllButOne, Zenon
    <3>4. Hosts \ {x} \subseteq nodes[m] /\ nodes[m] \in SUBSET Hosts
      BY <3>1, <3>2, Zenon
    <3>5. Cardinality(Hosts \ {x}) <= Cardinality(nodes[m])
      BY <3>4, Zenon DEF HostsCount
    <3> QED
      BY <2>1, <3>3, <3>4, <3>5 DEF HostsCount
  <2> QED
    BY <1>4, <2>1, Zenon DEF OneMain, Fresh, In
<1>6. CloseIn(m)
  BY <1>4 DEF CloseIn, In
<1>7. OthersRest /\ Pc = "idle"
  BY <1>3, Zenon DEF Init, OthersRest, Pc, TypeInv, CountOK
<1>8. Creating /\ Working(m)
  BY <1>7, Zenon DEF Creating, Working, Halting, Rolling
<1>9. \A c \in Clusters : data[c] = 0
  BY Zenon DEF Init
<1>10. Settled(m, None)
  <2>1. Aligned(m) /\ Whole(m, None)
    BY <1>4, Zenon DEF Aligned, Whole
  <2>2. Read => cache[leader].commands = commands
    BY <1>3, Zenon DEF Init, Read, TypeInv, CountOK
  <2> QED
    BY <1>7, <2>1, <2>2, Zenon DEF Settled, Remembered, Halting
<1> QED
  BY <1>2, <1>5, <1>6, <1>7, <1>8, <1>9, <1>10, Zenon DEF Sound, Shape

-----------------------------------------------------------------------------
(* A rolling upgrade keeps the quorum                                      *)

LEMMA RollingInit ==
    ASSUME HostsCount, Init
    PROVE  RInv
<1>1. TypeInv /\ VInv
  BY TypesInit, ShapeInit, Zenon DEF VInv
<1>2. Pc = "idle"
  BY <1>1, Zenon DEF Init, Pc, TypeInv, CountOK
<1> QED
  BY <1>1, <1>2, Zenon DEF RInv, Rolling

LEMMA FaultsCount ==
    ASSUME NEW p \in Leaders, Control(p)
    PROVE  UNCHANGED faults \/ \E kind : Fault(kind)
<1>1. CASE \E h \in Hosts : Answered(p, h)
  BY <1>1, Zenon DEF Answered, NoFault
<1>2. CASE Refresh(p) \/ \E P \in SUBSET Hosts : BeginCycle(p, P)
  BY <1>2, Zenon DEF Refresh, BeginCycle, NoFault
<1>3. CASE \/ CallFails(p) \/ BackupFails(p) \/ NoPeerToRestore(p) \/ BeginCreate(p)
           \/ \E call \in {"backup", "backup_again", "roll_backup"} : Backup(p, call)
  BY <1>3, Zenon DEF CallFails, BackupFails, NoPeerToRestore, BeginCreate, Backup, NoFault
<1>4. CASE \E h \in Hosts : Roll(p, h) \/ AddNode(p, h) \/ DoRestore(p, h)
  BY <1>4, Zenon DEF Roll, AddNode, DoRestore, NoFault
<1>5. CASE AddCommand(p) \/ SeeCommand(p) \/ WriteSpec(p) \/ RemoveCommand(p)
  BY <1>5, Zenon DEF AddCommand, SeeCommand, WriteSpec, RemoveCommand, NoFault
<1> QED
  BY <1>1, <1>2, <1>3, <1>4, <1>5, Zenon DEF Control, SetQuarantine, StopEtcd, JoinInitial

(* Where a step leads to the roll from. *)
LEMMA RollingFrom ==
    ASSUME HostsCount, TypeInv, NEW m \in Clusters, NEW o \in Odd, Shape(m, o), Control(leader),
           Pc' \in Rolling
    PROVE  UNCHANGED running /\ (Pc \in Rolling \/ running = Hosts)
<1>1. "idle" \notin Rolling /\ OthersRest
  BY Zenon DEF Rolling, Shape
<1>2. CASE Refresh(leader)
  BY <1>2, Zenon DEF Refresh, Pc, loopVars, etcdVars
<1>3. CASE \E P \in SUBSET Hosts : BeginCycle(leader, P)
  <2>1. PICK P \in SUBSET Hosts : BeginCycle(leader, P)
    BY <1>3, Zenon
  <2> DEFINE v == cache[leader].spec
             cmds == cache[leader].commands
             plan == Plan(P, v, cmds)
  <2>2. v \in Versions /\ cmds \in Seq(Cmds) /\ OneMain(m, o) /\ leader \in Leaders
    BY <2>1, Zenon DEF TypeInv, StoreOK, CountOK, BeginCycle, Shape
  <2>3. /\ UNCHANGED <<running, leader>>
        /\ cache' = cache \/ cache' = [cache EXCEPT ![leader] = Store]
        /\ plan = None => Return(leader, FALSE)
        /\ plan # None => Enter(leader, plan.call, plan.hosts) \/ Enter(leader, "create", P)
    BY <2>1, Zenon DEF BeginCycle, etcdVars
  <2>4. \A q \in Leaders \ {leader} : cache'[q] = cache[q]
    BY <2>3, Zenon DEF TypeInv, StoreOK
  <2>5. plan # None
    BY <1>1, <2>3, <2>4, ReturnMoves, Zenon
  <2>6. PlanOK(plan, P, v, cmds)
    BY <2>2, <2>5, PlanFacts, Zenon
  <2> HIDE DEF plan, v, cmds
  <2>7. plan.call \in Rolling
    <3>1. CASE Enter(leader, "create", P)
      BY <1>1, <2>3, <2>4, <3>1, EnterMoves DEF Rolling
    <3>2. CASE Enter(leader, plan.call, plan.hosts)
      BY <1>1, <2>3, <2>4, <3>2, EnterMoves, Zenon
    <3> QED
      BY <2>3, <2>5, <3>1, <3>2, Zenon
  <2>8. ReadyForUpgrade(P) /\ Seen # {}
    BY <2>6, <2>7, Zenon DEF PlanOK, Rolling
  <2> QED
    BY <2>2, <2>3, <2>8, SeesReady, Zenon
<1>4. CASE \E call \in {"backup", "backup_again", "roll_backup"} : Backup(leader, call)
  <2>1. UNCHANGED <<running, leader, cache>>
    BY <1>4, Zenon DEF Backup, etcdVars
  <2>2. \/ Pc = "roll_backup"
        \/ \E S : Enter(leader, "quarantine", S) \/ Enter(leader, "command", S)
    BY <1>4, Zenon DEF Backup, Pc
  <2>3. CASE \E S : Enter(leader, "quarantine", S) \/ Enter(leader, "command", S)
    BY <1>1, <2>1, <2>3, EnterMoves DEF Rolling
  <2> QED
    BY <2>1, <2>2, <2>3, Zenon DEF Rolling
<1>5. CASE \E h \in Hosts : \/ SetQuarantine(leader, h, "quarantine", TRUE)
                            \/ SetQuarantine(leader, h, "requarantine", TRUE)
                            \/ SetQuarantine(leader, h, "lift", FALSE)
                            \/ StopEtcd(leader, h, "halt") \/ StopEtcd(leader, h, "stop")
                            \/ JoinInitial(leader, h)
  <2>1. PICK h \in Hosts : /\ Answered(leader, h) /\ UNCHANGED <<leader, cache>>
                           /\ Pc \notin Rolling
    BY <1>5, Zenon DEF SetQuarantine, StopEtcd, JoinInitial, Calling, Pc, Rolling
  <2> QED
    BY <1>1, <2>1, AnsweredMoves, Zenon DEF Moved, Rolling
<1>6. CASE \E h \in Hosts : Roll(leader, h) \/ AddNode(leader, h)
  BY <1>1, <1>6, ReturnMoves, Zenon DEF Roll, AddNode
<1>7. CASE BeginCreate(leader)
  BY <1>1, <1>7, EnterMoves DEF BeginCreate, Rolling
<1>8. CASE \/ CallFails(leader) \/ BackupFails(leader) \/ NoPeerToRestore(leader)
           \/ \E h \in Hosts : DoRestore(leader, h)
           \/ AddCommand(leader) \/ SeeCommand(leader) \/ WriteSpec(leader)
           \/ RemoveCommand(leader)
  <2>1. \A q \in Leaders \ {leader} : cache'[q] = cache[q]
    <3>1. cache' = cache \/ cache' = [cache EXCEPT ![leader] = Store]
          \/ cache' = [cache EXCEPT ![leader] = None]
      BY <1>8, Zenon DEF CallFails, BackupFails, NoPeerToRestore, DoRestore, AddCommand, SeeCommand,
         WriteSpec, RemoveCommand
    <3> QED
      BY <3>1, Zenon DEF TypeInv, StoreOK
  <2>2. CASE \E b : Return(leader, b) /\ UNCHANGED leader
    BY <1>1, <2>1, <2>2, ReturnMoves, Zenon
  <2>3. CASE \E call \in {"spec_again", "restore", "remove", "see", "halt"} : \E S :
               Enter(leader, call, S) /\ UNCHANGED leader
    BY <1>1, <2>1, <2>3, EnterMoves, Zenon DEF Rolling
  <2>4. CASE CallFails(leader) \/ BackupFails(leader) \/ NoPeerToRestore(leader) \/ RemoveCommand(leader)
    BY <2>2, <2>4, Zenon DEF CallFails, BackupFails, NoPeerToRestore, RemoveCommand
  <2>5. CASE \E h \in Hosts : DoRestore(leader, h)
    BY <2>2, <2>3, <2>5, Zenon DEF DoRestore
  <2>6. CASE AddCommand(leader)
    BY <2>2, <2>3, <2>6, Zenon DEF AddCommand
  <2>7. CASE SeeCommand(leader)
    BY <2>3, <2>7, Zenon DEF SeeCommand
  <2>8. CASE WriteSpec(leader)
    BY <2>2, <2>3, <2>8, Zenon DEF WriteSpec
  <2> QED
    BY <1>8, <2>4, <2>5, <2>6, <2>7, <2>8, Zenon
<1> QED
  BY <1>2, <1>3, <1>4, <1>5, <1>6, <1>7, <1>8, Zenon DEF Control

(* Between the decision to roll and the restart of a member, etcd runs on  *)
(* all hosts while nothing fails.                                          *)
LEMMA RollingNext ==
    ASSUME HostsCount, TypeInv, RInv, [Next]_vars
    PROVE  RInv'
<1> SUFFICES ASSUME faults' = 0 PROVE VInv' /\ (Pc' \in Rolling => running' = Hosts)
  BY Zenon DEF RInv
<1>1. /\ \A kind : ~Fault(kind) /\ \A p \in Leaders : ~TakeOver(p, kind)
      /\ faults = 0
  <2>1. \A kind : ~Fault(kind)
    BY DEF Fault, TypeInv, CountOK
  <2>2. \A p \in Leaders : \A kind : ~TakeOver(p, kind)
    BY <2>1, Zenon DEF TakeOver
  <2>3. CASE UNCHANGED faults
    BY <2>1, <2>2, <2>3, Zenon
  <2>4. CASE faults' # faults
    <3>1. ~\E p \in Leaders : Control(p)
      BY <2>1, <2>4, FaultsCount, Zenon
    <3> QED
      BY <2>1, <2>2, <2>4, <3>1, Zenon DEF Next, EtcdStarts, EtcdExits, ClientWrites, OperatorSetsSpec,
         CacheExpires, vars
  <2> QED
    BY <2>3, <2>4, Zenon
<1>2. PICK m \in Clusters, o \in Odd : Sound(m, o)
  BY <1>1, Zenon DEF RInv, VInv
<1>3. \E n \in Clusters, x \in Odd : Sound(n, x)'
  BY <1>1, <1>2, ShapeNext, Zenon
<1>4. ASSUME Pc' \in Rolling PROVE running' = Hosts
  <2>1. running \subseteq Hosts /\ Pc \in Rolling => running = Hosts
    BY <1>1, Zenon DEF RInv, TypeInv, EtcdOK
  <2>2. CASE UNCHANGED <<running, leader, loopVars>>
    BY <1>1, <1>4, <2>2, Zenon DEF RInv, Pc, loopVars
  <2>3. CASE \E p \in Leaders : Control(p)
    <3>1. Control(leader)
      BY <1>2, <2>3, LeaderActs, Zenon DEF Sound, Shape
    <3> QED
      BY <1>1, <1>2, <1>4, <3>1, RollingFrom, Zenon DEF RInv, Sound
  <2>4. CASE \E h \in Hosts : EtcdStarts(h)
    BY <1>1, <1>4, <2>1, <2>4, Zenon DEF RInv, EtcdStarts, Pc, loopVars
  <2> QED
    BY <1>1, <2>2, <2>3, <2>4, Zenon DEF Next, EtcdExits, ClientWrites, OperatorSetsSpec, CacheExpires,
       vars, etcdVars
<1> QED
  BY <1>3, <1>4, Zenon DEF VInv

-----------------------------------------------------------------------------
(* No write is lost                                                        *)

(* Nothing is asked of a leader that is about to begin a cycle. *)
LEMMA IdleKept ==
    ASSUME NEW m, Pc' = "idle"
    PROVE  Shutting(m)'
BY Zenon DEF Shutting, After

(* The control store stays as it is. *)
LEMMA SameStore ==
    ASSUME NEW m, Stored(m), UNCHANGED <<commands, data, written, leader>>,
           cache'[leader] = cache[leader] \/ cache'[leader] = None,
           Pc # "see", Pc' # "see", commands # <<>> /\ ShutOut => ShutOut',
           Pc' \in Before => commands = <<>>,
           Pc' \in After \cup {"halt"} => commands # <<>>,
           Pc' \in {"spec_again", "remove"} => data[m] = written
    PROVE  Stored(m)'
BY Zenon DEF Stored

(* A step that returns and leaves the hosts and the control store alone. *)
LEMMA ReturnKept ==
    ASSUME TypeInv, NEW m, OthersRest, Kept(m), NEW b, Return(leader, b), Pc # "see",
           UNCHANGED <<state, commands, data, written, leader>>,
           \A q \in Leaders \ {leader} : cache'[q] = cache[q],
           cache'[leader] = cache[leader] \/ cache'[leader] = None
    PROVE  Kept(m)'
<1>1. Pc' = "idle"
  BY ReturnMoves, Zenon
<1>2. ShutOut => ShutOut'
  BY Zenon DEF ShutOut
<1> QED
  BY <1>1, <1>2, IdleKept, SameStore, Zenon DEF Kept, Before, After

LEMMA BeginCycleKept ==
    ASSUME HostsCount, TypeInv, NEW m \in Clusters, NEW o \in Odd, Shape(m, o), Kept(m),
           NEW P \in SUBSET Hosts, BeginCycle(leader, P)
    PROVE  Kept(m)'
<1> DEFINE v == cache[leader].spec
           cmds == cache[leader].commands
           plan == Plan(P, v, cmds)
<1>1. /\ v \in Versions /\ cmds \in Seq(Cmds) /\ leader \in Leaders /\ OneMain(m, o) /\ OthersRest
      /\ Pc = "idle" /\ cache[leader] # None
  BY Zenon DEF TypeInv, StoreOK, CountOK, BeginCycle, Shape, Pc
<1>2. cmds = commands /\ (commands # <<>> => commands[1].backup = written)
  BY <1>1, Zenon DEF Kept, Stored
<1>3. /\ UNCHANGED <<state, nodes, running, data, written, commands, leader>>
      /\ cache' = cache \/ cache' = [cache EXCEPT ![leader] = Store]
  BY Zenon DEF BeginCycle, etcdVars, storeVars
<1>4. \A q \in Leaders \ {leader} : cache'[q] = cache[q]
  BY <1>3, Zenon DEF TypeInv, StoreOK
<1>5. ShutOut => ShutOut'
  BY <1>3, Zenon DEF ShutOut
<1>6. CASE plan = None
  <2>1. Pc' = "idle"
    <3>1. Return(leader, FALSE)
      BY <1>6, Zenon DEF BeginCycle
    <3> QED
      BY <1>1, <1>3, <1>4, <3>1, ReturnMoves, Zenon
  <2>2. cache'[leader] # None => cache'[leader].commands = commands
    BY <1>1, <1>2, <1>3 DEF TypeInv, StoreOK, Store
  <2>3. Stored(m)'
    BY <1>1, <1>3, <1>5, <2>1, <2>2, Zenon DEF Kept, Stored, Before, After
  <2> QED
    BY <2>1, <2>3, IdleKept, Zenon DEF Kept
<1>7. CASE plan # None
  <2>1. PlanOK(plan, P, v, cmds)
    BY <1>1, <1>7, PlanFacts, Zenon
  <2>2. job' = [job EXCEPT ![leader] = plan.job] /\ UNCHANGED cache
    BY <1>7, Zenon DEF BeginCycle
  <2>3. \/ Enter(leader, plan.call, plan.hosts)
        \/ plan.call = "stop" /\ Enter(leader, "create", P)
    BY <1>7, Zenon DEF BeginCycle
  <2> HIDE DEF plan, v, cmds
  <2>4. Job' = plan.job
    BY <1>1, <1>3, <2>2, Zenon DEF Job, TypeInv, LoopOK
  <2>5. /\ Pc' \in {plan.call, "create"} /\ (Pc' = "create" => plan.call = "stop")
    <3>1. CASE Enter(leader, plan.call, plan.hosts)
      BY <1>1, <1>3, <1>4, <2>1, <3>1, EnterMoves, Zenon DEF PlanOK
    <3>2. CASE plan.call = "stop" /\ Enter(leader, "create", P)
      BY <1>1, <1>3, <1>4, <3>2, EnterMoves, Zenon
    <3> QED
      BY <2>3, <3>1, <3>2, Zenon
  <2>6. CASE plan.call \in {"stop", "restore"}
    <3>1. commands # <<>> /\ Job'.backup = written /\ Pc' \in {"stop", "create", "restore"}
      BY <1>1, <1>2, <2>1, <2>4, <2>5, <2>6 DEF PlanOK
    <3>2. Stored(m)'
      BY <1>1, <1>3, <1>5, <2>2, <3>1, SameStore, Zenon DEF Kept, Before
    <3>3. Shutting(m)'
      BY <1>3, <3>1, Zenon DEF Shutting
    <3> QED
      BY <3>2, <3>3, Zenon DEF Kept
  <2>7. CASE plan.call \notin {"stop", "restore"}
    <3>1. commands = <<>> /\ Pc' \in {"lift", "requarantine", "add", "roll_backup", "backup"}
      BY <1>2, <2>1, <2>5, <2>7, Zenon DEF PlanOK
    <3>2. Stored(m)'
      BY <1>1, <1>3, <1>5, <2>2, <3>1, SameStore, Zenon DEF Kept, After
    <3>3. Pc' = "backup" => \A h \in Job'.able : In(h, m)'
      <4>1. ASSUME Pc' = "backup" PROVE Job'.able = SeenHealthy \cap P
        BY <2>1, <2>4, <2>5, <4>1, Zenon DEF PlanOK
      <4>2. SeenHealthy \subseteq Serving(m)
        BY <1>1, SeesOneCluster, Zenon
      <4> QED
        BY <1>3, <4>1, <4>2, Zenon DEF Serving, In
    <3>4. Shutting(m)'
      BY <3>1, <3>3, Zenon DEF Shutting, After
    <3> QED
      BY <3>2, <3>4 DEF Kept
  <2> QED
    BY <2>6, <2>7, Zenon
<1> QED
  BY <1>6, <1>7, Zenon

(* The second backup is of a cluster without clients: it has all writes. *)
LEMMA BackupKept ==
    ASSUME TypeInv, NEW m \in Clusters, NEW o \in Odd, Shape(m, o), Kept(m),
           NEW call \in {"backup", "backup_again", "roll_backup"}, Backup(leader, call)
    PROVE  Kept(m)'
<1>1. /\ Pc = call /\ UNCHANGED <<state, nodes, data, written, commands, leader, cache>>
      /\ leader \in Leaders /\ job \in [Leaders -> Jobs] /\ OthersRest
      /\ commands = <<>> /\ data[m] = written
  <2>1. Pc = call /\ UNCHANGED <<state, nodes, data, written, commands, leader, cache>>
    BY Zenon DEF Backup, etcdVars, storeVars, Pc
  <2>2. leader \in Leaders /\ job \in [Leaders -> Jobs]
    BY Zenon DEF TypeInv, CountOK, LoopOK
  <2>3. commands = <<>>
    BY <2>1, Zenon DEF Kept, Stored, Before
  <2> QED
    BY <2>1, <2>2, <2>3, Zenon DEF Shape, Kept, Stored
<1>2. PICK h \in Job.able : job' = [job EXCEPT ![leader].backup = data[state[h].cluster]]
  BY Zenon DEF Backup, Job
<1> DEFINE b == data[state[h].cluster]
<1>3. Job'.able = Job.able /\ Job'.backup = b
  <2>1. Job \in Jobs /\ Job' = [Job EXCEPT !.backup = b]
    BY <1>1, <1>2, Zenon DEF Job
  <2> HIDE DEF b
  <2> QED
    BY <2>1, Zenon DEF Jobs
<1>4. ShutOut => ShutOut'
  BY <1>1, Zenon DEF ShutOut
<1>5. PICK next, S : /\ Enter(leader, next, S)
                     /\ \/ next = "quarantine" /\ Pc = "backup" /\ S = nodes[Job.cluster]
                        \/ next = "command" /\ Pc = "backup_again"
                        \/ next = "roll" /\ Pc = "roll_backup"
  BY <1>1, Zenon DEF Backup, Job
<1>6. Pc' = next /\ Todo' = S
  BY <1>1, <1>5, EnterMoves, Zenon
<1>7. Stored(m)'
  BY <1>1, <1>4, <1>5, <1>6, SameStore, Zenon DEF Kept, After
<1>8. Shutting(m)'
  <2>1. CASE next = "quarantine"
    <3>1. S = Hosts
      BY <1>5, <2>1, Zenon DEF Shape, Working, Halting
    <3>2. \A x \in Job'.able : In(x, m)'
      BY <1>1, <1>3, <1>5, <2>1, Zenon DEF Kept, Shutting, In
    <3> QED
      BY <1>6, <2>1, <3>1, <3>2, Zenon DEF Shutting, After
  <2>2. CASE next = "command"
    <3>1. b = written /\ ShutOut
      BY <1>1, <1>2, <1>5, <2>2, Zenon DEF Kept, Shutting, In
    <3> QED
      BY <1>1, <1>3, <1>4, <1>6, <2>2, <3>1, Zenon DEF Shutting, After
  <2>3. CASE next = "roll"
    BY <1>6, <2>3, Zenon DEF Shutting, After
  <2> QED
    BY <1>5, <2>1, <2>2, <2>3, Zenon
<1> QED
  BY <1>7, <1>8, Zenon DEF Kept

LEMMA SetQuarantineKept ==
    ASSUME TypeInv, NEW m \in Clusters, NEW o \in Odd, Shape(m, o), Kept(m), NEW h \in Hosts,
           NEW call \in {"quarantine", "requarantine", "lift"}, NEW q \in BOOLEAN,
           call = "quarantine" => q = TRUE, SetQuarantine(leader, h, call, q)
    PROVE  Kept(m)'
<1>1. /\ Pc = call /\ UNCHANGED <<data, written, commands, leader, cache>> /\ Answered(leader, h)
      /\ state[h] # None /\ state' = [state EXCEPT ![h].quarantined = q]
  BY Zenon DEF SetQuarantine, Calling, Pc, storeVars
<1>2. Moved(h) /\ commands = <<>>
  BY <1>1, AnsweredMoves, Zenon DEF Shape, Kept, Stored, Before
<1>3. /\ state'[h].quarantined = q /\ \A g \in Hosts \ {h} : state'[g] = state[g]
      /\ \A g \in Hosts : In(g, m) => In(g, m)'
  <2>1. state \in [Hosts -> States \cup {None}] /\ state[h] \in States
    BY <1>1, Zenon DEF TypeInv, EtcdOK
  <2>2. state' = [state EXCEPT ![h] = [state[h] EXCEPT !.quarantined = q]]
    BY <1>1, <2>1, Zenon
  <2>3. /\ [state[h] EXCEPT !.quarantined = q] \in States
        /\ [state[h] EXCEPT !.quarantined = q].cluster = state[h].cluster
        /\ [state[h] EXCEPT !.quarantined = q].quarantined = q
    BY <2>1, Zenon DEF States
  <2>4. [state[h] EXCEPT !.quarantined = q] # None
    BY <2>3, UpgradeAssumption, Zenon
  <2>5. state'[h] = [state[h] EXCEPT !.quarantined = q] /\ \A g \in Hosts \ {h} : state'[g] = state[g]
    BY <2>1, <2>2, Zenon
  <2> QED
    BY <2>3, <2>4, <2>5, Zenon DEF In
<1>4. Pc' \in {"idle", "quarantine", "requarantine", "lift", "backup_again"}
  BY <1>1, <1>2, Zenon DEF Moved
<1>5. Stored(m)'
  BY <1>1, <1>2, <1>4, SameStore, Zenon DEF Kept, After
<1>6. Shutting(m)'
  <2>1. CASE Pc' \in {"idle", "requarantine", "lift"}
    BY <2>1, Zenon DEF Shutting, After
  <2>2. CASE Pc' \in {"quarantine", "backup_again"}
    <3>1. /\ Pc = "quarantine" /\ Job' = Job /\ state'[h].quarantined
          /\ Pc' = "quarantine" => Todo' = Todo \ {h}
          /\ Pc' = "backup_again" => Todo = {h}
      BY <1>1, <1>2, <1>3, <2>2, Zenon DEF Moved
    <3>2. /\ \A g \in Hosts : g \in Todo \/ state[g] = None \/ state[g].quarantined
          /\ \A g \in Job.able : In(g, m)
          /\ Job.able \subseteq Hosts
      <4>1. Job \in Jobs
        BY Zenon DEF Job, TypeInv, LoopOK, CountOK
      <4> QED
        BY <3>1, <4>1, Zenon DEF Kept, Shutting, Jobs
    <3>3. CASE Pc' = "quarantine"
      BY <1>3, <3>1, <3>2, <3>3, Zenon DEF Shutting, After
    <3>4. CASE Pc' = "backup_again"
      BY <1>3, <3>1, <3>2, <3>4, Zenon DEF Shutting, ShutOut, After
    <3> QED
      BY <2>2, <3>3, <3>4, Zenon
  <2> QED
    BY <1>4, <2>1, <2>2, Zenon
<1> QED
  BY <1>5, <1>6, Zenon DEF Kept

LEMMA StopEtcdKept ==
    ASSUME TypeInv, NEW m \in Clusters, NEW o \in Odd, Shape(m, o), Kept(m), NEW h \in Hosts,
           NEW call \in {"halt", "stop"}, StopEtcd(leader, h, call)
    PROVE  Kept(m)'
<1>1. /\ Pc = call /\ UNCHANGED <<data, written, commands, leader, cache>> /\ Answered(leader, h)
      /\ state' = [state EXCEPT ![h] = None] /\ state \in [Hosts -> States \cup {None}]
  BY Zenon DEF StopEtcd, Calling, Pc, storeVars, TypeInv, EtcdOK
<1>2. Moved(h) /\ commands # <<>>
  BY <1>1, AnsweredMoves, Zenon DEF Shape, Kept, Stored, After
<1>3. ShutOut => ShutOut'
  BY <1>1, Zenon DEF ShutOut
<1>4. Pc' = "idle" \/ (Job' = Job /\ (Pc' = "halt" \/ (Pc' \in {"stop", "create"} /\ Pc = "stop")))
  BY <1>1, <1>2, Zenon DEF Moved
<1>5. Stored(m)'
  BY <1>1, <1>2, <1>3, <1>4, SameStore, Zenon DEF Kept, Before
<1>6. Shutting(m)'
  BY <1>1, <1>4, Zenon DEF Kept, Shutting, After
<1> QED
  BY <1>5, <1>6, Zenon DEF Kept

(* A roll and a new member come when there is no command. *)
LEMMA ChangeKept ==
    ASSUME TypeInv, NEW m \in Clusters, NEW o \in Odd, Shape(m, o), Kept(m), NEW h \in Hosts,
           Roll(leader, h) \/ AddNode(leader, h)
    PROVE  Kept(m)'
<1>1. /\ Pc \in {"roll", "add"} /\ UNCHANGED <<data, written, commands, leader, cache>>
      /\ \E b : Return(leader, b)
  BY Zenon DEF Roll, AddNode, Calling, Pc, storeVars
<1>2. Pc' = "idle" /\ commands = <<>>
  BY <1>1, ReturnMoves, Zenon DEF Shape, Kept, Stored, Before
<1>3. Stored(m)'
  BY <1>1, <1>2, SameStore, Zenon DEF Kept, After
<1> QED
  BY <1>2, <1>3, IdleKept, Zenon DEF Kept

LEMMA BeginCreateKept ==
    ASSUME TypeInv, NEW m \in Clusters, NEW o \in Odd, Shape(m, o), Kept(m),
           NEW n \in Clusters, BeginCreate(leader)
    PROVE  Kept(n)'
<1>1. /\ Pc = "create" /\ UNCHANGED <<state, written, commands, leader, cache>>
      /\ leader \in Leaders /\ Enter(leader, "initial", Job.peers)
  BY Zenon DEF BeginCreate, Pc, Job, storeVars, TypeInv, CountOK
<1>2. Pc' = "initial" /\ commands # <<>>
  BY <1>1, EnterMoves, Zenon DEF Shape, Kept, Stored, After
<1>3. ShutOut => ShutOut'
  BY <1>1, Zenon DEF ShutOut
<1>4. Job'.backup = Job.backup
  <2>1. PICK c : job' = [job EXCEPT ![leader].cluster = c]
    BY Zenon DEF BeginCreate
  <2>2. job \in [Leaders -> Jobs] /\ Job \in Jobs
    BY <1>1, Zenon DEF TypeInv, LoopOK, Job
  <2>3. Job' = [Job EXCEPT !.cluster = c]
    BY <1>1, <2>1, <2>2, Zenon DEF Job
  <2> QED
    BY <2>2, <2>3, Zenon DEF Jobs
<1>5. Stored(n)'
  BY <1>1, <1>2, <1>3, Zenon DEF Kept, Stored, Before
<1>6. Shutting(n)'
  BY <1>1, <1>2, <1>4, Zenon DEF Kept, Shutting, After
<1> QED
  BY <1>5, <1>6, Zenon DEF Kept

(* The new cluster begins in quarantine. *)
LEMMA JoinInitialKept ==
    ASSUME TypeInv, NEW m \in Clusters, NEW o \in Odd, Shape(m, o), Kept(m), NEW h \in Hosts,
           JoinInitial(leader, h)
    PROVE  Kept(m)'
<1> DEFINE s == [cluster |-> Job.cluster, version |-> Job.version, quarantined |-> TRUE]
<1>1. /\ Pc = "initial" /\ UNCHANGED <<data, written, commands, leader, cache>>
      /\ Answered(leader, h)
      /\ state' = [state EXCEPT ![h] = s] /\ state \in [Hosts -> States \cup {None}]
  BY Zenon DEF JoinInitial, Calling, Pc, Job, storeVars, TypeInv, EtcdOK
<1>2. Moved(h) /\ commands # <<>>
  BY <1>1, AnsweredMoves, Zenon DEF Shape, Kept, Stored, After
<1>3. ShutOut => ShutOut'
  <2>1. s.quarantined
    BY Zenon
  <2> HIDE DEF s
  <2>2. state'[h] = s /\ \A g \in Hosts \ {h} : state'[g] = state[g]
    BY <1>1, Zenon
  <2> QED
    BY <2>1, <2>2, Zenon DEF ShutOut
<1>4. Pc' = "idle" \/ (Job' = Job /\ Pc' \in {"initial", "spec"})
  BY <1>1, <1>2, Zenon DEF Moved
<1>5. Stored(m)'
  BY <1>1, <1>2, <1>3, <1>4, SameStore, Zenon DEF Kept, Before
<1>6. Shutting(m)'
  BY <1>1, <1>4, Zenon DEF Kept, Shutting, After
<1> QED
  BY <1>5, <1>6, Zenon DEF Kept

(* The restore gives the new cluster everything. *)
LEMMA DoRestoreKept ==
    ASSUME HostsCount, TypeInv, NEW m \in Clusters, NEW o \in Odd, Shape(m, o), Kept(m), NEW h \in Hosts,
           DoRestore(leader, h)
    PROVE  Kept(m)'
<1>1. /\ Pc = "restore" /\ UNCHANGED <<state, written, commands, leader, cache>>
      /\ \/ Enter(leader, "spec_again", {}) /\ UNCHANGED job
         \/ Return(leader, FALSE)
  BY Zenon DEF DoRestore, Pc, storeVars
<1>2. commands # <<>> /\ Job.backup = written
  BY <1>1, Zenon DEF Kept, Stored, Shutting, After
<1>3. state[h].cluster = m
  <2>1. state[h].cluster \in Clusters
    BY Zenon DEF DoRestore, TypeInv, EtcdOK, States
  <2> QED
    BY <2>1, SeesMain, Zenon DEF DoRestore, Shape
<1>4. data'[m] = written
  <2>1. /\ data' = [data EXCEPT ![m] = IF @ > Job.backup THEN @ ELSE Job.backup]
    BY <1>3, Zenon DEF DoRestore, Job
  <2>2. data \in [Clusters -> 0..written] /\ written \in Nat
    BY UpgradeAssumption DEF TypeInv, EtcdOK
  <2> QED
    BY <1>2, <2>1, <2>2
<1>5. ShutOut => ShutOut'
  BY <1>1, Zenon DEF ShutOut
<1>6. Pc' = "idle" \/ (Pc' = "spec_again" /\ Job' = Job)
  BY <1>1, ReturnMoves, EnterMoves, Zenon DEF Shape, Job
<1>7. Stored(m)'
  BY <1>1, <1>2, <1>4, <1>5, <1>6, Zenon DEF Kept, Stored, Before, After
<1>8. Shutting(m)'
  BY <1>1, <1>2, <1>6, Zenon DEF Shutting, After
<1> QED
  BY <1>7, <1>8, Zenon DEF Kept

(* The command holds the last backup. *)
LEMMA AddCommandKept ==
    ASSUME TypeInv, NEW m \in Clusters, NEW o \in Odd, Shape(m, o), Kept(m),
           AddCommand(leader), ~Fault("unknown")
    PROVE  Kept(m)'
<1> DEFINE cmd == [backup |-> Job.backup, version |-> Job.version]
<1>1. /\ Pc = "command" /\ UNCHANGED <<state, data, written, leader, cache>>
      /\ \/ commands' = Append(commands, cmd) /\ Enter(leader, "see", {}) /\ UNCHANGED job
         \/ UNCHANGED commands /\ Return(leader, FALSE)
  BY Zenon DEF AddCommand, Pc, Job, etcdVars
<1>2. commands = <<>> /\ ShutOut /\ Job.backup = written
  BY <1>1, Zenon DEF Kept, Stored, Shutting, Before
<1>3. CASE UNCHANGED commands /\ Return(leader, FALSE)
  BY <1>1, <1>3, ReturnKept, Zenon DEF Shape
<1>4. CASE commands' = Append(commands, cmd) /\ Enter(leader, "see", {}) /\ UNCHANGED job
  <2>1. Pc' = "see"
    BY <1>1, <1>4, EnterMoves, Zenon DEF Shape
  <2>2. Len(commands') = 1 /\ commands' # <<>> /\ commands'[1] = cmd
    BY <1>2, <1>4
  <2>3. ShutOut'
    BY <1>1, <1>2, Zenon DEF ShutOut
  <2>4. Stored(m)'
    BY <1>1, <1>2, <2>1, <2>2, <2>3 DEF Stored, Before
  <2>5. Shutting(m)'
    BY <2>1, Zenon DEF Shutting, After
  <2> QED
    BY <2>4, <2>5, Zenon DEF Kept
<1> QED
  BY <1>1, <1>3, <1>4, Zenon

LEMMA SeeCommandKept ==
    ASSUME TypeInv, NEW m \in Clusters, NEW o \in Odd, Shape(m, o), Kept(m), SeeCommand(leader)
    PROVE  Kept(m)'
<1>1. /\ Pc = "see" /\ UNCHANGED <<state, data, written, commands, leader>> /\ commands # <<>>
      /\ cache' = [cache EXCEPT ![leader] = Store] /\ leader \in Leaders
      /\ Enter(leader, "halt", nodes[Job.cluster])
  BY Zenon DEF SeeCommand, Pc, Job, etcdVars, storeVars, TypeInv, CountOK
<1>2. /\ cache'[leader].commands = commands
      /\ \A q \in Leaders \ {leader} : cache'[q] = cache[q]
  BY <1>1, Zenon DEF TypeInv, StoreOK, Store
<1>3. Pc' = "halt"
  BY <1>1, <1>2, EnterMoves, Zenon DEF Shape
<1>4. ShutOut => ShutOut'
  BY <1>1, Zenon DEF ShutOut
<1>5. Stored(m)'
  BY <1>1, <1>2, <1>3, <1>4, Zenon DEF Kept, Stored, Before
<1>6. Shutting(m)'
  BY <1>3, Zenon DEF Shutting, After
<1> QED
  BY <1>5, <1>6, Zenon DEF Kept

LEMMA WriteSpecKept ==
    ASSUME TypeInv, NEW m \in Clusters, NEW o \in Odd, Shape(m, o), Kept(m), WriteSpec(leader)
    PROVE  Kept(m)'
<1>1. /\ Pc \in {"spec", "spec_again"} /\ UNCHANGED <<state, data, written, commands, leader, cache>>
      /\ \/ /\ Enter(leader, IF Pc = "spec" THEN "restore" ELSE "remove", {}) /\ UNCHANGED job
         \/ Return(leader, FALSE)
  BY Zenon DEF WriteSpec, Pc, etcdVars
<1>2. CASE Return(leader, FALSE)
  BY <1>1, <1>2, ReturnKept, Zenon DEF Shape
<1>3. CASE Enter(leader, IF Pc = "spec" THEN "restore" ELSE "remove", {}) /\ UNCHANGED job
  <2>1. Pc' = (IF Pc = "spec" THEN "restore" ELSE "remove") /\ Job' = Job
    BY <1>1, <1>3, EnterMoves, Zenon DEF Shape, Job
  <2>2. ShutOut => ShutOut'
    BY <1>1, Zenon DEF ShutOut
  <2>3. commands # <<>> /\ (Pc = "spec_again" => data[m] = written)
    BY <1>1, Zenon DEF Kept, Stored, After
  <2>4. Stored(m)'
    BY <1>1, <2>1, <2>2, <2>3, SameStore, Zenon DEF Kept, Before
  <2>5. Shutting(m)'
    BY <1>1, <2>1, Zenon DEF Kept, Shutting, After
  <2> QED
    BY <2>4, <2>5 DEF Kept
<1> QED
  BY <1>1, <1>2, <1>3, Zenon

(* When the command goes, the cluster has been restored. *)
LEMMA RemoveCommandKept ==
    ASSUME TypeInv, NEW m \in Clusters, NEW o \in Odd, Shape(m, o), Kept(m), RemoveCommand(leader)
    PROVE  Kept(m)'
<1>1. /\ Pc = "remove" /\ UNCHANGED <<state, data, written, leader>> /\ leader \in Leaders
      /\ cache' = [cache EXCEPT ![leader] = None] /\ \E b : Return(leader, b)
      /\ commands' = commands \/ \E i \in Mine(leader) : commands' = Without(commands, i)
  BY Zenon DEF RemoveCommand, Pc, etcdVars, TypeInv, CountOK
<1>2. cache'[leader] = None /\ \A q \in Leaders \ {leader} : cache'[q] = cache[q]
  BY <1>1, Zenon DEF TypeInv, StoreOK
<1>3. Pc' = "idle"
  BY <1>1, <1>2, ReturnMoves, Zenon DEF Shape
<1>4. data[m] = written /\ commands \in Seq(Cmds) /\ Len(commands) <= 1
  BY <1>1, Zenon DEF Kept, Stored, TypeInv, StoreOK
<1>5. commands' = commands \/ commands' = <<>>
  <2>1. ASSUME NEW i \in Mine(leader) PROVE Without(commands, i) = <<>>
    <3>1. i \in 1..Len(commands) /\ Len(commands) \in Nat
      BY <1>4, <2>1 DEF Mine
    <3>2. i = 1 /\ Len(commands) = 1
      <4> DEFINE n == Len(commands)
      <4>1. n \in Nat /\ n <= 1 /\ i \in 1..n
        BY <1>4, <3>1, Zenon
      <4> HIDE DEF n
      <4>2. i = 1 /\ n = 1
        BY <4>1
      <4> QED
        BY <4>2, Zenon DEF n
    <3>3. SubSeq(commands, 1, 0) = <<>> /\ SubSeq(commands, 2, 1) = <<>>
      BY <1>4
    <3>4. <<>> \o <<>> = <<>>
      OBVIOUS
    <3> QED
      BY <3>2, <3>3, <3>4 DEF Without
  <2> QED
    BY <1>1, <2>1, Zenon
<1>6. ShutOut => ShutOut'
  BY <1>1, Zenon DEF ShutOut
<1>7. Stored(m)'
  <2>1. Len(<<>>) = 0
    BY Zenon
  <2> QED
    BY <1>1, <1>2, <1>3, <1>4, <1>5, <1>6, <2>1 DEF Kept, Stored, Before, After
<1> QED
  BY <1>3, <1>7, IdleKept, Zenon DEF Kept

LEMMA FailKept ==
    ASSUME TypeInv, NEW m \in Clusters, NEW o \in Odd, Shape(m, o), Kept(m),
           CallFails(leader) \/ BackupFails(leader) \/ NoPeerToRestore(leader)
    PROVE  Kept(m)'
<1>1. /\ Pc # "see" /\ UNCHANGED <<state, data, written, commands, leader, cache>>
      /\ Return(leader, FALSE)
  BY Zenon DEF CallFails, BackupFails, NoPeerToRestore, HostCalls, Pc, etcdVars, storeVars
<1> QED
  BY <1>1, ReturnKept, Zenon DEF Shape

(* Clients write to a cluster that is open, which is m, and then no        *)
(* command is there.                                                       *)
LEMMA ClientWritesKept ==
    ASSUME HostsCount, TypeInv, NEW m \in Clusters, NEW o \in Odd, Shape(m, o), Kept(m), NEW c \in Clusters,
           ClientWrites(c)
    PROVE  Kept(m)'
<1>1. /\ Open(c) /\ written' = written + 1 /\ data' = [data EXCEPT ![c] = @ + 1]
      /\ UNCHANGED <<state, commands, leader, cache, pc, todo, job>>
  BY Zenon DEF ClientWrites, storeVars, loopVars
<1>2. c = m
  BY <1>1, SeesMain, Zenon DEF Open, Shape
<1>3. ~ShutOut
  <2>1. PICK h \in Serving(c) : ~state[h].quarantined
    BY <1>1, Zenon DEF Open
  <2>2. h \in Hosts /\ state[h] # None
    BY <2>1, Zenon DEF Serving, In, TypeInv, EtcdOK
  <2> QED
    BY <2>1, <2>2, Zenon DEF ShutOut
<1>4. commands = <<>> /\ data[m] = written
  BY <1>3, Zenon DEF Kept, Stored
<1>5. data'[m] = written'
  BY <1>1, <1>2, <1>4, Zenon DEF TypeInv, EtcdOK
<1>6. Pc' = Pc /\ Todo' = Todo /\ Job' = Job
  BY <1>1, Zenon DEF Pc, Todo, Job
<1>7. Stored(m)'
  BY <1>1, <1>4, <1>5, <1>6, Zenon DEF Kept, Stored
<1>8. Pc \notin After \cup {"command", "backup_again"}
  BY <1>3, <1>4, Zenon DEF Kept, Stored, Shutting
<1>9. Shutting(m)'
  BY <1>1, <1>6, <1>8, Zenon DEF Kept, Shutting, In
<1> QED
  BY <1>7, <1>9, Zenon DEF Kept

(* Steps that leave the loop, the hosts' state and the writes alone. *)
LEMMA StillKept ==
    ASSUME NEW m, Kept(m), UNCHANGED <<state, data, written, commands, leader, pc, todo, job>>,
           \/ cache'[leader] = cache[leader] \/ cache'[leader] = None
           \/ cache'[leader].commands = commands
    PROVE  Kept(m)'
<1>1. Pc' = Pc /\ Todo' = Todo /\ Job' = Job
  BY Zenon DEF Pc, Todo, Job
<1>2. ShutOut' <=> ShutOut
  BY Zenon DEF ShutOut
<1>3. Stored(m)'
  BY <1>1, <1>2, Zenon DEF Kept, Stored
<1>4. Shutting(m)'
  BY <1>1, <1>2, Zenon DEF Kept, Shutting, In
<1> QED
  BY <1>3, <1>4, Zenon DEF Kept

LEMMA OutsideKept ==
    ASSUME TypeInv, NEW m \in Clusters, NEW o \in Odd, Shape(m, o), Kept(m),
           \/ Refresh(leader)
           \/ \E h \in Hosts : EtcdStarts(h) \/ EtcdExits(h)
           \/ \E v \in Versions : OperatorSetsSpec(v)
           \/ \E p \in Leaders : CacheExpires(p)
           \/ UNCHANGED vars
    PROVE  Kept(m)'
<1>1. /\ UNCHANGED <<state, data, written, commands, leader, pc, todo, job>>
      /\ \/ cache' = cache
         \/ cache' = [cache EXCEPT ![leader] = Store]
         \/ \E p \in Leaders : cache' = [cache EXCEPT ![p] = None]
  BY Zenon DEF Refresh, EtcdStarts, EtcdExits, OperatorSetsSpec, CacheExpires, vars, etcdVars,
     storeVars, loopVars
<1>2. \/ cache'[leader] = cache[leader] \/ cache'[leader] = None
      \/ cache'[leader].commands = commands
  BY <1>1 DEF TypeInv, StoreOK, CountOK, Store
<1> QED
  BY <1>1, <1>2, StillKept, Zenon

LEMMA CrashKept ==
    ASSUME TypeInv, NEW m \in Clusters, NEW o \in Odd, Shape(m, o), Kept(m), NEW p \in Leaders,
           TakeOver(p, "crash")
    PROVE  Kept(m)'
<1>1. UNCHANGED <<state, data, written, commands>>
  BY Zenon DEF TakeOver, etcdVars, storeVars
<1>2. Pc' = "idle" /\ cache'[leader'] = None
  BY CrashShape, Zenon
<1>3. ShutOut => ShutOut'
  BY <1>1, Zenon DEF ShutOut
<1>4. Stored(m)'
  BY <1>1, <1>2, <1>3, Zenon DEF Kept, Stored, Before, After
<1> QED
  BY <1>2, <1>4, IdleKept, Zenon DEF Kept

LEMMA ControlKept ==
    ASSUME HostsCount, TypeInv, NEW m \in Clusters, NEW o \in Odd, Shape(m, o), Kept(m), Control(leader),
           ~BeginCreate(leader), ~Fault("unknown")
    PROVE  Kept(m)'
<1>1. CASE Refresh(leader)
  BY <1>1, OutsideKept, Zenon
<1>2. CASE \E P \in SUBSET Hosts : BeginCycle(leader, P)
  BY <1>2, BeginCycleKept, Zenon
<1>3. CASE \E call \in {"backup", "backup_again", "roll_backup"} : Backup(leader, call)
  BY <1>3, BackupKept, Zenon
<1>4. CASE \E h \in Hosts, call \in {"quarantine", "requarantine", "lift"}, q \in BOOLEAN :
             (call = "quarantine" => q = TRUE) /\ SetQuarantine(leader, h, call, q)
  BY <1>4, SetQuarantineKept, Zenon
<1>5. CASE \E h \in Hosts, call \in {"halt", "stop"} : StopEtcd(leader, h, call)
  BY <1>5, StopEtcdKept, Zenon
<1>6. CASE \E h \in Hosts : Roll(leader, h) \/ AddNode(leader, h)
  BY <1>6, ChangeKept, Zenon
<1>7. CASE \E h \in Hosts : JoinInitial(leader, h)
  BY <1>7, JoinInitialKept, Zenon
<1>8. CASE \E h \in Hosts : DoRestore(leader, h)
  BY <1>8, DoRestoreKept, Zenon
<1>9. CASE CallFails(leader) \/ BackupFails(leader) \/ NoPeerToRestore(leader)
  BY <1>9, FailKept, Zenon
<1>10. CASE AddCommand(leader)
  BY <1>10, AddCommandKept, Zenon
<1>11. CASE SeeCommand(leader) \/ WriteSpec(leader) \/ RemoveCommand(leader)
  BY <1>11, SeeCommandKept, WriteSpecKept, RemoveCommandKept, Zenon
<1>12. (\E h \in Hosts : \/ SetQuarantine(leader, h, "quarantine", TRUE)
                         \/ SetQuarantine(leader, h, "requarantine", TRUE)
                         \/ SetQuarantine(leader, h, "lift", FALSE))
       => \E h \in Hosts, call \in {"quarantine", "requarantine", "lift"}, q \in BOOLEAN :
             (call = "quarantine" => q = TRUE) /\ SetQuarantine(leader, h, call, q)
  <2>1. TRUE \in BOOLEAN /\ FALSE \in BOOLEAN /\ "lift" # "quarantine"
    BY Zenon
  <2> QED
    BY <2>1, Zenon
<1> QED
  BY <1>1, <1>2, <1>3, <1>4, <1>5, <1>6, <1>7, <1>8, <1>9, <1>10, <1>11, <1>12, Zenon DEF Control

LEMMA KeptNext ==
    ASSUME HostsCount, TypeInv, UInv, [Next]_vars, \A p \in Leaders : ~TakeOver(p, "election"),
           ~Fault("unknown")
    PROVE  UInv'
<1>1. PICK m \in Clusters, o \in Odd : Sound(m, o) /\ Shape(m, o) /\ Kept(m)
  BY Zenon DEF UInv, Sound
<1>2. CASE Control(leader) /\ BeginCreate(leader)
  <2>1. PICK n \in Clusters, x \in Odd : Shape(n, x)' /\ Hosts \ {x} \subseteq Job.peers
    BY <1>1, <1>2, BeginCreateShape, Zenon
  <2>2. Kept(n)'
    BY <1>1, <1>2, <2>1, BeginCreateKept, Zenon
  <2>3. Sound(n, x)'
    BY <1>1, <1>2, <2>1, BeginCreateSettled, Zenon DEF Sound
  <2> QED
    BY <2>2, <2>3, Zenon DEF UInv
<1>3. ASSUME Shape(m, o)' /\ Settled(m, o)' /\ Kept(m)' PROVE UInv'
  BY <1>3, Zenon DEF UInv, Sound
<1>4. CASE Control(leader) /\ ~BeginCreate(leader)
  BY <1>1, <1>3, <1>4, ControlShape, ControlSettled, ControlKept, Zenon
<1>5. CASE \/ \E h \in Hosts : EtcdStarts(h) \/ EtcdExits(h)
           \/ \E v \in Versions : OperatorSetsSpec(v)
           \/ \E p \in Leaders : CacheExpires(p)
           \/ UNCHANGED vars
  BY <1>1, <1>3, <1>5, OutsideShape, OutsideSettled, OutsideKept, Zenon
<1>6. CASE \E c \in Clusters : ClientWrites(c)
  BY <1>1, <1>3, <1>6, OutsideShape, OutsideSettled, ClientWritesKept, Zenon
<1>7. CASE \E p \in Leaders : TakeOver(p, "crash")
  BY <1>1, <1>3, <1>7, CrashShape, CrashSettled, CrashKept, Zenon
<1>8. ASSUME \E p \in Leaders : Control(p) PROVE Control(leader)
  BY <1>1, <1>8, LeaderActs, Zenon DEF Shape
<1> QED
  BY <1>2, <1>4, <1>5, <1>6, <1>7, <1>8, Zenon DEF Next

LEMMA KeptInit ==
    ASSUME HostsCount, Init
    PROVE  UInv
<1>1. PICK m \in Clusters, o \in Odd : Sound(m, o) /\ \A c \in Clusters : data[c] = 0
  BY ShapeInit, Zenon
<1>2. Pc = "idle" /\ commands = <<>> /\ written = 0 /\ cache[leader] = None
  BY TypesInit, Zenon DEF Init, Pc, TypeInv, CountOK
<1>3. Stored(m)
  BY <1>1, <1>2 DEF Stored, Before, After
<1>4. Shutting(m)
  BY <1>2, Zenon DEF Shutting, After
<1> QED
  BY <1>1, <1>3, <1>4, Zenon DEF UInv, Kept

LEMMA KeptAlways ==
    ASSUME HostsCount, "election" \notin Failures, "unknown" \notin Failures
    PROVE  Spec => [](TypeInv /\ UInv)
<1>1. Init => TypeInv /\ UInv
  BY TypesInit, KeptInit, Zenon
<1>2. TypeInv /\ UInv /\ [Next]_vars => (TypeInv /\ UInv)'
  <2>1. (\A p \in Leaders : ~TakeOver(p, "election")) /\ ~Fault("unknown")
    BY Zenon DEF TakeOver, Fault
  <2> QED
    BY <2>1, TypesNext, KeptNext, Zenon
<1> QED
  BY <1>1, <1>2, PTL DEF Spec

-----------------------------------------------------------------------------
(* The theorems                                                            *)

Finite == INSTANCE FiniteSetTheorems

(* The library's theorems, for the operators of FiniteSets that the model  *)
(* is written with.                                                        *)
LEMMA SameFinite == \A S : IsFiniteSet(S) <=> Finite!IsFiniteSet(S)
BY Zenon DEF IsFiniteSet, Finite!IsFiniteSet

LEMMA SameSize == \A S : Cardinality(S) = Finite!Cardinality(S)
BY Zenon DEF Cardinality, Finite!Cardinality

LEMMA SizeIsNatural ==
    ASSUME NEW S, IsFiniteSet(S)
    PROVE  Cardinality(S) \in Nat
BY SameFinite, SameSize, Finite!FS_CardinalityType, Zenon

LEMMA EmptySize ==
    /\ IsFiniteSet({}) /\ Cardinality({}) = 0
    /\ \A S : IsFiniteSet(S) => (Cardinality(S) = 0 <=> S = {})
BY SameFinite, SameSize, Finite!FS_EmptySet, Zenon

LEMMA SingletonSize ==
    \A x : IsFiniteSet({x}) /\ Cardinality({x}) = 1
BY SameFinite, SameSize, Finite!FS_Singleton, Zenon

LEMMA SubsetSize ==
    ASSUME NEW S, IsFiniteSet(S), NEW T \in SUBSET S
    PROVE  /\ IsFiniteSet(T) /\ Cardinality(T) <= Cardinality(S)
           /\ Cardinality(S) = Cardinality(T) => S = T
BY SameFinite, SameSize, Finite!FS_Subset, Zenon

LEMMA SizeWithOneMore ==
    ASSUME NEW S, NEW x, IsFiniteSet(S)
    PROVE  /\ IsFiniteSet(S \cup {x})
           /\ Cardinality(S \cup {x}) = IF x \in S THEN Cardinality(S) ELSE Cardinality(S) + 1
BY SameFinite, SameSize, Finite!FS_AddElement, Zenon

LEMMA HostsAreCounted == HostsCount
<1>1. IsFiniteSet(Hosts) /\ MemberCount \in Nat
  BY UpgradeAssumption, SizeIsNatural, Zenon DEF MemberCount
<1>2. ASSUME NEW S \in SUBSET Hosts
      PROVE  /\ IsFiniteSet(S) /\ Cardinality(S) \in Nat /\ Cardinality(S) <= MemberCount
             /\ Cardinality(S) = MemberCount => S = Hosts
             /\ \A T \in SUBSET S : Cardinality(T) <= Cardinality(S)
  BY <1>1, SubsetSize, SizeIsNatural, Zenon DEF MemberCount
<1>3. Cardinality({}) = 0
  BY EmptySize, Zenon
<1>4. ASSUME NEW S \in SUBSET Hosts, NEW h \in Hosts, S \subseteq {h}
      PROVE  Cardinality(S) <= 1
  <2>1. IsFiniteSet({h}) /\ Cardinality({h}) = 1
    BY SingletonSize, Zenon
  <2> QED
    BY <1>4, <2>1, SubsetSize
<1>5. ASSUME NEW S \in SUBSET Hosts, NEW h \in Hosts \ S
      PROVE  Cardinality(S \cup {h}) = Cardinality(S) + 1
  BY <1>2, <1>5, SizeWithOneMore, Zenon
<1> QED
  BY <1>1, <1>2, <1>3, <1>4, <1>5, Zenon DEF HostsCount

(* Members of one cluster are never more than a minor version apart        *)
(* (upgradeInPlace, UpgradeInPlaceSupported), whatever fails, as long as   *)
(* no leader is replaced by an election while it goes on: the snapshot of  *)
(* the versions that upgradeInPlace works with is then the truth.          *)
THEOREM VersionsStayClose ==
    ASSUME "election" \notin Failures
    PROVE  Spec => []VersionsClose
<1> USE HostsAreCounted
<1>1. Init => TypeInv /\ VInv
  BY TypesInit, ShapeInit, Zenon DEF VInv
<1>2. TypeInv /\ VInv /\ [Next]_vars => (TypeInv /\ VInv)'
  <2> SUFFICES ASSUME TypeInv, VInv, [Next]_vars PROVE TypeInv' /\ VInv'
    BY Zenon
  <2>1. \A p \in Leaders : ~TakeOver(p, "election")
    BY Zenon DEF TakeOver, Fault
  <2>2. PICK m \in Clusters, o \in Odd : Sound(m, o)
    BY Zenon DEF VInv
  <2>3. \E n \in Clusters, x \in Odd : Sound(n, x)'
    BY <2>1, <2>2, ShapeNext, Zenon
  <2> QED
    BY <2>3, TypesNext, Zenon DEF VInv
<1>3. TypeInv /\ VInv => VersionsClose
  <2> SUFFICES ASSUME TypeInv, VInv,
                      NEW c \in Clusters, NEW g \in Serving(c), NEW h \in Serving(c)
               PROVE  state[g].version <= state[h].version + 1
    BY Zenon DEF VersionsClose
  <2>1. PICK m \in Clusters, o \in Odd : Shape(m, o)
    BY Zenon DEF VInv, Sound
  <2>2. /\ g \in Hosts /\ h \in Hosts /\ In(g, c) /\ In(h, c)
        /\ state[g].version \in Nat /\ state[h].version \in Nat
    BY UpgradeAssumption, Zenon DEF TypeInv, EtcdOK, Serving, In, States
  <2>3. CASE c = m
    BY <2>1, <2>2, <2>3, Zenon DEF Shape, CloseIn
  <2>4. CASE c # m
    <3>1. g = o /\ h = o
      BY <2>1, <2>2, <2>4, Zenon DEF Shape, OneMain, In
    <3> QED
      BY <2>2, <3>1
  <2> QED
    BY <2>3, <2>4, Zenon
<1> QED
  BY <1>1, <1>2, <1>3, PTL DEF Spec

(* "We run one node per cycle so we can be sure we are fault tolerant"     *)
(* (upgradeInPlace): in a cluster of three or more, a restart for a new    *)
(* version leaves a quorum, as long as nothing has failed.  One member out *)
(* of one or two is no quorum, so these are excluded.                      *)
THEOREM RollsKeepQuorum ==
    ASSUME Cardinality(Hosts) >= 3
    PROVE  Spec => RollingKeepsQuorum
<1> USE HostsAreCounted
<1>1. Init => TypeInv /\ RInv
  BY TypesInit, RollingInit, Zenon
<1>2. TypeInv /\ RInv /\ [Next]_vars => (TypeInv /\ RInv)'
  BY TypesNext, RollingNext, Zenon
<1>3. TypeInv /\ TypeInv' /\ RInv /\ [Next]_vars =>
        [\A p \in Leaders, c \in Clusters :
           (pc[p] = "roll" /\ job[p].cluster = c /\ state' # state /\ faults = 0) => HasQuorum(c)']_vars
  <2> SUFFICES ASSUME TypeInv, TypeInv', RInv, [Next]_vars, NEW p \in Leaders, NEW c \in Clusters,
                      pc[p] = "roll", job[p].cluster = c, state' # state, faults = 0
               PROVE  HasQuorum(c)'
    BY Zenon
  <2>1. PICK m \in Clusters, o \in Odd : Shape(m, o)
    BY Zenon DEF RInv, VInv, Sound
  <2>2. p = leader
    BY <2>1, Zenon DEF Shape, OthersRest
  <2>3. /\ c = m /\ nodes[m] = Hosts /\ running = Hosts /\ \A h \in Hosts : In(h, m)
    BY <2>1, <2>2, Zenon DEF RInv, Shape, Working, Rolling, Pc, Job
  <2>4. Control(leader)
    <3>1. ~UNCHANGED state
      BY Zenon
    <3>2. \E q \in Leaders : Control(q)
      BY <3>1, Zenon DEF Next, EtcdStarts, EtcdExits, ClientWrites, OperatorSetsSpec, CacheExpires,
         TakeOver, vars, etcdVars
    <3> QED
      BY <2>1, <3>2, LeaderActs, Zenon DEF Shape
  <2>5. PICK h \in Hosts : Roll(leader, h)
    BY <2>2, <2>4, Zenon DEF Control, Refresh, BeginCycle, CallFails, Backup, BackupFails, SetQuarantine,
       StopEtcd, AddNode, BeginCreate, JoinInitial, DoRestore, NoPeerToRestore, AddCommand, SeeCommand,
       WriteSpec, RemoveCommand, Calling, etcdVars
  <2>6. /\ UNCHANGED nodes /\ running' = running \ {h}
        /\ \A g \in Hosts \ {h} : state'[g] = state[g]
    BY <2>5, Zenon DEF Roll, TypeInv, EtcdOK
  <2>7. Hosts \ {h} \subseteq Serving(c)'
    BY <2>3, <2>6, Zenon DEF Serving, In
  <2>8. Serving(c)' \in SUBSET Hosts
    BY <2>3, <2>6, Zenon DEF Serving
  <2>9. Cardinality(Hosts \ {h}) = MemberCount - 1
    BY AllButOne, Zenon
  <2>10. Cardinality(Serving(c)') >= MemberCount - 1 /\ Cardinality(Serving(c)') \in Nat
    BY <2>7, <2>8, <2>9 DEF HostsCount
  <2>11. Cardinality(Serving(c)') >= QuorumSize(MemberCount)
    BY <2>10 DEF HostsCount, QuorumSize, MemberCount
  <2>12. nodes'[c] = Hosts /\ nodes'[c] # {}
    BY <2>3, <2>5, <2>6, Zenon
  <2> QED
    BY <2>11, <2>12, Zenon DEF HasQuorum, MemberCount
<1> QED
  BY <1>1, <1>2, <1>3, PTL DEF Spec, RollingKeepsQuorum

(* A change of version costs no write (stopForUpgrade, restore.go): a      *)
(* cluster that clients can use holds all that they have ever written,     *)
(* however often calls fail, hosts are away and the leader crashes.  The   *)
(* hypotheses leave out what runs show to break it: an election over a     *)
(* leader that goes on (upgrade_leaders), and an AddCommand that reports   *)
(* an error although the control store has the command.                    *)
THEOREM WritesSurvive ==
    ASSUME "election" \notin Failures, "unknown" \notin Failures
    PROVE  Spec => []NoWriteLost
<1> USE HostsAreCounted
<1>1. TypeInv /\ UInv => NoWriteLost
  <2> SUFFICES ASSUME TypeInv, UInv, NEW c \in Clusters, Open(c) PROVE data[c] = written
    BY Zenon DEF NoWriteLost
  <2>1. PICK m \in Clusters, o \in Odd : Shape(m, o) /\ Kept(m)
    BY Zenon DEF UInv, Sound
  <2>2. c = m
    BY <2>1, SeesMain, Zenon DEF Open, Shape
  <2>3. ~ShutOut
    <3>1. PICK h \in Serving(c) : ~state[h].quarantined
      BY Zenon DEF Open
    <3>2. h \in Hosts /\ state[h] # None
      BY <3>1, Zenon DEF Serving, In, TypeInv, EtcdOK
    <3> QED
      BY <3>1, <3>2, Zenon DEF ShutOut
  <2> QED
    BY <2>1, <2>2, <2>3, Zenon DEF Kept, Stored
<1> QED
  BY <1>1, KeptAlways, PTL

(* From AddCommand to removeCommand no client can write, under the same    *)
(* hypotheses: what would be overwritten by the restore is never written.  *)
THEOREM CommandShutsOut ==
    ASSUME "election" \notin Failures, "unknown" \notin Failures
    PROVE  Spec => []CommandShutsClientsOut
<1> USE HostsAreCounted
<1>1. TypeInv /\ UInv => CommandShutsClientsOut
  <2> SUFFICES ASSUME TypeInv, UInv, commands # <<>>, NEW c \in Clusters PROVE ~Open(c)
    BY Zenon DEF CommandShutsClientsOut
  <2>1. ShutOut
    BY Zenon DEF UInv, Kept, Stored
  <2> QED
    BY <2>1, Zenon DEF ShutOut, Open, Serving, In, TypeInv, EtcdOK
<1> QED
  BY <1>1, KeptAlways, PTL
=============================================================================
