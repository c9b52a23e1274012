---------------------------- MODULE ResizeProofs ----------------------------
(***************************************************************************)
(* Proofs about Resize, for any hosts, any numbers of faults of any kinds  *)
(* and of changes of the spec.                                             *)
(*                                                                         *)
(* What a call relies on was decided at the beginning of the cycle, some   *)
(* steps before it is made.  The invariant says what is left of that       *)
(* decision: by which call the target's URL is known to be https, by which *)
(* the target is known to run no etcd, by which the old writes are in a    *)
(* backup, and how many members are left running without the one that is   *)
(* about to be removed.                                                    *)
(***************************************************************************)
EXTENDS Resize, FiniteSetTheorems, TLAPS

(* The members that would run without host h. *)
Rest(h) == (members \cap alive) \ {h}

(* Without h, all members run, or as many as were a quorum with h.         *)
SafeWithout(h) ==
    \/ Rest(h) = members \ {h}
    \/ Cardinality(Rest(h)) >= QuorumSize(Cardinality(members))

(* What each call knows of its target. *)
TargetKnown ==
    /\ pc # "idle" => target \in Hosts
    /\ pc = "url" => target \in members
    /\ pc = "tls" => target \in configured \cap https
    /\ pc \in {"add_backup", "prepare", "add", "join"} => target \notin configured

(* Only a host that was told to join runs an etcd, or has a member's name. *)
JoinedAreConfigured == named \cup alive \subseteq configured

BackedUp == pc \in {"prepare", "add", "remove"} => unsaved # "old"

RemovalIsSafe == calm /\ pc \in {"remove_backup", "remove"} => SafeWithout(target)

ResizeInv ==
    /\ ResizeTypeOK
    /\ TLSFollowsURL
    /\ JoinedAreConfigured
    /\ TargetKnown
    /\ BackedUp
    /\ RemovalIsSafe

-----------------------------------------------------------------------------
(* Sizes of sets of hosts                                                  *)

(* Sets of hosts are finite, and a larger one has no fewer hosts. *)
LEMMA HostSets ==
    ASSUME NEW S \in SUBSET Hosts, NEW R \in SUBSET S
    PROVE  /\ IsFiniteSet(S) /\ Cardinality(S) \in Nat
           /\ IsFiniteSet(R) /\ Cardinality(R) \in Nat
           /\ Cardinality(R) <= Cardinality(S)
<1>1. IsFiniteSet(S) /\ IsFiniteSet(R)
  BY ResizeAssumption, FS_Subset, Zenon
<1> QED
  BY <1>1, FS_Subset, FS_CardinalityType, Zenon

(* With a member that may go, more than one member in all, and the rest as *)
(* SafeWithout has it, the rest is a quorum of the members that are left.  *)
LEMMA QuorumWithout ==
    ASSUME ResizeTypeOK, NEW h \in members, members # {h}, SafeWithout(h)
    PROVE  Cardinality(Rest(h)) >= QuorumSize(Cardinality(members \ {h}))
<1> DEFINE n == Cardinality(members)
           left == Cardinality(members \ {h})
<1>1. members \in SUBSET Hosts /\ members \ {h} \in SUBSET members
  BY Zenon DEF ResizeTypeOK
<1>2. n \in Nat /\ left \in Nat /\ left <= n /\ IsFiniteSet(members \ {h})
  BY <1>1, HostSets, Zenon
<1>3. left # 0
  BY <1>2, FS_EmptySet
<1>4. CASE Rest(h) = members \ {h}
  <2>1. left >= QuorumSize(left)
    BY <1>2, <1>3 DEF QuorumSize
  <2> QED
    BY <1>4, <2>1, Zenon
<1>5. CASE Cardinality(Rest(h)) >= QuorumSize(n)
  <2>1. QuorumSize(left) <= QuorumSize(n) /\ QuorumSize(left) \in Nat /\ QuorumSize(n) \in Nat
    BY <1>2 DEF QuorumSize
  <2>2. Cardinality(Rest(h)) \in Nat
    BY <1>1, HostSets, Zenon DEF Rest
  <2> QED
    BY <1>5, <2>1, <2>2
<1> QED
  BY <1>4, <1>5, Zenon DEF SafeWithout

(* Etcds that start make no removal less safe. *)
LEMMA MoreRunning ==
    ASSUME ResizeTypeOK, NEW h, SafeWithout(h), members' = members, alive \subseteq alive'
    PROVE  SafeWithout(h)'
<1>1. Rest(h) \subseteq Rest(h)' /\ Rest(h)' \subseteq members \ {h}
  BY Zenon DEF Rest
<1>2. CASE Rest(h) = members \ {h}
  BY <1>1, <1>2, Zenon DEF SafeWithout
<1>3. CASE Cardinality(Rest(h)) >= QuorumSize(Cardinality(members))
  <2>1. members \in SUBSET Hosts /\ Rest(h)' \in SUBSET Hosts /\ Rest(h) \in SUBSET Rest(h)'
    BY <1>1, Zenon DEF ResizeTypeOK
  <2>2. /\ Cardinality(Rest(h)) \in Nat /\ Cardinality(Rest(h)') \in Nat
        /\ Cardinality(Rest(h)) <= Cardinality(Rest(h)')
    BY <2>1, HostSets, Zenon
  <2>3. QuorumSize(Cardinality(members)) \in Nat
    BY <2>1, HostSets DEF QuorumSize
  <2> QED
    BY <1>3, <2>2, <2>3 DEF SafeWithout
<1> QED
  BY <1>2, <1>3, Zenon DEF SafeWithout

-----------------------------------------------------------------------------
(* The decision of run()                                                   *)

(* One more fault is within the bound. *)
LEMMA FaultTypes ==
    ASSUME ResizeTypeOK, NEW kind, Fault(kind)
    PROVE  faults' \in 0..MaxFaults /\ calm' = FALSE /\ calm' \in BOOLEAN
<1>1. faults' \in 0..MaxFaults
  BY ResizeAssumption DEF ResizeTypeOK, Fault
<1>2. calm' = FALSE /\ calm' \in BOOLEAN
  BY Zenon DEF Fault
<1> QED
  BY <1>1, <1>2, Zenon

(* What a cycle that sets out on a plan knows of the plan's host.          *)
LEMMA PlanFacts ==
    ASSUME ResizeTypeOK, NEW H \in SUBSET members, NEW plan \in Plans(H)
    PROVE  /\ plan[1] \in {"add_backup", "remove_backup", "url", "tls"}
           /\ plan[2] \in Hosts
           /\ plan[1] = "add_backup" => plan[2] \notin configured
           /\ plan[1] = "url" => plan[2] \in members
           /\ plan[1] = "tls" => plan[2] \in configured \cap https
           /\ plan[1] = "remove_backup" => plan[2] \notin H \/ H = members
<1>1. CASE plan \in {"add_backup"} \X Joiners(H)
  BY <1>1, Zenon DEF ResizeTypeOK, Joiners, IdlePeers
<1>2. CASE plan \in {"remove_backup"} \X Victims(H)
  BY <1>2, Zenon DEF ResizeTypeOK, Victims
<1>3. CASE plan \in {"remove_backup"} \X (suspect \ H)
  BY <1>3, Zenon DEF ResizeTypeOK
<1>4. CASE plan \in {"url"} \X NeedURL
  BY <1>4, Zenon DEF ResizeTypeOK, NeedURL, ConfiguredPeers
<1>5. CASE plan \in {"tls"} \X NeedTLS
  BY <1>5, Zenon DEF ResizeTypeOK, NeedTLS, ConfiguredPeers
<1> QED
  BY <1>1, <1>2, <1>3, <1>4, <1>5, Zenon DEF Plans

LEMMA BeginCycleKeeps ==
    ASSUME ResizeInv, NEW H \in SUBSET members, BeginCycle(H)
    PROVE  ResizeInv'
<1> USE DEF ResizeInv
<1>1. \/ pc' = "idle" /\ target' = target
      \/ \E plan \in Plans(H) : pc' = plan[1] /\ target' = plan[2]
  BY Zenon DEF BeginCycle
<1>2. /\ pc' \in {"idle", "add_backup", "remove_backup", "url", "tls"}
      /\ pc' # "idle" => target' \in Hosts
      /\ pc' = "add_backup" => target' \notin configured
      /\ pc' = "url" => target' \in members
      /\ pc' = "tls" => target' \in configured \cap https
      /\ pc' = "remove_backup" => target' \notin H \/ H = members
      /\ target' \in Hosts \cup {None}
  BY <1>1, PlanFacts DEF ResizeTypeOK
<1>3. UNCHANGED <<members, named, alive, https, up, prepared, configured, secure, count, specs>>
  BY Zenon DEF BeginCycle, etcdVars, hostVars
<1>4. ResizeTypeOK'
  <2>1. faults' \in 0..MaxFaults /\ calm' \in BOOLEAN
    BY FaultTypes, Zenon DEF ResizeTypeOK, BeginCycle
  <2>2. suspect' \subseteq Hosts /\ unsaved' \in Ages
    BY Zenon DEF ResizeTypeOK, BeginCycle, Ages
  <2> QED
    BY <1>2, <1>3, <2>1, <2>2, Zenon DEF ResizeTypeOK, Calls
<1>5. TLSFollowsURL' /\ JoinedAreConfigured' /\ TargetKnown' /\ BackedUp'
  BY <1>2, <1>3, Zenon DEF TLSFollowsURL, JoinedAreConfigured, TargetKnown, BackedUp
<1>6. ASSUME calm', pc' = "remove_backup"
      PROVE  SafeWithout(target')
  <2>1. H = Healthy /\ H = members \cap alive /\ H # {}
    BY <1>6, Zenon DEF BeginCycle, Fault
  <2>2. Cardinality(H) >= QuorumSize(Cardinality(members))
    BY <2>1, Zenon DEF Healthy, HasQuorum
  <2>3. target' \notin H \/ H = members
    BY <1>2, <1>6, Zenon
  <2>4. CASE target' \notin H
    <3>1. Rest(target') = H
      BY <2>1, <2>4, Zenon DEF Rest
    <3> QED
      BY <2>2, <3>1, Zenon DEF SafeWithout
  <2>5. CASE H = members
    BY <2>1, <2>5, Zenon DEF SafeWithout, Rest
  <2> QED
    BY <2>3, <2>4, <2>5, Zenon
<1>7. RemovalIsSafe'
  BY <1>2, <1>3, <1>6, Zenon DEF RemovalIsSafe, SafeWithout, Rest
<1> QED
  BY <1>4, <1>5, <1>7, Zenon

-----------------------------------------------------------------------------
(* The calls of addNodeToCluster and removeNodeFromCluster                 *)

(* A call that returns to the idle loop, and may have had a fault, can     *)
(* only disturb the types, TLSFollowsURL and JoinedAreConfigured.          *)
LEMMA ReturnKeeps ==
    ASSUME Return
    PROVE  TargetKnown' /\ BackedUp' /\ RemovalIsSafe'
BY Zenon DEF Return, TargetKnown, BackedUp, RemovalIsSafe

(* The fault counter and the history variable calm of any call. *)
LEMMA CallTypes ==
    ASSUME ResizeTypeOK, NEW kind, NoFault \/ Fault(kind)
    PROVE  faults' \in 0..MaxFaults /\ calm' \in BOOLEAN /\ (calm' => calm)
<1>1. CASE NoFault
  <2>1. faults' = faults /\ calm' = calm
    BY <1>1, Zenon DEF NoFault
  <2> QED
    BY <2>1, Zenon DEF ResizeTypeOK
<1>2. CASE Fault(kind)
  BY <1>2, FaultTypes, Zenon
<1> QED
  BY <1>1, <1>2, Zenon

LEMMA BackupKeeps ==
    ASSUME ResizeInv, AddBackup \/ RemoveBackup
    PROVE  ResizeInv'
<1> USE DEF ResizeInv
<1>1. UNCHANGED <<members, named, alive, https, up, prepared, configured, secure, count, suspect, specs>>
  BY Zenon DEF AddBackup, RemoveBackup, etcdVars, hostVars
<1>2. \/ /\ \/ pc = "add_backup" /\ pc' = "prepare"
            \/ pc = "remove_backup" /\ pc' = "remove"
         /\ unsaved' = "none" /\ target' = target /\ NoFault
      \/ Return /\ unsaved' = unsaved /\ (NoFault \/ Fault("backup"))
  BY Zenon DEF AddBackup, RemoveBackup, Backup
<1>3. faults' \in 0..MaxFaults /\ calm' \in BOOLEAN /\ (calm' => calm)
  BY <1>2, CallTypes, Zenon
<1>4. ResizeTypeOK' /\ TLSFollowsURL' /\ JoinedAreConfigured'
  BY <1>1, <1>2, <1>3, Zenon DEF ResizeTypeOK, Return, Calls, Ages, TLSFollowsURL, JoinedAreConfigured
<1>5. TargetKnown' /\ BackedUp' /\ RemovalIsSafe'
  BY <1>1, <1>2, <1>3, ReturnKeeps, Zenon DEF TargetKnown, BackedUp, RemovalIsSafe, SafeWithout, Rest
<1> QED
  BY <1>4, <1>5, Zenon

LEMMA PrepareKeeps ==
    ASSUME ResizeInv, Prepare
    PROVE  ResizeInv'
<1> USE DEF ResizeInv
<1>1. UNCHANGED <<members, named, alive, https, up, configured, secure, count, suspect, unsaved, specs>>
  BY Zenon DEF Prepare, etcdVars, hostVars
<1>2. /\ pc = "prepare"
      /\ prepared' \subseteq up
      /\ (pc' = "add" /\ target' = target) \/ Return
      /\ NoFault \/ Fault("call")
  BY Zenon DEF Prepare, ResizeTypeOK
<1>3. faults' \in 0..MaxFaults /\ calm' \in BOOLEAN
  BY <1>2, CallTypes, Zenon
<1>4. ResizeTypeOK' /\ TLSFollowsURL' /\ JoinedAreConfigured'
  BY <1>1, <1>2, <1>3, Zenon DEF ResizeTypeOK, Return, Calls, TLSFollowsURL, JoinedAreConfigured
<1>5. TargetKnown' /\ BackedUp' /\ RemovalIsSafe'
  BY <1>1, <1>2, ReturnKeeps, Zenon DEF TargetKnown, BackedUp, RemovalIsSafe
<1> QED
  BY <1>4, <1>5, Zenon

LEMMA AddMemberKeeps ==
    ASSUME ResizeInv, AddMember
    PROVE  ResizeInv'
<1> USE DEF ResizeInv
<1>1. UNCHANGED <<named, alive, up, configured, secure, count, suspect, unsaved, specs>>
  BY Zenon DEF AddMember, hostVars
<1>2. /\ pc = "add" /\ target \in Hosts
      /\ prepared' \subseteq prepared
      /\ \/ /\ members' = members \cup {target} /\ https' = https \cup ({target} \ Plain)
            /\ pc' = "join" /\ target' = target
         \/ Return /\ UNCHANGED <<members, https>>
      /\ NoFault \/ Fault("refused")
  BY Zenon DEF AddMember, TargetKnown
<1>3. faults' \in 0..MaxFaults /\ calm' \in BOOLEAN
  BY <1>2, CallTypes, Zenon
<1>4. ResizeTypeOK' /\ TLSFollowsURL' /\ JoinedAreConfigured'
  BY <1>1, <1>2, <1>3, Zenon DEF ResizeTypeOK, Return, Calls, TLSFollowsURL, JoinedAreConfigured
<1>5. TargetKnown' /\ BackedUp' /\ RemovalIsSafe'
  BY <1>1, <1>2, ReturnKeeps, Zenon DEF TargetKnown, BackedUp, RemovalIsSafe
<1> QED
  BY <1>4, <1>5, Zenon

(* The request to join is for TLS, and made to a host that has no etcd. *)
LEMMA JoinKeeps ==
    ASSUME ResizeInv, Join
    PROVE  ResizeInv'
<1> USE DEF ResizeInv
<1>1. UNCHANGED <<members, named, alive, https, up, count, suspect, unsaved, specs>>
  BY Zenon DEF Join, etcdVars
<1>2. /\ target \in Hosts /\ target \notin named \cup alive
      /\ prepared' \subseteq prepared
      /\ \/ configured' = configured \cup {target} /\ secure' = secure \cup {target}
         \/ UNCHANGED <<configured, secure>>
      /\ NoFault \/ Fault("call")
      /\ Return
  BY Zenon DEF Join, TargetKnown, JoinedAreConfigured
<1>3. faults' \in 0..MaxFaults /\ calm' \in BOOLEAN
  BY <1>2, CallTypes, Zenon
<1>4. ResizeTypeOK' /\ TLSFollowsURL' /\ JoinedAreConfigured'
  BY <1>1, <1>2, <1>3, Zenon DEF ResizeTypeOK, Return, Calls, TLSFollowsURL, JoinedAreConfigured
<1> QED
  BY <1>2, <1>4, ReturnKeeps, Zenon

LEMMA RemoveMemberKeeps ==
    ASSUME ResizeInv, RemoveMember
    PROVE  ResizeInv'
<1> USE DEF ResizeInv
<1>1. UNCHANGED <<up, prepared, configured, secure, count, suspect, unsaved, specs>> /\ Return
  BY Zenon DEF RemoveMember, hostVars
<1>2. /\ \/ /\ members' = members \ {target} /\ named' = named \ {target}
            /\ alive' = alive \ {target} /\ https' = https \ {target}
         \/ UNCHANGED <<members, named, alive, https>>
      /\ NoFault \/ Fault("refused")
  BY Zenon DEF RemoveMember, etcdVars
<1>3. faults' \in 0..MaxFaults /\ calm' \in BOOLEAN
  BY <1>2, CallTypes, Zenon
<1>4. ResizeTypeOK' /\ TLSFollowsURL' /\ JoinedAreConfigured'
  BY <1>1, <1>2, <1>3, Zenon DEF ResizeTypeOK, Return, Calls, TLSFollowsURL, JoinedAreConfigured
<1> QED
  BY <1>1, <1>4, ReturnKeeps, Zenon

-----------------------------------------------------------------------------
(* reconcileTLS                                                            *)

LEMMA SetPeerURLsKeeps ==
    ASSUME ResizeInv, SetPeerURLs
    PROVE  ResizeInv'
<1> USE DEF ResizeInv
<1>1. /\ UNCHANGED <<members, named, alive, up, prepared, configured, secure, count, suspect, unsaved, specs>>
      /\ Return
  BY Zenon DEF SetPeerURLs, hostVars
<1>2. /\ target \in members
      /\ https' = https \cup {target} \/ https' = https
      /\ NoFault \/ Fault("refused")
  BY Zenon DEF SetPeerURLs, TargetKnown
<1>3. faults' \in 0..MaxFaults /\ calm' \in BOOLEAN
  BY <1>2, CallTypes, Zenon
<1>4. ResizeTypeOK' /\ TLSFollowsURL' /\ JoinedAreConfigured'
  BY <1>1, <1>2, <1>3, Zenon DEF ResizeTypeOK, Return, Calls, TLSFollowsURL, JoinedAreConfigured
<1> QED
  BY <1>1, <1>4, ReturnKeeps, Zenon

LEMMA EnableTLSKeeps ==
    ASSUME ResizeInv, EnableTLS
    PROVE  ResizeInv'
<1> USE DEF ResizeInv
<1>1. /\ UNCHANGED <<members, named, https, up, prepared, configured, count, suspect, unsaved, specs>>
      /\ Return
  BY Zenon DEF EnableTLS
<1>2. /\ target \in configured /\ target \in https
      /\ \/ secure' = secure \cup {target} /\ alive' = alive \ {target}
         \/ UNCHANGED <<secure, alive>>
      /\ NoFault \/ Fault("call")
  BY Zenon DEF EnableTLS, TargetKnown
<1>3. faults' \in 0..MaxFaults /\ calm' \in BOOLEAN
  BY <1>2, CallTypes, Zenon
<1>4. ResizeTypeOK' /\ TLSFollowsURL' /\ JoinedAreConfigured'
  BY <1>1, <1>2, <1>3, Zenon DEF ResizeTypeOK, Return, Calls, TLSFollowsURL, JoinedAreConfigured
<1> QED
  BY <1>1, <1>4, ReturnKeeps, Zenon

-----------------------------------------------------------------------------
(* What happens around the leader                                          *)

LEMMA EtcdComesKeeps ==
    ASSUME ResizeInv, NEW h \in Hosts, EtcdStarts(h) \/ EtcdPublishes(h) \/ HostReturns(h)
    PROVE  ResizeInv'
<1> USE DEF ResizeInv
<1>1. /\ UNCHANGED <<members, https, configured, secure, count, pc, target, suspect,
                     unsaved, calm, faults, specs>>
      /\ alive \subseteq alive'
      /\ named' \subseteq members /\ alive' \subseteq up' /\ up' \subseteq Hosts
      /\ prepared' \subseteq up'
      /\ named' \cup alive' \subseteq configured
      /\ (named' \cup alive') \cap secure \subseteq https
  BY Zenon DEF EtcdStarts, EtcdPublishes, HostReturns, etcdVars, hostVars, loopVars, ResizeTypeOK,
                JoinedAreConfigured, TLSFollowsURL
<1>2. ResizeTypeOK' /\ TLSFollowsURL' /\ JoinedAreConfigured' /\ TargetKnown' /\ BackedUp'
  BY <1>1, Zenon DEF ResizeTypeOK, TLSFollowsURL, JoinedAreConfigured, TargetKnown, BackedUp
<1>3. RemovalIsSafe'
  BY <1>1, MoreRunning, Zenon DEF RemovalIsSafe, SafeWithout, Rest
<1> QED
  BY <1>2, <1>3, Zenon

LEMMA FaultKeeps ==
    ASSUME ResizeInv, (\E h \in Hosts : HostFails(h) \/ EtcdExits(h)) \/ LeaderCrashes
    PROVE  ResizeInv'
<1> USE DEF ResizeInv
<1>1. /\ UNCHANGED <<members, named, https, configured, secure, count, unsaved, specs>>
      /\ \/ UNCHANGED <<pc, target, suspect>>
         \/ Return /\ suspect' = {}
      /\ alive' \subseteq up' /\ alive' \subseteq alive /\ up' \subseteq Hosts
      /\ prepared' \subseteq up'
      /\ \E kind \in Failures : Fault(kind)
  BY Zenon DEF HostFails, EtcdExits, LeaderCrashes, etcdVars, hostVars, loopVars, Fault, ResizeTypeOK
<1>2. faults' \in 0..MaxFaults /\ calm' = FALSE /\ calm' \in BOOLEAN
  BY <1>1, FaultTypes, Zenon
<1>3. ResizeTypeOK' /\ TLSFollowsURL' /\ JoinedAreConfigured'
  BY <1>1, <1>2, Zenon DEF ResizeTypeOK, Return, Calls, TLSFollowsURL, JoinedAreConfigured
<1>4. TargetKnown' /\ BackedUp' /\ RemovalIsSafe'
  BY <1>1, <1>2, Zenon DEF Return, TargetKnown, BackedUp, RemovalIsSafe
<1> QED
  BY <1>3, <1>4, Zenon

LEMMA PreparationExpiresKeeps ==
    ASSUME ResizeInv, NEW h \in Hosts, PreparationExpires(h)
    PROVE  ResizeInv'
<1> USE DEF ResizeInv
<1>1. /\ UNCHANGED <<members, named, alive, https, up, configured, secure, count, pc, target, suspect,
                     unsaved, specs>>
      /\ prepared' \subseteq prepared
      /\ NoFault \/ Fault("expiry")
  BY Zenon DEF PreparationExpires, etcdVars, loopVars
<1>2. faults' \in 0..MaxFaults /\ calm' \in BOOLEAN /\ (calm' => calm)
  BY <1>1, CallTypes, Zenon
<1>3. ResizeTypeOK' /\ TLSFollowsURL' /\ JoinedAreConfigured'
  BY <1>1, <1>2, Zenon DEF ResizeTypeOK, TLSFollowsURL, JoinedAreConfigured
<1>4. TargetKnown' /\ BackedUp' /\ RemovalIsSafe'
  BY <1>1, <1>2, Zenon DEF TargetKnown, BackedUp, RemovalIsSafe, SafeWithout, Rest
<1> QED
  BY <1>3, <1>4, Zenon

LEMMA OutsideKeeps ==
    ASSUME ResizeInv, ClientWrites \/ \E n \in Counts : SetClusterSpec(n)
    PROVE  ResizeInv'
<1> USE DEF ResizeInv
<1>1. /\ UNCHANGED <<members, named, alive, https, up, prepared, configured, secure, pc, target, suspect,
                     calm, faults>>
      /\ unsaved' = unsaved \/ unsaved' = "recent"
      /\ count' \in Counts
  BY Zenon DEF ClientWrites, SetClusterSpec, etcdVars, hostVars, loopVars, ResizeTypeOK
<1>2. specs' \in 0..MaxSpecs
  BY ResizeAssumption DEF ClientWrites, SetClusterSpec, ResizeTypeOK
<1>3. ResizeTypeOK' /\ TLSFollowsURL' /\ JoinedAreConfigured'
  BY <1>1, <1>2, Zenon DEF ResizeTypeOK, Ages, TLSFollowsURL, JoinedAreConfigured
<1>4. TargetKnown' /\ BackedUp' /\ RemovalIsSafe'
  BY <1>1, Zenon DEF TargetKnown, BackedUp, RemovalIsSafe, SafeWithout, Rest
<1> QED
  BY <1>3, <1>4, Zenon

-----------------------------------------------------------------------------

LEMMA ResizeInit == Init => ResizeInv
<1> SUFFICES ASSUME Init PROVE ResizeInv
  BY Zenon
<1>1. /\ members \subseteq Hosts /\ count \in Counts
      /\ faults \in 0..MaxFaults /\ specs \in 0..MaxSpecs
  BY ResizeAssumption DEF Init
<1>2. calm \in BOOLEAN
  BY Zenon DEF Init
<1>3. ResizeTypeOK
  BY <1>1, <1>2, Zenon DEF Init, ResizeTypeOK, Calls, Ages
<1> QED
  BY <1>3, Zenon DEF Init, ResizeInv, TLSFollowsURL, JoinedAreConfigured, TargetKnown, BackedUp, RemovalIsSafe

LEMMA ResizeNext == ResizeInv /\ [Next]_vars => ResizeInv'
<1> SUFFICES ASSUME ResizeInv, [Next]_vars PROVE ResizeInv'
  BY Zenon
<1>1. CASE UNCHANGED vars
  BY <1>1, Zenon DEF vars, etcdVars, hostVars, loopVars, ResizeInv, ResizeTypeOK, TLSFollowsURL,
              JoinedAreConfigured, TargetKnown,
              BackedUp, RemovalIsSafe, SafeWithout, Rest
<1>2. CASE SeesNoMembers
  BY <1>1, <1>2, Zenon DEF SeesNoMembers
<1>3. CASE Control
  BY <1>2, <1>3, BeginCycleKeeps, BackupKeeps, PrepareKeeps, AddMemberKeeps, JoinKeeps,
     RemoveMemberKeeps, SetPeerURLsKeeps, EnableTLSKeeps, Zenon DEF Control
<1> QED
  BY <1>1, <1>3, EtcdComesKeeps, FaultKeeps, PreparationExpiresKeeps, OutsideKeeps, Zenon DEF Next

(* "We update the peerURLs first": in every reachable state, with any      *)
(* faults between the calls of reconcileTLS and addNodeToCluster and any   *)
(* hosts with an http URL of their own, an etcd that has joined and whose  *)
(* node has TlsEnabled is one that the others dial with https.             *)
THEOREM TLSFollowsTheURL == Spec => []TLSFollowsURL
<1>1. ResizeInv => TLSFollowsURL
  BY Zenon DEF ResizeInv
<1> QED
  BY <1>1, ResizeInit, ResizeNext, PTL DEF Spec

(* "Force a backup first": addNodeToCluster and removeNodeFromCluster      *)
(* change the membership of etcd only when every write that is older than  *)
(* the cycle is in a backup.                                               *)
THEOREM MembershipChangesAreBackedUp == Spec => ChangesAreBackedUp
<1>1. ResizeInv /\ [Next]_vars => [members' # members => unsaved # "old"]_vars
  <2> SUFFICES ASSUME ResizeInv, Next, members' # members
               PROVE  unsaved # "old"
    BY Zenon
  <2>1. AddMember \/ RemoveMember
    BY Zenon DEF Next, Control, BeginCycle, SeesNoMembers, AddBackup, Prepare, Join, RemoveBackup,
           SetPeerURLs, EnableTLS, PreparationExpires, EtcdStarts, EtcdPublishes, HostFails, HostReturns, EtcdExits,
           LeaderCrashes, ClientWrites, SetClusterSpec, etcdVars, vars
  <2> QED
    BY <2>1, Zenon DEF AddMember, RemoveMember, ResizeInv, BackedUp
<1> QED
  BY <1>1, ResizeInit, ResizeNext, PTL DEF Spec, ChangesAreBackedUp

(* removeNodeFromCluster never costs etcd its quorum when the leader has   *)
(* seen which members run and nothing has failed since: what is left after *)
(* the removal is a quorum of the smaller cluster.                         *)
THEOREM RemovalsKeepQuorum == Spec => RemovalKeepsQuorum
<1>1. ResizeInv /\ [Next]_vars =>
        [(calm /\ Cardinality(members') < Cardinality(members)) => HasQuorum']_vars
  <2> SUFFICES ASSUME ResizeInv, Next, calm, Cardinality(members') < Cardinality(members)
               PROVE  HasQuorum'
    BY Zenon
  <2>1. ResizeTypeOK /\ members \in SUBSET Hosts
    BY Zenon DEF ResizeInv, ResizeTypeOK
  <2>2. members' # members
    BY <2>1, HostSets
  <2>3. ~AddMember
    <3> SUFFICES ASSUME AddMember PROVE FALSE
      BY Zenon
    <3>1. members \subseteq members' /\ members' \subseteq Hosts
      BY Zenon DEF AddMember, ResizeInv, ResizeTypeOK, TargetKnown
    <3>2. /\ Cardinality(members) \in Nat /\ Cardinality(members') \in Nat
          /\ Cardinality(members) <= Cardinality(members')
      BY <3>1, HostSets, Zenon
    <3> QED
      BY <3>2
  <2>4. RemoveMember
    BY <2>2, <2>3, Zenon
       DEF Next, Control, BeginCycle, SeesNoMembers, AddBackup, Prepare, Join, RemoveBackup,
           SetPeerURLs, EnableTLS, PreparationExpires, EtcdStarts, EtcdPublishes, HostFails, HostReturns, EtcdExits,
           LeaderCrashes, ClientWrites, SetClusterSpec, etcdVars, vars
  <2>5. /\ target \in members /\ members # {target} /\ SafeWithout(target)
        /\ members' = members \ {target} /\ alive' = alive \ {target}
    BY <2>2, <2>4, Zenon DEF RemoveMember, etcdVars, ResizeInv, RemovalIsSafe
  <2>6. members' \cap alive' = Rest(target)
    BY <2>5, Zenon DEF Rest
  <2>7. Cardinality(Rest(target)) >= QuorumSize(Cardinality(members \ {target}))
    BY <2>1, <2>5, QuorumWithout, Zenon
  <2> QED
    BY <2>5, <2>6, <2>7, Zenon DEF HasQuorum
<1> QED
  BY <1>1, ResizeInit, ResizeNext, PTL DEF Spec, RemovalKeepsQuorum

(* Whatever fails between the calls, the leader's and etcd's view of the   *)
(* cluster keep their shape: only members have names and https URLs, only  *)
(* hosts that are up run an etcd, and only configured ones have TLS.       *)
THEOREM ResizeTypes == Spec => []ResizeTypeOK
<1>1. ResizeInv => ResizeTypeOK
  BY Zenon DEF ResizeInv
<1> QED
  BY <1>1, ResizeInit, ResizeNext, PTL DEF Spec
=============================================================================
