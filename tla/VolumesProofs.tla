--------------------------- MODULE VolumesProofs ---------------------------
(***************************************************************************)
(* That no two machines run as the same etcd node, that a process waits    *)
(* for no disk but its own, and that a machine takes one disk where        *)
(* nothing goes wrong: for any numbers of machines, disks, zones and       *)
(* faults, and for all providers.                                          *)
(*                                                                         *)
(* A process gets to run as a node only through safeFormatAndMount, which  *)
(* sees the device of the disk.  VolumesInv is inductive because from then *)
(* on nothing takes the disk away but the end of the machine: a request of *)
(* another machine is granted for a free disk only, and the cloud gives up *)
(* only on what it has not attached yet.                                   *)
(*                                                                         *)
(* ClaimsInv adds what a process may rely on before that: the disks that   *)
(* it takes for attached are its machine's, it asks for disks of its zone  *)
(* only, and, until the first fault, only while its machine has none.      *)
(*                                                                         *)
(* TypesInv is what is left of the types.                                  *)
(***************************************************************************)
EXTENDS Volumes, TLAPS

Running == {"mounted", "start", "up"}

(* A process, which knows of disks only; device and names play no part.    *)
IsProc(p) ==
    /\ p \in [pc : {p.pc}, todo : SUBSET Disks, mine : SUBSET Disks, disk : {p.disk},
              device : {p.device}, names : {p.names}]
    /\ p.pc \in {"wait", "mount"} \cup Running => p.disk \in Disks

(* A process that does not run as a node.                                  *)
Calm(p) == IsProc(p) /\ p.pc \notin Running

CloudStates == [to : Machines \cup {None}, phase : {"free", "asked", "listed", "there"}]

VolumesInv ==
    /\ provider \in Providers
    /\ cloud \in [Disks -> CloudStates]
    /\ DOMAIN proc = Machines
    /\ proc = [m \in Machines |-> proc[m]]
    /\ \A m \in Machines : IsProc(proc[m])
    /\ NodeOwnsDisk

----------------------------------------------------------------------------
(* What the operators that give a process its next state make of it.       *)

LEMMA StartedIsCalm == Calm(Started)
BY Zenon DEF Calm, IsProc, Started, Running

LEMMA FailedIsCalm ==
    ASSUME VolumesInv, NEW m \in Machines, NEW d
    PROVE  Calm(Failed(m, d)) /\ Failed(m, d).pc = "pick"
<1> DEFINE p == proc[m]
<1>1. IsProc(p)
  BY Zenon DEF VolumesInv
<1>2. /\ Failed(m, d).pc = "pick" /\ Failed(m, d).disk = None
      /\ Failed(m, d) \in [pc : {"pick"}, todo : SUBSET Disks, mine : SUBSET Disks,
                           disk : {None}, device : {p.device}, names : {p.names}]
  BY <1>1, Zenon DEF Failed, IsProc
<1> QED
  BY <1>2, Zenon DEF Calm, IsProc, Running

LEMMA GotIsCalm ==
    ASSUME VolumesInv, NEW m \in Machines, NEW d \in Disks
    PROVE  Calm(Got(m, d))
<1> DEFINE p == Failed(m, d)
<1>1. IsProc(p) /\ p.pc = "pick"
  BY FailedIsCalm, Zenon DEF Calm
<1> HIDE DEF p
<1> DEFINE mine == p.mine \cup {d}
           q == [p EXCEPT !.mine = mine]
<1>2. mine \in SUBSET Disks
  BY <1>1, Zenon DEF IsProc
<1> HIDE DEF mine
<1>3. /\ q.pc = p.pc /\ q.disk = p.disk
      /\ q \in [pc : {p.pc}, todo : SUBSET Disks, mine : SUBSET Disks,
               disk : {p.disk}, device : {p.device}, names : {p.names}]
  BY <1>1, <1>2, Zenon DEF IsProc
<1>4. Got(m, d) = q
  BY Zenon DEF Got, p, mine
<1> HIDE DEF q
<1> QED
  BY <1>1, <1>3, <1>4, Zenon DEF Calm, IsProc, Running

LEMMA WaitingIsCalm ==
    ASSUME VolumesInv, NEW m \in Machines, NEW d \in Disks
    PROVE  Calm(Waiting(m, d))
<1> DEFINE p == proc[m]
<1>1. IsProc(p)
  BY Zenon DEF VolumesInv
<1>2. /\ Waiting(m, d).pc = "wait" /\ Waiting(m, d).disk = d
      /\ Waiting(m, d) \in [pc : {"wait"}, todo : SUBSET Disks, mine : SUBSET Disks,
                            disk : {d}, device : {p.device}, names : {p.names}]
  BY <1>1, Zenon DEF Waiting, IsProc
<1> QED
  BY <1>2, Zenon DEF Calm, IsProc, Running

(* aws: a process that has reserved or released names of devices.          *)
LEMMA NamesAreCalm ==
    ASSUME NEW p, Calm(p), NEW n, NEW names
    PROVE  /\ Calm([p EXCEPT !.device = n, !.names = names])
           /\ Calm([p EXCEPT !.names = names])
           /\ Calm(releaseDevice(p))
<1>1. ASSUME NEW q, q.pc = p.pc, q.disk = p.disk, NEW x, NEW y,
             q \in [pc : {p.pc}, todo : SUBSET Disks, mine : SUBSET Disks,
                   disk : {p.disk}, device : {x}, names : {y}]
      PROVE  Calm(q)
  BY <1>1, Zenon DEF Calm, IsProc, Running
<1>2. Calm([p EXCEPT !.device = n, !.names = names])
  <2> DEFINE q == [p EXCEPT !.device = n, !.names = names]
  <2>1. /\ q.pc = p.pc /\ q.disk = p.disk
        /\ q \in [pc : {p.pc}, todo : SUBSET Disks, mine : SUBSET Disks,
                 disk : {p.disk}, device : {n}, names : {names}]
    BY Zenon DEF Calm, IsProc
  <2> HIDE DEF q
  <2>2. Calm(q)
    BY <1>1, <2>1, Zenon
  <2> QED
    BY <2>2, Zenon DEF q
<1>3. ASSUME NEW y
      PROVE  Calm([p EXCEPT !.names = y])
  <2> DEFINE q == [p EXCEPT !.names = y]
  <2>1. /\ q.pc = p.pc /\ q.disk = p.disk
        /\ q \in [pc : {p.pc}, todo : SUBSET Disks, mine : SUBSET Disks,
                 disk : {p.disk}, device : {p.device}, names : {y}]
    BY Zenon DEF Calm, IsProc
  <2> HIDE DEF q
  <2>2. Calm(q)
    BY <1>1, <2>1, Zenon
  <2> QED
    BY <2>2, Zenon DEF q
<1>4. releaseDevice(p) = [p EXCEPT !.names = [p.names EXCEPT ![p.device] = None]]
  BY Zenon DEF releaseDevice
<1> QED
  BY <1>2, <1>3, <1>4, Zenon

(* The change of pc, and of nothing else.                                  *)
WithPc(p, pc) == [p EXCEPT !.pc = pc]

LEMMA WithPcFacts ==
    ASSUME NEW p, IsProc(p), NEW pc
    PROVE  /\ WithPc(p, pc).pc = pc /\ WithPc(p, pc).disk = p.disk
           /\ (pc \in {"wait", "mount"} \cup Running => p.disk \in Disks) => IsProc(WithPc(p, pc))
<1>1. /\ WithPc(p, pc).pc = pc /\ WithPc(p, pc).disk = p.disk
      /\ WithPc(p, pc) \in [pc : {pc}, todo : SUBSET Disks, mine : SUBSET Disks,
                            disk : {p.disk}, device : {p.device}, names : {p.names}]
  BY Zenon DEF WithPc, IsProc
<1> QED
  BY <1>1, Zenon DEF IsProc, Running

(* The list of volumes, as attachMasterVolumes takes it.                   *)
Listed(p, todo, mine) == [p EXCEPT !.pc = "pick", !.todo = todo, !.mine = mine]

LEMMA ListedIsCalm ==
    ASSUME NEW p, IsProc(p), NEW todo \in SUBSET Disks, NEW mine \in SUBSET Disks
    PROVE  Calm(Listed(p, todo, mine))
<1>1. /\ Listed(p, todo, mine).pc = "pick"
      /\ Listed(p, todo, mine).disk = p.disk
      /\ Listed(p, todo, mine) \in [pc : {"pick"}, todo : SUBSET Disks, mine : SUBSET Disks,
                                    disk : {p.disk}, device : {p.device}, names : {p.names}]
  BY Zenon DEF Listed, IsProc
<1> QED
  BY <1>1, Zenon DEF Calm, IsProc, Running

LEMMA MountNextIsCalm ==
    ASSUME NEW p, IsProc(p), NEW left \in SUBSET Disks, NEW q \in MountNext(p, left)
    PROVE  Calm(q)
<1>1. CASE left = {}
  <2>1. q = [p EXCEPT !.pc = "list", !.mine = {}, !.disk = None]
    BY <1>1, Zenon DEF MountNext
  <2>2. /\ q.pc = "list" /\ q.disk = None
        /\ q \in [pc : {"list"}, todo : SUBSET Disks, mine : SUBSET Disks,
                 disk : {None}, device : {p.device}, names : {p.names}]
    BY <2>1, Zenon DEF IsProc
  <2> QED
    BY <2>2, Zenon DEF Calm, IsProc, Running
<1>2. CASE left # {}
  <2>1. PICK d \in left : q = [p EXCEPT !.pc = "mount", !.todo = {}, !.mine = left, !.disk = d]
    BY <1>2, Zenon DEF MountNext
  <2>2. /\ q.pc = "mount" /\ q.disk = d
        /\ q \in [pc : {"mount"}, todo : SUBSET Disks, mine : SUBSET Disks,
                 disk : {d}, device : {p.device}, names : {p.names}]
    BY <2>1, Zenon DEF IsProc
  <2> QED
    BY <2>2, Zenon DEF Calm, IsProc, Running
<1> QED
  BY <1>1, <1>2, Zenon

----------------------------------------------------------------------------
(* A step that leaves machine m without a node, and takes no disk that is  *)
(* there from any machine but m.                                           *)
LEMMA CalmStep ==
    ASSUME VolumesInv, NEW m \in Machines, NEW p, Calm(p), Set(m, p),
           UNCHANGED provider, cloud' \in [Disks -> CloudStates],
           \A d \in Disks : cloud[d].phase = "there" /\ cloud[d].to # m => cloud'[d] = cloud[d]
    PROVE  VolumesInv'
<1>1. /\ DOMAIN proc' = Machines /\ proc' = [n \in Machines |-> proc'[n]]
      /\ proc'[m] = p /\ \A n \in Machines \ {m} : proc'[n] = proc[n]
  BY Zenon DEF VolumesInv, Set
<1>2. \A n \in Machines : IsProc(proc'[n])
  BY <1>1, Zenon DEF VolumesInv, Calm
<1>3. ASSUME NEW n \in Machines, proc'[n].pc \in Running
      PROVE  cloud'[proc'[n].disk] = [to |-> n, phase |-> "there"]
  <2>1. n # m /\ proc'[n] = proc[n]
    BY <1>1, <1>3, Zenon DEF Calm
  <2>2. proc[n].disk \in Disks
    BY <1>3, <2>1, Zenon DEF VolumesInv, IsProc
  <2>3. cloud[proc[n].disk] = [to |-> n, phase |-> "there"]
    BY <1>3, <2>1, Zenon DEF VolumesInv, NodeOwnsDisk, Running
  <2> QED
    BY <2>1, <2>2, <2>3
<1>4. NodeOwnsDisk'
  BY <1>3, Zenon DEF NodeOwnsDisk, Running
<1> QED
  BY <1>1, <1>2, <1>4, Zenon DEF VolumesInv

(* What a process may do to the cloud while it has no node.                *)
LEMMA AsksKeeps ==
    ASSUME VolumesInv, NEW m \in Machines, NEW d \in Disks,
           NEW a, NEW r, Calm(a), Calm(r), Asks(m, d, a, r), UNCHANGED provider
    PROVE  VolumesInv'
<1>1. CASE cloud[d].phase # "free" /\ Set(m, r) /\ UNCHANGED cloud
  BY <1>1, CalmStep, Zenon DEF VolumesInv
<1>2. CASE /\ cloud[d].phase = "free" /\ (Set(m, a) \/ Set(m, r))
           /\ cloud' = [cloud EXCEPT ![d] = [to |-> m, phase |-> "asked"]]
  <2>1. /\ cloud' \in [Disks -> CloudStates]
        /\ \A e \in Disks : cloud[e].phase = "there" => cloud'[e] = cloud[e]
    BY <1>2, Zenon DEF VolumesInv, CloudStates
  <2> QED
    BY <1>2, <2>1, CalmStep, Zenon
<1> QED
  BY <1>1, <1>2, Zenon DEF Asks

(* The same where the cloud is left alone.                                 *)
LEMMA RestKeeps ==
    ASSUME VolumesInv, NEW m \in Machines, NEW p, Calm(p), Set(m, p),
           UNCHANGED <<provider, cloud>>
    PROVE  VolumesInv'
BY CalmStep, Zenon DEF VolumesInv

(* AttachVolume, and its loops, of every provider.                         *)
LEMMA AttachKeeps ==
    ASSUME VolumesInv, NEW m \in Machines, NEW d \in Disks, UNCHANGED provider,
           AttachVolume(m, d) \/ AttachLoops(m, d)
    PROVE  VolumesInv'
<1> DEFINE F == Failed(m, d)
           G == Got(m, d)
           W == Waiting(m, d)
<1>1. Calm(F) /\ Calm(G) /\ Calm(W)
  BY FailedIsCalm, GotIsCalm, WaitingIsCalm, Zenon
<1>2. Calm(releaseDevice(F))
  BY <1>1, NamesAreCalm, Zenon
<1> HIDE DEF F, G, W
<1>3. ASSUME Set(m, F) \/ Set(m, G) \/ Set(m, Started) \/ Set(m, releaseDevice(F)),
             UNCHANGED cloud
      PROVE  VolumesInv'
  BY <1>1, <1>2, <1>3, RestKeeps, StartedIsCalm, Zenon
<1>4. ASSUME \/ Asks(m, d, W, F) \/ Asks(m, d, G, F) \/ Asks(m, d, W, W)
      PROVE  VolumesInv'
  BY <1>1, <1>4, AsksKeeps, Zenon
<1>5. ASSUME AttachAWS(m, d)
      PROVE  VolumesInv'
  <2> DEFINE usable == Unassigned(m) \ InUse
             n == Min(usable)
             asked(p) == [p EXCEPT !.device = n, !.names = Assigned(m, d, n)]
  <2>1. CASE usable = {}
    <3> DEFINE q == [F EXCEPT !.names = Assigned(m, d, NDevices)]
    <3>1. Set(m, q) /\ UNCHANGED cloud
      BY <1>5, <2>1, Zenon DEF AttachAWS, F
    <3>2. Calm(q)
      BY <1>1, NamesAreCalm, Zenon
    <3> HIDE DEF q
    <3> QED
      BY <3>1, <3>2, RestKeeps, Zenon
  <2>2. CASE usable # {}
    <3>1. Asks(m, d, asked(W), asked(F))
      BY <1>5, <2>2, Zenon DEF AttachAWS, F, W
    <3>2. Calm(asked(W)) /\ Calm(asked(F))
      BY <1>1, NamesAreCalm, Zenon
    <3> HIDE DEF asked
    <3> QED
      BY <3>1, <3>2, AsksKeeps, Zenon
  <2> QED
    BY <2>1, <2>2, Zenon
<1> USE DEF F, G, W
<1>6. ASSUME AttachVolume(m, d)
      PROVE  VolumesInv'
  BY <1>3, <1>4, <1>5, <1>6, Zenon
     DEF AttachVolume, AttachGCE, AttachAzure, AttachOpenstack, AttachDO, AttachLinode,
         AttachHetzner, AttachScaleway
<1>7. ASSUME AttachLoops(m, d)
      PROVE  VolumesInv'
  BY <1>3, <1>4, <1>7, Zenon
     DEF AttachLoops, WaitAWS, WaitForOp, WaitAzure, WaitDO, AttachDO, AttachLinode,
         WaitHetzner, AttachScaleway
<1> QED
  BY <1>6, <1>7, Zenon

----------------------------------------------------------------------------
(* The steps of a process.                                                 *)

(* FindVolumes offers nothing but disks.                                   *)
LEMMA FoundAreDisks ==
    ASSUME VolumesInv, NEW m \in Machines
    PROVE  DOMAIN FindVolumes(m) \subseteq Disks
BY VolumesAssumption, Zenon
   DEF VolumesInv, FindVolumes, Near, findVolumesAWS, findVolumesGCE, findVolumesAzure,
       findVolumesOpenstack, findVolumesDO, findMatchingVolumesLinode, findVolumesHetzner,
       findVolumesScaleway, findVolumesExternal

LEMMA NewVolumesKeeps ==
    ASSUME VolumesInv, NEW m \in Machines, NewVolumes(m)
    PROVE  VolumesInv'
<1>1. PICK pc \in {"list", "new"} : Set(m, WithPc(proc[m], pc))
  BY Zenon DEF NewVolumes, WithPc
<1>2. Calm(WithPc(proc[m], pc))
  BY WithPcFacts, Zenon DEF VolumesInv, Calm, Running
<1> QED
  BY <1>1, <1>2, RestKeeps, Zenon DEF NewVolumes

LEMMA ListVolumesKeeps ==
    ASSUME VolumesInv, NEW m \in Machines, ListVolumes(m)
    PROVE  VolumesInv'
<1> DEFINE found == FindVolumes(m)
           todo == {d \in DOMAIN found : found[d].to = None}
           mine == {d \in DOMAIN found : found[d].local}
<1>1. todo \in SUBSET Disks /\ mine \in SUBSET Disks
  BY FoundAreDisks, Zenon
<1>2. UNCHANGED <<provider, cloud>>
  BY Zenon DEF ListVolumes
<1>3. UNCHANGED proc \/ Set(m, Listed(proc[m], todo, mine))
  BY Zenon DEF ListVolumes, Listed
<1> HIDE DEF todo, mine
<1>4. CASE Set(m, Listed(proc[m], todo, mine))
  BY <1>1, <1>2, <1>4, ListedIsCalm, RestKeeps, Zenon DEF VolumesInv
<1>5. CASE UNCHANGED proc
  BY <1>2, <1>5, Zenon DEF VolumesInv, NodeOwnsDisk
<1> QED
  BY <1>3, <1>4, <1>5, Zenon

LEMMA TryAttachKeeps ==
    ASSUME VolumesInv, NEW m \in Machines, TryAttach(m)
    PROVE  VolumesInv'
<1>1. IsProc(proc[m])
  BY Zenon DEF VolumesInv
<1>2. proc[m].todo \in SUBSET Disks /\ proc[m].mine \in SUBSET Disks
  BY <1>1, Zenon DEF IsProc
<1>3. UNCHANGED provider
  BY Zenon DEF TryAttach
<1>4. CASE \E d \in proc[m].todo : AttachVolume(m, d)
  BY <1>2, <1>3, <1>4, AttachKeeps, Zenon
<1>5. CASE (\E p \in MountNext(proc[m], proc[m].mine) : Set(m, p)) /\ UNCHANGED cloud
  BY <1>1, <1>2, <1>3, <1>5, MountNextIsCalm, RestKeeps, Zenon
<1> QED
  BY <1>4, <1>5, Zenon DEF TryAttach

LEMMA WaitAttachedKeeps ==
    ASSUME VolumesInv, NEW m \in Machines, WaitAttached(m)
    PROVE  VolumesInv'
<1>1. proc[m].disk \in Disks
  BY Zenon DEF VolumesInv, IsProc, WaitAttached, At
<1> QED
  BY <1>1, AttachKeeps, FailedIsCalm, RestKeeps, Zenon DEF WaitAttached

(* The step that makes a machine the node: its disk is there.              *)
LEMMA MountKeeps ==
    ASSUME VolumesInv, NEW m \in Machines, safeFormatAndMount(m)
    PROVE  VolumesInv'
<1> DEFINE p == proc[m]
           q == [p EXCEPT !.pc = "mounted", !.mine = {}]
<1>1. /\ IsProc(p) /\ p.disk \in Disks /\ p.mine \in SUBSET Disks
  BY Zenon DEF VolumesInv, IsProc, safeFormatAndMount, At
<1>2. UNCHANGED <<provider, cloud>>
  BY Zenon DEF safeFormatAndMount
<1>3. CASE Set(m, q) /\ FindMountedVolume(m, p.disk)
  <2>1. /\ q.pc = "mounted" /\ q.disk = p.disk
        /\ q \in [pc : {"mounted"}, todo : SUBSET Disks, mine : SUBSET Disks,
                 disk : {p.disk}, device : {p.device}, names : {p.names}]
    BY <1>1, Zenon DEF IsProc
  <2> HIDE DEF q
  <2>2. IsProc(q)
    BY <1>1, <2>1, Zenon DEF IsProc
  <2>3. /\ DOMAIN proc' = Machines /\ proc' = [n \in Machines |-> proc'[n]]
        /\ proc'[m] = q /\ \A n \in Machines \ {m} : proc'[n] = proc[n]
    BY <1>3, Zenon DEF VolumesInv, Set
  <2>4. NodeOwnsDisk'
    BY <1>2, <1>3, <2>1, <2>3 DEF VolumesInv, NodeOwnsDisk, FindMountedVolume
  <2> QED
    BY <1>2, <2>2, <2>3, <2>4, Zenon DEF VolumesInv
<1>4. CASE \E x \in MountNext(p, p.mine \ {p.disk}) : Set(m, x)
  BY <1>1, <1>2, <1>4, MountNextIsCalm, RestKeeps, Zenon
<1> QED
  BY <1>3, <1>4, Zenon DEF safeFormatAndMount

(* From there on the process keeps its disk until it ends.                 *)
LEMMA RunKeeps ==
    ASSUME VolumesInv, NEW m \in Machines, RunEtcdManager(m) \/ StartServers(m)
    PROVE  VolumesInv'
<1> DEFINE p == proc[m]
<1>1. /\ IsProc(p) /\ p.pc \in Running /\ p.disk \in Disks
      /\ UNCHANGED <<provider, cloud>>
  BY Zenon DEF VolumesInv, IsProc, RunEtcdManager, StartServers, At, Running
<1>2. \/ Set(m, Started)
      \/ \E pc \in {"start", "up"} : Set(m, WithPc(p, pc))
  BY Zenon DEF RunEtcdManager, StartServers, WithPc
<1>3. CASE Set(m, Started)
  BY <1>1, <1>3, StartedIsCalm, RestKeeps, Zenon
<1>4. ASSUME NEW pc \in {"start", "up"}, Set(m, WithPc(p, pc))
      PROVE  VolumesInv'
  <2> DEFINE q == WithPc(p, pc)
  <2>1. IsProc(q) /\ q.pc = pc /\ q.disk = p.disk
    BY <1>1, WithPcFacts, Zenon
  <2> HIDE DEF q
  <2>2. /\ DOMAIN proc' = Machines /\ proc' = [n \in Machines |-> proc'[n]]
        /\ proc'[m] = q /\ \A n \in Machines \ {m} : proc'[n] = proc[n]
    BY <1>4, Zenon DEF VolumesInv, Set, q
  <2>3. NodeOwnsDisk'
    BY <1>1, <2>1, <2>2 DEF VolumesInv, NodeOwnsDisk, Running
  <2> QED
    BY <1>1, <2>1, <2>2, <2>3, Zenon DEF VolumesInv
<1> QED
  BY <1>2, <1>3, <1>4, Zenon

----------------------------------------------------------------------------
(* What happens to processes, machines and disks from outside.             *)

LEMMA EndsKeep ==
    ASSUME VolumesInv, NEW m \in Machines, Crash(m) \/ Terminate(m) \/ Replace(m)
    PROVE  VolumesInv'
<1>1. CASE Crash(m) \/ Replace(m)
  BY <1>1, StartedIsCalm, RestKeeps, Zenon DEF Crash, Replace
<1>2. CASE Terminate(m)
  <2>1. Calm(WithPc(Started, "gone"))
    BY StartedIsCalm, WithPcFacts, Zenon DEF Calm, Running
  <2>2. Set(m, WithPc(Started, "gone"))
    BY <1>2, Zenon DEF Terminate, WithPc
  <2>3. /\ cloud' = [d \in Disks |-> IF cloud[d].to = m THEN Free ELSE cloud[d]]
        /\ UNCHANGED provider
    BY <1>2, Zenon DEF Terminate
  <2>4. cloud' \in [Disks -> CloudStates]
    BY <2>3, Zenon DEF VolumesInv, CloudStates, Free
  <2> QED
    BY <2>1, <2>2, <2>3, <2>4, CalmStep, Zenon
<1> QED
  BY <1>1, <1>2, Zenon

(* The cloud moves a disk from asked to listed to there, or gives up.      *)
LEMMA CloudKeeps ==
    ASSUME VolumesInv, NEW d \in Disks, CloudAttaches(d) \/ CloudGivesUp(d)
    PROVE  VolumesInv'
<1> DEFINE moved(phase) == [cloud[d] EXCEPT !.phase = phase]
<1>1. UNCHANGED <<provider, proc>> /\ cloud[d].phase # "there"
  BY Zenon DEF CloudAttaches, CloudGivesUp
<1>2. cloud[d] \in CloudStates
  BY Zenon DEF VolumesInv
<1>3. moved("listed") \in CloudStates /\ moved("there") \in CloudStates /\ Free \in CloudStates
  BY <1>2, Zenon DEF CloudStates, Free
<1>4. \E c \in CloudStates : cloud' = [cloud EXCEPT ![d] = c]
  BY <1>3, Zenon DEF CloudAttaches, CloudGivesUp
<1>5. /\ cloud' \in [Disks -> CloudStates]
      /\ \A e \in Disks : cloud[e].phase = "there" => cloud'[e] = cloud[e]
  BY <1>1, <1>4, Zenon DEF VolumesInv
<1>6. ASSUME NEW m \in Machines, proc[m].pc \in Running
      PROVE  cloud'[proc[m].disk] = [to |-> m, phase |-> "there"]
  <2>1. /\ proc[m].disk \in Disks
        /\ cloud[proc[m].disk] = [to |-> m, phase |-> "there"]
    BY <1>6, Zenon DEF VolumesInv, IsProc, NodeOwnsDisk, Running
  <2> QED
    BY <1>5, <2>1
<1> QED
  BY <1>1, <1>5, <1>6, Zenon DEF VolumesInv, NodeOwnsDisk, Running

LEMMA VolumesInit == Init => VolumesInv
<1> SUFFICES ASSUME Init PROVE VolumesInv
  BY Zenon
<1>1. cloud \in [Disks -> CloudStates]
  BY DEF Init, Free, CloudStates
<1>2. proc = [m \in Machines |->
                IF m \in Spares THEN WithPc(Started, "spare") ELSE Started]
  BY Zenon DEF Init, WithPc
<1>3. Calm(WithPc(Started, "spare")) /\ Calm(Started)
  BY StartedIsCalm, WithPcFacts, Zenon DEF Calm, Running
<1>4. /\ DOMAIN proc = Machines /\ proc = [m \in Machines |-> proc[m]]
      /\ \A m \in Machines : Calm(proc[m])
  BY <1>2, <1>3, Zenon
<1>5. provider \in Providers
  BY Zenon DEF Init
<1> QED
  BY <1>1, <1>4, <1>5, Zenon DEF VolumesInv, NodeOwnsDisk, Calm, Running

LEMMA VolumesStep == VolumesInv /\ [Next]_vars => VolumesInv'
<1> SUFFICES ASSUME VolumesInv, [Next]_vars
             PROVE  VolumesInv'
  BY Zenon
<1>1. ASSUME NEW m \in Machines, Step(m)
      PROVE  VolumesInv'
  <2>1. CASE runDiscoveryOnce(m)
    BY <2>1, Zenon DEF runDiscoveryOnce, VolumesInv, NodeOwnsDisk
  <2> QED
    BY <1>1, <2>1, NewVolumesKeeps, ListVolumesKeeps, TryAttachKeeps, WaitAttachedKeeps,
       MountKeeps, RunKeeps, Zenon DEF Step
<1>2. ASSUME NEW m \in Machines, Crash(m) \/ Terminate(m) \/ Replace(m)
      PROVE  VolumesInv'
  BY <1>2, EndsKeep, Zenon
<1>3. ASSUME NEW d \in Disks, CloudAttaches(d) \/ CloudGivesUp(d)
      PROVE  VolumesInv'
  BY <1>3, CloudKeeps, Zenon
<1>4. CASE UNCHANGED vars
  BY <1>4, Zenon DEF vars, VolumesInv, NodeOwnsDisk
<1> QED
  BY <1>1, <1>2, <1>3, <1>4, Zenon DEF Next

(* Whatever is lost, refused or restarted between attachMasterVolumes and  *)
(* the start of the servers, a process that runs as the node of a volume   *)
(* is on the machine that has it: no two machines run as one node.         *)
THEOREM NodesOwnTheirDisks == Spec => []NodeOwnsDisk
<1>1. VolumesInv => NodeOwnsDisk
  BY Zenon DEF VolumesInv
<1> QED
  BY <1>1, VolumesStep, VolumesInit, PTL DEF Spec

----------------------------------------------------------------------------
(* What a process of machine m may rely on, cl being the cloud's record    *)
(* and f the number of faults.                                             *)

(* The disks that it takes for attached are attached to its machine; for   *)
(* openstack, while nothing went wrong, they have been asked for.          *)
Holds(m, p, cl, f) ==
    provider # "do" /\ (provider = "openstack" => f = 0) =>
        \A d \in p.mine :
            /\ cl[d].to = m
            /\ provider # "openstack" => cl[d].phase \in {"listed", "there"}

(* It waits for the device of one of them, and asks for a disk only        *)
(* while it has none.                                                      *)
Chooses(p) ==
    /\ p.pc = "mount" => p.disk \in p.mine
    /\ p.pc = "wait" => p.mine = {}

(* It asks for disks in its own zone only.                                 *)
Reaches(m, p, cl) ==
    provider \notin {"azure", "external"} =>
        /\ p.todo \subseteq Near(m)
        /\ p.pc = "wait" => p.disk \in Near(m)
        /\ \A d \in Disks : cl[d].to = m => d \in Near(m)

(* Where nothing went wrong so far.  A late device counts as a fault for   *)
(* azure, external attaches nothing, and do has one disk for every zone.   *)
Smooth(f) == f = 0 /\ provider \notin {"azure", "external", "do"}

(* Then it asks for a disk only if the machine has none, and goes on only  *)
(* when it knows whether it was given that one.                            *)
Orderly(m, p, cl, f) ==
    Smooth(f) =>
        /\ \A d, e \in Disks : cl[d].to = m /\ cl[e].to = m => d = e
        /\ \A d \in Disks : cl[d].to = m =>
              /\ p.pc \in {"new", "list"} => cl[d].phase # "asked"
              /\ p.pc # "spare"
              /\ p.pc = "pick" => p.mine # {}
              /\ p.pc = "wait" => d = p.disk

Claims(m, p, cl, f) ==
    Holds(m, p, cl, f) /\ Chooses(p) /\ Reaches(m, p, cl) /\ Orderly(m, p, cl, f)

ClaimsInv ==
    /\ faults \in Nat
    /\ provider = "do" => \A d, e \in Disks : zone[d] = zone[e] => d = e
    /\ \A d \in Disks : cloud[d].phase = "free" <=> cloud[d].to = None
    /\ \A m \in Machines : Claims(m, proc[m], cloud, faults)

----------------------------------------------------------------------------
(* The fields of a process that Claims reads.                              *)

Fields(q, pc, todo, mine, disk) ==
    q.pc = pc /\ q.todo = todo /\ q.mine = mine /\ q.disk = disk

LEMMA StartedFields ==
    /\ Fields(Started, "new", {}, {}, None)
    /\ \A pc : Fields(WithPc(Started, pc), pc, {}, {}, None)
<1>1. Fields(Started, "new", {}, {}, None)
  BY Zenon DEF Started, Fields
<1>2. ASSUME NEW pc
      PROVE  Fields(WithPc(Started, pc), pc, {}, {}, None)
  <2>1. Started \in [pc : {"new"}, todo : {{}}, mine : {{}}, disk : {None},
                     device : {0}, names : {[n \in Names |-> None]}]
    BY Zenon DEF Started
  <2> HIDE DEF Started
  <2> QED
    BY <1>1, <2>1, Zenon DEF Fields, WithPc
<1> QED
  BY <1>1, <1>2, Zenon

LEMMA WithPcFields ==
    ASSUME NEW p, IsProc(p), NEW pc
    PROVE  Fields(WithPc(p, pc), pc, p.todo, p.mine, p.disk)
BY Zenon DEF IsProc, WithPc, Fields

LEMMA ListedFields ==
    ASSUME NEW p, IsProc(p), NEW todo, NEW mine
    PROVE  Fields(Listed(p, todo, mine), "pick", todo, mine, p.disk)
BY Zenon DEF IsProc, Listed, Fields

LEMMA FailedFields ==
    ASSUME VolumesInv, NEW m \in Machines, NEW d
    PROVE  Fields(Failed(m, d), "pick", proc[m].todo \ {d}, proc[m].mine, None)
<1>1. IsProc(proc[m])
  BY Zenon DEF VolumesInv
<1> QED
  BY <1>1, Zenon DEF IsProc, Failed, Fields

LEMMA GotFields ==
    ASSUME VolumesInv, NEW m \in Machines, NEW d
    PROVE  Fields(Got(m, d), "pick", proc[m].todo \ {d}, proc[m].mine \cup {d}, None)
<1> DEFINE p == Failed(m, d)
<1>1. IsProc(p) /\ Fields(p, "pick", proc[m].todo \ {d}, proc[m].mine, None)
  BY FailedFields, FailedIsCalm, Zenon DEF Calm
<1>2. Got(m, d) = [p EXCEPT !.mine = p.mine \cup {d}]
  BY Zenon DEF Got
<1> HIDE DEF p
<1>3. Fields(Got(m, d), p.pc, p.todo, p.mine \cup {d}, p.disk)
  BY <1>1, <1>2, Zenon DEF IsProc, Fields
<1> QED
  BY <1>1, <1>3, Zenon DEF Fields

LEMMA WaitingFields ==
    ASSUME VolumesInv, NEW m \in Machines, NEW d
    PROVE  Fields(Waiting(m, d), "wait", proc[m].todo, proc[m].mine, d)
<1>1. IsProc(proc[m])
  BY DEF VolumesInv
<1> QED
  BY <1>1, Zenon DEF IsProc, Waiting, Fields

LEMMA NamesFields ==
    ASSUME NEW p, IsProc(p), NEW n, NEW names
    PROVE  /\ Fields([p EXCEPT !.device = n, !.names = names], p.pc, p.todo, p.mine, p.disk)
           /\ Fields([p EXCEPT !.names = names], p.pc, p.todo, p.mine, p.disk)
           /\ Fields(releaseDevice(p), p.pc, p.todo, p.mine, p.disk)
<1>1. /\ Fields([p EXCEPT !.device = n, !.names = names], p.pc, p.todo, p.mine, p.disk)
      /\ Fields([p EXCEPT !.names = names], p.pc, p.todo, p.mine, p.disk)
  BY Zenon DEF IsProc, Fields
<1>2. releaseDevice(p) = [p EXCEPT !.names = [p.names EXCEPT ![p.device] = None]]
  BY Zenon DEF releaseDevice
<1>3. Fields(releaseDevice(p), p.pc, p.todo, p.mine, p.disk)
  BY <1>2, Zenon DEF IsProc, Fields
<1> QED
  BY <1>1, <1>3, Zenon

LEMMA MountNextFields ==
    ASSUME NEW p, IsProc(p), NEW left, NEW q \in MountNext(p, left)
    PROVE  \/ left = {} /\ Fields(q, "list", p.todo, {}, None)
           \/ left # {} /\ \E d \in left : Fields(q, "mount", {}, left, d)
<1>1. CASE left = {}
  <2>1. q = [p EXCEPT !.pc = "list", !.mine = {}, !.disk = None]
    BY <1>1, Zenon DEF MountNext
  <2> QED
    BY <1>1, <2>1, Zenon DEF IsProc, Fields
<1>2. CASE left # {}
  <2>1. PICK d \in left : q = [p EXCEPT !.pc = "mount", !.todo = {}, !.mine = left, !.disk = d]
    BY <1>2, Zenon DEF MountNext
  <2>2. Fields(q, "mount", {}, left, d)
    BY <2>1, Zenon DEF IsProc, Fields
  <2> QED
    BY <1>2, <2>2, Zenon
<1> QED
  BY <1>1, <1>2, Zenon

----------------------------------------------------------------------------
(* A step of machine m that changes no record but that of its own disks    *)
(* and of free ones leaves the other machines what they rely on.           *)
LEMMA OneMoves ==
    ASSUME VolumesInv, ClaimsInv, NEW m \in Machines, NEW q, Set(m, q),
           UNCHANGED <<provider, zone>>, faults' \in Nat, faults <= faults',
           \A d \in Disks :
              \/ cloud'[d] = cloud[d]
              \/ /\ cloud[d].to \in {m, None} /\ cloud'[d].to \in {m, None}
                 /\ cloud'[d].phase = "free" <=> cloud'[d].to = None,
           Claims(m, q, cloud', faults')
    PROVE  ClaimsInv'
<1>1. proc'[m] = q /\ \A n \in Machines \ {m} : proc'[n] = proc[n]
  BY Zenon DEF VolumesInv, Set
<1>2. faults' = 0 => faults = 0
  BY DEF ClaimsInv
<1>3. ASSUME NEW n \in Machines \ {m}
      PROVE  Claims(n, proc[n], cloud', faults')
  <2>1. \A d \in Disks : cloud[d].to = n \/ cloud'[d].to = n => cloud'[d] = cloud[d]
    BY VolumesAssumption, Zenon
  <2>2. proc[n].mine \subseteq Disks
    BY Zenon DEF VolumesInv, IsProc
  <2>3. Claims(n, proc[n], cloud, faults)
    BY Zenon DEF ClaimsInv
  <2>4. Holds(n, proc[n], cloud', faults')
    BY <1>2, <2>1, <2>2, <2>3, Zenon DEF Claims, Holds
  <2>5. Chooses(proc[n])
    BY <2>3, Zenon DEF Claims
  <2>6. Reaches(n, proc[n], cloud')
    BY <2>1, <2>3, Zenon DEF Claims, Reaches
  <2>7. Orderly(n, proc[n], cloud', faults')
    BY <1>2, <2>1, <2>3 DEF Claims, Orderly, Smooth
  <2> QED
    BY <2>4, <2>5, <2>6, <2>7, Zenon DEF Claims
<1>4. \A n \in Machines : Claims(n, proc'[n], cloud', faults')
  BY <1>1, <1>3, Zenon
<1>5. \A n \in Machines : Claims(n, proc[n], cloud, faults)'
  BY <1>4 DEF Claims, Holds, Chooses, Reaches, Orderly, Smooth, Near
<1>6. \A d \in Disks : cloud'[d].phase = "free" <=> cloud'[d].to = None
  BY Zenon DEF ClaimsInv
<1> QED
  BY <1>5, <1>6, Zenon DEF ClaimsInv

LEMMA QuietMove ==
    ASSUME VolumesInv, ClaimsInv, NEW m \in Machines, NEW q, Set(m, q),
           UNCHANGED <<provider, zone, cloud>>, faults' \in Nat, faults <= faults',
           Claims(m, q, cloud, faults')
    PROVE  ClaimsInv'
<1>1. Claims(m, q, cloud', faults') /\ \A d \in Disks : cloud'[d] = cloud[d]
  BY Zenon
<1> QED
  BY <1>1, OneMoves, Zenon

(* The count of the faults.                                                *)
LEMMA FaultsGrow ==
    ASSUME ClaimsInv
    PROVE  /\ UNCHANGED faults => faults' \in Nat /\ faults <= faults'
           /\ \A kind : Fault(kind) => faults' \in Nat /\ faults <= faults' /\ faults' # 0
BY DEF ClaimsInv, Fault

(* A process that lets AttachVolume ask for disk d.                        *)
Asking(m, d) ==
    /\ d \in Disks
    /\ proc[m].mine = {}
    /\ provider \notin {"azure", "external"} => d \in Near(m)
    /\ Smooth(faults) => \A e \in Disks : cloud[e].to = m => e = d

(* What AttachVolume may make of it, cl being the record after the call:   *)
(* an error, the disk, another round of the loop, or (hetzner) the end of  *)
(* the process.                                                            *)
Answer(m, d, q, cl, f) ==
    \/ /\ Fields(q, "pick", proc[m].todo \ {d}, {}, None)
       /\ Smooth(f) => cl[d].to # m
    \/ /\ Fields(q, "pick", proc[m].todo \ {d}, {d}, None)
       /\ cl[d].to = m
       /\ provider # "openstack" => cl[d].phase \in {"listed", "there"}
    \/ Fields(q, "wait", proc[m].todo, {}, d)
    \/ /\ Fields(q, "new", {}, {}, None)
       /\ cl[d].to = m => cl[d].phase # "asked"

LEMMA AnswerClaims ==
    ASSUME VolumesInv, ClaimsInv, NEW m \in Machines, NEW d, Asking(m, d),
           NEW cl, \A e \in Disks \ {d} : cl[e] = cloud[e], cl[d].to = m \/ cl[d] = cloud[d],
           NEW f \in Nat, faults <= f, NEW q, Answer(m, d, q, cl, f)
    PROVE  Claims(m, q, cl, f)
<1>1. Claims(m, proc[m], cloud, faults) /\ d \in Disks
  BY Zenon DEF ClaimsInv, Asking
<1>2. f = 0 => faults = 0
  BY DEF ClaimsInv
<1>3. /\ q.pc \in {"pick", "wait", "new"} /\ q.mine \in {{}, {d}}
      /\ q.pc = "wait" => q.mine = {} /\ q.disk = d
      /\ q.mine = {d} => /\ cl[d].to = m
                         /\ provider # "openstack" => cl[d].phase \in {"listed", "there"}
      /\ q.todo \subseteq proc[m].todo
  BY Zenon DEF Answer, Fields
<1>4. Holds(m, q, cl, f) /\ Chooses(q)
  BY <1>3, Zenon DEF Holds, Chooses
<1>5. Reaches(m, q, cl)
  BY <1>1, <1>3, Zenon DEF Claims, Reaches, Asking
<1>6. Orderly(m, q, cl, f)
  <2> SUFFICES ASSUME Smooth(f)
               PROVE  /\ \A e \in Disks : cl[e].to = m => e = d
                      /\ cl[d].to = m =>
                            /\ q.pc \in {"new", "list"} => cl[d].phase # "asked"
                            /\ q.pc # "spare"
                            /\ q.pc = "pick" => q.mine # {}
                            /\ q.pc = "wait" => d = q.disk
    BY <1>1, Zenon DEF Orderly
  <2>1. \A e \in Disks : cl[e].to = m => e = d
    BY <1>2, Zenon DEF Asking, Smooth
  <2>2. q.pc = "new" /\ cl[d].to = m => cl[d].phase # "asked"
    BY Zenon DEF Answer, Fields
  <2>3. q.pc = "pick" /\ cl[d].to = m => q.mine # {}
    BY Zenon DEF Answer, Fields
  <2> QED
    BY <1>3, <2>1, <2>2, <2>3, Zenon
<1> QED
  BY <1>4, <1>5, <1>6, Zenon DEF Claims

LEMMA AnswerKeeps ==
    ASSUME VolumesInv, ClaimsInv, NEW m \in Machines, NEW d, Asking(m, d), NEW q,
           Set(m, q), UNCHANGED <<provider, zone, cloud>>, faults' \in Nat, faults <= faults',
           Answer(m, d, q, cloud, faults')
    PROVE  ClaimsInv'
BY AnswerClaims, QuietMove, Zenon

(* A request: what it is answered with when it is accepted, and when not.  *)
LEMMA AsksClaims ==
    ASSUME VolumesInv, ClaimsInv, NEW m \in Machines, NEW d, Asking(m, d),
           UNCHANGED <<provider, zone>>, NEW a, NEW r, Asks(m, d, a, r),
           \/ Fields(a, "wait", proc[m].todo, {}, d)
           \/ provider = "openstack" /\ Fields(a, "pick", proc[m].todo \ {d}, {d}, None),
           \/ Fields(r, "wait", proc[m].todo, {}, d)
           \/ /\ Fields(r, "pick", proc[m].todo \ {d}, {}, None)
              /\ Smooth(faults) /\ cloud[d].phase # "free" => cloud[d].to # m
    PROVE  ClaimsInv'
<1>1. CASE cloud[d].phase # "free" /\ Set(m, r) /\ UNCHANGED <<cloud, faults>>
  <2>1. Answer(m, d, r, cloud, faults')
    BY <1>1, Zenon DEF Answer
  <2> QED
    BY <1>1, <2>1, AnswerKeeps, FaultsGrow, Zenon
<1>2. CASE /\ cloud[d].phase = "free"
           /\ cloud' = [cloud EXCEPT ![d] = [to |-> m, phase |-> "asked"]]
           /\ (Set(m, a) /\ UNCHANGED faults) \/ (Set(m, r) /\ Fault("lost"))
  <2>1. /\ d \in Disks /\ cloud[d].to = None
        /\ cloud'[d].to = m /\ cloud'[d].phase = "asked"
        /\ \A e \in Disks \ {d} : cloud'[e] = cloud[e]
    BY <1>2, Zenon DEF Asking, ClaimsInv, VolumesInv
  <2>2. m # None
    BY VolumesAssumption, Zenon
  <2>3. faults' \in Nat /\ faults <= faults'
    BY <1>2, FaultsGrow, Zenon
  <2>4. ASSUME NEW q, Set(m, q), Answer(m, d, q, cloud', faults')
        PROVE  ClaimsInv'
    <3>1. Claims(m, q, cloud', faults')
      BY <2>1, <2>3, <2>4, AnswerClaims, Zenon
    <3> QED
      BY <2>1, <2>2, <2>3, <2>4, <3>1, OneMoves
  <2>5. CASE Set(m, a)
    <3>1. Answer(m, d, a, cloud', faults')
      BY <2>1, Zenon DEF Answer
    <3> QED
      BY <2>4, <2>5, <3>1, Zenon
  <2>6. CASE Set(m, r) /\ Fault("lost")
    <3>1. Answer(m, d, r, cloud', faults')
      BY <2>6, FaultsGrow, Zenon DEF Answer, Smooth
    <3> QED
      BY <2>4, <2>6, <3>1, Zenon
  <2> QED
    BY <1>2, <2>5, <2>6, Zenon
<1> QED
  BY <1>1, <1>2, Zenon DEF Asks

(* AttachVolume, called while the machine has no disk, of every provider.  *)
LEMMA AttachVolumeClaims ==
    ASSUME VolumesInv, ClaimsInv, NEW m \in Machines, NEW d, Asking(m, d),
           UNCHANGED <<provider, zone>>, AttachVolume(m, d),
           Smooth(faults) => cloud[d].to # m
    PROVE  ClaimsInv'
<1> DEFINE F == Failed(m, d)
           G == Got(m, d)
           W == Waiting(m, d)
<1>1. /\ Fields(F, "pick", proc[m].todo \ {d}, {}, None)
      /\ Fields(G, "pick", proc[m].todo \ {d}, {d}, None)
      /\ Fields(W, "wait", proc[m].todo, {}, d)
  BY FailedFields, GotFields, WaitingFields DEF Asking, Fields
<1>2. IsProc(F) /\ IsProc(W)
  BY FailedIsCalm, WaitingIsCalm, Zenon DEF Calm, Asking
<1> HIDE DEF F, G, W
<1>3. ASSUME Asks(m, d, W, F) \/ Asks(m, d, W, W)
      PROVE  ClaimsInv'
  BY <1>1, <1>3, AsksClaims, Zenon
<1>4. ASSUME Asks(m, d, G, F), provider = "openstack"
      PROVE  ClaimsInv'
  BY <1>1, <1>4, AsksClaims, Zenon
<1>5. ASSUME Shown(d) # None, Set(m, IF Shown(d) = m THEN G ELSE F), UNCHANGED <<cloud, faults>>
      PROVE  ClaimsInv'
  <2> DEFINE q == IF Shown(d) = m THEN G ELSE F
  <2>1. Answer(m, d, q, cloud, faults')
    BY <1>1, <1>5, VolumesAssumption, Zenon DEF Answer, Shown
  <2> QED
    BY <1>5, <2>1, AnswerKeeps, FaultsGrow, Zenon
<1>6. ASSUME AttachAWS(m, d)
      PROVE  ClaimsInv'
  <2> DEFINE usable == Unassigned(m) \ InUse
             n == Min(usable)
             asked(p) == [p EXCEPT !.device = n, !.names = Assigned(m, d, n)]
  <2>1. CASE usable = {}
    <3> DEFINE q == [F EXCEPT !.names = Assigned(m, d, NDevices)]
    <3>1. Set(m, q) /\ UNCHANGED <<cloud, faults>>
      BY <1>6, <2>1, Zenon DEF AttachAWS, F
    <3>2. Fields(q, F.pc, F.todo, F.mine, F.disk)
      BY <1>2, NamesFields, Zenon
    <3> HIDE DEF q
    <3>3. Answer(m, d, q, cloud, faults')
      BY <1>1, <3>1, <3>2, Zenon DEF Answer, Fields
    <3> QED
      BY <3>1, <3>3, AnswerKeeps, FaultsGrow, Zenon
  <2>2. CASE usable # {}
    <3>1. Asks(m, d, asked(W), asked(F))
      BY <1>6, <2>2, Zenon DEF AttachAWS, F, W
    <3>2. /\ Fields(asked(W), W.pc, W.todo, W.mine, W.disk)
          /\ Fields(asked(F), F.pc, F.todo, F.mine, F.disk)
      BY <1>2, NamesFields, Zenon
    <3> HIDE DEF asked
    <3>3. /\ Fields(asked(W), "wait", proc[m].todo, {}, d)
          /\ Fields(asked(F), "pick", proc[m].todo \ {d}, {}, None)
      BY <1>1, <3>2, Zenon DEF Fields
    <3> QED
      BY <3>1, <3>3, AsksClaims, Zenon
  <2> QED
    BY <2>1, <2>2, Zenon
<1> USE DEF F, G, W
<1> QED
  BY <1>3, <1>4, <1>5, <1>6, Zenon
     DEF AttachVolume, AttachGCE, AttachAzure, AttachOpenstack, AttachDO, AttachLinode,
         AttachHetzner, AttachScaleway

(* Its loops.                                                              *)
LEMMA AttachLoopsClaims ==
    ASSUME VolumesInv, ClaimsInv, NEW m \in Machines, NEW d, Asking(m, d),
           UNCHANGED <<provider, zone>>, AttachLoops(m, d)
    PROVE  ClaimsInv'
<1> DEFINE F == Failed(m, d)
           G == Got(m, d)
           W == Waiting(m, d)
<1>1. /\ Fields(F, "pick", proc[m].todo \ {d}, {}, None)
      /\ Fields(G, "pick", proc[m].todo \ {d}, {d}, None)
      /\ Fields(W, "wait", proc[m].todo, {}, d)
  BY FailedFields, GotFields, WaitingFields DEF Asking, Fields
<1>2. IsProc(F)
  BY FailedIsCalm, Zenon DEF Calm
<1>3. /\ cloud[d] \in CloudStates
      /\ cloud[d].phase = "free" <=> cloud[d].to = None
      /\ m # None
  BY VolumesAssumption, Zenon DEF VolumesInv, ClaimsInv, Asking
<1>4. cloud[d] = [to |-> m, phase |-> "asked"] <=> cloud[d].to = m /\ cloud[d].phase = "asked"
  BY <1>3 DEF CloudStates
<1>5. Shown(d) # m /\ cloud[d] # [to |-> m, phase |-> "asked"] => cloud[d].to # m
  BY <1>3, <1>4, Zenon DEF Shown, CloudStates
<1>6. Shown(d) = m => cloud[d].to = m /\ cloud[d].phase \in {"listed", "there"}
  BY <1>3, Zenon DEF Shown
<1>7. Fields(releaseDevice(F), "pick", proc[m].todo \ {d}, {}, None)
  BY <1>1, <1>2, NamesFields, Zenon DEF Fields
<1> HIDE DEF F, G, W
<1>8. ASSUME NEW q, Set(m, q), UNCHANGED <<cloud, faults>>,
             \/ q = G /\ Shown(d) = m
             \/ q \in {F, releaseDevice(F)} /\ (Smooth(faults) => cloud[d].to # m)
             \/ q = Started /\ Shown(d) = m
      PROVE  ClaimsInv'
  <2>1. Answer(m, d, q, cloud, faults')
    BY <1>1, <1>6, <1>7, <1>8, StartedFields, Zenon DEF Answer
  <2> QED
    BY <1>8, <2>1, AnswerKeeps, FaultsGrow, Zenon
<1>9. ASSUME \/ Asks(m, d, W, W)
             \/ Asks(m, d, W, F) /\ (cloud[d].phase = "free" \/ ~Smooth(faults))
      PROVE  ClaimsInv'
  BY <1>1, <1>9, AsksClaims, Zenon
<1>10. CASE provider = "aws"
  <2>1. WaitAWS(m, d)
    BY <1>10, Zenon DEF AttachLoops
  <2> QED
    BY <1>3, <1>5, <1>8, <2>1 DEF WaitAWS, Shown, F, G
<1>11. CASE provider = "gce"
  <2>1. WaitForOp(m, d)
    BY <1>11, Zenon DEF AttachLoops
  <2> QED
    BY <1>5, <1>8, <2>1, Zenon DEF WaitForOp, F, G
<1>12. CASE provider = "azure"
  <2>1. WaitAzure(m, d)
    BY <1>12, Zenon DEF AttachLoops
  <2>2. lunToDev(m, d) => Shown(d) = m
    BY DEF lunToDev, Shown
  <2> QED
    BY <1>8, <1>12, <2>1, <2>2, Zenon DEF WaitAzure, Smooth, F, G
<1>13. CASE provider = "do"
  <2>1. WaitDO(m, d)
    BY <1>13, Zenon DEF AttachLoops
  <2> QED
    BY <1>8, <1>9, <1>13, <2>1, Zenon DEF WaitDO, AttachDO, Smooth, F, G, W
<1>14. CASE provider = "linode"
  <2>1. AttachLinode(m, d)
    BY <1>14, Zenon DEF AttachLoops
  <2>2. Shown(d) \notin {m, None} => cloud[d].to # m
    BY Zenon DEF Shown
  <2> QED
    BY <1>8, <1>9, <2>1, <2>2, Zenon DEF AttachLinode, F, G, W
<1>15. CASE provider = "hetzner"
  <2>1. WaitHetzner(m, d)
    BY <1>15, Zenon DEF AttachLoops
  <2> QED
    BY <1>5, <1>8, <2>1, Zenon DEF WaitHetzner, F
<1>16. CASE provider = "scaleway"
  <2>1. cloud[d].phase # "asked" /\ AttachScaleway(m, d)
    BY <1>16, Zenon DEF AttachLoops
  <2>2. /\ Shown(d) = None => cloud[d].phase = "free"
        /\ Shown(d) \notin {m, None} => cloud[d].to # m
    BY <1>3, <2>1, Zenon DEF Shown, CloudStates
  <2> QED
    BY <1>8, <1>9, <2>1, <2>2, Zenon DEF AttachScaleway, F, G, W
<1> QED
  BY <1>10, <1>11, <1>12, <1>13, <1>14, <1>15, <1>16, Zenon DEF AttachLoops

----------------------------------------------------------------------------
(* The steps.                                                              *)

LEMMA NewVolumesClaims ==
    ASSUME VolumesInv, ClaimsInv, NEW m \in Machines, NewVolumes(m)
    PROVE  ClaimsInv'
<1> DEFINE p == proc[m]
<1>1. PICK pc \in {"list", "new"} : Set(m, WithPc(p, pc))
  BY Zenon DEF NewVolumes, WithPc
<1> DEFINE q == WithPc(p, pc)
<1>2. Fields(q, pc, p.todo, p.mine, p.disk)
  BY WithPcFields, Zenon DEF VolumesInv
<1>3. faults' \in Nat /\ faults <= faults'
  BY FaultsGrow, Zenon DEF NewVolumes, Down
<1>4. Claims(m, p, cloud, faults) /\ p.pc = "new" /\ (faults' = 0 => faults = 0)
  BY <1>3 DEF ClaimsInv, NewVolumes, At
<1> HIDE DEF q
<1>5. Claims(m, q, cloud, faults')
  BY <1>1, <1>2, <1>4, Zenon DEF Fields, Claims, Holds, Chooses, Reaches, Orderly, Smooth
<1> QED
  BY <1>1, <1>3, <1>5, QuietMove, Zenon DEF NewVolumes, q

LEMMA ListVolumesClaims ==
    ASSUME VolumesInv, ClaimsInv, NEW m \in Machines, ListVolumes(m)
    PROVE  ClaimsInv'
<1> DEFINE p == proc[m]
           found == FindVolumes(m)
           todo == {d \in DOMAIN found : found[d].to = None}
           mine == {d \in DOMAIN found : found[d].local}
           q == Listed(p, todo, mine)
<1>1. faults' \in Nat /\ faults <= faults'
  BY FaultsGrow, Zenon DEF ListVolumes
<1>2. Claims(m, p, cloud, faults) /\ p.pc = "list"
  BY Zenon DEF ClaimsInv, ListVolumes, At
<1>3. Fields(q, "pick", todo, mine, p.disk)
  BY ListedFields, Zenon DEF VolumesInv
<1>4. /\ provider \notin {"azure", "external"} => todo \subseteq Near(m)
      /\ provider \notin {"azure", "external", "do"} => mine = {d \in Near(m) : Shown(d) = m}
      /\ provider # "do" => \A d \in mine : Shown(d) = m
  BY VolumesAssumption, Zenon
     DEF VolumesInv, FindVolumes, Near, Volume, appendMatchedVolume, findVolumesAWS,
         findVolumesGCE, findVolumesAzure, findVolumesOpenstack, findVolumesDO,
         findMatchingVolumesLinode, findVolumesHetzner, findVolumesScaleway,
         findVolumesExternal
<1>5. CASE Set(m, q) /\ UNCHANGED faults
  <2> HIDE DEF todo, mine, q
  <2>1. Holds(m, q, cloud, faults')
    BY <1>3, <1>4, VolumesAssumption, Zenon DEF Fields, Holds, Shown
  <2>2. Chooses(q) /\ Reaches(m, q, cloud)
    BY <1>2, <1>3, <1>4, Zenon DEF Fields, Chooses, Reaches, Claims
  <2>3. Orderly(m, q, cloud, faults')
    <3> SUFFICES ASSUME Smooth(faults), NEW d \in Disks, cloud[d].to = m
                 PROVE  mine # {}
      BY <1>2, <1>3, <1>5, Zenon DEF Claims, Fields, Orderly
    <3>1. cloud[d].phase # "asked" /\ d \in Near(m)
      BY <1>2, Zenon DEF Claims, Orderly, Reaches, Smooth
    <3>2. cloud[d].phase # "free" /\ cloud[d] \in CloudStates
      BY VolumesAssumption, Zenon DEF ClaimsInv, VolumesInv
    <3>3. Shown(d) = m
      BY <3>1, <3>2, Zenon DEF Shown, CloudStates
    <3> QED
      BY <1>4, <3>1, <3>3, Zenon DEF Smooth
  <2>4. Claims(m, q, cloud, faults')
    BY <2>1, <2>2, <2>3, Zenon DEF Claims
  <2> QED
    BY <1>1, <1>5, <2>4, QuietMove, Zenon DEF ListVolumes
<1>6. CASE UNCHANGED proc /\ Fault("api")
  <2>1. Claims(m, p, cloud, faults') /\ Set(m, p)
    BY <1>1, <1>2, <1>6
       DEF Claims, Holds, Chooses, Reaches, Orderly, Smooth, ClaimsInv, Set, VolumesInv
  <2> QED
    BY <1>1, <2>1, QuietMove, Zenon DEF ListVolumes
<1> QED
  BY <1>5, <1>6, Zenon DEF ListVolumes, Listed

(* mountMasterVolumes goes on to one of the disks that the process has, or *)
(* back to the list.                                                       *)
LEMMA MountNextClaims ==
    ASSUME VolumesInv, ClaimsInv, NEW m \in Machines, NEW left, left \subseteq proc[m].mine,
           UNCHANGED <<provider, zone, cloud>>, faults' \in Nat, faults <= faults',
           NEW q \in MountNext(proc[m], left), Set(m, q),
           Smooth(faults') => left # {} \/ \A d \in Disks : cloud[d].to # m
    PROVE  ClaimsInv'
<1> DEFINE p == proc[m]
<1>1. Claims(m, p, cloud, faults) /\ (faults' = 0 => faults = 0)
  BY DEF ClaimsInv
<1>2. \/ left = {} /\ Fields(q, "list", p.todo, {}, None)
      \/ left # {} /\ \E d \in left : Fields(q, "mount", {}, left, d)
  BY MountNextFields, Zenon DEF VolumesInv
<1>3. Holds(m, q, cloud, faults') /\ Chooses(q) /\ Reaches(m, q, cloud)
  BY <1>1, <1>2, Zenon DEF Claims, Fields, Holds, Chooses, Reaches
<1>4. Orderly(m, q, cloud, faults')
  BY <1>1, <1>2, Zenon DEF Claims, Fields, Orderly, Smooth
<1>5. Claims(m, q, cloud, faults')
  BY <1>3, <1>4, Zenon DEF Claims
<1> QED
  BY <1>5, QuietMove, Zenon

LEMMA TryAttachClaims ==
    ASSUME VolumesInv, ClaimsInv, NEW m \in Machines, TryAttach(m)
    PROVE  ClaimsInv'
<1>1. /\ Claims(m, proc[m], cloud, faults) /\ proc[m].pc = "pick"
      /\ proc[m].todo \subseteq Disks /\ UNCHANGED <<provider, zone>>
  BY Zenon DEF ClaimsInv, TryAttach, At, VolumesInv, IsProc
<1>2. Smooth(faults) /\ proc[m].mine = {} => \A d \in Disks : cloud[d].to # m
  BY <1>1, Zenon DEF Claims, Orderly
<1>3. ASSUME proc[m].mine = {}, NEW d \in proc[m].todo, AttachVolume(m, d)
      PROVE  ClaimsInv'
  <2>1. Asking(m, d)
    BY <1>1, <1>2, <1>3, Zenon DEF Asking, Claims, Reaches
  <2> QED
    BY <1>1, <1>2, <1>3, <2>1, AttachVolumeClaims, Zenon
<1>4. ASSUME NEW p \in MountNext(proc[m], proc[m].mine), Set(m, p), UNCHANGED <<cloud, faults>>
      PROVE  ClaimsInv'
  <2>1. Smooth(faults') => proc[m].mine # {} \/ \A d \in Disks : cloud[d].to # m
    BY <1>2, <1>4, Zenon
  <2> QED
    BY <1>1, <1>4, <2>1, MountNextClaims, FaultsGrow, Zenon
<1> QED
  BY <1>3, <1>4, Zenon DEF TryAttach

LEMMA WaitAttachedClaims ==
    ASSUME VolumesInv, ClaimsInv, NEW m \in Machines, WaitAttached(m)
    PROVE  ClaimsInv'
<1> DEFINE d == proc[m].disk
<1>1. /\ Claims(m, proc[m], cloud, faults) /\ proc[m].pc = "wait"
      /\ d \in Disks /\ UNCHANGED <<provider, zone>>
  BY Zenon DEF ClaimsInv, WaitAttached, At, VolumesInv, IsProc
<1>2. Asking(m, d)
  BY <1>1, Zenon DEF Asking, Claims, Chooses, Reaches, Orderly
<1>3. CASE AttachLoops(m, d)
  BY <1>1, <1>2, <1>3, AttachLoopsClaims, Zenon
<1>4. CASE Fault("slow") /\ Set(m, Failed(m, d)) /\ UNCHANGED cloud
  <2>1. Answer(m, d, Failed(m, d), cloud, faults')
    BY <1>2, <1>4, FailedFields, FaultsGrow, Zenon DEF Answer, Smooth, Asking
  <2> QED
    BY <1>1, <1>2, <1>4, <2>1, AnswerKeeps, FaultsGrow, Zenon
<1> QED
  BY <1>3, <1>4, Zenon DEF WaitAttached

(* A process that has nothing in hand, or runs as a node.                  *)
LEMMA IdleClaims ==
    ASSUME ClaimsInv, NEW m \in Machines, NEW q, NEW f, q.mine = {},
           q.todo \subseteq proc[m].todo, q.pc \notin {"mount", "wait", "list", "spare", "pick"},
           f = 0 => faults = 0,
           Smooth(f) /\ q.pc = "new" => \A d \in Disks : cloud[d].to = m => cloud[d].phase # "asked"
    PROVE  Claims(m, q, cloud, f)
<1>1. Claims(m, proc[m], cloud, faults)
  BY Zenon DEF ClaimsInv
<1>2. Holds(m, q, cloud, f) /\ Chooses(q) /\ Reaches(m, q, cloud)
  BY <1>1, Zenon DEF Claims, Holds, Chooses, Reaches
<1>3. Orderly(m, q, cloud, f)
  BY <1>1, Zenon DEF Claims, Orderly, Smooth
<1> QED
  BY <1>2, <1>3, Zenon DEF Claims

LEMMA MountClaims ==
    ASSUME VolumesInv, ClaimsInv, NEW m \in Machines, safeFormatAndMount(m)
    PROVE  ClaimsInv'
<1> DEFINE p == proc[m]
           q == [p EXCEPT !.pc = "mounted", !.mine = {}]
<1>1. UNCHANGED <<provider, zone, cloud>> /\ IsProc(p)
  BY Zenon DEF safeFormatAndMount, VolumesInv
<1>2. CASE Set(m, q) /\ UNCHANGED faults
  <2>1. Fields(q, "mounted", p.todo, {}, p.disk)
    BY <1>1, Zenon DEF IsProc, Fields
  <2> HIDE DEF q
  <2>2. Claims(m, q, cloud, faults')
    BY <1>2, <2>1, IdleClaims, Zenon DEF Fields
  <2> QED
    BY <1>1, <1>2, <2>2, QuietMove, FaultsGrow, Zenon
<1>3. CASE Fault("mount") /\ \E x \in MountNext(p, p.mine \ {p.disk}) : Set(m, x)
  <2>1. /\ faults' \in Nat /\ faults <= faults' /\ ~Smooth(faults')
    BY <1>3, FaultsGrow, Zenon DEF Smooth
  <2> DEFINE left == p.mine \ {p.disk}
  <2>2. left \subseteq p.mine
    BY Zenon
  <2> HIDE DEF left
  <2>3. PICK x \in MountNext(p, left) : Set(m, x)
    BY <1>3, Zenon DEF left
  <2> QED
    BY <1>1, <2>1, <2>2, <2>3, MountNextClaims, Zenon
<1> QED
  BY <1>2, <1>3, Zenon DEF safeFormatAndMount

LEMMA RunClaims ==
    ASSUME VolumesInv, ClaimsInv, NEW m \in Machines, RunEtcdManager(m) \/ StartServers(m)
    PROVE  ClaimsInv'
<1> DEFINE p == proc[m]
<1>1. UNCHANGED <<provider, zone, cloud>> /\ faults' \in Nat /\ faults <= faults'
  BY FaultsGrow, Zenon DEF RunEtcdManager, StartServers, Down
<1>2. Claims(m, p, cloud, faults) /\ (faults' = 0 => faults = 0)
  BY <1>1 DEF ClaimsInv
<1>3. \/ Set(m, Started) /\ faults' # 0
      \/ \E pc \in {"start", "up"} : Set(m, WithPc(p, pc))
  <2>1. CASE RunEtcdManager(m)
    <3>1. PICK down \in SUBSET Services :
             Down(down) /\ Set(m, IF MyIP(down) THEN WithPc(p, "start") ELSE Started)
      BY <2>1, Zenon DEF RunEtcdManager, WithPc
    <3>2. MyIP({})
      BY Zenon DEF MyIP
    <3>3. down # {} => faults' # 0
      BY <3>1, FaultsGrow, Zenon DEF Down
    <3> QED
      BY <3>1, <3>2, <3>3, Zenon
  <2>2. CASE StartServers(m)
    <3>1. \/ Set(m, WithPc(p, "up"))
          \/ Set(m, Started) /\ Fault("start")
      BY <2>2, Zenon DEF StartServers, WithPc
    <3> QED
      BY <3>1, FaultsGrow, Zenon
  <2> QED
    BY <2>1, <2>2, Zenon
<1>4. CASE Set(m, Started) /\ faults' # 0
  <2>1. Claims(m, Started, cloud, faults')
    BY <1>2, <1>4, StartedFields, IdleClaims, Zenon DEF Fields, Smooth
  <2> QED
    BY <1>1, <1>4, <2>1, QuietMove, Zenon
<1>5. ASSUME NEW pc \in {"start", "up"}, Set(m, WithPc(p, pc))
      PROVE  ClaimsInv'
  <2> DEFINE q == WithPc(p, pc)
  <2>1. Fields(q, pc, p.todo, p.mine, p.disk)
    BY WithPcFields, Zenon DEF VolumesInv
  <2> HIDE DEF q
  <2>2. Claims(m, q, cloud, faults')
    BY <1>2, <2>1, Zenon DEF Fields, Claims, Holds, Chooses, Reaches, Orderly, Smooth
  <2> QED
    BY <1>1, <1>5, <2>2, QuietMove, Zenon DEF q
<1> QED
  BY <1>3, <1>4, <1>5, Zenon

LEMMA EndsClaims ==
    ASSUME VolumesInv, ClaimsInv, NEW m \in Machines, Crash(m) \/ Terminate(m) \/ Replace(m)
    PROVE  ClaimsInv'
<1>1. UNCHANGED <<provider, zone>> /\ faults' \in Nat /\ faults <= faults'
  BY FaultsGrow, Zenon DEF Crash, Terminate, Replace
<1>2. CASE Crash(m) \/ Replace(m)
  <2>1. Smooth(faults') => \A d \in Disks : cloud[d].to # m
    <3>1. Crash(m) => faults' # 0
      BY FaultsGrow, Zenon DEF Crash
    <3>2. Replace(m) => proc[m].pc = "spare" /\ faults' = faults
      BY Zenon DEF Replace, At
    <3> QED
      BY <1>2, <3>1, <3>2, Zenon DEF Smooth, ClaimsInv, Claims, Orderly
  <2>2. Claims(m, Started, cloud, faults')
    BY <1>1, <2>1, StartedFields, IdleClaims DEF Fields, ClaimsInv
  <2> QED
    BY <1>1, <1>2, <2>2, QuietMove, Zenon DEF Crash, Replace
<1>3. CASE Terminate(m)
  <2> DEFINE q == WithPc(Started, "gone")
  <2>1. Set(m, q) /\ cloud' = [d \in Disks |-> IF cloud[d].to = m THEN Free ELSE cloud[d]]
    BY <1>3, Zenon DEF Terminate, WithPc
  <2>2. Fields(q, "gone", {}, {}, None)
    BY StartedFields, Zenon
  <2> HIDE DEF q
  <2>3. m # None /\ Free.to = None /\ Free.phase = "free"
    BY VolumesAssumption, Zenon DEF Free
  <2>4. faults' # 0
    BY <1>3, FaultsGrow, Zenon DEF Terminate
  <2>5. Claims(m, q, cloud', faults')
    BY <2>1, <2>2, <2>3, <2>4, Zenon
       DEF Fields, Claims, Holds, Chooses, Reaches, Orderly, Smooth
  <2>6. \A d \in Disks : cloud'[d] = cloud[d] \/ (cloud[d].to = m /\ cloud'[d] = Free)
    BY <2>1, Zenon
  <2> QED
    BY <1>1, <2>1, <2>3, <2>5, <2>6, OneMoves, Zenon
<1> QED
  BY <1>2, <1>3, Zenon

(* The cloud gives a disk to nobody but the machine that asked for it, and *)
(* gives up only on disks that no process holds.                           *)
LEMMA CloudClaims ==
    ASSUME VolumesInv, ClaimsInv, NEW d \in Disks, CloudAttaches(d) \/ CloudGivesUp(d)
    PROVE  ClaimsInv'
<1>1. UNCHANGED <<provider, zone, proc>>
  BY Zenon DEF CloudAttaches, CloudGivesUp
<1>2. cloud[d] \in CloudStates /\ \A e \in Disks \ {d} : cloud'[e] = cloud[e]
  BY Zenon DEF VolumesInv, CloudAttaches, CloudGivesUp
<1>3. CASE CloudAttaches(d)
  <2>1. PICK x \in {"listed", "there"} :
           cloud[d].phase \in {"asked", "listed"} /\ cloud' = [cloud EXCEPT ![d].phase = x]
    BY <1>3, Zenon DEF CloudAttaches
  <2>2. cloud'[d].to = cloud[d].to /\ cloud'[d].phase = x
    BY <1>2, <2>1, Zenon DEF CloudStates, VolumesInv
  <2>3. faults' = faults
    BY <1>3, Zenon DEF CloudAttaches
  <2>4. ASSUME NEW m \in Machines
        PROVE  Claims(m, proc[m], cloud', faults)
    <3>1. Claims(m, proc[m], cloud, faults) /\ proc[m].mine \subseteq Disks
      BY Zenon DEF ClaimsInv, VolumesInv, IsProc
    <3>2. \A e \in Disks :
             /\ cloud'[e].to = cloud[e].to
             /\ cloud'[e].phase = cloud[e].phase \/ cloud'[e].phase \in {"listed", "there"}
      BY <1>2, <2>2, Zenon
    <3>3. Holds(m, proc[m], cloud', faults)
      BY <3>1, <3>2 DEF Claims, Holds
    <3>4. Chooses(proc[m]) /\ Reaches(m, proc[m], cloud')
      BY <3>1, <3>2, Zenon DEF Claims, Reaches
    <3>5. Orderly(m, proc[m], cloud', faults)
      BY <3>1, <3>2, Zenon DEF Claims, Orderly
    <3> QED
      BY <3>3, <3>4, <3>5, Zenon DEF Claims
  <2>5. \A m \in Machines : Claims(m, proc[m], cloud, faults)'
    BY <1>1, <2>3, <2>4 DEF Claims, Holds, Chooses, Reaches, Orderly, Smooth, Near
  <2>6. \A e \in Disks : cloud'[e].phase = "free" <=> cloud'[e].to = None
    BY <1>2, <2>1, <2>2 DEF ClaimsInv
  <2> QED
    BY <1>1, <2>3, <2>5, <2>6, Zenon DEF ClaimsInv
<1>4. CASE CloudGivesUp(d)
  <2>1. cloud'[d] = Free /\ cloud[d].phase = "asked"
    BY <1>4, Zenon DEF CloudGivesUp, VolumesInv
  <2>2. faults' \in Nat /\ faults' # 0
    BY <1>4, FaultsGrow, Zenon DEF CloudGivesUp
  <2>3. ASSUME NEW m \in Machines
        PROVE  Claims(m, proc[m], cloud', faults')
    <3>1. Claims(m, proc[m], cloud, faults) /\ proc[m].mine \subseteq Disks /\ m # None
      BY VolumesAssumption, Zenon DEF ClaimsInv, VolumesInv, IsProc
    <3>2. Holds(m, proc[m], cloud', faults')
      BY <1>2, <2>1, <2>2, <3>1, Zenon DEF Claims, Holds
    <3>3. \A e \in Disks : cloud'[e].to = m => cloud[e].to = m
      <4>1. cloud'[d].to # m
        BY <2>1, <3>1 DEF Free
      <4> QED
        BY <1>2, <4>1, Zenon
    <3>5. Chooses(proc[m]) /\ Reaches(m, proc[m], cloud')
      BY <3>1, <3>3, Zenon DEF Claims, Reaches
    <3>4. Orderly(m, proc[m], cloud', faults')
      BY <2>2, Zenon DEF Orderly, Smooth
    <3> QED
      BY <3>2, <3>4, <3>5, Zenon DEF Claims
  <2>4. \A m \in Machines : Claims(m, proc[m], cloud, faults)'
    BY <1>1, <2>3 DEF Claims, Holds, Chooses, Reaches, Orderly, Smooth, Near
  <2>5. \A e \in Disks : cloud'[e].phase = "free" <=> cloud'[e].to = None
    BY <1>2, <2>1 DEF ClaimsInv, Free
  <2> QED
    BY <1>1, <2>2, <2>4, <2>5, Zenon DEF ClaimsInv
<1> QED
  BY <1>3, <1>4, Zenon

LEMMA ClaimsInit == Init => ClaimsInv
<1> SUFFICES ASSUME Init PROVE ClaimsInv
  OBVIOUS
<1>1. /\ faults = 0
      /\ provider = "do" => \A d, e \in Disks : zone[d] = zone[e] => d = e
  BY Zenon DEF Init
<1>2. ASSUME NEW d \in Disks
      PROVE  IF provider = "external"
               THEN cloud[d].to \in Machines /\ cloud[d].phase = "there"
               ELSE cloud[d].to = None /\ cloud[d].phase = "free"
  BY DEF Init, Free
<1>3. ASSUME NEW m \in Machines
      PROVE  Claims(m, proc[m], cloud, faults)
  <2>1. proc[m] \in {WithPc(Started, "spare"), Started}
    BY Zenon DEF Init, WithPc
  <2>2. proc[m].pc \in {"new", "spare"} /\ proc[m].todo = {} /\ proc[m].mine = {}
    BY <2>1, StartedFields, Zenon DEF Fields
  <2>3. Holds(m, proc[m], cloud, faults) /\ Chooses(proc[m])
    BY <2>2, Zenon DEF Holds, Chooses
  <2>4. provider # "external" => \A d \in Disks : cloud[d].to # m
    BY <1>2, VolumesAssumption, Zenon
  <2>5. Reaches(m, proc[m], cloud) /\ Orderly(m, proc[m], cloud, faults)
    BY <2>2, <2>4, Zenon DEF Reaches, Orderly, Smooth
  <2> QED
    BY <2>3, <2>5, Zenon DEF Claims
<1>4. \A d \in Disks : cloud[d].phase = "free" <=> cloud[d].to = None
  BY <1>2, VolumesAssumption, Zenon
<1> QED
  BY <1>1, <1>3, <1>4, Zenon DEF ClaimsInv

LEMMA ClaimsStep == VolumesInv /\ ClaimsInv /\ [Next]_vars => ClaimsInv'
<1> SUFFICES ASSUME VolumesInv, ClaimsInv, [Next]_vars
             PROVE  ClaimsInv'
  BY Zenon
<1>1. ASSUME UNCHANGED <<provider, zone, cloud, proc>>, faults' \in Nat, faults <= faults'
      PROVE  ClaimsInv'
  <2>1. faults' = 0 => faults = 0
    BY <1>1 DEF ClaimsInv
  <2> QED
    BY <1>1, <2>1 DEF ClaimsInv, Claims, Holds, Chooses, Reaches, Orderly, Smooth, Near
<1>2. ASSUME NEW m \in Machines, Step(m)
      PROVE  ClaimsInv'
  <2>1. CASE runDiscoveryOnce(m)
    BY <1>1, <2>1, FaultsGrow, Zenon DEF runDiscoveryOnce
  <2> QED
    BY <1>2, <2>1, NewVolumesClaims, ListVolumesClaims, TryAttachClaims, WaitAttachedClaims,
       MountClaims, RunClaims, Zenon DEF Step
<1>3. ASSUME NEW m \in Machines, Crash(m) \/ Terminate(m) \/ Replace(m)
      PROVE  ClaimsInv'
  BY <1>3, EndsClaims, Zenon
<1>4. ASSUME NEW d \in Disks, CloudAttaches(d) \/ CloudGivesUp(d)
      PROVE  ClaimsInv'
  BY <1>4, CloudClaims, Zenon
<1>5. CASE UNCHANGED vars
  BY <1>1, <1>5, FaultsGrow, Zenon DEF vars
<1> QED
  BY <1>2, <1>3, <1>4, <1>5, Zenon DEF Next

(* findAndMountVolume waits for the device of a volume with no time limit. *)
(* It does so for a volume that its machine has been given, or is being    *)
(* given, only: a process that waits is not waiting for another's disk.    *)
THEOREM ProcessesWaitForOwnDisks == Spec => []WaitsForOwnDisk
<1>1. VolumesInv /\ ClaimsInv => WaitsForOwnDisk
  <2> SUFFICES ASSUME ClaimsInv PROVE WaitsForOwnDisk
    BY Zenon
  <2> QED
    BY Zenon DEF WaitsForOwnDisk, ClaimsInv, Claims, Holds, Chooses, At
<1> QED
  BY <1>1, VolumesStep, ClaimsStep, VolumesInit, ClaimsInit, PTL DEF Spec

(* "We only attempt to mount a single volume": while nothing goes wrong,   *)
(* attachMasterVolumes of any provider but azure leaves the other disks to *)
(* the other machines, however its requests interleave with theirs.        *)
THEOREM MachinesTakeOneDisk == Spec => []TakesOneDisk
<1>1. VolumesInv /\ ClaimsInv => TakesOneDisk
  <2> SUFFICES ASSUME VolumesInv, ClaimsInv, faults = 0, provider \notin {"azure", "external"},
                      NEW d \in Disks, NEW e \in Disks,
                      cloud[d].to = cloud[e].to, cloud[d].to # None
               PROVE  d = e
    BY Zenon DEF TakesOneDisk
  <2>1. PICK m \in Machines : cloud[d].to = m /\ cloud[e].to = m
    BY Zenon DEF VolumesInv, CloudStates
  <2>2. Claims(m, proc[m], cloud, faults)
    BY Zenon DEF ClaimsInv
  <2>3. CASE provider = "do"
    BY <2>1, <2>2, <2>3 DEF ClaimsInv, Claims, Reaches, Near
  <2>4. CASE provider # "do"
    BY <2>1, <2>2, <2>4, Zenon DEF Claims, Orderly, Smooth
  <2> QED
    BY <2>3, <2>4, Zenon
<1> QED
  BY <1>1, VolumesStep, ClaimsStep, VolumesInit, ClaimsInit, PTL DEF Spec

----------------------------------------------------------------------------
(* Types.  What VolumesInv and ClaimsInv leave open: the fields of a       *)
(* process, with the device names that aws has reserved (a name is taken   *)
(* for a disk or for none), and what discovery has found.                  *)

Pcs == {"gone", "spare", "new", "list", "pick", "wait", "mount", "mounted", "start", "up"}
Idle == {"gone", "spare", "new", "list", "pick"}
NameMaps == [Names -> Disks \cup {None}]
Procs == [pc : Pcs, todo : SUBSET Disks, mine : SUBSET Disks, disk : Disks \cup {None},
          device : 0..NDevices, names : NameMaps]

ProcOK(p) == p \in Procs /\ (p.disk = None <=> p.pc \in Idle)

TypesInv ==
    /\ zone \in Layouts
    /\ DOMAIN proc = Machines
    /\ proc = [m \in Machines |-> proc[m]]
    /\ \A m \in Machines : ProcOK(proc[m])
    /\ peers \in [Machines -> [Disks -> Machines \cup {None}]]
    /\ faults \in 0..MaxFaults

(* A change of pc and disk that keeps them in step.                        *)
LEMMA MovedIsOK ==
    ASSUME NEW p \in Procs, NEW todo \in SUBSET Disks, NEW mine \in SUBSET Disks
    PROVE  /\ \A pc \in Idle :
                ProcOK([p EXCEPT !.pc = pc, !.todo = todo, !.mine = mine, !.disk = None])
           /\ \A pc \in Pcs \ Idle, d \in Disks :
                ProcOK([p EXCEPT !.pc = pc, !.todo = todo, !.mine = mine, !.disk = d])
<1>1. ASSUME NEW pc \in Pcs, NEW d \in Disks \cup {None}, d = None <=> pc \in Idle
      PROVE  ProcOK([p EXCEPT !.pc = pc, !.todo = todo, !.mine = mine, !.disk = d])
  <2> DEFINE q == [p EXCEPT !.pc = pc, !.todo = todo, !.mine = mine, !.disk = d]
  <2>1. q \in Procs /\ q.pc = pc /\ q.disk = d
    BY Zenon DEF Procs
  <2> HIDE DEF q
  <2>2. ProcOK(q)
    BY <1>1, <2>1, Zenon DEF ProcOK
  <2> QED
    BY <2>2, Zenon DEF q
<1>2. Idle \subseteq Pcs /\ None \notin Disks
  BY VolumesAssumption, Zenon DEF Idle, Pcs
<1> QED
  BY <1>1, <1>2, Zenon

(* The same with fields left alone.                                        *)
LEMMA FieldsKept ==
    ASSUME NEW p \in Procs, NEW pc, NEW todo, NEW mine, NEW d
    PROVE  /\ [p EXCEPT !.pc = pc]
                = [p EXCEPT !.pc = pc, !.todo = p.todo, !.mine = p.mine, !.disk = p.disk]
           /\ [p EXCEPT !.mine = mine]
                = [p EXCEPT !.pc = p.pc, !.todo = p.todo, !.mine = mine, !.disk = p.disk]
           /\ [p EXCEPT !.pc = pc, !.mine = mine]
                = [p EXCEPT !.pc = pc, !.todo = p.todo, !.mine = mine, !.disk = p.disk]
           /\ [p EXCEPT !.pc = pc, !.disk = d]
                = [p EXCEPT !.pc = pc, !.todo = p.todo, !.mine = p.mine, !.disk = d]
           /\ [p EXCEPT !.pc = pc, !.todo = todo, !.disk = d]
                = [p EXCEPT !.pc = pc, !.todo = todo, !.mine = p.mine, !.disk = d]
           /\ [p EXCEPT !.pc = pc, !.mine = mine, !.disk = d]
                = [p EXCEPT !.pc = pc, !.todo = p.todo, !.mine = mine, !.disk = d]
           /\ [p EXCEPT !.pc = pc, !.todo = todo, !.mine = mine]
                = [p EXCEPT !.pc = pc, !.todo = todo, !.mine = mine, !.disk = p.disk]
BY Zenon DEF Procs

LEMMA StartedIsOK ==
    ProcOK(Started) /\ \A pc \in Idle : ProcOK(WithPc(Started, pc))
<1>1. 0 \in 0..NDevices
  BY VolumesAssumption
<1>2. Started \in Procs /\ Started.disk = None /\ Started.pc \in Idle
  BY <1>1, Zenon DEF Started, Procs, Pcs, Idle, NameMaps
<1> HIDE DEF Started
<1>3. ASSUME NEW pc \in Idle
      PROVE  ProcOK(WithPc(Started, pc))
  <2>1. /\ WithPc(Started, pc) \in Procs /\ WithPc(Started, pc).pc = pc
        /\ WithPc(Started, pc).disk = Started.disk
    BY <1>2, Zenon DEF WithPc, Procs, Pcs, Idle
  <2> QED
    BY <1>2, <2>1, Zenon DEF ProcOK
<1> QED
  BY <1>2, <1>3, Zenon DEF ProcOK

LEMMA AttachResultsAreOK ==
    ASSUME TypesInv, NEW m \in Machines, NEW d \in Disks
    PROVE  ProcOK(Failed(m, d)) /\ ProcOK(Got(m, d)) /\ ProcOK(Waiting(m, d))
<1> DEFINE p == proc[m]
           f == Failed(m, d)
<1>1. p \in Procs /\ p.todo \in SUBSET Disks /\ p.mine \in SUBSET Disks /\ d # None
  BY VolumesAssumption, Zenon DEF TypesInv, ProcOK, Procs
<1> HIDE DEF p
<1>0. "pick" \in Idle /\ "wait" \in Pcs \ Idle /\ p.todo \ {d} \in SUBSET Disks
  BY <1>1, Zenon DEF Pcs, Idle
<1>2. f = [p EXCEPT !.pc = "pick", !.todo = p.todo \ {d}, !.mine = p.mine, !.disk = None]
  BY <1>1, FieldsKept, Zenon DEF Failed, p
<1>3. ProcOK(f)
  <2>1. ProcOK([p EXCEPT !.pc = "pick", !.todo = p.todo \ {d}, !.mine = p.mine, !.disk = None])
    BY <1>0, <1>1, MovedIsOK, Zenon
  <2> QED
    BY <1>2, <2>1, Zenon
<1>4. f.pc = "pick" /\ f.disk = None
  BY <1>1, <1>2, Zenon DEF Procs
<1> HIDE DEF f
<1>5. f \in Procs /\ f.todo \in SUBSET Disks /\ f.mine \in SUBSET Disks
  BY <1>3, Zenon DEF ProcOK, Procs
<1>6. ProcOK(Got(m, d))
  <2>1. Got(m, d) = [f EXCEPT !.mine = f.mine \cup {d}]
    BY Zenon DEF Got, f
  <2>2. Got(m, d) = [f EXCEPT !.pc = "pick", !.todo = f.todo, !.mine = f.mine \cup {d},
                              !.disk = None]
    <3>1. [f EXCEPT !.mine = f.mine \cup {d}]
            = [f EXCEPT !.pc = f.pc, !.todo = f.todo, !.mine = f.mine \cup {d}, !.disk = f.disk]
      BY <1>5, FieldsKept, Zenon
    <3> QED
      BY <1>4, <2>1, <3>1, Zenon
  <2>3. f.mine \cup {d} \in SUBSET Disks
    BY <1>5, Zenon
  <2> QED
    <3>1. ProcOK([f EXCEPT !.pc = "pick", !.todo = f.todo, !.mine = f.mine \cup {d},
                           !.disk = None])
      BY <1>0, <1>5, <2>3, MovedIsOK, Zenon
    <3> QED
      BY <2>2, <3>1, Zenon
<1>7. ProcOK(Waiting(m, d))
  <2>1. Waiting(m, d) = [p EXCEPT !.pc = "wait", !.todo = p.todo, !.mine = p.mine, !.disk = d]
    BY <1>1, FieldsKept, Zenon DEF Waiting, p
  <2> QED
    <3>1. ProcOK([p EXCEPT !.pc = "wait", !.todo = p.todo, !.mine = p.mine, !.disk = d])
      BY <1>0, <1>1, MovedIsOK, Zenon
    <3> QED
      BY <2>1, <3>1, Zenon
<1> QED
  BY <1>3, <1>6, <1>7, Zenon DEF f

(* aws: the names of devices that are reserved and released.               *)
LEMMA NamesAreOK ==
    ASSUME NEW p, ProcOK(p), NEW n \in 0..NDevices, NEW names \in NameMaps
    PROVE  /\ ProcOK([p EXCEPT !.device = n, !.names = names])
           /\ ProcOK([p EXCEPT !.names = names])
           /\ ProcOK(releaseDevice(p))
<1> DEFINE q(x) == [p EXCEPT !.names = x]
<1>1. p \in Procs /\ p.names \in NameMaps
  BY Zenon DEF ProcOK, Procs
<1>2. ASSUME NEW x \in NameMaps
      PROVE  ProcOK([p EXCEPT !.names = x])
  <2>1. /\ [p EXCEPT !.names = x] \in Procs
        /\ [p EXCEPT !.names = x].pc = p.pc /\ [p EXCEPT !.names = x].disk = p.disk
    BY <1>1, Zenon DEF Procs
  <2> QED
    BY <2>1, Zenon DEF ProcOK
<1>3. ProcOK([p EXCEPT !.device = n, !.names = names])
  <2> DEFINE r == [p EXCEPT !.device = n, !.names = names]
  <2>1. r \in Procs /\ r.pc = p.pc /\ r.disk = p.disk
    BY <1>1, Zenon DEF Procs
  <2> QED
    BY <2>1, Zenon DEF ProcOK
<1>4. releaseDevice(p) = [p EXCEPT !.names = [p.names EXCEPT ![p.device] = None]]
  BY Zenon DEF releaseDevice
<1>5. [p.names EXCEPT ![p.device] = None] \in NameMaps
  BY <1>1, Zenon DEF NameMaps
<1> QED
  BY <1>2, <1>3, <1>4, <1>5, Zenon

LEMMA AssignedIsOK ==
    ASSUME TypesInv, NEW m \in Machines, NEW d \in Disks, NEW upTo
    PROVE  Assigned(m, d, upTo) \in NameMaps
<1>1. proc[m].names \in NameMaps
  BY Zenon DEF TypesInv, ProcOK, Procs
<1> QED
  BY <1>1, Zenon DEF Assigned, NameMaps

LOCAL INSTANCE WellFoundedInduction

(* The name that is tried first is one of the names.                       *)
LEMMA FirstNameIsOne ==
    ASSUME NEW S \in SUBSET Names, S # {}
    PROVE  Min(S) \in 0..NDevices
<1>1. S \in SUBSET Nat
  BY VolumesAssumption DEF Names
<1>2. \E x \in S : \A y \in S : x <= y
  <2> DEFINE R == OpToRel(<, Nat)
  <2>1. IsWellFoundedOn(R, Nat)
    BY NatLessThanWellFounded, Zenon
  <2>2. \A x, y \in Nat : y < x => <<y, x>> \in R
    BY Zenon DEF OpToRel
  <2> HIDE DEF R
  <2>3. PICK x \in S : \A y \in S : ~(<<y, x>> \in R)
    BY <1>1, <2>1, WFMin, Zenon
  <2>4. \A y \in S : ~(y < x)
    BY <1>1, <2>2, <2>3, Zenon
  <2> QED
    BY <1>1, <2>4
<1>3. Min(S) \in S
  BY <1>2, Zenon DEF Min
<1>4. \A n \in Names : n \in 0..NDevices
  BY VolumesAssumption DEF Names
<1> QED
  BY <1>3, <1>4, Zenon

LEMMA MountNextIsOK ==
    ASSUME NEW p, ProcOK(p), NEW left \in SUBSET Disks, NEW q \in MountNext(p, left)
    PROVE  ProcOK(q)
<1>1. p \in Procs /\ p.todo \in SUBSET Disks
  BY Zenon DEF ProcOK, Procs
<1>2. CASE left = {}
  <2>1. q = [p EXCEPT !.pc = "list", !.mine = {}, !.disk = None]
    BY <1>2, Zenon DEF MountNext
  <2>2. q = [p EXCEPT !.pc = "list", !.todo = p.todo, !.mine = {}, !.disk = None]
    BY <1>1, <2>1, FieldsKept, Zenon
  <2> QED
    BY <1>1, <1>2, <2>2, MovedIsOK, Zenon DEF Pcs, Idle
<1>3. CASE left # {}
  <2>1. PICK d \in left : q = [p EXCEPT !.pc = "mount", !.todo = {}, !.mine = left, !.disk = d]
    BY <1>3, Zenon DEF MountNext
  <2>2. d \in Disks /\ d # None
    BY VolumesAssumption, Zenon
  <2> QED
    BY <1>1, <2>1, <2>2, MovedIsOK, Zenon DEF Pcs, Idle
<1> QED
  BY <1>2, <1>3, Zenon

----------------------------------------------------------------------------
(* One process moves.                                                      *)
Moves(m) == \E q : ProcOK(q) /\ Set(m, q)

LEMMA MoveIsTyped ==
    ASSUME TypesInv, NEW m \in Machines, Moves(m) \/ UNCHANGED proc
    PROVE  /\ DOMAIN proc' = Machines
           /\ proc' = [n \in Machines |-> proc'[n]]
           /\ \A n \in Machines : ProcOK(proc'[n])
<1>1. CASE UNCHANGED proc
  BY <1>1, Zenon DEF TypesInv
<1>2. CASE Moves(m)
  <2>1. PICK q : ProcOK(q) /\ Set(m, q)
    BY <1>2, Zenon DEF Moves
  <2>2. /\ DOMAIN proc' = Machines /\ proc' = [n \in Machines |-> proc'[n]]
        /\ proc'[m] = q /\ \A n \in Machines \ {m} : proc'[n] = proc[n]
    BY <2>1, Zenon DEF TypesInv, Set
  <2> QED
    BY <2>1, <2>2, Zenon DEF TypesInv
<1> QED
  BY <1>1, <1>2, Zenon

LEMMA AsksMoves ==
    ASSUME NEW m, NEW d, NEW a, NEW r, ProcOK(a), ProcOK(r), Asks(m, d, a, r)
    PROVE  Moves(m) /\ (UNCHANGED faults \/ \E kind : Fault(kind))
BY Zenon DEF Asks, Moves

(* AttachVolume, and its loops, of every provider.                         *)
LEMMA AttachMoves ==
    ASSUME TypesInv, NEW m \in Machines, NEW d \in Disks,
           AttachVolume(m, d) \/ AttachLoops(m, d)
    PROVE  Moves(m) /\ (UNCHANGED faults \/ \E kind : Fault(kind))
<1> DEFINE F == Failed(m, d)
           G == Got(m, d)
           W == Waiting(m, d)
           Goal == Moves(m) /\ (UNCHANGED faults \/ \E kind : Fault(kind))
<1>1. ProcOK(F) /\ ProcOK(G) /\ ProcOK(W)
  BY AttachResultsAreOK, Zenon
<1>2. 0 \in 0..NDevices
  BY VolumesAssumption
<1>3. ProcOK(releaseDevice(F))
  BY <1>1, <1>2, NamesAreOK, AssignedIsOK, Zenon
<1> HIDE DEF F, G, W
<1>4. ASSUME Set(m, F) \/ Set(m, G) \/ Set(m, Started) \/ Set(m, releaseDevice(F)),
             UNCHANGED faults
      PROVE  Goal
  BY <1>1, <1>3, <1>4, StartedIsOK, Zenon DEF Moves
<1>5. ASSUME \/ Asks(m, d, W, F) \/ Asks(m, d, G, F) \/ Asks(m, d, W, W)
      PROVE  Goal
  BY <1>1, <1>5, AsksMoves, Zenon
<1>6. ASSUME AttachAWS(m, d)
      PROVE  Goal
  <2> DEFINE usable == Unassigned(m) \ InUse
             n == Min(usable)
             asked(p) == [p EXCEPT !.device = n, !.names = Assigned(m, d, n)]
  <2>1. CASE usable = {}
    <3> DEFINE q == [F EXCEPT !.names = Assigned(m, d, NDevices)]
    <3>1. Set(m, q) /\ UNCHANGED faults
      BY <1>6, <2>1, Zenon DEF AttachAWS, F
    <3>2. ProcOK(q)
      BY <1>1, <1>2, AssignedIsOK, NamesAreOK, Zenon
    <3> HIDE DEF q
    <3> QED
      BY <3>1, <3>2, Zenon DEF Moves
  <2>2. CASE usable # {}
    <3>1. Asks(m, d, asked(W), asked(F))
      BY <1>6, <2>2, Zenon DEF AttachAWS, F, W
    <3>2. n \in 0..NDevices
      BY <2>2, FirstNameIsOne, Zenon DEF Unassigned
    <3>3. ProcOK(asked(W)) /\ ProcOK(asked(F))
      BY <1>1, <3>2, AssignedIsOK, NamesAreOK, Zenon
    <3> HIDE DEF asked
    <3> QED
      BY <3>1, <3>3, AsksMoves, Zenon
  <2> QED
    BY <2>1, <2>2, Zenon
<1> HIDE DEF Goal
<1> USE DEF F, G, W
<1>7. ASSUME AttachVolume(m, d)
      PROVE  Goal
  BY <1>4, <1>5, <1>6, <1>7, Zenon
     DEF AttachVolume, AttachGCE, AttachAzure, AttachOpenstack, AttachDO, AttachLinode,
         AttachHetzner, AttachScaleway
<1>8. ASSUME AttachLoops(m, d)
      PROVE  Goal
  BY <1>4, <1>5, <1>8, Zenon
     DEF AttachLoops, WaitAWS, WaitForOp, WaitAzure, WaitDO, AttachDO, AttachLinode,
         WaitHetzner, AttachScaleway
<1> QED
  BY <1>7, <1>8, Zenon DEF Goal

----------------------------------------------------------------------------
(* The steps.                                                              *)

LEMMA CountStays ==
    ASSUME faults \in 0..MaxFaults, UNCHANGED faults \/ \E kind : Fault(kind)
    PROVE  faults' \in 0..MaxFaults
BY VolumesAssumption DEF Fault

LEMMA StepMoves ==
    ASSUME VolumesInv, TypesInv, NEW m \in Machines,
           \/ NewVolumes(m) \/ ListVolumes(m) \/ TryAttach(m) \/ WaitAttached(m)
           \/ safeFormatAndMount(m) \/ RunEtcdManager(m) \/ StartServers(m)
           \/ Crash(m) \/ Terminate(m) \/ Replace(m)
    PROVE  /\ Moves(m) \/ UNCHANGED proc
           /\ UNCHANGED faults \/ \E kind : Fault(kind)
<1> DEFINE p == proc[m]
           Counts == UNCHANGED faults \/ \E kind : Fault(kind)
<1>1. /\ ProcOK(p) /\ p \in Procs /\ p.todo \in SUBSET Disks /\ p.mine \in SUBSET Disks
      /\ p.disk \in Disks \cup {None} /\ (p.disk = None <=> p.pc \in Idle)
  BY Zenon DEF TypesInv, ProcOK, Procs
<1>2. /\ {"new", "list", "pick", "gone"} \subseteq Idle
      /\ {"wait", "mount", "mounted", "start", "up"} \subseteq Pcs \ Idle
  BY Zenon DEF Pcs, Idle
<1>3. ASSUME NewVolumes(m) PROVE Moves(m) /\ Counts
  <2>1. PICK pc \in {"list", "new"} : Set(m, WithPc(p, pc))
    BY <1>3, Zenon DEF NewVolumes, WithPc
  <2>2. p.disk = None
    BY <1>1, <1>2, <1>3, Zenon DEF NewVolumes, At
  <2>3. ProcOK([p EXCEPT !.pc = pc, !.todo = p.todo, !.mine = p.mine, !.disk = None])
    BY <1>1, <1>2, MovedIsOK, Zenon
  <2>4. WithPc(p, pc) = [p EXCEPT !.pc = pc, !.todo = p.todo, !.mine = p.mine, !.disk = p.disk]
    BY <1>1, FieldsKept, Zenon DEF WithPc
  <2>5. ProcOK(WithPc(p, pc))
    BY <2>2, <2>3, <2>4, Zenon
  <2> QED
    BY <1>3, <2>1, <2>5, Zenon DEF Moves, NewVolumes, Down
<1>4. ASSUME ListVolumes(m) PROVE (Moves(m) \/ UNCHANGED proc) /\ Counts
  <2> DEFINE found == FindVolumes(m)
             todo == {d \in DOMAIN found : found[d].to = None}
             mine == {d \in DOMAIN found : found[d].local}
  <2>1. todo \in SUBSET Disks /\ mine \in SUBSET Disks
    BY FoundAreDisks, Zenon
  <2>2. \/ UNCHANGED proc /\ Fault("api")
        \/ Set(m, Listed(p, todo, mine)) /\ UNCHANGED faults
    BY <1>4, Zenon DEF ListVolumes, Listed
  <2>3. p.disk = None
    BY <1>1, <1>2, <1>4, Zenon DEF ListVolumes, At
  <2> HIDE DEF todo, mine
  <2>4. ProcOK([p EXCEPT !.pc = "pick", !.todo = todo, !.mine = mine, !.disk = None])
    BY <1>1, <1>2, <2>1, MovedIsOK, Zenon
  <2>5. Listed(p, todo, mine)
          = [p EXCEPT !.pc = "pick", !.todo = todo, !.mine = mine, !.disk = p.disk]
    BY <1>1, FieldsKept, Zenon DEF Listed
  <2>6. ProcOK(Listed(p, todo, mine))
    BY <2>3, <2>4, <2>5, Zenon
  <2> QED
    BY <2>2, <2>6, Zenon DEF Moves
<1>5. ASSUME TryAttach(m) PROVE Moves(m) /\ Counts
  <2>1. CASE \E d \in p.todo : AttachVolume(m, d)
    BY <1>1, <2>1, AttachMoves, Zenon
  <2>2. CASE (\E q \in MountNext(p, p.mine) : Set(m, q)) /\ UNCHANGED faults
    BY <1>1, <2>2, MountNextIsOK, Zenon DEF Moves
  <2> QED
    BY <1>5, <2>1, <2>2, Zenon DEF TryAttach
<1>6. ASSUME WaitAttached(m) PROVE Moves(m) /\ Counts
  <2>1. p.disk \in Disks
    BY <1>1, <1>2, <1>6, Zenon DEF WaitAttached, At
  <2>2. CASE AttachLoops(m, p.disk)
    BY <2>1, <2>2, AttachMoves, Zenon
  <2>3. CASE Fault("slow") /\ Set(m, Failed(m, p.disk))
    BY <2>1, <2>3, AttachResultsAreOK, Zenon DEF Moves
  <2> QED
    BY <1>6, <2>2, <2>3, Zenon DEF WaitAttached
<1>7. ASSUME NEW pc \in {"mounted", "start", "up"}, p.pc \in {"mount", "mounted", "start"},
             NEW mine \in SUBSET Disks
      PROVE  ProcOK([p EXCEPT !.pc = pc, !.todo = p.todo, !.mine = mine, !.disk = p.disk])
  <2>1. p.disk \in Disks
    BY <1>1, <1>2, <1>7, Zenon
  <2> QED
    BY <1>1, <1>2, <2>1, MovedIsOK, Zenon
<1>8. ASSUME safeFormatAndMount(m) PROVE Moves(m) /\ Counts
  <2> DEFINE q == [p EXCEPT !.pc = "mounted", !.mine = {}]
             left == p.mine \ {p.disk}
  <2>1. \/ Set(m, q) /\ UNCHANGED faults
        \/ Fault("mount") /\ \E x \in MountNext(p, left) : Set(m, x)
    BY <1>8, Zenon DEF safeFormatAndMount
  <2>2. q = [p EXCEPT !.pc = "mounted", !.todo = p.todo, !.mine = {}, !.disk = p.disk]
    BY <1>1, FieldsKept, Zenon
  <2>3. p.pc = "mount" /\ {} \in SUBSET Disks
    BY <1>8, Zenon DEF safeFormatAndMount, At
  <2>4. ProcOK(q)
    BY <1>7, <2>2, <2>3, Zenon
  <2>5. left \in SUBSET Disks
    BY <1>1, Zenon
  <2> HIDE DEF q, left
  <2>6. \A x \in MountNext(p, left) : ProcOK(x)
    BY <1>1, <2>5, MountNextIsOK, Zenon
  <2> QED
    BY <2>1, <2>4, <2>6, Zenon DEF Moves
<1>9. ASSUME RunEtcdManager(m) \/ StartServers(m) PROVE Moves(m) /\ Counts
  <2>1. /\ p.pc \in {"mounted", "start"}
        /\ Set(m, Started) \/ \E pc \in {"start", "up"} : Set(m, WithPc(p, pc))
    BY <1>9, Zenon DEF RunEtcdManager, StartServers, At, WithPc
  <2>2. Counts
    BY <1>9, Zenon DEF RunEtcdManager, StartServers, Down
  <2>3. ASSUME NEW pc \in {"start", "up"} PROVE ProcOK(WithPc(p, pc))
    <3>1. WithPc(p, pc) = [p EXCEPT !.pc = pc, !.todo = p.todo, !.mine = p.mine, !.disk = p.disk]
      BY <1>1, FieldsKept, Zenon DEF WithPc
    <3>2. ProcOK([p EXCEPT !.pc = pc, !.todo = p.todo, !.mine = p.mine, !.disk = p.disk])
      BY <1>1, <1>7, <2>1, Zenon
    <3> QED
      BY <3>1, <3>2, Zenon
  <2> QED
    BY <2>1, <2>2, <2>3, StartedIsOK, Zenon DEF Moves
<1>10. ASSUME Crash(m) \/ Terminate(m) \/ Replace(m) PROVE Moves(m) /\ Counts
  <2>1. Set(m, Started) \/ Set(m, WithPc(Started, "gone"))
    BY <1>10, Zenon DEF Crash, Terminate, Replace, WithPc
  <2> QED
    BY <1>2, <1>10, <2>1, StartedIsOK, Zenon DEF Moves, Crash, Terminate, Replace
<1> QED
  BY <1>3, <1>4, <1>5, <1>6, <1>8, <1>9, <1>10, Zenon

(* Poll finds machines, under the names of disks.                          *)
LEMMA PollFindsMachines ==
    ASSUME VolumesInv, NEW m, NEW away, NEW nodes \in Nodes(m, away), NEW d \in Disks,
           d \in DOMAIN nodes
    PROVE  nodes[d] \in Machines \cup {None}
<1>1. Shown(d) \in Machines \cup {None}
  BY Zenon DEF VolumesInv, Shown, CloudStates
<1>2. \E S : nodes = NodesOf(S)
  BY VolumesAssumption, Zenon
     DEF VolumesInv, Nodes, PollAWS, PollGCE, PollAzure, PollOpenstack, PollDO, PollLinode,
         PollHetzner, PollScaleway, PollExternal
<1>3. nodes[d] = Shown(d)
  BY <1>2, Zenon DEF NodesOf
<1> QED
  BY <1>1, <1>3, Zenon

LEMMA PeersAreTyped ==
    ASSUME VolumesInv, TypesInv, [Next]_vars
    PROVE  peers' \in [Machines -> [Disks -> Machines \cup {None}]]
<1> DEFINE Found == [Disks -> Machines \cup {None}]
<1>1. peers \in [Machines -> Found]
  BY Zenon DEF TypesInv
<1>2. CASE UNCHANGED peers
  BY <1>1, <1>2, Zenon
<1>3. CASE \E m \in Machines : peers' = [peers EXCEPT ![m] = [d \in Disks |-> None]]
  <2>1. [d \in Disks |-> None] \in Found
    BY Zenon
  <2> HIDE DEF Found
  <2>2. peers' \in [Machines -> Found]
    BY <1>1, <1>3, <2>1, Zenon
  <2> QED
    BY <2>2, Zenon DEF Found
<1>4. ASSUME NEW m \in Machines, runDiscoveryOnce(m)
      PROVE  peers' \in [Machines -> Found]
  <2>1. PICK away : \E nodes \in Nodes(m, away) :
              peers' = [peers EXCEPT ![m] =
                          [d \in Disks |-> IF d \in DOMAIN nodes THEN nodes[d] ELSE peers[m][d]]]
    BY <1>4, Zenon DEF runDiscoveryOnce
  <2>2. PICK nodes \in Nodes(m, away) :
              peers' = [peers EXCEPT ![m] =
                          [d \in Disks |-> IF d \in DOMAIN nodes THEN nodes[d] ELSE peers[m][d]]]
    BY <2>1, Zenon
  <2> DEFINE found == [d \in Disks |-> IF d \in DOMAIN nodes THEN nodes[d] ELSE peers[m][d]]
  <2>3. \A d \in Disks : peers[m][d] \in Machines \cup {None}
    BY <1>1, Zenon
  <2>4. \A d \in Disks : d \in DOMAIN nodes => nodes[d] \in Machines \cup {None}
    BY PollFindsMachines, Zenon
  <2>5. found \in Found
    BY <2>3, <2>4, Zenon
  <2> HIDE DEF found, Found
  <2> QED
    BY <1>1, <2>2, <2>5, Zenon DEF found
<1> QED
  BY <1>2, <1>3, <1>4, Zenon
     DEF Next, Step, vars, NewVolumes, ListVolumes, TryAttach, WaitAttached, safeFormatAndMount,
         RunEtcdManager, StartServers, Crash, Terminate, Replace, CloudAttaches, CloudGivesUp

LEMMA TypesInit == Init => TypesInv
<1> SUFFICES ASSUME Init PROVE TypesInv
  BY Zenon
<1>1. proc = [m \in Machines |->
                IF m \in Spares THEN WithPc(Started, "spare") ELSE Started]
  BY Zenon DEF Init, WithPc
<1>2. ProcOK(WithPc(Started, "spare")) /\ ProcOK(Started)
  BY StartedIsOK, Zenon DEF Idle
<1>3. /\ DOMAIN proc = Machines /\ proc = [m \in Machines |-> proc[m]]
      /\ \A m \in Machines : ProcOK(proc[m])
  BY <1>1, <1>2, Zenon
<1>4. faults \in 0..MaxFaults
  BY VolumesAssumption DEF Init
<1>5. zone \in Layouts /\ peers \in [Machines -> [Disks -> Machines \cup {None}]]
  BY Zenon DEF Init
<1> QED
  BY <1>3, <1>4, <1>5, Zenon DEF TypesInv

LEMMA TypesStep == VolumesInv /\ TypesInv /\ [Next]_vars => TypesInv'
<1> SUFFICES ASSUME VolumesInv, TypesInv, [Next]_vars
             PROVE  TypesInv'
  BY Zenon
<1>1. peers' \in [Machines -> [Disks -> Machines \cup {None}]]
  BY PeersAreTyped, Zenon
<1>2. zone' \in Layouts
  BY Zenon
     DEF TypesInv, Next, Step, vars, NewVolumes, ListVolumes, TryAttach, WaitAttached,
         safeFormatAndMount, RunEtcdManager, StartServers, runDiscoveryOnce, Crash, Terminate,
         Replace, CloudAttaches, CloudGivesUp
<1>3. ASSUME UNCHANGED faults \/ \E kind : Fault(kind),
             UNCHANGED proc \/ \E m \in Machines : Moves(m)
      PROVE  TypesInv'
  <2>1. faults' \in 0..MaxFaults
    BY <1>3, CountStays, Zenon DEF TypesInv
  <2>2. /\ DOMAIN proc' = Machines /\ proc' = [n \in Machines |-> proc'[n]]
        /\ \A n \in Machines : ProcOK(proc'[n])
    BY <1>3, MoveIsTyped, Zenon DEF TypesInv
  <2> QED
    BY <1>1, <1>2, <2>1, <2>2, Zenon DEF TypesInv
<1>4. ASSUME NEW m \in Machines, Step(m) \/ Crash(m) \/ Terminate(m) \/ Replace(m)
      PROVE  TypesInv'
  <2>1. CASE runDiscoveryOnce(m)
    BY <1>3, <2>1, Zenon DEF runDiscoveryOnce
  <2> QED
    BY <1>3, <1>4, <2>1, StepMoves, Zenon DEF Step
<1>5. ASSUME NEW d \in Disks, CloudAttaches(d) \/ CloudGivesUp(d)
      PROVE  TypesInv'
  BY <1>3, <1>5, Zenon DEF CloudAttaches, CloudGivesUp
<1>6. CASE UNCHANGED vars
  BY <1>3, <1>6, Zenon DEF vars
<1> QED
  BY <1>4, <1>5, <1>6, Zenon DEF Next

(* The variables keep their types whatever fails, on every provider: a     *)
(* process has a disk in hand exactly from the attachment that it waits    *)
(* for on, and a disk has a machine exactly while it is not free.          *)
THEOREM VolumesTypes == Spec => []VolumesTypeOK
<1>1. VolumesInv /\ ClaimsInv /\ TypesInv => VolumesTypeOK
  <2> SUFFICES ASSUME VolumesInv, ClaimsInv, TypesInv
               PROVE  VolumesTypeOK
    BY Zenon
  <2>1. proc \in [Machines -> Procs] /\ \A m \in Machines : proc[m].disk = None <=> proc[m].pc \in Idle
    BY Zenon DEF TypesInv, ProcOK
  <2> QED
    BY <2>1, Zenon
       DEF VolumesTypeOK, VolumesInv, ClaimsInv, TypesInv, Procs, Pcs, Idle, NameMaps, CloudStates
<1> QED
  BY <1>1, VolumesInit, VolumesStep, ClaimsInit, ClaimsStep, TypesInit, TypesStep, PTL DEF Spec
=============================================================================
