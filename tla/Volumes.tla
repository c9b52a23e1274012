------------------------------ MODULE Volumes ------------------------------
(***************************************************************************)
(* How a machine gets its data and its identity (pkg/volumes and its       *)
(* providers, cmd/etcd-manager/main.go).  etcd-manager lists the volumes   *)
(* of its cluster, attaches one that is free, waits for its device, mounts *)
(* it and runs as the etcd node that the volume names.  Machines race for  *)
(* the volumes through the cloud's API and through nothing else; discovery *)
(* reads the same attachments to find the other nodes.                     *)
(*                                                                         *)
(* A disk stands for a volume, for its EtcdName and for its device.  The   *)
(* zone of a disk or a machine is what the provider filters by: the        *)
(* availability zone, the region, the location or DigitalOcean's k8s-index *)
(* tag.                                                                    *)
(***************************************************************************)
EXTENDS Naturals, FiniteSets, FiniteSetsExt

CONSTANTS
    Machines,       \* the machines of the control plane
    Spares,         \* those of them that only replace one that has gone
    Disks,          \* the volumes that carry the cluster's tags
    Zones,          \* where machines and disks may be
    Layouts,        \* and where they are: functions from both to Zones
    Providers,      \* the values of -volume-provider under check
    NDevices,       \* how many device names aws/volumes.go may hand out
    InUse,          \* the names that something else on the machine has taken
    Failures,       \* the kinds of faults that may happen
    MaxFaults,      \* and how many of them
    None

ASSUME VolumesAssumption ==
    /\ Providers \subseteq {"aws", "gce", "azure", "openstack", "do", "linode", "hetzner",
                            "scaleway", "external"}
    /\ IsFiniteSet(Machines) /\ IsFiniteSet(Disks)
    /\ Spares \subseteq Machines
    /\ None \notin Machines \cup Disks
    /\ Layouts \subseteq [Machines \cup Disks -> Zones]
    /\ NDevices \in Nat /\ InUse \subseteq 1..NDevices
    /\ MaxFaults \in Nat

Services == {"metadata", "drive", "api", "address"}

VARIABLES
    provider,       \* -volume-provider
    zone,           \* of every machine and disk
    cloud,          \* the cloud's record of every disk
    proc,           \* etcd-manager on every machine
    peers,          \* the addresses that its discovery has found, by node name
    faults          \* the faults so far

vars == <<provider, zone, cloud, proc, peers, faults>>

Names == 1..NDevices

\* A process that has just been started, by the kubelet or by the machine.
Started == [pc |-> "new", todo |-> {}, mine |-> {}, disk |-> None,
            device |-> 0, names |-> [n \in Names |-> None]]

Free == [to |-> None, phase |-> "free"]

Init ==
    /\ provider \in Providers
    /\ zone \in Layouts
    /\ provider = "do" => \A d, e \in Disks : zone[d] = zone[e] => d = e
    /\ IF provider = "external"
         THEN cloud \in [Disks -> [to: Machines, phase: {"there"}]]
         ELSE cloud = [d \in Disks |-> Free]
    /\ proc = [m \in Machines |->
                 IF m \in Spares THEN [Started EXCEPT !.pc = "spare"] ELSE Started]
    /\ peers = [m \in Machines |-> [d \in Disks |-> None]]
    /\ faults = 0

\* One more fault of the given kind.
Fault(kind) ==
    /\ kind \in Failures
    /\ faults < MaxFaults
    /\ faults' = faults + 1

Set(m, p) == proc' = [proc EXCEPT ![m] = p]

At(m, pc) == proc[m].pc = pc

----------------------------------------------------------------------------
(* The cloud (external).  A request to attach is accepted for a free disk  *)
(* only, and takes effect later: "asked", then "listed" as attached, then  *)
(* "there" as a device of the machine.                                     *)

\* The machine that the API reports for a disk.
Shown(d) == IF cloud[d].phase \in {"listed", "there"} THEN cloud[d].to ELSE None

CloudAttaches(d) ==
    /\ \/ cloud[d].phase = "asked" /\ cloud' = [cloud EXCEPT ![d].phase = "listed"]
       \/ cloud[d].phase = "listed" /\ cloud' = [cloud EXCEPT ![d].phase = "there"]
    /\ UNCHANGED <<provider, zone, proc, peers, faults>>

CloudGivesUp(d) ==
    /\ Fault("giveUp")
    /\ cloud[d].phase = "asked"
    /\ cloud' = [cloud EXCEPT ![d] = Free]
    /\ UNCHANGED <<provider, zone, proc, peers>>

\* A request for disk d by machine m, after which the process goes on as
\* accepted or as refused; the answer may be lost.
Asks(m, d, accepted, refused) ==
    \/ /\ cloud[d].phase # "free"
       /\ Set(m, refused)
       /\ UNCHANGED <<cloud, faults>>
    \/ /\ cloud[d].phase = "free"
       /\ cloud' = [cloud EXCEPT ![d] = [to |-> m, phase |-> "asked"]]
       /\ \/ Set(m, accepted) /\ UNCHANGED faults
          \/ Set(m, refused) /\ Fault("lost")

----------------------------------------------------------------------------
(* The constructors.  Each reads what it must know of its machine; when a  *)
(* service it needs is down, the process exits and is started again.       *)

NewAWSVolumes(down) == "metadata" \notin down
NewGCEVolumes(down) == {"metadata", "api"} \cap down = {}
NewAzureVolumes(down) == "metadata" \notin down
getMetadata(down) == "drive" \notin down \/ "metadata" \notin down
NewOpenstackVolumes(down) == getMetadata(down) /\ "api" \notin down
NewDOVolumes(down) == "metadata" \notin down
NewLinodeVolumes(down) == "metadata" \notin down
NewHetznerVolumes(down) == {"metadata", "api"} \cap down = {}
NewScalewayVolumes(down) == {"metadata", "api"} \cap down = {}
NewExternalVolumes(down) == "address" \notin down

NewProvider(down) ==
    CASE provider = "aws" -> NewAWSVolumes(down)
      [] provider = "gce" -> NewGCEVolumes(down)
      [] provider = "openstack" -> NewOpenstackVolumes(down)
      [] provider = "do" -> NewDOVolumes(down)
      [] provider = "hetzner" -> NewHetznerVolumes(down)
      [] provider = "linode" -> NewLinodeVolumes(down)
      [] provider = "azure" -> NewAzureVolumes(down)
      [] provider = "scaleway" -> NewScalewayVolumes(down)
      [] provider = "external" -> NewExternalVolumes(down)

\* The services that are down while a process asks for them.
Down(down) == IF down = {} THEN UNCHANGED faults ELSE Fault("services")

NewVolumes(m) ==
    /\ At(m, "new")
    /\ \E down \in SUBSET Services :
          /\ Down(down)
          /\ Set(m, [proc[m] EXCEPT !.pc = IF NewProvider(down) THEN "list" ELSE "new"])
    /\ UNCHANGED <<provider, zone, cloud, peers>>

\* MyIP: kept by the constructor, read from the metadata or asked of the API.
MyIP(down) ==
    /\ provider = "do" => "metadata" \notin down
    /\ provider \in {"linode", "scaleway"} => "api" \notin down

----------------------------------------------------------------------------
(* FindVolumes: the volumes that a machine is shown, each with the machine *)
(* that it is attached to and whether LocalDevice is set.                  *)

Volume(m, d) == [to |-> Shown(d), local |-> Shown(d) = m]

Near(m) == {d \in Disks : zone[d] = zone[m]}

findVolumesAWS(m) == [d \in Near(m) |-> Volume(m, d)]
findVolumesGCE(m) == [d \in Near(m) |-> Volume(m, d)]
findVolumesAzure(m) == [d \in Disks |-> Volume(m, d)]
findVolumesOpenstack(m) == [d \in Near(m) |-> Volume(m, d)]
findMatchingVolumesLinode(m) == [d \in Near(m) |-> Volume(m, d)]
findVolumesHetzner(m) == [d \in Near(m) |-> Volume(m, d)]
findVolumesScaleway(m) == [d \in Near(m) |-> Volume(m, d)]
findVolumesExternal(m) == [d \in {e \in Disks : cloud[e].to = m} |-> Volume(m, d)]

\* do: LocalDevice is set for a volume that is attached to any droplet.
appendMatchedVolume(d) == [to |-> Shown(d), local |-> Shown(d) # None]
findVolumesDO(m) == [d \in Near(m) |-> appendMatchedVolume(d)]

FindVolumes(m) ==
    CASE provider = "aws" -> findVolumesAWS(m)
      [] provider = "gce" -> findVolumesGCE(m)
      [] provider = "azure" -> findVolumesAzure(m)
      [] provider = "openstack" -> findVolumesOpenstack(m)
      [] provider = "do" -> findVolumesDO(m)
      [] provider = "linode" -> findMatchingVolumesLinode(m)
      [] provider = "hetzner" -> findVolumesHetzner(m)
      [] provider = "scaleway" -> findVolumesScaleway(m)
      [] provider = "external" -> findVolumesExternal(m)

\* azure: no link from the LUN of an attached disk to a device.
findLocalDeviceFails(m) ==
    provider = "azure" /\ \E d \in Disks : Shown(d) = m /\ cloud[d].phase # "there"

----------------------------------------------------------------------------
(* attachMasterVolumes: list the volumes; when none is local, try those    *)
(* that nobody has, one after the other, until one is attached.            *)

\* A list that fails is asked for again.
ListVolumes(m) ==
    /\ At(m, "list")
    /\ \/ /\ ~findLocalDeviceFails(m)
          /\ LET found == FindVolumes(m) IN
             Set(m, [proc[m] EXCEPT
                       !.pc = "pick",
                       !.todo = {d \in DOMAIN found : found[d].to = None},
                       !.mine = {d \in DOMAIN found : found[d].local}])
          /\ UNCHANGED faults
       \/ /\ Fault("api")
          /\ UNCHANGED proc
    /\ UNCHANGED <<provider, zone, cloud, peers>>

\* AttachVolume returned an error, or nil with LocalDevice set; it waits.
Failed(m, d) == [proc[m] EXCEPT !.pc = "pick", !.todo = @ \ {d}, !.disk = None]
Got(m, d) == [Failed(m, d) EXCEPT !.mine = @ \cup {d}]
Waiting(m, d) == [proc[m] EXCEPT !.pc = "wait", !.disk = d]

\* aws: the names that may still be assigned; each name tried is reserved, and
\* a name that the API finds in use stays reserved.
Unassigned(m) == {n \in Names : proc[m].names[n] = None}
Assigned(m, d, upTo) ==
    [n \in Names |-> IF n \in Unassigned(m) /\ n <= upTo THEN d ELSE proc[m].names[n]]

AttachAWS(m, d) ==
    LET usable == Unassigned(m) \ InUse
        n == Min(usable)
        asked(p) == [p EXCEPT !.device = n, !.names = Assigned(m, d, n)]
    IN  IF usable = {}
          THEN /\ Set(m, [Failed(m, d) EXCEPT !.names = Assigned(m, d, NDevices)])
               /\ UNCHANGED <<cloud, faults>>
          ELSE Asks(m, d, asked(Waiting(m, d)), asked(Failed(m, d)))

releaseDevice(p) == [p EXCEPT !.names[p.device] = None]

WaitAWS(m, d) ==
    /\ cloud[d].phase # "asked"
    /\ Set(m, CASE Shown(d) = m -> Got(m, d)
                [] Shown(d) = None -> Failed(m, d)
                [] OTHER -> releaseDevice(Failed(m, d)))
    /\ UNCHANGED <<cloud, faults>>

AttachGCE(m, d) == Asks(m, d, Waiting(m, d), Failed(m, d))

\* A mutant of WaitForOp: the error of a finished operation is not looked at.
WaitForOpUnchecked(m, d) ==
    /\ cloud[d] # [to |-> m, phase |-> "asked"]
    /\ Set(m, Got(m, d))
    /\ UNCHANGED <<cloud, faults>>

WaitForOp(m, d) ==
    /\ cloud[d] # [to |-> m, phase |-> "asked"]
    /\ Set(m, IF Shown(d) = m THEN Got(m, d) ELSE Failed(m, d))
    /\ UNCHANGED <<cloud, faults>>

\* azure: the update returns once the disk is attached, which may be before
\* its device is there.
AttachAzure(m, d) == Asks(m, d, Waiting(m, d), Failed(m, d))

lunToDev(m, d) == cloud[d] = [to |-> m, phase |-> "there"]

WaitAzure(m, d) ==
    /\ cloud[d] # [to |-> m, phase |-> "asked"]
    /\ Set(m, IF lunToDev(m, d) THEN Got(m, d) ELSE Failed(m, d))
    /\ UNCHANGED <<cloud, faults>>

\* openstack: the request is taken for the attachment.
AttachOpenstack(m, d) == Asks(m, d, Got(m, d), Failed(m, d))

\* do: the request is sent again until the volume is seen to be attached.
AttachDO(m, d) == Asks(m, d, Waiting(m, d), Failed(m, d))

WaitDO(m, d) ==
    IF Shown(d) = None
      THEN AttachDO(m, d)
      ELSE /\ Set(m, IF Shown(d) = m THEN Got(m, d) ELSE Failed(m, d))
           /\ UNCHANGED <<cloud, faults>>

\* linode: as do, asking who has the volume first and ignoring the answer.
AttachLinode(m, d) ==
    IF Shown(d) = None
      THEN Asks(m, d, Waiting(m, d), Waiting(m, d))
      ELSE /\ Set(m, IF Shown(d) = m THEN Got(m, d) ELSE Failed(m, d))
           /\ UNCHANGED <<cloud, faults>>

\* hetzner: a volume that this call attached has no LocalDevice when it
\* returns, and attachMasterVolumes ends the process.
AttachHetzner(m, d) ==
    IF Shown(d) = None
      THEN Asks(m, d, Waiting(m, d), Failed(m, d))
      ELSE /\ Set(m, IF Shown(d) = m THEN Got(m, d) ELSE Failed(m, d))
           /\ UNCHANGED <<cloud, faults>>

WaitHetzner(m, d) ==
    /\ cloud[d] # [to |-> m, phase |-> "asked"]
    /\ Set(m, IF Shown(d) = m THEN Started ELSE Failed(m, d))
    /\ UNCHANGED <<cloud, faults>>

\* scaleway: as linode, but an error ends the call, and the volume and the
\* server must settle before the loop goes round.
AttachScaleway(m, d) ==
    IF Shown(d) = None
      THEN Asks(m, d, Waiting(m, d), Failed(m, d))
      ELSE /\ Set(m, IF Shown(d) = m THEN Got(m, d) ELSE Failed(m, d))
           /\ UNCHANGED <<cloud, faults>>

\* The volumes of external are all local; none is ever attached.
AttachVolume(m, d) ==
    CASE provider = "aws" -> AttachAWS(m, d)
      [] provider = "gce" -> AttachGCE(m, d)
      [] provider = "azure" -> AttachAzure(m, d)
      [] provider = "openstack" -> AttachOpenstack(m, d)
      [] provider = "do" -> AttachDO(m, d)
      [] provider = "linode" -> AttachLinode(m, d)
      [] provider = "hetzner" -> AttachHetzner(m, d)
      [] provider = "scaleway" -> AttachScaleway(m, d)
      [] OTHER -> FALSE

AttachLoops(m, d) ==
    CASE provider = "aws" -> WaitAWS(m, d)
      [] provider = "gce" -> WaitForOp(m, d)
      [] provider = "azure" -> WaitAzure(m, d)
      [] provider = "do" -> WaitDO(m, d)
      [] provider = "linode" -> AttachLinode(m, d)
      [] provider = "hetzner" -> WaitHetzner(m, d)
      [] provider = "scaleway" -> cloud[d].phase # "asked" /\ AttachScaleway(m, d)
      [] OTHER -> FALSE

\* The call waits in its loop; a read that fails, or a time limit, ends it.
WaitAttached(m) ==
    /\ At(m, "wait")
    /\ \/ AttachLoops(m, proc[m].disk)
       \/ /\ Fault("slow")
          /\ Set(m, Failed(m, proc[m].disk))
          /\ UNCHANGED cloud
    /\ UNCHANGED <<provider, zone, peers>>

----------------------------------------------------------------------------
(* mountMasterVolumes: the first attached volume that can be mounted.      *)

\* A mutant of MountNext: without a volume the process does not list again.
MountNextOnce(p, left) ==
    IF left = {} THEN {[p EXCEPT !.pc = "pick", !.todo = {}, !.mine = {}, !.disk = None]}
    ELSE {[p EXCEPT !.pc = "mount", !.todo = {}, !.mine = left, !.disk = d] : d \in left}

\* The volume whose device the process goes on to wait for, if there is one
\* left; without, WaitForVolumes lists again.
MountNext(p, left) ==
    IF left = {} THEN {[p EXCEPT !.pc = "list", !.mine = {}, !.disk = None]}
    ELSE {[p EXCEPT !.pc = "mount", !.todo = {}, !.mine = left, !.disk = d] : d \in left}

\* A mutant of TryAttach: the loop goes on after a volume is attached.
TryAttachAll(m) ==
    /\ At(m, "pick")
    /\ \/ \E d \in proc[m].todo : AttachVolume(m, d)
       \/ /\ proc[m].todo = {}
          /\ \E p \in MountNext(proc[m], proc[m].mine) : Set(m, p)
          /\ UNCHANGED <<cloud, faults>>
    /\ UNCHANGED <<provider, zone, peers>>

\* One round of the loop: "We only attempt to mount a single volume".
TryAttach(m) ==
    /\ At(m, "pick")
    /\ \/ /\ proc[m].mine = {}
          /\ \E d \in proc[m].todo : AttachVolume(m, d)
       \/ /\ proc[m].mine # {} \/ proc[m].todo = {}
          /\ \E p \in MountNext(proc[m], proc[m].mine) : Set(m, p)
          /\ UNCHANGED <<cloud, faults>>
    /\ UNCHANGED <<provider, zone, peers>>

\* A mutant of FindMountedVolume: LocalDevice is trusted without a stat.
FindMountedVolumeUnseen(m, d) == TRUE

\* The device of the volume is there; a pre-mounted volume needs none.
FindMountedVolume(m, d) == cloud[d] = [to |-> m, phase |-> "there"]

safeFormatAndMount(m) ==
    LET d == proc[m].disk IN
    /\ At(m, "mount")
    /\ \/ /\ FindMountedVolume(m, d)
          /\ Set(m, [proc[m] EXCEPT !.pc = "mounted", !.mine = {}])
          /\ UNCHANGED faults
       \/ /\ provider # "external"
          /\ Fault("mount")
          /\ \E p \in MountNext(proc[m], proc[m].mine \ {d}) : Set(m, p)
    /\ UNCHANGED <<provider, zone, cloud, peers>>

\* The rest of RunEtcdManager: the address, then the node of the volume's name
\* with its certificates, stores and servers.  Any error ends the process.
RunEtcdManager(m) ==
    /\ At(m, "mounted")
    /\ \E down \in SUBSET Services :
          /\ Down(down)
          /\ Set(m, IF MyIP(down) THEN [proc[m] EXCEPT !.pc = "start"] ELSE Started)
    /\ UNCHANGED <<provider, zone, cloud, peers>>

StartServers(m) ==
    /\ At(m, "start")
    /\ \/ Set(m, [proc[m] EXCEPT !.pc = "up"]) /\ UNCHANGED faults
       \/ Set(m, Started) /\ Fault("start")
    /\ UNCHANGED <<provider, zone, cloud, peers>>

----------------------------------------------------------------------------
(* Discovery: Poll maps the names of the attached volumes to the addresses *)
(* of the machines that have them.  Lookups of the machines in away fail.  *)
(* Each operator gives the maps that the call may return, none when it     *)
(* returns an error.                                                       *)

Attached(S) == {d \in S : Shown(d) # None}

NodesOf(S) == [d \in S |-> Shown(d)]

\* instanceToVolumeMap keeps one volume for every instance.
OnePerInstance(S) ==
    {D \in SUBSET Attached(S) :
        /\ {Shown(d) : d \in D} = {Shown(d) : d \in Attached(S)}
        /\ \A d, e \in D : Shown(d) = Shown(e) => d = e}

Reached(D, away) == \A d \in D : Shown(d) \notin away

Skipping(D, away) == {d \in D : Shown(d) \notin away}

PollAWS(away) == {NodesOf(D) : D \in {E \in OnePerInstance(Disks) : Reached(E, away)}}
PollGCE(away) == {NodesOf(Skipping(D, away)) : D \in OnePerInstance(Disks)}
PollOpenstack(away) == {NodesOf(Skipping(D, away)) : D \in OnePerInstance(Disks)}
PollDO(away) == {NodesOf(D) : D \in {E \in OnePerInstance(Disks) : Reached(E, away)}}
PollAzure(m, away) ==
    IF findLocalDeviceFails(m) \/ ~Reached(Attached(Disks), away)
      THEN {} ELSE {NodesOf(Attached(Disks))}
PollLinode(away) ==
    IF Reached(Attached(Disks), away) THEN {NodesOf(Attached(Disks))} ELSE {}
PollHetzner(away) == {NodesOf(Skipping(Attached(Disks), away))}
PollScaleway(m, away) ==
    IF Reached(Attached(Near(m)), away) THEN {NodesOf(Attached(Near(m)))} ELSE {}
PollExternal(m) == {NodesOf(DOMAIN findVolumesExternal(m))}

Nodes(m, away) ==
    CASE provider = "aws" -> PollAWS(away)
      [] provider = "gce" -> PollGCE(away)
      [] provider = "azure" -> PollAzure(m, away)
      [] provider = "openstack" -> PollOpenstack(away)
      [] provider = "do" -> PollDO(away)
      [] provider = "linode" -> PollLinode(away)
      [] provider = "hetzner" -> PollHetzner(away)
      [] provider = "scaleway" -> PollScaleway(m, away)
      [] provider = "external" -> PollExternal(m)

\* A mutant of runDiscoveryOnce: only the names that are known are brought up to date.
runDiscoveryOnceKnown(m) ==
    /\ At(m, "up")
    /\ \E nodes \in Nodes(m, {}) :
          peers' = [peers EXCEPT ![m] =
                      [d \in Disks |-> IF @[d] # None /\ d \in DOMAIN nodes THEN nodes[d] ELSE @[d]]]
    /\ UNCHANGED <<provider, zone, cloud, proc, faults>>

\* runDiscoveryOnce: what was found replaces what was known of the same name;
\* a name that was not found keeps its old address, and an error changes nothing.
runDiscoveryOnce(m) ==
    /\ At(m, "up")
    /\ \E away \in {{}} \cup {{n} : n \in Machines} :
          /\ IF away = {} THEN UNCHANGED faults ELSE Fault("lookup")
          /\ \E nodes \in Nodes(m, away) :
                peers' = [peers EXCEPT ![m] =
                            [d \in Disks |-> IF d \in DOMAIN nodes THEN nodes[d] ELSE @[d]]]
    /\ UNCHANGED <<provider, zone, cloud, proc>>

----------------------------------------------------------------------------
(* Machines and processes that stop.                                       *)

\* The process ends and is started again; what it knew is gone.
Crash(m) ==
    /\ Fault("crash")
    /\ proc[m].pc \notin {"gone", "spare"}
    /\ Set(m, Started)
    /\ peers' = [peers EXCEPT ![m] = [d \in Disks |-> None]]
    /\ UNCHANGED <<provider, zone, cloud>>

\* The machine goes for good, the cloud takes its disks back.
Terminate(m) ==
    /\ Fault("terminate")
    /\ provider # "external"
    /\ proc[m].pc \notin {"gone", "spare"}
    /\ Set(m, [Started EXCEPT !.pc = "gone"])
    /\ cloud' = [d \in Disks |-> IF cloud[d].to = m THEN Free ELSE cloud[d]]
    /\ peers' = [peers EXCEPT ![m] = [d \in Disks |-> None]]
    /\ UNCHANGED <<provider, zone>>

\* Another machine takes the place of one that has gone.
Replace(m) ==
    /\ At(m, "spare")
    /\ \E n \in Machines : At(n, "gone")
    /\ Set(m, Started)
    /\ UNCHANGED <<provider, zone, cloud, peers, faults>>

Step(m) ==
    \/ NewVolumes(m) \/ ListVolumes(m) \/ TryAttach(m) \/ WaitAttached(m)
    \/ safeFormatAndMount(m) \/ RunEtcdManager(m) \/ StartServers(m)
    \/ runDiscoveryOnce(m)

Next ==
    \/ \E m \in Machines : Step(m) \/ Crash(m) \/ Terminate(m) \/ Replace(m)
    \/ \E d \in Disks : CloudAttaches(d) \/ CloudGivesUp(d)

Spec == Init /\ [][Next]_vars

\* Every process keeps going, every discovery polls again and again, and the
\* cloud carries out what it has accepted.
FairSpec ==
    /\ Spec
    /\ \A m \in Machines :
          /\ WF_vars(NewVolumes(m) \/ ListVolumes(m) \/ TryAttach(m) \/ WaitAttached(m)
                     \/ safeFormatAndMount(m) \/ RunEtcdManager(m) \/ StartServers(m))
          /\ WF_vars(runDiscoveryOnce(m))
    /\ \A d \in Disks : WF_vars(CloudAttaches(d))

----------------------------------------------------------------------------
(* Properties.                                                             *)

VolumesTypeOK ==
    /\ provider \in Providers
    /\ zone \in Layouts
    /\ cloud \in [Disks -> [to: Machines \cup {None},
                            phase: {"free", "asked", "listed", "there"}]]
    /\ proc \in [Machines ->
         [pc: {"gone", "spare", "new", "list", "pick", "wait", "mount", "mounted", "start", "up"},
          todo: SUBSET Disks, mine: SUBSET Disks, disk: Disks \cup {None},
          device: 0..NDevices, names: [Names -> Disks \cup {None}]]]
    /\ peers \in [Machines -> [Disks -> Machines \cup {None}]]
    /\ faults \in 0..MaxFaults
    /\ \A d \in Disks : cloud[d].phase = "free" <=> cloud[d].to = None
    /\ \A m \in Machines :
          proc[m].disk = None <=> proc[m].pc \in {"gone", "spare", "new", "list", "pick"}

\* A process that has mounted a volume, and runs as the node that it names, is
\* on the machine that has it: whatever was lost, refused or restarted on the
\* way, no two machines ever run as the same etcd node.
NodeOwnsDisk ==
    \A m \in Machines : proc[m].pc \in {"mounted", "start", "up"} =>
        cloud[proc[m].disk] = [to |-> m, phase |-> "there"]

\* A process that waits for a device, which it does without a time limit, waits
\* for a disk that its machine has or is being given.  Not so for do, nor for
\* openstack once the cloud gave up on a request that it had accepted.
WaitsForOwnDisk ==
    \A m \in Machines :
        At(m, "mount") /\ provider # "do" /\ (provider = "openstack" => faults = 0)
            => cloud[proc[m].disk].to = m

\* "LocalDevice is set if the volume is attached to the local machine"
\* (pkg/volumes/interfaces.go): a volume that attachMasterVolumes takes for an
\* attached one, because LocalDevice is set, is not another machine's.
LocalDeviceIsLocal ==
    \A m \in Machines : \A d \in proc[m].mine : cloud[d].to \in {m, None}

\* "We only attempt to mount a single volume": while nothing goes wrong a
\* machine takes one disk and leaves the others to the other machines.  Not so
\* for azure, where a device that comes late fails an attachment that was made.
TakesOneDisk ==
    faults = 0 /\ provider \notin {"azure", "external"} =>
        \A d, e \in Disks : cloud[d].to = cloud[e].to /\ cloud[d].to # None => d = e

\* A machine can get no further name for a volume (aws): the names of the lost
\* races stay reserved until the process is started again.
OutOfNames(m) == provider = "aws" /\ Unassigned(m) \ InUse = {}

\* The volumes that FindVolumes offers to machine m.
Eligible(m) == IF provider = "azure" THEN Disks ELSE Near(m)

\* A machine runs a node again and again, or there is no disk left that it could
\* have taken: no lost answer, restart or lost race leaves a free disk and a
\* waiting machine beside each other for ever.  WaitsForOwnDisk names the two
\* providers that are not covered, OutOfNames the machines.
DisksAreClaimed ==
    \A m \in Machines :
        []<>( \/ proc[m].pc \in {"up", "gone", "spare"}
              \/ \A d \in Eligible(m) : cloud[d] # Free
              \/ provider \in {"do", "external"}
              \/ provider = "openstack" /\ faults > 0
              \/ OutOfNames(m) )

\* The machines whose disks the discovery of machine m reads.
Discovers(m, n) ==
    CASE provider = "external" -> m = n
      [] provider = "scaleway" -> zone[m] = zone[n]
      [] OTHER -> TRUE

\* Nodes that are up find each other for good, also after one has moved to
\* another machine: the address known for a node becomes that of the machine
\* that runs it.  A machine with a second disk may be known by that one only.
NodesAreFound ==
    \A m, n \in Machines :
        <>[]( At(m, "up") /\ At(n, "up") /\ Discovers(m, n)
              /\ (\A d \in Disks : cloud[d].to = n => d = proc[n].disk)
              => peers[m][proc[n].disk] = n )
=============================================================================
