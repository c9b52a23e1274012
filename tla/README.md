# etcd-manager in TLA+

A formal model of [etcd-manager](../src/README.md): the processes that find their disks, gossip, elect
a weak leader, and form, resize, upgrade and back up an etcd cluster. The modules are checked with TLC on
small instances; the theorems are proved with TLAPS for every value of the constants.

## The system and its parts

| Part | Source | Module | State of the work |
|---|---|---|---|
| Volumes and discovery | `pkg/volumes` (nine providers), `cmd/etcd-manager` | `Volumes` | modelled, safety proved |
| Gossip and leader election | `pkg/privateapi` | `LeaderToken`, `Leadership` | modelled, proved |
| Connection to a peer | `pkg/privateapi/peers.go` | `PeerConnection` | modelled, safety proved |
| etcd host server | `pkg/etcd/etcdserver.go`, `etcdprocess.go` | `EtcdHost` | requests modelled, safety proved |
| Cluster creation and quarantine | `pkg/controller/{controller,newcluster,restore}.go`, marker in `pkg/commands` | `Formation` | modelled; safety proved, for one leader where it needs one |
| Resizing and TLS | `controller.go`, `etcdclusterstate.go`, `reconcile_configuration.go` | `Resize` | modelled, safety proved |
| Upgrade and restore command | `controller/{upgrade,restore,commands}.go`, `etcdversions` | `Upgrade` | modelled; safety proved without elections |
| Restore of a backup on a host | `etcd/restore.go`, `etcdclient/client.go` | `Restore` | modelled, safety proved |
| Backups and their retention | `pkg/backup`, `pkg/backupcontroller`, `etcd/backup.go` | `Backups` | modelled, safety proved |
| etcd's key pair | `pkg/pki`, `etcd/pki.go` | `Keypairs` | files modelled, proved |
| Hosts file | `pkg/hosts` | `HostsFile` | modelled, safety proved |

Every process first gets hold of a disk, which names the etcd node that it will be. It then runs a gossip
server, a host server and a control loop. The loop does something only where it sees no healthy peer with
a lower id. It then offers a random *leadership token* to its peers, and every request it later sends to a
host server carries the token; the host refuses it unless it is the one it accepted last. Nothing else keeps
two leaders apart, except for an optional leader lock, which `cmd/etcd-manager` does not configure. A leader
asks the hosts for their state, and either creates a cluster (all hosts stopped, PREPAREd, started in
quarantine, and a marker set in the control store), or lifts the quarantine of a cluster with a quorum, or
changes its version or its size, or turns TLS on: one change per cycle.

## Modules

**`LeaderToken`** is what the election promises to the rest: a token belongs to one controller, and
the peers that a leader counts as acked did accept it. Who is healthy, lowest or asked is hidden.

**`Leadership`** is the election as coded. `known` and `healthy` are `Server.peers` and the outcome
of `status`; `accepted` is `Server.leadership`; `leadership`, `lockHolder` and `pc` belong to
`EtcdController`. `Discover`, `Ping`, `PingLost`, `Timeout` and `Restart` are gossip; `StandDown` to
`EndCycle` are the steps of `run()` up to the point where the leader acts. A bid or an assertion is
a snapshot followed by one RPC per peer, in any order. The module is shown to implement
`LeaderToken` (`Promise == INSTANCE LeaderToken WITH bid <- token`).

**`PeerConnection`** is one `peer` of `peers.go`: `conn` and `lastInfo` under its mutex, and the pinger
and the controller, which dial outside of it. The peer moves and goes away; gRPC notices when it likes. `ported`
says whether an address from discovery can be dialled: the providers give no port, and a peer that was first heard
of by its ping or in a leader's view has no default one.

**`EtcdHost`** is one host server: `state` (in memory), `disk` (the state file), `prepared`,
`process` and `data` (directories of etcd data). A request holds the server's mutex throughout, so
it is one action; its parameter `o` names the call inside that fails and `d` what a failed write
leaves in the file (what was there, nothing, or a part). An empty file parses as a state without a
cluster, a cut one does not parse and keeps the process from starting.

**`Formation`** composes `EtcdHost` with the control loops of several leaders and the marker.
Each stage of `run()` (assertion, GetInfo, decision, stop, broadcast, prepare, initial, mark, lift
or restore quarantine) is a value of `pc`, and each RPC a step, so other leaders, restarts,
expiries and exits come in between. The election enters as `LeaderToken` gives it:
`accepted[q]` is the leader whose token `q` has accepted last.
etcd itself is external: a member is up once it has set up its data; a cluster serves
while a majority of its members run; a process started for an existing cluster needs
a member that has already founded it.

**`Resize`** begins with a running cluster. A cycle observes it (`BeginCycle`, with `suspect` the members
that did not answer), decides in the order of `run()` (`Plans`), and carries out one plan: backup, PREPARE,
AddMember and join; or backup and RemoveMember; or new peer URLs; or a restart with TLS. `members` is
raft's membership, `named` those that have published a name, `configured` the hosts with a cluster in their
state: the three drift apart when calls fail, which is what the module is about. `prepared` are the hosts that hold
a PREPARE, which may expire before the JOIN. A host in `Plain` goes by an http URL: `addNodeToCluster` registers it with that one
(`controller.go:860`) and asks it to join with https, and its etcd then exits.

**`Upgrade`** has the control store (`spec`, `commands`), the `cache` that each controller keeps of it, and
for each controller a `job` with what it remembers from the beginning of its cycle. Its plans are
`stopForUpgrade` (backup, quarantine, backup, command, stop), `upgradeInPlace`, the restore of a command
(create, restore, write the spec, remove the command), the quarantine, and adding a node. `written` counts the
acknowledged writes of clients, and `data[c]` those that cluster `c` holds.

**`Volumes`** has one `FindVolumes`, `AttachVolume` and `Poll` for each of the nine providers, as they
differ in what they list, reserve, wait for and give back; the loop of `mounter.go` and the start of
the servers are shared. `cloud[d]` says whom disk `d` is attached to and how far that has come; `zone` is the
layout. `peers` is what discovery has told each machine.

**`Restore`**, **`Keypairs`**, **`Backups`** and **`HostsFile`** each model one component with its files:
the copy of a backup page by page, with the temporary etcd and directory around it, which the deferred calls may
fail to clear away (`warned`); the bundle, key and
certificate that are emptied and rewritten whenever etcd starts; backups as data and meta files written and
removed by several agents, with the retention of `cleanup.go` as the operators `Bucket` and `Retained`; and
the managers that rewrite one hosts file, each with its block.

`MCVolumes` gives `Volumes` its layouts. `MCParts` puts the six parts of a node that do not interact
through the leader side by side: `focus` selects the one that moves, so that one run checks them all without
multiplying their states.

Mutants (definitions introduced by a comment `Mutant: ...`) are plausible errors in the definition
that follows; each property is violated when its mutant takes the definition's place.

## Runs

| Run | Checks | Shows |
|---|---|---|
| `leadership` | `TypeOK`, `LockExcludes`, `ActingIsAcked`, `ImplementsPromise`, `EventuallySettled`, `LowestKeepsActing` | the coded election implements the promise with and without the lock, does not get stuck, and the lock is always passed on |
| `formation_contention` | `OpenedDataSurvives`, `OneClusterOpened` | two leaders with overlapping views, no lost answers: the token fences them |
| `formation_faults` | `OpenedDataSurvives`, `StaleInfoIsFenced` | one leader, every pair of faults of 13 kinds: no opened cluster loses its data, and a restarted or stopped host refuses the leader whose information is old |
| `formation_opens` | `ClusterOpens` | any three faults of 10 kinds (lost and failing calls, exits, failing writes, starts, stops and renames, slow members, absent peers, errors of the store) are got over, unless they hit a call or an etcd in the middle of a creation |
| `resize` | `TLSFollowsURL`, `ChangesAreBackedUp`, `RemovalKeepsQuorum`, `SettlesUnlessLeftovers` | changes of size and TLS, with a fault of any of 8 kinds between any two calls, and a host with an http URL |
| `upgrade` | `NoWriteLost`, `CommandShutsClientsOut`, `VersionsClose`, `RollingKeepsQuorum`, `UpgradeCompletes` | two changes of version, in place or by backup and restore, with a fault of any of 8 kinds |
| `volumes` | `NodeOwnsDisk`, `WaitsForOwnDisk`, `TakesOneDisk`, `DisksAreClaimed`, `NodesAreFound` | on each provider, machines race for disks, with every pair of faults of 10 kinds |
| `parts` | `ProcessMatchesState`, `StateIsDurable`, `ConfiguredHostRuns`; `EndsAsOneText`, `RecordsArrive`; `NoConnectionLeaks`, `ConnectionRecovers`; `RestoreIsComplete`, `RestoreCleansUp`, `RestoreEnds`; `EtcdStartsWithMatchingPair`, `StartRecovers`; `ListedIsComplete`, `HistoryIsKept` | the parts of a node, each by itself with its own faults |

Four runs are expected to be violated. Each shows the code departing from a line of the
repository; `PROJECT.json` quotes it under "findings".

| Run | Violates | What happens |
|---|---|---|
| `formation_dropped` | `OpenedDataSurvives` | a peer missing from the snapshot of `AssertLeadership` is still counted as acked |
| `resize_surplus` | `RemovesOnlySurplus` | a removed member's host stays configured, and is counted as a member when the next removal is decided |
| `upgrade_leaders` | `NoWriteLost` | a controller that leads again has kept its leadership and its cache, misses the restore command, and opens the cluster that is still empty |
| `hosts_malformed` | `EndResultNotMalformed` | a manager reads the hosts file while another has truncated it, and both end well without the other lines |

The type invariants of the modules other than `Leadership` are not repeated in the runs: they are theorems (below). Three further properties are stated in the modules although
they do not hold, because a reader of the code would expect them. `AcceptsOnlyLowest` (`Leadership`): a bid is
accepted by peers that see a lower healthy peer, as `LeaderNotification` does not compare ids, though
`src/README.md:56` says so. `NoRequestPanics` (`Formation`): a state file that a failed write left empty is read
back as a state without a cluster, into which `findSelfNode` looks. `LocalDeviceIsLocal` (`Volumes`):
Digital Ocean sets `LocalDevice` for a volume of any droplet. Adding one of them to a configuration makes
TLC print the behaviour.

### Bounds

- *Leadership*: two peers suffice for every race between a pair. Tokens are reused once nobody holds
  them; each peer holds at most one accepted and one of its own, so 2N tokens never run out.
- *Formation*: three hosts with views {1,2} and {2,3} are the smallest partition in which each of two leaders
  has a quorum of 3. The liveness run has one leader and two hosts of a desired three, which
  `createNewCluster` allows, so every host is needed for the quorum and each fault hurts. `formation_faults`
  has three hosts, so that a cluster keeps its quorum while one host is down. `Recycle = FALSE` allows
  one creation per element of `Clusters`; with `TRUE`, used for liveness, cluster tokens that nobody holds any
  more are fresh again, and creations are unbounded. `formation_opens` has `FaultyCreation = FALSE`: no PREPARE or
  INITIAL fails, and no etcd exits before its cluster is founded. `createNewCluster` does not cancel PREPAREs, so
  after a failed one `ClusterOpens` fails if each retry prepares the one host that is free while the PREPARE of the other
  runs out. Go iterates over maps in random order, so the retries end with probability one; fairness cannot say
  that. An etcd that exits before it has founded its cluster is not got over at all (below). The run has no restarts either: one between the
  assertion and the PREPARE makes the host refuse it, which leaves the same staggered PREPAREs behind. `expiry` and a failing second write
  are faults of a creation. All of these are among the faults of `formation_faults`, which checks safety.
- *Resize*: two or three members on four hosts, so that there is always a spare host and both
  quorum sizes occur; the spare host that is in none of the first clusters has an http URL; two changes of the count let a shrinking cluster be asked to grow again.
- *Upgrade*: versions 4, 5 and 6 have one neighbour in place and one that needs a restore; three clusters allow
  two re-creations; two writes tell a lost one from a kept one before and after the backup.
- *Volumes*: two machines and a spare, two disks, one or two zones, all nine providers. Three device names of
  which one is in use are as many as the disks need, so that a leaked name is missed.
- *Parts*: keys 1 to 5 in pages of two give full, partial and empty last pages; two agents and three backups in
  four hours with an hourly and a daily bucket; two managers with two records each; three connections,
  two addresses and two moves; certificates of one year in a run of two.
- `MaxFaults` bounds the faults of a behaviour; `Failures` selects their kinds. Liveness is claimed
  for what happens after the last fault.
- `CHECK_DEADLOCK FALSE` is set where the system may stop: a corrupt state file keeps a host
  down (`formation_faults`, `parts`), a restore ends, and machines are terminated.

The largest passing runs, `formation_faults`, `formation_contention` and `volumes`, have 876,389, 438,782 and
411,745 states; with `parts` (353,687) they take one to three minutes each. `Backups` was also run by itself with hours of two and days of four units of time, retention of four and
eight, four backups and no faults: 1,128,513 states, no error.

### Fairness

Discovery, pings, the control loop and `runOnce` are run by `contextutil.Forever` or a loop like it, and an
RPC ends with an answer or an error: hence weak fairness of `Discover`, `Ping`, `Loop`, `Control`, `RunOnce`,
`EtcdStarts`, `CallerStep("pinger")`, `StartStep`, of the mount loop and of `runDiscoveryOnce`. A restore, once
begun, goes on. A PREPARE expires with the clock. That a bid is accepted in `Formation` is what
`EventuallySettled` shows. Assumed of others: an etcd sets up its data or publishes its name when it can, and
does not fail to start every time; gRPC eventually notices a dead connection; a cloud carries out what it has
accepted, unless it gives up, which is a fault. No strong fairness is used.

Liveness has its conditions written into it, where the code does not do better. A cluster settles unless an
orphaned member (added, never started), a retired host (removed, still configured) or a mismatched member (registered
with http, told to join with https) remains; a peer that has moved is connected to again if discovery gives a usable address or the
peer has pinged from its new one; an upgrade completes
unless a host was left behind by a re-creation; a free disk is claimed except on Digital Ocean, where a machine
may wait without end for the device of a volume that another droplet has, with the external provider, which attaches
nothing, on OpenStack after a failed attach, which is waited for without end, and on AWS once its device names
have leaked.

## Proofs

| Theorem | Module | Statement |
|---|---|---|
| `TokenTypes`, `TokensHaveOneUser`, `AckedPeersAccepted` | `LeadershipProofs` | of `LeaderToken`: `Spec => []TypeOK`, `[]OneUser`, `[]AckedHaveAccepted` |
| `ElectionTypes`, `LockIsExclusive`, `ActingLeaderIsAcked` | `LeadershipProofs` | `Spec => []TypeOK`, `[]LockExcludes`, `[]ActingIsAcked` |
| `ElectionImplementsPromise`, `ElectionTokensAreOwned` | `LeadershipProofs` | `Spec => ImplementsPromise`, that is `Promise!Spec`, and `[]TokensAreOwned` |
| `HostTypes`, `ProcessAlwaysMatches`, `StateSurvivesRestart` | `EtcdHostProofs` | `HostSpec => []TypeOK`, `[]ProcessMatchesState`, `[]StateIsDurable` |
| `FormationTypes`, `StaleInfoIsAlwaysFenced` | `FormationProofs` | `Spec => []FormationTypeOK`, `[]StaleInfoIsFenced` |
| `HostsStaySoundUnderLeaders` | `FormationProofs` | `Spec => [](ProcessMatchesState /\ StateIsDurable)` |
| `SettledDataStays` | `FormationProofs` | once the marker is set and no creation is under way, no step removes data |
| `OnlyOverlapsLoseData` | `FormationProofs` | `Spec /\ []NoOverlap => []OpenedDataSurvives` |
| `LoneLeaderKeepsData`, `LoneLeaderOpensOneCluster` | `FormationProofs` | with one leader, `Spec => []OpenedDataSurvives`; with fewer than two quorums of hosts besides, `[]OneClusterOpened` |
| `ResizeTypes`, `TLSFollowsTheURL` | `ResizeProofs` | `Spec => []ResizeTypeOK`, `[]TLSFollowsURL` |
| `MembershipChangesAreBackedUp`, `RemovalsKeepQuorum` | `ResizeProofs` | `Spec => ChangesAreBackedUp`, `RemovalKeepsQuorum` |
| `UpgradeTypes` | `UpgradeProofs` | `Spec => []UpgradeTypeOK` |
| `VersionsStayClose` | `UpgradeProofs` | without elections, `Spec => []VersionsClose` |
| `RollsKeepQuorum` | `UpgradeProofs` | with three hosts or more, `Spec => RollingKeepsQuorum` |
| `WritesSurvive`, `CommandShutsOut` | `UpgradeProofs` | without elections and unknown outcomes, `Spec => []NoWriteLost`, `[]CommandShutsClientsOut` |
| `VolumesTypes`, `NodesOwnTheirDisks` | `VolumesProofs` | `Spec => []VolumesTypeOK`, `[]NodeOwnsDisk` |
| `ProcessesWaitForOwnDisks`, `MachinesTakeOneDisk` | `VolumesProofs` | `Spec => []WaitsForOwnDisk`, `[]TakesOneDisk` |
| `BackupsTypes`, `ListedIsAlwaysComplete`, `HistoryIsAlwaysKept` | `BackupsProofs` | `BackupsSpec => []BackupsTypeOK`, `[]ListedIsComplete`, `[]HistoryIsKept` |
| `KeypairTypes`, `StartsWithMatchingPair` | `PartsProofs` | `KeypairsSpec => []KeypairsTypeOK`, `[]EtcdStartsWithMatchingPair` |
| `HostsTypes`, `HostsEndAsOneText`, `RecordsAlwaysArrive` | `PartsProofs` | `HostsSpec => []HostsTypeOK`, `[]EndsAsOneText`, `[]RecordsArrive` |
| `ConnectionTypes`, `NothingLeaks` | `PartsProofs` | `ConnectionSpec => []ConnectionTypeOK`, `[]NoConnectionLeaks` |
| `RestoreTypes`, `RestoredIsComplete`, `RestoreAlwaysCleansUp` | `PartsProofs` | `RestoreSpec => []RestoreTypeOK`, `[]RestoreIsComplete`, `[]RestoreCleansUp` |

They hold for any sets of peers, tokens, hosts, clusters, versions, machines, disks, keys, managers, agents,
connections and addresses, and for any number of faults. The assumptions are the ones the modules state: `None`
and the like are outside the sets they stand beside, peer ids and hosts' ids are naturals, sets of hosts are finite,
supported versions are versions; in `Backups`, a day is a whole number of hours; and, in `Keypairs`,
`CertMinTimeLeft >= CertDuration`, as with the defaults of `pkg/pki/certs.go`, 20 years and 2; the environment
can override both. A theorem that needs more says so in its `ASSUME`, and the paragraph on its module says why.

*LeaderToken.* `TokenInv`, the conjunction of the three invariants, is inductive as it stands: a token
is drawn only when nobody holds it.

*Leadership.* `ActingIsAcked` speaks of the moment at which a leader acts; what makes it true was
done in an earlier cycle. `BidInv` ties the two: a token is being sent exactly during notification;
whoever has been notified has acked; a leader re-asserts its own token; its acks are acks of that
token; and it acts only on peers among them. `LockInv` says that whoever is past the
lock holds it. The refinement maps each action to one of `LeaderToken` or to a stutter; `BidInv`
supplies the guards of `Win` and `Reassert`.

*EtcdHost.* What a host starts etcd with comes from memory, which may come from the file, so
`HostInv` adds `CompleteStates`: a state with a cluster, in memory or in the file, has a version.
`BecomesInv` covers every action that changes state, file and process of one host together; each
request then only has to show that what it leaves behind matches.

*Formation.* The module acts on hosts only through the actions of `EtcdHost` (`HostsStep`), so what is proved of
hosts under any requests holds under the leaders'.
`StaleInfoIsFenced` follows from `FenceInv`: a host that still honours a leader's token is configured if that leader
was told so, because a leader offers its token only before it asks, and whatever another leader, a stop or a restart
does to the host takes the token away. It needs no hypothesis.
For `OpenedDataSurvives`: until the marker is set every state, in memory and on disk, is
quarantined (`ClosedInv`); once it is set, no creation begins. `SettledStep` shows that then, with no creation left
over, no step removes data. So, however many leaders there are, data is lost only to a creation that was under
way when the marker was set (`OnlyOverlapsLoseData`); with one leader there is none, as it sets the marker itself at the
end of its own. The hypothesis cannot simply be dropped: two leaders with the views {1,2}, {1,3} and {2,3} at their choice
lose data without any fault (TLC), because the marker is not fenced.
For `OneClusterOpened`: a created cluster has a quorum of nodes (`NodesInv`), all of which have it in their
state file when the marker is set (`HoldInv`), so that a quorum of hosts remember no other cluster, and never
will (`MarkedInv`); the rest, fewer than a quorum, cannot open one.

*Resize.* What a call relies on was decided at the beginning of the cycle. `ResizeInv` says what is left of that decision
when the call is made: by which calls the target's URL is https (`TargetKnown`), the old writes are in a
backup (`BackedUp`), and enough members run without the one to be removed (`RemovalIsSafe`).

*Upgrade.* `TypeInv` holds whoever leads: a call finds in its job the cluster, the version and the backup that it
uses, and no backup holds more than was written. The rest is about the cluster `m` in use. `Shape(m, o)`: only the
leader is at work; every host but one, `o`, that a creation may have left behind is in `m` or in none, and
the clusters that `o` remembers are too large for it to be their quorum; versions in `m` differ by one at
most, and while the leader rolls they are at most one behind the new one. `Settled(m, o)` is what adding a host
needs: `addNodeToCluster` takes the version of whichever configured peer comes last, so whoever is configured when there is a
host to add must be in `m`. Either `o` is in `m` too, or every other host has a cluster and only `o` itself can be
added; creations, which break this for a while, are made under a command only, and the leader that adds a host has
seen none. `Kept(m)`: there is at most one command, and
the leader's cache agrees with it; while there is one, every host is in quarantine and its backup has all
that was written; and otherwise, and once the restore is done, `m` has all that was written. `BeginCreate` is the
only step that changes `m`. The hypotheses leave out
what TLC shows to break the properties: an election over a leader that goes on (`upgrade_leaders`), and an `AddCommand` whose
outcome is unknown, which with an absent host breaks `NoWriteLost` and `CommandShutsClientsOut` by two faults. `upgrade`
checks the unknown outcome with one fault. `RollingKeepsQuorum` speaks of a cluster in which nothing has failed,
and `RInv` adds that etcd then runs on every host from the decision to roll on; of one or two members
none can be spared.
How sets of hosts count (`HostsCount`) is an assumption of the lemmas and is proved before the theorems
(`HostsAreCounted`).

*Volumes.* A process runs as a node only after `safeFormatAndMount` has seen the device of its disk. From then on
nothing takes the disk away but the end of the machine. `VolumesInv` adds only that processes know of no disks but
those that exist; the lemmas show, provider by provider, that no step but the mount makes a process run. `ClaimsInv`
adds what a process may rely on before: the disks that it takes for attached are its machine's, it asks only for disks
of its zone, and, until the first fault, only while its machine has none. `TypesInv` is the rest of `VolumesTypeOK`: a
process has a disk in hand exactly from the attachment that it waits for on, reserved device names belong to disks,
and discovery finds machines.

*Backups.* `UploadsInv`: an agent that uploads has its name to itself unless the name clashed, the meta file comes last
and is removed first. `HistoryIsKept` is not inductive: it says that some backup of an hour is there, not which one. Every
clean-up keeps the same one, however old its list: the earliest of the hour (the last of those made in one second), or
of the day. `RetentionInv` says that for whatever an agent is about to remove a better one was made
(`BestOfHour`, `BestOfDay`). Hourly and daily buckets share the keys of one map in `cleanup.go`; it does no
harm because a day begins with an hour.

*Restore.* `CopyTo` remembers only its last key. `RestoreInv` says what that stands for: all keys up to it are in the
target and have been counted once. `PageHasNoGap` and `EmptyPageIsTheEnd` are the two facts about pages: the keys
of a page are consecutive, and a page with no new key means that there are none left. For `RestoreCleansUp` the invariant
says what may be left after each of the two deferred calls. The second one needs
`PageSize >= 2` (1000 in the code), since each page begins with the last key of the one before.

*HostsFile.* A manager that ends has just reread its own text, and one that is still writing keeps the machine from being
quiet. `HostsInv` adds that a text has at most one block for each manager, and that the text which a manager
writes has the records of its update and, if no other update was under way when it read the file, those of every
manager in `checked` (`Carried`).

*Keypairs.* The heart is `NothingIsReusable`: as no certificate lives longer than the time that must be left
for it to be reused, every start makes a new pair. `KeypairsInv` follows the new pair from memory into the two
files, and says that the bundle on disk is that of the CA which signs it.

*PeerConnection.* `Owned` says that a connection which a caller tries out is open, is not the one of
the peer and is nobody else's: so whoever ends with it can close it or hand it on, and none is lost.

Only model-checked: all liveness (`EventuallySettled`, `LowestKeepsActing`, `ClusterOpens`, `SettlesUnlessLeftovers`,
`UpgradeCompletes`, `DisksAreClaimed`, `NodesAreFound`, `ConfiguredHostRuns`, `ConnectionRecovers`, `RestoreEnds`,
`StartRecovers`), as the prover has no fairness; `OpenedDataSurvives` and
`OneClusterOpened` for two leaders (`formation_contention`), which depend on the views of that run; and an unknown outcome of
`AddCommand` with one fault (`upgrade`). Every other property of the passing runs is the statement of a theorem.

## Assumptions of the model

- Leadership tokens in `Formation` are named by their owner, which `TokensHaveOneUser` justifies. A
  superseded token of the same controller is not told apart, which only lets more requests through.
- The handler of an RPC runs before its caller goes on or gives up; an RPC is not delivered
  after its caller's next cycle has begun.
- `LeaderNotification` takes its mutex twice, once in `addPeersFromView`; that is one step.
- etcd goes down together with etcd-manager, as in its container.
- `Formation` has one supported version, and the cluster spec is set. A failing
  `SetExpectedClusterSpec` counts as a "store" fault. The contents of the member map are left out.
- `ackedPeerCount` equals the number of peers, since a leader resigns otherwise.
- A backup taken from a member that serves contains every acknowledged write. etcd's
  `strict-reconfig-check` is not modelled: it refuses some of the changes of membership that `Resize` allows.
- A cloud attaches a disk only if it is free. The handshake names the peer, as it does with TLS.
- `RemoveBackup` deletes the files in the order in which `ReadTree` lists them, `_etcd_backup.meta` first.
- In `Upgrade` a creation's PREPAREs and the broadcast are not split up as they are in `Formation`.
- `Restart` in `Leadership` frees the leader lock, as the operating system does with `flock`. The file of
  `FSContentLock`, which integration tests use, would survive its owner.
- A state file that a failed write leaves is what it was, empty, or does not parse (`LeftBy` in `EtcdHost`). One cut exactly
  between two fields would be read back as a part of a state.
- In `Upgrade` a request that panics on an emptied state (`etcdserver.go:483`) is an error to its caller; the
  restarted host has no etcd, as before.
- On OpenStack an attachment without a device ends the process (`mounter.go:311`), which is a `"crash"` right after
  the attach. Nodes that the external provider's seed directory names after an address (`external/discovery.go`) are left out.
- Hours, days and retentions in `Backups` satisfy `BackupsAssumption`, as the defaults of `cleanup.go` do; the environment may set others.

## What the model brought up

Besides the four violations, these came to light while modelling. Each is a behaviour of the code as modelled, or
follows from the lines given, and bears on what the properties can say.

- The marker of a created cluster is not fenced by the token: with lost answers a deposed leader sets it after its
  successor has read it as unset, and `OpenedDataSurvives` fails for two leaders with `"lost"` among `Failures`.
- The same marker loses data without any fault when each of two leaders may have any two of three hosts in view:
  one sets it while the other is creating a cluster, which stops the hosts of the first. `OnlyOverlapsLoseData` shows that
  this is the only way. `OneClusterOpened` still holds there (8,145,487 states).
- etcds that exit before setting up their data are restarted as members of a cluster that does
  not exist (`NewCluster` has been cleared): `ClusterOpens` fails with `"exit"` among `Failures` and `FaultyCreation`.
- A host that goes by an http URL cannot be added: it is registered with http and told to join with https
  (`controller.go:860`), its etcd exits, and `reconcileTLS` passes over a member without a name.
- A peer first heard of by its ping or in a leader's view has no default port (`peers.go:96`), and discovery tells
  none: after a move it is found again only when it pings.
- A dead or orphaned member of a cluster that has its desired size is never replaced (`controller.go:514` asks for
  more members than desired). Growing from one to two with a lost JOIN loses the quorum.
- A host left behind when two of three are created anew makes the leader lift the quarantine again in every cycle.
- `CommandShutsClientsOut` and `NoWriteLost` fail with two changes of the spec, an `AddCommand` whose outcome is unknown
  and a host that is away, which takes two faults; `upgrade` has one, and `WritesSurvive` has none of that kind.
- A creation that is declined for want of peers is not told apart from a created cluster where a restore command is
  carried out (`controller.go:416`).
- `configure-cluster` and the restore read and then write the spec, and one update may be lost.
- A process that dies while an attach is pending may come to hold two disks, and on Azure a device that comes
  late is enough; hence the conditions of `TakesOneDisk`.
- The managers of one machine rewrite the hosts file at every poll, as each puts its own block last. One that has read
  the file before the other wrote it removes the other's block, although the other's reread went well; the block comes
  back with the other's next update. A manager that dies between opening and writing leaves the file empty.
- A backup whose upload is interrupted leaves data without meta, which nothing removes.
- A page size of one would end `CopyTo` early, as a page repeats the last key of the one before.

## Not modelled

- Code generated from protobuf, and the I/O of the cloud SDKs, of gRPC and of etcd's client library: one call each,
  whose outcomes are choices in the modules.
- `pkg/locking`: the lock is atomic in `Leadership`. `cmd/etcd-manager` passes none, and only integration tests
  construct one.
- Discovery from `/tmp/discovery` (used where no volume provider is configured) and from a static
  configuration, and the static control store: they read files or constants and change nothing that is shared.
- `etcd-manager-ctl` beyond `configure-cluster` and the restore command: it parses flags and reads or adds one file.
- The flags and environment that `etcdProcess.Start` builds, formats of backup files, and the table of versions:
  data that no property tells apart.
- Key pairs held in memory only (gRPC server and clients), the creation of the CAs, and the expiry of a certificate
  while etcd runs with it.
