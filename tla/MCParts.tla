------------------------------ MODULE MCParts ------------------------------
(***************************************************************************)
(* The parts of one node that can be looked at by themselves, in one       *)
(* model: focus says which of them moves, and the others stay as they      *)
(* start.  The states are those of the parts side by side, not their       *)
(* product.                                                                *)
(***************************************************************************)
EXTENDS EtcdHost, HostsFile, PeerConnection, Restore, Keypairs, Backups

VARIABLE focus

Parts == {"host", "hosts", "connection", "restore", "keypairs", "backups"}

partsVars == <<focus, hostVars, hostsVars, linkVars, restoreVars, pkiVars, backupVars>>

(* A part that does not move starts in one of its initial states only.  It *)
(* does not matter at which of the addresses the peer begins.              *)
Pick(S) == CHOOSE x \in S : TRUE

PartsInit ==
    /\ focus \in Parts
    /\ HostInit /\ HostsInit /\ ConnectionInit /\ RestoreInit /\ KeypairsInit /\ BackupsInit
    /\ focus # "hosts" => wanted = [m \in Managers |-> Pick(Records)]
    /\ focus # "connection" => lastInfo = Nowhere
    /\ home = Pick(Addresses)
    /\ focus # "restore" => backup = {}
    /\ focus # "keypairs" => storedCA = Pick(CAs) /\ config = Pick(Names)

(* The other parts, while one moves. *)
ButHost == UNCHANGED <<focus, hostsVars, linkVars, restoreVars, pkiVars, backupVars>>
ButHosts == UNCHANGED <<focus, hostVars, linkVars, restoreVars, pkiVars, backupVars>>
ButConnection == UNCHANGED <<focus, hostVars, hostsVars, restoreVars, pkiVars, backupVars>>
ButRestore == UNCHANGED <<focus, hostVars, hostsVars, linkVars, pkiVars, backupVars>>
ButKeypairs == UNCHANGED <<focus, hostVars, hostsVars, linkVars, restoreVars, backupVars>>
ButBackups == UNCHANGED <<focus, hostVars, hostsVars, linkVars, restoreVars, pkiVars>>

PartsNext ==
    \/ focus = "host" /\ HostNext /\ ButHost
    \/ focus = "hosts" /\ HostsNext /\ ButHosts
    \/ focus = "connection" /\ ConnectionNext /\ ButConnection
    \/ focus = "restore" /\ RestoreNext /\ ButRestore
    \/ focus = "keypairs" /\ KeypairsNext /\ ButKeypairs
    \/ focus = "backups" /\ BackupsNext /\ ButBackups

(* What keeps running in each part: the supervision of etcd, which does    *)
(* not fail to start every time; the goroutine that pings the peer,        *)
(* discovery, and gRPC noticing that a connection is dead; a restore that  *)
(* has begun; and the start of etcd with its key pair, which runOnce tries *)
(* again and again.                                                        *)
PartsFairness ==
    /\ \A h \in Hosts : WF_partsVars(focus = "host" /\ RunOnce(h, "ok") /\ ButHost)
    /\ WF_partsVars(focus = "connection" /\ CallerStep("pinger") /\ ButConnection)
    /\ WF_partsVars(focus = "connection" /\ Discover /\ ButConnection)
    /\ WF_partsVars(focus = "connection" /\ (\E l \in Links : Breaks(l)) /\ ButConnection)
    /\ WF_partsVars(focus = "restore" /\ RestoreProgress /\ ButRestore)
    /\ WF_partsVars(focus = "keypairs" /\ StartStep /\ ButKeypairs)

PartsSpec == PartsInit /\ [][PartsNext]_partsVars /\ PartsFairness

(* EventuallyConnected, of the connection to a peer, when that is the part *)
(* that moves: connect and updatePeerInfo recover from every move that     *)
(* discovery, with a port, or the peer's own pings tell of.                *)
ConnectionRecovers == focus = "connection" => EventuallyConnected

(* StartsUnlessCutShort, of etcd's key pair, when that is the part that    *)
(* moves: createKeypairs makes up for every start that was interrupted.    *)
StartRecovers == focus = "keypairs" => StartsUnlessCutShort
=============================================================================
