------------------------------ MODULE EtcdHost ------------------------------
(***************************************************************************)
(* The server half of etcd-manager on each host: pkg/etcd, EtcdServer and  *)
(* its etcdProcess.                                                        *)
(*                                                                         *)
(* A host keeps an EtcdState in memory and in a state file, runs at most   *)
(* one etcd process and remembers one pending PREPARE.  A leader changes   *)
(* them through JoinCluster, Reconfigure and StopEtcd; every 10 seconds    *)
(* runOnce restarts an etcd that should be running.  All of these hold     *)
(* the server's mutex, so each is one step.  What can go wrong inside a    *)
(* step (the state file, starting or killing etcd) is its outcome: o names *)
(* the call that fails and d what a failed write leaves in the file.       *)
(*                                                                         *)
(* Who may send a request is not decided here (validateHeader is part of   *)
(* the modules that have leaders); reply is what the sender hears.         *)
(***************************************************************************)
EXTENDS Naturals

CONSTANTS Hosts,
          Clusters,   \* cluster tokens
          Versions,   \* the etcd versions that requests may name
          Supported,  \* those with an installed binary (BindirForEtcdVersion)
          None,       \* Go's nil; no file
          Corrupt     \* a state file that cannot be parsed

ASSUME HostAssumption ==
    /\ None \notin Clusters
    /\ None \notin Versions
    /\ Supported \subseteq Versions

VARIABLES
    up,        \* up[h]: etcd-manager is running on h
    state,     \* state[h]: EtcdServer.state
    disk,      \* disk[h]: what the state file holds
    prepared,  \* prepared[h]: EtcdServer.prepared
    process,   \* process[h]: EtcdServer.process, and whether it is alive
    data,      \* data[h]: the clusters with a data directory on h
    unsaved    \* history: the last write of the state file failed

hostVars == <<up, state, disk, prepared, process, data, unsaved>>

States == [cluster : Clusters \cup {None}, new : BOOLEAN, quarantined : BOOLEAN,
           version : Versions \cup {None}]
EmptyState == [cluster |-> None, new |-> FALSE, quarantined |-> FALSE, version |-> None]
ASSUME StateAssumption == None \notin States /\ Corrupt \notin States

Prepares == [token : Clusters, expired : BOOLEAN]
Processes == [cluster : Clusters, new : BOOLEAN, quarantined : BOOLEAN,
              version : Versions, alive : BOOLEAN]

TypeOK ==
    /\ up \in [Hosts -> BOOLEAN]
    /\ state \in [Hosts -> States \cup {None}]
    /\ disk \in [Hosts -> States \cup {None, Corrupt}]
    /\ prepared \in [Hosts -> Prepares \cup {None}]
    /\ process \in [Hosts -> Processes \cup {None}]
    /\ data \in [Hosts -> SUBSET Clusters]
    /\ unsaved \in [Hosts -> BOOLEAN]

HostInit ==
    /\ up = [h \in Hosts |-> TRUE]
    /\ state = [h \in Hosts |-> None]
    /\ disk = [h \in Hosts |-> None]
    /\ prepared = [h \in Hosts |-> None]
    /\ process = [h \in Hosts |-> None]
    /\ data = [h \in Hosts |-> {}]
    /\ unsaved = [h \in Hosts |-> FALSE]

(* GetInfo reports a state only if there is a cluster in it. *)
Configured(h) == state[h] # None /\ state[h].cluster # None
Running(h) == process[h] # None /\ process[h].alive

(* writeState truncates the file and writes it anew.  When that fails, or  *)
(* the host stops half-way, the file may still hold what it held, be empty *)
(* (which reads back as an empty state) or be cut short.                   *)
Leftovers == {"kept", "empty", "cut"}
LeftBy(d, old) == CASE d = "kept"  -> old
                    [] d = "empty" -> EmptyState
                    [] d = "cut"   -> Corrupt

(* Mutant: etcd always gets the quarantined client URLs. *)
StartedInQuarantine(s) == [cluster |-> s.cluster, new |-> s.new, quarantined |-> TRUE,
                           version |-> s.version, alive |-> TRUE]

(* startEtcdProcess: the process that a state asks for. *)
Started(s) == [cluster |-> s.cluster, new |-> s.new, quarantined |-> s.quarantined,
               version |-> s.version, alive |-> TRUE]

(* What a request leaves in memory and in the file, whether the last write *)
(* of the file went through, and the process.                              *)
Becomes(h, s, written, saved, p) ==
    /\ state' = [state EXCEPT ![h] = s]
    /\ disk' = [disk EXCEPT ![h] = written]
    /\ unsaved' = [unsaved EXCEPT ![h] = ~saved]
    /\ process' = [process EXCEPT ![h] = p]

-----------------------------------------------------------------------------
(* JoinCluster *)

(* A PREPARE is forgotten when the next request after PreparedValidity     *)
(* comes in.                                                               *)
AfterExpiry(h) == IF prepared[h] # None /\ prepared[h].expired THEN None ELSE prepared[h]

Expire(h) ==
    /\ prepared[h] # None
    /\ ~prepared[h].expired
    /\ prepared' = [prepared EXCEPT ![h] = [token |-> prepared[h].token, expired |-> TRUE]]
    /\ UNCHANGED <<up, state, disk, process, data, unsaved>>

CanPrepare(h, v) == v \in Supported /\ process[h] = None /\ AfterExpiry(h) = None

JoinPrepare(h, c, v, reply) ==
    /\ up[h]
    /\ reply = IF CanPrepare(h, v) THEN "ok" ELSE "error"
    /\ prepared' = [prepared EXCEPT ![h] = IF CanPrepare(h, v)
                                           THEN [token |-> c, expired |-> FALSE]
                                           ELSE AfterExpiry(h)]
    /\ UNCHANGED <<up, state, disk, process, data, unsaved>>

(* PHASE_CANCEL_PREPARE, which ignores the expiry. *)
CancelPrepare(h, c, reply) ==
    /\ up[h]
    /\ IF prepared[h] = None \/ prepared[h].token = c
       THEN reply = "ok" /\ prepared' = [prepared EXCEPT ![h] = None]
       ELSE reply = "error" /\ UNCHANGED prepared
    /\ UNCHANGED <<up, state, disk, process, data, unsaved>>

CanJoin(h, c, v) ==
    /\ v \in Supported
    /\ process[h] = None
    /\ AfterExpiry(h) # None
    /\ AfterExpiry(h).token = c

JoinRefused(h, c, v, reply) ==
    /\ up[h]
    /\ ~CanJoin(h, c, v)
    /\ reply = "error"
    /\ prepared' = [prepared EXCEPT ![h] = AfterExpiry(h)]
    /\ UNCHANGED <<up, state, disk, process, data, unsaved>>

Joined(c, v, new, quarantined) ==
    [cluster |-> c, new |-> new, quarantined |-> quarantined, version |-> v]

(* Mutant: NewCluster is cleared in memory only. *)
JoinInitialWithoutSecondWrite(h, c, v, o, d, reply) ==
    LET new == Joined(c, v, TRUE, TRUE)
    IN  /\ up[h]
        /\ CanJoin(h, c, v)
        /\ o = "ok"
        /\ Becomes(h, Joined(c, v, FALSE, TRUE), new, TRUE, Started(new))
        /\ reply = "ok"
        /\ prepared' = [prepared EXCEPT ![h] = None]
        /\ UNCHANGED <<up, data>>

(* PHASE_INITIAL_CLUSTER: the state is written as a new cluster, etcd is   *)
(* started, and the state is written again as an existing one.  After an   *)
(* error the PREPARE stays, and so does the state in memory.               *)
JoinInitial(h, c, v, o, d, reply) ==
    LET new == Joined(c, v, TRUE, TRUE)
        existing == Joined(c, v, FALSE, TRUE)
    IN  /\ up[h]
        /\ CanJoin(h, c, v)
        /\ \/ o = "ok" /\ Becomes(h, existing, existing, TRUE, Started(new))
           \/ o = "writeFails" /\ Becomes(h, new, LeftBy(d, disk[h]), FALSE, None)
           \/ o = "startFails" /\ Becomes(h, new, new, TRUE, None)
           \/ o = "secondWriteFails" /\ Becomes(h, existing, LeftBy(d, new), FALSE, Started(new))
        /\ reply = IF o = "ok" THEN "ok" ELSE "error"
        /\ prepared' = IF o = "ok" THEN [prepared EXCEPT ![h] = None] ELSE prepared
        /\ UNCHANGED <<up, data>>

(* PHASE_JOIN_EXISTING *)
JoinExisting(h, c, v, o, d, reply) ==
    LET joined == Joined(c, v, FALSE, FALSE)
    IN  /\ up[h]
        /\ CanJoin(h, c, v)
        /\ \/ o = "ok" /\ Becomes(h, joined, joined, TRUE, Started(joined))
           \/ o = "writeFails" /\ Becomes(h, joined, LeftBy(d, disk[h]), FALSE, None)
           \/ o = "startFails" /\ Becomes(h, joined, joined, TRUE, None)
        /\ reply = IF o = "ok" THEN "ok" ELSE "error"
        /\ prepared' = IF o = "ok" THEN [prepared EXCEPT ![h] = None] ELSE prepared
        /\ UNCHANGED <<up, data>>

-----------------------------------------------------------------------------
(* Process and restart *)

(* etcd-manager stops, taking its etcd with it, and starts again.          *)
(* NewEtcdServer reads the state before it serves, and does not start when *)
(* it cannot.                                                              *)
Restart(h) ==
    /\ up[h]
    /\ up' = [up EXCEPT ![h] = disk[h] # Corrupt]
    /\ state' = [state EXCEPT ![h] = IF disk[h] = Corrupt THEN None ELSE disk[h]]
    /\ prepared' = [prepared EXCEPT ![h] = None]
    /\ process' = [process EXCEPT ![h] = None]
    /\ unsaved' = [unsaved EXCEPT ![h] = disk[h] = Corrupt]
    /\ UNCHANGED <<disk, data>>

(* stopEtcdProcess: killing an etcd that has just exited by itself may     *)
(* find neither a process nor yet its exit state, and then fails.          *)
StopMayFail(h) == process[h] # None /\ ~process[h].alive

(* Reconfigure and StopEtcd look into state.Cluster without checking that  *)
(* it is set; when it is not, the handler panics and the process goes      *)
(* down.                                                                   *)
Panics(h) == state[h] # None /\ state[h].cluster = None

RequestPanics(h, reply) ==
    /\ Panics(h)
    /\ reply = "error"
    /\ Restart(h)

ReconfigureRefused(h, v, reply) ==
    /\ up[h]
    /\ ~Panics(h)
    /\ state[h] = None \/ v \notin Supported \cup {None}
    /\ reply = "error"
    /\ UNCHANGED hostVars

(* Reconfigure: etcd is stopped, the new state is set in memory and then   *)
(* on disk, and etcd is started from it.  v = None keeps the version.      *)
Reconfigure(h, quarantined, v, o, d, reply) ==
    LET new == [cluster |-> state[h].cluster, new |-> state[h].new, quarantined |-> quarantined,
                version |-> IF v = None THEN state[h].version ELSE v]
    IN  /\ up[h]
        /\ Configured(h)
        /\ v \in Supported \cup {None}
        /\ \/ o = "ok" /\ Becomes(h, new, new, TRUE, Started(new))
           \/ o = "stopFails" /\ StopMayFail(h) /\ UNCHANGED <<state, disk, process, unsaved>>
           \/ o = "writeFails" /\ Becomes(h, new, LeftBy(d, disk[h]), FALSE, None)
           \/ o = "startFails" /\ Becomes(h, new, new, TRUE, None)
        /\ reply = IF o = "ok" THEN "ok" ELSE "error"
        /\ UNCHANGED <<up, prepared, data>>

StopEtcdRefused(h, reply) ==
    /\ up[h]
    /\ state[h] = None
    /\ reply = "error"
    /\ UNCHANGED hostVars

(* StopEtcd: etcd is stopped, the state emptied and the data directory     *)
(* moved to the trashcan; failing to move it is only a warning.  An empty  *)
(* state takes up no bytes, so it cannot be cut short.                     *)
StopEtcd(h, o, d, reply) ==
    /\ up[h]
    /\ Configured(h)
    /\ \/ o = "stopFails" /\ StopMayFail(h) /\ UNCHANGED <<state, disk, process, unsaved>>
       \/ o = "writeFails" /\ d # "cut" /\ Becomes(h, EmptyState, LeftBy(d, disk[h]), FALSE, None)
       \/ o \in {"ok", "renameFails"} /\ Becomes(h, EmptyState, EmptyState, TRUE, None)
    /\ data' = IF o = "ok" THEN [data EXCEPT ![h] = @ \ {state[h].cluster}] ELSE data
    /\ reply = IF o \in {"ok", "renameFails"} THEN "ok" ELSE "error"
    /\ UNCHANGED <<up, prepared>>

-----------------------------------------------------------------------------
(* etcd and its supervision *)

Exited(p) == [cluster |-> p.cluster, new |-> p.new, quarantined |-> p.quarantined,
              version |-> p.version, alive |-> FALSE]

(* etcd exits by itself; etcd-manager does not notice yet. *)
ProcessExits(h) ==
    /\ Running(h)
    /\ process' = [process EXCEPT ![h] = Exited(process[h])]
    /\ UNCHANGED <<up, state, disk, prepared, data, unsaved>>

(* etcd sets up its data directory, some time after it has started. *)
EtcdInitialises(h) ==
    /\ Running(h)
    /\ process[h].cluster \notin data[h]
    /\ data' = [data EXCEPT ![h] = @ \cup {process[h].cluster}]
    /\ UNCHANGED <<up, state, disk, prepared, process, unsaved>>

(* Mutant: an etcd that has exited is not forgotten. *)
RunOnceKeepsExited(h, o) ==
    /\ up[h]
    /\ process[h] = None
    /\ o = "ok" /\ Configured(h)
    /\ process' = [process EXCEPT ![h] = Started(state[h])]
    /\ UNCHANGED <<up, state, disk, prepared, data, unsaved>>

(* runOnce forgets an etcd that has exited and starts one if the state     *)
(* asks for it.                                                            *)
RunOnce(h, o) ==
    /\ up[h]
    /\ ~Running(h)
    /\ \/ o = "ok" /\ Configured(h) /\ process' = [process EXCEPT ![h] = Started(state[h])]
       \/ o = "startFails" /\ process[h] # None /\ process' = [process EXCEPT ![h] = None]
    /\ UNCHANGED <<up, state, disk, prepared, data, unsaved>>

-----------------------------------------------------------------------------
(* A host on its own, under any requests that leaders may send *)

Outcomes == {"ok", "stopFails", "writeFails", "startFails", "secondWriteFails", "renameFails"}

Replies == {"ok", "error"}

JoinRequest(h) ==
    \E c \in Clusters, v \in Versions, r \in Replies :
        \/ JoinPrepare(h, c, v, r)
        \/ CancelPrepare(h, c, r)
        \/ JoinRefused(h, c, v, r)
        \/ \E o \in Outcomes, d \in Leftovers :
               JoinInitial(h, c, v, o, d, r) \/ JoinExisting(h, c, v, o, d, r)

OtherRequest(h) ==
    \E r \in Replies :
        \/ RequestPanics(h, r)
        \/ \E v \in Versions \cup {None} : ReconfigureRefused(h, v, r)
        \/ \E v \in Versions \cup {None}, quarantined \in BOOLEAN, o \in Outcomes, d \in Leftovers :
               Reconfigure(h, quarantined, v, o, d, r)
        \/ StopEtcdRefused(h, r)
        \/ \E o \in Outcomes, d \in Leftovers : StopEtcd(h, o, d, r)

HostNext ==
    \E h \in Hosts :
        \/ JoinRequest(h)
        \/ OtherRequest(h)
        \/ Expire(h)
        \/ ProcessExits(h)
        \/ EtcdInitialises(h)
        \/ \E o \in Outcomes : RunOnce(h, o)
        \/ Restart(h)

HostSpec == HostInit /\ [][HostNext]_hostVars

(* The etcd that a host supervises, alive or not, runs the cluster, the    *)
(* version and the quarantine that GetInfo reports, from which the leader  *)
(* picks the URLs to reach it: no failure inside JoinCluster, Reconfigure  *)
(* or StopEtcd leaves an old etcd under a new state.                       *)
ProcessMatchesState ==
    \A h \in Hosts : process[h] # None =>
        /\ Configured(h)
        /\ process[h].cluster = state[h].cluster
        /\ process[h].quarantined = state[h].quarantined
        /\ process[h].version = state[h].version

(* Unless the last write of the state file failed, a restart resumes the   *)
(* state that the host has been reporting: JoinCluster, Reconfigure and    *)
(* StopEtcd leave nothing in memory only.                                  *)
StateIsDurable ==
    \A h \in Hosts : up[h] /\ ~unsaved[h] => disk[h] = state[h]

(* An etcd that has exited or failed to start comes back, as long as the   *)
(* host stays configured and up (runOnce).                                 *)
ConfiguredHostRuns ==
    \A h \in Hosts : []<>(Running(h) \/ ~Configured(h) \/ ~up[h])
=============================================================================
