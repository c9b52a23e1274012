--------------------------- MODULE EtcdHostProofs ---------------------------
(***************************************************************************)
(* Proofs about EtcdHost: for any number of hosts, cluster tokens and      *)
(* versions, under any requests and failures.  What a host starts etcd     *)
(* with comes from its state, which may have come from its file, so the    *)
(* invariant also says that a state with a cluster has a version.          *)
(***************************************************************************)
EXTENDS EtcdHost, TLAPS

Complete(s) == s.cluster # None => s.version # None
CompleteStates ==
    \A h \in Hosts :
        /\ state[h] # None => Complete(state[h])
        /\ disk[h] \notin {None, Corrupt} => Complete(disk[h])

(* What is always true of the hosts. *)
HostInv == TypeOK /\ CompleteStates /\ ProcessMatchesState /\ StateIsDurable

(* An empty state is a state, and complete. *)
LEMMA EmptyStateIsComplete == EmptyState \in States /\ Complete(EmptyState)
  BY Zenon DEF EmptyState, States, Complete

(* The process that startEtcdProcess makes of a complete state with a      *)
(* cluster matches that state.                                             *)
LEMMA StartedMatches ==
  ASSUME NEW s \in States, s.cluster # None, Complete(s)
  PROVE  /\ Started(s) \in Processes
         /\ Started(s).cluster = s.cluster
         /\ Started(s).quarantined = s.quarantined
         /\ Started(s).version = s.version
  BY Zenon DEF States, Complete, Started, Processes

(* The state of a host that joins a cluster is complete. *)
LEMMA JoinedState ==
  ASSUME NEW c \in Clusters, NEW v \in Versions, NEW new \in BOOLEAN, NEW quarantined \in BOOLEAN
  PROVE  LET s == Joined(c, v, new, quarantined)
         IN  s \in States /\ Complete(s) /\ s.cluster # None
  BY HostAssumption, Zenon DEF States, Complete, Joined

(* The invariant holds when no host has a state. *)
LEMMA InitHostInv == HostInit => HostInv
  BY DEF HostInit, HostInv, TypeOK, CompleteStates, ProcessMatchesState, StateIsDurable

(* A step that changes one host through Becomes keeps the invariant if     *)
(* what it leaves behind on that host satisfies it.                        *)
LEMMA BecomesInv ==
  ASSUME HostInv,
         NEW h \in Hosts,
         NEW s \in States, Complete(s),
         NEW written \in States \cup {None, Corrupt},
         written \notin {None, Corrupt} => Complete(written),
         NEW saved \in BOOLEAN, saved => written = s,
         NEW p \in Processes \cup {None},
         p # None => /\ s.cluster # None
                     /\ p.cluster = s.cluster
                     /\ p.quarantined = s.quarantined
                     /\ p.version = s.version,
         Becomes(h, s, written, saved, p),
         up' = up,
         prepared' \in [Hosts -> Prepares \cup {None}],
         data' \in [Hosts -> SUBSET Clusters]
  PROVE  HostInv'
<1> USE StateAssumption
<1>1. TypeOK'
  BY Zenon DEF HostInv, TypeOK, Becomes
<1>2. CompleteStates'
  BY Zenon DEF HostInv, TypeOK, CompleteStates, Becomes
<1>3. ProcessMatchesState'
  BY Zenon DEF HostInv, TypeOK, ProcessMatchesState, Configured, Becomes
<1>4. StateIsDurable'
  BY Zenon DEF HostInv, TypeOK, StateIsDurable, Becomes
<1>5. QED
  BY <1>1, <1>2, <1>3, <1>4, Zenon DEF HostInv

(* What a failed write leaves in the file is nothing, garbage or a         *)
(* complete state.                                                         *)
LEMMA LeftoverIsComplete ==
  ASSUME NEW old \in States \cup {None, Corrupt},
         old \notin {None, Corrupt} => Complete(old),
         NEW d \in Leftovers
  PROVE  /\ LeftBy(d, old) \in States \cup {None, Corrupt}
         /\ LeftBy(d, old) \notin {None, Corrupt} => Complete(LeftBy(d, old))
  BY EmptyStateIsComplete, Zenon DEF Leftovers, LeftBy

(* JoinCluster in PHASE_INITIAL_CLUSTER keeps the invariant. *)
LEMMA InitialInv ==
  ASSUME HostInv, NEW h \in Hosts, NEW c \in Clusters, NEW v \in Versions,
         NEW o \in Outcomes, NEW d \in Leftovers, NEW r \in Replies,
         JoinInitial(h, c, v, o, d, r)
  PROVE  HostInv'
<1> DEFINE new == Joined(c, v, TRUE, TRUE)
           existing == Joined(c, v, FALSE, TRUE)
<1>1. new \in States /\ Complete(new) /\ new.cluster # None
  BY JoinedState, Zenon
<1>2. existing \in States /\ Complete(existing) /\ existing.cluster # None
  BY JoinedState, Zenon
<1>3. /\ new.cluster = existing.cluster
      /\ new.quarantined = existing.quarantined
      /\ new.version = existing.version
  BY Zenon DEF Joined
<1> HIDE DEF new, existing
<1>4. /\ Started(new) \in Processes
      /\ Started(new).cluster = existing.cluster
      /\ Started(new).quarantined = existing.quarantined
      /\ Started(new).version = existing.version
  BY <1>1, <1>3, StartedMatches, Zenon
<1>5. /\ up' = up
      /\ prepared' \in [Hosts -> Prepares \cup {None}]
      /\ data' \in [Hosts -> SUBSET Clusters]
      /\ disk[h] \in States \cup {None, Corrupt}
      /\ disk[h] \notin {None, Corrupt} => Complete(disk[h])
  BY Zenon DEF JoinInitial, HostInv, TypeOK, CompleteStates
<1>6. CASE o = "ok"
  <2>1. Becomes(h, existing, existing, TRUE, Started(new))
    BY <1>6, Zenon DEF JoinInitial, new, existing
  <2>2. QED
    BY <1>2, <1>4, <1>5, <2>1, BecomesInv, Zenon
<1>7. CASE o = "writeFails"
  <2>1. Becomes(h, new, LeftBy(d, disk[h]), FALSE, None)
    BY <1>7, Zenon DEF JoinInitial, new
  <2>2. /\ LeftBy(d, disk[h]) \in States \cup {None, Corrupt}
        /\ LeftBy(d, disk[h]) \notin {None, Corrupt} => Complete(LeftBy(d, disk[h]))
    BY <1>5, LeftoverIsComplete, Zenon
  <2>3. QED
    BY <1>1, <1>5, <2>1, <2>2, BecomesInv, Zenon
<1>8. CASE o = "startFails"
  <2>1. Becomes(h, new, new, TRUE, None)
    BY <1>8, Zenon DEF JoinInitial, new
  <2>2. QED
    BY <1>1, <1>5, <2>1, BecomesInv, Zenon
<1>9. CASE o = "secondWriteFails"
  <2>1. Becomes(h, existing, LeftBy(d, new), FALSE, Started(new))
    BY <1>9, Zenon DEF JoinInitial, new, existing
  <2>2. /\ LeftBy(d, new) \in States \cup {None, Corrupt}
        /\ LeftBy(d, new) \notin {None, Corrupt} => Complete(LeftBy(d, new))
    BY <1>1, LeftoverIsComplete, Zenon
  <2>3. QED
    BY <1>2, <1>4, <1>5, <2>1, <2>2, BecomesInv, Zenon
<1>10. QED
  BY <1>6, <1>7, <1>8, <1>9, Zenon DEF JoinInitial

(* JoinCluster in PHASE_JOIN_EXISTING keeps the invariant. *)
LEMMA ExistingInv ==
  ASSUME HostInv, NEW h \in Hosts, NEW c \in Clusters, NEW v \in Versions,
         NEW o \in Outcomes, NEW d \in Leftovers, NEW r \in Replies,
         JoinExisting(h, c, v, o, d, r)
  PROVE  HostInv'
<1> DEFINE joined == Joined(c, v, FALSE, FALSE)
<1>1. joined \in States /\ Complete(joined) /\ joined.cluster # None
  BY JoinedState, Zenon
<1> HIDE DEF joined
<1>2. /\ Started(joined) \in Processes
      /\ Started(joined).cluster = joined.cluster
      /\ Started(joined).quarantined = joined.quarantined
      /\ Started(joined).version = joined.version
  BY <1>1, StartedMatches, Zenon
<1>3. /\ up' = up
      /\ prepared' \in [Hosts -> Prepares \cup {None}]
      /\ data' \in [Hosts -> SUBSET Clusters]
      /\ disk[h] \in States \cup {None, Corrupt}
      /\ disk[h] \notin {None, Corrupt} => Complete(disk[h])
  BY Zenon DEF JoinExisting, HostInv, TypeOK, CompleteStates
<1>4. CASE o = "ok"
  <2>1. Becomes(h, joined, joined, TRUE, Started(joined))
    BY <1>4, Zenon DEF JoinExisting, joined
  <2>2. QED
    BY <1>1, <1>2, <1>3, <2>1, BecomesInv, Zenon
<1>5. CASE o = "writeFails"
  <2>1. Becomes(h, joined, LeftBy(d, disk[h]), FALSE, None)
    BY <1>5, Zenon DEF JoinExisting, joined
  <2>2. /\ LeftBy(d, disk[h]) \in States \cup {None, Corrupt}
        /\ LeftBy(d, disk[h]) \notin {None, Corrupt} => Complete(LeftBy(d, disk[h]))
    BY <1>3, LeftoverIsComplete
  <2>3. QED
    BY <1>1, <1>3, <2>1, <2>2, BecomesInv
<1>6. CASE o = "startFails"
  <2>1. Becomes(h, joined, joined, TRUE, None)
    BY <1>6, Zenon DEF JoinExisting, joined
  <2>2. QED
    BY <1>1, <1>3, <2>1, BecomesInv
<1>7. QED
  BY <1>4, <1>5, <1>6, Zenon DEF JoinExisting

(* Reconfigure keeps the invariant. *)
LEMMA ReconfigureInv ==
  ASSUME HostInv, NEW h \in Hosts, NEW quarantined \in BOOLEAN, NEW v \in Versions \cup {None},
         NEW o \in Outcomes, NEW d \in Leftovers, NEW r \in Replies,
         Reconfigure(h, quarantined, v, o, d, r)
  PROVE  HostInv'
<1> DEFINE new == [cluster |-> state[h].cluster, new |-> state[h].new, quarantined |-> quarantined,
                   version |-> IF v = None THEN state[h].version ELSE v]
<1>1. state[h] \in States /\ Complete(state[h]) /\ state[h].cluster # None
  BY Zenon DEF Reconfigure, Configured, HostInv, TypeOK, CompleteStates
<1>2. new \in States /\ Complete(new) /\ new.cluster # None
  BY <1>1, Zenon DEF States, Complete
<1> HIDE DEF new
<1>3. /\ Started(new) \in Processes
      /\ Started(new).cluster = new.cluster
      /\ Started(new).quarantined = new.quarantined
      /\ Started(new).version = new.version
  BY <1>2, StartedMatches, Zenon
<1>4. /\ up' = up
      /\ prepared' \in [Hosts -> Prepares \cup {None}]
      /\ data' \in [Hosts -> SUBSET Clusters]
      /\ disk[h] \in States \cup {None, Corrupt}
      /\ disk[h] \notin {None, Corrupt} => Complete(disk[h])
  BY Zenon DEF Reconfigure, HostInv, TypeOK, CompleteStates
<1>5. CASE o = "ok"
  <2>1. Becomes(h, new, new, TRUE, Started(new))
    BY <1>5, Zenon DEF Reconfigure, new
  <2>2. QED
    BY <1>2, <1>3, <1>4, <2>1, BecomesInv, Zenon
<1>6. CASE o = "stopFails"
  <2>1. UNCHANGED hostVars
    BY <1>6, Zenon DEF Reconfigure, hostVars
  <2>2. QED
    BY <2>1, Zenon DEF hostVars, HostInv, TypeOK, CompleteStates, ProcessMatchesState, StateIsDurable, Configured
<1>7. CASE o = "writeFails"
  <2>1. Becomes(h, new, LeftBy(d, disk[h]), FALSE, None)
    BY <1>7, Zenon DEF Reconfigure, new
  <2>2. /\ LeftBy(d, disk[h]) \in States \cup {None, Corrupt}
        /\ LeftBy(d, disk[h]) \notin {None, Corrupt} => Complete(LeftBy(d, disk[h]))
    BY <1>4, LeftoverIsComplete, Zenon
  <2>3. QED
    BY <1>2, <1>4, <2>1, <2>2, BecomesInv, Zenon
<1>8. CASE o = "startFails"
  <2>1. Becomes(h, new, new, TRUE, None)
    BY <1>8, Zenon DEF Reconfigure, new
  <2>2. QED
    BY <1>2, <1>4, <2>1, BecomesInv, Zenon
<1>9. QED
  BY <1>5, <1>6, <1>7, <1>8, Zenon DEF Reconfigure

(* StopEtcd keeps the invariant. *)
LEMMA StopInv ==
  ASSUME HostInv, NEW h \in Hosts, NEW o \in Outcomes, NEW d \in Leftovers, NEW r \in Replies,
         StopEtcd(h, o, d, r)
  PROVE  HostInv'
<1>1. /\ up' = up
      /\ prepared' \in [Hosts -> Prepares \cup {None}]
      /\ data' \in [Hosts -> SUBSET Clusters]
      /\ disk[h] \in States \cup {None, Corrupt}
      /\ disk[h] \notin {None, Corrupt} => Complete(disk[h])
  BY Zenon DEF StopEtcd, HostInv, TypeOK, CompleteStates
<1>2. CASE o = "stopFails"
  <2>1. UNCHANGED hostVars
    BY <1>2, Zenon DEF StopEtcd, hostVars
  <2>2. QED
    BY <2>1, Zenon DEF hostVars, HostInv, TypeOK, CompleteStates, ProcessMatchesState, StateIsDurable, Configured
<1>3. CASE o = "writeFails"
  <2>1. Becomes(h, EmptyState, LeftBy(d, disk[h]), FALSE, None)
    BY <1>3, Zenon DEF StopEtcd
  <2>2. /\ LeftBy(d, disk[h]) \in States \cup {None, Corrupt}
        /\ LeftBy(d, disk[h]) \notin {None, Corrupt} => Complete(LeftBy(d, disk[h]))
    BY <1>1, LeftoverIsComplete, Zenon
  <2>3. QED
    BY <1>1, <2>1, <2>2, EmptyStateIsComplete, BecomesInv, Zenon
<1>4. CASE o \in {"ok", "renameFails"}
  <2>1. Becomes(h, EmptyState, EmptyState, TRUE, None)
    BY <1>4, Zenon DEF StopEtcd
  <2>2. QED
    BY <1>1, <2>1, EmptyStateIsComplete, BecomesInv, Zenon
<1>5. QED
  BY <1>2, <1>3, <1>4, Zenon DEF StopEtcd

(* The requests that are refused, and the PREPAREs, change at most what is *)
(* prepared; so does its expiry.                                           *)
LEMMA PrepareInv ==
  ASSUME HostInv,
         prepared' \in [Hosts -> Prepares \cup {None}],
         UNCHANGED <<up, state, disk, process, data, unsaved>>
  PROVE  HostInv'
  BY Zenon DEF HostInv, TypeOK, CompleteStates, ProcessMatchesState, StateIsDurable, Configured

(* A restart resumes what the file holds, with no etcd running yet. *)
LEMMA RestartInv ==
  ASSUME HostInv, NEW h \in Hosts, Restart(h)
  PROVE  HostInv'
<1> USE StateAssumption DEF Restart
<1>1. TypeOK'
  BY Zenon DEF HostInv, TypeOK
<1>2. CompleteStates'
  BY Zenon DEF HostInv, TypeOK, CompleteStates
<1>3. ProcessMatchesState'
  BY Zenon DEF HostInv, TypeOK, ProcessMatchesState, Configured
<1>4. StateIsDurable'
  BY Zenon DEF HostInv, TypeOK, StateIsDurable
<1>5. QED
  BY <1>1, <1>2, <1>3, <1>4, Zenon DEF HostInv

(* A step that only replaces one host's process, by none or by one that    *)
(* matches the host's state, keeps the invariant.                          *)
LEMMA ProcessInv ==
  ASSUME HostInv, NEW h \in Hosts,
         NEW p \in Processes \cup {None},
         p # None => /\ Configured(h)
                     /\ p.cluster = state[h].cluster
                     /\ p.quarantined = state[h].quarantined
                     /\ p.version = state[h].version,
         process' = [process EXCEPT ![h] = p],
         UNCHANGED <<up, state, disk, prepared, data, unsaved>>
  PROVE  HostInv'
<1>1. TypeOK' /\ CompleteStates' /\ StateIsDurable'
  BY Zenon DEF HostInv, TypeOK, CompleteStates, StateIsDurable
<1>2. ProcessMatchesState'
  BY Zenon DEF HostInv, TypeOK, ProcessMatchesState, Configured
<1>3. QED
  BY <1>1, <1>2, Zenon DEF HostInv

(* Every step of a host keeps the invariant. *)
LEMMA NextHostInv == HostInv /\ [HostNext]_hostVars => HostInv'
<1> SUFFICES ASSUME HostInv, [HostNext]_hostVars
             PROVE  HostInv'
  BY Zenon
<1>1. CASE UNCHANGED hostVars
  BY <1>1, Zenon DEF hostVars, HostInv, TypeOK, CompleteStates, ProcessMatchesState, StateIsDurable, Configured
<1>2. ASSUME NEW h \in Hosts, NEW c \in Clusters, NEW v \in Versions, NEW r \in Replies,
             \/ JoinPrepare(h, c, v, r)
             \/ CancelPrepare(h, c, r)
             \/ JoinRefused(h, c, v, r)
      PROVE  HostInv'
  <2>1. prepared \in [Hosts -> Prepares \cup {None}] /\ AfterExpiry(h) \in Prepares \cup {None}
    BY Zenon DEF HostInv, TypeOK, AfterExpiry
  <2>2. [token |-> c, expired |-> FALSE] \in Prepares
    BY Zenon DEF Prepares
  <2>3. prepared' \in [Hosts -> Prepares \cup {None}]
    BY <1>2, <2>1, <2>2, Zenon DEF JoinPrepare, CancelPrepare, JoinRefused
  <2>4. UNCHANGED <<up, state, disk, process, data, unsaved>>
    BY <1>2, Zenon DEF JoinPrepare, CancelPrepare, JoinRefused
  <2>5. QED
    BY <2>3, <2>4, PrepareInv, Zenon
<1>3. ASSUME NEW h \in Hosts, JoinRequest(h)
      PROVE  HostInv'
  BY <1>2, <1>3, InitialInv, ExistingInv, Zenon DEF JoinRequest
<1>4. ASSUME NEW h \in Hosts, NEW r \in Replies, NEW v \in Versions \cup {None},
             ReconfigureRefused(h, v, r)
      PROVE  UNCHANGED hostVars
  BY <1>4, Zenon DEF ReconfigureRefused
<1>5. ASSUME NEW h \in Hosts, NEW r \in Replies, StopEtcdRefused(h, r)
      PROVE  UNCHANGED hostVars
  BY <1>5, Zenon DEF StopEtcdRefused
<1>6. ASSUME NEW h \in Hosts, NEW r \in Replies, RequestPanics(h, r)
      PROVE  HostInv'
  BY <1>6, RestartInv, Zenon DEF RequestPanics
<1>7. ASSUME NEW h \in Hosts, OtherRequest(h)
      PROVE  HostInv'
  BY <1>1, <1>4, <1>5, <1>6, <1>7, ReconfigureInv, StopInv, Zenon DEF OtherRequest
<1>8. ASSUME NEW h \in Hosts, Expire(h)
      PROVE  HostInv'
  <2>1. [token |-> prepared[h].token, expired |-> TRUE] \in Prepares
    BY <1>8, Zenon DEF Expire, HostInv, TypeOK, Prepares
  <2>2. prepared' \in [Hosts -> Prepares \cup {None}]
    BY <1>8, <2>1, Zenon DEF Expire, HostInv, TypeOK
  <2>3. QED
    BY <1>8, <2>2, PrepareInv, Zenon DEF Expire
<1>9. ASSUME NEW h \in Hosts, ProcessExits(h)
      PROVE  HostInv'
  <2>1. process[h] \in Processes /\ process[h] # None
    BY <1>9, Zenon DEF ProcessExits, Running, HostInv, TypeOK
  <2>2. /\ Exited(process[h]) \in Processes
        /\ Exited(process[h]).cluster = process[h].cluster
        /\ Exited(process[h]).quarantined = process[h].quarantined
        /\ Exited(process[h]).version = process[h].version
    BY <2>1, Zenon DEF Exited, Processes
  <2>3. /\ Configured(h)
        /\ process[h].cluster = state[h].cluster
        /\ process[h].quarantined = state[h].quarantined
        /\ process[h].version = state[h].version
    BY <2>1, Zenon DEF HostInv, ProcessMatchesState
  <2>4. QED
    BY <1>9, <2>2, <2>3, ProcessInv, Zenon DEF ProcessExits
<1>10. ASSUME NEW h \in Hosts, EtcdInitialises(h)
       PROVE  HostInv'
  <2>1. process[h] \in Processes
    BY <1>10, Zenon DEF EtcdInitialises, Running, HostInv, TypeOK
  <2>2. process[h].cluster \in Clusters
    BY <2>1, Zenon DEF Processes
  <2>3. data' \in [Hosts -> SUBSET Clusters]
    BY <1>10, <2>2, Zenon DEF EtcdInitialises, HostInv, TypeOK
  <2>4. QED
    BY <1>10, <2>3, Zenon DEF EtcdInitialises, HostInv, TypeOK, CompleteStates, ProcessMatchesState,
       StateIsDurable, Configured
<1>11. ASSUME NEW h \in Hosts, NEW o \in Outcomes, RunOnce(h, o)
       PROVE  HostInv'
  <2>1. CASE o = "ok"
    <3>1. Configured(h) /\ state[h] \in States /\ Complete(state[h])
      BY <1>11, <2>1, Zenon DEF RunOnce, Configured, HostInv, TypeOK, CompleteStates
    <3>2. /\ Started(state[h]) \in Processes
          /\ Started(state[h]).cluster = state[h].cluster
          /\ Started(state[h]).quarantined = state[h].quarantined
          /\ Started(state[h]).version = state[h].version
      BY <3>1, StartedMatches, Zenon DEF Configured
    <3>3. QED
      BY <1>11, <2>1, <3>1, <3>2, ProcessInv, Zenon DEF RunOnce
  <2>2. CASE o = "startFails"
    BY <1>11, <2>2, ProcessInv, Zenon DEF RunOnce
  <2>3. QED
    BY <1>11, <2>1, <2>2, Zenon DEF RunOnce
<1>12. QED
  BY <1>1, <1>3, <1>7, <1>8, <1>9, <1>10, <1>11, RestartInv, Zenon DEF HostNext

(* HostInv is an invariant of the hosts. *)
LEMMA HostInvariance == HostSpec => []HostInv
  BY InitHostInv, NextHostInv, PTL DEF HostSpec

(* The types of the hosts' variables. *)
THEOREM HostTypes == HostSpec => []TypeOK
<1>1. HostInv => TypeOK
  BY Zenon DEF HostInv
<1>2. QED
  BY <1>1, HostInvariance, PTL

(* The etcd that a host supervises runs the cluster, version and           *)
(* quarantine of the state that GetInfo reports, whatever fails inside     *)
(* JoinCluster, Reconfigure, StopEtcd and runOnce.                         *)
THEOREM ProcessAlwaysMatches == HostSpec => []ProcessMatchesState
<1>1. HostInv => ProcessMatchesState
  BY Zenon DEF HostInv
<1>2. QED
  BY <1>1, HostInvariance, PTL

(* Unless the last write of the state file failed, a restart resumes the   *)
(* state that the host has been reporting.                                 *)
THEOREM StateSurvivesRestart == HostSpec => []StateIsDurable
<1>1. HostInv => StateIsDurable
  BY Zenon DEF HostInv
<1>2. QED
  BY <1>1, HostInvariance, PTL
=============================================================================
