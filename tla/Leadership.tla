----------------------------- MODULE Leadership -----------------------------
(***************************************************************************)
(* Gossip and leader election: pkg/privateapi, and the part of the control *)
(* loop (EtcdController.run) that seeks, asserts and gives up leadership.  *)
(*                                                                         *)
(* Every etcd-manager keeps a table of peers, some of them healthy (pinged *)
(* within HealthyTimeout).  The one that sees no healthy peer with a lower *)
(* id offers itself as leader to every healthy peer, one RPC after the     *)
(* other; a peer refuses when the offered view misses a peer that it sees  *)
(* as healthy itself.  Pings, timeouts, restarts and the loops of the      *)
(* other controllers interleave with these RPCs.                           *)
(*                                                                         *)
(* Clocks are left out: a healthy peer may time out at any moment.  The    *)
(* faults that may happen are counted and bounded by MaxFaults, so that    *)
(* every behaviour is eventually free of them.                             *)
(***************************************************************************)
EXTENDS Naturals, FiniteSets

CONSTANTS Peers,      \* peer ids: naturals, as the election orders them
          Tokens,     \* leadership tokens
          None,       \* Go's nil
          Seeded,     \* the peers that know each other when the model starts
          NoLock,     \* the leader lock where none is configured
          MaxFaults   \* bound: timeouts, restarts and failed calls

ASSUME PeersAssumption == Peers \subseteq Nat
ASSUME TokensAssumption == None \notin Tokens /\ None \notin Peers
ASSUME ConfigAssumption == Seeded \subseteq Peers /\ NoLock \notin Peers \cup {None} /\ MaxFaults \in Nat

VARIABLES
    known,       \* known[p]: the keys of Server.peers of p
    healthy,     \* healthy[p]: those whose status() is healthy
    accepted,    \* accepted[p]: the token in Server.leadership of p
    leadership,  \* leadership[p]: EtcdController.leadership of p
    lockHolder,  \* the process whose leaderLockGuard is set, or NoLock
    pc,          \* pc[p]: where the control loop of p stands
    cyclePeers,  \* cyclePeers[p]: "peers", as run() of p read them
    view,        \* view[p]: the peers in the view p is sending
    pending,     \* pending[p]: those of view[p] still to be notified
    token,       \* token[p]: the token in the view p is sending
    acks,        \* history: the peers that have accepted each token
    faults       \* the number of faults so far

serverVars == <<known, healthy, accepted>>
loopVars == <<cyclePeers, view, pending, token>>
vars == <<known, healthy, accepted, leadership, lockHolder, pc, cyclePeers,
          view, pending, token, acks, faults>>

Leaderships == [token : Tokens, ackedPeers : SUBSET Peers] \cup {None}

TypeOK ==
    /\ known \in [Peers -> SUBSET Peers]
    /\ healthy \in [Peers -> SUBSET Peers]
    /\ accepted \in [Peers -> Tokens \cup {None}]
    /\ leadership \in [Peers -> Leaderships]
    /\ lockHolder \in Peers \cup {None, NoLock}
    /\ pc \in [Peers -> {"idle", "snapshot", "notify", "acting"}]
    /\ cyclePeers \in [Peers -> SUBSET Peers]
    /\ view \in [Peers -> SUBSET Peers]
    /\ pending \in [Peers -> SUBSET Peers]
    /\ token \in [Peers -> Tokens \cup {None}]
    /\ acks \in [Tokens -> SUBSET Peers]
    /\ faults \in 0..MaxFaults

Init ==
    /\ known = [p \in Peers |-> IF p \in Seeded THEN Seeded ELSE {}]
    /\ healthy = known
    /\ accepted = [p \in Peers |-> None]
    /\ leadership = [p \in Peers |-> None]
    /\ lockHolder \in {None, NoLock}
    /\ pc = [p \in Peers |-> "idle"]
    /\ cyclePeers = [p \in Peers |-> {}]
    /\ view = [p \in Peers |-> {}]
    /\ pending = [p \in Peers |-> {}]
    /\ token = [p \in Peers |-> None]
    /\ acks = [t \in Tokens |-> {}]
    /\ faults = 0

Fault == faults < MaxFaults /\ faults' = faults + 1

-----------------------------------------------------------------------------
(* Gossip *)

(* Discovery finds a peer and starts pinging it; it is not yet healthy. *)
Discover(p, q) ==
    /\ q \notin known[p]
    /\ known' = [known EXCEPT ![p] = @ \cup {q}]
    /\ UNCHANGED <<healthy, accepted, leadership, lockHolder, pc, loopVars, acks, faults>>

(* p pings q: q learns of p from the request, p of q from the response. *)
Ping(p, q) ==
    /\ q \in known[p]
    /\ known' = [known EXCEPT ![q] = @ \cup {p}]
    /\ healthy' = [r \in Peers |-> healthy[r] \cup (IF r = q THEN {p} ELSE {})
                                              \cup (IF r = p THEN {q} ELSE {})]
    /\ UNCHANGED <<accepted, leadership, lockHolder, pc, loopVars, acks, faults>>

(* q handles the ping but the response never reaches p. *)
PingLost(p, q) ==
    /\ q \in known[p]
    /\ Fault
    /\ known' = [known EXCEPT ![q] = @ \cup {p}]
    /\ healthy' = [healthy EXCEPT ![q] = @ \cup {p}]
    /\ UNCHANGED <<accepted, leadership, lockHolder, pc, loopVars, acks>>

(* status(): HealthyTimeout passes since the last ping exchanged with q. *)
Timeout(p, q) ==
    /\ q \in healthy[p]
    /\ Fault
    /\ healthy' = [healthy EXCEPT ![p] = @ \ {q}]
    /\ UNCHANGED <<known, accepted, leadership, lockHolder, pc, loopVars, acks>>

(* Nothing of the election is persisted; the lock file is closed. *)
Restart(p) ==
    /\ Fault
    /\ known' = [known EXCEPT ![p] = {}]
    /\ healthy' = [healthy EXCEPT ![p] = {}]
    /\ accepted' = [accepted EXCEPT ![p] = None]
    /\ leadership' = [leadership EXCEPT ![p] = None]
    /\ lockHolder' = IF lockHolder = p THEN None ELSE lockHolder
    /\ pc' = [pc EXCEPT ![p] = "idle"]
    /\ cyclePeers' = [cyclePeers EXCEPT ![p] = {}]
    /\ view' = [view EXCEPT ![p] = {}]
    /\ pending' = [pending EXCEPT ![p] = {}]
    /\ token' = [token EXCEPT ![p] = None]
    /\ UNCHANGED acks

-----------------------------------------------------------------------------
(* The control loop up to the point where the leader starts to act *)

Lowest(p) == p \in healthy[p] /\ \A q \in healthy[p] : p <= q

(* Mutant: the lock is kept. *)
StandDownWithLock(p) ==
    /\ pc[p] = "idle"
    /\ ~Lowest(p)
    /\ UNCHANGED vars

(* A controller that sees a lower peer releases the leader lock.  It keeps *)
(* its leadership, if it had one.                                          *)
StandDown(p) ==
    /\ pc[p] = "idle"
    /\ p \in healthy[p]
    /\ ~Lowest(p)
    /\ lockHolder = p
    /\ lockHolder' = None
    /\ UNCHANGED <<serverVars, leadership, pc, loopVars, acks, faults>>

(* Mutant: the lock is taken from its holder. *)
BeginCycleStealing(p) ==
    /\ pc[p] = "idle"
    /\ Lowest(p)
    /\ lockHolder' = IF lockHolder = NoLock THEN NoLock ELSE p
    /\ pc' = [pc EXCEPT ![p] = "snapshot"]
    /\ cyclePeers' = [cyclePeers EXCEPT ![p] = healthy[p]]
    /\ UNCHANGED <<serverVars, leadership, view, pending, token, acks, faults>>

(* The lowest of its healthy peers takes the leader lock, where one is     *)
(* configured, and goes on to offer or to assert its leadership.           *)
BeginCycle(p) ==
    /\ pc[p] = "idle"
    /\ Lowest(p)
    /\ lockHolder \in {None, NoLock, p}
    /\ lockHolder' = IF lockHolder = NoLock THEN NoLock ELSE p
    /\ pc' = [pc EXCEPT ![p] = "snapshot"]
    /\ cyclePeers' = [cyclePeers EXCEPT ![p] = healthy[p]]
    /\ UNCHANGED <<serverVars, leadership, view, pending, token, acks, faults>>

InUse(t) ==
    \E p \in Peers : \/ accepted[p] = t
                     \/ token[p] = t
                     \/ leadership[p] # None /\ leadership[p].token = t

(* Mutant: the token is not random. *)
ConstantToken == CHOOSE t \in Tokens : TRUE

(* randomToken: equal to no token that anyone still holds. *)
FreshToken == CHOOSE t \in Tokens : ~InUse(t)

(* The body of the loop is over, or returned early. *)
EndLoop(p) ==
    /\ pc' = [pc EXCEPT ![p] = "idle"]
    /\ cyclePeers' = [cyclePeers EXCEPT ![p] = {}]
    /\ view' = [view EXCEPT ![p] = {}]
    /\ pending' = [pending EXCEPT ![p] = {}]
    /\ token' = [token EXCEPT ![p] = None]

(* BecomeLeader and AssertLeadership both start from the peers that are    *)
(* healthy now, which need not be those that the loop has read.            *)
Snapshot(p) ==
    /\ pc[p] = "snapshot"
    /\ IF leadership[p] = None
       THEN /\ \E t \in Tokens : ~InUse(t)
            /\ token' = [token EXCEPT ![p] = FreshToken]
            /\ acks' = [t \in Tokens |-> IF InUse(t) THEN acks[t] ELSE {}]
       ELSE /\ token' = [token EXCEPT ![p] = leadership[p].token]
            /\ UNCHANGED acks
    /\ view' = [view EXCEPT ![p] = healthy[p]]
    /\ pending' = [pending EXCEPT ![p] = healthy[p]]
    /\ pc' = [pc EXCEPT ![p] = "notify"]
    /\ UNCHANGED <<serverVars, leadership, lockHolder, cyclePeers, faults>>

(* Mutant: q adds an entry without a peer. *)
KnownAfterWithNil(q, v) == known[q] \cup v \cup {None}

(* q has taken over from the view the peers it did not know. *)
KnownAfter(q, v) == known[q] \cup v
HealthyAfter(q, v) == healthy[q] \cup (v \ known[q])

(* Mutant: q refuses a view that equals its own, too. *)
RejectsEqual(q, v) == ~(HealthyAfter(q, v) \subseteq v) \/ HealthyAfter(q, v) = v

(* q refuses a view that misses a peer it sees as healthy. *)
Rejects(q, v) == ~(HealthyAfter(q, v) \subseteq v)

(* p notifies q, and q accepts. *)
NotifyAccepted(p, q) ==
    /\ pc[p] = "notify"
    /\ q \in pending[p] \cap healthy[p]
    /\ ~Rejects(q, view[p])
    /\ known' = [known EXCEPT ![q] = KnownAfter(q, view[p])]
    /\ healthy' = [healthy EXCEPT ![q] = HealthyAfter(q, view[p])]
    /\ accepted' = [accepted EXCEPT ![q] = token[p]]
    /\ acks' = [acks EXCEPT ![token[p]] = @ \cup {q}]
    /\ pending' = [pending EXCEPT ![p] = @ \ {q}]
    /\ UNCHANGED <<leadership, lockHolder, pc, cyclePeers, view, token, faults>>

(* p notifies q, and q refuses and answers with the peers that it sees as  *)
(* healthy; p adds those it did not know, and gives up for this cycle.     *)
NotifyRejected(p, q) ==
    /\ pc[p] = "notify"
    /\ q \in pending[p] \cap healthy[p]
    /\ Rejects(q, view[p])
    /\ LET back == HealthyAfter(q, view[p])
           knownQ == [known EXCEPT ![q] = KnownAfter(q, view[p])]
           healthyQ == [healthy EXCEPT ![q] = back]
       IN  /\ known' = [knownQ EXCEPT ![p] = @ \cup back]
           /\ healthy' = [healthyQ EXCEPT ![p] = @ \cup (back \ knownQ[p])]
    /\ EndLoop(p)
    /\ UNCHANGED <<accepted, leadership, lockHolder, acks, faults>>

(* GetPeerClient finds q no longer healthy, or the call fails before q     *)
(* handles it.                                                             *)
NotifyError(p, q) ==
    /\ pc[p] = "notify"
    /\ q \in pending[p]
    /\ IF q \in healthy[p] THEN Fault ELSE UNCHANGED faults
    /\ EndLoop(p)
    /\ UNCHANGED <<serverVars, leadership, lockHolder, acks>>

(* q accepts, but the response is lost: p takes it for an error. *)
NotifyUnheard(p, q) ==
    /\ pc[p] = "notify"
    /\ q \in pending[p] \cap healthy[p]
    /\ ~Rejects(q, view[p])
    /\ Fault
    /\ known' = [known EXCEPT ![q] = KnownAfter(q, view[p])]
    /\ healthy' = [healthy EXCEPT ![q] = HealthyAfter(q, view[p])]
    /\ accepted' = [accepted EXCEPT ![q] = token[p]]
    /\ acks' = [acks EXCEPT ![token[p]] = @ \cup {q}]
    /\ EndLoop(p)
    /\ UNCHANGED <<leadership, lockHolder>>

Notified(p) == pc[p] = "notify" /\ pending[p] = {}

(* Everyone accepted the bid: p is leader, from the next cycle on. *)
FinishBid(p) ==
    /\ Notified(p)
    /\ leadership[p] = None
    /\ leadership' = [leadership EXCEPT ![p] = [token |-> token[p], ackedPeers |-> view[p]]]
    /\ EndLoop(p)
    /\ UNCHANGED <<serverVars, lockHolder, acks, faults>>

(* refreshControlStore fails after the bid: everyone has accepted a token  *)
(* that nobody will use.                                                   *)
FinishBidFails(p) ==
    /\ Notified(p)
    /\ leadership[p] = None
    /\ Fault
    /\ EndLoop(p)
    /\ UNCHANGED <<serverVars, leadership, lockHolder, acks>>

(* Mutant: p acts without comparing its peers with those that acked. *)
FinishAssertUnchecked(p) ==
    /\ Notified(p)
    /\ leadership[p] # None
    /\ pc' = [pc EXCEPT ![p] = "acting"]
    /\ view' = [view EXCEPT ![p] = {}]
    /\ token' = [token EXCEPT ![p] = None]
    /\ UNCHANGED <<serverVars, leadership, lockHolder, cyclePeers, pending, acks, faults>>

(* After the assertion, p resigns when one of the peers that the loop has  *)
(* read is not among those that acked the original bid.                    *)
FinishAssert(p) ==
    /\ Notified(p)
    /\ leadership[p] # None
    /\ IF cyclePeers[p] \subseteq leadership[p].ackedPeers
       THEN /\ pc' = [pc EXCEPT ![p] = "acting"]
            /\ view' = [view EXCEPT ![p] = {}]
            /\ token' = [token EXCEPT ![p] = None]
            /\ UNCHANGED <<leadership, cyclePeers, pending>>
       ELSE /\ leadership' = [leadership EXCEPT ![p] = None]
            /\ EndLoop(p)
    /\ UNCHANGED <<serverVars, lockHolder, acks, faults>>

(* Whatever the leader then does, its loop ends. *)
EndCycle(p) ==
    /\ pc[p] = "acting"
    /\ EndLoop(p)
    /\ UNCHANGED <<serverVars, leadership, lockHolder, acks, faults>>

Gossip(p) ==
    \E q \in Peers : Discover(p, q) \/ Ping(p, q) \/ PingLost(p, q) \/ Timeout(p, q)

Loop(p) ==
    \/ StandDown(p)
    \/ BeginCycle(p)
    \/ Snapshot(p)
    \/ \E q \in Peers : \/ NotifyAccepted(p, q)
                        \/ NotifyRejected(p, q)
                        \/ NotifyError(p, q)
                        \/ NotifyUnheard(p, q)
    \/ FinishBid(p)
    \/ FinishBidFails(p)
    \/ FinishAssert(p)
    \/ EndCycle(p)

Next == \E p \in Peers : Gossip(p) \/ Restart(p) \/ Loop(p)

Spec == Init /\ [][Next]_vars

(* Each process keeps polling discovery, keeps pinging every peer it knows *)
(* and keeps running its control loop (contextutil.Forever); an RPC ends   *)
(* with an answer or an error.                                             *)
Fairness ==
    \A p \in Peers :
        /\ \A q \in Peers : WF_vars(Discover(p, q)) /\ WF_vars(Ping(p, q))
        /\ WF_vars(Loop(p))

FairSpec == Spec /\ Fairness

-----------------------------------------------------------------------------

(* The promise of the election, with the token in a view being sent as the *)
(* bid.                                                                    *)
Promise == INSTANCE LeaderToken WITH bid <- token

(* The election as coded, with its views, refusals, resignations and lost  *)
(* answers, implements the promise: a token belongs to one controller and  *)
(* the peers counted as acked did accept it (BecomeLeader, AssertLeadership,*)
(* LeaderNotification).                                                    *)
ImplementsPromise == Promise!Spec

(* Two controllers never use the same token, so a request that carries an  *)
(* accepted token comes from the one controller that offered it            *)
(* (BecomeLeader draws the token, IsLeader compares it).                   *)
TokensAreOwned == Promise!OneUser

(* With a leader lock configured, no two controllers are past the lock at  *)
(* the same time: "this is how we don't form multiple clusters if we       *)
(* split-brain" (controller.go:219).                                       *)
LockExcludes ==
    lockHolder # NoLock => \A p, q \in Peers : pc[p] # "idle" /\ pc[q] # "idle" => p = q

(* While a leader acts on a cycle, every peer it counts in ackedPeerCount  *)
(* has accepted the token it sends, since that token was drawn.            *)
ActingIsAcked ==
    \A p \in Peers : pc[p] = "acting" =>
        leadership[p] # None /\ cyclePeers[p] \subseteq acks[leadership[p].token]

(* Once faults have stopped, the peer with the lowest id ends up leading   *)
(* everyone for good: all peers accept its token.                          *)
Settled ==
    \E p \in Peers :
        /\ \A q \in Peers : p <= q
        /\ leadership[p] # None
        /\ \A q \in Peers : accepted[q] = leadership[p].token
EventuallySettled == <>[]Settled

(* Once faults have stopped, the peer with the lowest id keeps reaching    *)
(* the part of its loop where it acts on the cluster.                      *)
LowestKeepsActing ==
    \A p \in Peers : (\A q \in Peers : p <= q) => []<>(pc[p] = "acting")

(* README.md:56: "any peer can reject the leadership bid (if it knows of a *)
(* peer with a lower ID)".                                                 *)
AcceptsOnlyLowest ==
    [][\A p, q \in Peers : accepted'[q] # accepted[q] /\ accepted'[q] # None /\ token[p] = accepted'[q]
            => \A r \in healthy[q] : p <= r]_vars
=============================================================================
