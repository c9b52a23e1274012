-------------------------- MODULE LeadershipProofs --------------------------
(***************************************************************************)
(* Proofs about Leadership, for any finite or infinite set of peers, with  *)
(* or without the leader lock and for any number of faults; that it keeps  *)
(* the promise of LeaderToken; and what follows from the promise alone.    *)
(***************************************************************************)
EXTENDS Leadership, TLAPS

(* A token is being sent exactly while its owner notifies; what has been   *)
(* notified has acked; a leader only ever re-asserts its own token; and a  *)
(* leader acts only on peers that acked.                                   *)
Bid(p) ==
    /\ token[p] # None <=> pc[p] = "notify"
    /\ pc[p] = "notify" => view[p] \ pending[p] \subseteq acks[token[p]]
    /\ pc[p] = "notify" /\ leadership[p] # None => token[p] = leadership[p].token
    /\ leadership[p] # None => leadership[p].ackedPeers \subseteq acks[leadership[p].token]
    /\ pc[p] = "acting" => leadership[p] # None /\ cyclePeers[p] \subseteq leadership[p].ackedPeers

BidInv == \A p \in Peers : Bid(p)

(* Whoever is past the lock holds it. *)
LockInv == lockHolder # NoLock => \A p \in Peers : pc[p] # "idle" => lockHolder = p

Inv == TypeOK /\ BidInv /\ LockInv

(* The invariant holds in the initial state. *)
LEMMA InitInv == Init => Inv
  BY ConfigAssumption, TokensAssumption
     DEF Init, Inv, TypeOK, BidInv, Bid, LockInv, Leaderships

(* randomToken yields a token that nobody holds. *)
LEMMA FreshTokenIsUnused ==
  ASSUME \E t \in Tokens : ~InUse(t)
  PROVE  FreshToken \in Tokens /\ ~InUse(FreshToken)
  BY Zenon DEF FreshToken

(* The types of the variables of the control loop. *)
LoopTypes ==
    /\ pc \in [Peers -> {"idle", "snapshot", "notify", "acting"}]
    /\ cyclePeers \in [Peers -> SUBSET Peers]
    /\ view \in [Peers -> SUBSET Peers]
    /\ pending \in [Peers -> SUBSET Peers]
    /\ token \in [Peers -> Tokens \cup {None}]

(* The end of a cycle keeps them. *)
LEMMA EndLoopTypes ==
  ASSUME LoopTypes, NEW p \in Peers, EndLoop(p) PROVE LoopTypes'
  BY Zenon DEF LoopTypes, EndLoop

(* A view that p sends and q accepts keeps the types of q's tables. *)
LEMMA AcceptTypes ==
  ASSUME Inv, NEW p \in Peers, NEW q \in Peers, pc[p] = "notify",
         known' = [known EXCEPT ![q] = KnownAfter(q, view[p])],
         healthy' = [healthy EXCEPT ![q] = HealthyAfter(q, view[p])],
         accepted' = [accepted EXCEPT ![q] = token[p]],
         acks' = [acks EXCEPT ![token[p]] = @ \cup {q}]
  PROVE  /\ known' \in [Peers -> SUBSET Peers]
         /\ healthy' \in [Peers -> SUBSET Peers]
         /\ accepted' \in [Peers -> Tokens \cup {None}]
         /\ acks' \in [Tokens -> SUBSET Peers]
<1>1. KnownAfter(q, view[p]) \in SUBSET Peers /\ HealthyAfter(q, view[p]) \in SUBSET Peers
  BY Zenon DEF Inv, TypeOK, KnownAfter, HealthyAfter
<1>2. known' \in [Peers -> SUBSET Peers] /\ healthy' \in [Peers -> SUBSET Peers]
  BY <1>1, Zenon DEF Inv, TypeOK
<1>3. token[p] \in Tokens
  BY TokensAssumption, Zenon DEF Inv, TypeOK, BidInv, Bid
<1>4. accepted' \in [Peers -> Tokens \cup {None}]
  BY <1>3, Zenon DEF Inv, TypeOK
<1>5. acks' \in [Tokens -> SUBSET Peers]
  BY <1>3, Zenon DEF Inv, TypeOK
<1>6. QED
  BY <1>2, <1>4, <1>5, Zenon

(* Every step of gossip and of the control loop keeps the types. *)
LEMMA NextTypeOK == Inv /\ [Next]_vars => TypeOK'
<1> SUFFICES ASSUME Inv, [Next]_vars PROVE TypeOK'
  BY Zenon
<1>a. LoopTypes
  BY Zenon DEF Inv, TypeOK, LoopTypes
<1>b. LoopTypes' /\ UNCHANGED <<serverVars, leadership, lockHolder, acks>> /\ faults' \in 0..MaxFaults => TypeOK'
  BY Zenon DEF Inv, TypeOK, LoopTypes, serverVars
<1>c. Fault => faults' \in 0..MaxFaults
  BY ConfigAssumption DEF Inv, TypeOK, Fault
<1> USE TokensAssumption, ConfigAssumption DEF Inv, TypeOK, loopVars, serverVars
<1>1. ASSUME NEW p \in Peers, NEW q \in Peers, Discover(p, q) PROVE TypeOK'
  BY <1>1, Zenon DEF Discover
<1>2. ASSUME NEW p \in Peers, NEW q \in Peers, Ping(p, q) PROVE TypeOK'
  BY <1>2 DEF Ping
<1>3. ASSUME NEW p \in Peers, NEW q \in Peers, PingLost(p, q) PROVE TypeOK'
  BY <1>3, <1>c DEF PingLost
<1>4. ASSUME NEW p \in Peers, NEW q \in Peers, Timeout(p, q) PROVE TypeOK'
  BY <1>4, <1>c, Zenon DEF Timeout
<1>5. ASSUME NEW p \in Peers, Restart(p) PROVE TypeOK'
  <2>1. None \in Leaderships
    BY Zenon DEF Leaderships
  <2>2. QED
    BY <1>5, <1>c, <2>1, Zenon DEF Restart
<1>6. ASSUME NEW p \in Peers, StandDown(p) PROVE TypeOK'
  BY <1>6, Zenon DEF StandDown
<1>7. ASSUME NEW p \in Peers, BeginCycle(p) PROVE TypeOK'
  BY <1>7, Zenon DEF BeginCycle
<1>8. ASSUME NEW p \in Peers, Snapshot(p) PROVE TypeOK'
  <2>1. CASE leadership[p] = None
    BY <1>8, <2>1, FreshTokenIsUnused DEF Snapshot
  <2>2. CASE leadership[p] # None
    <3>1. leadership[p].token \in Tokens
      BY <2>2, Zenon DEF Leaderships
    <3>2. QED
      BY <1>8, <2>2, <3>1, Zenon DEF Snapshot
  <2>3. QED
    BY <2>1, <2>2, Zenon
<1>9. ASSUME NEW p \in Peers, NEW q \in Peers, NotifyAccepted(p, q) PROVE TypeOK'
  <2>1. /\ known' \in [Peers -> SUBSET Peers]
        /\ healthy' \in [Peers -> SUBSET Peers]
        /\ accepted' \in [Peers -> Tokens \cup {None}]
        /\ acks' \in [Tokens -> SUBSET Peers]
    BY <1>9, AcceptTypes, Zenon DEF NotifyAccepted
  <2>2. pending' \in [Peers -> SUBSET Peers]
    BY <1>9, Zenon DEF NotifyAccepted
  <2>3. QED
    BY <1>9, <2>1, <2>2, Zenon DEF NotifyAccepted
<1>10. ASSUME NEW p \in Peers, NEW q \in Peers, NotifyRejected(p, q) PROVE TypeOK'
  <2>1. LoopTypes'
    BY <1>10, <1>a, EndLoopTypes, Zenon DEF NotifyRejected
  <2>2. KnownAfter(q, view[p]) \in SUBSET Peers /\ HealthyAfter(q, view[p]) \in SUBSET Peers
    BY Zenon DEF KnownAfter, HealthyAfter
  <2>3. known' \in [Peers -> SUBSET Peers] /\ healthy' \in [Peers -> SUBSET Peers]
    BY <1>10, <2>2 DEF NotifyRejected
  <2>4. QED
    BY <1>10, <2>1, <2>3, Zenon DEF NotifyRejected, LoopTypes
<1>11. ASSUME NEW p \in Peers, NEW q \in Peers, NotifyError(p, q) PROVE TypeOK'
  BY <1>11, <1>a, <1>b, <1>c, EndLoopTypes, Zenon DEF NotifyError
<1>12. ASSUME NEW p \in Peers, NEW q \in Peers, NotifyUnheard(p, q) PROVE TypeOK'
  <2>1. LoopTypes'
    BY <1>12, <1>a, EndLoopTypes, Zenon DEF NotifyUnheard
  <2>2. /\ known' \in [Peers -> SUBSET Peers]
        /\ healthy' \in [Peers -> SUBSET Peers]
        /\ accepted' \in [Peers -> Tokens \cup {None}]
        /\ acks' \in [Tokens -> SUBSET Peers]
    BY <1>12, AcceptTypes, Zenon DEF NotifyUnheard
  <2>3. QED
    BY <1>12, <1>c, <2>1, <2>2, Zenon DEF NotifyUnheard, LoopTypes
<1>13. ASSUME NEW p \in Peers, FinishBid(p) PROVE TypeOK'
  <2>1. token[p] \in Tokens
    BY <1>13, Zenon DEF FinishBid, Notified, BidInv, Bid
  <2>2. [token |-> token[p], ackedPeers |-> view[p]] \in Leaderships
    BY <2>1, Zenon DEF Leaderships
  <2>3. QED
    BY <1>13, <1>a, <2>2, EndLoopTypes, Zenon DEF FinishBid, LoopTypes
<1>14. ASSUME NEW p \in Peers, FinishBidFails(p) PROVE TypeOK'
  BY <1>14, <1>a, <1>b, <1>c, EndLoopTypes, Zenon DEF FinishBidFails
<1>15. ASSUME NEW p \in Peers, FinishAssert(p) PROVE TypeOK'
  <2>1. None \in Leaderships
    BY DEF Leaderships
  <2>2. QED
    BY <1>15, <1>a, <2>1, EndLoopTypes DEF FinishAssert, LoopTypes
<1>16. ASSUME NEW p \in Peers, EndCycle(p) PROVE TypeOK'
  BY <1>16, <1>a, <1>b, EndLoopTypes, Zenon DEF EndCycle
<1>17. CASE UNCHANGED vars
  BY <1>17, Zenon DEF vars
<1>18. QED
  BY <1>1, <1>2, <1>3, <1>4, <1>5, <1>6, <1>7, <1>8, <1>9, <1>10, <1>11, <1>12, <1>13, <1>14, <1>15, <1>16, <1>17, Zenon
     DEF Next, Gossip, Loop

(* Every step keeps what is known of the bids: see Bid. *)
LEMMA NextBidInv == Inv /\ [Next]_vars => BidInv'
<1> SUFFICES ASSUME Inv, [Next]_vars, NEW r \in Peers PROVE Bid(r)'
  BY Zenon DEF BidInv
<1>a. Bid(r) /\ (leadership[r] # None => leadership[r].token \in Tokens)
  BY Zenon DEF Inv, BidInv, TypeOK, Leaderships
<1> USE TokensAssumption DEF Inv, TypeOK, Bid, loopVars, serverVars, EndLoop
<1>1. ASSUME NEW p \in Peers, NEW q \in Peers, Discover(p, q) PROVE Bid(r)'
  BY <1>a, <1>1, Zenon DEF Discover
<1>2. ASSUME NEW p \in Peers, NEW q \in Peers, Ping(p, q) PROVE Bid(r)'
  BY <1>a, <1>2, Zenon DEF Ping
<1>3. ASSUME NEW p \in Peers, NEW q \in Peers, PingLost(p, q) PROVE Bid(r)'
  BY <1>a, <1>3, Zenon DEF PingLost
<1>4. ASSUME NEW p \in Peers, NEW q \in Peers, Timeout(p, q) PROVE Bid(r)'
  BY <1>a, <1>4, Zenon DEF Timeout
<1>5. ASSUME NEW p \in Peers, Restart(p) PROVE Bid(r)'
  BY <1>a, <1>5, Zenon DEF Restart
<1>6. ASSUME NEW p \in Peers, StandDown(p) PROVE Bid(r)'
  BY <1>a, <1>6, Zenon DEF StandDown
<1>7. ASSUME NEW p \in Peers, BeginCycle(p) PROVE Bid(r)'
  BY <1>a, <1>7, Zenon DEF BeginCycle
<1>8. ASSUME NEW p \in Peers, Snapshot(p) PROVE Bid(r)'
  <2>1. token'[p] \in Tokens
    BY <1>8, FreshTokenIsUnused, Zenon DEF Snapshot, Leaderships
  <2>2. leadership[r] # None => InUse(leadership[r].token)
    BY Zenon DEF InUse
  <2>3. r # p /\ pc[r] = "notify" => InUse(token[r])
    BY <1>a, Zenon DEF InUse
  <2>4. leadership[p] = None => \A t \in Tokens : InUse(t) => acks'[t] = acks[t]
    BY <1>8, Zenon DEF Snapshot
  <2>5. CASE leadership[p] = None
    <3>1. UNCHANGED <<leadership, cyclePeers>>
      BY <1>8, Zenon DEF Snapshot
    <3>2. leadership[r] # None => acks'[leadership[r].token] = acks[leadership[r].token]
      BY <1>a, <2>2, <2>4, <2>5, Zenon
    <3>3. r # p /\ pc[r] = "notify" => acks'[token[r]] = acks[token[r]]
      BY <1>a, <2>3, <2>4, <2>5, Zenon
    <3>4. CASE r = p
      BY <1>8, <2>1, <2>5, <3>1, <3>4, Zenon DEF Snapshot
    <3>5. CASE r # p
      <4>1. /\ pc'[r] = pc[r]
            /\ token'[r] = token[r]
            /\ view'[r] = view[r]
            /\ pending'[r] = pending[r]
        BY <1>8, <3>5, Zenon DEF Snapshot
      <4>2. QED
        BY <1>a, <3>1, <3>2, <3>3, <3>5, <4>1, Zenon
    <3>6. QED
      BY <3>4, <3>5, Zenon
  <2>6. CASE leadership[p] # None
    BY <1>a, <1>8, <2>1, <2>6 DEF Snapshot
  <2>7. QED
    BY <2>5, <2>6, Zenon
<1>9. ASSUME NEW p \in Peers, NEW q \in Peers, NotifyAccepted(p, q) PROVE Bid(r)'
  BY <1>a, <1>9, Zenon DEF NotifyAccepted
<1>10. ASSUME NEW p \in Peers, NEW q \in Peers, NotifyRejected(p, q) PROVE Bid(r)'
  BY <1>a, <1>10, Zenon DEF NotifyRejected
<1>11. ASSUME NEW p \in Peers, NEW q \in Peers, NotifyError(p, q) PROVE Bid(r)'
  BY <1>a, <1>11, Zenon DEF NotifyError
<1>12. ASSUME NEW p \in Peers, NEW q \in Peers, NotifyUnheard(p, q) PROVE Bid(r)'
  BY <1>a, <1>12, Zenon DEF NotifyUnheard
<1>13. ASSUME NEW p \in Peers, FinishBid(p) PROVE Bid(r)'
  BY <1>a, <1>13, Zenon DEF FinishBid, Notified
<1>14. ASSUME NEW p \in Peers, FinishBidFails(p) PROVE Bid(r)'
  BY <1>a, <1>14, Zenon DEF FinishBidFails
<1>15. ASSUME NEW p \in Peers, FinishAssert(p) PROVE Bid(r)'
  BY <1>a, <1>15 DEF FinishAssert, Notified
<1>16. ASSUME NEW p \in Peers, EndCycle(p) PROVE Bid(r)'
  BY <1>a, <1>16, Zenon DEF EndCycle
<1>17. CASE UNCHANGED vars
  BY <1>a, <1>17, Zenon DEF vars
<1>18. QED
  BY <1>1, <1>2, <1>3, <1>4, <1>5, <1>6, <1>7, <1>8, <1>9, <1>10, <1>11, <1>12, <1>13, <1>14, <1>15, <1>16, <1>17, Zenon
     DEF Next, Gossip, Loop

(* Every step leaves the lock with whoever is past it. *)
LEMMA NextLockInv == Inv /\ [Next]_vars => LockInv'
<1> SUFFICES ASSUME Inv, [Next]_vars PROVE LockInv'
  BY Zenon
<1> USE TokensAssumption, ConfigAssumption DEF Inv, LockInv, loopVars, serverVars, EndLoop
<1>1. ASSUME NEW p \in Peers, NEW q \in Peers, Discover(p, q) PROVE LockInv'
  BY <1>1, Zenon DEF Discover
<1>2. ASSUME NEW p \in Peers, NEW q \in Peers, Ping(p, q) PROVE LockInv'
  BY <1>2, Zenon DEF Ping
<1>3. ASSUME NEW p \in Peers, NEW q \in Peers, PingLost(p, q) PROVE LockInv'
  BY <1>3, Zenon DEF PingLost
<1>4. ASSUME NEW p \in Peers, NEW q \in Peers, Timeout(p, q) PROVE LockInv'
  BY <1>4, Zenon DEF Timeout
<1>5. ASSUME NEW p \in Peers, Restart(p) PROVE LockInv'
  BY <1>5, Zenon DEF Restart, TypeOK
<1>6. ASSUME NEW p \in Peers, StandDown(p) PROVE LockInv'
  BY <1>6, Zenon DEF StandDown
<1>7. ASSUME NEW p \in Peers, BeginCycle(p) PROVE LockInv'
  BY <1>7 DEF BeginCycle, TypeOK
<1>8. ASSUME NEW p \in Peers, Snapshot(p) PROVE LockInv'
  BY <1>8 DEF Snapshot, TypeOK
<1>9. ASSUME NEW p \in Peers, NEW q \in Peers, NotifyAccepted(p, q) PROVE LockInv'
  BY <1>9, Zenon DEF NotifyAccepted
<1>10. ASSUME NEW p \in Peers, NEW q \in Peers, NotifyRejected(p, q) PROVE LockInv'
  BY <1>10 DEF NotifyRejected, TypeOK
<1>11. ASSUME NEW p \in Peers, NEW q \in Peers, NotifyError(p, q) PROVE LockInv'
  BY <1>11 DEF NotifyError, TypeOK
<1>12. ASSUME NEW p \in Peers, NEW q \in Peers, NotifyUnheard(p, q) PROVE LockInv'
  BY <1>12 DEF NotifyUnheard, TypeOK
<1>13. ASSUME NEW p \in Peers, FinishBid(p) PROVE LockInv'
  BY <1>13 DEF FinishBid, Notified, TypeOK
<1>14. ASSUME NEW p \in Peers, FinishBidFails(p) PROVE LockInv'
  BY <1>14 DEF FinishBidFails, Notified, TypeOK
<1>15. ASSUME NEW p \in Peers, FinishAssert(p) PROVE LockInv'
  BY <1>15 DEF FinishAssert, Notified, TypeOK
<1>16. ASSUME NEW p \in Peers, EndCycle(p) PROVE LockInv'
  BY <1>16, Zenon DEF EndCycle, TypeOK
<1>17. CASE UNCHANGED vars
  BY <1>17, Zenon DEF vars
<1>18. QED
  BY <1>1, <1>2, <1>3, <1>4, <1>5, <1>6, <1>7, <1>8, <1>9, <1>10, <1>11, <1>12, <1>13, <1>14, <1>15, <1>16, <1>17, Zenon
     DEF Next, Gossip, Loop

(* The invariant is inductive. *)
LEMMA InvAlways == Spec => []Inv
<1>1. Inv /\ [Next]_vars => Inv'
  BY NextTypeOK, NextBidInv, NextLockInv, Zenon DEF Inv
<1>2. QED
  BY InitInv, <1>1, PTL DEF Spec

(* The election keeps its types. *)
THEOREM ElectionTypes == Spec => []TypeOK
<1>1. Inv => TypeOK
  BY Zenon DEF Inv
<1>2. QED
  BY InvAlways, <1>1, PTL

(* With the leader lock configured, at most one controller at a time is    *)
(* past it, whatever the processes, pings and timeouts do.                 *)
THEOREM LockIsExclusive == Spec => []LockExcludes
<1>1. Inv => LockExcludes
  BY Zenon DEF Inv, LockInv, LockExcludes
<1>2. QED
  BY InvAlways, <1>1, PTL

(* A leader that acts has been acked, under the token that it sends, by    *)
(* every peer that it counts.                                              *)
THEOREM ActingLeaderIsAcked == Spec => []ActingIsAcked
<1>1. Inv => ActingIsAcked
  BY Zenon DEF Inv, BidInv, Bid, ActingIsAcked
<1>2. QED
  BY InvAlways, <1>1, PTL

(* Every step of the coded election is a step of the promise or leaves it  *)
(* unchanged.                                                              *)
LEMMA StepImplementsPromise == Inv /\ [Next]_vars => [Promise!Next]_(Promise!tokenVars)
<1> SUFFICES ASSUME Inv, [Next]_vars PROVE [Promise!Next]_(Promise!tokenVars)
  BY Zenon
<1> USE TokensAssumption DEF Inv, TypeOK, BidInv, Bid, loopVars, serverVars, EndLoop
<1>1. ASSUME NEW p \in Peers, NEW q \in Peers,
             Discover(p, q) \/ Ping(p, q) \/ PingLost(p, q) \/ Timeout(p, q)
      PROVE  UNCHANGED Promise!tokenVars
  BY <1>1, Zenon DEF Discover, Ping, PingLost, Timeout, Promise!tokenVars
<1>2. ASSUME NEW p \in Peers, Restart(p) PROVE Promise!Restart(p)
  BY <1>2, Zenon DEF Restart, Promise!Restart
<1>3. ASSUME NEW p \in Peers, StandDown(p) \/ BeginCycle(p) \/ EndCycle(p)
      PROVE  UNCHANGED Promise!tokenVars
  BY <1>3 DEF StandDown, BeginCycle, EndCycle, Promise!tokenVars
<1>4. ASSUME NEW p \in Peers, Snapshot(p)
      PROVE  (\E t \in Tokens : Promise!Issue(p, t)) \/ Promise!Reassert(p)
  <2>1. \A t : InUse(t) <=> Promise!InUse(t)
    BY Zenon DEF InUse, Promise!InUse
  <2>2. CASE leadership[p] = None
    <3>1. FreshToken \in Tokens /\ ~InUse(FreshToken)
      BY <1>4, <2>2, FreshTokenIsUnused, Zenon DEF Snapshot
    <3>2. Promise!Issue(p, FreshToken)
      BY <1>4, <2>1, <2>2, <3>1 DEF Snapshot, Promise!Issue
    <3>3. QED
      BY <3>1, <3>2, Zenon
  <2>3. CASE leadership[p] # None
    BY <1>4, <2>3, Zenon DEF Snapshot, Promise!Reassert
  <2>4. QED
    BY <2>2, <2>3, Zenon
<1>5. ASSUME NEW p \in Peers, NEW q \in Peers, NotifyAccepted(p, q) PROVE Promise!Accept(p, q)
  BY <1>5, Zenon DEF NotifyAccepted, Promise!Accept
<1>6. ASSUME NEW p \in Peers, NEW q \in Peers, NotifyUnheard(p, q)
      PROVE  Promise!AcceptUnheard(p, q)
  BY <1>6, Zenon DEF NotifyUnheard, Promise!AcceptUnheard
<1>7. ASSUME NEW p \in Peers, NEW q \in Peers, NotifyRejected(p, q) \/ NotifyError(p, q)
      PROVE  Promise!EndOffer(p)
  BY <1>7, Zenon DEF NotifyRejected, NotifyError, Promise!EndOffer
<1>8. ASSUME NEW p \in Peers, FinishBid(p) PROVE Promise!Win(p, view[p])
  BY <1>8, Zenon DEF FinishBid, Notified, Promise!Win
<1>9. ASSUME NEW p \in Peers, FinishBidFails(p) PROVE Promise!EndOffer(p)
  BY <1>9, Zenon DEF FinishBidFails, Notified, Promise!EndOffer
<1>10. ASSUME NEW p \in Peers, FinishAssert(p)
       PROVE  Promise!EndOffer(p) \/ Promise!Resign(p)
  BY <1>10, Zenon DEF FinishAssert, Notified, Promise!EndOffer, Promise!Resign
<1>11. CASE UNCHANGED vars
  BY <1>11, Zenon DEF vars, Promise!tokenVars
<1>12. QED
  BY <1>1, <1>2, <1>3, <1>4, <1>5, <1>6, <1>7, <1>8, <1>9, <1>10, <1>11
     DEF Next, Gossip, Loop, Promise!Next

(* The election implements its promise. *)
THEOREM ElectionImplementsPromise == Spec => ImplementsPromise
<1>1. Init => Promise!Init
  BY Zenon DEF Init, Promise!Init
<1>2. QED
  BY <1>1, InvAlways, StepImplementsPromise, PTL DEF Spec, ImplementsPromise, Promise!Spec

-----------------------------------------------------------------------------
(* What the promise is worth *)

(* What is always true of the tokens: the conjunction is inductive.        *)
PromiseInv == Promise!TypeOK /\ Promise!OneUser /\ Promise!AckedHaveAccepted

(* Every step that the promise allows preserves it. *)
LEMMA PromiseStep == PromiseInv /\ [Promise!Next]_(Promise!tokenVars) => PromiseInv'
<1> SUFFICES ASSUME PromiseInv, [Promise!Next]_(Promise!tokenVars) PROVE PromiseInv'
  BY Zenon
<1> USE TokensAssumption
    DEF PromiseInv, Promise!TypeOK, Promise!OneUser, Promise!AckedHaveAccepted, Promise!Uses,
        Promise!Leaderships
<1>1. ASSUME NEW p \in Peers, NEW t \in Tokens, Promise!Issue(p, t) PROVE PromiseInv'
  BY <1>1 DEF Promise!Issue, Promise!InUse
<1>2. ASSUME NEW p \in Peers, Promise!Reassert(p) PROVE PromiseInv'
  BY <1>2 DEF Promise!Reassert
<1>3. ASSUME NEW p \in Peers, NEW q \in Peers, Promise!Accept(p, q) PROVE PromiseInv'
  BY <1>3, Zenon DEF Promise!Accept
<1>4. ASSUME NEW p \in Peers, NEW q \in Peers, Promise!AcceptUnheard(p, q) PROVE PromiseInv'
  BY <1>4 DEF Promise!AcceptUnheard
<1>5. ASSUME NEW p \in Peers, NEW A \in SUBSET Peers, Promise!Win(p, A) PROVE PromiseInv'
  BY <1>5 DEF Promise!Win
<1>6. ASSUME NEW p \in Peers, Promise!EndOffer(p) PROVE PromiseInv'
  BY <1>6, Zenon DEF Promise!EndOffer
<1>7. ASSUME NEW p \in Peers, Promise!Resign(p) PROVE PromiseInv'
  BY <1>7 DEF Promise!Resign
<1>8. ASSUME NEW p \in Peers, Promise!Restart(p) PROVE PromiseInv'
  BY <1>8 DEF Promise!Restart
<1>9. CASE UNCHANGED Promise!tokenVars
  BY <1>9, Zenon DEF Promise!tokenVars
<1> QED
  BY <1>1, <1>2, <1>3, <1>4, <1>5, <1>6, <1>7, <1>8, <1>9, Zenon DEF Promise!Next

LEMMA PromiseInvAlways == Promise!Spec => []PromiseInv
<1>1. Promise!Init => PromiseInv
  BY TokensAssumption, Zenon
     DEF Promise!Init, PromiseInv, Promise!TypeOK, Promise!OneUser, Promise!AckedHaveAccepted,
         Promise!Uses, Promise!Leaderships
<1> QED
  BY <1>1, PromiseStep, PTL DEF Promise!Spec

(* The promise keeps its types. *)
THEOREM TokenTypes == Promise!Spec => []Promise!TypeOK
<1>1. PromiseInv => Promise!TypeOK
  BY DEF PromiseInv
<1> QED
  BY <1>1, PromiseInvAlways, PTL

(* In any election that keeps the promise, no two controllers ever use the *)
(* same leadership token, however many processes and tokens there are.     *)
THEOREM TokensHaveOneUser == Promise!Spec => []Promise!OneUser
<1>1. PromiseInv => Promise!OneUser
  BY Zenon DEF PromiseInv
<1> QED
  BY <1>1, PromiseInvAlways, PTL

(* In any election that keeps the promise, every peer that a leader counts *)
(* as having acked has accepted the token it leads under.                  *)
THEOREM AckedPeersAccepted == Promise!Spec => []Promise!AckedHaveAccepted
<1>1. PromiseInv => Promise!AckedHaveAccepted
  BY Zenon DEF PromiseInv
<1> QED
  BY <1>1, PromiseInvAlways, PTL

(* No two controllers of the coded election ever use the same leadership   *)
(* token, however many processes and tokens there are.                     *)
THEOREM ElectionTokensAreOwned == Spec => []TokensAreOwned
  BY ElectionImplementsPromise, TokensHaveOneUser, PTL DEF ImplementsPromise, TokensAreOwned
=============================================================================
