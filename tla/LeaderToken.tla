---------------------------- MODULE LeaderToken ----------------------------
(***************************************************************************)
(* What leader election promises to the rest of etcd-manager.              *)
(*                                                                         *)
(* A controller that wants to lead draws a random token and offers it to   *)
(* its peers.  Each peer remembers the last token it accepted, and every   *)
(* later request to that peer is checked against it (EtcdServer.           *)
(* validateHeader).  The election is weak: nothing here limits the number  *)
(* of leaders, and who is healthy, who is lowest and who is asked is       *)
(* hidden.  What is promised is that a token belongs to one controller and *)
(* that the peers a leader counts as having acknowledged it did accept its *)
(* token.  Module Leadership, the election as it is coded, implements this *)
(* specification.                                                          *)
(***************************************************************************)
CONSTANTS Peers,     \* the etcd-manager processes
          Tokens,    \* the leadership tokens in circulation
          None       \* "no token", "no leadership"

VARIABLES accepted,    \* accepted[q]: the token peer q checks requests against
          bid,         \* bid[p]: the token p is offering to its peers, if any
          leadership,  \* leadership[p]: the token p leads under, and its acks
          acks         \* acks[t]: the peers that have accepted t since it was drawn

tokenVars == <<accepted, bid, leadership, acks>>

Leaderships == [token : Tokens, ackedPeers : SUBSET Peers] \cup {None}

TypeOK ==
    /\ accepted \in [Peers -> Tokens \cup {None}]
    /\ bid \in [Peers -> Tokens \cup {None}]
    /\ leadership \in [Peers -> Leaderships]
    /\ acks \in [Tokens -> SUBSET Peers]

(* A random token equals no token that is still in use somewhere. *)
InUse(t) ==
    \E p \in Peers : \/ accepted[p] = t
                     \/ bid[p] = t
                     \/ leadership[p] # None /\ leadership[p].token = t

Init ==
    /\ accepted = [p \in Peers |-> None]
    /\ bid = [p \in Peers |-> None]
    /\ leadership = [p \in Peers |-> None]
    /\ acks = [t \in Tokens |-> {}]

-----------------------------------------------------------------------------

(* A controller without leadership draws a new token. *)
Issue(p, t) ==
    /\ leadership[p] = None
    /\ bid[p] = None
    /\ ~InUse(t)
    /\ bid' = [bid EXCEPT ![p] = t]
    /\ acks' = [u \in Tokens |-> IF InUse(u) THEN acks[u] ELSE {}]
    /\ UNCHANGED <<accepted, leadership>>

(* A leader offers the token it already leads under. *)
Reassert(p) ==
    /\ leadership[p] # None
    /\ bid[p] = None
    /\ bid' = [bid EXCEPT ![p] = leadership[p].token]
    /\ UNCHANGED <<accepted, leadership, acks>>

(* Peer q accepts the token that p offers. *)
Accept(p, q) ==
    /\ bid[p] # None
    /\ accepted' = [accepted EXCEPT ![q] = bid[p]]
    /\ acks' = [acks EXCEPT ![bid[p]] = @ \cup {q}]
    /\ UNCHANGED <<bid, leadership>>

(* Peer q accepts, but p never learns of it and gives up. *)
AcceptUnheard(p, q) ==
    /\ bid[p] # None
    /\ accepted' = [accepted EXCEPT ![q] = bid[p]]
    /\ acks' = [acks EXCEPT ![bid[p]] = @ \cup {q}]
    /\ bid' = [bid EXCEPT ![p] = None]
    /\ UNCHANGED leadership

(* The bid succeeds: p leads, counting the peers in A as having acked. *)
Win(p, A) ==
    /\ bid[p] # None
    /\ leadership[p] = None
    /\ A \subseteq acks[bid[p]]
    /\ leadership' = [leadership EXCEPT ![p] = [token |-> bid[p], ackedPeers |-> A]]
    /\ bid' = [bid EXCEPT ![p] = None]
    /\ UNCHANGED <<accepted, acks>>

(* The offer ends without a change of leadership: it failed, or a leader   *)
(* has re-asserted itself to everyone it asked.                            *)
EndOffer(p) ==
    /\ bid[p] # None
    /\ bid' = [bid EXCEPT ![p] = None]
    /\ UNCHANGED <<accepted, leadership, acks>>

(* A leader that sees a peer that has not acked it gives up leadership. *)
Resign(p) ==
    /\ leadership[p] # None
    /\ leadership' = [leadership EXCEPT ![p] = None]
    /\ bid' = [bid EXCEPT ![p] = None]
    /\ UNCHANGED <<accepted, acks>>

(* None of this state is persisted. *)
Restart(p) ==
    /\ accepted' = [accepted EXCEPT ![p] = None]
    /\ bid' = [bid EXCEPT ![p] = None]
    /\ leadership' = [leadership EXCEPT ![p] = None]
    /\ UNCHANGED acks

Next ==
    \E p \in Peers :
        \/ \E t \in Tokens : Issue(p, t)
        \/ Reassert(p)
        \/ \E q \in Peers : Accept(p, q)
        \/ \E q \in Peers : AcceptUnheard(p, q)
        \/ \E A \in SUBSET Peers : Win(p, A)
        \/ EndOffer(p)
        \/ Resign(p)
        \/ Restart(p)

Spec == Init /\ [][Next]_tokenVars

-----------------------------------------------------------------------------

(* The token a controller is using, as a bidder or as a leader. *)
Uses(p, t) ==
    \/ bid[p] = t
    \/ leadership[p] # None /\ leadership[p].token = t

(* Two controllers never use the same token, so a request that carries an  *)
(* accepted token comes from the one controller that offered it            *)
(* (BecomeLeader draws the token, IsLeader compares it).                   *)
OneUser ==
    \A t \in Tokens : \A p, q \in Peers : Uses(p, t) /\ Uses(q, t) => p = q

(* The peers that a leader's controller counts in ackedPeerCount have all  *)
(* accepted the token it puts in its request headers.                      *)
AckedHaveAccepted ==
    \A p \in Peers : leadership[p] # None =>
        leadership[p].ackedPeers \subseteq acks[leadership[p].token]
=============================================================================
