--------------------------- MODULE PeerConnection ---------------------------
(***************************************************************************)
(* The connection from one etcd-manager to one of its peers: type peer of  *)
(* pkg/privateapi/peers.go.                                                *)
(*                                                                         *)
(* Two callers share it: the goroutine that pings the peer (Run) and the   *)
(* controller, which sends requests through GetPeerClient.  Each may find  *)
(* that there is no usable connection, dial one outside the peer's mutex   *)
(* and come back to find that the other has been faster.  Meanwhile the    *)
(* peer itself may move to another address, and tell so in its own pings.  *)
(* Each section under the mutex is one step.                               *)
(*                                                                         *)
(* External: a gRPC connection is up, has failed (TRANSIENT_FAILURE) or is *)
(* closed; the handshake names the peer (TLS, ServerName), so that nobody  *)
(* else at an address the peer has left can answer for it.                 *)
(***************************************************************************)
EXTENDS Naturals, FiniteSets

CONSTANTS Addresses,
          Links,       \* names for gRPC connections; a closed one is reused
          NoLink, Nowhere,
          MaxMoves     \* bound: how often the peer moves or goes away

Callers == {"pinger", "controller"}

ASSUME ConnectionAssumption ==
    /\ NoLink \notin Links
    /\ Nowhere \notin Addresses
    /\ MaxMoves \in Nat

VARIABLES
    home,        \* the address that the peer serves at, or Nowhere
    ported,      \* an endpoint from discovery has a port: discovery tells it, or
                 \* peer.defaultPort is set
    moves,
    discovered,  \* peer.discoveryNode.Endpoints
    lastInfo,    \* the endpoint in peer.lastInfo, or Nowhere if it is nil
    recent,      \* lastPingTime is within HealthyTimeout
    conn,        \* peer.conn
    link,        \* link[l]: the gRPC connections
    caller       \* caller[c]: where c is in connect, and its variables

linkVars == <<home, ported, moves, discovered, lastInfo, recent, conn, link, caller>>

Idle == [pc |-> "idle", conn |-> NoLink, todo |-> {}]

(* Types, and: peer.conn is never a connection that has been closed. *)
ConnectionTypeOK ==
    /\ home \in Addresses \cup {Nowhere}
    /\ ported \in BOOLEAN
    /\ moves \in 0 .. MaxMoves
    /\ discovered \subseteq Addresses
    /\ lastInfo \in Addresses \cup {Nowhere}
    /\ recent \in BOOLEAN
    /\ conn \in Links \cup {NoLink}
    /\ link \in [Links -> [to : Addresses, state : {"up", "failed", "closed"}]]
    /\ caller \in [Callers -> [pc : {"idle", "collect", "dial", "ping", "publish", "use"},
                               conn : Links \cup {NoLink}, todo : SUBSET Addresses]]
    /\ conn # NoLink => link[conn].state # "closed"

(* The peer is first heard of from discovery, which sets the default port, *)
(* or from its own ping or a leader's view, which do not; the view may be  *)
(* out of date.                                                            *)
ConnectionInit ==
    /\ home \in Addresses
    /\ moves = 0
    /\ \/ ported = TRUE /\ discovered = {home} /\ lastInfo = Nowhere /\ recent = FALSE
       \/ ported \in BOOLEAN /\ discovered = {} /\ lastInfo \in Addresses /\ recent = TRUE
    /\ conn = NoLink
    /\ link = [l \in Links |-> [to |-> home, state |-> "closed"]]
    /\ caller = [c \in Callers |-> Idle]

Closed(lks, l) == IF l = NoLink THEN lks ELSE [lks EXCEPT ![l].state = "closed"]
At(c, pc, l, todo) == caller' = [caller EXCEPT ![c] = [pc |-> pc, conn |-> l, todo |-> todo]]

-----------------------------------------------------------------------------
(* connect *)

(* Mutant: a connection that has failed is handed out again. *)
ConnectAnyState(c) ==
    /\ caller[c].pc = "idle"
    /\ c = "controller" => lastInfo # Nowhere /\ recent
    /\ UNCHANGED <<conn, link>>
    /\ IF conn # NoLink THEN At(c, "use", conn, {}) ELSE At(c, "collect", NoLink, {})
    /\ UNCHANGED <<home, ported, moves, discovered, lastInfo, recent>>

(* The connection there is, unless it has failed; GetPeerClient looks at   *)
(* the peer's status first.                                                *)
Connect(c) ==
    /\ caller[c].pc = "idle"
    /\ c = "controller" => lastInfo # Nowhere /\ recent
    /\ IF conn # NoLink /\ link[conn].state = "up"
       THEN At(c, "use", conn, {}) /\ UNCHANGED <<conn, link>>
       ELSE /\ At(c, "collect", NoLink, {})
            /\ link' = Closed(link, conn)
            /\ conn' = NoLink
    /\ UNCHANGED <<home, ported, moves, discovered, lastInfo, recent>>

(* The endpoints to try: from discovery and from the peer's own info.  One *)
(* that would be dialled at port 0 answers nobody, and is left out.        *)
Collect(c) ==
    /\ caller[c].pc = "collect"
    /\ At(c, "dial", NoLink, (IF ported THEN discovered ELSE {}) \cup ({lastInfo} \ {Nowhere}))
    /\ UNCHANGED <<home, ported, moves, discovered, lastInfo, recent, conn, link>>

Free(l) ==
    /\ link[l].state = "closed"
    /\ \A c \in Callers : caller[c].conn # l

Dial(c) ==
    /\ caller[c].pc = "dial"
    /\ \E a \in caller[c].todo : \E l \in {CHOOSE x \in Links : Free(x)} :
           /\ l \in Links /\ Free(l)
           /\ At(c, "ping", l, caller[c].todo \ {a})
           /\ link' = [link EXCEPT ![l] = [to |-> a, state |-> "up"]]
    /\ UNCHANGED <<home, ported, moves, discovered, lastInfo, recent, conn>>

(* None of the endpoints answered. *)
NotConnected(c) ==
    /\ caller[c].pc = "dial"
    /\ caller[c].todo = {}
    /\ At(c, "idle", NoLink, {})
    /\ UNCHANGED <<home, ported, moves, discovered, lastInfo, recent, conn, link>>

(* updatePeerInfo: the peer tells its endpoint, and the connection is      *)
(* closed if that is another one than before.                              *)
UpdatePeerInfo(a) ==
    /\ lastInfo' = a
    /\ recent' = TRUE
    /\ IF lastInfo \in {Nowhere, a} THEN UNCHANGED <<conn, link>>
       ELSE conn' = NoLink /\ link' = Closed(link, conn)

Answers(l) == link[l].state = "up" /\ link[l].to = home

(* The first ping over a new connection. *)
PingNew(c) ==
    LET l == caller[c].conn
    IN  /\ caller[c].pc = "ping"
        /\ IF Answers(l)
           THEN UpdatePeerInfo(home) /\ At(c, "publish", l, {})
           ELSE /\ link' = Closed(link, l)
                /\ At(c, "dial", NoLink, caller[c].todo)
                /\ UNCHANGED <<lastInfo, recent, conn>>
        /\ UNCHANGED <<home, ported, moves, discovered>>

(* Mutant: whoever comes last wins. *)
PublishLast(c) ==
    LET l == caller[c].conn
    IN  /\ caller[c].pc = "publish"
        /\ conn' = l
        /\ At(c, "use", l, {})
        /\ UNCHANGED <<home, ported, moves, discovered, lastInfo, recent, link>>

(* The new connection becomes the peer's, unless another has been there    *)
(* first.                                                                  *)
Publish(c) ==
    LET l == caller[c].conn
    IN  /\ caller[c].pc = "publish"
        /\ IF conn # NoLink
           THEN link' = Closed(link, l) /\ At(c, "use", conn, {}) /\ UNCHANGED conn
           ELSE conn' = l /\ At(c, "use", l, {}) /\ UNCHANGED link
        /\ UNCHANGED <<home, ported, moves, discovered, lastInfo, recent>>

(* sendPings pings until a ping fails; the controller asks for a client    *)
(* for every request.                                                      *)
Use(c) ==
    LET answered == c = "pinger" /\ Answers(caller[c].conn)
    IN  /\ caller[c].pc = "use"
        /\ IF answered THEN UpdatePeerInfo(home) /\ UNCHANGED caller
           ELSE At(c, "idle", NoLink, {}) /\ UNCHANGED <<lastInfo, recent, conn, link>>
        /\ UNCHANGED <<home, ported, moves, discovered>>

-----------------------------------------------------------------------------
(* The peer, discovery, time and gRPC *)

(* updateFromPingRequest: the peer pings this server. *)
PingedByPeer ==
    /\ home # Nowhere
    /\ UpdatePeerInfo(home)
    /\ UNCHANGED <<home, ported, moves, discovered, caller>>

(* peer.updateFromDiscovery *)
Discover ==
    /\ home # Nowhere
    /\ discovered' = {home}
    /\ UNCHANGED <<home, ported, moves, lastInfo, recent, conn, link, caller>>

(* peer.status, after HealthyTimeout without a ping. *)
TurnUnhealthy ==
    /\ recent
    /\ recent' = FALSE
    /\ UNCHANGED <<home, ported, moves, discovered, lastInfo, conn, link, caller>>

Move(a) ==
    /\ moves < MaxMoves
    /\ a # home
    /\ home' = a
    /\ moves' = moves + 1
    /\ UNCHANGED <<ported, discovered, lastInfo, recent, conn, link, caller>>

(* gRPC notices that the other end is gone, *)
Breaks(l) ==
    /\ link[l].state = "up"
    /\ link[l].to # home
    /\ link' = [link EXCEPT ![l].state = "failed"]
    /\ UNCHANGED <<home, ported, moves, discovered, lastInfo, recent, conn, caller>>

(* and connects again by itself when it is back. *)
Recovers(l) ==
    /\ link[l].state = "failed"
    /\ link[l].to = home
    /\ link' = [link EXCEPT ![l].state = "up"]
    /\ UNCHANGED <<home, ported, moves, discovered, lastInfo, recent, conn, caller>>

CallerStep(c) ==
    \/ Connect(c) \/ Collect(c) \/ Dial(c) \/ NotConnected(c)
    \/ PingNew(c) \/ Publish(c) \/ Use(c)

ConnectionNext ==
    \/ \E c \in Callers : CallerStep(c)
    \/ PingedByPeer
    \/ Discover
    \/ TurnUnhealthy
    \/ \E a \in Addresses \cup {Nowhere} : Move(a)
    \/ \E l \in Links : Breaks(l) \/ Recovers(l)

ConnectionSpec == ConnectionInit /\ [][ConnectionNext]_linkVars

(* Every connection that is not closed is the peer's, or is being tried by *)
(* one of the callers: neither a lost race in connect nor a move of the    *)
(* peer leaves one behind that nobody will ever close.                     *)
NoConnectionLeaks ==
    \A l \in Links : link[l].state # "closed" =>
        \/ l = conn
        \/ \E c \in Callers : caller[c].conn = l /\ caller[c].pc \in {"ping", "publish"}

(* Once the peer stays where it is, this server ends up with a connection  *)
(* to it that works, whatever the two callers and the failures before that *)
(* have left behind, if it can know where the peer is: because discovery's *)
(* endpoints have a port, or because the peer itself has told.  A peer     *)
(* first heard of from a ping, of which discovery tells no port, is found  *)
(* again after a move only once it pings this server.                      *)
EventuallyConnected ==
    <>[](home # Nowhere /\ (ported \/ lastInfo = home) => conn # NoLink /\ Answers(conn))
=============================================================================
