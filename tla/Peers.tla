------------------------------- MODULE Peers -------------------------------
(***************************************************************************)
(* The life of a node's connections: HandleConn and Close of               *)
(* network/packetconn.go, peers.addPeer, peers.removePeer and the frame of *)
(* peer.handler of network/peers.go, and the part of the router that knows *)
(* of them.  HandleConn runs in a goroutine per connection; the router and *)
(* peers are actors, and Close and addPeer exclude each other by a mutex.  *)
(***************************************************************************)
EXTENDS Integers, FiniteSets, Sequences

CONSTANTS
    Conn,           \* the calls of HandleConn, one connection each
    Remote          \* Remote[c]: the key of the peer at the other end

ASSUME PeersAssumption == IsFiniteSet(Conn) /\ DOMAIN Remote = Conn

VARIABLES
    stage,          \* stage[c]: how far HandleConn is
    port,           \* port[c]: the port of c's peer, 0 if none yet
    ports,          \* peers.ports: the ports in use
    peers,          \* peers.peers: the connections that were added
    open,           \* the connections that are not closed
    inbox,          \* the router's closures, in the order they were queued
    attached,       \* router.peers
    mainTimer,      \* router.mainTimer: "armed", "fired" or "nil"
    close           \* how far Close is; it holds the mutex in between

connVars == <<stage, port, ports, peers>>
routerVars == <<inbox, attached, mainTimer>>
vars == <<connVars, routerVars, open, close>>

Stage == {"new", "added", "running", "ended", "refused", "gone"}

Post(op, c) == Append(inbox, [op |-> op, conn |-> c])

\* The closures that concern no connection.
NoConn == "none"

SameKey(c) == {d \in peers : Remote[d] = Remote[c]}

\* The smallest port that is free: 0 is never given out.
FreePort == CHOOSE p \in 1..(Cardinality(ports) + 1) :
               p \notin ports /\ \A q \in 1..(p - 1) : q \in ports

\* addPeer holds the mutex of Close.
Accepting == close = "open"

\* addPeer: connections to the same key share a port.  (The peer's place in the
\* order of arrival, which breaks ties between them, is left out.)
AddPeer(c) ==
    /\ stage[c] = "new"
    /\ Accepting
    /\ stage' = [stage EXCEPT ![c] = "added"]
    /\ \E p \in IF SameKey(c) = {} THEN {FreePort} ELSE {port[d] : d \in SameKey(c)} :
          /\ port' = [port EXCEPT ![c] = p]
          /\ ports' = ports \cup {p}
    /\ peers' = peers \cup {c}
    /\ UNCHANGED <<routerVars, open, close>>

\* Fault: only a Close that is under way is noticed.
RefusePeerDuringClose(c) ==
    /\ stage[c] = "new"
    /\ close = "shutdown"
    /\ stage' = [stage EXCEPT ![c] = "refused"]
    /\ open' = open \ {c}
    /\ UNCHANGED <<port, ports, peers, routerVars, close>>

\* addPeer after Close, and the deferred conn.Close().
RefusePeer(c) ==
    /\ stage[c] = "new"
    /\ close = "closed"
    /\ stage' = [stage EXCEPT ![c] = "refused"]
    /\ open' = open \ {c}
    /\ UNCHANGED <<port, ports, peers, routerVars, close>>

\* handler: tell the router, then read until an error.
StartHandler(c) ==
    /\ stage[c] = "added"
    /\ stage' = [stage EXCEPT ![c] = "running"]
    /\ inbox' = Post("addPeer", c)
    /\ UNCHANGED <<port, ports, peers, attached, mainTimer, open, close>>

\* handler returns: the connection has failed, or Close has closed it.
EndHandler(c) ==
    /\ stage[c] = "running"
    /\ stage' = [stage EXCEPT ![c] = "ended"]
    /\ inbox' = Post("removePeer", c)
    /\ UNCHANGED <<port, ports, peers, attached, mainTimer, open, close>>

\* Fault: the port is freed while other connections to the same key have it.
FreesPortAtOnce(c) == ports \ {port[c]}

\* The ports in use without connection c.
PortsWithout(c) == IF SameKey(c) = {c} THEN ports \ {port[c]} ELSE ports

\* peers.removePeer, and the deferred conn.Close().
RemovePeer(c) ==
    /\ stage[c] = "ended"
    /\ stage' = [stage EXCEPT ![c] = "gone"]
    /\ peers' = peers \ {c}
    /\ ports' = PortsWithout(c)
    /\ open' = open \ {c}
    /\ UNCHANGED <<port, routerVars, close>>

-----------------------------------------------------------------------------
(* Close, step by step. *)

CloseBegin ==
    /\ close = "open"
    /\ close' = "begun"
    /\ UNCHANGED <<connVars, routerVars, open>>

CloseConns ==
    /\ close = "begun"
    /\ close' = "shutdown"
    /\ open' = open \ peers
    /\ inbox' = Post("shutdown", NoConn)
    /\ UNCHANGED <<connVars, attached, mainTimer>>

-----------------------------------------------------------------------------
(* The router's closures. *)

Receive(op) ==
    /\ inbox # <<>>
    /\ Head(inbox).op = op
    /\ inbox' = Tail(inbox)

RouterAddPeer ==
    /\ Receive("addPeer")
    /\ attached' = attached \cup {Head(inbox).conn}
    /\ UNCHANGED <<connVars, mainTimer, open, close>>

RouterRemovePeer ==
    /\ Receive("removePeer")
    /\ attached' = attached \ {Head(inbox).conn}
    /\ UNCHANGED <<connVars, mainTimer, open, close>>

MainTimer ==
    /\ mainTimer = "armed"
    /\ mainTimer' = "fired"
    /\ inbox' = Post("maintain", NoConn)
    /\ UNCHANGED <<connVars, attached, open, close>>

\* Fault: the timer is reset after _shutdown, too.
DoMaintenanceAlways ==
    /\ Receive("maintain")
    /\ mainTimer' = "armed"
    /\ UNCHANGED <<connVars, attached, open, close>>

\* _doMaintenance: nothing after _shutdown; otherwise reset the timer.
DoMaintenance ==
    /\ Receive("maintain")
    /\ mainTimer' = IF mainTimer = "nil" THEN "nil" ELSE "armed"
    /\ UNCHANGED <<connVars, attached, open, close>>

\* _shutdown; Close has waited for it.
Shutdown ==
    /\ Receive("shutdown")
    /\ mainTimer' = "nil"
    /\ close' = "closed"
    /\ UNCHANGED <<connVars, attached, open>>

-----------------------------------------------------------------------------

Init ==
    /\ stage = [c \in Conn |-> "new"]
    /\ port = [c \in Conn |-> 0]
    /\ ports = {}
    /\ peers = {}
    /\ open = Conn
    /\ inbox = <<>>
    /\ attached = {}
    /\ mainTimer = "armed"
    /\ close = "open"

Router ==
    RouterAddPeer \/ RouterRemovePeer \/ DoMaintenance \/ Shutdown

\* The steps of HandleConn that wait for nobody but the mutex.
HandleConn(c) == RefusePeer(c) \/ StartHandler(c) \/ RemovePeer(c)

Next ==
    \/ \E c \in Conn : AddPeer(c) \/ HandleConn(c) \/ EndHandler(c)
    \/ CloseBegin \/ CloseConns
    \/ MainTimer \/ Router

Spec == Init /\ [][Next]_vars

\* Goroutines and actors keep running; a handler ends when its connection is
\* closed, but need not end otherwise.  The application need not call Close.
Fairness ==
    /\ WF_vars(Router)
    /\ WF_vars(CloseConns)
    /\ \A c \in Conn : WF_vars(HandleConn(c)) /\ WF_vars(c \notin open /\ EndHandler(c))

FairSpec == Spec /\ Fairness

-----------------------------------------------------------------------------

\* The router never sees two peers with one port, nor one peer with two: a port
\* that is freed and given out again reaches the router after the peer that had
\* it has left.  Ports are the coordinates that greedy routing compares.
PortsDistinct ==
    \A c, d \in attached : Remote[c] = Remote[d] <=> port[c] = port[d]

\* HandleConn returns if Close is called, as its comment says, and the router
\* forgets every peer.
CloseEndsAll ==
    close = "closed" ~> /\ \A c \in Conn : stage[c] \in {"refused", "gone"}
                        /\ attached = {}

\* After Close the router rests: no maintenance starts its timer again.
ClosedForGood == [][close = "closed" => mainTimer' = "nil"]_vars
=============================================================================
