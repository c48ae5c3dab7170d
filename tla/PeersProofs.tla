---------------------------- MODULE PeersProofs ----------------------------
(***************************************************************************)
(* Proofs that the router never sees two peers with one port, and that it  *)
(* rests after Close, for any number of connections (Peers).               *)
(***************************************************************************)
EXTENDS Peers, FiniteSetTheorems, WellFoundedInduction, TLAPS

\* A set of numbers that is not empty has a smallest.
LEMMA Smallest ==
    ASSUME NEW T \in SUBSET Nat, T # {}
    PROVE  \E x \in T : \A y \in T : x <= y
<1> DEFINE R == {ss \in Nat \X Nat : ss[1] < ss[2]}
<1>1. IsWellFoundedOn(R, Nat)
  BY NatLessThanWellFounded, Zenon DEF OpToRel
<1>2. \A x, y \in Nat : <<y, x>> \in R <=> y < x
  BY Zenon
<1> HIDE DEF R
<1>3. PICK x \in T : \A y \in T : ~ (<<y, x>> \in R)
  BY <1>1, WFMin, Zenon
<1>4. x \in Nat /\ \A y \in T : y \in Nat
  BY Zenon
<1>5. \A y \in T : ~(y < x)
  BY <1>2, <1>3, <1>4, Zenon
<1>6. \A y \in T : x <= y
  BY <1>4, <1>5
<1> QED
  BY <1>6, Zenon

\* The loop of addPeer finds a port that is not in use.
LEMMA FreePortIsFree ==
    ASSUME IsFiniteSet(ports), ports \subseteq Nat
    PROVE  FreePort \in Nat \ {0} /\ FreePort \notin ports
<1> DEFINE n == Cardinality(ports)
           T == {p \in 1..(n + 1) : p \notin ports}
<1>1. n \in Nat
  BY FS_CardinalityType, Zenon
<1>2. IsFiniteSet(1..(n + 1)) /\ Cardinality(1..(n + 1)) = n + 1
  BY <1>1, FS_Interval
<1>3. T # {}
  <2> SUFFICES ASSUME T = {} PROVE FALSE
    BY Zenon
  <2>1. 1..(n + 1) \subseteq ports
    BY Zenon
  <2>2. Cardinality(1..(n + 1)) <= n
    BY <2>1, FS_Subset, Zenon
  <2> QED
    BY <1>1, <1>2, <2>2
<1>4. PICK p \in T : \A q \in T : p <= q
  <2>1. T \in SUBSET Nat
    BY <1>1
  <2> HIDE DEF T
  <2> QED
    BY <1>3, <2>1, Smallest, Zenon
<1>5. p \notin ports /\ \A q \in 1..(p - 1) : q \in ports
  BY <1>1, <1>4
<1>6. p \in 1..(Cardinality(ports) + 1)
  BY <1>4, Zenon
<1>7. FreePort \in 1..(Cardinality(ports) + 1) /\ FreePort \notin ports
  BY <1>5, <1>6, Zenon DEF FreePort
<1> QED
  BY <1>1, <1>7

-----------------------------------------------------------------------------

Msg(op, c) == [op |-> op, conn |-> c]

\* The places in the router's inbox of the closures op for c.
At(q, op, c) == {i \in 1..Len(q) : q[i] = Msg(op, c)}

\* c's peer is on the router, or about to be.
Known(c) == c \in attached \/ At(inbox, "addPeer", c) # {}

\* c has had a port.
Ported(c) == stage[c] \in {"added", "running", "ended", "gone"}

Conflict(c, d) == ~(Remote[c] = Remote[d] <=> port[c] = port[d])

\* c is gone, and the router forgets it before it hears of d.
Before(c, d) ==
    /\ stage[c] = "gone"
    /\ \/ ~Known(c)
       \/ /\ d \notin attached
          /\ \E i \in At(inbox, "removePeer", c) : \A j \in At(inbox, "addPeer", d) : i < j

Op == {"addPeer", "removePeer", "maintain", "shutdown"}

PType ==
    /\ stage \in [Conn -> Stage]
    /\ port \in [Conn -> Nat]
    /\ attached \subseteq Conn
    /\ inbox \in Seq([op : Op, conn : Conn \cup {NoConn}])
    /\ \A i \in 1..Len(inbox) : inbox[i].op \in {"addPeer", "removePeer"} => inbox[i].conn \in Conn

\* peers.peers and peers.ports say what the stages of the connections say.
Counted ==
    /\ peers = {c \in Conn : stage[c] \in {"added", "running", "ended"}}
    /\ ports = {port[c] : c \in peers}

\* What the router knows and is about to hear of c: it hears that c has come first,
\* and that it has left once the handler has ended.
QueuedFor(c) ==
    /\ Known(c) => stage[c] \in {"running", "ended", "gone"}
    /\ At(inbox, "removePeer", c) # {} => stage[c] \in {"ended", "gone"}
    /\ \A i \in At(inbox, "removePeer", c), j \in At(inbox, "addPeer", c) : j < i
    /\ stage[c] \in {"ended", "gone"} /\ Known(c) => At(inbox, "removePeer", c) # {}

Queued == \A c \in Conn : QueuedFor(c)

\* Of two connections whose ports do not go together, one has left.
Separated ==
    \A c, d \in Conn : Ported(c) /\ Ported(d) /\ Conflict(c, d) => Before(c, d) \/ Before(d, c)

PInv == PType /\ Counted /\ Queued /\ Separated

\* Two closures are the same if they do the same for the same connection.
LEMMA MsgInjective ==
    \A op1, op2, c, d : Msg(op1, c) = Msg(op2, d) <=> op1 = op2 /\ c = d
  BY Zenon DEF Msg

\* How the places of closures change when one is queued ...
LEMMA PostAt ==
    ASSUME NEW S, NEW q \in Seq(S), NEW e \in S, NEW op, NEW c
    PROVE  /\ e # Msg(op, c) => At(Append(q, e), op, c) = At(q, op, c)
           /\ e = Msg(op, c) => At(Append(q, e), op, c) = At(q, op, c) \cup {Len(q) + 1}
  BY DEF At

\* The first closure of an inbox.
LEMMA HeadIn ==
    ASSUME NEW S, NEW q \in Seq(S), q # <<>>
    PROVE  1 \in 1..Len(q) /\ Head(q) = q[1] /\ q[1] \in S
  OBVIOUS

\* ... and when the first is taken: it was at place 1, the others move up.
LEMMA TakeAt ==
    ASSUME NEW S, NEW q \in Seq(S), q # <<>>, NEW op, NEW c
    PROVE  /\ \A i : i \in At(Tail(q), op, c) => i \in Nat /\ i + 1 \in At(q, op, c)
           /\ \A i \in At(q, op, c) : i # 1 => i - 1 \in At(Tail(q), op, c)
           /\ 1 \in At(q, op, c) <=> Head(q) = Msg(op, c)
           /\ At(q, op, c) \subseteq 1..Len(q)
  BY DEF At

\* No connection is there at first.
LEMMA PInit == Init => PInv
  BY DEF Init, PInv, Counted, Queued, QueuedFor, Separated, PType, Stage, At, Known, Ported

\* addPeer: the port is that of the peers with the same key, or a new one; who else
\* has had it, has left before.
LEMMA PAddPeer == ASSUME PInv, NEW c \in Conn, AddPeer(c) PROVE PInv'
<1>1. PICK p \in IF SameKey(c) = {} THEN {FreePort} ELSE {port[d] : d \in SameKey(c)} :
        port' = [port EXCEPT ![c] = p] /\ ports' = ports \cup {p}
  BY Zenon DEF AddPeer
<1>2. /\ stage[c] = "new" /\ stage' = [stage EXCEPT ![c] = "added"]
      /\ peers' = peers \cup {c}
      /\ inbox' = inbox /\ attached' = attached
  BY Zenon DEF AddPeer, routerVars
<1>3. stage \in [Conn -> Stage] /\ port \in [Conn -> Nat] /\ peers \subseteq Conn /\ c \notin peers
  BY <1>2, Zenon DEF PInv, PType, Counted
<1>4. p \in Nat /\ \A d \in peers : Remote[c] = Remote[d] <=> p = port[d]
  <2>1. CASE SameKey(c) = {}
    <3>1. IsFiniteSet(ports) /\ ports \subseteq Nat
      <4>1. IsFiniteSet(peers)
        BY <1>3, PeersAssumption, FS_Subset, Zenon
      <4> DEFINE f == [d \in peers |-> port[d]]
      <4>2. f \in Surjection(peers, {port[d] : d \in peers})
        BY Zenon DEF Surjection
      <4>3. IsFiniteSet({port[d] : d \in peers})
        BY <4>1, <4>2, FS_Surjection, Zenon
      <4> QED
        BY <1>3, <4>3 DEF PInv, Counted
    <3>2. p \in Nat /\ p \notin ports
      BY <1>1, <2>1, <3>1, FreePortIsFree, Zenon
    <3>3. \A d \in peers : port[d] \in ports /\ Remote[d] # Remote[c]
      BY <2>1, Zenon DEF PInv, Counted, SameKey
    <3> QED
      BY <3>2, <3>3, Zenon
  <2>2. CASE SameKey(c) # {}
    <3>1. PICK e \in SameKey(c) : p = port[e]
      BY <1>1, <2>2, Zenon
    <3>2. e \in peers /\ Remote[e] = Remote[c] /\ e \in Conn
      BY <1>3, <3>1, Zenon DEF SameKey
    <3>3. \A d \in peers : Remote[d] = Remote[e] <=> port[d] = port[e]
      BY <1>3, <3>2, ZenonT(40) DEF PInv, Counted, Separated, Conflict, Before, Ported
    <3> QED
      BY <1>3, <3>1, <3>2, <3>3, Zenon
  <2> QED
    BY <2>1, <2>2, Zenon
<1>5. PType'
  BY <1>1, <1>2, <1>4, Zenon DEF PInv, PType, Stage
<1>6. peers' = {d \in Conn : stage'[d] \in {"added", "running", "ended"}}
  BY <1>2, <1>3, Zenon DEF PInv, Counted
<1>7. ports' = {port'[d] : d \in peers'}
  BY <1>1, <1>2, <1>3, <1>4 DEF PInv, Counted
<1>8. \A d \in Conn : (Known(d) <=> Known(d)') /\ (d # c => stage'[d] = stage[d] /\ port'[d] = port[d])
  BY <1>1, <1>2, <1>3, Zenon DEF Known
<1>9. ~Known(c) /\ stage'[c] = "added" /\ port'[c] = p
  BY <1>1, <1>2, <1>3, <1>4, Zenon DEF PInv, Queued, QueuedFor
<1>10. \A d \in Conn : Ported(d) /\ d # c /\ Conflict(c, d)' => Before(d, c)'
  <2> SUFFICES ASSUME NEW d \in Conn, Ported(d), d # c, Conflict(c, d)' PROVE Before(d, c)'
    BY Zenon
  <2>1. d \notin peers /\ stage[d] = "gone"
    BY <1>3, <1>4, <1>8, <1>9, Zenon DEF PInv, Counted, Ported, Conflict
  <2>2. Known(d) => At(inbox, "removePeer", d) # {}
    BY <2>1, Zenon DEF PInv, Queued, QueuedFor
  <2>3. c \notin attached /\ At(inbox, "addPeer", c) = {}
    BY <1>9, Zenon DEF Known
  <2> QED
    BY <1>2, <1>8, <2>1, <2>2, <2>3, Zenon DEF Before
<1>11. \A d \in Conn : Conflict(d, c)' <=> Conflict(c, d)'
  BY Zenon DEF Conflict
<1>12. ASSUME NEW d \in Conn, NEW e \in Conn, d # c, e # c
       PROVE  (Conflict(d, e)' <=> Conflict(d, e)) /\ (Before(d, e)' <=> Before(d, e))
  BY <1>2, <1>8, <1>12, Zenon DEF Conflict, Before
<1>13. \A d \in Conn : d # c => (Ported(d)' <=> Ported(d))
  BY <1>8, Zenon DEF Ported
<1>14. ~Conflict(c, c)'
  BY Zenon DEF Conflict
<1>15. Separated'
  <2> SUFFICES ASSUME NEW d \in Conn, NEW e \in Conn, (Ported(d) /\ Ported(e) /\ Conflict(d, e))'
               PROVE  (Before(d, e) \/ Before(e, d))'
    BY Zenon DEF Separated
  <2>1. CASE d # c /\ e # c
    <3>1. Ported(d) /\ Ported(e) /\ Conflict(d, e)
      BY <1>12, <1>13, <2>1, Zenon
    <3>2. Before(d, e) \/ Before(e, d)
      BY <3>1, Zenon DEF PInv, Separated
    <3> QED
      BY <1>12, <2>1, <3>2, Zenon
  <2>2. CASE d = c /\ e # c
    BY <1>10, <1>13, <2>2, Zenon
  <2>3. CASE d # c /\ e = c
    BY <1>10, <1>11, <1>13, <2>3, Zenon
  <2> QED
    BY <1>14, <2>1, <2>2, <2>3, Zenon
<1>16. Queued'
  <2> SUFFICES ASSUME NEW d \in Conn PROVE QueuedFor(d)'
    BY Zenon DEF Queued
  <2>1. QueuedFor(d) /\ QueuedFor(c)
    BY Zenon DEF PInv, Queued
  <2> QED
    BY <1>2, <1>8, <1>9, <2>1, Zenon DEF QueuedFor
<1> QED
  BY <1>5, <1>6, <1>7, <1>15, <1>16, Zenon DEF PInv, Counted

-----------------------------------------------------------------------------

\* A step that leaves the ports alone keeps the peers apart, if nobody who had left
\* comes back.
LEMMA StaySeparated ==
    ASSUME PInv, port' = port,
           \A d \in Conn : Ported(d)' => Ported(d),
           \A d, e \in Conn : Before(d, e) => Before(d, e)'
    PROVE  Separated'
<1> SUFFICES ASSUME NEW d \in Conn, NEW e \in Conn, (Ported(d) /\ Ported(e) /\ Conflict(d, e))'
             PROVE  (Before(d, e) \/ Before(e, d))'
  BY Zenon DEF Separated
<1>1. Ported(d) /\ Ported(e) /\ Conflict(d, e)
  BY Zenon DEF Conflict
<1>2. Before(d, e) \/ Before(e, d)
  BY <1>1, Zenon DEF PInv, Separated
<1> QED
  BY <1>2, Zenon

\* A connection that is refused never had a port.
LEMMA PRefusePeer == ASSUME PInv, NEW c \in Conn, RefusePeer(c) PROVE PInv'
<1>1. /\ stage[c] = "new" /\ stage' = [stage EXCEPT ![c] = "refused"]
      /\ port' = port /\ ports' = ports /\ peers' = peers
      /\ inbox' = inbox /\ attached' = attached
  BY Zenon DEF RefusePeer, routerVars
<1>2. stage \in [Conn -> Stage]
  BY Zenon DEF PInv, PType
<1>3. PType'
  BY <1>1, Zenon DEF PInv, PType, Stage
<1>4. Counted'
  BY <1>1, <1>2, Zenon DEF PInv, Counted
<1>5. Queued'
  BY <1>1, <1>2, Zenon DEF PInv, Queued, QueuedFor, Known
<1>6. \A d \in Conn : Ported(d)' => Ported(d)
  BY <1>1, <1>2, Zenon DEF Ported
<1>7. \A d, e \in Conn : Before(d, e) => Before(d, e)'
  BY <1>1, <1>2, Zenon DEF Before, Known
<1> QED
  BY <1>1, <1>3, <1>4, <1>5, <1>6, <1>7, StaySeparated, Zenon DEF PInv

\* handler tells the router of a connection it has never heard of.
LEMMA PStartHandler == ASSUME PInv, NEW c \in Conn, StartHandler(c) PROVE PInv'
<1> DEFINE M == [op : Op, conn : Conn \cup {NoConn}]
<1>1. /\ stage[c] = "added" /\ stage' = [stage EXCEPT ![c] = "running"]
      /\ port' = port /\ ports' = ports /\ peers' = peers
      /\ inbox' = Append(inbox, Msg("addPeer", c)) /\ attached' = attached
  BY Zenon DEF StartHandler, Post, Msg
<1>2. stage \in [Conn -> Stage] /\ inbox \in Seq(M) /\ Msg("addPeer", c) \in M
  BY Zenon DEF PInv, PType, Msg, Op
<1>3. PType'
  BY <1>1, <1>2 DEF PInv, PType, Stage, Msg
<1>4. Counted'
  BY <1>1, <1>2, Zenon DEF PInv, Counted
<1> HIDE DEF M
<1>5. /\ \A d : At(inbox', "removePeer", d) = At(inbox, "removePeer", d)
      /\ \A d : d # c => At(inbox', "addPeer", d) = At(inbox, "addPeer", d)
      /\ At(inbox', "addPeer", c) = At(inbox, "addPeer", c) \cup {Len(inbox) + 1}
  <2>1. /\ \A d : Msg("addPeer", c) # Msg("removePeer", d)
        /\ \A d : d # c => Msg("addPeer", c) # Msg("addPeer", d)
    BY MsgInjective
  <2> QED
    BY <1>1, <1>2, <2>1, PostAt
<1>6. \A op, d : At(inbox, op, d) \subseteq 1..Len(inbox)
  BY Zenon DEF At
<1>7. Queued'
  <2> SUFFICES ASSUME NEW d \in Conn PROVE QueuedFor(d)'
    BY Zenon DEF Queued
  <2>1. QueuedFor(d)
    BY Zenon DEF PInv, Queued
  <2>2. CASE d # c
    BY <1>1, <1>2, <1>5, <2>1, <2>2, Zenon DEF QueuedFor, Known
  <2>3. CASE d = c
    <3>1. At(inbox', "removePeer", c) = {} /\ stage'[c] = "running"
      BY <1>1, <1>2, <1>5, <2>1, <2>3, Zenon DEF QueuedFor
    <3> QED
      BY <2>3, <3>1, Zenon DEF QueuedFor
  <2> QED
    BY <2>2, <2>3, Zenon
<1>8. \A d \in Conn : Ported(d)' => Ported(d)
  BY <1>1, <1>2, Zenon DEF Ported
<1>9. ASSUME NEW d \in Conn, NEW e \in Conn, Before(d, e) PROVE Before(d, e)'
  <2>1. d # c /\ stage'[d] = "gone" /\ (Known(d)' <=> Known(d))
    BY <1>1, <1>2, <1>5, <1>9, Zenon DEF Before, Known
  <2>2. ASSUME NEW i \in At(inbox, "removePeer", d), \A j \in At(inbox, "addPeer", e) : i < j
        PROVE  \A j \in At(inbox', "addPeer", e) : i < j
    BY <1>2, <1>5, <1>6, <2>2
  <2> QED
    BY <1>1, <1>5, <1>9, <2>1, <2>2, Zenon DEF Before
<1>10. Separated'
  BY <1>1, <1>8, <1>9, StaySeparated, Zenon
<1> QED
  BY <1>3, <1>4, <1>7, <1>10, Zenon DEF PInv

\* handler tells the router of the end of a connection, after having told of it.
LEMMA PEndHandler == ASSUME PInv, NEW c \in Conn, EndHandler(c) PROVE PInv'
<1> DEFINE M == [op : Op, conn : Conn \cup {NoConn}]
<1>1. /\ stage[c] = "running" /\ stage' = [stage EXCEPT ![c] = "ended"]
      /\ port' = port /\ ports' = ports /\ peers' = peers
      /\ inbox' = Append(inbox, Msg("removePeer", c)) /\ attached' = attached
  BY Zenon DEF EndHandler, Post, Msg
<1>2. stage \in [Conn -> Stage] /\ inbox \in Seq(M) /\ Msg("removePeer", c) \in M
  BY Zenon DEF PInv, PType, Msg, Op
<1>3. PType'
  BY <1>1, <1>2 DEF PInv, PType, Stage, Msg
<1>4. Counted'
  BY <1>1, <1>2, Zenon DEF PInv, Counted
<1> HIDE DEF M
<1>5. /\ \A d : At(inbox', "addPeer", d) = At(inbox, "addPeer", d)
      /\ \A d : d # c => At(inbox', "removePeer", d) = At(inbox, "removePeer", d)
      /\ At(inbox', "removePeer", c) = At(inbox, "removePeer", c) \cup {Len(inbox) + 1}
  <2>1. /\ \A d : Msg("removePeer", c) # Msg("addPeer", d)
        /\ \A d : d # c => Msg("removePeer", c) # Msg("removePeer", d)
    BY MsgInjective
  <2> QED
    BY <1>1, <1>2, <2>1, PostAt
<1>6. \A op, d : At(inbox, op, d) \subseteq 1..Len(inbox)
  BY Zenon DEF At
<1>7. Queued'
  <2> SUFFICES ASSUME NEW d \in Conn PROVE QueuedFor(d)'
    BY Zenon DEF Queued
  <2>1. QueuedFor(d)
    BY Zenon DEF PInv, Queued
  <2>2. CASE d # c
    BY <1>1, <1>2, <1>5, <2>1, <2>2, Zenon DEF QueuedFor, Known
  <2>3. CASE d = c
    <3>1. \A i \in At(inbox', "removePeer", c), j \in At(inbox', "addPeer", c) : j < i
      BY <1>2, <1>5, <1>6, <2>1, <2>3 DEF QueuedFor
    <3> QED
      BY <1>1, <1>2, <1>5, <2>3, <3>1, Zenon DEF QueuedFor
  <2> QED
    BY <2>2, <2>3, Zenon
<1>8. \A d \in Conn : Ported(d)' => Ported(d)
  BY <1>1, <1>2, Zenon DEF Ported
<1>9. ASSUME NEW d \in Conn, NEW e \in Conn, Before(d, e) PROVE Before(d, e)'
  <2>1. d # c /\ stage'[d] = "gone"
    BY <1>1, <1>2, <1>9, Zenon DEF Before
  <2> QED
    BY <1>1, <1>5, <1>9, <2>1, Zenon DEF Before, Known
<1>10. Separated'
  BY <1>1, <1>8, <1>9, StaySeparated, Zenon
<1> QED
  BY <1>3, <1>4, <1>7, <1>10, Zenon DEF PInv

\* peers.removePeer gives the port back with the last connection that has it.
LEMMA PRemovePeer == ASSUME PInv, NEW c \in Conn, RemovePeer(c) PROVE PInv'
<1>1. /\ stage[c] = "ended" /\ stage' = [stage EXCEPT ![c] = "gone"]
      /\ port' = port /\ ports' = PortsWithout(c) /\ peers' = peers \ {c}
      /\ inbox' = inbox /\ attached' = attached
  BY Zenon DEF RemovePeer, routerVars
<1>2. stage \in [Conn -> Stage]
  BY Zenon DEF PInv, PType
<1>3. PType'
  BY <1>1, Zenon DEF PInv, PType, Stage
<1>4. c \in peers /\ peers \subseteq Conn /\ ports = {port[d] : d \in peers}
  BY <1>1, Zenon DEF PInv, Counted
<1>5. \A d \in peers : Remote[c] = Remote[d] <=> port[c] = port[d]
  BY <1>4, Zenon DEF PInv, Counted, Separated, Ported, Conflict, Before
<1>6. PortsWithout(c) = {port[d] : d \in peers \ {c}}
  BY <1>4, <1>5, Zenon DEF PortsWithout, SameKey
<1>7. Counted'
  BY <1>1, <1>2, <1>6, Zenon DEF PInv, Counted
<1>8. Queued'
  BY <1>1, <1>2, Zenon DEF PInv, Queued, QueuedFor, Known
<1>9. \A d \in Conn : Ported(d)' => Ported(d)
  BY <1>1, <1>2, Zenon DEF Ported
<1>10. \A d, e \in Conn : Before(d, e) => Before(d, e)'
  BY <1>1, <1>2, Zenon DEF Before, Known
<1>11. Separated'
  BY <1>1, <1>9, <1>10, StaySeparated, Zenon
<1> QED
  BY <1>3, <1>7, <1>8, <1>11, Zenon DEF PInv

-----------------------------------------------------------------------------

\* A closure that concerns no connection changes nothing by being queued ...
LEMMA PPost ==
    ASSUME PInv, NEW op \in {"maintain", "shutdown"},
           UNCHANGED connVars, attached' = attached, inbox' = Post(op, NoConn)
    PROVE  PInv'
<1> DEFINE M == [op : Op, conn : Conn \cup {NoConn}]
<1>1. stage' = stage /\ port' = port /\ ports' = ports /\ peers' = peers
      /\ inbox' = Append(inbox, Msg(op, NoConn))
  BY Zenon DEF connVars, Post, Msg
<1>2. inbox \in Seq(M) /\ Msg(op, NoConn) \in M
  BY Zenon DEF PInv, PType, Msg, Op
<1>3. PType'
  BY <1>1, <1>2 DEF PInv, PType, Msg
<1> HIDE DEF M
<1>4. \A d : /\ At(inbox', "addPeer", d) = At(inbox, "addPeer", d)
             /\ At(inbox', "removePeer", d) = At(inbox, "removePeer", d)
  <2>1. \A d : Msg(op, NoConn) # Msg("addPeer", d) /\ Msg(op, NoConn) # Msg("removePeer", d)
    BY MsgInjective
  <2> QED
    BY <1>1, <1>2, <2>1, PostAt
<1>5. Counted' /\ Queued'
  BY <1>1, <1>4, Zenon DEF PInv, Counted, Queued, QueuedFor, Known
<1>6. \A d \in Conn : Ported(d)' => Ported(d)
  BY <1>1, Zenon DEF Ported
<1>7. \A d, e \in Conn : Before(d, e) => Before(d, e)'
  BY <1>1, <1>4, Zenon DEF Before, Known
<1>8. Separated'
  BY <1>1, <1>6, <1>7, StaySeparated, Zenon
<1> QED
  BY <1>3, <1>5, <1>8, Zenon DEF PInv

\* What taking the first closure does to the places of the others.
LEMMA Taken ==
    ASSUME PInv, inbox # <<>>, inbox' = Tail(inbox), NEW op, NEW d
    PROVE  /\ \A i : i \in At(inbox', op, d) => i \in Nat /\ i + 1 \in At(inbox, op, d)
           /\ \A i \in At(inbox, op, d) : i \in Nat \ {0} /\ (i # 1 => i - 1 \in At(inbox', op, d))
           /\ 1 \in At(inbox, op, d) <=> Head(inbox) = Msg(op, d)
<1> DEFINE M == [op : Op, conn : Conn \cup {NoConn}]
<1>1. inbox \in Seq(M)
  BY Zenon DEF PInv, PType
<1> HIDE DEF M
<1>2. Len(inbox) \in Nat
  BY <1>1
<1> QED
  BY <1>1, <1>2, TakeAt

\* Taking a closure leaves peers.peers, peers.ports and the ports alone.
LEMMA TakenType ==
    ASSUME PInv, inbox # <<>>, inbox' = Tail(inbox), UNCHANGED connVars,
           attached' \subseteq Conn
    PROVE  PType' /\ Counted' /\ port' = port /\ (\A d \in Conn : Ported(d)' => Ported(d))
<1> DEFINE M == [op : Op, conn : Conn \cup {NoConn}]
<1>1. stage' = stage /\ port' = port /\ ports' = ports /\ peers' = peers
  BY Zenon DEF connVars
<1>2. inbox \in Seq(M) /\ stage \in [Conn -> Stage] /\ port \in [Conn -> Nat]
  BY Zenon DEF PInv, PType
<1>3. inbox' \in Seq(M)
  BY <1>2
<1>4. \A i \in 1..Len(inbox') : inbox'[i] = inbox[i + 1] /\ i + 1 \in 1..Len(inbox)
  BY <1>2
<1>5. \A i \in 1..Len(inbox') :
        inbox'[i].op \in {"addPeer", "removePeer"} => inbox'[i].conn \in Conn
  BY <1>4, Zenon DEF PInv, PType
<1>6. PType'
  BY <1>1, <1>2, <1>3, <1>5, Zenon DEF PType
<1> QED
  BY <1>1, <1>6, Zenon DEF PInv, Counted, Ported

\* ... nor by being taken.
LEMMA PTakeOther ==
    ASSUME PInv, NEW op \in {"maintain", "shutdown"}, Receive(op),
           UNCHANGED connVars, attached' = attached
    PROVE  PInv'
<1>1. inbox # <<>> /\ inbox' = Tail(inbox) /\ Head(inbox).op = op
  BY Zenon DEF Receive
<1>2. PType' /\ Counted' /\ port' = port /\ stage' = stage /\ \A d \in Conn : Ported(d)' => Ported(d)
  BY <1>1, TakenType, Zenon DEF PInv, PType, connVars
<1>3. \A d : Head(inbox) # Msg("addPeer", d) /\ Head(inbox) # Msg("removePeer", d)
  BY <1>1 DEF Msg
<1>4. \A k \in {"addPeer", "removePeer"}, d \in Conn :
        /\ \A i : i \in At(inbox', k, d) => i \in Nat /\ i + 1 \in At(inbox, k, d)
        /\ \A i \in At(inbox, k, d) : i \in Nat \ {0} /\ i - 1 \in At(inbox', k, d)
  BY <1>1, <1>3, Taken, Zenon
<1>5. \A d \in Conn : Known(d)' <=> Known(d)
  BY <1>4, Zenon DEF Known
<1>6. ASSUME NEW d \in Conn PROVE QueuedFor(d)'
  <2>1. QueuedFor(d)
    BY Zenon DEF PInv, Queued
  <2>2. \A i \in At(inbox', "removePeer", d), j \in At(inbox', "addPeer", d) : j < i
    BY <1>4, <2>1 DEF QueuedFor
  <2> QED
    BY <1>2, <1>4, <1>5, <2>1, <2>2, Zenon DEF QueuedFor
<1>7. ASSUME NEW d \in Conn, NEW e \in Conn, Before(d, e) PROVE Before(d, e)'
  BY <1>2, <1>4, <1>5, <1>7 DEF Before
<1>8. Separated'
  BY <1>2, <1>7, StaySeparated, Zenon
<1> QED
  BY <1>2, <1>6, <1>8, Zenon DEF PInv, Queued

\* The router hears of a connection c: whoever has to leave before c has left.
LEMMA PRouterAddPeer == ASSUME PInv, RouterAddPeer PROVE PInv'
<1>1. /\ inbox # <<>> /\ inbox' = Tail(inbox) /\ Head(inbox).op = "addPeer"
      /\ attached' = attached \cup {Head(inbox).conn} /\ UNCHANGED connVars
  BY Zenon DEF RouterAddPeer, Receive
<1>2. PICK c \in Conn : Head(inbox) = Msg("addPeer", c) /\ attached' = attached \cup {c}
  <2> DEFINE M == [op : Op, conn : Conn \cup {NoConn}]
  <2>1. inbox \in Seq(M)
    BY Zenon DEF PInv, PType
  <2>2. 1 \in 1..Len(inbox) /\ Head(inbox) = inbox[1] /\ inbox[1] \in M
    <3> HIDE DEF M
    <3> QED
      BY <1>1, <2>1, HeadIn, Zenon
  <2> QED
    BY <1>1, <2>2, Zenon DEF PInv, PType, Msg
<1>3. PType' /\ Counted' /\ port' = port /\ stage' = stage /\ \A d \in Conn : Ported(d)' => Ported(d)
  BY <1>1, <1>2, TakenType, Zenon DEF PInv, PType, connVars
<1>4. /\ \A d : Head(inbox) # Msg("removePeer", d)
      /\ \A d : Head(inbox) = Msg("addPeer", d) <=> d = c
  BY <1>2, MsgInjective
<1>5. \A d \in Conn :
        /\ \A i : i \in At(inbox', "removePeer", d) => i \in Nat /\ i + 1 \in At(inbox, "removePeer", d)
        /\ \A i \in At(inbox, "removePeer", d) : i \in Nat \ {0} /\ i - 1 \in At(inbox', "removePeer", d)
        /\ \A i : i \in At(inbox', "addPeer", d) => i \in Nat /\ i + 1 \in At(inbox, "addPeer", d)
        /\ d # c => \A i \in At(inbox, "addPeer", d) : i \in Nat \ {0} /\ i - 1 \in At(inbox', "addPeer", d)
        /\ 1 \in At(inbox, "addPeer", c)
  BY <1>1, <1>2, <1>4, Taken, Zenon
<1>6. \A d \in Conn : Known(d)' <=> Known(d)
  BY <1>1, <1>2, <1>5, Zenon DEF Known
<1>7. ASSUME NEW d \in Conn PROVE QueuedFor(d)'
  <2>1. QueuedFor(d)
    BY Zenon DEF PInv, Queued
  <2>2. \A i \in At(inbox', "removePeer", d), j \in At(inbox', "addPeer", d) : j < i
    BY <1>5, <2>1 DEF QueuedFor
  <2> QED
    BY <1>3, <1>5, <1>6, <2>1, <2>2, Zenon DEF QueuedFor
<1>8. ASSUME NEW d \in Conn, NEW e \in Conn, Before(d, e) PROVE Before(d, e)'
  <2>1. CASE ~Known(d)
    BY <1>3, <1>6, <1>8, <2>1, Zenon DEF Before
  <2>2. CASE Known(d)
    <3>1. PICK i \in At(inbox, "removePeer", d) : \A j \in At(inbox, "addPeer", e) : i < j
      BY <1>8, <2>2, Zenon DEF Before
    <3>2. i \in Nat \ {0} /\ i - 1 \in At(inbox', "removePeer", d)
      BY <1>5, Zenon
    <3>3. e # c
      BY <1>5, <3>1, <3>2
    <3>4. \A j \in At(inbox', "addPeer", e) : i - 1 < j
      BY <1>5, <3>1, <3>2
    <3> QED
      BY <1>1, <1>2, <1>3, <1>8, <2>2, <3>2, <3>3, <3>4, Zenon DEF Before
  <2> QED
    BY <2>1, <2>2, Zenon
<1>9. Separated'
  BY <1>3, <1>8, StaySeparated, Zenon
<1> QED
  BY <1>3, <1>7, <1>9, Zenon DEF PInv, Queued

\* The router hears that a connection c has left: it has heard before that c had come.
LEMMA PRouterRemovePeer == ASSUME PInv, RouterRemovePeer PROVE PInv'
<1>1. /\ inbox # <<>> /\ inbox' = Tail(inbox) /\ Head(inbox).op = "removePeer"
      /\ attached' = attached \ {Head(inbox).conn} /\ UNCHANGED connVars
  BY Zenon DEF RouterRemovePeer, Receive
<1>2. PICK c \in Conn : Head(inbox) = Msg("removePeer", c) /\ attached' = attached \ {c}
  <2> DEFINE M == [op : Op, conn : Conn \cup {NoConn}]
  <2>1. inbox \in Seq(M)
    BY Zenon DEF PInv, PType
  <2>2. 1 \in 1..Len(inbox) /\ Head(inbox) = inbox[1] /\ inbox[1] \in M
    <3> HIDE DEF M
    <3> QED
      BY <1>1, <2>1, HeadIn, Zenon
  <2> QED
    BY <1>1, <2>2, Zenon DEF PInv, PType, Msg
<1>3. PType' /\ Counted' /\ port' = port /\ stage' = stage /\ \A d \in Conn : Ported(d)' => Ported(d)
  BY <1>1, <1>2, TakenType, Zenon DEF PInv, PType, connVars
<1>4. /\ \A d : Head(inbox) # Msg("addPeer", d)
      /\ \A d : Head(inbox) = Msg("removePeer", d) <=> d = c
  BY <1>2, MsgInjective
<1>5. \A d \in Conn :
        /\ \A i : i \in At(inbox', "addPeer", d) => i \in Nat /\ i + 1 \in At(inbox, "addPeer", d)
        /\ \A i \in At(inbox, "addPeer", d) : i \in Nat \ {0} /\ i - 1 \in At(inbox', "addPeer", d)
        /\ \A i : i \in At(inbox', "removePeer", d) => i \in Nat /\ i + 1 \in At(inbox, "removePeer", d)
        /\ d # c => \A i \in At(inbox, "removePeer", d) : i \in Nat \ {0} /\ i - 1 \in At(inbox', "removePeer", d)
        /\ 1 \in At(inbox, "removePeer", c)
  BY <1>1, <1>2, <1>4, Taken, Zenon
<1>6. ~Known(c)'
  <2>1. QueuedFor(c)
    BY <1>2, Zenon DEF PInv, Queued
  <2>2. \A j \in At(inbox, "addPeer", c) : j \in Nat \ {0} /\ j < 1
    BY <1>2, <1>5, <2>1, Zenon DEF QueuedFor
  <2>3. At(inbox', "addPeer", c) = {}
    BY <1>2, <1>5, <2>2
  <2> QED
    BY <1>2, <2>3, Zenon DEF Known
<1>7. \A d \in Conn : d # c => (Known(d)' <=> Known(d))
  BY <1>1, <1>2, <1>5, Zenon DEF Known
<1>8. ASSUME NEW d \in Conn PROVE QueuedFor(d)'
  <2>1. QueuedFor(d)
    BY Zenon DEF PInv, Queued
  <2>2. \A i \in At(inbox', "removePeer", d), j \in At(inbox', "addPeer", d) : j < i
    BY <1>5, <2>1 DEF QueuedFor
  <2>3. At(inbox', "removePeer", d) # {} => At(inbox, "removePeer", d) # {}
    BY <1>5, Zenon
  <2>4. CASE d = c
    BY <1>3, <1>6, <2>1, <2>2, <2>3, <2>4, Zenon DEF QueuedFor
  <2>5. CASE d # c
    BY <1>3, <1>5, <1>7, <2>1, <2>2, <2>3, <2>5, Zenon DEF QueuedFor
  <2> QED
    BY <2>4, <2>5, Zenon
<1>9. ASSUME NEW d \in Conn, NEW e \in Conn, Before(d, e) PROVE Before(d, e)'
  <2>1. CASE d = c
    BY <1>3, <1>6, <1>9, <2>1, Zenon DEF Before
  <2>2. CASE d # c
    BY <1>1, <1>2, <1>3, <1>5, <1>7, <1>9, <2>2 DEF Before
  <2> QED
    BY <2>1, <2>2, Zenon
<1>10. Separated'
  BY <1>3, <1>9, StaySeparated, Zenon
<1> QED
  BY <1>3, <1>8, <1>10, Zenon DEF PInv, Queued

-----------------------------------------------------------------------------

\* Every step keeps the invariant.
LEMMA PNext == PInv /\ [Next]_vars => PInv'
<1> SUFFICES ASSUME PInv, [Next]_vars PROVE PInv'
  BY Zenon
<1>1. ASSUME NEW c \in Conn, AddPeer(c) \/ HandleConn(c) \/ EndHandler(c) PROVE PInv'
  BY <1>1, PAddPeer, PRefusePeer, PStartHandler, PRemovePeer, PEndHandler, Zenon DEF HandleConn
<1>2. CASE CloseBegin
  <2>1. UNCHANGED <<stage, port, ports, peers, inbox, attached>>
    BY <1>2, Zenon DEF CloseBegin, connVars, routerVars
  <2> QED
    BY <2>1 DEF PInv, PType, Counted, Queued, QueuedFor, Separated, Known, Ported, Conflict, Before
<1>3. CASE CloseConns \/ MainTimer
  BY <1>3, PPost, Zenon DEF CloseConns, MainTimer
<1>4. CASE DoMaintenance \/ Shutdown
  BY <1>4, PTakeOther, Zenon DEF DoMaintenance, Shutdown
<1>5. CASE UNCHANGED vars
  <2>1. UNCHANGED <<stage, port, ports, peers, inbox, attached>>
    BY <1>5, Zenon DEF vars, connVars, routerVars
  <2> QED
    BY <2>1 DEF PInv, PType, Counted, Queued, QueuedFor, Separated, Known, Ported, Conflict, Before
<1> QED
  BY <1>1, <1>2, <1>3, <1>4, <1>5, PRouterAddPeer, PRouterRemovePeer, Zenon DEF Next, Router

\* Two connections on the router have one port just if they have one peer: neither
\* can be one that the router forgets before it hears of the other.
LEMMA PDistinct == PInv => PortsDistinct
<1> SUFFICES ASSUME PInv, NEW c \in attached, NEW d \in attached
             PROVE  ~Conflict(c, d)
  BY Zenon DEF PortsDistinct, Conflict
<1>1. c \in Conn /\ d \in Conn /\ Known(c) /\ Known(d)
  BY Zenon DEF PInv, PType, Known
<1>2. Ported(c) /\ Ported(d)
  BY <1>1, Zenon DEF PInv, Queued, QueuedFor, Ported
<1>3. ~Before(c, d) /\ ~Before(d, c)
  BY <1>1, Zenon DEF Before
<1> QED
  BY <1>1, <1>2, <1>3, Zenon DEF PInv, Separated

\* For any number of connections, and whatever the keys at their other ends, the
\* router never sees two peers with one port, nor one peer with two: addPeer gives
\* a port out again only after the removal of the peer that had it is queued.
THEOREM PeersPortsDistinct == Spec => []PortsDistinct
<1>1. Init => PInv
  BY PInit, Zenon
<1>2. PInv /\ [Next]_vars => PInv'
  BY PNext, Zenon
<1>3. PInv => PortsDistinct
  BY PDistinct, Zenon
<1> QED
  BY <1>1, <1>2, <1>3, PTL DEF Spec

-----------------------------------------------------------------------------

\* Once Close has returned, _shutdown has ended the timer.
TimerEnded == close = "closed" => mainTimer = "nil"

\* No step starts a timer that is nil, or closes without _shutdown.
LEMMA NextTimer ==
    ASSUME [Next]_vars
    PROVE  /\ mainTimer = "nil" => mainTimer' = "nil"
           /\ close' = "closed" => close = "closed" \/ mainTimer' = "nil"
<1>1. CASE \E c \in Conn : AddPeer(c) \/ HandleConn(c) \/ EndHandler(c)
  BY <1>1, Zenon DEF AddPeer, HandleConn, RefusePeer, StartHandler, RemovePeer, EndHandler,
                     routerVars
<1>2. CASE CloseBegin \/ CloseConns
  BY <1>2, Zenon DEF CloseBegin, CloseConns, routerVars
<1>3. CASE MainTimer \/ Router
  BY <1>3, Zenon DEF MainTimer, Router, RouterAddPeer, RouterRemovePeer, DoMaintenance, Shutdown
<1>4. CASE UNCHANGED vars
  BY <1>4, Zenon DEF vars, routerVars
<1> QED
  BY <1>1, <1>2, <1>3, <1>4, Zenon DEF Next

\* After Close no maintenance that was still queued starts the router's timer again.
THEOREM RouterClosedForGood == Spec => ClosedForGood
<1>1. Init => TimerEnded
  BY Zenon DEF Init, TimerEnded
<1>2. TimerEnded /\ [Next]_vars => TimerEnded'
  BY NextTimer, Zenon DEF TimerEnded
<1>3. TimerEnded /\ [Next]_vars => [close = "closed" => mainTimer' = "nil"]_vars
  BY NextTimer, Zenon DEF TimerEnded
<1> QED
  BY <1>1, <1>2, <1>3, PTL DEF Spec, ClosedForGood
=============================================================================
