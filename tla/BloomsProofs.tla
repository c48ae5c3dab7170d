---------------------------- MODULE BloomsProofs ----------------------------
(***************************************************************************)
(* Proofs about the bloom filters, for any network, any trees and any      *)
(* number of failures: over the one connection between two nodes, the      *)
(* filter that a node sent last is the one that its peer has or will have. *)
(***************************************************************************)
EXTENDS Multicast, TLAPS

-----------------------------------------------------------------------------
(* The inductive invariant. *)

Filter == SUBSET Key

BTypeOK ==
    /\ send \in [Key -> [Key -> Filter]]
    /\ recv \in [Key -> [Key -> Filter]]
    /\ chan \in [Conn -> [Key -> Seq(Filter)]]
    /\ attached \in [Conn -> SUBSET Key]
    /\ \A c \in Conn : attached[c] \subseteq Ends[c]

\* No other connection joins the same nodes.
Sole(c) == \A d \in Conn : Ends[d] = Ends[c] => d = c

\* What n sent last to the other end of c, m, is on its way to m behind all else, or
\* is what m has.  A filter that m has yet to handle waits when m is not attached.
Arrives(c, n, m) ==
    /\ chan[c][m] = <<>> => m \in attached[c] /\ recv[m][n] = send[n][m]
    /\ chan[c][m] # <<>> => chan[c][m][Len(chan[c][m])] = send[n][m]

BInv ==
    /\ BTypeOK
    /\ \A c \in Conn \ broken : \A n \in attached[c] : Sole(c) => Arrives(c, n, Remote(c, n))

-----------------------------------------------------------------------------
(* The ends of a connection. *)

LEMMA RemoteIs ==
    ASSUME NEW c \in Conn, NEW n \in Ends[c]
    PROVE  /\ n \in Key /\ Remote(c, n) \in Key /\ Remote(c, n) # n
           /\ Remote(c, n) \in Ends[c]
           /\ Ends[c] = {n, Remote(c, n)}
<1>1. PICK a \in Key, b \in Key : a # b /\ Ends[c] = {a, b}
  BY BloomsAssumption, Zenon
<1>2. \E m \in Ends[c] : m # n
  BY <1>1, Zenon
<1>3. Remote(c, n) \in Ends[c] /\ Remote(c, n) # n
  BY <1>2, Zenon DEF Remote
<1> QED
  BY <1>1, <1>3

\* A connection of n's that leads to m is the only one that joins them.
LEMMA SoleIs ==
    ASSUME NEW c \in Conn, Sole(c), NEW n \in Ends[c],
           NEW d \in Conn, NEW x \in Ends[d], {x, Remote(d, x)} = {n, Remote(c, n)}
    PROVE  d = c
<1>1. Ends[c] = {n, Remote(c, n)} /\ Ends[d] = {x, Remote(d, x)}
  BY RemoteIs, Zenon
<1> QED
  BY <1>1, Zenon DEF Sole

\* A filter that is sent arrives behind all else.
LEMMA LastOfAppend ==
    ASSUME NEW q \in Seq(Filter), NEW f \in Filter
    PROVE  /\ q \o <<f>> \in Seq(Filter) /\ q \o <<f>> # <<>>
           /\ (q \o <<f>>)[Len(q \o <<f>>)] = f
  OBVIOUS

LEMMA NoneAppended == ASSUME NEW q \in Seq(Filter) PROVE q \o <<>> = q
  OBVIOUS

LEMMA OneLess == ASSUME NEW n \in Nat, n - 1 = 0 PROVE n = 1
  OBVIOUS

\* A filter that is handled is the last one, or the last one is still to come.
LEMMA LastOfTail ==
    ASSUME NEW q \in Seq(Filter), q # <<>>
    PROVE  /\ Head(q) \in Filter /\ Tail(q) \in Seq(Filter)
           /\ Tail(q) = <<>> => q[Len(q)] = Head(q)
           /\ Tail(q) # <<>> => Tail(q)[Len(Tail(q))] = q[Len(q)]
<1>1. Len(q) \in Nat \ {0} /\ Len(Tail(q)) = Len(q) - 1 /\ Head(q) = q[1]
  OBVIOUS
<1>2. Head(q) \in Filter /\ Tail(q) \in Seq(Filter)
  OBVIOUS
<1>3. ASSUME Tail(q) = <<>> PROVE Len(q) = 1
  <2>1. Len(<<>>) = 0
    BY Zenon
  <2>2. Len(Tail(q)) = 0
    BY <1>3, <2>1, Zenon
  <2>3. PICK n \in Nat : n = Len(q) /\ n - 1 = 0
    BY <1>1, <2>2, Zenon
  <2>4. n = 1
    BY <2>3, OneLess, Zenon
  <2> QED
    BY <2>3, <2>4, Zenon
<1>4. ASSUME Tail(q) # <<>> PROVE Tail(q)[Len(q) - 1] = q[Len(q)]
  <2>1. Len(q) - 1 # 0
    BY <1>1, <1>2, <1>4
  <2> QED
    BY <1>1, <2>1
<1> QED
  BY <1>1, <1>2, <1>3, <1>4, Zenon

\* ch is chan after n sent out[m] to each peer m over the connections cs.
Grown(ch, n, cs, out) ==
    /\ ch \in [Conn -> [Key -> Seq(Filter)]]
    /\ \A c \in Conn \ broken : c \in cs =>
          ch[c][Remote(c, n)] = chan[c][Remote(c, n)] \o out[Remote(c, n)]
    /\ \A c \in Conn, m \in Key : c \notin cs \/ m # Remote(c, n) => ch[c][m] = chan[c][m]

\* What Sending does to the channels.
LEMMA SendingIs ==
    ASSUME BTypeOK, NEW n \in Key, NEW cs,
           \A c \in cs : c \in Conn /\ n \in Ends[c], NEW out \in [Key -> Seq(Filter)]
    PROVE  Grown(Sending(n, cs, out), n, cs, out)
<1>1. ASSUME NEW c \in Conn, c \in cs PROVE Remote(c, n) \in Key
  BY <1>1, RemoteIs, Zenon
<1>2. ASSUME NEW c \in Conn, c \in cs
      PROVE  chan[c][Remote(c, n)] \o out[Remote(c, n)] \in Seq(Filter)
  BY <1>1, <1>2 DEF BTypeOK
<1> QED
  BY <1>1, <1>2, Zenon DEF Sending, BTypeOK, Grown

-----------------------------------------------------------------------------
(* The steps. *)

\* The peers of a node are nodes.
LEMMA PeersAre ==
    ASSUME BTypeOK, NEW n \in Key
    PROVE  /\ \A c \in PeerConns(n) : c \in Conn /\ n \in Ends[c] /\ Remote(c, n) \in Key
           /\ Peers(n) \subseteq Key
<1>1. \A c \in PeerConns(n) : c \in Conn /\ n \in Ends[c]
  BY Zenon DEF PeerConns, BTypeOK
<1>2. \A c \in PeerConns(n) : Remote(c, n) \in Key
  BY <1>1, RemoteIs, Zenon
<1> QED
  BY <1>1, <1>2, Zenon DEF Peers

\* _getBloomFor returns a filter.
LEMMA BloomForIs ==
    ASSUME BTypeOK, NEW known, NEW n \in Key, NEW m \in Key
    PROVE  BloomFor(known, n, m) \in Filter
<1>1. \A k \in Peers(n) : recv[n][k] \subseteq Key
  BY PeersAre DEF BTypeOK, Filter
<1>2. Reachable(known, n, m) \subseteq Key
  BY <1>1, Zenon DEF Reachable
<1>3. send[n][m] \subseteq Key
  BY DEF BTypeOK, Filter
<1> QED
  BY <1>2, <1>3, Zenon DEF BloomFor, Filter

\* The peers that a maintenance sends a filter to, and the filter.
Dropped(known, n) == {m \in Peers(n) : onTree[n][m] /\ ~IsOnTree(known, n, m)}
Getting(known, n) ==
    {m \in Peers(n) : IsOnTree(known, n, m) /\ BloomFor(known, n, m) # send[n][m]}
        \cup Dropped(known, n)
Bloom(known, n) ==
    [m \in Key |-> IF m \in Dropped(known, n) THEN {} ELSE BloomFor(known, n, m)]

\* It is the last that is sent to them.
LEMMA MaintainIs ==
    ASSUME BTypeOK, NEW x \in Key, Maintain(x)
    PROVE  \E new, bloom :
             /\ new \subseteq Peers(x) /\ bloom \in [Key -> Filter]
             /\ send' = [send EXCEPT ![x] =
                           [m \in Key |-> IF m \in new THEN bloom[m] ELSE send[x][m]]]
             /\ chan' = Sending(x, PeerConns(x),
                                [m \in Key |-> IF m \in new THEN <<bloom[m]>> ELSE <<>>])
<1>1. PICK known :
         /\ send' = [send EXCEPT ![x] = [m \in Key |->
                       IF m \in Getting(known, x)
                       THEN IF m \in Dropped(known, x) THEN {} ELSE BloomFor(known, x, m)
                       ELSE send[x][m]]]
         /\ chan' = Sending(x, PeerConns(x), [m \in Key |->
                       IF m \in Getting(known, x)
                       THEN <<IF m \in Dropped(known, x) THEN {} ELSE BloomFor(known, x, m)>>
                       ELSE <<>>])
  BY Zenon DEF Maintain, Getting, Dropped
<1>2. PICK bloom : bloom = Bloom(known, x)
  BY Zenon
<1>3. PICK new : new = Getting(known, x)
  BY Zenon
<1>4. bloom \in [Key -> Filter]
  BY <1>2, BloomForIs, Zenon DEF Filter, Bloom
<1>5. new \subseteq Peers(x)
  BY <1>3, Zenon DEF Getting, Dropped
<1>6. \A m \in Key : bloom[m] = IF m \in Dropped(known, x) THEN {} ELSE BloomFor(known, x, m)
  BY <1>2, Zenon DEF Bloom
<1>7. /\ send' = [send EXCEPT ![x] =
                    [m \in Key |-> IF m \in new THEN bloom[m] ELSE send[x][m]]]
      /\ chan' = Sending(x, PeerConns(x),
                         [m \in Key |-> IF m \in new THEN <<bloom[m]>> ELSE <<>>])
  BY <1>1, <1>3, <1>6, Zenon
<1> QED
  BY <1>4, <1>5, <1>7, Zenon

\* What is to show of a step that leaves n attached to c.
LEMMA StepArrives ==
    ASSUME BTypeOK',
           \A c \in Conn \ broken' : \A n \in attached'[c] :
              Sole(c) => Arrives(c, n, Remote(c, n))'
    PROVE  BInv'
  BY Zenon DEF BInv, Remote, Sole

\* A maintenance.
LEMMA MaintainGood == ASSUME BInv, NEW x \in Key, Maintain(x) PROVE BInv'
<1>1. BTypeOK
  BY Zenon DEF BInv
<1>2. PICK new, bloom :
         /\ new \subseteq Peers(x) /\ bloom \in [Key -> Filter]
         /\ send' = [send EXCEPT ![x] =
                       [m \in Key |-> IF m \in new THEN bloom[m] ELSE send[x][m]]]
         /\ chan' = Sending(x, PeerConns(x),
                            [m \in Key |-> IF m \in new THEN <<bloom[m]>> ELSE <<>>])
  BY <1>1, MaintainIs, Zenon
<1>3. recv' = recv /\ broken' = broken /\ attached' = attached
  BY Zenon DEF Maintain
<1>4. PICK out : out = [m \in Key |-> IF m \in new THEN <<bloom[m]>> ELSE <<>>]
  BY Zenon
<1>5. out \in [Key -> Seq(Filter)]
  BY <1>2, <1>4
<1>6. \A c \in PeerConns(x) : c \in Conn /\ x \in Ends[c]
  BY <1>1, PeersAre, Zenon
<1>7. /\ chan' \in [Conn -> [Key -> Seq(Filter)]]
      /\ \A c \in Conn \ broken : c \in PeerConns(x) =>
            chan'[c][Remote(c, x)] = chan[c][Remote(c, x)] \o out[Remote(c, x)]
      /\ \A c \in Conn, m \in Key : c \notin PeerConns(x) \/ m # Remote(c, x) =>
            chan'[c][m] = chan[c][m]
  <2>1. chan' = Sending(x, PeerConns(x), out)
    BY <1>2, <1>4, Zenon
  <2>2. PICK cs : cs = PeerConns(x)
    BY Zenon
  <2>3. \A c \in cs : c \in Conn /\ x \in Ends[c]
    BY <1>6, <2>2, Zenon
  <2>4. Grown(Sending(x, cs, out), x, cs, out)
    BY <1>1, <1>5, <2>3, SendingIs, Zenon
  <2> QED
    BY <2>1, <2>2, <2>4, Zenon DEF Grown
<1>8. /\ send' \in [Key -> [Key -> Filter]]
      /\ \A n, m \in Key :
            send'[n][m] = IF n = x /\ m \in new THEN bloom[m] ELSE send[n][m]
  BY <1>1, <1>2, Zenon DEF BTypeOK
<1>9. BTypeOK'
  BY <1>1, <1>3, <1>7, <1>8, Zenon DEF BTypeOK
<1>10. ASSUME NEW c \in Conn \ broken, NEW n \in attached[c], Sole(c)
       PROVE  Arrives(c, n, Remote(c, n))'
  <2>1. n \in Ends[c] /\ Arrives(c, n, Remote(c, n))
    BY <1>10, Zenon DEF BInv, BTypeOK
  <2>2. PICK m : m = Remote(c, n)
    BY Zenon
  <2>3. n \in Key /\ m \in Key /\ m # n
    BY <2>1, <2>2, RemoteIs, Zenon
  <2>4. CASE x = n
    <3>1. c \in PeerConns(x) /\ chan[c][m] \in Seq(Filter)
      BY <1>1, <2>3, <2>4, ZenonT(40) DEF PeerConns, BTypeOK
    <3>2. chan'[c][m] = chan[c][m] \o out[m]
      BY <1>7, <2>2, <2>4, <3>1, Zenon
    <3>3. CASE m \in new
      <4>1. out[m] = <<bloom[m]>> /\ send'[n][m] = bloom[m] /\ bloom[m] \in Filter
        BY <1>2, <1>4, <1>8, <2>3, <2>4, <3>3, Zenon
      <4>2. chan'[c][m] # <<>> /\ chan'[c][m][Len(chan'[c][m])] = send'[n][m]
        BY <3>1, <3>2, <4>1, LastOfAppend
      <4> QED
        BY <2>2, <4>2, Zenon DEF Arrives, Remote
    <3>4. CASE m \notin new
      <4>1. out[m] = <<>> /\ send'[n][m] = send[n][m]
        BY <1>4, <1>8, <2>3, <2>4, <3>4, Zenon
      <4>2. chan'[c][m] = chan[c][m]
        BY <3>1, <3>2, <4>1, NoneAppended, Zenon
      <4> QED
        BY <1>3, <2>1, <2>2, <4>1, <4>2, Zenon DEF Arrives, Remote
    <3> QED
      BY <3>3, <3>4, Zenon
  <2>5. CASE x # n
    <3>1. c \in PeerConns(x) => m # Remote(c, x)
      <4> SUFFICES ASSUME c \in PeerConns(x) PROVE m # Remote(c, x)
        BY Zenon
      <4>1. x \in Ends[c]
        BY <1>6, Zenon
      <4>2. Ends[c] = {n, m} /\ Remote(c, x) # x
        BY <2>1, <2>2, <4>1, RemoteIs, Zenon
      <4> QED
        BY <2>5, <4>1, <4>2, Zenon
    <3>2. chan'[c][m] = chan[c][m] /\ send'[n][m] = send[n][m]
      BY <1>7, <1>8, <2>3, <2>5, <3>1, Zenon
    <3> QED
      BY <1>3, <2>1, <2>2, <3>2, Zenon DEF Arrives, Remote
  <2> QED
    BY <2>4, <2>5, Zenon
<1> QED
  BY <1>3, <1>9, <1>10, StepArrives, Zenon

\* _handleBloom.
LEMMA HandleBloomGood ==
    ASSUME BInv, NEW d \in Conn, NEW x \in Key, HandleBloom(d, x) PROVE BInv'
<1>1. BTypeOK /\ x \in Ends[d]
  BY Zenon DEF BInv, BTypeOK, HandleBloom
<1>2. PICK y : y = Remote(d, x)
  BY Zenon
<1>3. y \in Key /\ y # x /\ chan[d][x] \in Seq(Filter) /\ chan[d][x] # <<>>
  BY <1>1, <1>2, RemoteIs DEF BTypeOK, HandleBloom
<1>4. PICK q : q = chan[d][x]
  BY Zenon
<1>5. /\ Head(q) \in Filter /\ Tail(q) \in Seq(Filter)
      /\ Tail(q) = <<>> => q[Len(q)] = Head(q)
      /\ Tail(q) # <<>> => Tail(q)[Len(Tail(q))] = q[Len(q)]
  BY <1>3, <1>4, LastOfTail, Zenon
<1>6. /\ recv' = [recv EXCEPT ![x][y] = Head(q)] /\ chan' = [chan EXCEPT ![d][x] = Tail(q)]
      /\ send' = send /\ broken' = broken /\ attached' = attached /\ x \in attached[d]
  BY <1>2, <1>4, Zenon DEF HandleBloom
<1>7. /\ recv' \in [Key -> [Key -> Filter]]
      /\ \A n, m \in Key : recv'[n][m] = IF n = x /\ m = y THEN Head(q) ELSE recv[n][m]
  BY <1>1, <1>3, <1>5, <1>6, Zenon DEF BTypeOK
<1>8. /\ chan' \in [Conn -> [Key -> Seq(Filter)]]
      /\ \A c \in Conn, n \in Key : chan'[c][n] = IF c = d /\ n = x THEN Tail(q) ELSE chan[c][n]
  BY <1>1, <1>5, <1>6, Zenon DEF BTypeOK
<1>9. BTypeOK'
  BY <1>1, <1>6, <1>7, <1>8, Zenon DEF BTypeOK
<1>10. ASSUME NEW c \in Conn \ broken, NEW n \in attached[c], Sole(c)
       PROVE  Arrives(c, n, Remote(c, n))'
  <2>1. n \in Ends[c] /\ Arrives(c, n, Remote(c, n))
    BY <1>10, Zenon DEF BInv, BTypeOK
  <2>2. PICK m : m = Remote(c, n)
    BY Zenon
  <2>3. n \in Key /\ m \in Key /\ m # n /\ Ends[c] = {n, m}
    BY <2>1, <2>2, RemoteIs, Zenon
  <2>4. CASE c = d /\ m = x
    <3>1. y = n
      BY <1>2, <1>3, <2>3, <2>4, RemoteIs, Zenon
    <3>2. q[Len(q)] = send[n][m] /\ recv'[m][n] = Head(q) /\ chan'[c][m] = Tail(q)
      BY <1>3, <1>4, <1>7, <1>8, <2>1, <2>2, <2>3, <2>4, <3>1, Zenon DEF Arrives
    <3> QED
      BY <1>5, <1>6, <2>2, <2>4, <3>2, Zenon DEF Arrives, Remote
  <2>5. CASE ~(c = d /\ m = x)
    <3>1. ~(m = x /\ n = y)
      <4> SUFFICES ASSUME m = x, n = y PROVE c = d
        BY <2>5, Zenon
      <4>1. {x, Remote(d, x)} = {n, Remote(c, n)}
        BY <1>2, <2>2, Zenon
      <4> QED
        BY <1>1, <1>10, <2>1, <4>1, SoleIs, Zenon
    <3>2. recv'[m][n] = recv[m][n] /\ chan'[c][m] = chan[c][m]
      BY <1>7, <1>8, <2>3, <2>5, <3>1, Zenon
    <3> QED
      BY <1>6, <2>1, <2>2, <3>2, Zenon DEF Arrives, Remote
  <2> QED
    BY <2>4, <2>5, Zenon
<1> QED
  BY <1>6, <1>9, <1>10, StepArrives, Zenon

\* What is forgotten of a peer: g is f but for what x has of y.
Forgot(f, g, x, y) == g = [f EXCEPT ![x][y] = {}] \/ g = f

SameBut(f, g, x, y) ==
    /\ g \in [Key -> [Key -> Filter]]
    /\ \A n, m \in Key : ~(n = x /\ m = y) => g[n][m] = f[n][m]

LEMMA ForgetIs ==
    ASSUME NEW f \in [Key -> [Key -> Filter]], NEW x \in Key, NEW y \in Key,
           NEW g, Forgot(f, g, x, y)
    PROVE  SameBut(f, g, x, y)
<1>1. CASE g = f
  BY <1>1, Zenon DEF SameBut
<1>2. CASE g = [f EXCEPT ![x][y] = {}]
  <2>1. {} \in Filter
    BY Zenon DEF Filter
  <2> QED
    BY <1>2, <2>1, Zenon DEF SameBut
<1> QED
  BY <1>1, <1>2, Zenon DEF Forgot

\* removePeer: another connection, or another pair of nodes.
LEMMA RemovePeerGood ==
    ASSUME BInv, NEW d \in Conn, NEW x \in Key, RemovePeer(d, x) PROVE BInv'
<1>1. BTypeOK /\ x \in Ends[d] /\ d \in broken /\ broken' = broken
  BY Zenon DEF BInv, BTypeOK, RemovePeer
<1>2. PICK y : y = Remote(d, x)
  BY Zenon
<1>3. y \in Key /\ y # x
  BY <1>1, <1>2, RemoteIs, Zenon
<1>4. PICK rest : rest = {e \in PeerConns(x) \ {d} : Remote(e, x) = y}
  BY Zenon
<1>5. \A e \in rest : e \in Conn /\ x \in Ends[e] /\ Remote(e, x) = y
  BY <1>1, <1>4, PeersAre, Zenon
<1>6. PICK out : out = [k \in Key |-> <<send[x][k]>>]
  BY Zenon
<1>7. out \in [Key -> Seq(Filter)]
  BY <1>1, <1>6 DEF BTypeOK
<1>8. Grown(Sending(x, rest, out), x, rest, out)
  BY <1>1, <1>5, <1>7, SendingIs, Zenon
<1>9. chan' = Sending(x, rest, out) /\ attached' = [attached EXCEPT ![d] = @ \ {x}]
  BY <1>2, <1>4, <1>6, Zenon DEF RemovePeer
<1>10. Forgot(send, send', x, y) /\ Forgot(recv, recv', x, y)
  BY <1>2, Zenon DEF RemovePeer, Forgot
<1>11. /\ send' \in [Key -> [Key -> Filter]] /\ recv' \in [Key -> [Key -> Filter]]
       /\ \A n, m \in Key : ~(n = x /\ m = y) =>
             send'[n][m] = send[n][m] /\ recv'[n][m] = recv[n][m]
  <2>1. send \in [Key -> [Key -> Filter]] /\ recv \in [Key -> [Key -> Filter]]
    BY <1>1, Zenon DEF BTypeOK
  <2>2. SameBut(send, send', x, y) /\ SameBut(recv, recv', x, y)
    BY <1>3, <1>10, <2>1, ForgetIs, Zenon
  <2> QED
    BY <2>2, Zenon DEF SameBut
<1>12. /\ attached' \in [Conn -> SUBSET Key]
       /\ \A c \in Conn : attached'[c] = IF c = d THEN attached[c] \ {x} ELSE attached[c]
  BY <1>1, <1>9, Zenon DEF BTypeOK
<1>13. BTypeOK'
  BY <1>1, <1>8, <1>9, <1>11, <1>12, Zenon DEF BTypeOK, Grown
<1>14. ASSUME NEW c \in Conn \ broken, NEW n \in attached'[c], Sole(c)
       PROVE  Arrives(c, n, Remote(c, n))'
  <2>1. n \in attached[c] /\ c # d
    BY <1>1, <1>12, Zenon
  <2>2. n \in Ends[c] /\ Arrives(c, n, Remote(c, n))
    BY <1>1, <1>14, <2>1, Zenon DEF BInv, BTypeOK
  <2>3. PICK m : m = Remote(c, n)
    BY Zenon
  <2>4. n \in Key /\ m \in Key /\ m # n /\ Ends[c] = {n, m}
    BY <2>2, <2>3, RemoteIs, Zenon
  <2>5. {x, y} # {n, m}
    BY <1>1, <1>2, <1>14, <2>1, <2>2, <2>3, SoleIs, Zenon
  <2>6. c \notin rest
    BY <1>5, <2>4, <2>5, RemoteIs
  <2>7. chan'[c][m] = chan[c][m]
    BY <1>8, <1>9, <2>4, <2>6, Zenon DEF Grown
  <2>8. send'[n][m] = send[n][m] /\ recv'[m][n] = recv[m][n]
    BY <1>11, <2>4, <2>5, Zenon
  <2>9. attached'[c] = attached[c]
    BY <1>12, <2>1, Zenon
  <2> QED
    BY <2>2, <2>3, <2>7, <2>8, <2>9, Zenon DEF Arrives, Remote
<1> QED
  BY <1>1, <1>13, <1>14, StepArrives, Zenon

\* addPeer: the filter that was sent last is sent again.
LEMMA AddPeerGood ==
    ASSUME BInv, NEW d \in Conn, NEW x \in Key, AddPeer(d, x) PROVE BInv'
<1>1. BTypeOK /\ x \in Ends[d] /\ d \notin broken
  BY Zenon DEF BInv, AddPeer
<1>2. send' = send /\ recv' = recv /\ broken' = broken
  BY Zenon DEF AddPeer, bloomVars
<1>3. PICK out : out = [k \in Key |-> <<send[x][k]>>]
  BY Zenon
<1>4. out \in [Key -> Seq(Filter)]
  BY <1>1, <1>3 DEF BTypeOK
<1>5. Grown(Sending(x, {d}, out), x, {d}, out)
  BY <1>1, <1>4, SendingIs, Zenon
<1>6. chan' = Sending(x, {d}, out) /\ attached' = [attached EXCEPT ![d] = @ \cup {x}]
  BY <1>3, Zenon DEF AddPeer
<1>7. /\ attached' \in [Conn -> SUBSET Key]
      /\ \A c \in Conn : attached'[c] = IF c = d THEN attached[c] \cup {x} ELSE attached[c]
  BY <1>1, <1>6, Zenon DEF BTypeOK
<1>8. BTypeOK'
  BY <1>1, <1>2, <1>5, <1>6, <1>7, Zenon DEF BTypeOK, Grown
<1>9. ASSUME NEW c \in Conn \ broken, NEW n \in attached'[c], Sole(c)
      PROVE  Arrives(c, n, Remote(c, n))'
  <2>1. n \in Ends[c] /\ (n \in attached[c] \/ (c = d /\ n = x))
    BY <1>1, <1>7, Zenon DEF BTypeOK
  <2>2. PICK m : m = Remote(c, n)
    BY Zenon
  <2>3. n \in Key /\ m \in Key /\ m # n /\ Ends[c] = {n, m}
    BY <2>1, <2>2, RemoteIs, Zenon
  <2>4. CASE c = d /\ n = x
    <3>1. chan[c][m] \in Seq(Filter) /\ send[n][m] \in Filter /\ out[m] = <<send[n][m]>>
      BY <1>1, <1>3, <2>3, <2>4 DEF BTypeOK
    <3>2. chan'[c][m] = chan[c][m] \o out[m]
      BY <1>1, <1>5, <1>6, <2>2, <2>4, Zenon DEF Grown
    <3>3. chan'[c][m] # <<>> /\ chan'[c][m][Len(chan'[c][m])] = send'[n][m]
      BY <1>2, <3>1, <3>2, LastOfAppend
    <3> QED
      BY <2>2, <3>3, Zenon DEF Arrives, Remote
  <2>5. CASE ~(c = d /\ n = x)
    <3>1. Arrives(c, n, Remote(c, n))
      BY <1>9, <2>1, <2>5, Zenon DEF BInv
    <3>2. c # d \/ m # Remote(c, x)
      <4> SUFFICES ASSUME c = d, m = Remote(c, x) PROVE FALSE
        BY Zenon
      <4>1. x \in {n, m} /\ Remote(c, x) # x
        BY <1>1, <2>3, RemoteIs, Zenon
      <4> QED
        BY <2>5, <4>1, Zenon
    <3>3. chan'[c][m] = chan[c][m]
      BY <1>5, <1>6, <2>3, <3>2, Zenon DEF Grown
    <3>4. attached[c] \subseteq attached'[c]
      BY <1>7, Zenon
    <3> QED
      BY <1>2, <2>2, <3>1, <3>3, <3>4, Zenon DEF Arrives, Remote
  <2> QED
    BY <2>4, <2>5, Zenon
<1> QED
  BY <1>2, <1>8, <1>9, StepArrives, Zenon

\* A connection fails: nothing is said of it until it is made again.
LEMMA BreakGood == ASSUME BInv, NEW d \in Conn, Break(d) PROVE BInv'
<1>1. /\ BTypeOK /\ send' = send /\ recv' = recv /\ attached' = attached
      /\ broken' = broken \cup {d}
  BY Zenon DEF BInv, Break, bloomVars
<1>2. PICK read \in [Ends[d] -> UNION {0..Len(chan[d][n]) : n \in Ends[d]}] :
         /\ \A n \in Ends[d] : read[n] <= Len(chan[d][n])
         /\ chan' = [chan EXCEPT ![d] =
               [n \in Key |-> IF n \in Ends[d] THEN SubSeq(@[n], 1, read[n]) ELSE <<>>]]
  BY Zenon DEF Break
<1>3. ASSUME NEW n \in Ends[d], n \in Key PROVE SubSeq(chan[d][n], 1, read[n]) \in Seq(Filter)
  <2>1. PICK o \in Ends[d] : read[n] \in 0..Len(chan[d][o])
    BY <1>2, ZenonT(40)
  <2>2. o \in Key /\ chan[d][o] \in Seq(Filter) /\ chan[d][n] \in Seq(Filter)
    <3>1. o \in Key
      BY <2>1, RemoteIs, Zenon
    <3>2. chan \in [Conn -> [Key -> Seq(Filter)]]
      BY <1>1, Zenon DEF BTypeOK
    <3> QED
      BY <1>3, <3>1, <3>2
  <2>3. read[n] \in Nat /\ read[n] <= Len(chan[d][n])
    BY <1>2, <2>1, <2>2
  <2> QED
    BY <2>2, <2>3, SMTT(30)
<1>4. /\ chan' \in [Conn -> [Key -> Seq(Filter)]]
      /\ \A c \in Conn : c # d => chan'[c] = chan[c]
  BY <1>1, <1>2, <1>3 DEF BTypeOK
<1>5. BTypeOK'
  BY <1>1, <1>4, Zenon DEF BTypeOK
<1>6. ASSUME NEW c \in Conn \ broken', NEW n \in attached'[c], Sole(c)
      PROVE  Arrives(c, n, Remote(c, n))'
  <2>1. c # d /\ Arrives(c, n, Remote(c, n))
    BY <1>1, <1>6, Zenon DEF BInv
  <2> QED
    BY <1>1, <1>4, <2>1, Zenon DEF Arrives, Remote
<1> QED
  BY <1>5, <1>6, StepArrives, Zenon

\* It is made again: nobody is attached to it yet.
LEMMA ConnectGood == ASSUME BInv, NEW d \in Conn, Connect(d) PROVE BInv'
<1>1. /\ BTypeOK /\ send' = send /\ recv' = recv /\ attached' = attached
      /\ broken' = broken \ {d} /\ attached[d] = {}
      /\ chan' = [chan EXCEPT ![d] = [n \in Key |-> <<>>]]
  BY Zenon DEF BInv, Connect, bloomVars
<1>2. /\ chan' \in [Conn -> [Key -> Seq(Filter)]]
      /\ \A c \in Conn : c # d => chan'[c] = chan[c]
  BY <1>1 DEF BTypeOK
<1>3. BTypeOK'
  BY <1>1, <1>2, Zenon DEF BTypeOK
<1>4. ASSUME NEW c \in Conn \ broken', NEW n \in attached'[c], Sole(c)
      PROVE  Arrives(c, n, Remote(c, n))'
  <2>1. c # d /\ Arrives(c, n, Remote(c, n))
    BY <1>1, <1>4, Zenon DEF BInv
  <2> QED
    BY <1>1, <1>2, <2>1, Zenon DEF Arrives, Remote
<1> QED
  BY <1>3, <1>4, StepArrives, Zenon

\* Steps of the tree, and none.
LEMMA OtherGood ==
    ASSUME BInv, UNCHANGED <<send, recv, broken, attached, chan>> PROVE BInv'
  BY StepArrives DEF BInv, BTypeOK, Arrives, Remote, Sole

\* At first, a filter that was sent has arrived, or all nodes have sent none.
LEMMA InitArrives == ASSUME Init PROVE BInv
<1>1. PICK s \in Scenarios : s = scenario
  BY Zenon DEF Init
<1>2. scenario.settled \in BOOLEAN /\ scenario.conns \subseteq Conn
  BY <1>1, BloomsAssumption, Zenon
<1>3. \A c \in Conn : Ends[c] \subseteq Key
  BY BloomsAssumption, Zenon
<1>4. /\ attached = [c \in Conn |-> IF c \in scenario.conns THEN Ends[c] ELSE {}]
      /\ broken = Conn \ scenario.conns
      /\ recv = [n \in Key |-> [m \in Key |-> IF onTree[n][m] THEN Behind(n, m) ELSE {}]]
      /\ send = [n \in Key |-> [m \in Key |-> recv[m][n]]]
      /\ onTree = [n \in Key |-> [m \in Key |-> scenario.settled /\ Neighbours(n, m)]]
      /\ chan = [c \in Conn |-> [n \in Key |->
                   IF ~scenario.settled /\ n \in attached[c] THEN <<{}>> ELSE <<>>]]
  BY Zenon DEF Init
<1>5. \A n, m \in Key : Behind(n, m) \in Filter
  BY Zenon DEF Behind, Filter
<1>6. recv \in [Key -> [Key -> Filter]]
  BY <1>4, <1>5, Zenon DEF Filter
<1>7. send \in [Key -> [Key -> Filter]] /\ \A n, m \in Key : send[n][m] = recv[m][n]
  BY <1>4, <1>6
<1>8. chan \in [Conn -> [Key -> Seq(Filter)]]
  <2>1. <<>> \in Seq(Filter) /\ <<{}>> \in Seq(Filter)
    BY DEF Filter
  <2> QED
    BY <1>4, <2>1, Zenon
<1>9. /\ attached \in [Conn -> SUBSET Key]
      /\ \A c \in Conn : attached[c] \subseteq Ends[c]
      /\ \A c \in Conn \ broken : attached[c] = Ends[c]
  BY <1>3, <1>4, Zenon
<1>10. BTypeOK
  BY <1>6, <1>7, <1>8, <1>9, Zenon DEF BTypeOK
<1>11. ASSUME NEW c \in Conn \ broken, NEW n \in attached[c] PROVE Arrives(c, n, Remote(c, n))
  <2>1. PICK m : m = Remote(c, n)
    BY Zenon
  <2>2. n \in Key /\ m \in Key /\ m \in attached[c]
    BY <1>9, <2>1, RemoteIs, Zenon
  <2>3. send[n][m] = recv[m][n]
    BY <1>7, <2>2, Zenon
  <2>4. CASE scenario.settled
    <3>1. chan[c][m] = <<>>
      BY <1>4, <2>2, <2>4, Zenon
    <3> QED
      BY <2>1, <2>2, <2>3, <3>1, Zenon DEF Arrives
  <2>5. CASE ~scenario.settled
    <3>1. chan[c][m] = <<{}>> /\ recv[m][n] = {}
      BY <1>4, <2>2, <2>5, Zenon
    <3>2. <<{}>> # <<>> /\ <<{}>>[Len(<<{}>>)] = {}
      BY Zenon
    <3> QED
      BY <2>1, <2>3, <3>1, <3>2, Zenon DEF Arrives
  <2> QED
    BY <2>4, <2>5, Zenon
<1> QED
  BY <1>10, <1>11, Zenon DEF BInv

LEMMA NextArrives == ASSUME BInv, [Next]_vars PROVE BInv'
<1>1. CASE UNCHANGED vars
  BY <1>1, OtherGood, Zenon DEF vars, bloomVars
<1>2. ASSUME NEW n \in Key, NEW m \in Key, Learn(n, m) PROVE BInv'
  BY <1>2, OtherGood, Zenon DEF Learn, bloomVars
<1>3. CASE ChangeTree
  BY <1>3, OtherGood, Zenon DEF ChangeTree, bloomVars
<1> QED
  BY <1>1, <1>2, <1>3, MaintainGood, HandleBloomGood, RemovePeerGood, AddPeerGood,
     BreakGood, ConnectGood DEF Next

-----------------------------------------------------------------------------

\* While a lookup travels, the filters and the tree take the steps that they take
\* without one.
THEOREM MulticastImplementsBlooms == MulticastSpec => Spec
<1>1. MulticastInit => Init
  BY Zenon DEF MulticastInit
<1>2. [MulticastNext]_<<vars, lookupVars>> => [Next]_vars
  BY Zenon DEF MulticastNext, SendLookup, HandleLookup
<1> QED
  BY <1>1, <1>2, PTL DEF MulticastSpec, Spec

\* However maintenances, handlers, failures and new connections interleave, the filter
\* that a node has of its peer is the last one the peer has sent (_sendBloom), once
\* all that was sent has come: both ends agree on it, as they must for _getBloomFor to
\* send what is new and nothing else.
THEOREM LastOneArrives == MulticastSpec => []LastSentArrives
<1>1. Init => BInv
  BY InitArrives, Zenon
<1>2. BInv /\ [Next]_vars => BInv'
  BY NextArrives, Zenon
<1>3. BInv => LastSentArrives
  BY Zenon DEF BInv, Arrives, LastSentArrives, Sole
<1> QED
  BY <1>1, <1>2, <1>3, MulticastImplementsBlooms, PTL DEF Spec
=============================================================================
