----------------------------- MODULE Forwarding -----------------------------
(***************************************************************************)
(* Greedy routing: _lookup and what it reads, and the handlers that pass a *)
(* packet on (network/router.go, network/pathfinder.go).  A packet carries *)
(* the path from the root to its destination, as it once was, and a        *)
(* watermark: the least distance to it that a node on the way had.         *)
(*                                                                         *)
(* One packet is followed.  Every node has its own view of the tree, which *)
(* changes at any time and which _lookup reads through a cache.            *)
(***************************************************************************)
EXTENDS Tree

CONSTANTS
    Trees,          \* the tables of networks that have settled
    Views,          \* the tables that nodes may have before that
    MaxChanges      \* how often a node's table changes

ASSUME ForwardingAssumption ==
    /\ Trees \cup Views \subseteq Table
    /\ MaxChanges \in Nat

VARIABLES
    peers,          \* peers[n]: the keys of n's peers
    infos,          \* infos[n]: the table of node n
    cache,          \* cache[n]: the paths that node n has cached, by key
    packet,         \* the packet
    at,             \* the node that has it
    hops,           \* how often it was passed on, since it left with a fresh watermark
    left            \* how many changes of tables there may still be

vars == <<peers, infos, cache, packet, at, hops, left>>

-----------------------------------------------------------------------------
(* _getRootAndPath and _getDist. *)

\* Fault: the path is not reversed.
PathFromNode(tbl, key) ==
    LET anc == BackwardsAncestry(tbl, key)
        len == Len(anc)
    IN  IF len > 0 /\ tbl[anc[len]].parent = anc[len]
        THEN [i \in 1..(len - 1) |-> tbl[anc[i]].port]
        ELSE <<>>

\* The ports on the way from the root to key; empty if the walk finds no root.
Path(tbl, key) ==
    LET anc == BackwardsAncestry(tbl, key)
        len == Len(anc)
    IN  IF len > 0 /\ tbl[anc[len]].parent = anc[len]
        THEN [i \in 1..(len - 1) |-> tbl[anc[len - i]].port]
        ELSE <<>>

\* How many ports two paths have in common, from the root.
Common(p, q) ==
    LET end == Least({Len(p), Len(q)})
    IN  Least({i \in 0..end : i = end \/ p[i + 1] # q[i + 1]})

Dist(p, q) == Len(p) + Len(q) - 2 * Common(p, q)

\* Node n's path to key, from the cache if it is there.
PathOf(n, key) == IF key \in DOMAIN cache[n] THEN cache[n][key] ELSE Path(infos[n], key)

\* How far the nodes that n knows as peers, and n itself, are from the end of path.
Dists(n, path) == [k \in peers[n] \cup {n} |-> Dist(path, PathOf(n, k))]

-----------------------------------------------------------------------------
(* _lookup. *)

\* Greater than any distance: the watermark of a packet that has just been sent.
MaxWatermark == 2 * Cardinality(Key)

\* Node n is closer than any node before it.
Closer(n, p) == Dist(p.path, PathOf(n, n)) < p.watermark

\* The peers closest to the end of path, if they are closer than n.
NextHops(n, path) ==
    LET dist == Dists(n, path)
    IN  {k \in peers[n] : /\ dist[k] < dist[n]
                          /\ \A j \in peers[n] : dist[k] <= dist[j]}

\* There is a next hop for packet p from node n.
CanPass(n, p) == Closer(n, p) /\ NextHops(n, p.path) # {}

\* _lookup leaves the paths it has used in the cache.
LookedUp(n, p) == {n} \cup IF Closer(n, p) THEN peers[n] ELSE {}

FillCache(n, keys) ==
    cache' = [cache EXCEPT ![n] = [k \in DOMAIN cache[n] \cup keys |-> PathOf(n, k)]]

\* Fault: the watermark stays as it was.
PassOnUnmarked(n, p, h) ==
    /\ CanPass(n, p)
    /\ at' = Least(NextHops(n, p.path))
    /\ packet' = p
    /\ hops' = h + 1

\* Send packet p to the next hop; so far it has been passed on h times.
PassOn(n, p, h) ==
    /\ CanPass(n, p)
    /\ at' = Least(NextHops(n, p.path))
    /\ packet' = [p EXCEPT !.watermark = Dist(p.path, PathOf(n, n))]
    /\ hops' = h + 1

\* Node n has no next hop for p, which becomes of the given kind.
EndAs(n, p, h, kind) ==
    /\ ~CanPass(n, p)
    /\ packet' = [p EXCEPT !.kind = kind]
    /\ hops' = h
    /\ at' = n

-----------------------------------------------------------------------------
(* handleTraffic and _handleBroken. *)

\* Fault: a pathBroken that cannot be passed on starts again.
HandleBrokenAgain(n, b, h) ==
    \/ PassOn(n, b, h)
    \/ n = b.source /\ EndAs(n, b, h, "reported")
    \/ /\ n # b.source
       /\ ~CanPass(n, b)
       /\ packet' = [b EXCEPT !.watermark = MaxWatermark]
       /\ hops' = 0
       /\ at' = n

\* _handleBroken: pass on, accept or drop a pathBroken.
HandleBroken(n, b, h) ==
    \/ PassOn(n, b, h)
    \/ n = b.source /\ EndAs(n, b, h, "reported")
    \/ n # b.source /\ EndAs(n, b, h, "dropped")

\* _doBroken: traffic that cannot be passed on comes back as a pathBroken.
BrokenFor(tr) ==
    [tr EXCEPT !.kind = "broken", !.path = tr.from, !.watermark = MaxWatermark]

HandleTraffic ==
    /\ packet.kind = "traffic"
    /\ \/ /\ \/ PassOn(at, packet, hops)
             \/ at = packet.dest /\ EndAs(at, packet, hops, "delivered")
          /\ FillCache(at, LookedUp(at, packet))
       \/ /\ at # packet.dest
          /\ ~CanPass(at, packet)
          /\ HandleBroken(at, BrokenFor(packet), 0)
          /\ FillCache(at, LookedUp(at, packet) \cup LookedUp(at, BrokenFor(packet)))
    /\ UNCHANGED <<peers, infos, left>>

HandlePathBroken ==
    /\ packet.kind = "broken"
    /\ HandleBroken(at, packet, hops)
    /\ FillCache(at, LookedUp(at, packet))
    /\ UNCHANGED <<peers, infos, left>>

Handle == HandleTraffic \/ HandlePathBroken

-----------------------------------------------------------------------------
(* The rest of the router. *)

Empty == [k \in {} |-> <<>>]

\* Fault: the cache is kept.
ChangeInfoOnly(n, k) ==
    /\ left > 0
    /\ left' = left - 1
    /\ \E info \in {view[k] : view \in Views} \cup (IF k = n THEN {} ELSE {NoInfo}) :
          /\ info # infos[n][k]
          /\ infos' = [infos EXCEPT ![n][k] = info]
    /\ UNCHANGED <<peers, cache, packet, at, hops>>

\* _update and the timers of the infos: node n learns or forgets what k's info
\* is, and resets its cache.
ChangeInfo(n, k) ==
    /\ left > 0
    /\ left' = left - 1
    /\ \E info \in {view[k] : view \in Views} \cup (IF k = n THEN {} ELSE {NoInfo}) :
          /\ info # infos[n][k]
          /\ infos' = [infos EXCEPT ![n][k] = info]
    /\ cache' = [cache EXCEPT ![n] = Empty]
    /\ UNCHANGED <<peers, packet, at, hops>>

\* _doMaintenance resets the cache too.
Maintain(n) ==
    /\ cache[n] # Empty
    /\ cache' = [cache EXCEPT ![n] = Empty]
    /\ UNCHANGED <<peers, infos, packet, at, hops, left>>

\* The peers of every node: tbl says who is whose parent, and there may be more.
PeersFor(tbl, more) ==
    [n \in Key |-> {m \in Key \ {n} : \/ tbl[n].parent = m \/ tbl[m].parent = n
                                      \/ {n, m} \in more}]

Pairs == {pair \in SUBSET Key : Cardinality(pair) = 2}

\* _handleTraffic at the source: the path is one that the destination has had, and
\* the source gives its own as the way back.
Sends(s, d, view) ==
    /\ packet = [kind |-> "traffic", path |-> Path(view, d), from |-> Path(infos[s], s),
                 source |-> s, dest |-> d, watermark |-> MaxWatermark]
    /\ at = s
    /\ hops = 0
    /\ cache = [n \in Key |-> Empty]

\* The tree has settled, and everybody knows.
SettledInit ==
    \E tbl \in Trees, more \in SUBSET Pairs, s, d \in Key :
        /\ s # d
        /\ peers = PeersFor(tbl, more)
        /\ infos = [n \in Key |-> tbl]
        /\ left = 0
        /\ Sends(s, d, tbl)

\* The nodes disagree about the tree, and the path is an old one.
UnsettledInit ==
    \E view \in Views, s, d \in Key :
        /\ s # d
        /\ peers = [n \in Key |-> Key \ {n}]
        /\ infos \in [Key -> Views]
        /\ left = MaxChanges
        /\ Sends(s, d, view)

Init == SettledInit \/ UnsettledInit

Next ==
    \/ Handle
    \/ \E n, k \in Key : ChangeInfo(n, k)
    \/ \E n \in Key : Maintain(n)

\* A node handles what it has received: weak fairness of Handle, which is enabled as
\* long as the packet travels and which alone changes the packet.
InTransit == packet.kind \in {"traffic", "broken"}

Fairness == []<>~InTransit \/ []<><<packet' # packet>>_vars

Spec == Init /\ [][Next]_vars /\ Fairness

-----------------------------------------------------------------------------

\* Every hop lowers the watermark (_lookup), so a packet is passed on a bounded
\* number of times, whatever the nodes know about the tree and whatever they learn
\* while it travels.
HopsBounded == hops + packet.watermark <= MaxWatermark

\* The cache of _getDist never differs from what _getRootAndPath would return: all
\* that changes the infos resets it.
CacheFresh ==
    \A n \in Key : \A k \in DOMAIN cache[n] : cache[n][k] = Path(infos[n], k)

\* No packet wanders forever: it is delivered, or reported as undeliverable to its
\* source, or the report is dropped.
Ends == <>(packet.kind \in {"delivered", "reported", "dropped"})

\* All nodes have the same table, whose path the packet carries, and keep it.
Settled ==
    /\ left = 0
    /\ \A n \in Key : infos[n] = infos[at] /\ infos[at][n].parent \in peers[n] \cup {n}
    /\ packet.path = Path(infos[at], packet.dest)

\* Once the tree has settled, greedy routing (handleTraffic, _lookup) finds every
\* destination, whatever the tree and whatever links there are besides it, and no
\* route is longer than the one along the tree.
Delivered ==
    Settled => <>(/\ packet.kind = "delivered"
                  /\ at = packet.dest
                  /\ hops <= Dist(packet.from, packet.path))
=============================================================================
