------------------------------- MODULE Blooms -------------------------------
(***************************************************************************)
(* The bloom filters of network/bloomfilter.go.  A node tells each of its  *)
(* neighbours in the spanning tree which keys can be reached through it,   *)
(* so that lookups are sent only where they may find their destination.    *)
(*                                                                         *)
(* A filter is the set of keys that were put into it: false positives of   *)
(* the hash functions are left out.  The tree is the router's and is given *)
(* here: in one of its maintenances every node comes to adopt its place in *)
(* it, and its peers come to learn of that, in any order.                  *)
(***************************************************************************)
EXTENDS Integers, FiniteSets, Sequences

CONSTANTS
    Key,            \* the nodes
    Conn, Ends,     \* the connections and, for each, the two nodes it joins
    None,           \* no node
    Scenarios       \* a network: whether its filters have settled, its connections,
                    \* its trees (each node's parent), the lookups of which one is sent
                    \* (from, to), how often the tree changes and a connection fails

ASSUME BloomsAssumption ==
    /\ \A c \in Conn : \E a, b \in Key : a # b /\ Ends[c] = {a, b}
    /\ None \notin Key
    /\ Scenarios \subseteq [settled : BOOLEAN, conns : SUBSET Conn,
                            trees : SUBSET [Key -> Key], lookups : SUBSET (Key \X Key),
                            changes : Nat, failures : Nat]

VARIABLES
    tree,           \* the tree that the routers are about to agree on
    parent,         \* parent[n][m]: the parent of m in n's infos, None if unknown
    send,           \* send[n][m]: the last filter that n sent to its peer m
    recv,           \* recv[n][m]: the last filter that n got from m
    onTree,         \* onTree[n][m]: n takes m for a neighbour in the tree
    zDirty,         \* zDirty[n][m]: send[n][m] may have keys it need not have
    broken,         \* the connections that are not there, or have failed
    attached,       \* attached[c]: the ends whose router has c among its peers
    chan,           \* chan[c][n]: the filters on their way to n over c
    scenario,       \* one of Scenarios: its connections are made, again if they fail
    left            \* how many changes and failures there may still be

bloomVars == <<send, recv, onTree, zDirty>>
vars == <<tree, parent, bloomVars, broken, attached, chan, scenario, left>>

Remote(c, n) == CHOOSE m \in Ends[c] : m # n
PeerConns(n) == {c \in Conn : n \in attached[c]}
Peers(n) == {Remote(c, n) : c \in PeerConns(n)}

\* chan after n sends out[m] to each peer m, over every connection in cs; what is
\* sent over a connection that has failed is lost.
Sending(n, cs, out) ==
    [c \in Conn |-> IF c \in cs \ broken
                    THEN [chan[c] EXCEPT ![Remote(c, n)] = @ \o out[Remote(c, n)]]
                    ELSE chan[c]]

-----------------------------------------------------------------------------
(* The router's _doMaintenance: _fix, then the filters'.  known is         *)
(* parent[n] after _fix.                                                   *)

\* Fault: children are not looked at.
IsParent(known, n, m) == known[n] = m

\* _fixOnTree: m is n's parent or, as far as n knows, its child.
IsOnTree(known, n, m) == known[n] = m \/ known[m] = n

\* _getBloomFor, before it keeps old keys: n's own key, and what its other
\* neighbours can reach.
Reachable(known, n, m) ==
    {n} \cup UNION {recv[n][k] : k \in {j \in Peers(n) \ {m} : IsOnTree(known, n, j)}}

\* _getBloomFor: old keys are kept, unless zDirty says it was done before.
BloomFor(known, n, m) ==
    IF zDirty[n][m] THEN Reachable(known, n, m) ELSE Reachable(known, n, m) \cup send[n][m]

\* m and the ancestors of m that n knows of.
Ancestry(n, m) ==
    LET up[i \in 0..Cardinality(Key)] ==
            IF i = 0 THEN {m}
            ELSE up[i - 1] \cup {parent[n][k] : k \in up[i - 1] \ {None}}
    IN  up[Cardinality(Key)]

\* _fix may choose n's place in the tree: not below a node that n does not know, or
\* knows to be below n.
MayAdopt(n) ==
    /\ parent[n][n] # tree[n]
    /\ tree[n] # n => parent[n][tree[n]] # None /\ n \notin Ancestry(n, tree[n])

Choices(n) == {parent[n][n]} \cup {p \in {tree[n]} : MayAdopt(n)}

\* Whether a maintenance of node n would change anything.
MaintainDue(n) ==
    \/ MayAdopt(n)
    \/ \E m \in Peers(n) :
          \/ onTree[n][m] # IsOnTree(parent[n], n, m)
          \/ IsOnTree(parent[n], n, m) /\ BloomFor(parent[n], n, m) # send[n][m]

\* _fix may change n's parent.  Then _fixOnTree and _sendAllBlooms: neighbours get
\* what is new for them, and those that no longer are neighbours an empty filter.
Maintain(n) ==
    \E known \in {[parent[n] EXCEPT ![n] = p] : p \in Choices(n)} :
    LET dropped == {m \in Peers(n) : onTree[n][m] /\ ~IsOnTree(known, n, m)}
        new == {m \in Peers(n) : IsOnTree(known, n, m) /\ BloomFor(known, n, m) # send[n][m]}
        Bloom(m) == IF m \in dropped THEN {} ELSE BloomFor(known, n, m)
    IN  /\ parent' = [parent EXCEPT ![n] = known]
        /\ onTree' = [onTree EXCEPT ![n] =
                        [m \in Key |-> m \in Peers(n) /\ IsOnTree(known, n, m)]]
        /\ send' = [send EXCEPT ![n] =
                      [m \in Key |-> IF m \in new \cup dropped THEN Bloom(m) ELSE @[m]]]
        /\ zDirty' = [zDirty EXCEPT ![n] =
                        [m \in Key |-> @[m] \/ (m \in new /\ Bloom(m) # Reachable(known, n, m))]]
        /\ chan' = Sending(n, PeerConns(n),
                     [m \in Key |-> IF m \in new \cup dropped THEN <<Bloom(m)>> ELSE <<>>])
        /\ UNCHANGED <<tree, recv, broken, attached, scenario, left>>

\* Fault: the new filter is added to the old one.
HandleBloomMerges(c, n) ==
    /\ n \in attached[c]
    /\ chan[c][n] # <<>>
    /\ recv' = [recv EXCEPT ![n][Remote(c, n)] = @ \cup Head(chan[c][n])]
    /\ chan' = [chan EXCEPT ![c][n] = Tail(@)]
    /\ UNCHANGED <<tree, parent, send, onTree, zDirty, broken, attached, scenario, left>>

\* _handleBloom.
HandleBloom(c, n) ==
    /\ n \in attached[c]
    /\ chan[c][n] # <<>>
    /\ recv' = [recv EXCEPT ![n][Remote(c, n)] = Head(chan[c][n])]
    /\ chan' = [chan EXCEPT ![c][n] = Tail(@)]
    /\ UNCHANGED <<tree, parent, send, onTree, zDirty, broken, attached, scenario, left>>

-----------------------------------------------------------------------------
(* The router: peers come and go, the tree changes. *)

\* removePeer, once the handler has passed on all it could read: _removeInfo with
\* the last connection, or _sendBloom over those that remain.
RemovePeer(c, n) ==
    /\ c \in broken
    /\ n \in attached[c]
    /\ chan[c][n] = <<>>
    /\ attached' = [attached EXCEPT ![c] = @ \ {n}]
    /\ LET m == Remote(c, n)
           rest == {d \in PeerConns(n) \ {c} : Remote(d, n) = m}
           ForgetIfLast(f, value) == IF rest = {} THEN [f EXCEPT ![n][m] = value] ELSE f
       IN  /\ send' = ForgetIfLast(send, {})
           /\ recv' = ForgetIfLast(recv, {})
           /\ onTree' = ForgetIfLast(onTree, FALSE)
           /\ zDirty' = ForgetIfLast(zDirty, FALSE)
           /\ chan' = Sending(n, rest, [k \in Key |-> <<send[n][k]>>])
    /\ UNCHANGED <<tree, parent, broken, scenario, left>>

\* addPeer, over a new connection: _addInfo has nothing to add that _removeInfo
\* has not left; then _sendBloom.
AddPeer(c, n) ==
    /\ c \notin broken
    /\ n \in Ends[c] \ attached[c]
    /\ attached' = [attached EXCEPT ![c] = @ \cup {n}]
    /\ chan' = Sending(n, {c}, [k \in Key |-> <<send[n][k]>>])
    /\ UNCHANGED <<tree, parent, bloomVars, broken, scenario, left>>

\* A connection fails, perhaps before both ends have added it: each end still reads
\* some of what was sent to it.
Break(c) ==
    /\ left.failures > 0
    /\ left' = [left EXCEPT !.failures = @ - 1]
    /\ c \notin broken
    /\ attached[c] # {}
    /\ broken' = broken \cup {c}
    /\ \E read \in [Ends[c] -> UNION {0..Len(chan[c][n]) : n \in Ends[c]}] :
          /\ \A n \in Ends[c] : read[n] <= Len(chan[c][n])
          /\ chan' = [chan EXCEPT ![c] =
                [n \in Key |-> IF n \in Ends[c] THEN SubSeq(@[n], 1, read[n]) ELSE <<>>]]
    /\ UNCHANGED <<tree, parent, bloomVars, attached, scenario>>

\* Node n has yet to add the peer of connection c, or to remove it.
PeerDue(c, n) ==
    IF c \in broken THEN n \in attached[c] /\ chan[c][n] = <<>>
                    ELSE n \in Ends[c] \ attached[c]

\* It is made again once both ends have noticed, if they had added it.
Connect(c) ==
    /\ c \in scenario.conns \cap broken
    /\ attached[c] = {}
    /\ broken' = broken \ {c}
    /\ chan' = [chan EXCEPT ![c] = [n \in Key |-> <<>>]]
    /\ UNCHANGED <<tree, parent, bloomVars, attached, scenario, left>>

ChangeTree ==
    /\ left.changes > 0
    /\ left' = [left EXCEPT !.changes = @ - 1]
    /\ tree' \in scenario.trees \ {tree}
    /\ UNCHANGED <<parent, bloomVars, broken, attached, chan, scenario>>

\* n learns of the place of its peer m.
LearnDue(n, m) == m \in Peers(n) /\ parent[n][m] # parent[m][m]

Learn(n, m) ==
    /\ LearnDue(n, m)
    /\ parent' = [parent EXCEPT ![n][m] = parent[m][m]]
    /\ UNCHANGED <<tree, bloomVars, broken, attached, chan, scenario, left>>

-----------------------------------------------------------------------------

Up(n, m) == \E c \in Conn \ broken : Ends[c] = {n, m} /\ attached[c] = {n, m}

Neighbours(n, m) == Up(n, m) /\ (tree[n] = m \/ tree[m] = n)

\* The nodes on m's side of the link between the neighbours n and m: those in
\* every set that has m and what is linked to it without that link.
Behind(n, m) ==
    LET Closed(S) == \A j \in S, k \in Key :
                        Neighbours(j, k) /\ {j, k} # {n, m} => k \in S
    IN  {k \in Key : \A S \in SUBSET Key : m \in S /\ Closed(S) => k \in S}

\* Every node is root and has yet to learn of its peers' infos; or the nodes have
\* agreed on the tree, and their filters are right.
Init ==
    /\ scenario \in Scenarios
    /\ tree \in scenario.trees
    /\ left = [changes |-> scenario.changes, failures |-> scenario.failures]
    /\ broken = Conn \ scenario.conns
    /\ attached = [c \in Conn |-> IF c \in scenario.conns THEN Ends[c] ELSE {}]
    /\ parent = [n \in Key |-> [m \in Key |->
                   IF scenario.settled /\ m \in Peers(n) \cup {n} THEN tree[m]
                   ELSE IF m = n THEN n ELSE None]]
    /\ onTree = [n \in Key |-> [m \in Key |-> scenario.settled /\ Neighbours(n, m)]]
    /\ recv = [n \in Key |-> [m \in Key |-> IF onTree[n][m] THEN Behind(n, m) ELSE {}]]
    /\ send = [n \in Key |-> [m \in Key |-> recv[m][n]]]
    /\ zDirty = [n \in Key |-> [m \in Key |-> FALSE]]
    /\ chan = [c \in Conn |->
                 [n \in Key |-> IF ~scenario.settled /\ n \in attached[c] THEN <<{}>> ELSE <<>>]]

Next ==
    \/ \E n \in Key : Maintain(n)
    \/ \E c \in Conn, n \in Key : HandleBloom(c, n) \/ RemovePeer(c, n) \/ AddPeer(c, n)
    \/ \E c \in Conn : Break(c) \/ Connect(c)
    \/ \E n, m \in Key : Learn(n, m)
    \/ ChangeTree

Spec == Init /\ [][Next]_vars

\* Maintenance is timed, handlers and readers keep running, and the routers settle
\* on the tree.  A maintenance that adopts leaves nothing to do for the next, or
\* sets zDirty, which stays set, a message that is handled is gone, and so on: the
\* conjuncts are weak fairness of the actions.  A connection that has failed need
\* not be made again.
Fairness ==
    /\ \A n \in Key : []<>~MaintainDue(n)
    /\ \A c \in Conn, n \in Key : []<>(n \notin attached[c] \/ chan[c][n] = <<>>)
    /\ \A n, m \in Key : []<>~LearnDue(n, m)
    /\ \A c \in Conn, n \in Key : []<>~PeerDue(c, n)

-----------------------------------------------------------------------------

\* A lookup finds its destination: in the end, a node's filters have every key
\* that can be reached through the neighbour they came from.
Complete ==
    <>[](\A n, m \in Key : Neighbours(n, m) => Behind(n, m) \subseteq recv[n][m])

\* Between two nodes that only connection c joins, what was sent last arrives last.
LastSentArrives ==
    \A c \in Conn \ broken : \A n \in attached[c] :
        LET m == Remote(c, n)
            onWay == chan[c][m]
        IN  m \in attached[c] /\ (\A d \in Conn : Ends[d] = Ends[c] => d = c) =>
              send[n][m] = IF onWay = <<>> THEN recv[m][n] ELSE onWay[Len(onWay)]
=============================================================================
