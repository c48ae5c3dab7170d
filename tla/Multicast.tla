----------------------------- MODULE Multicast -----------------------------
(***************************************************************************)
(* A lookup, sent along the filters of Blooms (_sendMulticast) from node   *)
(* to node (handleLookup), while the tree and the filters change.          *)
(***************************************************************************)
EXTENDS Blooms

VARIABLES
    dest,           \* the node that the lookup is for; None, before it is sent
    copies          \* [from, to, seen]: a copy is on its way from a node to its peer; seen
                    \* are the nodes it has been at, which only NoCircle looks at

lookupVars == <<dest, copies>>

\* Fault: the lookup goes back to where it came from, too.
OnwardAndBack(n, from, key) ==
    {k \in Peers(n) : onTree[n][k] /\ (k = from \/ key \in recv[n][k])}

\* _sendMulticast: the neighbours that get the lookup next.
Onward(n, from, key) == {k \in Peers(n) \ {from} : onTree[n][k] /\ key \in recv[n][k]}

\* The copies that node n sends onward.
Sent(n, from, key, seen) ==
    {[from |-> n, to |-> k, seen |-> seen \cup {n}] : k \in Onward(n, from, key)}

\* What is on its way over a connection that fails is lost.
Linked(p) == \E c \in Conn \ broken : Ends[c] = {p.from, p.to}

\* _sendLookup.
SendLookup(n) ==
    /\ dest = None
    /\ \E l \in scenario.lookups : l[1] = n /\ dest' = l[2]
    /\ copies' = Sent(n, n, dest', {})
    /\ UNCHANGED vars

\* handleLookup, of the copy p: it goes on if it came from a neighbour.
HandleLookup(p) ==
    /\ copies' = (copies \ {p}) \cup
         IF p.from \in Peers(p.to) /\ onTree[p.to][p.from]
         THEN Sent(p.to, p.from, dest, p.seen) ELSE {}
    /\ UNCHANGED <<vars, dest>>

MulticastInit == Init /\ dest = None /\ copies = {}

MulticastNext ==
    \/ Next /\ UNCHANGED dest /\ copies' = {p \in copies : Linked(p)'}
    \/ \E n \in Key : SendLookup(n)
    \/ \E p \in copies : HandleLookup(p)

\* A queue passes its packets on: no copy stays in it.
MulticastSpec ==
    /\ MulticastInit /\ [][MulticastNext]_<<vars, lookupVars>>
    /\ Fairness
    /\ \A n, m \in Key : []<>(\A p \in copies : p.from # n \/ p.to # m)

-----------------------------------------------------------------------------

\* A lookup does not loop, not even while the nodes' views of the tree differ, as the
\* comment in _sendMulticast wants it: no copy comes to a node it has been at.
NoCircle == \A p \in copies : p.to \notin p.seen

\* A copy may go around a circle (NoCircle does not hold), but not for ever: however
\* the tree changes while a lookup is on its way, it ends.
LookupEnds == []<>(copies = {})
=============================================================================
