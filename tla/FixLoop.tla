------------------------------- MODULE FixLoop -------------------------------
(***************************************************************************)
(* The loop of _fix (network/router.go) over the responses, a Go map that  *)
(* is visited in an order of the runtime's choosing.                       *)
(***************************************************************************)
EXTENDS ParentChoice

CONSTANT Self   \* the nodes whose choice is looked at

ASSUME SelfAssumption == Self \subseteq Key

VARIABLES
    in,         \* what _fix reads: self, tbl, peers, responders, resSeq, refresh
    todo,       \* the responders the loop has yet to visit
    best        \* bestRoot and bestParent

loopVars == <<in, todo, best>>

\* Tables that differ in what a walk along parents sees.
Parents == [Key -> {NoInfo} \cup [parent : Key, seq : {1}, nonce : {0}, port : {0}]]

\* The responders' places: resSeqs after they responded in some order.
Places(responders) ==
    {[m \in Key |-> IF m \in responders THEN place[m] ELSE 0] :
       place \in {p \in [responders -> 1..Cardinality(responders)] :
                    \A a, b \in responders : p[a] = p[b] => a = b}}

\* The self info is known, and only peers respond.
LoopInit ==
    /\ \E self \in Self, tbl \in Parents, refresh \in BOOLEAN :
         \E peers \in SUBSET (Key \ {self}) : \E responders \in SUBSET peers :
         \E resSeq \in Places(responders) :
            /\ self \in Known(tbl)
            /\ in = [self |-> self, tbl |-> tbl, peers |-> peers,
                     responders |-> responders, resSeq |-> resSeq, refresh |-> refresh]
    /\ todo = in.responders
    /\ best = CurrentBest(in.self, in.tbl, in.peers)

\* The responses that are not considered: we do not know where the peer is, it
\* leads back to us, or to a worse root.
Skips(pk) ==
    \/ pk \notin Known(in.tbl)
    \/ in.self \in Visited(in.tbl, pk)
    \/ Root(in.tbl, pk) > best.root

\* Fault: the current parent is left for one that was sooner.
SoonerAlways(pk, parent) == in.resSeq[pk] < in.resSeq[parent]

\* Whether pk is taken instead of a parent that leads to the same root.
Sooner(pk, parent) ==
    /\ in.refresh \/ parent # in.tbl[in.self].parent
    /\ in.resSeq[pk] < in.resSeq[parent]

\* One pass of the loop body, on the response of pk.
Visit(pk) ==
    LET pRoot == Root(in.tbl, pk)
        first == IF pRoot < best.root THEN [root |-> pRoot, parent |-> pk] ELSE best
    IN  CASE Skips(pk) -> best
          [] ~Skips(pk) /\ Sooner(pk, first.parent) -> [root |-> pRoot, parent |-> pk]
          [] OTHER -> first

LoopNext ==
    \E pk \in todo :
       /\ best' = Visit(pk)
       /\ todo' = todo \ {pk}
       /\ UNCHANGED in

LoopSpec == LoopInit /\ [][LoopNext]_loopVars /\ WF_loopVars(LoopNext)

\* Whatever the order in which the map of responses is visited, the loop has
\* found the best choice among the responses it has seen; at its end, among all.
OrderFree ==
    best = BestParent(in.self, in.tbl, in.peers, in.responders \ todo,
                      in.resSeq, in.refresh)
=============================================================================
