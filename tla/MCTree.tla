------------------------------- MODULE MCTree -------------------------------
(***************************************************************************)
(* Tables for the model checking of FixLoop and Forwarding: either a node  *)
(* chooses its parent, or a packet is on its way.                          *)
(***************************************************************************)
EXTENDS FixLoop, Forwarding

\* The table in which the parents are these.  Every node gives its child n the port n.
TableOf(parent) ==
    [n \in Key |-> [parent |-> parent[n], seq |-> 1, nonce |-> 0,
                    port |-> IF parent[n] = n THEN 0 ELSE n]]

\* All spanning trees a settled network can have: _fix makes the least key the root.
IsTree(tbl) == \A n \in Key : Root(tbl, n) = Least(Key)

AllTrees == {tbl \in {TableOf(parent) : parent \in [Key -> Key]} : IsTree(tbl)}

\* Two trees that differ in their root and in who is close to whom.
SomeTrees == {TableOf(parent) : parent \in {<<1, 1, 2, 3>>, <<2, 2, 1, 1>>}}

\* A node that is alone has no response to visit.
NoLoop ==
    /\ \E self \in {Least(Self)} :
          in = [self |-> self, tbl |-> TableOf([n \in Key |-> n]), peers |-> {},
                responders |-> {}, resSeq |-> [m \in Key |-> 0], refresh |-> FALSE]
    /\ todo = {}
    /\ best = CurrentBest(in.self, in.tbl, in.peers)

\* A packet has been delivered in a network where nothing changes any more.
NoPacket ==
    \E tbl \in {TableOf([n \in Key |-> n])}, n \in {Least(Key)} :
        /\ peers = [m \in Key |-> {}]
        /\ infos = [m \in Key |-> tbl]
        /\ left = 0
        /\ at = n
        /\ hops = 0
        /\ cache = [m \in Key |-> Empty]
        /\ packet = [kind |-> "delivered", path |-> <<>>, from |-> <<>>,
                     source |-> n, dest |-> n, watermark |-> MaxWatermark]

TreeSpec ==
    /\ (LoopInit /\ NoPacket) \/ (Init /\ NoLoop)
    /\ [][(LoopNext /\ UNCHANGED vars) \/ (Next /\ UNCHANGED loopVars)]_<<vars, loopVars>>
    /\ Fairness
=============================================================================
