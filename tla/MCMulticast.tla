----------------------------- MODULE MCMulticast -----------------------------
(* Small networks for the model checking of Blooms and Multicast. *)
EXTENDS Multicast

Triangle == [c \in Conn |-> IF c = 3 THEN {1, 3} ELSE {c, c + 1}]

Networks == {
    \* One connection, which fails and is made again; the root moves.
    [settled |-> FALSE, conns |-> {1}, trees |-> {<<1, 1, 3>>, <<2, 2, 3>>},
     lookups |-> {<<1, 2>>}, changes |-> 1, failures |-> 2],
    \* Three nodes in a line, as they settle.
    [settled |-> FALSE, conns |-> {1, 2}, trees |-> {<<1, 1, 2>>, <<2, 3, 3>>},
     lookups |-> {<<3, 1>>}, changes |-> 0, failures |-> 0],
    \* A circle, in which nodes 2 and 3 change places.
    [settled |-> TRUE, conns |-> {1, 2, 3}, trees |-> {<<1, 1, 2>>, <<1, 3, 1>>},
     lookups |-> {<<1, 3>>}, changes |-> 1, failures |-> 0]}

\* The circle has node 3 at its end before the change: the other way round is the
\* same, but for the names of 2 and 3 and for whom the lookup is.  As a constraint
\* this leaves out whole behaviours, so that it is sound for liveness, too.
StartOfCircle == scenario.settled /\ left.changes = 1 => tree = <<1, 1, 2>>
=============================================================================
