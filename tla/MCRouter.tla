------------------------------ MODULE MCRouter ------------------------------
(* Small networks for the model checking of Router and Restart. *)
EXTENDS Restart, TLC

\* Connections c1 and c2 join nodes 1 and 2; connection c3 leads on to node 3.
CONSTANTS c1, c2, c3

Joins == [c \in Conn |-> IF c = c3 THEN {2, 3} ELSE {1, 2}]

\* The two parallel connections can be told apart by nothing but their names.
Parallel == Permutations({c1, c2})

\* Each node gives its peer m the port m.
KeyPorts == [n \in Key |-> [m \in Key |-> m]]

Scenario(conns, connect, break, expire, refr, restart) ==
    [conns |-> conns,
     events |-> [connect |-> connect, break |-> break, expire |-> expire,
                 refresh |-> refr, restart |-> restart]]

\* Parallel connections, one of which fails and may be made again; a connection that
\* fails and may be made again while an info expires or a self info is renewed.
Failing == {Scenario({c1, c2}, 3, 1, 0, 0, 0),
            Scenario({c1}, 2, 1, 1, 0, 0),
            Scenario({c1}, 2, 1, 0, 1, 0)}

\* The messages on their way over parallel connections, in all streams together.
MaxWritten == 4
Short ==
    LET written(c) == Len(chan[c][1]) + Len(chan[c][2])
    IN  scenario.conns = {c1, c2} => written(c1) + written(c2) <= MaxWritten

\* A line of three nodes; a connection that fails while a self info is renewed; one
\* that fails and may be made again while nodes restart.
Changing == {Scenario({c1, c3}, 2, 0, 0, 0, 0),
             Scenario({c1}, 1, 1, 0, 1, 0),
             Scenario({c1}, 2, 1, 0, 0, 2)}
=============================================================================
