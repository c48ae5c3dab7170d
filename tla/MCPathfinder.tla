---------------------------- MODULE MCPathfinder ----------------------------
(* Small networks for the model checking of Pathfinder. *)
EXTENDS Pathfinder

\* All keys but Self have the same transformed key.
Shared == [k \in Key |-> IF k = Self THEN Self ELSE 1]

Scenario(ns, move, tick, lose, late, ask) ==
    [nodes |-> ns,
     events |-> [move |-> move, tick |-> tick, lose |-> lose, late |-> late, ask |-> ask]]

\* A destination that moves, one whose messages are lost or late, two that share a
\* transformed key, and Self.
SomeScenarios ==
    {Scenario({1}, 1, 1, 0, 0, 0), Scenario({1}, 0, 0, 1, 1, 1),
     Scenario({1, 2}, 0, 0, 0, 0, 0), Scenario({Self}, 1, 0, 0, 0, 1)}
=============================================================================
