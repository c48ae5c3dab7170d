-------------------------------- MODULE Tree --------------------------------
(***************************************************************************)
(* What a router reads out of its table of infos (network/router.go): the  *)
(* order that decides which of two infos about a node is kept, and the     *)
(* walks along parents from which roots, ancestries and announcements are  *)
(* computed.                                                               *)
(*                                                                         *)
(* A table is a function from keys to infos.  A key the Go map lacks is    *)
(* mapped to NoInfo, the zero value that indexing the map returns.  Public *)
(* keys are positive numbers: publicKey.less is a strict total order, and  *)
(* 0 stands for the all-zero key of a zero value.                          *)
(***************************************************************************)
EXTENDS Integers, FiniteSets, Sequences, Functions

CONSTANT Key            \* the nodes' public keys

\* Keys are finitely many positive numbers, compared with < .
ASSUME KeyAssumption == IsFiniteSet(Key) /\ Key \subseteq Nat \ {0}

-----------------------------------------------------------------------------

\* routerSigReq, routerSigRes and routerInfo, without the signatures: every
\* message of the model comes from a node that follows the protocol.
Pos == Nat \ {0}

SigReq == [seq : Pos, nonce : Nat]
SigRes == [seq : Pos, nonce : Nat, port : Nat]
Info == [parent : Key, seq : Pos, nonce : Nat, port : Nat]

NoReq == [seq |-> 0, nonce |-> 0]
NoRes == [seq |-> 0, nonce |-> 0, port |-> 0]
NoInfo == [parent |-> 0, seq |-> 0, nonce |-> 0, port |-> 0]

Table == [Key -> Info \cup {NoInfo}]

Known(tbl) == {k \in Key : tbl[k] # NoInfo}

\* The switch in _update: a higher seq, then a lower parent, then a lower nonce.
Better(new, old) ==
    \/ new.seq > old.seq
    \/ /\ new.seq = old.seq
       /\ \/ new.parent < old.parent
          \/ new.parent = old.parent /\ new.nonce < old.nonce

\* Fault: what is known is never replaced.
AcceptsUnknownOnly(tbl, k, info) == k \notin Known(tbl)

\* Whether _update takes info as what the table says about key k.
Accepts(tbl, k, info) == k \notin Known(tbl) \/ Better(info, tbl[k])

-----------------------------------------------------------------------------

Least(S) == CHOOSE x \in S : \A y \in S : x <= y

\* The nodes on the way from key along parents, after so many steps.
Steps == 0..Cardinality(Key)

Walk(tbl, key) ==
    LET parent == [k \in Key \cup {0} |-> IF k = 0 THEN 0 ELSE tbl[k].parent]
        walk[i \in Steps] == IF i = 0 THEN key ELSE parent[walk[i-1]]
    IN  [i \in Steps |-> walk[i]]

\* _backwardsAncestry: the walk up to the first node that is unknown or already
\* visited.
BackwardsAncestry(tbl, key) ==
    LET here == Walk(tbl, key)
        Stops(i) == here[i] \notin Known(tbl) \/ \E j \in 0..i-1 : here[j] = here[i]
        len == CHOOSE i \in Steps : Stops(i) /\ \A j \in 0..i-1 : ~Stops(j)
    IN  [i \in 1..len |-> here[i-1]]

\* _getAncestry: the same nodes, the root's end first.
Ancestry(tbl, key) ==
    LET anc == BackwardsAncestry(tbl, key)
    IN  [i \in 1..Len(anc) |-> anc[Len(anc) - i + 1]]

\* _getRootAndDists: the last node the walk visits (the zero key if it visits
\* none), and the nodes that get a distance.
Root(tbl, key) ==
    LET anc == BackwardsAncestry(tbl, key)
    IN  IF anc = <<>> THEN 0 ELSE anc[Len(anc)]

Visited(tbl, key) == Range(BackwardsAncestry(tbl, key))
=============================================================================
