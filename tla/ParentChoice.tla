---------------------------- MODULE ParentChoice ----------------------------
(***************************************************************************)
(* The choice of a parent: the first part of _fix (network/router.go).     *)
(* BestParent states which parent the code's loop chooses, without the     *)
(* order in which it visits the responses; FixLoop is the loop.            *)
(***************************************************************************)
EXTENDS Tree

\* Fault: the current parent is forgotten.
CurrentBestIsSelf(self, tbl, peers) == [root |-> self, parent |-> self]

\* The root that the parent of node self leads to, when that is a peer and the
\* root is a better one than self.
CurrentBest(self, tbl, peers) ==
    IF tbl[self].parent \in peers /\ Root(tbl, self) < self
    THEN [root |-> Root(tbl, self), parent |-> tbl[self].parent]
    ELSE [root |-> self, parent |-> self]

\* The responders that may become the parent: we know where they are, and they
\* do not lead back to us.
Candidates(self, tbl, responders) ==
    {m \in responders \cap Known(tbl) : self \notin Visited(tbl, m)}

\* The best of all roots; among the peers that lead to it the current parent,
\* unless it does not or it is time to refresh; then the one that was first to
\* respond (a parent that has not responded counts as first).
BestParent(self, tbl, peers, responders, resSeq, refresh) ==
    LET cur == CurrentBest(self, tbl, peers)
        cands == Candidates(self, tbl, responders)
        root == Least({cur.root} \cup {Root(tbl, m) : m \in cands})
        leading == {m \in cands : Root(tbl, m) = root}
        First(S) == CHOOSE m \in S : \A o \in S : resSeq[m] <= resSeq[o]
    IN  [root |-> root,
         parent |-> CASE root # cur.root -> First(leading)
                      [] root = cur.root /\ refresh -> First(leading \cup {cur.parent})
                      [] OTHER -> cur.parent]
=============================================================================
