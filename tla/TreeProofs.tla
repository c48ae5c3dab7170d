----------------------------- MODULE TreeProofs -----------------------------
(***************************************************************************)
(* Proofs about what is made of the table of infos: the choice of a parent *)
(* (FixLoop) and greedy routing (Forwarding), for any nodes and any        *)
(* tables.  The loop of _fix finds the same parent in every order in which *)
(* it may visit the responses; the cache of _getDist is never stale; and a *)
(* packet is passed on a bounded number of times, whatever the nodes know  *)
(* about the tree.                                                         *)
(***************************************************************************)
EXTENDS FixLoop, Forwarding, TLAPS

-----------------------------------------------------------------------------
(* What the proofs need to know of the operators; proved below. *)

\* The least of a set of numbers is there.
LeastFits ==
    \A S \in SUBSET Nat : S # {} => Least(S) \in S /\ \A x \in S : Least(S) <= x

\* A path is a sequence of ports.
PathFits == \A tbl \in Table, k \in Key : Path(tbl, k) \in Seq(Nat)

\* Keys can be counted.
KeysFit == \A S \in SUBSET Key : Cardinality(S) \in Nat

\* A root is a key, or 0.
RootFits == \A tbl \in Table, k \in Key : Root(tbl, k) \in Nat

\* A node and its parent have the same root, unless the parent's walk comes back.
ParentFits ==
    \A tbl \in Table : \A k \in Known(tbl) :
       LET p == tbl[k].parent
       IN  p \in Known(tbl) /\ k \notin Visited(tbl, p) => Root(tbl, k) = Root(tbl, p)

\* A distance is a number.
DistFits == \A p, q \in Seq(Nat) : Dist(p, q) \in Nat

-----------------------------------------------------------------------------
(* Greedy routing: the inductive invariant and the steps. *)

PacketFields == {"kind", "path", "from", "source", "dest", "watermark"}

PacketOK(p) ==
    /\ DOMAIN p = PacketFields
    /\ p.path \in Seq(Nat) /\ p.from \in Seq(Nat)
    /\ p.watermark \in Nat

FTypeOK ==
    /\ peers \in [Key -> SUBSET Key]
    /\ infos \in [Key -> Table]
    /\ cache = [n \in Key |-> cache[n]]
    /\ PacketOK(packet)
    /\ at \in Key
    /\ hops \in Nat

FInv == FTypeOK /\ HopsBounded /\ CacheFresh

\* A cache that is fresh does not change what PathOf returns.
LEMMA PathOfFresh ==
    ASSUME CacheFresh, NEW n \in Key, NEW k
    PROVE  PathOf(n, k) = Path(infos[n], k)
  BY DEF CacheFresh, PathOf

\* _lookup fills the cache of its node with what _getRootAndPath returns.
LEMMA FillCacheFresh ==
    ASSUME FInv, NEW n \in Key, NEW keys, FillCache(n, keys), infos' = infos
    PROVE  cache' = [m \in Key |-> cache'[m]] /\ CacheFresh'
<1> DEFINE new == [k \in DOMAIN cache[n] \cup keys |-> PathOf(n, k)]
<1>1. \A k \in DOMAIN new : new[k] = Path(infos[n], k)
  BY PathOfFresh DEF FInv
<1>2. cache' = [cache EXCEPT ![n] = new] /\ cache = [m \in Key |-> cache[m]]
  BY DEF FillCache, FInv, FTypeOK
<1> HIDE DEF new
<1>3. /\ cache' = [m \in Key |-> cache'[m]]
      /\ \A m \in Key : cache'[m] = IF m = n THEN new ELSE cache[m]
  BY <1>2
<1>4. \A m \in Key : \A k \in DOMAIN cache'[m] : cache'[m][k] = Path(infos[m], k)
  BY <1>1, <1>3 DEF FInv, CacheFresh
<1> QED
  BY <1>3, <1>4 DEF CacheFresh

\* The distance of a node is a number.
LEMMA OwnDist ==
    ASSUME FInv, PathFits, DistFits, NEW n \in Key, NEW p, PacketOK(p)
    PROVE  Dist(p.path, PathOf(n, n)) \in Nat
<1>1. PathOf(n, n) = Path(infos[n], n) /\ infos[n] \in Table
  BY PathOfFresh DEF FInv, FTypeOK
<1> QED
  BY <1>1 DEF PathFits, DistFits, PacketOK

\* The packet, wherever it is, satisfies the invariant.
Fits(p, h, n) ==
    PacketOK(p) /\ h \in Nat /\ h + p.watermark <= MaxWatermark /\ n \in Key

\* A hop lowers the watermark.
LEMMA PassOnFits ==
    ASSUME FInv, LeastFits, PathFits, DistFits, MaxWatermark \in Nat,
           NEW n, NEW p, NEW h, Fits(p, h, n), PassOn(n, p, h)
    PROVE  Fits(packet', hops', at')
<1> DEFINE d == Dist(p.path, PathOf(n, n))
<1>1. d \in Nat /\ d < p.watermark
  BY OwnDist DEF PassOn, CanPass, Closer, Fits
<1>2. packet' = [p EXCEPT !.watermark = d] /\ hops' = h + 1
  BY DEF PassOn
<1> HIDE DEF d
<1>3. PacketOK(packet') /\ packet'.watermark = d
  BY <1>1, <1>2 DEF Fits, PacketOK, PacketFields
<1>4. at' \in Key
  <2>1. NextHops(n, p.path) # {} /\ NextHops(n, p.path) \subseteq peers[n]
    BY DEF PassOn, CanPass, NextHops
  <2>2. NextHops(n, p.path) \in SUBSET Key /\ Key \subseteq Nat
    BY <2>1, KeyAssumption DEF FInv, FTypeOK, Fits
  <2>3. at' = Least(NextHops(n, p.path))
    BY DEF PassOn
  <2> QED
    BY <2>1, <2>2, <2>3 DEF LeastFits
<1> QED
  BY <1>1, <1>2, <1>3, <1>4 DEF Fits, PacketOK

\* A packet that cannot be passed on keeps its watermark.
LEMMA EndAsFits ==
    ASSUME NEW n, NEW p, NEW h, NEW kind, Fits(p, h, n), EndAs(n, p, h, kind)
    PROVE  Fits(packet', hops', at')
<1>1. packet' = [p EXCEPT !.kind = kind] /\ hops' = h /\ at' = n
  BY DEF EndAs
<1>2. PacketOK(packet') /\ packet'.watermark = p.watermark
  BY <1>1 DEF Fits, PacketOK, PacketFields
<1> QED
  BY <1>1, <1>2 DEF Fits

\* _handleBroken.
LEMMA HandleBrokenFits ==
    ASSUME FInv, LeastFits, PathFits, DistFits, MaxWatermark \in Nat,
           NEW n, NEW b, NEW h, Fits(b, h, n), HandleBroken(n, b, h)
    PROVE  Fits(packet', hops', at')
  BY PassOnFits, EndAsFits DEF HandleBroken

\* handleTraffic and the handler of a pathBroken.
LEMMA HandleInv ==
    ASSUME FInv, LeastFits, PathFits, DistFits, MaxWatermark \in Nat, Handle
    PROVE  FInv'
<1>1. Fits(packet, hops, at) /\ at \in Key
  BY DEF FInv, FTypeOK, HopsBounded, Fits
<1>2. Fits(BrokenFor(packet), 0, at)
  BY <1>1 DEF Fits, BrokenFor, PacketOK, PacketFields
<1>3. Fits(packet', hops', at')
  BY <1>1, <1>2, PassOnFits, EndAsFits, HandleBrokenFits
     DEF Handle, HandleTraffic, HandlePathBroken
<1>4. peers' = peers /\ infos' = infos /\ \E keys : FillCache(at, keys)
  BY DEF Handle, HandleTraffic, HandlePathBroken
<1>5. cache' = [m \in Key |-> cache'[m]] /\ CacheFresh'
  BY <1>1, <1>4, FillCacheFresh
<1> QED
  BY <1>3, <1>4, <1>5 DEF FInv, FTypeOK, HopsBounded, Fits

\* A change of a table resets the cache of its node.
LEMMA ChangeInfoInv == ASSUME FInv, NEW n \in Key, NEW k \in Key, ChangeInfo(n, k) PROVE FInv'
<1>1. PICK info \in Info \cup {NoInfo} : infos' = [infos EXCEPT ![n][k] = info]
  <2>1. \A view \in Views : view[k] \in Info \cup {NoInfo}
    BY ForwardingAssumption DEF Table
  <2>2. \E info \in {view[k] : view \in Views} \cup {NoInfo} : infos' = [infos EXCEPT ![n][k] = info]
    BY Zenon DEF ChangeInfo
  <2> QED
    BY <2>1, <2>2, Zenon
<1>2. infos' \in [Key -> Table] /\ \A m \in Key \ {n} : infos'[m] = infos[m]
  BY <1>1 DEF FInv, FTypeOK, Table
<1>3. /\ cache' = [m \in Key |-> cache'[m]]
      /\ \A m \in Key : cache'[m] = IF m = n THEN Empty ELSE cache[m]
  BY DEF ChangeInfo, FInv, FTypeOK
<1>4. CacheFresh'
  BY <1>2, <1>3 DEF FInv, CacheFresh, Empty
<1> QED
  BY <1>2, <1>3, <1>4 DEF ChangeInfo, FInv, FTypeOK, HopsBounded

\* So does _doMaintenance.
LEMMA MaintainInv == ASSUME FInv, NEW n \in Key, Maintain(n) PROVE FInv'
<1>1. /\ cache' = [m \in Key |-> cache'[m]]
      /\ \A m \in Key : cache'[m] = IF m = n THEN Empty ELSE cache[m]
  BY DEF Maintain, FInv, FTypeOK
<1>2. CacheFresh'
  BY <1>1 DEF Maintain, FInv, CacheFresh, Empty
<1> QED
  BY <1>1, <1>2 DEF Maintain, FInv, FTypeOK, HopsBounded

\* A packet that has just been sent satisfies the invariant.
LEMMA SendsInv ==
    ASSUME PathFits, MaxWatermark \in Nat, NEW s \in Key, NEW d \in Key, NEW view \in Table,
           Sends(s, d, view), infos \in [Key -> Table], peers \in [Key -> SUBSET Key]
    PROVE  FInv
<1>1. Path(view, d) \in Seq(Nat) /\ Path(infos[s], s) \in Seq(Nat)
  BY DEF PathFits
<1>2. PacketOK(packet) /\ packet.watermark = MaxWatermark /\ at = s /\ hops = 0
  BY <1>1 DEF Sends, PacketOK, PacketFields
<1>3. cache = [n \in Key |-> Empty]
  BY DEF Sends
<1>4. CacheFresh
  BY <1>3 DEF CacheFresh, Empty
<1> QED
  BY <1>2, <1>3, <1>4 DEF FInv, FTypeOK, HopsBounded

\* Every network starts so, settled or not.
LEMMA InitFInv == ASSUME PathFits, MaxWatermark \in Nat, Init PROVE FInv
<1>1. CASE SettledInit
  <2>1. PICK tbl \in Trees, more \in SUBSET Pairs, s \in Key, d \in Key :
               /\ peers = PeersFor(tbl, more) /\ infos = [n \in Key |-> tbl]
               /\ Sends(s, d, tbl)
    BY <1>1 DEF SettledInit
  <2>2. tbl \in Table
    BY ForwardingAssumption
  <2>3. infos \in [Key -> Table] /\ peers \in [Key -> SUBSET Key]
    BY <2>1, <2>2 DEF PeersFor
  <2> QED
    BY <2>1, <2>2, <2>3, SendsInv
<1>2. CASE UnsettledInit
  <2>1. PICK view \in Views, s \in Key, d \in Key :
               /\ peers = [n \in Key |-> Key \ {n}] /\ infos \in [Key -> Views]
               /\ Sends(s, d, view)
    BY <1>2 DEF UnsettledInit
  <2>2. view \in Table /\ infos \in [Key -> Table] /\ peers \in [Key -> SUBSET Key]
    BY <2>1, ForwardingAssumption
  <2> QED
    BY <2>1, <2>2, SendsInv
<1> QED
  BY <1>1, <1>2 DEF Init

\* Every step keeps the invariant.
LEMMA NextFInv ==
    ASSUME LeastFits, PathFits, DistFits, MaxWatermark \in Nat, FInv, [Next]_vars
    PROVE  FInv'
<1>1. CASE UNCHANGED vars
  BY <1>1 DEF vars, FInv, FTypeOK, HopsBounded, CacheFresh
<1> QED
  BY <1>1, HandleInv, ChangeInfoInv, MaintainInv DEF Next

-----------------------------------------------------------------------------
(* The loop of _fix. *)

\* What _fix reads: responses come from peers, and their places differ.
InOK ==
    /\ in.tbl \in Table
    /\ in.self \in Known(in.tbl)
    /\ in.peers \subseteq Key \ {in.self}
    /\ in.responders \subseteq in.peers
    /\ in.refresh \in BOOLEAN
    /\ in.resSeq \in [Key -> Nat]
    /\ \A m \in Key : m \in in.responders <=> in.resSeq[m] # 0
    /\ \A a, b \in in.responders : in.resSeq[a] = in.resSeq[b] => a = b

Cur == CurrentBest(in.self, in.tbl, in.peers)
Cands(R) == Candidates(in.self, in.tbl, R)
RootOf(m) == Root(in.tbl, m)
Leading(R, root) == {m \in Cands(R) : RootOf(m) = root}

\* m was the first in S to respond.
IsFirst(m, S) == m \in S /\ \A o \in S : in.resSeq[m] <= in.resSeq[o]

\* What makes b the best choice among the responders R.
IsBest(b, R) ==
    /\ b = [root |-> b.root, parent |-> b.parent]
    /\ b.root = Cur.root \/ \E m \in Cands(R) : b.root = RootOf(m)
    /\ b.root <= Cur.root /\ \A m \in Cands(R) : b.root <= RootOf(m)
    /\ b.root # Cur.root => IsFirst(b.parent, Leading(R, b.root))
    /\ b.root = Cur.root /\ in.refresh => IsFirst(b.parent, Leading(R, b.root) \cup {Cur.parent})
    /\ b.root = Cur.root /\ ~in.refresh => b.parent = Cur.parent

LoopInv == InOK /\ todo \subseteq in.responders /\ IsBest(best, in.responders \ todo)

\* The root and the parent before the loop.
LEMMA CurFacts ==
    ASSUME InOK, RootFits
    PROVE  /\ Cur = [root |-> Cur.root, parent |-> Cur.parent]
           /\ Cur.root \in Nat /\ Cur.root <= in.self
           /\ Cur.parent \in Key
           /\ \/ Cur.parent = in.self /\ in.resSeq[in.self] = 0
              \/ Cur.parent = in.tbl[in.self].parent
           /\ in.tbl[in.self].parent \in in.peers /\ RootOf(in.self) < in.self
                => Cur.root = RootOf(in.self)
<1>1. /\ in.self \in Key /\ in.self \in Nat /\ RootOf(in.self) \in Nat
      /\ in.self \notin in.responders
  BY KeyAssumption, Zenon DEF InOK, Known, RootFits, RootOf
<1> QED
  BY <1>1 DEF Cur, CurrentBest, InOK, RootOf

\* Places tell responders, and a parent that need not be one, apart.
LEMMA FirstUnique ==
    ASSUME InOK, NEW S, S \subseteq in.responders \cup {Cur.parent}, Cur.parent \in Key,
           NEW a, NEW b, IsFirst(a, S), IsFirst(b, S)
    PROVE  a = b
<1>1. a \in Key /\ b \in Key /\ in.resSeq[a] \in Nat /\ in.resSeq[b] \in Nat
  BY DEF IsFirst, InOK
<1>2. in.resSeq[a] = in.resSeq[b]
  BY <1>1 DEF IsFirst
<1>3. CASE a \in in.responders
  BY <1>1, <1>2, <1>3 DEF InOK
<1>4. CASE a \notin in.responders
  BY <1>1, <1>2, <1>4 DEF InOK, IsFirst
<1> QED
  BY <1>3, <1>4

\* The best choice is the one that ParentChoice defines.
LEMMA BestIsBest ==
    ASSUME InOK, RootFits, LeastFits, NEW R, R \subseteq in.responders, NEW b, IsBest(b, R)
    PROVE  b = BestParent(in.self, in.tbl, in.peers, R, in.resSeq, in.refresh)
<1> DEFINE roots == {Cur.root} \cup {Root(in.tbl, m) : m \in Cands(R)}
           First(S) == CHOOSE m \in S : \A o \in S : in.resSeq[m] <= in.resSeq[o]
<1>1. Cands(R) \subseteq R /\ Cur.parent \in Key /\ Cur.root \in Nat
  BY CurFacts DEF Cands, Candidates
<1>2. roots \in SUBSET Nat /\ roots # {}
  BY <1>1 DEF RootFits, InOK
<1>3. b.root \in roots /\ \A x \in roots : b.root <= x
  BY DEF IsBest, RootOf
<1>4. Least(roots) = b.root
  <2>1. Least(roots) \in roots /\ \A x \in roots : Least(roots) <= x
    BY <1>2, Zenon DEF LeastFits
  <2>2. Least(roots) \in Nat /\ b.root \in Nat
    BY <1>2, <1>3, <2>1, Zenon
  <2>3. Least(roots) <= b.root /\ b.root <= Least(roots)
    BY <1>3, <2>1, Zenon
  <2> QED
    BY <2>2, <2>3
<1>5. ASSUME NEW S, S \subseteq in.responders \cup {Cur.parent}, IsFirst(b.parent, S)
      PROVE  First(S) = b.parent
  <2>1. IsFirst(First(S), S)
    BY <1>5, Zenon DEF IsFirst
  <2> QED
    BY <1>1, <1>5, <2>1, FirstUnique, Zenon
<1> DEFINE leading == {m \in Cands(R) : Root(in.tbl, m) = b.root}
           parent == CASE b.root # Cur.root -> First(leading)
                       [] b.root = Cur.root /\ in.refresh -> First(leading \cup {Cur.parent})
                       [] OTHER -> Cur.parent
<1>6. leading = Leading(R, b.root) /\ leading \subseteq in.responders
  BY <1>1 DEF Leading, RootOf
<1>7. b.parent = parent
  <2> HIDE DEF leading, First
  <2>1. CASE b.root # Cur.root
    BY <1>5, <1>6, <2>1 DEF IsBest
  <2>2. CASE b.root = Cur.root /\ in.refresh
    BY <1>5, <1>6, <2>2 DEF IsBest
  <2>3. CASE b.root = Cur.root /\ ~in.refresh
    BY <2>3 DEF IsBest
  <2> QED
    BY <2>1, <2>2, <2>3 DEF InOK
<1>8. BestParent(in.self, in.tbl, in.peers, R, in.resSeq, in.refresh)
        = [root |-> b.root, parent |-> parent]
  BY <1>4, Zenon DEF BestParent, Cur, Cands
<1> QED
  BY <1>7, <1>8 DEF IsBest

\* Before the loop, the choice is the current parent.
LEMMA FirstBest == ASSUME InOK, RootFits PROVE IsBest(Cur, {})
<1>1. Cands({}) = {} /\ Leading({}, Cur.root) = {}
  BY DEF Cands, Candidates, Leading
<1>2. Cur.root <= Cur.root /\ in.resSeq[Cur.parent] <= in.resSeq[Cur.parent]
  BY CurFacts DEF InOK
<1> QED
  BY <1>1, <1>2, CurFacts DEF IsBest, IsFirst

\* A parent that was chosen for its better root is not the current one, which would
\* have brought that root from the start.
LEMMA BetterIsNew ==
    ASSUME InOK, RootFits, ParentFits, NEW m \in Cands(in.responders), RootOf(m) < Cur.root
    PROVE  m # in.tbl[in.self].parent
<1> SUFFICES ASSUME m = in.tbl[in.self].parent PROVE FALSE
  OBVIOUS
<1>1. m \in Known(in.tbl) /\ in.self \notin Visited(in.tbl, m) /\ m \in in.peers /\ m \in Key
  BY DEF Cands, Candidates, InOK, Known
<1>2. RootOf(in.self) = RootOf(m)
  BY <1>1 DEF ParentFits, InOK, RootOf
<1>3. in.self \in Nat /\ RootOf(m) \in Nat /\ Cur.root \in Nat /\ Cur.root <= in.self
  BY <1>1, CurFacts, KeyAssumption DEF InOK, Known, RootFits, RootOf
<1>4. RootOf(in.self) < in.self
  BY <1>2, <1>3
<1>5. Cur.root = RootOf(in.self)
  BY <1>1, <1>4, CurFacts
<1> QED
  BY <1>2, <1>3, <1>5

\* A response that is skipped changes nothing.
LEMMA SkipBest ==
    ASSUME InOK, RootFits, NEW R, R \subseteq in.responders, IsBest(best, R),
           NEW pk \in in.responders, Skips(pk), best.root \in Nat
    PROVE  IsBest(best, R \cup {pk})
<1>1. CASE pk \notin Cands({pk})
  <2>1. Cands(R \cup {pk}) = Cands(R)
    BY <1>1 DEF Cands, Candidates
  <2>2. Leading(R \cup {pk}, best.root) = Leading(R, best.root)
    BY <2>1 DEF Leading
  <2> QED
    BY <2>1, <2>2, Zenon DEF IsBest
<1>2. CASE pk \in Cands({pk})
  <2>1. RootOf(pk) > best.root /\ RootOf(pk) \in Nat
    BY <1>2 DEF Skips, Cands, Candidates, RootOf, RootFits, InOK, Known
  <2>2. Cands(R \cup {pk}) = Cands(R) \cup {pk}
    BY <1>2 DEF Cands, Candidates
  <2>3. Leading(R \cup {pk}, best.root) = Leading(R, best.root)
    BY <2>1, <2>2 DEF Leading
  <2>4. best.root <= RootOf(pk)
    BY <2>1
  <2> QED
    BY <2>2, <2>3, <2>4, Zenon DEF IsBest
<1> QED
  BY <1>1, <1>2

\* A response that leads to a better root is taken.
LEMMA BetterBest ==
    ASSUME InOK, RootFits, NEW R, R \subseteq in.responders, IsBest(best, R), best.root \in Nat,
           NEW pk \in Cands(in.responders), RootOf(pk) < best.root,
           NEW b, b = [root |-> RootOf(pk), parent |-> pk]
    PROVE  IsBest(b, R \cup {pk})
<1>1. /\ RootOf(pk) \in Nat /\ Cur.root \in Nat /\ best.root <= Cur.root
      /\ \A m \in Cands(R) : best.root <= RootOf(m) /\ RootOf(m) \in Nat
      /\ in.resSeq[pk] \in Nat
  BY CurFacts DEF RootOf, RootFits, InOK, Cands, Candidates, Known, IsBest
<1>2. Cands(R \cup {pk}) = Cands(R) \cup {pk}
  BY DEF Cands, Candidates
<1>3. Leading(R \cup {pk}, RootOf(pk)) = {pk}
  BY <1>1, <1>2 DEF Leading
<1>4. b.root = RootOf(pk) /\ b.parent = pk /\ b = [root |-> b.root, parent |-> b.parent]
  OBVIOUS
<1>5. b.root # Cur.root /\ b.root <= Cur.root
  BY <1>1, <1>4
<1>6. IsFirst(pk, {pk})
  BY <1>1 DEF IsFirst
<1>7. \A m \in Cands(R \cup {pk}) : b.root <= RootOf(m)
  BY <1>1, <1>2, <1>4
<1>8. pk \in Cands(R \cup {pk})
  BY <1>2
<1> QED
  BY <1>3, <1>4, <1>5, <1>6, <1>7, <1>8, Zenon DEF IsBest

\* The first of a set and one more.
LEMMA FirstAdd ==
    ASSUME InOK, NEW S, S \subseteq Key, NEW m, IsFirst(m, S), NEW pk \in Key
    PROVE  /\ in.resSeq[pk] < in.resSeq[m] => IsFirst(pk, S \cup {pk})
           /\ ~(in.resSeq[pk] < in.resSeq[m]) => IsFirst(m, S \cup {pk})
<1>1. \A o \in S \cup {pk} : in.resSeq[o] \in Nat
  BY DEF InOK
<1> QED
  BY <1>1 DEF IsFirst

\* A response that leads to the same root is taken if it was sooner, but for the
\* current parent, which is kept unless it is time to refresh.
LEMMA EqualBest ==
    ASSUME InOK, RootFits, ParentFits,
           NEW R, R \subseteq in.responders, IsBest(best, R), best.root \in Nat,
           NEW pk \in Cands(in.responders), RootOf(pk) = best.root,
           NEW b, b = IF Sooner(pk, best.parent) THEN [root |-> RootOf(pk), parent |-> pk] ELSE best
    PROVE  IsBest(b, R \cup {pk})
<1>1. /\ pk \in Key /\ pk \in in.responders /\ Cur.parent \in Key
      /\ Leading(R, best.root) \subseteq Key /\ Cur.root \in Nat
  BY CurFacts DEF Cands, Candidates, InOK, Known, Leading
<1>2. Cands(R \cup {pk}) = Cands(R) \cup {pk}
  BY DEF Cands, Candidates
<1>3. Leading(R \cup {pk}, best.root) = Leading(R, best.root) \cup {pk}
  BY <1>2 DEF Leading
<1>4. /\ b = [root |-> b.root, parent |-> b.parent] /\ b.root = best.root
      /\ b.parent = IF Sooner(pk, best.parent) THEN pk ELSE best.parent
  BY DEF IsBest
<1>5. /\ b.root = Cur.root \/ \E m \in Cands(R \cup {pk}) : b.root = RootOf(m)
      /\ b.root <= Cur.root /\ \A m \in Cands(R \cup {pk}) : b.root <= RootOf(m)
  BY <1>2, <1>4, SMTT(30) DEF IsBest
<1>6. CASE best.root # Cur.root
  <2>1. IsFirst(best.parent, Leading(R, best.root))
    BY <1>6 DEF IsBest
  <2>2. best.parent \in Cands(in.responders) /\ RootOf(best.parent) = best.root
    BY <2>1 DEF IsFirst, Leading, Cands, Candidates
  <2>3. best.root < Cur.root
    BY <1>1, <1>6 DEF IsBest
  <2>4. best.parent # in.tbl[in.self].parent
    BY <2>2, <2>3, BetterIsNew
  <2>5. Sooner(pk, best.parent) <=> in.resSeq[pk] < in.resSeq[best.parent]
    BY <2>4 DEF Sooner
  <2>6. IsFirst(b.parent, Leading(R, best.root) \cup {pk})
    BY <1>1, <1>4, <2>1, <2>5, FirstAdd
  <2> QED
    BY <1>3, <1>4, <1>5, <1>6, <2>6, Zenon DEF IsBest
<1>7. CASE best.root = Cur.root /\ in.refresh
  <2> DEFINE S == Leading(R, best.root) \cup {Cur.parent}
  <2>1. IsFirst(best.parent, S) /\ S \subseteq Key
    BY <1>1, <1>7 DEF IsBest
  <2>2. Sooner(pk, best.parent) <=> in.resSeq[pk] < in.resSeq[best.parent]
    BY <1>7 DEF Sooner
  <2>3. S \cup {pk} = Leading(R \cup {pk}, best.root) \cup {Cur.parent}
    BY <1>3
  <2> HIDE DEF S
  <2>4. IsFirst(b.parent, S \cup {pk})
    BY <1>1, <1>4, <2>1, <2>2, FirstAdd
  <2> QED
    BY <1>4, <1>5, <1>7, <2>3, <2>4, Zenon DEF IsBest
<1>8. CASE best.root = Cur.root /\ ~in.refresh
  <2>1. best.parent = Cur.parent
    BY <1>8 DEF IsBest
  <2>2. in.resSeq[pk] \in Nat
    BY <1>1 DEF InOK
  <2>3. ~Sooner(pk, best.parent)
    BY <1>8, <2>1, <2>2, CurFacts DEF Sooner
  <2> QED
    BY <1>4, <1>5, <1>8, <2>1, <2>3, Zenon DEF IsBest
<1> QED
  BY <1>6, <1>7, <1>8 DEF InOK

\* One pass of the loop's body.
LEMMA VisitBest ==
    ASSUME InOK, RootFits, ParentFits,
           NEW R, R \subseteq in.responders, IsBest(best, R), NEW pk \in in.responders
    PROVE  IsBest(Visit(pk), R \cup {pk})
<1>1. best.root \in Nat
  BY CurFacts DEF IsBest, RootOf, RootFits, InOK, Cands, Candidates, Known
<1>2. CASE Skips(pk)
  <2>1. Visit(pk) = best
    BY <1>2 DEF Visit
  <2> QED
    BY <1>1, <1>2, <2>1, SkipBest
<1>3. CASE ~Skips(pk)
  <2>1. pk \in Cands(in.responders) /\ ~(RootOf(pk) > best.root) /\ RootOf(pk) \in Nat
    BY <1>3 DEF Skips, Cands, Candidates, RootOf, RootFits, InOK, Known
  <2>2. CASE RootOf(pk) < best.root
    <3>1. in.resSeq[pk] \in Nat
      BY <2>1 DEF InOK
    <3>2. ~Sooner(pk, pk)
      BY <3>1 DEF Sooner
    <3>3. Visit(pk) = [root |-> RootOf(pk), parent |-> pk]
      BY <1>3, <2>2, <3>2 DEF Visit, RootOf
    <3> QED
      BY <1>1, <2>1, <2>2, <3>3, BetterBest
  <2>3. CASE ~(RootOf(pk) < best.root)
    <3>1. RootOf(pk) = best.root
      BY <1>1, <2>1, <2>3
    <3>2. Visit(pk) = IF Sooner(pk, best.parent) THEN [root |-> RootOf(pk), parent |-> pk] ELSE best
      BY <1>3, <2>3 DEF Visit, RootOf
    <3> QED
      BY <1>1, <2>1, <3>1, <3>2, EqualBest
  <2> QED
    BY <2>2, <2>3
<1> QED
  BY <1>2, <1>3

\* The loop starts with what CurrentBest returns.
LEMMA LoopInitInv == ASSUME KeysFit, RootFits, LoopInit PROVE LoopInv
<1>1. InOK
  <2>1. PICK self \in Self, tbl \in Parents, refresh \in BOOLEAN,
             ps \in SUBSET Key, responders \in SUBSET Key :
               /\ self \in Known(tbl)
               /\ ps \subseteq Key \ {self} /\ responders \subseteq ps
               /\ \E resSeq \in Places(responders) :
                     in = [self |-> self, tbl |-> tbl, peers |-> ps,
                           responders |-> responders, resSeq |-> resSeq, refresh |-> refresh]
    BY Zenon DEF LoopInit
  <2>2. PICK resSeq \in Places(responders) :
               in = [self |-> self, tbl |-> tbl, peers |-> ps,
                     responders |-> responders, resSeq |-> resSeq, refresh |-> refresh]
    BY <2>1, Zenon
  <2>3. tbl \in Table
    BY DEF Parents, Table, Info, Pos
  <2>4. /\ resSeq \in [Key -> Nat]
        /\ \A m \in Key : m \in responders <=> resSeq[m] # 0
        /\ \A a, b \in responders : resSeq[a] = resSeq[b] => a = b
    <3>1. PICK place \in [responders -> 1..Cardinality(responders)] :
                 /\ \A a, b \in responders : place[a] = place[b] => a = b
                 /\ resSeq = [m \in Key |-> IF m \in responders THEN place[m] ELSE 0]
      BY <2>2, Zenon DEF Places
    <3>2. responders \in SUBSET Key /\ Cardinality(responders) \in Nat
      BY <2>1 DEF KeysFit
    <3>3. \A m \in responders : place[m] \in Nat \ {0}
      BY <3>2
    <3> QED
      BY <3>1, <3>2, <3>3
  <2> QED
    BY <2>1, <2>2, <2>3, <2>4 DEF InOK
<1>2. in.responders \ todo = {} /\ todo \subseteq in.responders /\ best = Cur
  BY DEF LoopInit, Cur
<1> QED
  BY <1>1, <1>2, FirstBest DEF LoopInv

\* Every pass keeps the choice the best.
LEMMA LoopNextInv == ASSUME RootFits, ParentFits, LoopInv, [LoopNext]_loopVars PROVE LoopInv'
<1>1. CASE UNCHANGED loopVars
  BY <1>1 DEF loopVars, LoopInv, InOK, IsBest, IsFirst, Leading, Cands, Cur, RootOf
<1>2. ASSUME NEW pk \in todo, best' = Visit(pk), todo' = todo \ {pk}, in' = in PROVE LoopInv'
  <2>1. IsBest(Visit(pk), (in.responders \ todo) \cup {pk})
    BY <1>2, VisitBest DEF LoopInv
  <2>2. (in.responders \ todo) \cup {pk} = in.responders \ todo'
    BY <1>2 DEF LoopInv
  <2>3. IsBest(best, in.responders \ todo)'
    BY <1>2, <2>1, <2>2, Zenon DEF IsBest, IsFirst, Leading, Cands, Cur, RootOf
  <2> QED
    BY <1>2, <2>3 DEF LoopInv, InOK
<1> QED
  BY <1>1, <1>2 DEF LoopNext

-----------------------------------------------------------------------------
(* The operators. *)

INSTANCE WellFoundedInduction
INSTANCE FiniteSetTheorems

\* A set of numbers that is not empty has a smallest.
LEMMA SmallestNumber ==
    ASSUME NEW T \in SUBSET Nat, T # {}
    PROVE  \E x \in T : \A y \in T : x <= y
<1> DEFINE R == {ss \in Nat \X Nat : ss[1] < ss[2]}
<1>1. IsWellFoundedOn(R, Nat)
  BY NatLessThanWellFounded DEF OpToRel
<1>2. \A x, y \in Nat : <<y, x>> \in R <=> y < x
  OBVIOUS
<1> HIDE DEF R
<1>3. PICK x \in T : \A y \in T : ~ (<<y, x>> \in R)
  BY <1>1, WFMin, Zenon
<1>4. x \in Nat /\ \A y \in T : y \in Nat
  OBVIOUS
<1>5. \A y \in T : ~(y < x)
  BY <1>2, <1>3, <1>4, Zenon
<1>6. \A y \in T : x <= y
  BY <1>4, <1>5
<1> QED
  BY <1>6

\* So Least finds it.
LEMMA LeastOK == LeastFits
<1> SUFFICES ASSUME NEW S \in SUBSET Nat, S # {}
             PROVE  Least(S) \in S /\ \A x \in S : Least(S) <= x
  BY DEF LeastFits
<1>1. \E x \in S : \A y \in S : x <= y
  BY SmallestNumber
<1> QED
  BY <1>1, Zenon DEF Least

\* Two paths have no more ports in common than each has (_getDist).
LEMMA CommonOK ==
    ASSUME NEW p \in Seq(Nat), NEW q \in Seq(Nat)
    PROVE  Common(p, q) \in Nat /\ Common(p, q) <= Len(p) /\ Common(p, q) <= Len(q)
<1> DEFINE end == Least({Len(p), Len(q)})
           S == {i \in 0..end : i = end \/ p[i + 1] # q[i + 1]}
<1>1. {Len(p), Len(q)} \in SUBSET Nat /\ {Len(p), Len(q)} # {}
  OBVIOUS
<1>2. end \in {Len(p), Len(q)} /\ \A x \in {Len(p), Len(q)} : end <= x
  BY <1>1, LeastOK, Zenon DEF LeastFits
<1>3. end \in Nat /\ end <= Len(p) /\ end <= Len(q)
  BY <1>2
<1> HIDE DEF end
<1>4. S \in SUBSET Nat /\ end \in S
  BY <1>3
<1>5. Least(S) \in S
  BY <1>4, LeastOK, Zenon DEF LeastFits
<1>6. Common(p, q) = Least(S)
  BY DEF Common, end
<1> QED
  BY <1>3, <1>5, <1>6

\* So the distance between two nodes is a number.
LEMMA DistOK == DistFits
<1> SUFFICES ASSUME NEW p \in Seq(Nat), NEW q \in Seq(Nat) PROVE Dist(p, q) \in Nat
  BY DEF DistFits
<1>1. Common(p, q) \in Nat /\ Common(p, q) <= Len(p) /\ Common(p, q) <= Len(q)
  BY CommonOK
<1> QED
  BY <1>1 DEF Dist

\* Keys are finitely many.
LEMMA KeysOK == KeysFit
<1> SUFFICES ASSUME NEW S \in SUBSET Key PROVE Cardinality(S) \in Nat
  BY DEF KeysFit
<1>1. IsFiniteSet(S)
  BY KeyAssumption, FS_Subset, Zenon
<1> QED
  BY <1>1, FS_CardinalityType, Zenon

\* The number of keys.
LEMMA WatermarkType == Cardinality(Key) \in Nat /\ MaxWatermark \in Nat
<1>1. Cardinality(Key) \in Nat
  BY KeysOK DEF KeysFit
<1> QED
  BY <1>1 DEF MaxWatermark

-----------------------------------------------------------------------------
(* The walk along parents. *)

\* One step of the walk.
Up(tbl) == [k \in Key \cup {0} |-> IF k = 0 THEN 0 ELSE tbl[k].parent]

\* f is what the walk from key visits in n steps.
IsWalk(tbl, key, n, f) ==
    /\ f \in [0..n -> Key \cup {0}]
    /\ f[0] = key
    /\ \A i \in 1..n : f[i] = Up(tbl)[f[i-1]]

\* Every step leads to a key, or to 0.
LEMMA UpOK ==
    ASSUME NEW tbl \in Table, NEW k \in Key \cup {0} PROVE Up(tbl)[k] \in Key \cup {0}
  BY DEF Up, Table, Info, NoInfo

\* A walk of one more step than a walk there is.
LEMMA WalkGrows ==
    ASSUME NEW tbl \in Table, NEW key, NEW n \in Nat \ {0}, NEW f, IsWalk(tbl, key, n-1, f)
    PROVE  \E g : IsWalk(tbl, key, n, g)
<1> DEFINE g == [i \in 0..n |-> IF i = n THEN Up(tbl)[f[n-1]] ELSE f[i]]
<1>1. f[n-1] \in Key \cup {0} /\ \A i \in 0..n-1 : f[i] \in Key \cup {0}
  BY DEF IsWalk
<1>2. Up(tbl)[f[n-1]] \in Key \cup {0}
  BY <1>1, UpOK
<1>3. g \in [0..n -> Key \cup {0}]
  BY <1>1, <1>2
<1>4. g[0] = key
  BY DEF IsWalk
<1>5. \A i \in 1..n : g[i] = Up(tbl)[g[i-1]]
  BY DEF IsWalk
<1> HIDE DEF g
<1> QED
  BY <1>3, <1>4, <1>5 DEF IsWalk

\* There are walks of any length: no length is the first that no walk has.
LEMMA WalkExists ==
    ASSUME NEW tbl \in Table, NEW key \in Key, NEW n \in Nat
    PROVE  \E f : IsWalk(tbl, key, n, f)
<1> DEFINE T == {m \in Nat : ~ \E f : IsWalk(tbl, key, m, f)}
<1> SUFFICES ASSUME T # {} PROVE FALSE
  OBVIOUS
<1>1. PICK m \in T : \A o \in T : m <= o
  BY SmallestNumber, Zenon
<1>2. m # 0
  <2>1. IsWalk(tbl, key, 0, [i \in 0..0 |-> key])
    BY DEF IsWalk
  <2> QED
    BY <2>1
<1>3. m - 1 \in Nat /\ m - 1 \notin T
  BY <1>1, <1>2
<1>4. PICK f : IsWalk(tbl, key, m-1, f)
  BY <1>3
<1> QED
  BY <1>1, <1>2, <1>4, WalkGrows

\* Steps are numbers, and the ones before a step are steps.
LEMMA StepsOK ==
    /\ Steps \subseteq Nat /\ 0 \in Steps
    /\ \A i \in Steps : i # 0 => i - 1 \in Steps
    /\ \A i \in Steps : \A j \in 0..i-1 : j \in Steps
  BY WatermarkType DEF Steps

\* Walk is the walk.
LEMMA WalkOK ==
    ASSUME NEW tbl \in Table, NEW key \in Key
    PROVE  /\ Walk(tbl, key)[0] = key
           /\ \A i \in Steps : i # 0 => Walk(tbl, key)[i] = Up(tbl)[Walk(tbl, key)[i-1]]
<1> DEFINE Rec(w) == w = [i \in Steps |-> IF i = 0 THEN key ELSE Up(tbl)[w[i-1]]]
           walk == CHOOSE w : Rec(w)
<1>1. PICK f : IsWalk(tbl, key, Cardinality(Key), f)
  BY WalkExists, WatermarkType
<1>2. Rec(f)
  BY <1>1, WatermarkType DEF IsWalk, Steps
<1>3. Rec(walk)
  <2> HIDE DEF Rec
  <2> QED
    BY <1>2
<1>4. Walk(tbl, key) = [i \in Steps |-> walk[i]]
  BY DEF Walk, Up
<1> HIDE DEF walk
<1> QED
  BY <1>3, <1>4, StepsOK

\* From its parent on, a node's walk is its parent's: no step is the first at which
\* they differ.
LEMMA WalkShift ==
    ASSUME NEW tbl \in Table, NEW k \in Key, tbl[k].parent \in Key,
           NEW i \in Nat, i + 1 \in Steps
    PROVE  Walk(tbl, k)[i+1] = Walk(tbl, tbl[k].parent)[i]
<1> DEFINE w == Walk(tbl, k)
           v == Walk(tbl, tbl[k].parent)
           T == {j \in Nat : j + 1 \in Steps /\ w[j+1] # v[j]}
<1> SUFFICES ASSUME T # {} PROVE FALSE
  OBVIOUS
<1>1. PICK j \in T : \A o \in T : j <= o
  BY SmallestNumber, Zenon
<1>2. /\ w[0] = k /\ \A o \in Steps : o # 0 => w[o] = Up(tbl)[w[o-1]]
      /\ v[0] = tbl[k].parent /\ \A o \in Steps : o # 0 => v[o] = Up(tbl)[v[o-1]]
  BY WalkOK
<1> HIDE DEF w, v
<1>3. j # 0
  <2>1. ASSUME j = 0 PROVE w[1] = Up(tbl)[w[0]]
    BY <1>1, <1>2, <2>1
  <2>2. Up(tbl)[k] = tbl[k].parent
    BY KeyAssumption DEF Up
  <2> QED
    BY <1>1, <1>2, <2>1, <2>2
<1>4. j - 1 \in Nat /\ j \in Steps /\ j + 1 \in Steps
  BY <1>1, <1>3, StepsOK
<1>5. w[j] = v[j-1]
  BY <1>1, <1>3, <1>4
<1>6. w[j+1] = Up(tbl)[w[j]] /\ v[j] = Up(tbl)[v[j-1]]
  BY <1>2, <1>3, <1>4
<1> QED
  BY <1>1, <1>5, <1>6

\* The steps at which _backwardsAncestry returns, and the first of them.
Stops(tbl, key, i) ==
    \/ Walk(tbl, key)[i] \notin Known(tbl)
    \/ \E j \in 0..i-1 : Walk(tbl, key)[j] = Walk(tbl, key)[i]

FirstStop(tbl, key, n) ==
    n \in Steps /\ Stops(tbl, key, n) /\ \A j \in 0..n-1 : ~Stops(tbl, key, j)

\* The walk has more steps than there are keys, so that it meets a node that is
\* unknown or was visited before.
LEMMA StopExists == ASSUME NEW tbl, NEW key PROVE \E n : FirstStop(tbl, key, n)
<1> DEFINE here == Walk(tbl, key)
           T == {i \in Steps : Stops(tbl, key, i)}
<1>1. here = [i \in Steps |-> here[i]]
  BY DEF Walk
<1>2. T # {}
  <2> SUFFICES ASSUME \A i \in Steps : ~Stops(tbl, key, i) PROVE FALSE
    OBVIOUS
  <2>1. here \in [Steps -> Known(tbl)]
    BY <1>1 DEF Stops
  <2>2. IsFiniteSet(Known(tbl)) /\ Cardinality(Known(tbl)) <= Cardinality(Key)
    <3>1. Known(tbl) \in SUBSET Key
      BY DEF Known
    <3> QED
      BY <3>1, KeyAssumption, FS_Subset
  <2>3. IsFiniteSet(Steps) /\ Cardinality(Steps) = Cardinality(Key) + 1
    BY WatermarkType, FS_Interval DEF Steps
  <2>4. Cardinality(Known(tbl)) \in Nat
    BY <2>2, FS_CardinalityType
  <2>5. Cardinality(Known(tbl)) < Cardinality(Steps)
    BY <2>2, <2>3, <2>4, WatermarkType
  <2>6. PICK a \in Steps, b \in Steps : a # b /\ here[a] = here[b]
    BY <2>1, <2>2, <2>3, <2>5, FS_PigeonHole
  <2>7. CASE a < b
    BY StepsOK, <2>6, <2>7 DEF Stops
  <2>8. CASE b < a
    BY StepsOK, <2>6, <2>8 DEF Stops
  <2> QED
    BY StepsOK, <2>6, <2>7, <2>8
<1>3. T \in SUBSET Nat
  BY StepsOK, Zenon
<1>4. PICK i \in T : \A j \in T : i <= j
  BY <1>2, <1>3, SmallestNumber, Zenon
<1>5. \A j \in 0..i-1 : ~Stops(tbl, key, j)
  BY StepsOK, <1>4
<1> QED
  BY <1>4, <1>5 DEF FirstStop

\* There is one first stop, and _backwardsAncestry returns the nodes before it.
LEMMA AncestryIs ==
    ASSUME NEW tbl, NEW key, NEW n, FirstStop(tbl, key, n)
    PROVE  BackwardsAncestry(tbl, key) = [i \in 1..n |-> Walk(tbl, key)[i-1]]
<1> DEFINE len == CHOOSE i \in Steps :
                     Stops(tbl, key, i) /\ \A j \in 0..i-1 : ~Stops(tbl, key, j)
<1>1. FirstStop(tbl, key, len)
  BY Zenon DEF FirstStop
<1>2. BackwardsAncestry(tbl, key) = [i \in 1..len |-> Walk(tbl, key)[i-1]]
  BY DEF BackwardsAncestry, Stops
<1> HIDE DEF len
<1>3. len = n
  BY <1>1, StepsOK DEF FirstStop
<1> QED
  BY <1>2, <1>3

\* The nodes before the first stop are known.
LEMMA AncestryOK ==
    ASSUME NEW tbl, NEW key
    PROVE  BackwardsAncestry(tbl, key) \in Seq(Known(tbl))
<1>1. PICK n : FirstStop(tbl, key, n)
  BY StopExists
<1>2. n \in Nat /\ \A i \in 1..n : Walk(tbl, key)[i-1] \in Known(tbl)
  BY <1>1, StepsOK DEF FirstStop, Stops
<1>3. [i \in 1..n |-> Walk(tbl, key)[i-1]] \in [1..n -> Known(tbl)]
  BY <1>2
<1>4. BackwardsAncestry(tbl, key) = [i \in 1..n |-> Walk(tbl, key)[i-1]]
  BY <1>1, AncestryIs
<1> QED
  BY <1>2, <1>3, <1>4

\* A root is a key, or 0.
LEMMA RootOK == RootFits
<1> SUFFICES ASSUME NEW tbl \in Table, NEW k \in Key PROVE Root(tbl, k) \in Nat
  BY DEF RootFits
<1> DEFINE anc == BackwardsAncestry(tbl, k)
<1>1. anc \in Seq(Known(tbl))
  BY AncestryOK
<1> HIDE DEF anc
<1>2. anc # <<>> => anc[Len(anc)] \in Known(tbl)
  BY <1>1
<1>3. Known(tbl) \subseteq Nat
  BY KeyAssumption, Zenon DEF Known
<1> QED
  BY <1>2, <1>3 DEF Root, anc

\* The root is the last node before the first stop.
LEMMA RootIs ==
    ASSUME NEW tbl, NEW key, NEW n, FirstStop(tbl, key, n), n # 0
    PROVE  Root(tbl, key) = Walk(tbl, key)[n-1]
<1> DEFINE anc == [i \in 1..n |-> Walk(tbl, key)[i-1]]
<1>1. n \in Nat /\ n \in 1..n
  BY StepsOK DEF FirstStop
<1>2. Len(anc) = n /\ anc[n] = Walk(tbl, key)[n-1]
  BY <1>1
<1>3. anc # <<>>
  <2>1. Len(<<>>) = 0
    OBVIOUS
  <2> HIDE DEF anc
  <2> QED
    BY <1>2, <2>1, Zenon
<1>4. BackwardsAncestry(tbl, key) = anc
  BY AncestryIs, ZenonT(30)
<1> HIDE DEF anc
<1> QED
  BY <1>2, <1>3, <1>4, Zenon DEF Root

\* What the walk visited is what _backwardsAncestry returns.
LEMMA VisitedIs ==
    ASSUME NEW tbl, NEW key, NEW n, FirstStop(tbl, key, n), NEW i \in 0..n-1
    PROVE  Walk(tbl, key)[i] \in Visited(tbl, key)
<1>1. BackwardsAncestry(tbl, key) = [j \in 1..n |-> Walk(tbl, key)[j-1]]
  BY AncestryIs
<1>2. n \in Nat
  BY StepsOK DEF FirstStop
<1>3. i + 1 \in 1..n /\ (i + 1) - 1 = i
  BY <1>2
<1> QED
  BY <1>1, <1>3 DEF Visited, Range

\* A walk that does not come to k stops before it has taken as many steps as there
\* are keys.
LEMMA StopsBefore ==
    ASSUME NEW tbl, NEW k \in Key, NEW p, k \notin Visited(tbl, p),
           NEW n, FirstStop(tbl, p, n)
    PROVE  n + 1 \in Steps
<1>1. n \in Nat /\ n <= Cardinality(Key) /\ Cardinality(Key) \in Nat
  BY StepsOK, WatermarkType DEF FirstStop, Steps
<1> SUFFICES ASSUME n = Cardinality(Key) PROVE FALSE
  BY <1>1 DEF Steps
<1> DEFINE f == [i \in 0..n-1 |-> Walk(tbl, p)[i]]
<1>2. \A i \in 0..n-1 : ~Stops(tbl, p, i) /\ Walk(tbl, p)[i] \in Key \ {k}
  BY VisitedIs DEF FirstStop, Stops, Known
<1>3. f \in [0..n-1 -> Key \ {k}]
  BY <1>2
<1> DEFINE D == 0..n-1
<1>4. IsFiniteSet(D) /\ Cardinality(D) = n
  <2>1. 0 \in Int /\ n - 1 \in Int
    BY <1>1
  <2>2. IsFiniteSet(D) /\ Cardinality(D) = IF 0 > n-1 THEN 0 ELSE (n-1)-0+1
    BY <2>1, FS_Interval, Zenon
  <2> QED
    BY <1>1, <2>2
<1>5. IsFiniteSet(Key \ {k}) /\ Cardinality(Key \ {k}) = Cardinality(Key) - 1
  BY KeyAssumption, FS_RemoveElement
<1>6. Cardinality(Key \ {k}) < Cardinality(D)
  BY <1>1, <1>4, <1>5
<1> HIDE DEF f
<1>7. PICK a \in D, b \in D : a # b /\ f[a] = f[b]
  <2> HIDE DEF D
  <2>1. f \in [D -> Key \ {k}]
    BY <1>3 DEF D
  <2> QED
    BY <1>4, <1>5, <1>6, <2>1, FS_PigeonHole, Zenon
<1>8. Walk(tbl, p)[a] = Walk(tbl, p)[b]
  BY <1>7 DEF f
<1>9. CASE a < b
  BY <1>1, <1>2, <1>8, <1>9 DEF Stops
<1>10. CASE b < a
  BY <1>1, <1>2, <1>8, <1>10, SMTT(30) DEF Stops
<1> QED
  BY <1>1, <1>7, <1>9, <1>10

\* A node's walk stops one step after its parent's, where that does not come back.
LEMMA StopShift ==
    ASSUME NEW tbl \in Table, NEW k \in Known(tbl), tbl[k].parent \in Key,
           k \notin Visited(tbl, tbl[k].parent),
           NEW n, FirstStop(tbl, tbl[k].parent, n)
    PROVE  FirstStop(tbl, k, n + 1)
<1> DEFINE w == Walk(tbl, k)
           v == Walk(tbl, tbl[k].parent)
<1>1. k \in Key /\ n \in Nat /\ n + 1 \in Steps
  BY StepsOK, StopsBefore DEF FirstStop, Known
<1>2. \A i \in 0..n : i + 1 \in Steps
  BY <1>1, WatermarkType, SMTT(30) DEF Steps
<1>3. w[0] = k /\ \A i \in 0..n : w[i+1] = v[i]
  BY <1>1, <1>2, WalkOK, WalkShift
<1>4. \A i \in 0..n-1 : v[i] # k
  BY VisitedIs
<1>5. /\ v[n] \notin Known(tbl) \/ \E j \in 0..n-1 : v[j] = v[n]
      /\ \A i \in 0..n-1 : v[i] \in Known(tbl) /\ \A j \in 0..i-1 : v[j] # v[i]
  BY DEF FirstStop, Stops
<1> HIDE DEF w, v
<1>6. w[n+1] \notin Known(tbl) \/ \E j \in 0..n : w[j] = w[n+1]
  <2>1. CASE v[n] \notin Known(tbl)
    BY <1>1, <1>3, <2>1
  <2>2. ASSUME NEW j \in 0..n-1, v[j] = v[n] PROVE \E o \in 0..n : w[o] = w[n+1]
    <3>1. j + 1 \in 0..n /\ w[j+1] = w[n+1]
      BY <1>1, <1>3, <2>2
    <3> QED
      BY <3>1
  <2> QED
    BY <1>5, <2>1, <2>2
<1>7. ASSUME NEW i \in 0..n PROVE w[i] \in Known(tbl) /\ \A j \in 0..i-1 : w[j] # w[i]
  <2>1. CASE i = 0
    BY <1>3, <2>1
  <2>2. CASE i # 0
    <3>1. i - 1 \in 0..n-1 /\ w[i] = v[i-1]
      BY <1>1, <1>3, <2>2
    <3>2. ASSUME NEW j \in 0..i-1 PROVE w[j] # w[i]
      <4>1. CASE j = 0
        BY <1>3, <1>4, <3>1, <4>1
      <4>2. CASE j # 0
        <5>1. j - 1 \in 0..(i-1)-1 /\ w[j] = v[j-1]
          BY <1>1, <1>3, <4>2
        <5> QED
          BY <1>5, <3>1, <5>1
      <4> QED
        BY <4>1, <4>2
    <3> QED
      BY <1>5, <3>1, <3>2
  <2> QED
    BY <2>1, <2>2
<1>8. (n + 1) - 1 = n
  BY <1>1
<1> QED
  BY <1>1, <1>6, <1>7, <1>8 DEF FirstStop, Stops, w

\* So the two walks end at the same node.
LEMMA ParentOK == ParentFits
<1> SUFFICES ASSUME NEW tbl \in Table, NEW k \in Known(tbl), tbl[k].parent \in Known(tbl),
                    k \notin Visited(tbl, tbl[k].parent)
             PROVE  Root(tbl, k) = Root(tbl, tbl[k].parent)
  BY DEF ParentFits
<1> DEFINE p == tbl[k].parent
<1>1. k \in Key /\ p \in Key
  BY DEF Known
<1>2. PICK n : FirstStop(tbl, p, n)
  BY StopExists
<1>3. FirstStop(tbl, k, n + 1) /\ n \in Nat /\ n + 1 \in Steps
  BY <1>1, <1>2, StopShift, StepsOK, StopsBefore DEF FirstStop
<1>4. n # 0
  BY <1>1, <1>2, WalkOK DEF FirstStop, Stops
<1>5. Root(tbl, p) = Walk(tbl, p)[n-1]
  BY <1>2, <1>4, RootIs, ZenonT(30)
<1>6. Walk(tbl, k)[n] = Walk(tbl, p)[n-1]
  <2>1. n - 1 \in Nat /\ (n - 1) + 1 = n /\ n \in Steps
    BY <1>2, <1>3, <1>4 DEF FirstStop
  <2> QED
    BY <1>1, <2>1, WalkShift
<1>7. Root(tbl, k) = Walk(tbl, k)[n]
  <2>1. n + 1 # 0 /\ (n + 1) - 1 = n
    BY <1>3
  <2>2. Root(tbl, k) = Walk(tbl, k)[(n + 1) - 1]
    BY <1>3, <2>1, RootIs, ZenonT(30)
  <2> QED
    BY <2>1, <2>2, Zenon
<1> QED
  BY <1>5, <1>6, <1>7, ZenonT(30)

\* A function on the first numbers is a sequence.
LEMMA SeqOfFunction ==
    ASSUME NEW S, NEW n \in Nat, NEW f \in [1..n -> S] PROVE f \in Seq(S)
  OBVIOUS

\* So a path is a sequence of ports (_getRootAndPath).
LEMMA PathOK == PathFits
<1> SUFFICES ASSUME NEW tbl \in Table, NEW k \in Key PROVE Path(tbl, k) \in Seq(Nat)
  BY DEF PathFits
<1> DEFINE anc == BackwardsAncestry(tbl, k)
<1>1. anc \in Seq(Known(tbl))
  BY AncestryOK
<1>2. \A m \in Known(tbl) : tbl[m].port \in Nat
  BY DEF Known, Table, Info
<1> HIDE DEF anc
<1>3. ASSUME Len(anc) > 0
      PROVE  [i \in 1..(Len(anc) - 1) |-> tbl[anc[Len(anc) - i]].port] \in Seq(Nat)
  <2>1. Len(anc) - 1 \in Nat /\ \A i \in 1..(Len(anc) - 1) : anc[Len(anc) - i] \in Known(tbl)
    BY <1>1, <1>3
  <2>2. [i \in 1..(Len(anc) - 1) |-> tbl[anc[Len(anc) - i]].port] \in [1..(Len(anc) - 1) -> Nat]
    BY <1>2, <2>1
  <2> QED
    BY <2>1, <2>2, SeqOfFunction, Zenon
<1>4. <<>> \in Seq(Nat)
  OBVIOUS
<1> QED
  BY <1>3, <1>4 DEF Path, anc

-----------------------------------------------------------------------------

\* _fix finds the same parent in whatever order it visits the map of responses: after
\* every pass of its loop it has found the best choice among the responses it has seen.
THEOREM ChoiceIsOrderFree == LoopSpec => []OrderFree
<1>1. LoopInit => LoopInv
  BY LoopInitInv, KeysOK, RootOK
<1>2. LoopInv /\ [LoopNext]_loopVars => LoopInv'
  BY LoopNextInv, RootOK, ParentOK
<1>3. LoopInv => OrderFree
  <2> SUFFICES ASSUME LoopInv PROVE OrderFree
    OBVIOUS
  <2>1. in.responders \ todo \subseteq in.responders
    BY SMTT(30)
  <2> QED
    BY <2>1, BestIsBest, RootOK, LeastOK, Zenon DEF LoopInv, OrderFree
<1> QED
  BY <1>1, <1>2, <1>3, PTL DEF LoopSpec

\* The invariant holds in every reachable state.
LEMMA ForwardingInvariant == Spec => []FInv
<1>1. Init => FInv
  BY InitFInv, PathOK, WatermarkType
<1>2. FInv /\ [Next]_vars => FInv'
  BY NextFInv, LeastOK, PathOK, DistOK, WatermarkType
<1> QED
  BY <1>1, <1>2, PTL DEF Spec

\* Whatever the nodes know about the tree and whatever they learn while a packet
\* travels, every hop lowers its watermark (_lookup), so that it is passed on at most
\* MaxWatermark times before it is delivered, turned into a pathBroken or dropped.
THEOREM HopsStayBounded == Spec => [](HopsBounded /\ hops \in 0..MaxWatermark)
<1>1. FInv => HopsBounded /\ hops \in 0..MaxWatermark
  BY WatermarkType DEF FInv, FTypeOK, PacketOK, HopsBounded
<1> QED
  BY <1>1, ForwardingInvariant, PTL

\* The cache that _getDist reads is never stale: all that changes an info resets it
\* (_resetCache), and what _lookup puts into it is what _getRootAndPath returns.
THEOREM CacheStaysFresh == Spec => []CacheFresh
<1>1. FInv => CacheFresh
  BY DEF FInv
<1> QED
  BY <1>1, ForwardingInvariant, PTL
=============================================================================
