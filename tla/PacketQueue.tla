----------------------------- MODULE PacketQueue -----------------------------
(***************************************************************************)
(* network/packetqueue.go: a heap of destinations, each a heap of sources, *)
(* each a FIFO queue of packets.  The heaps are ordered by the time of the *)
(* packet at the head; push appends without restoring them, because what   *)
(* it appends is the newest.  Indices count from 1, not from 0.            *)
(***************************************************************************)
EXTENDS Integers, Sequences, SequencesExt, FiniteSets

CONSTANTS
    Source, Dest,   \* the keys packets come from and go to
    Sizes,          \* their sizes on the wire
    Ticks,          \* what time.Now() may advance by between two packets
    MaxPush         \* how many packets are pushed

ASSUME PacketQueueAssumption ==
    Sizes \subseteq Nat \ {0} /\ Ticks \subseteq Nat /\ MaxPush \in Nat

VARIABLES
    q,              \* packetQueue: dests and size
    out,            \* the packet that the last operation returned, if any
    pushed,         \* how many packets have been pushed
    clock           \* the time of the last push

vars == <<q, out, pushed, clock>>

-----------------------------------------------------------------------------
(* container/heap, on a sequence of sources or of destinations. *)

\* Less compares the times of the first packets.
Time(e) == IF "infos" \in DOMAIN e THEN e.infos[1].time ELSE e.sources[1].infos[1].time
Less(h, i, j) == Time(h[i]) < Time(h[j])

Swap(h, i, j) == [h EXCEPT ![i] = h[j], ![j] = h[i]]

RECURSIVE Down(_, _, _)
Down(h, i, n) ==
    LET l == 2 * i
        j == IF l + 1 <= n /\ Less(h, l + 1, l) THEN l + 1 ELSE l
    IN  IF l > n \/ ~Less(h, j, i) THEN h ELSE Down(Swap(h, i, j), j, n)

RECURSIVE Up(_, _)
Up(h, j) ==
    LET i == j \div 2
    IN  IF i = 0 \/ ~Less(h, j, i) THEN h ELSE Up(Swap(h, i, j), i)

\* Sift down among the first n elements, and up if that changed nothing.
Sift(h, i, n) == IF Down(h, i, n) # h THEN Down(h, i, n) ELSE Up(h, i)

HeapFix(h, i) == Sift(h, i, Len(h))

\* The heap without its element i: it is moved to the end and cut off there.
HeapRemove(h, i) ==
    LET n == Len(h) - 1
    IN  Front(IF i = Len(h) THEN h ELSE Sift(Swap(h, i, n + 1), i, n))

-----------------------------------------------------------------------------

\* The index of the element with this key, 0 if there is none.
Find(s, key) ==
    IF \E i \in DOMAIN s : s[i].key = key
    THEN CHOOSE i \in DOMAIN s : s[i].key = key /\ \A j \in 1..i-1 : s[j].key # key
    ELSE 0

\* Fault: the first of all.
AlwaysFirst(s) == 1

\* The first of the largest elements.
Largest(s) ==
    CHOOSE i \in DOMAIN s : /\ \A j \in DOMAIN s : s[j].size <= s[i].size
                            /\ \A j \in 1..i-1 : s[j].size < s[i].size

Put(s, i, e) == IF i = 0 THEN Append(s, e) ELSE [s EXCEPT ![i] = e]

Push(source, destKey, size, time) ==
    LET d == Find(q.dests, destKey)
        dest == IF d = 0 THEN [key |-> destKey, sources |-> <<>>, size |-> 0] ELSE q.dests[d]
        s == Find(dest.sources, source)
        src == IF s = 0 THEN [key |-> source, infos |-> <<>>, size |-> 0] ELSE dest.sources[s]
        info == [id |-> pushed + 1, source |-> source, dest |-> destKey,
                 size |-> size, time |-> time]
        newSrc == [src EXCEPT !.infos = Append(@, info), !.size = @ + size]
        newDest == [dest EXCEPT !.sources = Put(@, s, newSrc), !.size = @ + size]
    IN  /\ pushed < MaxPush
        /\ q' = [dests |-> Put(q.dests, d, newDest), size |-> q.size + size]
        /\ out' = {}
        /\ pushed' = pushed + 1
        /\ clock' = time

\* Fault: the destination keeps its size.
WithoutFirstSameSize(dest, s) ==
    [dest EXCEPT !.sources[s].infos = Tail(@),
                 !.sources[s].size = @ - dest.sources[s].infos[1].size]

\* Destination dest without the first packet of source s.
WithoutFirst(dest, s) ==
    [dest EXCEPT !.sources[s].infos = Tail(@),
                 !.sources[s].size = @ - dest.sources[s].infos[1].size,
                 !.size = @ - dest.sources[s].infos[1].size]

\* Take the first packet of source s of destination d.  What has become empty leaves
\* its heap: drop sees that by the sizes and pop by the lengths, which agree as
\* long as no packet is of size 0 (no encoded packet is).
Take(d, s) ==
    LET info == q.dests[d].sources[s].infos[1]
        left == WithoutFirst(q.dests[d], s)
        dest == [left EXCEPT !.sources = IF left.sources[s].infos # <<>> THEN HeapFix(@, s)
                                                                         ELSE HeapRemove(@, s)]
        dests == [q.dests EXCEPT ![d] = dest]
    IN  [dests |-> IF dest.sources # <<>> THEN HeapFix(dests, d) ELSE HeapRemove(dests, d),
         size |-> q.size - info.size]

\* drop: the head of the largest source of the largest destination.
Drop ==
    /\ q.size > 0
    /\ LET d == Largest(q.dests) IN q' = Take(d, Largest(q.dests[d].sources))
    /\ out' = {}
    /\ UNCHANGED <<pushed, clock>>

\* pop: the head of the first source of the first destination.
Pop ==
    /\ q.size > 0
    /\ q' = Take(1, 1)
    /\ out' = {q.dests[1].sources[1].infos[1]}
    /\ UNCHANGED <<pushed, clock>>

Init ==
    /\ q = [dests |-> <<>>, size |-> 0]
    /\ out = {}
    /\ pushed = 0
    /\ clock = 0

Next ==
    \/ \E s \in Source, d \in Dest, size \in Sizes, t \in Ticks : Push(s, d, size, clock + t)
    \/ Pop
    \/ Drop

Spec == Init /\ [][Next]_vars

-----------------------------------------------------------------------------

\* The packets of a source, a destination, the queue.
Infos(src) == Range(src.infos)
DestInfos(dest) == UNION {Infos(dest.sources[i]) : i \in DOMAIN dest.sources}
Packets == UNION {DestInfos(q.dests[i]) : i \in DOMAIN q.dests}

Store == INSTANCE PacketStore WITH store <- Packets

\* The sizes that drop compares, and that pop and drop test for emptiness, are
\* the sizes of what is really there; nothing empty is left in a heap, where
\* Less would index into it.
SizesAgree ==
    /\ q.size = Store!StoreSize(Packets)
    /\ \A i \in DOMAIN q.dests :
          LET dest == q.dests[i]
          IN  /\ dest.sources # <<>>
              /\ dest.size = Store!StoreSize(DestInfos(dest))
              /\ \A j \in DOMAIN dest.sources :
                    /\ dest.sources[j].infos # <<>>
                    /\ dest.sources[j].size = Store!StoreSize(Infos(dest.sources[j]))

\* push, pop and drop do what the abstract store does: pop takes the oldest of
\* all packets, drop the oldest of the longest stream to the largest destination.
ImplementsStore == Store!StoreSpec

=============================================================================
