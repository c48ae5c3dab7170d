----------------------------- MODULE PacketStore -----------------------------
(***************************************************************************)
(* What network/packetqueue.go promises: a store of packets that gives     *)
(* back the oldest packet, and that makes room by dropping the oldest of   *)
(* the longest stream to the largest destination.                          *)
(***************************************************************************)
EXTENDS Integers, FiniteSets, FiniteSetsExt

VARIABLES
    store,      \* the packets in the store: id, source, dest, size, time
    out         \* what the last operation returned: one packet or none

Stream(S, s, d) == {p \in S : p.source = s /\ p.dest = d}
StoreSize(S) == MapThenSumSet(LAMBDA p : p.size, S)

\* The packets that are first in their stream.
Firsts(S) == {p \in S : \A o \in Stream(S, p.source, p.dest) : p.id <= o.id}

\* Packets of one time are equally old.
Oldest(S) == {p \in Firsts(S) : \A o \in S : p.time <= o.time}

LargestDest(S) ==
    {p \in S : \A o \in S : StoreSize({x \in S : x.dest = o.dest})
                              <= StoreSize({x \in S : x.dest = p.dest})}

LongestStream(S) ==
    {p \in S : \A o \in S : o.dest = p.dest =>
                 StoreSize(Stream(S, o.source, o.dest))
                   <= StoreSize(Stream(S, p.source, p.dest))}

Droppable(S) == Firsts(S) \cap LargestDest(S) \cap LongestStream(S)

StoreInit == store = {} /\ out = {}

StorePush == out' = {} /\ \E p \in store' \ store : store' = store \cup {p}
StorePop == \E p \in Oldest(store) : out' = {p} /\ store' = store \ {p}
StoreDrop == out' = {} /\ \E p \in Droppable(store) : store' = store \ {p}

StoreSpec == StoreInit /\ [][StorePush \/ StorePop \/ StoreDrop]_<<store, out>>
=============================================================================
