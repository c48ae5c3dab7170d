----------------------------- MODULE PeerWriter -----------------------------
(***************************************************************************)
(* The sending side of a peer: the actors peer and peerWriter of           *)
(* network/peers.go.  Packets wait in the peer's queue until the writer    *)
(* asks for them, are written to a buffer, and the buffer is flushed when  *)
(* the queue is empty.                                                     *)
(*                                                                         *)
(* The closures that the router and the monitor post to the two actors run *)
(* when the model takes them; the closures that the two post to each other *)
(* and to themselves are queued.  PeerMonitor adds what the monitor does.  *)
(***************************************************************************)
EXTENDS Integers, Sequences

CONSTANTS
    MaxSize,        \* peerMaxMessageSize
    SeqLimit,       \* w.seq is a number below this: 2^64
    Overhead,       \* the size of a traffic packet without path and payload
    PathLen,        \* how long the paths of a packet may be
    MaxPush         \* how many packets and messages the router sends

ASSUME PeerWriterAssumption ==
    /\ {MaxSize, Overhead, MaxPush} \cup PathLen \subseteq Nat
    /\ Overhead < MaxSize
    /\ SeqLimit \in Nat \ {0}

VARIABLES
    ready,          \* p.ready: the writer is ready for traffic
    queue,          \* p.queue: the sizes of the packets that wait, oldest first
    pops,           \* how many closures of pop are in the peer's inbox
    inbox,          \* the closures in the writer's inbox
    seq,            \* w.seq: counts what the writer wrote
    wbuf,           \* the types of the packets in w.wbuf
    pushed,         \* how many packets and messages the router has sent
    ignored         \* the last packet that the writer took was ignored

vars == <<ready, queue, pops, inbox, seq, wbuf, pushed, ignored>>

\* Traffic and messages of the protocols, and keepalives.
PacketType == {"data", "keepalive"}

\* The closures of the writer.
Send(type, size) == [op |-> "sendPacket", type |-> type, size |-> size]
More(s) == [op |-> "more", seq |-> s]
Flush == [op |-> "flush"]

-----------------------------------------------------------------------------
(* PacketConn.WriteTo and MTU: what the application may send. *)

MTU == MaxSize - Overhead

\* The sizes of the packets for payloads that WriteTo accepts, once they have
\* the paths that the pathfinder gives them.
PacketSize == {Overhead + payload + path : payload \in 1..MTU, path \in PathLen}

-----------------------------------------------------------------------------
(* The peer. *)

Pushes ==
    /\ pushed < MaxPush
    /\ pushed' = pushed + 1

\* _push when the writer is ready.
PushReady(size) ==
    /\ Pushes
    /\ ready
    /\ ready' = FALSE
    /\ inbox' = Append(inbox, Send("data", size))
    /\ UNCHANGED <<queue, pops, seq, wbuf, ignored>>

\* The queue q without its i-th packet.
Without(q, i) == SubSeq(q, 1, i - 1) \o SubSeq(q, i + 1, Len(q))

\* _push when it is not: drop a packet if the queue is slow, then queue this one.
PushQueue(size) ==
    /\ Pushes
    /\ ~ready
    /\ \E q \in {queue} \cup {Without(queue, i) : i \in DOMAIN queue} :
          queue' = Append(q, size)
    /\ UNCHANGED <<ready, pops, inbox, seq, wbuf, ignored>>

\* sendDirect, of the messages of the tree protocol: they are small, and do not
\* wait until the writer is ready.
SendDirect ==
    /\ Pushes
    /\ inbox' = Append(inbox, Send("data", Overhead))
    /\ UNCHANGED <<ready, queue, pops, seq, wbuf, ignored>>

\* The monitor's keepalive.
SendKeepAlive ==
    /\ inbox' = Append(inbox, Send("keepalive", Overhead))
    /\ UNCHANGED <<ready, queue, pops, seq, wbuf, pushed, ignored>>

\* pop: send the next packet,
PopNext ==
    /\ pops > 0
    /\ queue # <<>>
    /\ pops' = pops - 1
    /\ queue' = Tail(queue)
    /\ inbox' = Append(inbox, Send("data", Head(queue)))
    /\ UNCHANGED <<ready, seq, wbuf, pushed, ignored>>

\* Fault: be ready for one without a look at the queue.
PopNothingUnseen ==
    /\ pops > 0
    /\ pops' = pops - 1
    /\ ready' = TRUE
    /\ inbox' = Append(inbox, Flush)
    /\ UNCHANGED <<queue, seq, wbuf, pushed, ignored>>

\* or be ready for one, with nothing left unflushed.
PopNothing ==
    /\ pops > 0
    /\ queue = <<>>
    /\ pops' = pops - 1
    /\ ready' = TRUE
    /\ inbox' = Append(inbox, Flush)
    /\ UNCHANGED <<queue, seq, wbuf, pushed, ignored>>

-----------------------------------------------------------------------------
(* The writer. *)

Takes(op) == inbox # <<>> /\ Head(inbox).op = op

\* sendPacket and _write: write to the buffer, which is flushed first when there
\* is no room; then ask for more, once this was the last.
WritePacket ==
    /\ Takes("sendPacket")
    /\ Head(inbox).size <= MaxSize
    /\ wbuf' \in {<<Head(inbox).type>>, Append(wbuf, Head(inbox).type)}
    /\ seq' = (seq + 1) % SeqLimit
    /\ inbox' = Append(Tail(inbox), More(seq'))
    /\ ignored' = FALSE
    /\ UNCHANGED <<ready, queue, pops, pushed>>

\* sendPacket ignores what is too large.
IgnorePacket ==
    /\ Takes("sendPacket")
    /\ Head(inbox).size > MaxSize
    /\ inbox' = Tail(inbox)
    /\ ignored' = TRUE
    /\ UNCHANGED <<ready, queue, pops, seq, wbuf, pushed>>

\* Fault: pop if more was written since.
AskForMoreTooLate ==
    /\ Takes("more")
    /\ pops' = IF Head(inbox).seq # seq THEN pops + 1 ELSE pops
    /\ inbox' = Tail(inbox)
    /\ UNCHANGED <<ready, queue, seq, wbuf, pushed, ignored>>

\* The closure that sendPacket leaves behind: pop, unless more was written since.
AskForMore ==
    /\ Takes("more")
    /\ pops' = IF Head(inbox).seq = seq THEN pops + 1 ELSE pops
    /\ inbox' = Tail(inbox)
    /\ UNCHANGED <<ready, queue, seq, wbuf, pushed, ignored>>

FlushBuffer ==
    /\ Takes("flush")
    /\ inbox' = Tail(inbox)
    /\ wbuf' = <<>>
    /\ UNCHANGED <<ready, queue, pops, seq, pushed, ignored>>

-----------------------------------------------------------------------------

\* The router has just added the peer, and has sent it a first message.
Init ==
    /\ ready = FALSE
    /\ queue = <<>>
    /\ pops = 0
    /\ inbox = <<Send("data", Overhead)>>
    /\ seq = 0
    /\ wbuf = <<>>
    /\ pushed = 0
    /\ ignored = FALSE

Peer == PopNext \/ PopNothing
Writer == WritePacket \/ IgnorePacket \/ AskForMore \/ FlushBuffer

Next ==
    \/ \E size \in PacketSize : PushReady(size) \/ PushQueue(size)
    \/ SendDirect \/ SendKeepAlive
    \/ Peer
    \/ Writer

Spec == Init /\ [][Next]_vars

-----------------------------------------------------------------------------

\* The closures that may be in the writer's inbox.
Closure ==
    {Send(type, size) : type \in PacketType, size \in PacketSize \cup {Overhead}}
      \cup {More(s) : s \in 0..(SeqLimit - 1)} \cup {Flush}

TypeOK ==
    /\ {ready, ignored} \subseteq BOOLEAN
    /\ queue \in Seq(PacketSize)
    /\ pops \in Nat /\ seq \in 0..(SeqLimit - 1)
    /\ inbox \in Seq(Closure)

\* When the two actors rest, the peer takes the writer for ready and nothing stays
\* in its buffer: no packet waits for nothing.  It takes a packet that sendPacket
\* ignored to break this, and the next one that is written makes it hold again.
RestsReady == pops = 0 /\ inbox = <<>> /\ ~ignored => ready /\ wbuf = <<>>

\* No packet waits while the peer takes the writer for ready: it would be
\* overtaken by later ones.
ReadyMeansEmpty == ready => queue = <<>>
=============================================================================
