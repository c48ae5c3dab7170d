--------------------------- MODULE PeerLinkProofs ---------------------------
(***************************************************************************)
(* Proofs about PeerWriter and PeerMonitor, for any sizes and any number   *)
(* of packets.  The peer and its writer do not lose track of each other,   *)
(* whenever the monitor sends a keepalive: if the peer does not take the   *)
(* writer for ready, something is under way that will make it so.  And a   *)
(* handler that has returned leaves no timer behind.                       *)
(***************************************************************************)
EXTENDS PeerMonitor, TLAPS

\* A closure that leads to a pop: a packet to write, or the request for more that
\* the last write has left behind.
Leads(c, s) == c.op = "sendPacket" \/ (c.op = "more" /\ c.seq = s)

\* The peer will be asked for more traffic.
Pending == pops > 0 \/ \E i \in DOMAIN inbox : Leads(inbox[i], seq)

\* The buffer will be flushed.
WillFlush == Pending \/ \E i \in DOMAIN inbox : inbox[i].op = "flush"

\* The inductive invariant.
WInv ==
    /\ TypeOK
    /\ ReadyMeansEmpty
    /\ ~ignored => ready \/ Pending
    /\ ~ignored => wbuf = <<>> \/ WillFlush

-----------------------------------------------------------------------------
(* Facts about the inbox. *)

\* What is posted to the writer comes after all that was in its inbox.
LEMMA AppendFacts ==
    ASSUME NEW S, NEW q \in Seq(S), NEW c \in S
    PROVE  /\ Append(q, c) \in Seq(S)
           /\ \A i \in DOMAIN q : i \in DOMAIN Append(q, c) /\ Append(q, c)[i] = q[i]
           /\ \E i \in DOMAIN Append(q, c) : Append(q, c)[i] = c
<1>1. Len(q) + 1 \in DOMAIN Append(q, c) /\ Append(q, c)[Len(q) + 1] = c
  OBVIOUS
<1> QED
  BY <1>1

\* When the writer has run a closure, the others are still in its inbox.
LEMMA TailFacts ==
    ASSUME NEW S, NEW q \in Seq(S), q # <<>>
    PROVE  /\ Tail(q) \in Seq(S)
           /\ Head(q) \in S
           /\ \A i \in DOMAIN q : q[i] = Head(q) \/ \E j \in DOMAIN Tail(q) : Tail(q)[j] = q[i]
<1>1. Tail(q) \in Seq(S) /\ Head(q) \in S /\ Head(q) = q[1]
  OBVIOUS
<1>2. ASSUME NEW i \in DOMAIN q, i # 1
      PROVE  \E j \in DOMAIN Tail(q) : Tail(q)[j] = q[i]
  <2>1. i - 1 \in DOMAIN Tail(q) /\ Tail(q)[i - 1] = q[i]
    BY <1>2
  <2> QED
    BY <2>1
<1> QED
  BY <1>1, <1>2

\* The fields of the closures tell them apart.
LEMMA ClosureOps ==
    /\ \A type, size : Send(type, size).op = "sendPacket"
    /\ \A s : More(s).op = "more" /\ More(s).seq = s
    /\ Flush.op = "flush"
  BY DEF Send, More, Flush

-----------------------------------------------------------------------------
(* What an action does to the inbox decides what becomes of Pending. *)

\* A packet that is posted to the writer leads to a pop.
LEMMA PostSend ==
    ASSUME WInv, NEW type \in PacketType, NEW size \in PacketSize \cup {Overhead},
           inbox' = Append(inbox, Send(type, size)), seq' = seq
    PROVE  inbox' \in Seq(Closure) /\ Pending' /\ WillFlush'
<1> DEFINE c == Send(type, size)
<1>1. c \in Closure /\ c.op = "sendPacket"
  BY ClosureOps DEF Closure
<1>2. inbox \in Seq(Closure)
  BY DEF WInv, TypeOK
<1> HIDE DEF c
<1>3. /\ Append(inbox, c) \in Seq(Closure)
      /\ \E i \in DOMAIN Append(inbox, c) : Append(inbox, c)[i] = c
  BY <1>1, <1>2, AppendFacts
<1> QED
  BY <1>1, <1>3 DEF c, Pending, WillFlush, Leads

\* When the writer runs a closure that leads to nothing, what was pending stays so.
LEMMA RunOther ==
    ASSUME WInv, inbox # <<>>, inbox' = Tail(inbox), seq' = seq, pops' = pops,
           ~Leads(Head(inbox), seq)
    PROVE  /\ inbox' \in Seq(Closure)
           /\ Pending => Pending'
<1>1. inbox \in Seq(Closure)
  BY DEF WInv, TypeOK
<1>2. /\ Tail(inbox) \in Seq(Closure)
      /\ \A i \in DOMAIN inbox :
            inbox[i] = Head(inbox) \/ \E j \in DOMAIN Tail(inbox) : Tail(inbox)[j] = inbox[i]
  BY <1>1, TailFacts
<1>3. ASSUME NEW i \in DOMAIN inbox, Leads(inbox[i], seq)
      PROVE  \E j \in DOMAIN inbox' : Leads(inbox'[j], seq')
  <2>1. PICK j \in DOMAIN Tail(inbox) : Tail(inbox)[j] = inbox[i]
    BY <1>2, <1>3
  <2>2. Leads(inbox'[j], seq')
    BY <2>1, <1>3 DEF Leads
  <2> QED
    BY <2>1, <2>2
<1> QED
  BY <1>2, <1>3 DEF Pending

-----------------------------------------------------------------------------
(* The actions. *)

\* A new peer satisfies the invariant: the router's first message is on its way.
LEMMA WriterInit == Init => WInv
<1> SUFFICES ASSUME Init PROVE WInv
  OBVIOUS
<1> DEFINE c == Send("data", Overhead)
<1>1. c \in Closure /\ c.op = "sendPacket"
  BY ClosureOps DEF Closure, PacketType
<1> HIDE DEF c
<1>2. <<c>> \in Seq(Closure) /\ 1 \in DOMAIN <<c>> /\ <<c>>[1] = c
  BY <1>1
<1>3. inbox = <<c>> /\ seq = 0 /\ pops = 0 /\ queue = <<>> /\ ~ready /\ ~ignored
  BY DEF Init, c
<1>4. TypeOK
  <2>1. <<>> \in Seq(PacketSize)
    OBVIOUS
  <2>2. {ready, ignored} \subseteq BOOLEAN
    BY Zenon DEF Init
  <2> QED
    BY <1>2, <1>3, <2>1, <2>2, PeerWriterAssumption DEF TypeOK
<1>5. Pending
  BY <1>1, <1>2, <1>3 DEF Pending, Leads
<1> QED
  BY <1>4, <1>5 DEF Init, WInv, ReadyMeansEmpty, WillFlush

\* The steps of the router and of the monitor (_push, sendDirect, the keepalive).
LEMMA InputInv ==
    ASSUME WInv,
           (\E size \in PacketSize : PushReady(size) \/ PushQueue(size)) \/ SendDirect \/ SendKeepAlive
    PROVE  WInv'
<1>1. ASSUME NEW size \in PacketSize, PushReady(size) PROVE WInv'
  <2>1. inbox' \in Seq(Closure) /\ Pending' /\ WillFlush'
    BY <1>1, PostSend DEF PushReady, PacketType
  <2> QED
    BY <1>1, <2>1, Zenon DEF WInv, TypeOK, ReadyMeansEmpty, PushReady
<1>2. ASSUME NEW size \in PacketSize, PushQueue(size) PROVE WInv'
  <2>1. /\ Pending' = Pending
        /\ WillFlush' = WillFlush
    BY <1>2 DEF PushQueue, Pending, WillFlush, Leads
  <2>2. queue' \in Seq(PacketSize)
    <3>1. queue \in Seq(PacketSize)
      BY DEF WInv, TypeOK
    <3>2. \A i \in DOMAIN queue : Without(queue, i) \in Seq(PacketSize)
      BY <3>1 DEF Without
    <3>3. PICK q \in {queue} \cup {Without(queue, i) : i \in DOMAIN queue} : queue' = Append(q, size)
      BY <1>2 DEF PushQueue
    <3>4. q \in Seq(PacketSize)
      BY <3>1, <3>2
    <3> QED
      BY <3>3, <3>4
  <2> QED
    BY <1>2, <2>1, <2>2 DEF WInv, TypeOK, ReadyMeansEmpty, PushQueue
<1>3. CASE SendDirect
  <2>1. inbox' \in Seq(Closure) /\ Pending' /\ WillFlush'
    BY <1>3, PostSend DEF SendDirect, PacketType
  <2> QED
    BY <1>3, <2>1 DEF WInv, TypeOK, ReadyMeansEmpty, SendDirect
<1>4. CASE SendKeepAlive
  <2>1. inbox' \in Seq(Closure) /\ Pending' /\ WillFlush'
    BY <1>4, PostSend DEF SendKeepAlive, PacketType
  <2> QED
    BY <1>4, <2>1 DEF WInv, TypeOK, ReadyMeansEmpty, SendKeepAlive
<1> QED
  BY <1>1, <1>2, <1>3, <1>4

\* The steps of the peer (pop): it sends the next packet, or is ready for one and
\* has the buffer flushed.
LEMMA PeerInv == ASSUME WInv, Peer PROVE WInv'
<1>1. CASE PopNext
  <2>1. Head(queue) \in PacketSize
    BY <1>1 DEF PopNext, WInv, TypeOK
  <2>2. inbox' \in Seq(Closure) /\ Pending' /\ WillFlush'
    BY <1>1, <2>1, PostSend DEF PopNext, PacketType
  <2>3. ~ready
    BY <1>1 DEF PopNext, WInv, ReadyMeansEmpty
  <2> QED
    BY <1>1, <2>2, <2>3 DEF WInv, TypeOK, ReadyMeansEmpty, PopNext
<1>2. CASE PopNothing
  <2>1. Flush \in Closure /\ inbox \in Seq(Closure)
    BY DEF Closure, WInv, TypeOK
  <2>2. /\ inbox' \in Seq(Closure)
        /\ \E i \in DOMAIN inbox' : inbox'[i] = Flush
    BY <1>2, <2>1, AppendFacts DEF PopNothing
  <2>3. WillFlush'
    BY <2>2, ClosureOps DEF WillFlush
  <2> QED
    BY <1>2, <2>2, <2>3 DEF WInv, TypeOK, ReadyMeansEmpty, PopNothing
<1> QED
  BY <1>1, <1>2 DEF Peer

\* The steps of the writer (sendPacket, _write and what it leaves behind, flush).
LEMMA WriterInv == ASSUME WInv, Writer PROVE WInv'
<1>1. CASE WritePacket
  <2>1. seq' \in 0..(SeqLimit - 1) /\ inbox \in Seq(Closure) /\ inbox # <<>>
    BY <1>1, PeerWriterAssumption DEF WritePacket, Takes, WInv, TypeOK
  <2>2. Tail(inbox) \in Seq(Closure)
    BY <2>1, TailFacts
  <2>3. PICK c \in Closure : c = More(seq') /\ Leads(c, seq')
    BY <2>1, ClosureOps DEF Closure, Leads
  <2>4. inbox' = Append(Tail(inbox), c)
    BY <1>1, <2>3 DEF WritePacket
  <2>5. inbox' \in Seq(Closure) /\ \E i \in DOMAIN inbox' : inbox'[i] = c
    <3>1. PICK q \in Seq(Closure) : inbox' = Append(q, c)
      BY <2>2, <2>4, Zenon
    <3> QED
      BY <2>3, <3>1, AppendFacts
  <2>6. Pending' /\ WillFlush'
    BY <2>3, <2>5 DEF Pending, WillFlush
  <2> QED
    BY <1>1, <2>1, <2>5, <2>6 DEF WInv, TypeOK, ReadyMeansEmpty, WritePacket
<1>2. CASE IgnorePacket
  <2>1. Tail(inbox) \in Seq(Closure)
    BY <1>2, TailFacts DEF IgnorePacket, Takes, WInv, TypeOK
  <2> QED
    BY <1>2, <2>1 DEF WInv, TypeOK, ReadyMeansEmpty, IgnorePacket
<1>3. CASE AskForMore
  <2>1. inbox # <<>> /\ inbox' = Tail(inbox) /\ seq' = seq /\ Head(inbox).op = "more"
    BY <1>3 DEF AskForMore, Takes
  <2>2. CASE Head(inbox).seq = seq
    <3>1. Tail(inbox) \in Seq(Closure)
      BY <2>1, TailFacts DEF WInv, TypeOK
    <3>2. pops' = pops + 1 /\ pops \in Nat
      BY <1>3, <2>2 DEF AskForMore, WInv, TypeOK
    <3>3. Pending' /\ WillFlush'
      BY <3>2 DEF Pending, WillFlush
    <3> QED
      BY <1>3, <2>1, <3>1, <3>2, <3>3 DEF WInv, TypeOK, ReadyMeansEmpty, AskForMore
  <2>3. CASE Head(inbox).seq # seq
    <3>1. ~Leads(Head(inbox), seq) /\ pops' = pops
      BY <1>3, <2>1, <2>3 DEF AskForMore, Leads
    <3>2. inbox' \in Seq(Closure) /\ (Pending => Pending')
      BY <2>1, <3>1, RunOther
    <3>3. WillFlush => WillFlush'
      <4>1. ASSUME NEW i \in DOMAIN inbox, inbox[i].op = "flush"
            PROVE  \E j \in DOMAIN inbox' : inbox'[j].op = "flush"
        BY <2>1, <4>1, TailFacts DEF WInv, TypeOK
      <4> QED
        BY <3>2, <4>1 DEF WillFlush
    <3> QED
      BY <1>3, <2>1, <3>1, <3>2, <3>3 DEF WInv, TypeOK, ReadyMeansEmpty, AskForMore
  <2> QED
    BY <2>2, <2>3
<1>4. CASE FlushBuffer
  <2>1. inbox # <<>> /\ inbox' = Tail(inbox) /\ seq' = seq /\ pops' = pops
    BY <1>4 DEF FlushBuffer, Takes
  <2>2. ~Leads(Head(inbox), seq)
    BY <1>4 DEF FlushBuffer, Takes, Leads
  <2>3. inbox' \in Seq(Closure) /\ (Pending => Pending')
    BY <2>1, <2>2, RunOther
  <2> QED
    BY <1>4, <2>1, <2>3 DEF WInv, TypeOK, ReadyMeansEmpty, FlushBuffer
<1> QED
  BY <1>1, <1>2, <1>3, <1>4 DEF Writer

\* Every step of the two actors and of those that send to them keeps the invariant.
LEMMA WriterNext == ASSUME WInv, [Next]_vars PROVE WInv'
<1>1. CASE UNCHANGED vars
  BY <1>1 DEF vars, WInv, TypeOK, ReadyMeansEmpty, Pending, WillFlush, Leads
<1> QED
  BY <1>1, InputInv, PeerInv, WriterInv DEF Next

\* To the peer and its writer, a step of the link is one of theirs or none.
LEMMA LinkStepWriter == ASSUME [LinkNext]_allVars PROVE [Next]_vars
<1>1. CASE RouterSends \/ PeerPops
  BY <1>1 DEF RouterSends, PeerPops, Next
<1>2. CASE Write \/ FlushAll \/ WriterRest
  BY <1>2 DEF Write, FlushAll, WriterRest, Next, Writer
<1>3. CASE Monitor
  BY <1>3 DEF Monitor, MonitorSent, MonitorRecv, MonitorKeepAlive, MonitorStop, Next
<1>4. CASE Read \/ HandlerEnds \/ TimerFires
  BY <1>4 DEF Read, HandlerEnds, TimerFires
<1>5. CASE FarReads \/ FarData \/ FarKeepAlive
  BY <1>5 DEF FarReads, FarData, FarKeepAlive, FarSends
<1> QED
  BY <1>1, <1>2, <1>3, <1>4, <1>5 DEF LinkNext, allVars

\* The link implements the writer: whatever the monitor and the handler do, the peer
\* and its writer behave as PeerWriter says.
THEOREM LinkImplementsWriter == LinkSpec => Spec
<1>1. LinkInit => Init
  BY DEF LinkInit
<1>2. [LinkNext]_allVars => [Next]_vars
  BY LinkStepWriter
<1> QED
  BY <1>1, <1>2, PTL DEF LinkSpec, Spec

\* The invariant of the writer holds in every reachable state.
LEMMA WriterInvariant == LinkSpec => []WInv
<1>1. LinkInit => WInv
  BY WriterInit DEF LinkInit
<1>2. WInv /\ [LinkNext]_allVars => WInv'
  BY LinkStepWriter, WriterNext
<1> QED
  BY <1>1, <1>2, PTL DEF LinkSpec

\* When the peer and its writer have nothing left to do, the peer takes the writer
\* for ready and the buffer is empty (RestsReady, peers.go), unless sendPacket has
\* ignored the last packet: no packet waits for nothing, however keepalives, messages
\* and traffic interleave, and whatever was ignored before.
THEOREM WriterRestsReady == LinkSpec => []RestsReady
<1>1. WInv => RestsReady
  BY DEF WInv, TypeOK, RestsReady, Pending, WillFlush
<1> QED
  BY <1>1, WriterInvariant, PTL

\* No packet waits in the queue while the peer takes the writer for ready
\* (ReadyMeansEmpty, _push and pop): traffic is not reordered.
THEOREM WriterReadyMeansEmpty == LinkSpec => []ReadyMeansEmpty
<1>1. WInv => ReadyMeansEmpty
  BY DEF WInv
<1> QED
  BY <1>1, WriterInvariant, PTL

-----------------------------------------------------------------------------
(* The monitor. *)

\* The closures of the monitor.
MonitorClosure ==
    {Sent(type) : type \in PacketType} \cup {Recv(type) : type \in PacketType}
      \cup {KeepAlive, Stop}

\* Once the handler has returned, a timer that runs is about to be stopped: nothing
\* makes a new one, and the closure that stops it is in the monitor's inbox.
MInv ==
    /\ minbox \in Seq(MonitorClosure)
    /\ received \in Seq(PacketType)
    /\ done /\ keepAliveTimer = "armed" => \E i \in DOMAIN minbox : minbox[i].op = "stop"

\* The fields of the closures tell them apart.
LEMMA MonitorOps ==
    /\ \A type \in PacketType : Sent(type) \in MonitorClosure /\ Recv(type) \in MonitorClosure
    /\ KeepAlive \in MonitorClosure /\ Stop \in MonitorClosure /\ Stop.op = "stop"
  BY Zenon DEF MonitorClosure, Sent, Recv, KeepAlive, Stop

\* What is posted to the monitor does not remove what is in its inbox.
LEMMA PostMInv ==
    ASSUME MInv, NEW c \in MonitorClosure, minbox' = Append(minbox, c),
           received' \in Seq(PacketType),
           \/ done' = done /\ (keepAliveTimer' = "armed" => keepAliveTimer = "armed")
           \/ c.op = "stop"
    PROVE  MInv'
<1>1. minbox \in Seq(MonitorClosure)
  BY DEF MInv
<1>2. /\ minbox' \in Seq(MonitorClosure)
      /\ \A i \in DOMAIN minbox : i \in DOMAIN minbox' /\ minbox'[i] = minbox[i]
      /\ \E i \in DOMAIN minbox' : minbox'[i] = c
  BY <1>1, AppendFacts
<1>3. (\E i \in DOMAIN minbox : minbox[i].op = "stop") \/ c.op = "stop"
         => \E i \in DOMAIN minbox' : minbox'[i].op = "stop"
  BY <1>2
<1> QED
  BY <1>2, <1>3 DEF MInv

\* When the monitor has run another closure, the one that stops the timer is still in
\* its inbox.
LEMMA RunMInv ==
    ASSUME MInv, minbox # <<>>, minbox' = Tail(minbox),
           UNCHANGED <<done, received>>,
           \/ /\ Head(minbox).op # "stop"
              /\ keepAliveTimer' = "armed" => keepAliveTimer = "armed" \/ ~done
           \/ keepAliveTimer' # "armed"
    PROVE  MInv'
<1>1. /\ Tail(minbox) \in Seq(MonitorClosure)
      /\ \A i \in DOMAIN minbox :
            minbox[i] = Head(minbox) \/ \E j \in DOMAIN Tail(minbox) : Tail(minbox)[j] = minbox[i]
  BY TailFacts DEF MInv
<1> QED
  BY <1>1, Zenon DEF MInv

\* Every step of the link keeps the invariant of the monitor.
LEMMA NextMInv == WInv /\ MInv /\ [LinkNext]_allVars => MInv'
<1> SUFFICES ASSUME WInv, MInv, [LinkNext]_allVars PROVE MInv'
  OBVIOUS
<1>1. CASE Write
  <2>1. Head(inbox) \in Closure /\ Head(inbox).op = "sendPacket"
    BY <1>1, TailFacts DEF Write, WritePacket, Takes, WInv, TypeOK
  <2>2. Head(inbox).type \in PacketType
    BY <2>1, ClosureOps DEF Closure, Send, More, Flush
  <2> QED
    BY <1>1, <2>2, PostMInv, MonitorOps DEF Write, timerVars, MInv
<1>2. CASE Read
  <2>1. Head(received) \in PacketType /\ Tail(received) \in Seq(PacketType)
    BY <1>2 DEF Read, MInv
  <2> QED
    BY <1>2, <2>1, PostMInv, MonitorOps DEF Read, timerVars
<1>3. CASE HandlerEnds
  BY <1>3, PostMInv, MonitorOps DEF HandlerEnds, MInv
<1>4. CASE TimerFires
  BY <1>4, PostMInv, MonitorOps DEF TimerFires, MInv
<1>5. CASE Monitor
  <2>1. CASE MonitorSent \/ MonitorStop
    BY <2>1, RunMInv DEF MonitorSent, MonitorStop, MonitorTakes
  <2>2. CASE MonitorRecv
    BY <2>2, RunMInv DEF MonitorRecv, MonitorTakes
  <2>3. CASE MonitorKeepAlive
    BY <2>3, RunMInv DEF MonitorKeepAlive, MonitorTakes, timerVars
  <2> QED
    BY <1>5, <2>1, <2>2, <2>3 DEF Monitor
<1>6. ASSUME NEW type \in PacketType, FarSends(type) PROVE MInv'
  <2>1. received' \in Seq(PacketType) /\ UNCHANGED <<minbox, done, keepAliveTimer>>
    BY <1>6 DEF FarSends, timerVars, MInv
  <2> QED
    BY <2>1, Zenon DEF MInv
<1>7. CASE FarData \/ FarKeepAlive
  BY <1>6, <1>7 DEF FarData, FarKeepAlive, PacketType
<1>8. CASE RouterSends \/ PeerPops \/ FlushAll \/ WriterRest \/ FarReads \/ UNCHANGED allVars
  <2>1. UNCHANGED <<minbox, done, keepAliveTimer, received>>
    BY <1>8 DEF RouterSends, PeerPops, FlushAll, WriterRest, FarReads, allVars, monitorVars,
                timerVars
  <2> QED
    BY <2>1 DEF MInv
<1> QED
  BY <1>1, <1>2, <1>3, <1>4, <1>5, <1>7, <1>8 DEF LinkNext

\* A handler that has returned leaves no keepalive timer running once the monitor has
\* handled what it was sent (NoTimerLeft, peers.go): what arrives late does not start
\* one.
THEOREM NoTimerStaysArmed == LinkSpec => []NoTimerLeft
<1>1. LinkInit => MInv
  <2> SUFFICES ASSUME LinkInit PROVE MInv
    OBVIOUS
  <2>1. minbox = <<>> /\ received = <<>> /\ keepAliveTimer = "nil"
    BY DEF LinkInit
  <2> QED
    BY <2>1 DEF MInv
<1>2. MInv => NoTimerLeft
  BY DEF MInv, NoTimerLeft
<1> QED
  BY <1>1, <1>2, NextMInv, WriterInvariant, PTL DEF LinkSpec
=============================================================================
