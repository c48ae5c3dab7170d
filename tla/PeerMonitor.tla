---------------------------- MODULE PeerMonitor ----------------------------
(***************************************************************************)
(* The peerMonitor of network/peers.go.  It sees to it that a silent       *)
(* connection is noticed and an idle one is not taken for silent: whoever  *)
(* sends sets a read deadline, since an answer is due, and whoever         *)
(* receives owes one, if only a keepalive.                                 *)
(*                                                                         *)
(* The monitor is an actor: the writer and the handler post closures to    *)
(* it, and so does its timer.  The peer and the writer are those of        *)
(* PeerWriter, with its queue and its buffer.  The far end of the          *)
(* connection runs the same code; of it only the outcome is modelled, that *)
(* it owes an answer and expects one.  Time is left out: a timer may go    *)
(* off whenever it is armed.                                               *)
(***************************************************************************)
EXTENDS PeerWriter

CONSTANT MaxData    \* how many packets the far end sends

ASSUME PeerMonitorAssumption == MaxData \in Nat

VARIABLES
    minbox,         \* the closures in the monitor's inbox
    keepAliveTimer, \* "nil", "armed" or "fired"
    deadlined,      \* the read deadline is set
    done,           \* the handler has returned
    sent, received, \* the types of the packets on their way to the far end, and from it
    owes, expects,  \* the far end owes an answer, expects one
    data            \* how many packets the far end has sent

timerVars == <<keepAliveTimer, deadlined>>
farVars == <<owes, expects, data>>
monitorVars == <<minbox, timerVars, done, sent, received, farVars>>
allVars == <<vars, monitorVars>>

Sent(type) == [op |-> "sent", type |-> type]
Recv(type) == [op |-> "recv", type |-> type]
KeepAlive == [op |-> "keepAlive"]
Stop == [op |-> "stop"]

\* Faults: no packet is answered, or even a keepalive is.
AnsweredNever(type) == FALSE
AnsweredAlways(type) == TRUE

\* The types of the packets that are answered, if only by a keepalive.
Answered(type) == type # "keepalive"

-----------------------------------------------------------------------------
(* The writer and the handler. *)

\* Nothing is sent once the connection is closed.
Transmit(ts) == sent' = IF done THEN sent ELSE sent \o ts

\* _write: the monitor learns of the packet; what was in the buffer is sent when the
\* packet finds no room in it.
Write ==
    /\ WritePacket
    /\ minbox' = Append(minbox, Sent(Head(inbox).type))
    /\ Transmit(IF Len(wbuf') > Len(wbuf) THEN <<>> ELSE wbuf)
    /\ UNCHANGED <<timerVars, done, received, farVars>>

FlushAll ==
    /\ FlushBuffer
    /\ Transmit(wbuf)
    /\ UNCHANGED <<minbox, timerVars, done, received, farVars>>

WriterRest == (IgnorePacket \/ AskForMore) /\ UNCHANGED monitorVars
PeerPops == Peer /\ UNCHANGED monitorVars

RouterSends ==
    /\ \/ \E size \in PacketSize : PushReady(size) \/ PushQueue(size)
       \/ SendDirect
    /\ UNCHANGED monitorVars

\* handler and _handlePacket.
Read ==
    /\ ~done
    /\ received # <<>>
    /\ received' = Tail(received)
    /\ minbox' = Append(minbox, Recv(Head(received)))
    /\ UNCHANGED <<vars, timerVars, done, sent, farVars>>

\* The handler returns, for an error or because the deadline has passed.
HandlerEnds ==
    /\ ~done
    /\ done' = TRUE
    /\ minbox' = Append(minbox, Stop)
    /\ UNCHANGED <<vars, timerVars, sent, received, farVars>>

-----------------------------------------------------------------------------
(* The monitor. *)

MonitorTakes(op) ==
    /\ minbox # <<>>
    /\ Head(minbox).op = op
    /\ minbox' = Tail(minbox)

\* sent: no keepalive is needed; an answer is due, unless this is a keepalive.
MonitorSent ==
    /\ MonitorTakes("sent")
    /\ keepAliveTimer' = "nil"
    /\ deadlined' = (deadlined \/ Answered(Head(minbox).type))
    /\ UNCHANGED <<vars, done, sent, received, farVars>>

\* recv: the answer has come; one is owed, unless this is a keepalive.
MonitorRecv ==
    /\ MonitorTakes("recv")
    /\ deadlined' = FALSE
    /\ keepAliveTimer' = IF keepAliveTimer = "nil" /\ Answered(Head(minbox).type) /\ ~done
                         THEN "armed" ELSE keepAliveTimer
    /\ UNCHANGED <<vars, done, sent, received, farVars>>

\* The timer goes off: keepAlive is queued.
TimerFires ==
    /\ keepAliveTimer = "armed"
    /\ keepAliveTimer' = "fired"
    /\ minbox' = Append(minbox, KeepAlive)
    /\ UNCHANGED <<vars, deadlined, done, sent, received, farVars>>

\* keepAlive: have the writer send one.
MonitorKeepAlive ==
    /\ MonitorTakes("keepAlive")
    /\ IF done THEN UNCHANGED vars ELSE SendKeepAlive
    /\ UNCHANGED <<timerVars, done, sent, received, farVars>>

\* Fault: the timer is left alone.
MonitorStopLeavesTimer ==
    /\ MonitorTakes("stop")
    /\ UNCHANGED <<vars, timerVars, done, sent, received, farVars>>

\* The deferred closure of the handler.
MonitorStop ==
    /\ MonitorTakes("stop")
    /\ keepAliveTimer' = "nil"
    /\ UNCHANGED <<vars, deadlined, done, sent, received, farVars>>

Monitor == MonitorSent \/ MonitorRecv \/ MonitorKeepAlive \/ MonitorStop

-----------------------------------------------------------------------------
(* The far end. *)

FarReads ==
    /\ sent # <<>>
    /\ sent' = Tail(sent)
    /\ owes' = (owes \/ Answered(Head(sent)))
    /\ expects' = FALSE
    /\ UNCHANGED <<vars, minbox, timerVars, done, received, data>>

\* It sends a packet, or a keepalive if it owes an answer.
FarSends(type) ==
    /\ received' = Append(received, type)
    /\ owes' = FALSE
    /\ UNCHANGED <<vars, minbox, timerVars, done, sent>>

FarData ==
    /\ data < MaxData
    /\ data' = data + 1
    /\ expects' = TRUE
    /\ FarSends("data")

FarKeepAlive == owes /\ FarSends("keepalive") /\ UNCHANGED <<data, expects>>

-----------------------------------------------------------------------------

LinkInit ==
    /\ Init
    /\ minbox = <<>>
    /\ keepAliveTimer = "nil"
    /\ deadlined = FALSE
    /\ done = FALSE
    /\ sent = <<>> /\ received = <<>>
    /\ owes = FALSE /\ expects = FALSE
    /\ data = 0

LinkNext ==
    \/ RouterSends \/ PeerPops
    \/ Write \/ FlushAll \/ WriterRest
    \/ Read \/ HandlerEnds
    \/ Monitor \/ TimerFires
    \/ FarReads \/ FarData \/ FarKeepAlive

LinkSpec == LinkInit /\ [][LinkNext]_allVars

\* Actors handle what they are sent, timers go off, the handler reads on, and so
\* does the far end.
LinkFairSpec ==
    /\ LinkSpec
    /\ WF_allVars(Write \/ FlushAll \/ WriterRest) /\ WF_allVars(PeerPops)
    /\ WF_allVars(Read)
    /\ WF_allVars(Monitor) /\ WF_allVars(TimerFires)
    /\ WF_allVars(FarReads) /\ WF_allVars(FarKeepAlive)

-----------------------------------------------------------------------------

\* A handler that has returned leaves no timer behind that would write to the
\* closed connection.
NoTimerLeft == done /\ minbox = <<>> => keepAliveTimer # "armed"

\* Keepalives are not answered: an idle connection falls silent.
FallsSilent == <>[](done \/ (sent = <<>> /\ received = <<>>))

\* Whoever expects an answer gets one, however idle the two ends are, even though
\* what is sent has to pass the queue and the buffer of the writer first.  A packet
\* that sendPacket ignores breaks this if nothing is written after it: what was in
\* the buffer is not flushed, and an end waits for the answer until its deadline.
AnswerArrives ==
    \/ <>[]ignored
    \/ []<>(~deadlined \/ done) /\ []<>(~expects \/ done)
=============================================================================
