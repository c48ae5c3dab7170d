----------------------------- MODULE PacketConn -----------------------------
(***************************************************************************)
(* The receiving side of network/packetconn.go.  Readers ask the actor of  *)
(* the PacketConn for a packet and wait on the channel recv, which has     *)
(* room for one; the router's goroutine hands in traffic.  recvReady       *)
(* counts the requests that found the queue empty.                         *)
(***************************************************************************)
EXTENDS Deadline, Sequences

CONSTANTS
    Reader,         \* the goroutines that call ReadFrom
    MaxPackets,     \* how many packets arrive
    MaxAsked        \* how many requests may be without a packet at a time

ASSUME PacketConnAssumption == MaxPackets \in Nat /\ MaxAsked \in Nat

VARIABLES
    inbox,          \* the actor's inbox: "pop", or a packet with its number
    recvReady, recvq, recv,
    closed,         \* pc.closed is closed
    panicked,       \* a panic has ended the process
    reader,         \* reader[r]: "idle", "called", "waiting" or "done"
    waitsOn,        \* waitsOn[r]: the cancel channel of the read
    arrived,        \* how many packets have arrived
    settled         \* the packets that were read, dropped or not for us

connVars == <<inbox, recvReady, recvq, recv, closed, panicked, reader, waitsOn,
              arrived, settled>>
vars == <<deadlineVars, connVars>>

Pop == [type |-> "pop"]
Traffic(p, mine) == [type |-> "traffic", number |-> p, mine |-> mine]

-----------------------------------------------------------------------------
(* ReadFrom. *)

\* The requests that the actor has not handled.
Asked == {i \in DOMAIN inbox : inbox[i] = Pop}

BoundReached == recvReady + Cardinality(Asked) >= MaxAsked

\* doPop posts to the actor.
ReadFrom(r) ==
    /\ reader[r] = "idle"
    /\ ~BoundReached
    /\ reader' = [reader EXCEPT ![r] = "called"]
    /\ inbox' = Append(inbox, Pop)
    /\ UNCHANGED <<deadlineVars, recvReady, recvq, recv, closed, panicked, waitsOn,
                   arrived, settled>>

\* The select starts: it evaluates getCancel once.
StartSelect(r) ==
    /\ reader[r] = "called"
    /\ reader' = [reader EXCEPT ![r] = "waiting"]
    /\ waitsOn' = [waitsOn EXCEPT ![r] = cancel]
    /\ UNCHANGED <<deadlineVars, inbox, recvReady, recvq, recv, closed, panicked,
                   arrived, settled>>

Return(r, next) ==
    /\ reader[r] = "waiting"
    /\ reader' = [reader EXCEPT ![r] = next]
    /\ UNCHANGED <<deadlineVars, inbox, recvReady, recvq, closed, panicked, waitsOn, arrived>>

ReturnPacket(r) ==
    /\ Return(r, "idle")
    /\ recv # <<>>
    /\ recv' = Tail(recv)
    /\ settled' = settled \cup {Head(recv)}

ReturnTimeout(r) ==
    /\ Return(r, "idle")
    /\ waitsOn[r] \in cancelled
    /\ UNCHANGED <<recv, settled>>

ReturnClosed(r, next) ==
    /\ Return(r, next)
    /\ closed
    /\ UNCHANGED <<recv, settled>>

-----------------------------------------------------------------------------
(* The actor. *)

Take(item) ==
    /\ inbox # <<>>
    /\ Head(inbox) = item
    /\ inbox' = Tail(inbox)
    /\ UNCHANGED <<deadlineVars, closed, reader, waitsOn, arrived>>

\* handleTraffic, for another key.
RefuseTraffic(p) ==
    /\ Take(Traffic(p, FALSE))
    /\ settled' = settled \cup {p}
    /\ UNCHANGED <<recvReady, recvq, recv, panicked>>

ReaderReady == recvReady > 0

\* handleTraffic, when a reader is ready: the actor waits until recv has room.
PassTraffic(p) ==
    /\ Take(Traffic(p, TRUE))
    /\ ReaderReady
    /\ \/ /\ recv = <<>>
          /\ recv' = <<p>>
          /\ recvReady' = recvReady - 1
          /\ UNCHANGED settled
       \/ /\ closed
          /\ settled' = settled \cup {p}
          /\ UNCHANGED <<recv, recvReady>>
    /\ UNCHANGED <<recvq, panicked>>

\* handleTraffic, when none is: the queue takes the packet, and drops one of its
\* own if its oldest has waited for too long.
QueueTraffic(p) ==
    /\ Take(Traffic(p, TRUE))
    /\ ~ReaderReady
    /\ \E dropped \in {{}} \cup {{d} : d \in recvq} :
         /\ recvq' = (recvq \ dropped) \cup {p}
         /\ settled' = settled \cup dropped
    /\ UNCHANGED <<recvReady, recv, panicked>>

\* Fault: the request is forgotten.
PopForgotten ==
    /\ Take(Pop)
    /\ recvq = {}
    /\ UNCHANGED <<recvReady, recvq, recv, panicked, settled>>

\* doPop, when the queue is empty.
PopNothing ==
    /\ Take(Pop)
    /\ recvq = {}
    /\ recvReady' = recvReady + 1
    /\ UNCHANGED <<recvq, recv, panicked, settled>>

\* doPop, when it is not: recv takes the oldest packet.  Without room the code
\* panics, unless the PacketConn is closed.
PopPacket ==
    /\ Take(Pop)
    /\ \E p \in recvq :
         /\ \A q \in recvq : p <= q
         /\ recvq' = recvq \ {p}
         /\ \/ recv = <<>> /\ recv' = <<p>> /\ UNCHANGED <<settled, panicked>>
            \/ closed /\ settled' = settled \cup {p} /\ UNCHANGED <<recv, panicked>>
            \/ recv # <<>> /\ ~closed /\ panicked' = TRUE /\ UNCHANGED <<recv, settled>>
    /\ UNCHANGED recvReady

-----------------------------------------------------------------------------

\* The router hands in a packet.
Arrive(mine) ==
    /\ arrived < MaxPackets
    /\ arrived' = arrived + 1
    /\ inbox' = Append(inbox, Traffic(arrived + 1, mine))
    /\ UNCHANGED <<deadlineVars, recvReady, recvq, recv, closed, panicked, reader,
                   waitsOn, settled>>

Close ==
    /\ ~closed
    /\ closed' = TRUE
    /\ UNCHANGED <<deadlineVars, inbox, recvReady, recvq, recv, panicked, reader,
                   waitsOn, arrived, settled>>

\* Some packets have come and gone before.
Init ==
    /\ DeadlineInit
    /\ inbox = <<>>
    /\ recvReady = 0
    /\ recvq = {}
    /\ recv = <<>>
    /\ closed = FALSE
    /\ panicked = FALSE
    /\ reader \in [Reader -> {"idle", "done"}]
    /\ waitsOn = [r \in Reader |-> 0]
    /\ arrived \in 0..MaxPackets
    /\ settled = 1..arrived

Actor ==
    \/ \E p \in 1..MaxPackets : RefuseTraffic(p) \/ PassTraffic(p) \/ QueueTraffic(p)
    \/ PopNothing
    \/ PopPacket

\* A reader that keeps reading until it gets types.ErrClosed.
ReaderStep(r) ==
    \/ ReadFrom(r) \/ StartSelect(r)
    \/ ReturnPacket(r) \/ ReturnTimeout(r) \/ ReturnClosed(r, "done")

\* What happens without the readers.
ConnStep ==
    \/ DeadlineNext /\ UNCHANGED connVars
    \/ Actor
    \/ \E mine \in BOOLEAN : Arrive(mine)
    \/ Close

Next == ~panicked /\ (ConnStep \/ \E r \in Reader : ReaderStep(r))

Spec == Init /\ [][Next]_vars

-----------------------------------------------------------------------------

\* No reader of ReadFrom waits while packets lie in the queue and nothing is about
\* to wake it: there is a packet in recv, or a request that doPop has yet to handle.
NoLostWakeup ==
    (\E r \in Reader : reader[r] = "waiting") /\ recvq # {} /\ ~closed
      => recv # <<>> \/ Asked # {}

\* doPop always finds room in recv: the panic "this should never happen".
NoPanic == ~panicked

\* Every packet that arrives is read or dropped while readers keep reading without
\* a deadline, unless the PacketConn closes or panics.
AllSettled ==
    settled # 1..arrived ~> settled = 1..arrived \/ once > 0 \/ closed \/ panicked
=============================================================================
