----------------------------- MODULE NetManager -----------------------------
(***************************************************************************)
(* The receiving side of package encrypted: the netManager of              *)
(* encrypted/network.go and ReadFrom of encrypted/packetconn.go, on top of *)
(* the PacketConn of package network.  A loop, run by the netManager's     *)
(* actor, reads packets and hands them to the sessions, whose payloads     *)
(* reach the readers through the channel readCh, which has room for one.   *)
(* The loop ends with any error, and ReadFrom starts it again.             *)
(*                                                                         *)
(* The PacketConn of package network is used by itself as well: its own    *)
(* readers and the loop are the readers of PacketConn.                     *)
(***************************************************************************)
EXTENDS PacketConn

CONSTANTS
    Loop,           \* the loop, as a reader of PacketConn
    User            \* the goroutines that call ReadFrom of package encrypted

ASSUME NetManagerAssumption == Loop \in Reader

VARIABLES
    minbox,         \* the closures of the netManager: "start", and "rl", the loop
    running,        \* m.running
    rinbox,         \* the packets that the actor m.reader is to put into readCh
    readCh,         \* m.readCh
    mclosed,        \* m.closed is closed
    user,           \* user[u]: "idle", "waiting" or "done"
    passed, got     \* the packets that the sessions passed on and that users got

netVars == <<minbox, running, rinbox, readCh, mclosed, user, passed, got>>
allVars == <<vars, netVars>>

Err(kind) == [err |-> kind]
Data(p) == [data |-> p]

-----------------------------------------------------------------------------
(* PacketConn.ReadFrom of package encrypted. *)

UserReads(u) ==
    /\ user[u] = "idle"
    /\ user' = [user EXCEPT ![u] = "waiting"]
    /\ minbox' = Append(minbox, "start")
    /\ UNCHANGED <<vars, running, rinbox, readCh, mclosed, passed, got>>

\* A user gives up with types.ErrClosed.
UserReturns(u) ==
    /\ user[u] = "waiting"
    /\ readCh # <<>>
    /\ readCh' = <<>>
    /\ user' = [user EXCEPT ![u] = IF Head(readCh) = Err("closed") THEN "done" ELSE "idle"]
    /\ got' = got \cup {p \in passed : Head(readCh) = Data(p)}
    /\ UNCHANGED <<vars, minbox, running, rinbox, mclosed, passed>>

-----------------------------------------------------------------------------
(* The actor of the netManager. *)

\* read: start the loop, unless it runs.
StartLoop ==
    /\ minbox # <<>> /\ Head(minbox) = "start"
    /\ minbox' = Tail(minbox) \o IF running THEN <<>> ELSE <<"rl">>
    /\ running' = TRUE
    /\ UNCHANGED <<vars, rinbox, readCh, mclosed, user, passed, got>>

\* rl: the actor waits in ReadFrom of package network,
LoopReads ==
    /\ minbox # <<>> /\ Head(minbox) = "rl"
    /\ ReadFrom(Loop) \/ StartSelect(Loop)
    /\ UNCHANGED netVars

\* which returns a packet; its session may accept it or not.
LoopPacket ==
    /\ ReturnPacket(Loop)
    /\ minbox' = Append(Tail(minbox), "rl")
    /\ \/ /\ rinbox' = Append(rinbox, Head(recv))
          /\ passed' = passed \cup {Head(recv)}
       \/ UNCHANGED <<rinbox, passed>>
    /\ UNCHANGED <<running, readCh, mclosed, user, got>>

\* Faults: m.running stays set; the error replaces what is in readCh; it is not
\* passed on.
LoopErrorKeepsRunning(kind) ==
    /\ minbox' = Tail(minbox)
    /\ mclosed' = (mclosed \/ closed)
    /\ readCh' = IF readCh = <<>> THEN <<Err(kind)>> ELSE readCh
    /\ UNCHANGED <<running, rinbox, user, passed, got>>
LoopErrorReplaces(kind) ==
    /\ minbox' = Tail(minbox)
    /\ running' = FALSE
    /\ mclosed' = (mclosed \/ closed)
    /\ readCh' = <<Err(kind)>>
    /\ UNCHANGED <<rinbox, user, passed, got>>

LoopErrorUnsaid(kind) ==
    /\ minbox' = Tail(minbox)
    /\ running' = FALSE
    /\ mclosed' = (mclosed \/ closed)
    /\ UNCHANGED <<readCh, rinbox, user, passed, got>>

\* or an error, which is passed on if there is room.
LoopError(kind) ==
    /\ minbox' = Tail(minbox)
    /\ running' = FALSE
    /\ mclosed' = (mclosed \/ closed)
    /\ readCh' = IF readCh = <<>> THEN <<Err(kind)>> ELSE readCh
    /\ UNCHANGED <<rinbox, user, passed, got>>

LoopEnds ==
    \/ ReturnTimeout(Loop) /\ LoopError("timeout")
    \/ ReturnClosed(Loop, "idle") /\ LoopError("closed")

\* recv: the actor m.reader waits until readCh has room, or drops the packet.
PassOn ==
    /\ rinbox # <<>>
    /\ rinbox' = Tail(rinbox)
    /\ \/ readCh = <<>> /\ readCh' = <<Data(Head(rinbox))>>
       \/ mclosed /\ UNCHANGED readCh
    /\ UNCHANGED <<vars, minbox, running, mclosed, user, passed, got>>

-----------------------------------------------------------------------------

\* The application uses the one package or the other, which then has one packet to
\* come.
NetInit ==
    /\ Init
    /\ \/ /\ reader = [r \in Reader |-> IF r = Loop THEN "idle" ELSE "done"]
          /\ user = [u \in User |-> "idle"]
          /\ arrived = MaxPackets - 1
       \/ /\ reader = [r \in Reader |-> IF r = Loop THEN "done" ELSE "idle"]
          /\ user = [u \in User |-> "done"]
    /\ minbox = <<>>
    /\ running = FALSE
    /\ rinbox = <<>>
    /\ readCh = <<>>
    /\ mclosed = FALSE
    /\ passed = {}
    /\ got = {}

Manager == StartLoop \/ LoopReads \/ LoopPacket \/ LoopEnds

NetNext ==
    /\ ~panicked
    /\ \/ (ConnStep \/ \E r \in Reader \ {Loop} : ReaderStep(r)) /\ UNCHANGED netVars
       \/ Manager
       \/ PassOn
       \/ \E u \in User : UserReads(u) \/ UserReturns(u)

NetSpec == NetInit /\ [][NetNext]_allVars

\* The actors run and the readers keep reading.
NetFairSpec ==
    /\ NetSpec
    /\ \A r \in Reader \ {Loop} : WF_allVars(~panicked /\ ReaderStep(r) /\ UNCHANGED netVars)
    /\ WF_allVars(~panicked /\ Actor /\ UNCHANGED netVars)
    /\ WF_allVars(~panicked /\ Manager)
    /\ WF_allVars(~panicked /\ PassOn)
    /\ \A u \in User : WF_allVars(~panicked /\ (UserReads(u) \/ UserReturns(u)))

-----------------------------------------------------------------------------

\* m.running says whether the loop is there, and there is never a second one.
OneLoop ==
    Cardinality({i \in DOMAIN minbox : minbox[i] = "rl"}) = IF running THEN 1 ELSE 0

\* A packet that a session has passed on is read, unless the PacketConn closes.
PassedOn == passed # got ~> passed = got \/ closed \/ panicked

\* Once the PacketConn is closed, a read that waits returns.  This is so for the
\* first that returns types.ErrClosed; another reader may wait for good.
CloseNoticed ==
    closed /\ (\E u \in User : user[u] = "waiting")
      ~> (\E u \in User : user[u] = "done") \/ panicked \/ BoundReached
=============================================================================
