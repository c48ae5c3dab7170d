------------------------------- MODULE Session -------------------------------
(***************************************************************************)
(* The sessions of encrypted/session.go between two nodes.  Each has three *)
(* key pairs, recv, send and next, and knows two of the other's, current   *)
(* and next; inits, acks and traffic make the keys advance.                *)
(*                                                                         *)
(* A key pair is a name: its owner and a number.  The secret shared by two *)
(* key pairs is the set of the two.  A session's closures are posted by    *)
(* its manager only and touch nothing of the manager's, so the manager's   *)
(* closure and the session's that it posts are one action.  The network    *)
(* may lose, repeat and reorder: net holds all that was ever sent.         *)
(***************************************************************************)
EXTENDS Integers, Sequences, Functions

CONSTANTS
    Node,           \* the two nodes
    MaxNonce,       \* the largest nonce: 2^64 - 1 in the code
    MaxKeys,        \* how many key pairs a node makes
    MaxTime,        \* how far the nodes' clocks run
    MaxWrites       \* how many messages a node writes

ASSUME SessionAssumption ==
    /\ \E a, b \in Node : a # b /\ Node = {a, b}
    /\ {MaxNonce, MaxKeys, MaxTime, MaxWrites} \subseteq Nat

VARIABLES
    session,        \* session[n]: n's session with the other node, or None
    buffer,         \* buffer[n]: n's buffer for it, or None
    net,            \* every message that was sent
    keys,           \* keys[n]: how many key pairs n has made
    now,            \* now[n]: n's clock, in seconds
    written         \* written[n]: how many messages n's user has written

vars == <<session, buffer, net, keys, now, written>>

None == [none |-> TRUE]
Other(n) == CHOOSE m \in Node : m # n

Key(n, i) == [owner |-> n, number |-> i]

\* newSessionInit, sent by n at time t.
InitMsg(n, type, current, next, keySeq, t) ==
    [type |-> type, to |-> Other(n), current |-> current, next |-> next,
     keySeq |-> keySeq, seq |-> t]

\* _sendInit and _sendAck: the session's own keys.
SessionMsg(n, type, s, t) == InitMsg(n, type, s.sendPub, s.nextPub, s.localKeySeq, t)

-----------------------------------------------------------------------------
(* sessionInfo: operations on a session s. *)

\* newSession, with the key pairs k + 1, k + 2 and k + 3.
NewSession(n, init, k) ==
    [seq |-> init.seq - 1, remoteKeySeq |-> 0, current |-> init.current, next |-> init.next,
     localKeySeq |-> 0, recvPub |-> Key(n, k + 1), sendPub |-> Key(n, k + 2),
     nextPub |-> Key(n, k + 3), recvNonce |-> 0, sendNonce |-> 0,
     nextSendNonce |-> 0, nextRecvNonce |-> 0, rotated |-> FALSE]

\* Fault: the key pair for sending is kept.
AdvanceKeepsSend(n, s, k, recvNonce, sendNonce) ==
    [s EXCEPT !.recvPub = s.sendPub, !.nextPub = Key(n, k + 1),
              !.localKeySeq = @ + 1, !.recvNonce = recvNonce, !.sendNonce = sendNonce,
              !.nextSendNonce = 0, !.nextRecvNonce = 0]

\* Fault: the nonces of messages from the next key pair are kept.
AdvanceKeepsNonces(n, s, k, recvNonce, sendNonce) ==
    [s EXCEPT !.recvPub = s.sendPub, !.sendPub = s.nextPub, !.nextPub = Key(n, k + 1),
              !.localKeySeq = @ + 1, !.recvNonce = recvNonce, !.sendNonce = sendNonce]

\* The key pairs advance; _fixShared resets the nonces that belong to them.
Advance(n, s, k, recvNonce, sendNonce) ==
    [s EXCEPT !.recvPub = s.sendPub, !.sendPub = s.nextPub, !.nextPub = Key(n, k + 1),
              !.localKeySeq = @ + 1, !.recvNonce = recvNonce, !.sendNonce = sendNonce,
              !.nextSendNonce = 0, !.nextRecvNonce = 0]

\* _handleUpdate.
HandleUpdate(n, s, init, k) ==
    Advance(n, [s EXCEPT !.current = init.current, !.next = init.next, !.seq = init.seq,
                         !.remoteKeySeq = init.keySeq], k, 0, s.sendNonce)

\* The session after doSend: the nonce advances, and the keys if it overflows.
Sent(n, s, k) ==
    IF s.sendNonce = MaxNonce THEN Advance(n, s, k, 0, 0) ELSE [s EXCEPT !.sendNonce = @ + 1]

SentKeys(s) == IF s.sendNonce = MaxNonce THEN 1 ELSE 0

\* What doSend writes, when it leaves the session as s.
TrafficMsg(n, s, payload) ==
    [type |-> "traffic", to |-> Other(n), localKeySeq |-> s.localKeySeq,
     remoteKeySeq |-> s.remoteKeySeq, nonce |-> s.sendNonce,
     shared |-> {s.current, s.sendPub}, inner |-> s.nextPub, payload |-> payload]

FromCurrent(s, m) == m.localKeySeq = s.remoteKeySeq
FromNext(s, m) == m.localKeySeq = s.remoteKeySeq + 1
ToRecv(s, m) == m.remoteKeySeq + 1 = s.localKeySeq
ToSend(s, m) == m.remoteKeySeq = s.localKeySeq

\* The cases of doRecv's switch; the largest nonce that each takes for old, and
\* the secret with which it opens the message.
Understood(s, m) ==
    \/ FromCurrent(s, m) /\ ToRecv(s, m)
    \/ FromNext(s, m) /\ (ToSend(s, m) \/ ToRecv(s, m))

OldNonce(s, m) ==
    IF FromCurrent(s, m) THEN s.recvNonce
    ELSE IF ToSend(s, m) THEN s.nextSendNonce ELSE s.nextRecvNonce

Secret(s, m) ==
    {IF FromCurrent(s, m) THEN s.current ELSE s.next,
     IF FromNext(s, m) /\ ToSend(s, m) THEN s.sendPub ELSE s.recvPub}

\* onSuccess, without a rotation.
NonceNoted(s, m) ==
    IF FromCurrent(s, m) THEN [s EXCEPT !.recvNonce = m.nonce]
    ELSE IF ToSend(s, m) THEN [s EXCEPT !.nextSendNonce = m.nonce]
    ELSE [s EXCEPT !.nextRecvNonce = m.nonce]

\* onSuccess, when the remote side has ratcheted forward: rotate their keys and our
\* own.
Ratchet(n, s, m, k) ==
    [Advance(n, [s EXCEPT !.current = s.next, !.next = m.inner, !.remoteKeySeq = @ + 1],
             k, m.nonce, 0) EXCEPT !.rotated = TRUE]

-----------------------------------------------------------------------------
(* sessionManager: what n does, as a function of its state x, a record of  *)
(* its session, its buffer and the number of its keys, of what it has sent *)
(* in order, and of what its reader got.  t is the time.                   *)

\* writeTo with a session; without, _bufferAndInit.  A buffer keeps its init and the
\* last message.
WriteTo(n, x, t, payload) ==
    LET s == Sent(n, x.session, x.keys)
        init == IF x.buffer = None
                THEN InitMsg(n, "init", Key(n, x.keys + 1), Key(n, x.keys + 2), 0, t)
                ELSE x.buffer.init
    IN  IF x.session # None
        THEN [x EXCEPT !.session = s, !.keys = @ + SentKeys(x.session),
                       !.out = Append(@, TrafficMsg(n, s, payload))]
        ELSE [x EXCEPT !.buffer = [init |-> init, data |-> payload],
                       !.keys = IF x.buffer = None THEN @ + 2 ELSE @,
                       !.out = Append(@, init)]

\* _handleInit and _handleAck with a session: handleInit or handleAck.
UpdateSession(n, x, t, m) ==
    LET s == HandleUpdate(n, x.session, m, x.keys)
    IN  IF m.seq <= x.session.seq THEN x
        ELSE [x EXCEPT !.session = s, !.keys = @ + 1,
                       !.out = IF m.type = "init" THEN Append(@, SessionMsg(n, "ack", s, t)) ELSE @]

\* _handleInit and _handleAck without: _sessionForInit, with the keys of the buffer
\* if there is one; then handleInit, and doSend of the buffer's message.
CreateSession(n, x, t, m) ==
    LET b == x.buffer
        new == NewSession(n, m, x.keys)
        s == HandleUpdate(n, IF b = None THEN new
                             ELSE [new EXCEPT !.sendPub = b.init.current,
                                              !.nextPub = b.init.next],
                          m, x.keys + 3)
        y == [x EXCEPT !.session = s, !.buffer = None, !.keys = @ + 4,
                       !.out = Append(@, SessionMsg(n, "ack", s, t))]
    IN  IF b = None THEN y ELSE WriteTo(n, y, t, b.data)

\* _handleTraffic without a session: an init with keys that are forgotten.
TrafficNoSession(n, x, t) ==
    [x EXCEPT !.keys = @ + 2,
              !.out = Append(@, InitMsg(n, "init", Key(n, x.keys + 1), Key(n, x.keys + 2), 0, t))]

\* Fault: what cannot be opened is dropped.
UnopenedDropped(n, x, t) == x

\* doRecv, when the key numbers make no sense, or make sense but the message cannot
\* be opened: ask for an ack.
Unopened(n, x, t) == [x EXCEPT !.out = Append(@, SessionMsg(n, "init", x.session, t))]

\* doRecv: an old message is dropped, one that can be opened is passed on.  If the
\* remote side has ratcheted forward, we do, too, but not twice within a minute.
DoRecv(n, x, t, m, minute) ==
    LET s == x.session
        y == [x EXCEPT !.session = NonceNoted(s, m), !.got = @ \cup {m.payload}]
    IN  IF Understood(s, m) /\ m.nonce <= OldNonce(s, m) THEN x
        ELSE IF ~Understood(s, m) \/ m.shared # Secret(s, m) THEN Unopened(n, x, t)
        ELSE IF FromCurrent(s, m) \/ (s.rotated /\ ~minute) THEN y
        ELSE [y EXCEPT !.session = Ratchet(n, @, m, x.keys), !.keys = @ + 1]

\* handleData.
HandleData(n, x, t, m, minute) ==
    IF m.type = "traffic"
    THEN IF x.session = None THEN TrafficNoSession(n, x, t) ELSE DoRecv(n, x, t, m, minute)
    ELSE IF x.session = None THEN CreateSession(n, x, t, m) ELSE UpdateSession(n, x, t, m)

-----------------------------------------------------------------------------

Local(n) == [session |-> session[n], buffer |-> buffer[n], keys |-> keys[n],
             out |-> <<>>, got |-> {}]

\* n's state becomes x.
Becomes(n, x) ==
    /\ x.keys <= MaxKeys
    /\ session' = [session EXCEPT ![n] = x.session]
    /\ buffer' = [buffer EXCEPT ![n] = x.buffer]
    /\ keys' = [keys EXCEPT ![n] = x.keys]
    /\ net' = net \cup Range(x.out)

Write(n) ==
    /\ written[n] < MaxWrites
    /\ written' = [written EXCEPT ![n] = @ + 1]
    /\ Becomes(n, WriteTo(n, Local(n), now[n], written[n] + 1))
    /\ UNCHANGED now

\* Whether it is more than a minute since n rotated its keys.
MinutePassed(n) == {TRUE, session[n] = None \/ ~session[n].rotated}

Receive(m) ==
    /\ \E minute \in MinutePassed(m.to) :
          Becomes(m.to, HandleData(m.to, Local(m.to), now[m.to], m, minute))
    /\ UNCHANGED <<now, written>>

\* The timer of a session or of a buffer; a node that restarts loses both.
ExpireSession(n) ==
    /\ session[n] # None
    /\ session' = [session EXCEPT ![n] = None]
    /\ UNCHANGED <<buffer, net, keys, now, written>>

ExpireBuffer(n) ==
    /\ buffer[n] # None
    /\ buffer' = [buffer EXCEPT ![n] = None]
    /\ UNCHANGED <<session, net, keys, now, written>>

Tick(n) ==
    /\ now[n] < MaxTime
    /\ now' = [now EXCEPT ![n] = @ + 1]
    /\ UNCHANGED <<session, buffer, net, keys, written>>

Init ==
    /\ session = [n \in Node |-> None]
    /\ buffer = [n \in Node |-> None]
    /\ net = {}
    /\ keys = [n \in Node |-> 0]
    /\ now = [n \in Node |-> 1]
    /\ written = [n \in Node |-> 0]

Next ==
    \/ \E n \in Node : Write(n)
    \/ \E m \in net : Receive(m)
    \/ \E n \in Node : ExpireSession(n) \/ ExpireBuffer(n) \/ Tick(n)

Spec == Init /\ [][Next]_vars

-----------------------------------------------------------------------------

Traffic == {m \in net : m.type = "traffic"}

\* No two messages are sealed with the same secret and the same nonce, by
\* whichever node, however often keys rotate, nonces overflow and sessions are
\* lost and made again.
NonceUsedOnce ==
    \A a, b \in Traffic : a.shared = b.shared /\ a.nonce = b.nonce => a = b

\* The message that n would send next, if the other node holds the secret for it,
\* is not taken for an old one: doRecv drops what it takes for old without an
\* answer, so that a session whose receiving nonce has run ahead of the sending
\* one would stay silent.  (The one message sealed with nonce 0, just after an
\* overflow, is dropped.)
NextIsNew ==
    \A n \in Node : session[n] # None /\ session[Other(n)] # None =>
        LET r == session[Other(n)]
            m == TrafficMsg(n, Sent(n, session[n], keys[n]), 0)
        IN  Understood(r, m) /\ m.shared = Secret(r, m) /\ m.nonce # 0
                => OldNonce(r, m) < m.nonce
=============================================================================
