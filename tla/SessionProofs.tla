---------------------------- MODULE SessionProofs ----------------------------
(***************************************************************************)
(* Proofs about the sessions of encrypted/session.go, for all bounds: no   *)
(* secret is used twice with the same nonce, and the next message of a     *)
(* session is never taken for an old one by a node that holds its secret.  *)
(*                                                                         *)
(* The argument is about what is public.  A node starts to send with a key *)
(* pair only when that pair was its next one, and a next key pair is public*)
(* in no sense: nobody took it for a current key and nothing was sealed    *)
(* with it.  The key it sends to is public when the node learns of it.  So *)
(* a pair of keys is new when it is first used, and its nonces only grow   *)
(* for as long as it is.                                                   *)
(***************************************************************************)
EXTENDS Session, TLAPS

KeyOf(n) == [owner : {n}, number : Nat]

SessionFields ==
    {"seq", "remoteKeySeq", "current", "next", "localKeySeq", "recvPub", "sendPub",
     "nextPub", "recvNonce", "sendNonce", "nextSendNonce", "nextRecvNonce", "rotated"}

\* A session of n: what it knows of the other's keys, and its own.
IsSession(n, s) ==
    /\ DOMAIN s = SessionFields
    /\ s.current \in KeyOf(Other(n)) /\ s.next \in KeyOf(Other(n))
    /\ s.recvPub \in KeyOf(n) /\ s.sendPub \in KeyOf(n) /\ s.nextPub \in KeyOf(n)
    /\ s.sendNonce \in Nat

\* An init or ack of n.
IsInit(n, m) ==
    /\ m.type \in {"init", "ack"} /\ m.to = Other(n)
    /\ m.current \in KeyOf(n) /\ m.next \in KeyOf(n)

\* A message of n.
IsMessage(n, m) ==
    \/ IsInit(n, m)
    \/ m.type = "traffic" /\ m.to = Other(n) /\ m.nonce \in Nat /\ m.inner \in KeyOf(n)

Messages(N) == \A m \in N : m.to \in Node /\ IsMessage(Other(m.to), m)

\* A key is public in N once an init or ack has it for current, or some traffic
\* was sealed with it.
IsPublic(key, N) ==
    \/ \E m \in N : m.type # "traffic" /\ m.current = key
    \/ \E m \in N : m.type = "traffic" /\ key \in m.shared

\* A nonce that n noted is that of a message sealed with the other's key.
Seen(n, nonce, key, N) ==
    nonce # 0 => \E m \in N : m.type = "traffic" /\ m.to = n /\ key \in m.shared /\ m.nonce = nonce

\* What n has sealed with the key it sends with.
Sealed(n, s, N) ==
    /\ \A m \in N : m.type = "traffic" /\ m.to = Other(n) /\ s.sendPub \in m.shared =>
          m.shared = {s.current, s.sendPub} /\ m.nonce <= s.sendNonce
    /\ \A m \in N : m.type = "traffic" /\ m.shared = {s.current, s.sendPub} => m.to = Other(n)

\* A session s of n, which has made k key pairs.
SessionOK(n, s, k, N) ==
    /\ IsSession(n, s)
    /\ s.sendPub.number <= k /\ s.nextPub.number <= k /\ s.sendPub # s.nextPub
    /\ IsPublic(s.current, N) /\ ~IsPublic(s.nextPub, N)
    /\ Sealed(n, s, N)
    /\ Seen(n, s.recvNonce, s.current, N)
    /\ Seen(n, s.nextSendNonce, s.next, N)
    /\ Seen(n, s.nextRecvNonce, s.next, N)

BufferOK(n, b, k, N) ==
    /\ DOMAIN b = {"init", "data"} /\ IsInit(n, b.init)
    /\ b.init.current.number <= k /\ b.init.next.number <= k
    /\ b.init.current # b.init.next
    /\ ~IsPublic(b.init.next, N)

\* The public keys of n are among those it has made.
Made(n, k, N) ==
    \A m \in N : \A key \in IF m.type = "traffic" THEN m.shared ELSE {m.current} :
       key.owner = n => key.number \in 0..k

NodeOK(n, s, b, k, N) ==
    /\ k \in Nat
    /\ s = None \/ b = None
    /\ s = None \/ SessionOK(n, s, k, N)
    /\ b = None \/ BufferOK(n, b, k, N)
    /\ Made(n, k, N)

\* Two sessions do not send with the same pair of keys.
Apart(s, r) ==
    s # None /\ r # None => s.current # r.sendPub \/ r.current # s.sendPub

UsedOnce(N) ==
    \A a, b \in N : /\ a.type = "traffic" /\ b.type = "traffic"
                    /\ a.shared = b.shared /\ a.nonce = b.nonce
                    => a = b

\* The invariant, if n's session, buffer and number of keys were s, b and k and the
\* messages N: a handler that sends more than one message goes through several.
InvAt(n, s, b, k, N) ==
    /\ Messages(N)
    /\ UsedOnce(N)
    /\ NodeOK(n, s, b, k, N)
    /\ NodeOK(Other(n), session[Other(n)], buffer[Other(n)], keys[Other(n)], N)
    /\ Apart(s, session[Other(n)])

IInv ==
    /\ session = [n \in Node |-> session[n]] /\ buffer = [n \in Node |-> buffer[n]]
    /\ keys \in [Node -> Nat] /\ now \in [Node -> Nat] /\ written \in [Node -> Nat]
    /\ \A n \in Node : InvAt(n, session[n], buffer[n], keys[n], net)

-----------------------------------------------------------------------------

\* Each of the two nodes is the other's other.
LEMMA OtherNode ==
    ASSUME NEW n \in Node
    PROVE  /\ Other(n) \in Node /\ Other(n) # n /\ Other(Other(n)) = n
           /\ Node = {n, Other(n)}
<1>1. PICK a, b \in Node : a # b /\ Node = {a, b}
  BY SessionAssumption, Zenon
<1>2. \E m \in Node : m # n
  BY <1>1
<1>3. Other(n) \in Node /\ Other(n) # n
  BY <1>2, Zenon DEF Other
<1>4. \E m \in Node : m # Other(n)
  BY <1>3, Zenon
<1>5. Other(Other(n)) \in Node /\ Other(Other(n)) # Other(n)
  BY <1>4, Zenon DEF Other
<1> QED
  BY <1>1, <1>3, <1>5, Zenon

\* A session is not None.
LEMMA SessionNotNone == ASSUME NEW n, NEW s, IsSession(n, s) PROVE s # None
  BY DEF IsSession, SessionFields, None

\* A key pair that n makes is one of n's.
LEMMA KeyFacts ==
    ASSUME NEW n, NEW i \in Nat
    PROVE  Key(n, i) \in KeyOf(n) /\ Key(n, i).number = i /\ Key(n, i).owner = n
  BY Zenon DEF Key, KeyOf

\* Keys of different nodes are different.
LEMMA KeysApart ==
    ASSUME NEW n \in Node, NEW a \in KeyOf(n), NEW b \in KeyOf(Other(n)) PROVE a # b
  BY OtherNode, Zenon DEF KeyOf

\* What advancing the key pairs (_fixShared) does to a session.
LEMMA AdvanceFacts ==
    ASSUME NEW n \in Node, NEW s, IsSession(n, s), NEW k \in Nat, NEW rn, NEW sn \in Nat,
           NEW a, a = Advance(n, s, k, rn, sn)
    PROVE  /\ IsSession(n, a)
           /\ a.current = s.current /\ a.next = s.next
           /\ a.sendPub = s.nextPub /\ a.nextPub = Key(n, k + 1)
           /\ a.recvNonce = rn /\ a.sendNonce = sn
           /\ a.nextSendNonce = 0 /\ a.nextRecvNonce = 0
  BY KeyFacts DEF Advance, IsSession, SessionFields

-----------------------------------------------------------------------------
(* What a handler does, in parts: it sends, and it changes keys or nonces. *)

\* What is public stays so, and one message makes public what it carries.
LEMMA PublicGrows ==
    ASSUME NEW N, NEW m, NEW key
    PROVE  /\ IsPublic(key, N) => IsPublic(key, N \cup {m})
           /\ IsPublic(key, N \cup {m}) =>
                 \/ IsPublic(key, N)
                 \/ m.type # "traffic" /\ m.current = key
                 \/ m.type = "traffic" /\ key \in m.shared
  BY Zenon DEF IsPublic

\* A nonce that was seen stays so.
LEMMA SeenStays ==
    ASSUME NEW n, NEW nonce, NEW key, NEW N, NEW m, Seen(n, nonce, key, N)
    PROVE  Seen(n, nonce, key, N \cup {m})
  BY Zenon DEF Seen

\* A node that sends an init or ack (_sendInit, _sendAck) with keys that it may
\* make public keeps the invariant.
LEMMA PublishInit ==
    ASSUME NEW n \in Node, NEW s, NEW b, NEW k, NEW N, InvAt(n, s, b, k, N),
           NEW m, IsInit(n, m), m.current.number <= k,
           s # None => m.current # s.nextPub,
           b # None => m.current # b.init.next
    PROVE  InvAt(n, s, b, k, N \cup {m})
<1> DEFINE o == Other(n)
           M == N \cup {m}
<1>1. /\ o \in Node /\ o # n /\ Other(o) = n
      /\ m.type # "traffic" /\ m.to = o /\ m.current \in KeyOf(n) /\ m.current.owner = n
      /\ m.current.number \in Nat
  BY OtherNode, Zenon DEF IsInit, KeyOf
<1>2. Messages(M) /\ UsedOnce(M)
  BY <1>1, Zenon DEF InvAt, Messages, IsMessage, UsedOnce
<1>3. Made(n, k, M) /\ Made(o, keys[o], M)
  BY <1>1 DEF InvAt, NodeOK, Made
<1>4. ASSUME NEW a \in Node, NEW r, NEW j, SessionOK(a, r, j, N), m.current # r.nextPub
      PROVE  SessionOK(a, r, j, M)
  <2>1. IsPublic(r.current, M) /\ ~IsPublic(r.nextPub, M)
    BY <1>1, <1>4, PublicGrows, Zenon DEF SessionOK
  <2>2. Sealed(a, r, M)
    BY <1>1, <1>4, Zenon DEF SessionOK, Sealed
  <2> QED
    BY <1>4, <2>1, <2>2, SeenStays, Zenon DEF SessionOK
<1>5. ASSUME NEW a \in Node, NEW c, NEW j, BufferOK(a, c, j, N), m.current # c.init.next
      PROVE  BufferOK(a, c, j, M)
  BY <1>1, <1>5, PublicGrows, Zenon DEF BufferOK
<1>6. NodeOK(n, s, b, k, M)
  BY <1>3, <1>4, <1>5, Zenon DEF InvAt, NodeOK
<1>7. NodeOK(o, session[o], buffer[o], keys[o], M)
  <2>1. SessionOK(o, session[o], keys[o], N) => m.current # session[o].nextPub
    BY <1>1, KeysApart, Zenon DEF SessionOK, IsSession
  <2>2. BufferOK(o, buffer[o], keys[o], N) => m.current # buffer[o].init.next
    BY <1>1, KeysApart, Zenon DEF BufferOK, IsInit
  <2> QED
    BY <1>1, <1>3, <1>4, <1>5, <2>1, <2>2, Zenon DEF InvAt, NodeOK
<1> QED
  BY <1>2, <1>6, <1>7, Zenon DEF InvAt

\* A node that sends traffic (doSend) with a nonce that is larger than those it
\* has used with its key keeps the invariant.
LEMMA PublishTraffic ==
    ASSUME NEW n \in Node, NEW s, NEW b, NEW k, NEW N, InvAt(n, s, b, k, N), s # None,
           NEW m, m.type = "traffic", m.to = Other(n), m.nonce = s.sendNonce,
           m.shared = {s.current, s.sendPub}, m.inner \in KeyOf(n),
           \A x \in N : x.type = "traffic" /\ x.to = Other(n) /\ s.sendPub \in x.shared =>
              x.nonce < s.sendNonce
    PROVE  InvAt(n, s, b, k, N \cup {m})
<1> DEFINE o == Other(n)
           M == N \cup {m}
<1>1. o \in Node /\ o # n /\ Other(o) = n
  BY OtherNode, Zenon
<1>2. /\ SessionOK(n, s, k, N) /\ IsSession(n, s) /\ b = None
      /\ s.sendPub \in KeyOf(n) /\ s.current \in KeyOf(o) /\ s.nextPub \in KeyOf(n)
      /\ s.sendPub # s.nextPub /\ s.current # s.nextPub /\ s.sendNonce \in Nat
      /\ s.sendPub.owner = n /\ s.current.owner = o /\ s.sendPub.number \in Nat
  BY <1>1, KeysApart, Zenon DEF InvAt, NodeOK, SessionOK, IsSession, KeyOf
<1>3. Messages(M)
  BY <1>1, <1>2, Zenon DEF InvAt, Messages, IsMessage
<1>4. UsedOnce(M)
  <2>1. ASSUME NEW x \in N, x.type = "traffic", x.shared = m.shared PROVE x.nonce # m.nonce
    <3>1. x.to = o /\ s.sendPub \in x.shared
      BY <1>2, <2>1, Zenon DEF SessionOK, Sealed
    <3>2. x.nonce < s.sendNonce /\ x.nonce \in Nat
      BY <1>1, <2>1, <3>1, Zenon DEF InvAt, Messages, IsMessage, IsInit
    <3> QED
      BY <1>2, <3>2
  <2> QED
    BY <2>1, Zenon DEF InvAt, UsedOnce
<1>5. Made(n, k, M)
  BY <1>1, <1>2 DEF InvAt, NodeOK, SessionOK, Made
<1>6. Made(o, keys[o], M)
  BY <1>1, <1>2, ZenonT(40) DEF InvAt, NodeOK, SessionOK, Made, IsPublic
<1>7. SessionOK(n, s, k, M)
  <2>1. IsPublic(s.current, M) /\ ~IsPublic(s.nextPub, M)
    BY <1>2, PublicGrows, Zenon DEF SessionOK
  <2>2. Sealed(n, s, M)
    BY <1>2 DEF SessionOK, Sealed
  <2> QED
    BY <1>2, <2>1, <2>2, SeenStays, Zenon DEF SessionOK
<1>8. NodeOK(n, s, b, k, M)
  BY <1>2, <1>5, <1>7, Zenon DEF InvAt, NodeOK
<1>9. ASSUME SessionOK(o, session[o], keys[o], N), session[o] # None
      PROVE  SessionOK(o, session[o], keys[o], M)
  <2> DEFINE r == session[o]
  <2>1. /\ r.current \in KeyOf(n) /\ r.sendPub \in KeyOf(o) /\ r.nextPub \in KeyOf(o)
        /\ r.current # s.sendPub \/ r.sendPub # s.current
        /\ s.sendPub # r.nextPub /\ s.sendPub # r.sendPub
    BY <1>1, <1>2, <1>9, KeysApart, Zenon DEF InvAt, Apart, SessionOK, IsSession
  <2>2. IsPublic(r.current, M) /\ ~IsPublic(r.nextPub, M)
    BY <1>2, <1>9, <2>1, PublicGrows, Zenon DEF SessionOK
  <2>3. m.shared # {r.current, r.sendPub}
    BY <1>1, <2>1, Zenon
  <2>4. Sealed(o, r, M)
    BY <1>1, <1>9, <2>3, Zenon DEF SessionOK, Sealed
  <2> QED
    BY <1>9, <2>2, <2>4, SeenStays, Zenon DEF SessionOK
<1>10. ASSUME BufferOK(o, buffer[o], keys[o], N) PROVE BufferOK(o, buffer[o], keys[o], M)
  <2>1. buffer[o].init.next # s.sendPub /\ buffer[o].init.next # s.current
    BY <1>1, <1>2, <1>10, KeysApart, Zenon DEF BufferOK, IsInit, SessionOK
  <2> QED
    BY <1>10, <2>1, PublicGrows, Zenon DEF BufferOK
<1> QED
  BY <1>3, <1>4, <1>6, <1>8, <1>9, <1>10, Zenon DEF InvAt, NodeOK

\* A session that keeps its keys, and whose sending nonce does not fall, keeps the
\* invariant.
LEMMA KeepKeys ==
    ASSUME NEW n \in Node, NEW s, NEW b, NEW k, NEW N, InvAt(n, s, b, k, N), s # None,
           NEW t, IsSession(n, t), t.current = s.current, t.sendPub = s.sendPub,
           t.nextPub = s.nextPub, s.sendNonce <= t.sendNonce,
           Seen(n, t.recvNonce, t.current, N), Seen(n, t.nextSendNonce, t.next, N),
           Seen(n, t.nextRecvNonce, t.next, N)
    PROVE  InvAt(n, t, b, k, N)
<1>1. SessionOK(n, s, k, N) /\ b = None
  BY Zenon DEF InvAt, NodeOK
<1>2. Sealed(n, t, N)
  <2> SUFFICES ASSUME NEW m \in N, m.type = "traffic", m.to = Other(n), t.sendPub \in m.shared
               PROVE  m.nonce <= t.sendNonce
    BY <1>1, Zenon DEF SessionOK, Sealed
  <2>1. m.nonce <= s.sendNonce /\ m.nonce \in Nat
    BY <1>1, OtherNode, Zenon DEF SessionOK, Sealed, InvAt, Messages, IsMessage, IsInit
  <2> QED
    BY <1>1, <2>1 DEF SessionOK, IsSession
<1>3. SessionOK(n, t, k, N)
  BY <1>1, <1>2, Zenon DEF SessionOK
<1>4. Apart(t, session[Other(n)])
  BY Zenon DEF InvAt, Apart
<1> QED
  BY <1>1, <1>3, <1>4, Zenon DEF InvAt, NodeOK

\* A session with keys to send that are not public keeps the invariant, and
\* nothing was sealed with its key.
LEMMA Rekey ==
    ASSUME NEW n \in Node, NEW s, NEW b, NEW k, NEW N, InvAt(n, s, b, k, N),
           NEW t, IsSession(n, t), NEW j \in Nat,
           t.sendPub.number <= j, t.nextPub.number <= j, k < t.nextPub.number,
           t.sendPub # t.nextPub, IsPublic(t.current, N), ~IsPublic(t.sendPub, N),
           Seen(n, t.recvNonce, t.current, N), Seen(n, t.nextSendNonce, t.next, N),
           Seen(n, t.nextRecvNonce, t.next, N)
    PROVE  /\ InvAt(n, t, None, j, N)
           /\ \A m \in N : m.type = "traffic" => t.sendPub \notin m.shared
<1>1. \A m \in N : m.type = "traffic" => t.sendPub \notin m.shared
  BY Zenon DEF IsPublic
<1>2. k \in Nat /\ t.nextPub.number \in Nat /\ t.nextPub.owner = n
  BY Zenon DEF InvAt, NodeOK, IsSession, KeyOf
<1>3. ~IsPublic(t.nextPub, N)
  BY <1>2 DEF IsPublic, InvAt, NodeOK, Made
<1>4. Sealed(n, t, N)
  BY <1>1, Zenon DEF Sealed
<1>5. SessionOK(n, t, j, N)
  BY <1>3, <1>4, Zenon DEF SessionOK
<1>6. Made(n, j, N)
  <2> SUFFICES ASSUME NEW m \in N,
                      NEW key \in IF m.type = "traffic" THEN m.shared ELSE {m.current},
                      key.owner = n
               PROVE  key.number \in 0..j
    BY Zenon DEF Made
  <2>1. key.number \in 0..k
    BY Zenon DEF InvAt, NodeOK, Made
  <2> QED
    BY <1>2, <2>1
<1>7. Apart(t, session[Other(n)])
  <2> SUFFICES ASSUME session[Other(n)] # None PROVE session[Other(n)].current # t.sendPub
    BY Zenon DEF Apart
  <2> QED
    BY Zenon DEF InvAt, NodeOK, SessionOK
<1> QED
  BY <1>1, <1>5, <1>6, <1>7, Zenon DEF InvAt, NodeOK

\* A session or a buffer that is lost (their timers) keeps the invariant.
LEMMA Forget ==
    ASSUME NEW n \in Node, NEW s, NEW b, NEW k, NEW N, InvAt(n, s, b, k, N)
    PROVE  InvAt(n, None, b, k, N) /\ InvAt(n, s, None, k, N)
  BY Zenon DEF InvAt, NodeOK, Apart

-----------------------------------------------------------------------------
(* The handlers. *)

\* A state of n within a handler: the invariant holds of what it has sent as well.
At(n, x) ==
    /\ DOMAIN x = {"session", "buffer", "keys", "out", "got"}
    /\ x.out \in Seq(Range(x.out))
    /\ InvAt(n, x.session, x.buffer, x.keys, net \cup Range(x.out))

\* One more message is sent.
LEMMA Emitted ==
    ASSUME NEW q, q \in Seq(Range(q)), NEW m
    PROVE  /\ Append(q, m) \in Seq(Range(Append(q, m)))
           /\ net \cup Range(Append(q, m)) = (net \cup Range(q)) \cup {m}
<1>1. /\ Len(q) \in Nat /\ DOMAIN q = 1..Len(q)
      /\ DOMAIN Append(q, m) = 1..(Len(q) + 1)
      /\ \A i \in 1..Len(q) : Append(q, m)[i] = q[i]
      /\ Append(q, m)[Len(q) + 1] = m
  OBVIOUS
<1>2. Range(Append(q, m)) = Range(q) \cup {m}
  <2>1. Range(Append(q, m)) \subseteq Range(q) \cup {m}
    <3> SUFFICES ASSUME NEW i \in 1..(Len(q) + 1) PROVE Append(q, m)[i] \in Range(q) \cup {m}
      BY <1>1, Zenon DEF Range
    <3>1. i \in 1..Len(q) \/ i = Len(q) + 1
      BY <1>1
    <3> QED
      BY <1>1, <3>1, Zenon DEF Range
  <2>2. Range(q) \cup {m} \subseteq Range(Append(q, m))
    <3>1. Len(q) + 1 \in 1..(Len(q) + 1) /\ \A i \in 1..Len(q) : i \in 1..(Len(q) + 1)
      BY <1>1
    <3> QED
      BY <1>1, <3>1, Zenon DEF Range
  <2> QED
    BY <2>1, <2>2, Zenon
<1>3. q \in Seq(Range(q) \cup {m})
  OBVIOUS
<1>4. Append(q, m) \in Seq(Range(q) \cup {m})
  BY <1>3
<1> QED
  BY <1>2, <1>4, Zenon

\* The state of n after one more message.
LEMMA AtEmitted ==
    ASSUME NEW n, NEW x, NEW y, NEW m, NEW s, NEW b, NEW k, x.out \in Seq(Range(x.out)),
           DOMAIN y = {"session", "buffer", "keys", "out", "got"},
           y.session = s, y.buffer = b, y.keys = k, y.out = Append(x.out, m),
           InvAt(n, s, b, k, (net \cup Range(x.out)) \cup {m})
    PROVE  At(n, y)
<1>1. /\ y.out \in Seq(Range(y.out))
      /\ net \cup Range(y.out) = (net \cup Range(x.out)) \cup {m}
  BY Emitted
<1> QED
  BY <1>1, Zenon DEF At

\* doSend: the next message has a nonce that was not used with its secret.
LEMMA SentInv ==
    ASSUME NEW n \in Node, NEW s, NEW b, NEW k, NEW N, InvAt(n, s, b, k, N), s # None,
           NEW p, NEW t, t = Sent(n, s, k)
    PROVE  InvAt(n, t, b, k + SentKeys(s), N \cup {TrafficMsg(n, t, p)})
<1> DEFINE m == TrafficMsg(n, t, p)
<1>1. SessionOK(n, s, k, N) /\ IsSession(n, s) /\ b = None /\ k \in Nat /\ s.sendNonce \in Nat
  BY Zenon DEF InvAt, NodeOK, SessionOK, IsSession
<1>2. /\ m.type = "traffic" /\ m.to = Other(n) /\ m.nonce = t.sendNonce
      /\ m.shared = {t.current, t.sendPub} /\ m.inner = t.nextPub
  BY Zenon DEF TrafficMsg
<1> HIDE DEF m
<1>3. CASE s.sendNonce = MaxNonce
  <2>1. t = Advance(n, s, k, 0, 0) /\ SentKeys(s) = 1
    BY <1>3, Zenon DEF Sent, SentKeys
  <2>2. /\ IsSession(n, t) /\ t.current = s.current /\ t.next = s.next
        /\ t.sendPub = s.nextPub /\ t.nextPub = Key(n, k + 1)
        /\ t.recvNonce = 0 /\ t.nextSendNonce = 0 /\ t.nextRecvNonce = 0
    BY <1>1, <2>1, AdvanceFacts
  <2>3. /\ t.nextPub.number = k + 1 /\ t.sendPub.number <= k + 1 /\ t.sendPub # t.nextPub
        /\ k + 1 \in Nat /\ k < k + 1 /\ k + 1 <= k + 1
    BY <1>1, <2>2, KeyFacts DEF SessionOK, IsSession, KeyOf
  <2>4. /\ Seen(n, t.recvNonce, t.current, N) /\ Seen(n, t.nextSendNonce, t.next, N)
        /\ Seen(n, t.nextRecvNonce, t.next, N)
    BY <2>2, Zenon DEF Seen
  <2>5. IsPublic(t.current, N) /\ ~IsPublic(t.sendPub, N)
    BY <1>1, <2>2, Zenon DEF SessionOK
  <2>6. /\ InvAt(n, t, None, k + 1, N)
        /\ \A x \in N : x.type = "traffic" => t.sendPub \notin x.shared
    BY <2>2, <2>3, <2>4, <2>5, Rekey
  <2>7. t # None /\ t.nextPub \in KeyOf(n)
    BY <2>2, SessionNotNone, Zenon DEF IsSession
  <2>8. InvAt(n, t, None, k + 1, N \cup {m})
    BY <1>2, <2>6, <2>7, PublishTraffic, Zenon
  <2> QED
    BY <1>1, <2>1, <2>8, Zenon DEF m
<1>4. CASE s.sendNonce # MaxNonce
  <2>1. t = [s EXCEPT !.sendNonce = @ + 1] /\ SentKeys(s) = 0
    BY <1>4, Zenon DEF Sent, SentKeys
  <2>2. /\ IsSession(n, t) /\ t.current = s.current /\ t.next = s.next
        /\ t.sendPub = s.sendPub /\ t.nextPub = s.nextPub
        /\ t.recvNonce = s.recvNonce /\ t.nextSendNonce = s.nextSendNonce
        /\ t.nextRecvNonce = s.nextRecvNonce /\ t.sendNonce = s.sendNonce + 1
    BY <1>1, <2>1 DEF IsSession, SessionFields
  <2>3. /\ Seen(n, t.recvNonce, t.current, N) /\ Seen(n, t.nextSendNonce, t.next, N)
        /\ Seen(n, t.nextRecvNonce, t.next, N)
    BY <1>1, <2>2, Zenon DEF SessionOK
  <2>4. InvAt(n, t, b, k, N)
    BY <1>1, <2>2, <2>3, KeepKeys
  <2>5. ASSUME NEW x \in N, x.type = "traffic", x.to = Other(n), t.sendPub \in x.shared
        PROVE  x.nonce < t.sendNonce
    <3>1. x.nonce <= s.sendNonce /\ x.nonce \in Nat
      BY <1>1, <2>2, <2>5, OtherNode, Zenon DEF SessionOK, Sealed, InvAt, Messages, IsMessage, IsInit
    <3> QED
      BY <1>1, <2>2, <3>1
  <2>6. t # None /\ t.nextPub \in KeyOf(n)
    BY <2>2, SessionNotNone, Zenon DEF IsSession
  <2>7. InvAt(n, t, b, k, N \cup {m})
    BY <1>2, <2>4, <2>5, <2>6, PublishTraffic, Zenon
  <2> QED
    BY <1>1, <2>1, <2>7 DEF m
<1> QED
  BY <1>3, <1>4, Zenon

\* writeTo and _bufferAndInit.
LEMMA WriteToAt ==
    ASSUME NEW n \in Node, NEW x, At(n, x), NEW t, NEW p
    PROVE  At(n, WriteTo(n, x, t, p))
<1> DEFINE k == x.keys
           N == net \cup Range(x.out)
           y == WriteTo(n, x, t, p)
<1>1. /\ InvAt(n, x.session, x.buffer, k, N) /\ k \in Nat
      /\ x.out \in Seq(Range(x.out))
      /\ DOMAIN x = {"session", "buffer", "keys", "out", "got"}
  BY Zenon DEF At, InvAt, NodeOK
<1>2. CASE x.session # None
  <2> DEFINE s == Sent(n, x.session, k)
             m == TrafficMsg(n, s, p)
  <2>1. InvAt(n, s, x.buffer, k + SentKeys(x.session), N \cup {m})
    BY <1>1, <1>2, SentInv, Zenon
  <2>2. /\ DOMAIN y = {"session", "buffer", "keys", "out", "got"}
        /\ y.session = s /\ y.buffer = x.buffer /\ y.keys = k + SentKeys(x.session)
        /\ y.out = Append(x.out, m)
    BY <1>1, <1>2, Zenon DEF WriteTo
  <2> HIDE DEF s, m, y
  <2>3. At(n, y)
    BY <1>1, <2>1, <2>2, AtEmitted, Zenon
  <2> QED
    BY <2>3, Zenon DEF y
<1>3. CASE x.session = None /\ x.buffer = None
  <2> DEFINE m == InitMsg(n, "init", Key(n, k + 1), Key(n, k + 2), 0, t)
             b == [init |-> m, data |-> p]
  <2>1. /\ IsInit(n, m) /\ m.current.number = k + 1 /\ m.next.number = k + 2
        /\ m.current = Key(n, k + 1) /\ m.next = Key(n, k + 2) /\ m.current # m.next
    BY <1>1, KeyFacts DEF InitMsg, IsInit
  <2>2. /\ DOMAIN y = {"session", "buffer", "keys", "out", "got"}
        /\ y.session = None /\ y.buffer = b /\ y.keys = k + 2
        /\ y.out = Append(x.out, m)
    BY <1>1, <1>3, Zenon DEF WriteTo
  <2>3. b.init = m /\ DOMAIN b = {"init", "data"}
    BY Zenon
  <2> HIDE DEF m, b, y
  <2>4. Made(n, k + 2, N)
    BY <1>1 DEF InvAt, NodeOK, Made
  <2>5. ~IsPublic(m.next, N)
    <3>1. m.next.owner = n /\ m.next.number \notin 0..k
      BY <1>1, <2>1, KeyFacts
    <3> QED
      BY <1>1, <3>1, Zenon DEF InvAt, NodeOK, Made, IsPublic
  <2>6. BufferOK(n, b, k + 2, N)
    BY <1>1, <2>1, <2>3, <2>5 DEF BufferOK
  <2>7. InvAt(n, None, b, k + 2, N)
    BY <1>1, <1>3, <2>4, <2>6 DEF InvAt, NodeOK, Apart
  <2>8. InvAt(n, None, b, k + 2, N \cup {m})
    BY <1>1, <2>1, <2>3, <2>7, PublishInit
  <2>9. At(n, y)
    BY <1>1, <2>2, <2>8, AtEmitted, Zenon
  <2> QED
    BY <2>9, Zenon DEF y
<1>4. CASE x.session = None /\ x.buffer # None
  <2> DEFINE m == x.buffer.init
             b == [init |-> m, data |-> p]
  <2>1. BufferOK(n, x.buffer, k, N)
    BY <1>1, <1>4, Zenon DEF InvAt, NodeOK
  <2>2. /\ DOMAIN y = {"session", "buffer", "keys", "out", "got"}
        /\ y.session = None /\ y.buffer = b /\ y.keys = k
        /\ y.out = Append(x.out, m)
    BY <1>1, <1>4, Zenon DEF WriteTo
  <2>3. b.init = m /\ DOMAIN b = {"init", "data"}
    BY Zenon
  <2>4. BufferOK(n, b, k, N)
    BY <2>1, <2>3, Zenon DEF BufferOK
  <2> HIDE DEF b, y
  <2>5. InvAt(n, None, b, k, N)
    BY <1>1, <1>4, <2>4, Zenon DEF InvAt, NodeOK, Apart
  <2>6. InvAt(n, None, b, k, N \cup {m})
    BY <2>1, <2>3, <2>4, <2>5, PublishInit, Zenon DEF BufferOK
  <2>7. At(n, y)
    BY <1>1, <2>2, <2>6, AtEmitted, Zenon
  <2> QED
    BY <2>7, Zenon DEF y
<1> QED
  BY <1>2, <1>3, <1>4, Zenon

\* The init that answers traffic for which there is no session.
LEMMA TrafficNoSessionAt ==
    ASSUME NEW n \in Node, NEW x, At(n, x), x.session = None, NEW t
    PROVE  At(n, TrafficNoSession(n, x, t))
<1> DEFINE k == x.keys
           N == net \cup Range(x.out)
           y == TrafficNoSession(n, x, t)
           m == InitMsg(n, "init", Key(n, k + 1), Key(n, k + 2), 0, t)
<1>1. /\ InvAt(n, None, x.buffer, k, N) /\ k \in Nat
      /\ x.out \in Seq(Range(x.out))
      /\ DOMAIN x = {"session", "buffer", "keys", "out", "got"}
  BY Zenon DEF At, InvAt, NodeOK
<1>2. /\ DOMAIN y = {"session", "buffer", "keys", "out", "got"}
      /\ y.session = None /\ y.buffer = x.buffer /\ y.keys = k + 2
      /\ y.out = Append(x.out, m)
  BY <1>1, Zenon DEF TrafficNoSession
<1>3. IsInit(n, m) /\ m.current.number = k + 1 /\ m.current.number <= k + 2
  BY <1>1, KeyFacts DEF InitMsg, IsInit
<1> HIDE DEF m, y
<1>4. ASSUME x.buffer # None PROVE BufferOK(n, x.buffer, k + 2, N) /\ m.current # x.buffer.init.next
  <2>1. BufferOK(n, x.buffer, k, N)
    BY <1>1, <1>4, Zenon DEF InvAt, NodeOK
  <2>2. x.buffer.init.current.number \in Nat /\ x.buffer.init.next.number \in Nat
    BY <2>1, Zenon DEF BufferOK, IsInit, KeyOf
  <2>3. m.current # x.buffer.init.next
    BY <1>1, <1>3, <2>1, <2>2 DEF BufferOK
  <2> QED
    BY <1>1, <2>1, <2>2, <2>3 DEF BufferOK
<1>5. Made(n, k + 2, N)
  BY <1>1 DEF InvAt, NodeOK, Made
<1>6. InvAt(n, None, x.buffer, k + 2, N)
  BY <1>1, <1>4, <1>5 DEF InvAt, NodeOK
<1>7. InvAt(n, None, x.buffer, k + 2, N \cup {m})
  BY <1>3, <1>4, <1>6, PublishInit, Zenon
<1>8. At(n, y)
  BY <1>1, <1>2, <1>7, AtEmitted, Zenon
<1> QED
  BY <1>8, Zenon DEF y

\* A message of a session, with its own keys (_sendInit, _sendAck).
LEMMA SessionMsgInv ==
    ASSUME NEW n \in Node, NEW s, NEW k, NEW N, InvAt(n, s, None, k, N), s # None,
           NEW t, NEW type \in {"init", "ack"}
    PROVE  InvAt(n, s, None, k, N \cup {SessionMsg(n, type, s, t)})
<1> DEFINE m == SessionMsg(n, type, s, t)
<1>1. SessionOK(n, s, k, N)
  BY Zenon DEF InvAt, NodeOK
<1>2. IsInit(n, m) /\ m.current = s.sendPub
  BY <1>1, Zenon DEF SessionOK, IsSession, SessionMsg, InitMsg, IsInit
<1> HIDE DEF m
<1>3. InvAt(n, s, None, k, N \cup {m})
  BY <1>1, <1>2, PublishInit, Zenon DEF SessionOK
<1> QED
  BY <1>3, Zenon DEF m

\* _handleUpdate, of a session with a next key pair that is not public.
LEMMA HandleUpdateInv ==
    ASSUME NEW n \in Node, NEW s, NEW b, NEW k, NEW N, InvAt(n, s, b, k, N),
           NEW m \in N, m.to = n, m.type # "traffic",
           NEW base, IsSession(n, base), NEW j \in Nat, k <= j,
           base.nextPub.number <= j, ~IsPublic(base.nextPub, N),
           NEW t, t = HandleUpdate(n, base, m, j)
    PROVE  InvAt(n, t, None, j + 1, N) /\ t # None
<1> DEFINE u == [base EXCEPT !.current = m.current, !.next = m.next, !.seq = m.seq,
                             !.remoteKeySeq = m.keySeq]
<1>1. IsInit(Other(n), m) /\ IsPublic(m.current, N)
  BY Zenon DEF InvAt, Messages, IsMessage, IsPublic
<1>2. /\ IsSession(n, u) /\ u.current = m.current /\ u.next = m.next
      /\ u.nextPub = base.nextPub
  BY <1>1, Zenon DEF IsSession, SessionFields, IsInit
<1>3. t = Advance(n, u, j, 0, base.sendNonce) /\ base.sendNonce \in Nat
  BY Zenon DEF HandleUpdate, IsSession
<1> HIDE DEF u
<1>4. /\ IsSession(n, t) /\ t.current = m.current /\ t.next = m.next
      /\ t.sendPub = base.nextPub /\ t.nextPub = Key(n, j + 1)
      /\ t.recvNonce = 0 /\ t.nextSendNonce = 0 /\ t.nextRecvNonce = 0
  BY <1>2, <1>3, AdvanceFacts
<1>5. k \in Nat /\ base.nextPub.number \in Nat
  BY Zenon DEF InvAt, NodeOK, IsSession, KeyOf
<1>6. /\ t.nextPub.number = j + 1 /\ t.sendPub.number <= j + 1 /\ t.sendPub # t.nextPub
      /\ j + 1 \in Nat /\ k < j + 1 /\ j + 1 <= j + 1
  BY <1>4, <1>5, KeyFacts
<1>7. /\ Seen(n, t.recvNonce, t.current, N) /\ Seen(n, t.nextSendNonce, t.next, N)
      /\ Seen(n, t.nextRecvNonce, t.next, N)
  BY <1>4, Zenon DEF Seen
<1>8. InvAt(n, t, None, j + 1, N)
  BY <1>1, <1>4, <1>6, <1>7, Rekey
<1> QED
  BY <1>4, <1>8, SessionNotNone, Zenon

\* _handleInit and _handleAck with a session.
LEMMA UpdateSessionAt ==
    ASSUME NEW n \in Node, NEW x, At(n, x), x.session # None, NEW t,
           NEW m \in net, m.to = n, m.type # "traffic"
    PROVE  At(n, UpdateSession(n, x, t, m))
<1> DEFINE k == x.keys
           N == net \cup Range(x.out)
           s == HandleUpdate(n, x.session, m, k)
           y == UpdateSession(n, x, t, m)
           ack == SessionMsg(n, "ack", s, t)
<1>1. /\ InvAt(n, x.session, x.buffer, k, N) /\ k \in Nat
      /\ x.out \in Seq(Range(x.out))
      /\ DOMAIN x = {"session", "buffer", "keys", "out", "got"}
      /\ SessionOK(n, x.session, k, N) /\ x.buffer = None
  BY Zenon DEF At, InvAt, NodeOK
<1>2. CASE m.seq <= x.session.seq
  BY <1>2, Zenon DEF UpdateSession
<1>3. CASE ~(m.seq <= x.session.seq)
  <2>1. InvAt(n, s, None, k + 1, N) /\ s # None
    BY <1>1, HandleUpdateInv DEF SessionOK
  <2>2. CASE m.type = "init"
    <3>1. /\ DOMAIN y = {"session", "buffer", "keys", "out", "got"}
          /\ y.session = s /\ y.buffer = None /\ y.keys = k + 1
          /\ y.out = Append(x.out, ack)
      BY <1>1, <1>3, <2>2, Zenon DEF UpdateSession
    <3> HIDE DEF s, y
    <3>2. InvAt(n, s, None, k + 1, N \cup {ack})
      BY <2>1, SessionMsgInv, Zenon
    <3> HIDE DEF ack
    <3>3. At(n, y)
      BY <1>1, <3>1, <3>2, AtEmitted, Zenon
    <3> QED
      BY <3>3, Zenon DEF y
  <2>3. CASE m.type # "init"
    <3>1. /\ DOMAIN y = {"session", "buffer", "keys", "out", "got"}
          /\ y.session = s /\ y.buffer = None /\ y.keys = k + 1 /\ y.out = x.out
      BY <1>1, <1>3, <2>3, Zenon DEF UpdateSession
    <3> HIDE DEF s, y
    <3>2. At(n, y)
      BY <1>1, <2>1, <3>1, Zenon DEF At
    <3> QED
      BY <3>2, Zenon DEF y
  <2> QED
    BY <2>2, <2>3, Zenon
<1> QED
  BY <1>2, <1>3, Zenon

\* _handleInit and _handleAck without a session (_sessionForInit).
LEMMA CreateSessionAt ==
    ASSUME NEW n \in Node, NEW x, At(n, x), x.session = None, NEW t,
           NEW m \in net, m.to = n, m.type # "traffic"
    PROVE  At(n, CreateSession(n, x, t, m))
<1> DEFINE k == x.keys
           N == net \cup Range(x.out)
           b == x.buffer
           new == NewSession(n, m, k)
           base == IF b = None THEN new
                   ELSE [new EXCEPT !.sendPub = b.init.current, !.nextPub = b.init.next]
           s == HandleUpdate(n, base, m, k + 3)
           ack == SessionMsg(n, "ack", s, t)
           y == [x EXCEPT !.session = s, !.buffer = None, !.keys = @ + 4,
                          !.out = Append(@, ack)]
<1>1. /\ InvAt(n, None, b, k, N) /\ k \in Nat
      /\ x.out \in Seq(Range(x.out))
      /\ DOMAIN x = {"session", "buffer", "keys", "out", "got"}
  BY Zenon DEF At, InvAt, NodeOK
<1>2. IsInit(Other(n), m)
  BY <1>1, Zenon DEF InvAt, Messages, IsMessage
<1>3. IsSession(n, new) /\ new.nextPub = Key(n, k + 3)
  BY <1>1, <1>2, KeyFacts DEF NewSession, IsSession, SessionFields, IsInit
<1>4. IsSession(n, base) /\ base.nextPub.number <= k + 3 /\ ~IsPublic(base.nextPub, N)
  <2>1. CASE b = None
    <3>1. base = new /\ base.nextPub.number = k + 3 /\ base.nextPub.owner = n
      BY <1>1, <1>3, <2>1, KeyFacts
    <3>2. k + 3 \notin 0..k
      BY <1>1
    <3>3. ~IsPublic(base.nextPub, N)
      BY <1>1, <3>1, <3>2 DEF InvAt, NodeOK, Made, IsPublic
    <3> QED
      BY <1>1, <1>3, <3>1, <3>3
  <2>2. CASE b # None
    <3>1. BufferOK(n, b, k, N)
      BY <1>1, <2>2, Zenon DEF InvAt, NodeOK
    <3>2. IsSession(n, base) /\ base.nextPub = b.init.next
      BY <1>3, <2>2, <3>1, Zenon DEF BufferOK, IsInit, IsSession, SessionFields
    <3>3. b.init.next.number \in Nat
      BY <3>1, Zenon DEF BufferOK, IsInit, KeyOf
    <3> QED
      BY <1>1, <3>1, <3>2, <3>3 DEF BufferOK
  <2> QED
    BY <2>1, <2>2, Zenon
<1> HIDE DEF new, base
<1>5. InvAt(n, s, None, k + 4, N) /\ s # None
  <2>1. k + 3 \in Nat /\ k <= k + 3 /\ (k + 3) + 1 = k + 4
    BY <1>1
  <2>2. InvAt(n, s, None, (k + 3) + 1, N) /\ s # None
    BY <1>1, <1>4, <2>1, HandleUpdateInv, ZenonT(40)
  <2> QED
    BY <2>1, <2>2, Zenon
<1>6. InvAt(n, s, None, k + 4, N \cup {ack})
  BY <1>5, SessionMsgInv, Zenon
<1>7. /\ DOMAIN y = {"session", "buffer", "keys", "out", "got"}
      /\ y.session = s /\ y.buffer = None /\ y.keys = k + 4 /\ y.out = Append(x.out, ack)
  BY <1>1, Zenon
<1>8. CreateSession(n, x, t, m) = IF b = None THEN y ELSE WriteTo(n, y, t, b.data)
  BY Zenon DEF CreateSession, new, base
<1> HIDE DEF s, ack, y
<1>9. At(n, y)
  BY <1>1, <1>6, <1>7, AtEmitted, Zenon
<1> QED
  BY <1>8, <1>9, WriteToAt, Zenon

\* doRecv, when it cannot open a message.
LEMMA UnopenedAt ==
    ASSUME NEW n \in Node, NEW x, At(n, x), x.session # None, NEW t
    PROVE  At(n, Unopened(n, x, t))
<1> DEFINE k == x.keys
           N == net \cup Range(x.out)
           y == Unopened(n, x, t)
           init == SessionMsg(n, "init", x.session, t)
<1>1. /\ InvAt(n, x.session, None, k, N) /\ x.buffer = None
      /\ x.out \in Seq(Range(x.out))
      /\ DOMAIN x = {"session", "buffer", "keys", "out", "got"}
  BY Zenon DEF At, InvAt, NodeOK
<1>2. InvAt(n, x.session, None, k, N \cup {init})
  BY <1>1, SessionMsgInv, Zenon
<1>3. /\ DOMAIN y = {"session", "buffer", "keys", "out", "got"}
      /\ y.session = x.session /\ y.buffer = None /\ y.keys = k
      /\ y.out = Append(x.out, init)
  BY <1>1, Zenon DEF Unopened
<1> HIDE DEF init, y
<1>4. At(n, y)
  BY <1>1, <1>2, <1>3, AtEmitted, Zenon
<1> QED
  BY <1>4, Zenon DEF y

\* A message that a session opens is sealed with a key that the session knows.
LEMMA OpenedWith ==
    ASSUME NEW s, NEW m, m.shared = Secret(s, m)
    PROVE  /\ FromCurrent(s, m) => s.current \in m.shared
           /\ ~FromCurrent(s, m) => s.next \in m.shared
  BY Zenon DEF Secret

\* doRecv notes the nonce of a message that it opens.
LEMMA NonceNotedInv ==
    ASSUME NEW n \in Node, NEW s, NEW b, NEW k, NEW N, InvAt(n, s, b, k, N), s # None,
           NEW m \in N, m.to = n, m.type = "traffic", m.shared = Secret(s, m),
           NEW u, u = NonceNoted(s, m)
    PROVE  /\ InvAt(n, u, b, k, N)
           /\ u.next = s.next /\ IsSession(n, u)
<1>1. SessionOK(n, s, k, N)
  BY Zenon DEF InvAt, NodeOK
<1>2. /\ FromCurrent(s, m) => u = [s EXCEPT !.recvNonce = m.nonce]
      /\ ~FromCurrent(s, m) => \/ u = [s EXCEPT !.nextSendNonce = m.nonce]
                               \/ u = [s EXCEPT !.nextRecvNonce = m.nonce]
  BY Zenon DEF NonceNoted
<1>3. /\ IsSession(n, u) /\ u.current = s.current /\ u.next = s.next
      /\ u.sendPub = s.sendPub /\ u.nextPub = s.nextPub /\ u.sendNonce = s.sendNonce
  BY <1>1, <1>2, ZenonT(40) DEF SessionOK, IsSession, SessionFields
<1>4. /\ u.recvNonce # s.recvNonce => u.recvNonce = m.nonce /\ FromCurrent(s, m)
      /\ u.nextSendNonce # s.nextSendNonce => u.nextSendNonce = m.nonce /\ ~FromCurrent(s, m)
      /\ u.nextRecvNonce # s.nextRecvNonce => u.nextRecvNonce = m.nonce /\ ~FromCurrent(s, m)
  BY <1>1, <1>2, Zenon DEF SessionOK, IsSession, SessionFields
<1>5. Seen(n, u.recvNonce, u.current, N)
  BY <1>1, <1>3, <1>4, OpenedWith, Zenon DEF SessionOK, Seen
<1>6. Seen(n, u.nextSendNonce, u.next, N)
  BY <1>1, <1>3, <1>4, OpenedWith, Zenon DEF SessionOK, Seen
<1>7. Seen(n, u.nextRecvNonce, u.next, N)
  BY <1>1, <1>3, <1>4, OpenedWith, Zenon DEF SessionOK, Seen
<1>8. s.sendNonce <= u.sendNonce
  BY <1>1, <1>3 DEF SessionOK, IsSession
<1> QED
  BY <1>3, <1>5, <1>6, <1>7, <1>8, KeepKeys, Zenon

\* doRecv rotates the keys when a message is sealed with the other's next key.
LEMMA RatchetInv ==
    ASSUME NEW n \in Node, NEW s, NEW b, NEW k, NEW N, InvAt(n, s, b, k, N), s # None,
           NEW m \in N, m.to = n, m.type = "traffic", s.next \in m.shared,
           NEW u, u = Ratchet(n, s, m, k)
    PROVE  InvAt(n, u, None, k + 1, N)
<1> DEFINE v == [s EXCEPT !.current = s.next, !.next = m.inner, !.remoteKeySeq = @ + 1]
           a == Advance(n, v, k, m.nonce, 0)
<1>1. SessionOK(n, s, k, N) /\ IsSession(n, s) /\ k \in Nat
  BY Zenon DEF InvAt, NodeOK, SessionOK
<1>2. m.inner \in KeyOf(Other(n)) /\ m.nonce \in Nat
  BY Zenon DEF InvAt, Messages, IsMessage, IsInit
<1>3. /\ IsSession(n, v) /\ v.current = s.next /\ v.next = m.inner
      /\ v.sendPub = s.sendPub /\ v.nextPub = s.nextPub
  BY <1>1, <1>2, Zenon DEF IsSession, SessionFields
<1>4. u = [a EXCEPT !.rotated = TRUE]
  BY Zenon DEF Ratchet
<1> HIDE DEF v
<1>5. /\ IsSession(n, a) /\ a.current = s.next /\ a.next = m.inner
      /\ a.sendPub = s.nextPub /\ a.nextPub = Key(n, k + 1)
      /\ a.recvNonce = m.nonce /\ a.nextSendNonce = 0 /\ a.nextRecvNonce = 0
  BY <1>1, <1>2, <1>3, AdvanceFacts
<1> HIDE DEF a
<1>6. /\ IsSession(n, u) /\ u.current = s.next /\ u.next = m.inner
      /\ u.sendPub = s.nextPub /\ u.nextPub = Key(n, k + 1)
      /\ u.recvNonce = m.nonce /\ u.nextSendNonce = 0 /\ u.nextRecvNonce = 0
  BY <1>4, <1>5, Zenon DEF IsSession, SessionFields
<1>7. /\ u.nextPub.number = k + 1 /\ u.sendPub.number <= k + 1 /\ u.sendPub # u.nextPub
      /\ k + 1 \in Nat /\ k < k + 1 /\ k + 1 <= k + 1
  BY <1>1, <1>6, KeyFacts DEF SessionOK, IsSession, KeyOf
<1>8. /\ Seen(n, u.recvNonce, u.current, N) /\ Seen(n, u.nextSendNonce, u.next, N)
      /\ Seen(n, u.nextRecvNonce, u.next, N)
  BY <1>6, Zenon DEF Seen
<1>9. IsPublic(u.current, N) /\ ~IsPublic(u.sendPub, N)
  BY <1>1, <1>6, Zenon DEF SessionOK, IsPublic
<1> QED
  BY <1>6, <1>7, <1>8, <1>9, Rekey

\* doRecv.
LEMMA DoRecvAt ==
    ASSUME NEW n \in Node, NEW x, At(n, x), x.session # None, NEW t, NEW minute,
           NEW m \in net, m.to = n, m.type = "traffic"
    PROVE  At(n, DoRecv(n, x, t, m, minute))
<1> DEFINE k == x.keys
           N == net \cup Range(x.out)
           s == x.session
           u == NonceNoted(s, m)
           w == Ratchet(n, u, m, k)
           y == [x EXCEPT !.session = u, !.got = @ \cup {m.payload}]
           z == [y EXCEPT !.session = Ratchet(n, @, m, x.keys), !.keys = @ + 1]
<1>1. /\ InvAt(n, s, None, k, N) /\ x.buffer = None
      /\ x.out \in Seq(Range(x.out))
      /\ DOMAIN x = {"session", "buffer", "keys", "out", "got"}
  BY Zenon DEF At, InvAt, NodeOK
<1>2. \/ DoRecv(n, x, t, m, minute) = x
      \/ DoRecv(n, x, t, m, minute) = Unopened(n, x, t)
      \/ /\ m.shared = Secret(s, m)
         /\ \/ DoRecv(n, x, t, m, minute) = y
            \/ DoRecv(n, x, t, m, minute) = z /\ ~FromCurrent(s, m)
  BY Zenon DEF DoRecv
<1>3. ASSUME m.shared = Secret(s, m) PROVE At(n, y) /\ (~FromCurrent(s, m) => At(n, z))
  <2>1. InvAt(n, u, None, k, N) /\ u.next = s.next /\ IsSession(n, u)
    BY <1>1, <1>3, NonceNotedInv
  <2>2. /\ DOMAIN y = {"session", "buffer", "keys", "out", "got"}
        /\ y.session = u /\ y.buffer = None /\ y.keys = k /\ y.out = x.out
    BY <1>1, Zenon
  <2>3. /\ DOMAIN z = {"session", "buffer", "keys", "out", "got"}
        /\ z.session = w /\ z.buffer = None /\ z.keys = k + 1 /\ z.out = x.out
    BY <1>1, Zenon
  <2> HIDE DEF u, y, z
  <2>4. At(n, y)
    BY <1>1, <2>1, <2>2, Zenon DEF At
  <2>5. ASSUME ~FromCurrent(s, m) PROVE At(n, z)
    <3>1. u # None /\ u.next \in m.shared
      BY <1>3, <2>1, <2>5, OpenedWith, SessionNotNone, Zenon
    <3>2. InvAt(n, w, None, k + 1, N)
      BY <2>1, <3>1, RatchetInv, Zenon
    <3> QED
      BY <1>1, <2>3, <3>2, Zenon DEF At
  <2> QED
    BY <2>4, <2>5, Zenon
<1> HIDE DEF y, z
<1> QED
  BY <1>2, <1>3, UnopenedAt, Zenon

\* handleData.
LEMMA HandleDataAt ==
    ASSUME NEW n \in Node, NEW x, At(n, x), NEW t, NEW minute, NEW m \in net, m.to = n
    PROVE  At(n, HandleData(n, x, t, m, minute))
<1>1. CASE m.type = "traffic" /\ x.session = None
  BY <1>1, TrafficNoSessionAt, Zenon DEF HandleData
<1>2. CASE m.type = "traffic" /\ x.session # None
  BY <1>2, DoRecvAt, Zenon DEF HandleData
<1>3. CASE m.type # "traffic" /\ x.session = None
  BY <1>3, CreateSessionAt, Zenon DEF HandleData
<1>4. CASE m.type # "traffic" /\ x.session # None
  BY <1>4, UpdateSessionAt, Zenon DEF HandleData
<1> QED
  BY <1>1, <1>2, <1>3, <1>4, Zenon

-----------------------------------------------------------------------------
(* The steps. *)

\* What a handler leaves of the invariant is the invariant of the next state.
LEMMA BecomesInv ==
    ASSUME IInv, NEW n \in Node, NEW x, At(n, x),
           session' = [session EXCEPT ![n] = x.session],
           buffer' = [buffer EXCEPT ![n] = x.buffer],
           keys' = [keys EXCEPT ![n] = x.keys], net' = net \cup Range(x.out)
    PROVE  /\ session' = [a \in Node |-> session'[a]] /\ buffer' = [a \in Node |-> buffer'[a]]
           /\ keys' \in [Node -> Nat]
           /\ \A a \in Node : InvAt(a, session[a], buffer[a], keys[a], net)'
<1> DEFINE o == Other(n)
<1>1. /\ o \in Node /\ o # n /\ Other(o) = n /\ Node = {n, o}
  BY OtherNode, Zenon
<1>2. /\ session'[n] = x.session /\ buffer'[n] = x.buffer /\ keys'[n] = x.keys
      /\ session'[o] = session[o] /\ buffer'[o] = buffer[o] /\ keys'[o] = keys[o]
      /\ net' = net \cup Range(x.out)
  BY <1>1, Zenon DEF IInv
<1>3. x.keys \in Nat
  BY Zenon DEF At, InvAt, NodeOK
<1>4. /\ session' = [a \in Node |-> session'[a]] /\ buffer' = [a \in Node |-> buffer'[a]]
      /\ keys' \in [Node -> Nat]
  BY <1>3, Zenon DEF IInv
<1>5. /\ Messages(net') /\ UsedOnce(net')
      /\ NodeOK(n, session'[n], buffer'[n], keys'[n], net')
      /\ NodeOK(o, session'[o], buffer'[o], keys'[o], net')
      /\ Apart(session'[n], session'[o]) /\ Apart(session'[o], session'[n])
  BY <1>2, Zenon DEF At, InvAt, Apart
<1> QED
  BY <1>1, <1>4, <1>5, Zenon DEF InvAt

\* What a node is within a handler, before it has done anything.
LEMMA LocalAt == ASSUME IInv, NEW n \in Node PROVE At(n, Local(n))
<1>1. /\ DOMAIN Local(n) = {"session", "buffer", "keys", "out", "got"}
      /\ Local(n).session = session[n] /\ Local(n).buffer = buffer[n]
      /\ Local(n).keys = keys[n] /\ Local(n).out = <<>>
  BY Zenon DEF Local
<1>2. Range(<<>>) = {} /\ <<>> \in Seq(Range(<<>>))
  BY DEF Range
<1>3. net \cup Range(<<>>) = net
  BY <1>2, Zenon
<1> QED
  BY <1>1, <1>2, <1>3, Zenon DEF At, IInv

\* The invariant holds at the start.
LEMMA InitIInv == Init => IInv
<1> SUFFICES ASSUME Init PROVE IInv
  BY Zenon
<1>1. \A n \in Node : session[n] = None /\ buffer[n] = None /\ keys[n] = 0
  BY Zenon DEF Init
<1>2. net = {}
  BY Zenon DEF Init
<1>3. ASSUME NEW n \in Node PROVE InvAt(n, session[n], buffer[n], keys[n], net)
  BY <1>1, <1>2, OtherNode DEF InvAt, Messages, UsedOnce, NodeOK, Made, Apart
<1> QED
  BY <1>3, Zenon DEF Init, IInv

\* Every step keeps the invariant.
LEMMA NextIInv == IInv /\ [Next]_vars => IInv'
<1> SUFFICES ASSUME IInv, [Next]_vars PROVE IInv'
  BY Zenon
<1>1. ASSUME NEW n \in Node, Write(n) PROVE IInv'
  <2>1. \E x : At(n, x) /\ Becomes(n, x)
    BY <1>1, LocalAt, WriteToAt, Zenon DEF Write
  <2>2. now' \in [Node -> Nat] /\ written' \in [Node -> Nat]
    BY <1>1 DEF Write, IInv
  <2> QED
    BY <2>1, <2>2, BecomesInv, ZenonT(40) DEF IInv, Becomes
<1>2. ASSUME NEW m \in net, Receive(m) PROVE IInv'
  <2>1. m.to \in Node
    BY SessionAssumption, Zenon DEF IInv, InvAt, Messages
  <2>2. \E x : At(m.to, x) /\ Becomes(m.to, x)
    BY <1>2, <2>1, LocalAt, HandleDataAt, Zenon DEF Receive
  <2>3. now' \in [Node -> Nat] /\ written' \in [Node -> Nat]
    BY <1>2, Zenon DEF Receive, IInv
  <2> QED
    BY <2>1, <2>2, <2>3, BecomesInv, Zenon DEF IInv, Becomes
<1>3. ASSUME NEW n \in Node, ExpireSession(n) \/ ExpireBuffer(n) PROVE IInv'
  <2> DEFINE x == [Local(n) EXCEPT !.session = session'[n], !.buffer = buffer'[n]]
  <2>1. /\ DOMAIN x = {"session", "buffer", "keys", "out", "got"}
        /\ x.session = session'[n] /\ x.buffer = buffer'[n] /\ x.keys = keys[n]
        /\ x.out = <<>>
    BY Zenon DEF Local
  <2> HIDE DEF x
  <2>2. \/ session'[n] = None /\ buffer'[n] = buffer[n]
        \/ session'[n] = session[n] /\ buffer'[n] = None
    BY <1>3, Zenon DEF ExpireSession, ExpireBuffer, IInv
  <2>3. InvAt(n, session'[n], buffer'[n], keys[n], net)
    BY <2>2, Forget, Zenon DEF IInv
  <2>4. Range(<<>>) = {} /\ <<>> \in Seq(Range(<<>>))
    BY DEF Range
  <2>5. net \cup Range(<<>>) = net
    BY <2>4, Zenon
  <2>6. At(n, x)
    BY <2>1, <2>3, <2>4, <2>5, Zenon DEF At
  <2>7. /\ session' = [session EXCEPT ![n] = x.session]
        /\ buffer' = [buffer EXCEPT ![n] = x.buffer]
        /\ keys' = [keys EXCEPT ![n] = x.keys] /\ net' = net \cup Range(x.out)
    BY <1>3, <2>1, <2>5, ZenonT(40) DEF ExpireSession, ExpireBuffer, IInv
  <2>8. now' \in [Node -> Nat] /\ written' \in [Node -> Nat]
    BY <1>3, Zenon DEF ExpireSession, ExpireBuffer, IInv
  <2> QED
    BY <2>6, <2>7, <2>8, BecomesInv, Zenon DEF IInv
<1>4. ASSUME NEW n \in Node, Tick(n) PROVE IInv'
  <2>1. now' \in [Node -> Nat] /\ UNCHANGED <<session, buffer, net, keys, written>>
    BY <1>4 DEF Tick, IInv
  <2> QED
    BY <2>1, Zenon DEF IInv, InvAt
<1>5. CASE UNCHANGED vars
  BY <1>5, Zenon DEF vars, IInv, InvAt
<1> QED
  BY <1>1, <1>2, <1>3, <1>4, <1>5, Zenon DEF Next

-----------------------------------------------------------------------------

\* No two messages are sealed with the same secret and the same nonce, whatever the
\* network loses, repeats and reorders, and however often keys rotate, nonces
\* overflow and sessions are lost and made again (session.go, doSend and _fixShared).
THEOREM NoncesUsedOnce == Spec => []NonceUsedOnce
<1>1. IInv => NonceUsedOnce
  BY SessionAssumption, Zenon DEF IInv, InvAt, UsedOnce, NonceUsedOnce, Traffic
<1> QED
  BY <1>1, InitIInv, NextIInv, PTL DEF Spec

\* A receiver whose nonce would be ahead of the sender's has seen a message that
\* the sender has not sealed.
LEMMA NextMessageNew ==
    ASSUME IInv, NEW n \in Node, session[n] # None, session[Other(n)] # None,
           NEW r, r = session[Other(n)],
           NEW m, m = TrafficMsg(n, Sent(n, session[n], keys[n]), 0),
           m.shared = Secret(r, m), m.nonce # 0
    PROVE  OldNonce(r, m) < m.nonce
<1> DEFINE o == Other(n)
           s == session[n]
<1>1. o \in Node /\ o # n /\ Other(o) = n
  BY OtherNode, Zenon
<1>2. SessionOK(n, s, keys[n], net) /\ SessionOK(o, r, keys[o], net) /\ Messages(net)
  BY <1>1, Zenon DEF IInv, InvAt, NodeOK
<1>3. s.sendNonce \in Nat /\ keys[n] \in Nat
  BY <1>2, Zenon DEF SessionOK, IsSession, IInv
<1>4. s.sendNonce # MaxNonce
  <2> SUFFICES ASSUME s.sendNonce = MaxNonce PROVE FALSE
    BY Zenon
  <2>1. m.nonce = Advance(n, s, keys[n], 0, 0).sendNonce
    BY Zenon DEF TrafficMsg, Sent
  <2> QED
    BY <1>2, <1>3, <2>1, AdvanceFacts DEF SessionOK
<1>5. m.nonce = s.sendNonce + 1 /\ m.shared = {s.current, s.sendPub}
  BY <1>2, <1>4, Zenon DEF TrafficMsg, Sent, SessionOK, IsSession, SessionFields
<1>6. PICK key \in {r.current, r.next} : key = s.sendPub /\ Seen(o, OldNonce(r, m), key, net)
  <2>1. /\ r.current \in KeyOf(n) /\ r.next \in KeyOf(n)
        /\ r.sendPub # s.sendPub /\ r.recvPub # s.sendPub
    BY <1>1, <1>2, KeysApart, Zenon DEF SessionOK, IsSession
  <2>2. CASE FromCurrent(r, m)
    <3>1. s.sendPub \in {r.current, r.recvPub, r.sendPub}
      BY <1>5, <2>2, Zenon DEF Secret
    <3>2. OldNonce(r, m) = r.recvNonce
      BY <2>2, Zenon DEF OldNonce
    <3> QED
      BY <1>2, <2>1, <3>1, <3>2, Zenon DEF SessionOK
  <2>3. CASE ~FromCurrent(r, m)
    <3>1. s.sendPub \in {r.next, r.recvPub, r.sendPub}
      BY <1>5, <2>3, Zenon DEF Secret
    <3>2. OldNonce(r, m) \in {r.nextSendNonce, r.nextRecvNonce}
      BY <2>3, Zenon DEF OldNonce
    <3> QED
      BY <1>2, <2>1, <3>1, <3>2, Zenon DEF SessionOK
  <2> QED
    BY <2>2, <2>3, Zenon
<1>7. CASE OldNonce(r, m) = 0
  BY <1>3, <1>5, <1>7
<1>8. CASE OldNonce(r, m) # 0
  <2>1. PICK x \in net : /\ x.type = "traffic" /\ x.to = o /\ s.sendPub \in x.shared
                         /\ x.nonce = OldNonce(r, m)
    BY <1>6, <1>8, Zenon DEF Seen
  <2>2. x.nonce <= s.sendNonce /\ x.nonce \in Nat
    BY <1>1, <1>2, <2>1, Zenon DEF SessionOK, Sealed, Messages, IsMessage, IsInit
  <2> QED
    BY <1>3, <1>5, <2>1, <2>2
<1> QED
  BY <1>7, <1>8, Zenon

\* The message that a session sends next is new to the other, if the other holds the
\* secret for it: no session is silenced by its own nonces (session.go, doRecv).
THEOREM NextStaysNew == Spec => []NextIsNew
<1>1. IInv => NextIsNew
  BY NextMessageNew, Zenon DEF NextIsNew
<1> QED
  BY <1>1, InitIInv, NextIInv, PTL DEF Spec
=============================================================================
