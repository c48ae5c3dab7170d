-------------------------- MODULE NetManagerProofs --------------------------
(***************************************************************************)
(* Proofs about the receiving side: Deadline, PacketConn and NetManager.   *)
(* A read is cancelled by the last deadline only, no reader sleeps while a *)
(* packet lies in the queue, and the netManager never runs a second loop,  *)
(* however the readers, the actors, the timers and Close interleave and    *)
(* however many packets, readers and users there are.                      *)
(***************************************************************************)
EXTENDS NetManager, TLAPS

\* A callback that can still close its channel belongs to the current once and
\* holds the current channel, which is open; and onces are used up in order.
DInv ==
    /\ DeadlineTypeOK
    /\ \A x \in done : x <= once
    /\ \A x \in cancelled : x <= cancel
    /\ \A t \in timers : t.once <= once /\ (t.once \notin done => t.cancel = cancel)
    /\ \A x \in 0..once : x # once => x \in done
    /\ OnlyLastTimerCancels

\* A new deadline (newDeadline) satisfies the invariant.
LEMMA DeadlineInitInv == DeadlineInit => DInv
  BY DEF DeadlineInit, DInv, DeadlineTypeOK, OnlyLastTimerCancels

\* Setting a deadline (set) keeps the invariant: it uses up the once of the last
\* timer before it makes a new one.
LEMMA SetInv ==
    ASSUME DInv, NEW hasTime \in BOOLEAN, Set(hasTime) PROVE DInv'
<1>1. /\ once' = once + 1
      /\ done' = done \cup {once}
      /\ cancelled' = cancelled
      /\ cancel' = IF cancel \in cancelled THEN cancel + 1 ELSE cancel
  BY DEF Set
<1>2. cancel' \in Nat /\ cancel' \notin cancelled' /\ cancel <= cancel'
  BY <1>1 DEF DInv, DeadlineTypeOK
<1> DEFINE new == [once |-> once + 1, cancel |-> cancel']
<1>3. \A t \in timers' : t \in timers \/ t = new
  BY DEF Set
<1>4. new \in [once : Nat, cancel : Nat]
  BY <1>2 DEF DInv, DeadlineTypeOK
<1>5. DeadlineTypeOK'
  BY <1>1, <1>2, <1>3, <1>4 DEF DInv, DeadlineTypeOK
<1>6. \A t \in timers' : t.once <= once' /\ (t.once \notin done' => t.cancel = cancel')
  <2> SUFFICES ASSUME NEW t \in timers'
               PROVE  t.once <= once' /\ (t.once \notin done' => t.cancel = cancel')
    OBVIOUS
  <2>1. CASE t = new
    BY <1>1, <2>1 DEF DInv, DeadlineTypeOK
  <2>2. CASE t \in timers
    <3>1. t.once \in Nat /\ t.once <= once /\ once \in Nat
      BY <2>2 DEF DInv, DeadlineTypeOK
    <3>2. t.once \in done'
      BY <1>1, <3>1 DEF DInv
    <3> QED
      BY <1>1, <3>1, <3>2
  <2> QED
    BY <1>3, <2>1, <2>2
<1>7. \A x \in done' : x <= once'
  BY <1>1 DEF DInv, DeadlineTypeOK
<1>8. \A x \in cancelled' : x <= cancel'
  BY <1>1, <1>2 DEF DInv, DeadlineTypeOK
<1>9. \A x \in 0..once' : x # once' => x \in done'
  BY <1>1 DEF DInv, DeadlineTypeOK
<1> QED
  BY <1>2, <1>5, <1>6, <1>7, <1>8, <1>9 DEF DInv, OnlyLastTimerCancels

\* A timer that runs (the closure of set) keeps the invariant.
LEMMA RunTimerInv ==
    ASSUME DInv, NEW t \in timers, RunTimer(t) PROVE DInv'
<1>1. /\ timers' = timers \ {t}
      /\ done' = done \cup {t.once}
      /\ cancelled' = IF t.once \in done THEN cancelled ELSE cancelled \cup {t.cancel}
      /\ UNCHANGED <<cancel, once>>
  BY DEF RunTimer
<1>2. t.once \in Nat /\ t.cancel \in Nat /\ t.once <= once
  BY DEF DInv, DeadlineTypeOK
<1>3. DeadlineTypeOK'
  BY <1>1, <1>2, Zenon DEF DInv, DeadlineTypeOK
<1>4. OnlyLastTimerCancels'
  BY <1>1, <1>2 DEF DInv, DeadlineTypeOK, OnlyLastTimerCancels
<1>5. \A x \in cancelled' : x <= cancel'
  BY <1>1, <1>2 DEF DInv, DeadlineTypeOK
<1> QED
  BY <1>1, <1>2, <1>3, <1>4, <1>5 DEF DInv

\* Every step of a deadline keeps the invariant.
LEMMA DeadlineNextInv == DInv /\ [DeadlineNext]_deadlineVars => DInv'
<1> SUFFICES ASSUME DInv, [DeadlineNext]_deadlineVars PROVE DInv'
  OBVIOUS
<1>1. CASE UNCHANGED deadlineVars
  BY <1>1 DEF deadlineVars, DInv, DeadlineTypeOK, OnlyLastTimerCancels
<1> QED
  BY <1>1, SetInv, RunTimerInv DEF DeadlineNext

-----------------------------------------------------------------------------
(* What a step of NetManager is to the parts below it. *)

\* What a reader of the PacketConn does; the loop goes on after types.ErrClosed.
Reads(r) ==
    \/ ReadFrom(r) \/ StartSelect(r) \/ ReturnPacket(r) \/ ReturnTimeout(r)
    \/ ReturnClosed(r, "done") \/ ReturnClosed(r, "idle")

\* To the PacketConn, a step of the netManager and of its users is a step of one of
\* the PacketConn's readers or none.
LEMMA NetStepConn ==
    ASSUME [NetNext]_allVars
    PROVE  \/ ~panicked /\ ConnStep /\ UNCHANGED netVars
           \/ ~panicked /\ \E r \in Reader : Reads(r)
           \/ UNCHANGED vars
<1>1. CASE UNCHANGED allVars
  BY <1>1 DEF allVars
<1>2. CASE NetNext
  <2>1. CASE Manager
    <3>1. CASE StartLoop
      BY <3>1 DEF StartLoop
    <3>2. CASE LoopReads \/ LoopPacket \/ LoopEnds
      BY <1>2, <3>2, NetManagerAssumption DEF NetNext, LoopReads, LoopPacket, LoopEnds, Reads
    <3> QED
      BY <2>1, <3>1, <3>2 DEF Manager
  <2>2. CASE PassOn \/ \E u \in User : UserReads(u) \/ UserReturns(u)
    BY <2>2 DEF PassOn, UserReads, UserReturns
  <2>3. CASE \E r \in Reader \ {Loop} : ReaderStep(r)
    BY <1>2, <2>3 DEF NetNext, ReaderStep, Reads
  <2> QED
    BY <1>2, <2>1, <2>2, <2>3 DEF NetNext
<1> QED
  BY <1>1, <1>2

\* To the deadline it is a step of its own or none.
LEMMA NetStepDeadline == ASSUME [NetNext]_allVars PROVE [DeadlineNext]_deadlineVars
<1>1. CASE ConnStep
  <2>1. CASE Actor
    BY <2>1, Zenon DEF Actor, RefuseTraffic, PassTraffic, QueueTraffic, PopNothing, PopPacket, Take
  <2> QED
    BY <1>1, <2>1 DEF ConnStep, Arrive, Close
<1>2. ASSUME NEW r \in Reader, Reads(r) PROVE UNCHANGED deadlineVars
  BY <1>2 DEF Reads, ReadFrom, StartSelect, ReturnPacket, ReturnTimeout, ReturnClosed, Return
<1> QED
  BY <1>1, <1>2, NetStepConn DEF vars

\* The invariant of the deadline holds of the whole.
LEMMA NetDeadline == NetSpec => []DInv
<1>1. NetInit => DInv
  BY DeadlineInitInv DEF NetInit, Init
<1>2. DInv /\ [NetNext]_allVars => DInv'
  BY NetStepDeadline, DeadlineNextInv
<1> QED
  BY <1>1, <1>2, PTL DEF NetSpec

\* A read is cancelled by the timer of the last call of set only
\* (packetconn.go, deadline.set).
THEOREM LastTimerCancels == NetSpec => []OnlyLastTimerCancels
<1>1. DInv => OnlyLastTimerCancels
  BY DEF DInv
<1> QED
  BY <1>1, NetDeadline, PTL

\* close is never called on a closed channel (packetconn.go, deadline.set).
THEOREM ClosedOnce == NetSpec => []NoDoubleClose
<1>1. DInv => NoDoubleClose
  <2> SUFFICES ASSUME DInv, NEW t \in timers, t.once \notin done
               PROVE  t.cancel \notin cancelled
    BY DEF NoDoubleClose
  <2>1. t.cancel = cancel /\ t.once \in Nat /\ t.once <= once /\ once \in Nat
    BY DEF DInv, DeadlineTypeOK
  <2>2. t.once = once
    BY <2>1 DEF DInv
  <2> QED
    BY <2>1, <2>2 DEF DInv, OnlyLastTimerCancels
<1> QED
  BY <1>1, NetDeadline, PTL

-----------------------------------------------------------------------------
(* The readers of the PacketConn. *)

\* What an actor's inbox holds.
Closures == {Pop} \cup {Traffic(p, mine) : p \in Nat, mine \in BOOLEAN}

\* Where v is in the sequence q.
Where(q, v) == {i \in DOMAIN q : q[i] = v}

\* The readers that have asked for a packet and have not returned.
Active == {r \in Reader : reader[r] \in {"called", "waiting"}}

\* How many packets recv holds.
Held == IF recv = <<>> THEN 0 ELSE 1

CTypeOK ==
    /\ inbox \in Seq(Closures)
    /\ recvReady \in Nat
    /\ arrived \in Nat
    /\ closed \in BOOLEAN /\ panicked \in BOOLEAN
    /\ reader \in [Reader -> {"idle", "called", "waiting", "done"}]
    /\ recv = <<>> \/ \E p : recv = <<p>>
    /\ IsFiniteSet(Active)

\* Every reader that waits has a request in the inbox, one that recvReady counts or a
\* packet in recv; what it leaves behind when it gives up serves another.  Requests
\* are counted only while the queue is empty.
CInv ==
    /\ CTypeOK
    /\ recvq # {} => recvReady = 0
    /\ panicked => recv # <<>>
    /\ ~closed /\ ~panicked =>
         Cardinality(Active) <= Cardinality(Asked) + recvReady + Held

INSTANCE FiniteSetTheorems

\* The places of v in a sequence are finitely many.
LEMMA WhereFinite ==
    ASSUME NEW S, NEW q \in Seq(S), NEW v
    PROVE  IsFiniteSet(Where(q, v)) /\ Cardinality(Where(q, v)) \in Nat
<1>1. Where(q, v) \in SUBSET (1..Len(q)) /\ Len(q) \in Nat
  BY DEF Where
<1>2. 1 \in Int /\ Len(q) \in Int
  BY <1>1
<1>3. IsFiniteSet(1..Len(q))
  BY <1>2, FS_Interval, Zenon
<1>4. IsFiniteSet(Where(q, v))
  BY <1>1, <1>3, FS_Subset, Zenon
<1> QED
  BY <1>4, FS_CardinalityType, Zenon

\* A closure that an actor is sent is one more in its inbox.
LEMMA WhereAppend ==
    ASSUME NEW S, NEW q \in Seq(S), NEW e \in S, NEW v
    PROVE  /\ e = v => Cardinality(Where(Append(q, e), v)) = Cardinality(Where(q, v)) + 1
           /\ e # v => Cardinality(Where(Append(q, e), v)) = Cardinality(Where(q, v))
<1>1. Where(Append(q, e), v) = Where(q, v) \cup IF e = v THEN {Len(q) + 1} ELSE {}
  BY DEF Where
<1>2. Len(q) + 1 \notin Where(q, v)
  BY DEF Where
<1>3. CASE e = v
  BY <1>1, <1>2, <1>3, WhereFinite, FS_AddElement, Zenon
<1>4. CASE e # v
  <2>1. Where(Append(q, e), v) = Where(q, v)
    BY <1>1, <1>4
  <2> QED
    BY <1>4, <2>1, WhereFinite
<1> QED
  BY <1>3, <1>4

\* A closure that an actor takes is one less.
LEMMA WhereTail ==
    ASSUME NEW S, NEW q \in Seq(S), q # <<>>, NEW v
    PROVE  /\ Head(q) = v => Cardinality(Where(Tail(q), v)) = Cardinality(Where(q, v)) - 1
           /\ Head(q) # v => Cardinality(Where(Tail(q), v)) = Cardinality(Where(q, v))
<1> DEFINE W == Where(q, v) \ {1}
           T == Where(Tail(q), v)
           f == [i \in W |-> i - 1]
<1>1. /\ Len(q) \in Nat \ {0} /\ DOMAIN q = 1..Len(q)
      /\ Len(Tail(q)) = Len(q) - 1 /\ DOMAIN Tail(q) = 1..(Len(q) - 1)
      /\ \A i \in 1..(Len(q) - 1) : Tail(q)[i] = q[i + 1]
  OBVIOUS
<1>2. f \in [W -> T]
  BY <1>1 DEF Where
<1>3. \A a, b \in W : f[a] = f[b] => a = b
  BY <1>1 DEF Where
<1>4. \A t \in T : \E w \in W : f[w] = t
  <2> SUFFICES ASSUME NEW t \in T PROVE t + 1 \in W /\ f[t + 1] = t
    BY Zenon
  <2> QED
    BY <1>1 DEF Where
<1>5. ExistsBijection(W, T)
  BY <1>2, <1>3, <1>4, Zenon
     DEF ExistsBijection, Bijection, Injection, Surjection, IsInjective
<1>6. IsFiniteSet(W) /\ Cardinality(T) = Cardinality(W)
  BY <1>5, WhereFinite, FS_RemoveElement, FS_Bijection, Zenon
<1>7. 1 \in Where(q, v) <=> Head(q) = v
  BY <1>1 DEF Where
<1> QED
  BY <1>6, <1>7, WhereFinite, FS_RemoveElement

\* A channel that holds something is not empty.
LEMMA NotEmpty == \A p : <<p>> # <<>>
  OBVIOUS

\* The requests in the inbox are the places of Pop.
LEMMA AskedWhere == Asked = Where(inbox, Pop) /\ Asked' = Where(inbox', Pop)
  BY DEF Asked, Where

\* A reader that calls ReadFrom is one more that waits, and asks for a packet.
LEMMA ReadFromInv == ASSUME CInv, NEW r \in Reader, ReadFrom(r) PROVE CInv'
<1>1. /\ inbox' = Append(inbox, Pop) /\ reader' = [reader EXCEPT ![r] = "called"]
      /\ UNCHANGED <<recvReady, recvq, recv, closed, panicked, arrived>>
  BY DEF ReadFrom
<1>2. Active' = Active \cup {r} /\ r \notin Active
  BY <1>1 DEF ReadFrom, CInv, CTypeOK, Active
<1>3. /\ IsFiniteSet(Active') /\ Cardinality(Active') = Cardinality(Active) + 1
      /\ Cardinality(Active) \in Nat
  BY <1>2, FS_AddElement, FS_CardinalityType, Zenon DEF CInv, CTypeOK
<1>4. Pop \in Closures /\ inbox' \in Seq(Closures)
  BY <1>1 DEF Closures, CInv, CTypeOK
<1>5. Cardinality(Asked') = Cardinality(Asked) + 1 /\ Cardinality(Asked) \in Nat
  <2>1. inbox \in Seq(Closures)
    BY DEF CInv, CTypeOK
  <2>2. Cardinality(Asked') = Cardinality(Asked) + 1
    BY <1>1, <1>4, <2>1, WhereAppend, AskedWhere, Zenon
  <2> QED
    BY <2>1, <2>2, WhereFinite, AskedWhere, Zenon
<1>6. CTypeOK'
  BY <1>1, <1>3, <1>4 DEF CInv, CTypeOK
<1> QED
  BY <1>1, <1>3, <1>5, <1>6 DEF CInv, Held, CTypeOK

\* A reader that returns no longer waits; with a packet, it takes that from recv.
LEMMA ReturnInv ==
    ASSUME CInv, NEW r \in Reader, NEW next \in {"idle", "done"}, Return(r, next),
           \/ UNCHANGED recv
           \/ recv # <<>> /\ recv' = Tail(recv) /\ ~panicked
    PROVE  CInv'
<1>1. /\ reader' = [reader EXCEPT ![r] = next] /\ reader[r] = "waiting"
      /\ UNCHANGED <<inbox, recvReady, recvq, closed, panicked, arrived>>
  BY DEF Return
<1>2. Active' = Active \ {r} /\ r \in Active
  BY <1>1 DEF CInv, CTypeOK, Active
<1>3. /\ IsFiniteSet(Active') /\ Cardinality(Active') = Cardinality(Active) - 1
      /\ Cardinality(Active) \in Nat
  BY <1>2, FS_RemoveElement, FS_CardinalityType, Zenon DEF CInv, CTypeOK
<1>4. Asked' = Asked /\ Cardinality(Asked) \in Nat
  BY <1>1, WhereFinite, AskedWhere, Zenon DEF CInv, CTypeOK
<1>5. /\ recv' = <<>> \/ \E p : recv' = <<p>>
      /\ Held' >= Held - 1 /\ Held \in 0..1 /\ Held' \in 0..1
      /\ panicked => recv' = recv
  BY DEF Held, CInv, CTypeOK
<1>6. CTypeOK'
  BY <1>1, <1>3, <1>5 DEF CInv, CTypeOK
<1> QED
  BY <1>1, <1>3, <1>4, <1>5, <1>6 DEF CInv, CTypeOK

\* What a reader of the PacketConn does keeps the invariant.
LEMMA ReadsInv == ASSUME CInv, ~panicked, NEW r \in Reader, Reads(r) PROVE CInv'
<1>1. CASE StartSelect(r)
  <2>1. /\ reader[r] = "called" /\ reader' = [reader EXCEPT ![r] = "waiting"]
        /\ UNCHANGED <<inbox, recvReady, recvq, recv, closed, panicked, arrived>>
    BY <1>1 DEF StartSelect
  <2>2. Active' = Active /\ Asked' = Asked /\ Held' = Held
    BY <2>1 DEF Active, CInv, CTypeOK, Asked, Held
  <2>3. CTypeOK'
    BY <2>1, <2>2 DEF CInv, CTypeOK
  <2> QED
    BY <2>1, <2>2, <2>3 DEF CInv
<1>2. CASE ReturnPacket(r)
  BY <1>2, ReturnInv DEF ReturnPacket
<1>3. CASE ReturnTimeout(r) \/ ReturnClosed(r, "done") \/ ReturnClosed(r, "idle")
  BY <1>3, ReturnInv DEF ReturnTimeout, ReturnClosed
<1> QED
  BY <1>1, <1>2, <1>3, ReadFromInv DEF Reads

\* The actor takes a request: it is counted, or served from the queue.
LEMMA PopInv == ASSUME CInv, ~panicked, PopNothing \/ PopPacket PROVE CInv'
<1>1. /\ inbox # <<>> /\ Head(inbox) = Pop /\ inbox' = Tail(inbox)
      /\ UNCHANGED <<closed, reader, arrived>>
  BY DEF PopNothing, PopPacket, Take
<1>2. Active' = Active /\ IsFiniteSet(Active) /\ Cardinality(Active) \in Nat
  BY <1>1, FS_CardinalityType DEF Active, CInv, CTypeOK
<1>3. inbox' \in Seq(Closures)
  BY <1>1 DEF CInv, CTypeOK
<1>4. Cardinality(Asked') = Cardinality(Asked) - 1 /\ Cardinality(Asked) \in Nat
  <2>1. inbox \in Seq(Closures)
    BY DEF CInv, CTypeOK
  <2>2. Cardinality(Asked') = Cardinality(Asked) - 1
    BY <1>1, <2>1, WhereTail, AskedWhere, Zenon
  <2> QED
    BY <1>1, <2>1, <2>2, WhereFinite, AskedWhere, Zenon
<1>5. CASE PopNothing
  <2>1. /\ recvq = {} /\ recvReady' = recvReady + 1
        /\ UNCHANGED <<recvq, recv, panicked>>
    BY <1>5 DEF PopNothing
  <2>2. CTypeOK'
    BY <1>1, <1>2, <1>3, <2>1 DEF CInv, CTypeOK
  <2> QED
    BY <1>1, <1>2, <1>4, <2>1, <2>2 DEF CInv, CTypeOK, Held
<1>6. CASE PopPacket
  <2>1. /\ recvq # {} /\ recvReady' = recvReady
        /\ \/ recv = <<>> /\ (\E p : recv' = <<p>>) /\ UNCHANGED panicked
           \/ closed /\ UNCHANGED <<recv, panicked>>
           \/ recv # <<>> /\ panicked' = TRUE /\ UNCHANGED recv
    BY <1>6, Zenon DEF PopPacket
  <2>2. CTypeOK'
    BY <1>1, <1>2, <1>3, <2>1, Zenon DEF CInv, CTypeOK
  <2>3. recvReady = 0 /\ recvReady' = 0
    BY <2>1 DEF CInv
  <2>4. panicked' => recv' # <<>>
    BY <2>1, NotEmpty, Zenon DEF CInv
  <2>5. ~closed' /\ ~panicked' => Held = 0 /\ Held' = 1
    BY <1>1, <2>1, NotEmpty, Zenon DEF Held
  <2>6. ~closed' /\ ~panicked' =>
          Cardinality(Active') <= Cardinality(Asked') + recvReady' + Held'
    <3>1. ~closed => Cardinality(Active) <= Cardinality(Asked) + recvReady + Held
      BY DEF CInv
    <3> QED
      BY <1>1, <1>2, <1>4, <2>3, <2>5, <3>1
  <2> QED
    BY <2>2, <2>3, <2>4, <2>6, Zenon DEF CInv
<1> QED
  BY <1>5, <1>6

\* The actor takes a packet: it goes to a reader that is counted, or to the queue.
LEMMA TrafficInv ==
    ASSUME CInv, ~panicked, NEW p, RefuseTraffic(p) \/ PassTraffic(p) \/ QueueTraffic(p)
    PROVE  CInv'
<1>1. /\ inbox # <<>> /\ inbox' = Tail(inbox)
      /\ \E mine \in BOOLEAN : Head(inbox) = Traffic(p, mine)
      /\ UNCHANGED <<closed, reader, arrived, panicked>>
  BY Zenon DEF RefuseTraffic, PassTraffic, QueueTraffic, Take
<1>2. Active' = Active /\ IsFiniteSet(Active) /\ Cardinality(Active) \in Nat
  BY <1>1, FS_CardinalityType DEF Active, CInv, CTypeOK
<1>3. inbox' \in Seq(Closures)
  BY <1>1 DEF CInv, CTypeOK
<1>4. Head(inbox) # Pop
  BY <1>1 DEF Pop, Traffic
<1>5. Cardinality(Asked') = Cardinality(Asked) /\ Cardinality(Asked) \in Nat
  <2>1. inbox \in Seq(Closures)
    BY DEF CInv, CTypeOK
  <2> QED
    BY <1>1, <1>4, <2>1, WhereTail, WhereFinite, AskedWhere, Zenon
<1>6. \/ UNCHANGED <<recvReady, recvq, recv>>
      \/ /\ recvReady > 0 /\ recv = <<>> /\ recv' = <<p>> /\ recvReady' = recvReady - 1
         /\ UNCHANGED recvq
      \/ ~(recvReady > 0) /\ UNCHANGED <<recvReady, recv>>
  BY Zenon DEF RefuseTraffic, PassTraffic, QueueTraffic, ReaderReady
<1>7. CTypeOK'
  BY <1>1, <1>2, <1>3, <1>6 DEF CInv, CTypeOK
<1>8. recvReady \in Nat /\ (recvq # {} => recvReady = 0)
  BY DEF CInv, CTypeOK
<1>9. recvq' # {} => recvReady' = 0
  BY <1>6, <1>8
<1>10. recvReady' + Held' = recvReady + Held /\ {Held, Held'} \subseteq 0..1 /\ recvReady' \in Nat
  <2>1. \/ recvReady' = recvReady /\ Held' = Held
        \/ recvReady > 0 /\ recvReady' = recvReady - 1 /\ Held = 0 /\ Held' = 1
    BY <1>6, NotEmpty, Zenon DEF Held
  <2>2. {Held, Held'} \subseteq 0..1
    BY DEF Held
  <2> QED
    BY <1>8, <2>1, <2>2
<1>11. ~closed' => Cardinality(Active') <= Cardinality(Asked') + recvReady' + Held'
  <2>1. ~closed => Cardinality(Active) <= Cardinality(Asked) + recvReady + Held
    BY DEF CInv
  <2> QED
    BY <1>1, <1>2, <1>5, <1>8, <1>10, <2>1
<1> QED
  BY <1>1, <1>7, <1>9, <1>11, Zenon DEF CInv

\* A step that leaves the PacketConn alone keeps the invariant.
LEMMA ConnUnchanged == ASSUME CInv, UNCHANGED connVars PROVE CInv'
<1>1. /\ inbox' = inbox /\ recvReady' = recvReady /\ recvq' = recvq /\ recv' = recv
      /\ closed' = closed /\ panicked' = panicked /\ reader' = reader /\ arrived' = arrived
  BY DEF connVars
<1>2. Active' = Active /\ Asked' = Asked /\ Held' = Held
  BY <1>1 DEF Active, Asked, Held
<1>3. CTypeOK'
  BY <1>1, <1>2 DEF CInv, CTypeOK
<1> QED
  BY <1>1, <1>2, <1>3, Zenon DEF CInv

\* What happens without the readers keeps it.
LEMMA ConnStepInv == ASSUME CInv, ~panicked, ConnStep PROVE CInv'
<1>1. CASE DeadlineNext /\ UNCHANGED connVars
  BY <1>1, ConnUnchanged
<1>2. CASE Close
  <2>1. closed' = TRUE /\ UNCHANGED <<inbox, recvReady, recvq, recv, panicked, reader, arrived>>
    BY <1>2 DEF Close
  <2> QED
    BY <2>1 DEF CInv, CTypeOK, Active
<1>3. ASSUME NEW mine \in BOOLEAN, Arrive(mine) PROVE CInv'
  <2>1. /\ inbox' = Append(inbox, Traffic(arrived + 1, mine)) /\ arrived' = arrived + 1
        /\ UNCHANGED <<recvReady, recvq, recv, closed, panicked, reader>>
    BY <1>3 DEF Arrive
  <2>2. /\ Traffic(arrived + 1, mine) \in Closures /\ Traffic(arrived + 1, mine) # Pop
        /\ arrived' \in Nat /\ inbox \in Seq(Closures)
    BY <2>1 DEF Closures, Traffic, Pop, CInv, CTypeOK
  <2>3. inbox' \in Seq(Closures)
    BY <2>1, <2>2
  <2>5. Cardinality(Asked') = Cardinality(Asked)
    BY <2>1, <2>2, WhereAppend, AskedWhere, Zenon
  <2>6. Active' = Active /\ Held' = Held
    BY <2>1 DEF Active, Held
  <2>7. CTypeOK'
    BY <2>1, <2>2, <2>3, <2>6 DEF CInv, CTypeOK
  <2> QED
    BY <2>1, <2>5, <2>6, <2>7, Zenon DEF CInv
<1> QED
  BY <1>1, <1>2, <1>3, PopInv, TrafficInv DEF ConnStep, Actor

\* The PacketConn starts with no reader.
LEMMA InitCInv == Init => CInv
<1> SUFFICES ASSUME Init PROVE CInv
  OBVIOUS
<1>1. /\ inbox = <<>> /\ recvReady = 0 /\ recvq = {} /\ recv = <<>>
      /\ closed = FALSE /\ panicked = FALSE /\ reader \in [Reader -> {"idle", "done"}]
      /\ arrived \in 0..MaxPackets
  BY DEF Init
<1>2. Active = {} /\ Asked = {}
  BY <1>1 DEF Active, Asked
<1>3. IsFiniteSet(Active) /\ Cardinality(Active) = 0 /\ Cardinality(Asked) = 0
  BY <1>2, FS_EmptySet, Zenon
<1>4. CTypeOK
  <2>1. inbox \in Seq(Closures) /\ recvReady \in Nat
    BY <1>1
  <2>2. arrived \in Nat
    BY <1>1, PacketConnAssumption
  <2>4. closed \in BOOLEAN /\ panicked \in BOOLEAN
    BY <1>1, Zenon
  <2>3. reader \in [Reader -> {"idle", "called", "waiting", "done"}]
    BY <1>1
  <2> QED
    BY <1>1, <1>3, <2>1, <2>2, <2>3, <2>4 DEF CTypeOK
<1> QED
  BY <1>1, <1>3, <1>4 DEF CInv, Held

\* The invariant of the PacketConn holds of the whole.
LEMMA NetConn == NetSpec => []CInv
<1>1. NetInit => CInv
  BY InitCInv DEF NetInit
<1>2. CInv /\ [NetNext]_allVars => CInv'
  <2> SUFFICES ASSUME CInv, [NetNext]_allVars PROVE CInv'
    OBVIOUS
  <2>1. CASE UNCHANGED vars
    BY <2>1, ConnUnchanged DEF vars
  <2> QED
    BY <2>1, NetStepConn, ReadsInv, ConnStepInv
<1> QED
  BY <1>1, <1>2, PTL DEF NetSpec

\* While packets lie in the queue, a reader that waits is about to be woken: its
\* request is in the inbox or a packet is in recv (packetconn.go, ReadFrom, doPop and
\* handleTraffic).
THEOREM NoWakeupLost == NetSpec => []NoLostWakeup
<1>1. CInv => NoLostWakeup
  <2> SUFFICES ASSUME CInv, NEW r \in Reader, reader[r] = "waiting", recvq # {}, ~closed,
                      recv = <<>>, Asked = {}
               PROVE  FALSE
    BY Zenon DEF NoLostWakeup
  <2>1. r \in Active /\ IsFiniteSet(Active)
    BY DEF Active, CInv, CTypeOK
  <2>2. Cardinality(Active) \in Nat \ {0}
    BY <2>1, FS_EmptySet, FS_CardinalityType
  <2>3. Cardinality(Asked) = 0
    BY FS_EmptySet, Zenon
  <2> QED
    BY <2>2, <2>3 DEF CInv, Held
<1> QED
  BY <1>1, NetConn, PTL

-----------------------------------------------------------------------------
(* The loop of the netManager. *)

\* m.running says whether the loop is in the inbox, and the actor is in its ReadFrom
\* only while it runs the loop.
LInv ==
    /\ minbox \in Seq({"start", "rl"})
    /\ running \in BOOLEAN
    /\ reader \in [Reader -> {"idle", "called", "waiting", "done"}]
    /\ reader[Loop] \in {"called", "waiting"} => minbox # <<>> /\ Head(minbox) = "rl"
    /\ Cardinality(Where(minbox, "rl")) = IF running THEN 1 ELSE 0

\* What the other readers and the actor of the PacketConn do leaves the loop's read
\* alone.
LEMMA OthersLInv ==
    ASSUME LInv, UNCHANGED netVars,
           \/ ConnStep
           \/ \E r \in Reader \ {Loop} : ReaderStep(r)
    PROVE  LInv'
<1>1. minbox' = minbox /\ running' = running
  BY DEF netVars
<1>2. CASE ConnStep
  <2>1. ASSUME Actor PROVE reader' = reader
    BY <2>1, Zenon DEF Actor, RefuseTraffic, PassTraffic, QueueTraffic, PopNothing, PopPacket, Take
  <2>2. reader' = reader
    BY <1>2, <2>1 DEF ConnStep, connVars, Arrive, Close
  <2> QED
    BY <1>1, <2>2, Zenon DEF LInv
<1>3. ASSUME NEW r \in Reader \ {Loop}, ReaderStep(r) PROVE LInv'
  <2>1. \E state \in {"idle", "called", "waiting", "done"} : reader' = [reader EXCEPT ![r] = state]
    BY <1>3 DEF ReaderStep, ReadFrom, StartSelect, ReturnPacket, ReturnTimeout,
                ReturnClosed, Return
  <2>2. reader' \in [Reader -> {"idle", "called", "waiting", "done"}] /\ reader'[Loop] = reader[Loop]
    BY <2>1, NetManagerAssumption DEF LInv
  <2> QED
    BY <1>1, <2>2, Zenon DEF LInv
<1> QED
  BY <1>2, <1>3

\* read starts the loop only if it does not run.
LEMMA StartLoopLInv == ASSUME LInv, StartLoop PROVE LInv'
<1>1. /\ minbox # <<>> /\ Head(minbox) = "start"
      /\ minbox' = Tail(minbox) \o IF running THEN <<>> ELSE <<"rl">>
      /\ running' = TRUE /\ reader' = reader
  BY DEF StartLoop, vars, connVars
<1>2. Tail(minbox) \in Seq({"start", "rl"}) /\ reader[Loop] \notin {"called", "waiting"}
  BY <1>1 DEF LInv
<1>3. Cardinality(Where(Tail(minbox), "rl")) = Cardinality(Where(minbox, "rl"))
  <2>1. minbox \in Seq({"start", "rl"}) /\ Head(minbox) # "rl"
    BY <1>1 DEF LInv
  <2> QED
    BY <1>1, <2>1, WhereTail, Zenon
<1>4. CASE running
  <2>1. minbox' = Tail(minbox)
    BY <1>1, <1>2, <1>4
  <2> QED
    BY <1>1, <1>2, <1>3, <1>4, <2>1 DEF LInv
<1>5. CASE ~running
  <2>1. minbox' = Append(Tail(minbox), "rl") /\ "rl" \in {"start", "rl"}
    BY <1>1, <1>2, <1>5
  <2>2. Cardinality(Where(minbox', "rl")) = Cardinality(Where(Tail(minbox), "rl")) + 1
    BY <1>2, <2>1, WhereAppend, Zenon
  <2>3. minbox' \in Seq({"start", "rl"})
    BY <1>2, <2>1
  <2> QED
    BY <1>1, <1>2, <1>3, <1>5, <2>2, <2>3 DEF LInv
<1> QED
  BY <1>4, <1>5

\* The loop runs, and goes on after a packet or ends with an error.
LEMMA LoopLInv == ASSUME LInv, LoopReads \/ LoopPacket \/ LoopEnds PROVE LInv'
<1>1. CASE LoopReads
  <2>1. /\ minbox' = minbox /\ running' = running /\ minbox # <<>> /\ Head(minbox) = "rl"
        /\ \E state \in {"called", "waiting"} : reader' = [reader EXCEPT ![Loop] = state]
    BY <1>1 DEF LoopReads, netVars, ReadFrom, StartSelect
  <2>2. reader' \in [Reader -> {"idle", "called", "waiting", "done"}]
    BY <2>1, Zenon DEF LInv
  <2> QED
    BY <2>1, <2>2, Zenon DEF LInv
<1>2. CASE LoopPacket \/ LoopEnds
  <2>1. /\ reader[Loop] = "waiting" /\ reader' = [reader EXCEPT ![Loop] = "idle"]
        /\ \/ minbox' = Append(Tail(minbox), "rl") /\ running' = running
           \/ minbox' = Tail(minbox) /\ running' = FALSE
    BY <1>2, Zenon DEF LoopPacket, LoopEnds, LoopError, ReturnPacket, ReturnTimeout, ReturnClosed,
                Return
  <2>2. minbox # <<>> /\ Head(minbox) = "rl" /\ minbox \in Seq({"start", "rl"})
    BY <2>1 DEF LInv
  <2>3. /\ reader' \in [Reader -> {"idle", "called", "waiting", "done"}]
        /\ reader'[Loop] = "idle"
    BY <2>1, NetManagerAssumption DEF LInv
  <2>4. Cardinality(Where(Tail(minbox), "rl")) = Cardinality(Where(minbox, "rl")) - 1
    BY <2>2, WhereTail, Zenon
  <2>5. Cardinality(Where(minbox, "rl")) \in Nat /\ Cardinality(Where(Tail(minbox), "rl")) \in Nat
    <3>1. Tail(minbox) \in Seq({"start", "rl"})
      BY <2>2
    <3> QED
      BY <2>2, <3>1, WhereFinite, Zenon
  <2>6. running = TRUE
    BY <2>4, <2>5 DEF LInv
  <2>7. CASE minbox' = Tail(minbox) /\ running' = FALSE
    <3>1. Cardinality(Where(minbox', "rl")) = 0
      BY <2>4, <2>6, <2>7 DEF LInv
    <3>2. minbox' \in Seq({"start", "rl"})
      BY <2>2, <2>7
    <3> QED
      BY <2>3, <2>7, <3>1, <3>2, Zenon DEF LInv
  <2>8. CASE minbox' = Append(Tail(minbox), "rl") /\ running' = running
    <3>1. Tail(minbox) \in Seq({"start", "rl"}) /\ "rl" \in {"start", "rl"}
      BY <2>2
    <3>2. Cardinality(Where(minbox', "rl")) = Cardinality(Where(Tail(minbox), "rl")) + 1
      BY <3>1, <2>8, WhereAppend, Zenon
    <3>3. minbox' \in Seq({"start", "rl"})
      BY <2>8, <3>1
    <3> QED
      BY <2>3, <2>4, <2>5, <2>6, <2>8, <3>2, <3>3 DEF LInv
  <2> QED
    BY <2>1, <2>7, <2>8, Zenon
<1> QED
  BY <1>1, <1>2

\* A user that reads asks the actor to start the loop, behind what it is doing.
LEMMA UserReadsLInv == ASSUME LInv, NEW u \in User, UserReads(u) PROVE LInv'
<1>1. minbox' = Append(minbox, "start") /\ running' = running /\ reader' = reader
  BY DEF UserReads, vars, connVars
<1>2. minbox \in Seq({"start", "rl"}) /\ "start" \in {"start", "rl"} /\ "start" # "rl"
  BY DEF LInv
<1>3. Cardinality(Where(minbox', "rl")) = Cardinality(Where(minbox, "rl"))
  BY <1>1, <1>2, WhereAppend, Zenon
<1>4. minbox' \in Seq({"start", "rl"})
  BY <1>1, <1>2
<1>5. minbox # <<>> => minbox' # <<>> /\ Head(minbox') = Head(minbox)
  BY <1>1, <1>2
<1> QED
  BY <1>1, <1>3, <1>4, <1>5 DEF LInv

\* Every step keeps the invariant of the loop.
LEMMA NextLInv == LInv /\ [NetNext]_allVars => LInv'
<1> SUFFICES ASSUME LInv, [NetNext]_allVars PROVE LInv'
  OBVIOUS
<1>1. CASE PassOn \/ (\E u \in User : UserReturns(u)) \/ UNCHANGED allVars
  <2>1. minbox' = minbox /\ running' = running /\ reader' = reader
    BY <1>1 DEF PassOn, UserReturns, allVars, netVars, vars, connVars
  <2> QED
    BY <2>1, Zenon DEF LInv
<1> QED
  BY <1>1, OthersLInv, StartLoopLInv, LoopLInv, UserReadsLInv DEF NetNext, Manager

\* ReadFrom of package encrypted never starts a second loop, and m.running is false
\* only once the loop has ended (network.go, read and its rl).
THEOREM NeverTwoLoops == NetSpec => []OneLoop
<1>1. NetInit => LInv
  <2> SUFFICES ASSUME NetInit PROVE LInv
    OBVIOUS
  <2>1. minbox = <<>> /\ running = FALSE /\ reader \in [Reader -> {"idle", "done"}]
    BY DEF NetInit, Init
  <2>2. Where(minbox, "rl") = {}
    BY <2>1 DEF Where
  <2>3. Cardinality(Where(minbox, "rl")) = 0
    BY <2>2, FS_EmptySet, Zenon
  <2> QED
    <3>1. minbox \in Seq({"start", "rl"})
      BY <2>1
    <3>2. /\ reader \in [Reader -> {"idle", "called", "waiting", "done"}]
          /\ reader[Loop] \notin {"called", "waiting"}
      BY <2>1, NetManagerAssumption
    <3> QED
      BY <2>1, <2>3, <3>1, <3>2, Zenon DEF LInv
<1>2. LInv => OneLoop
  BY DEF LInv, OneLoop, Where
<1> QED
  BY <1>1, <1>2, NextLInv, PTL DEF NetSpec
=============================================================================
