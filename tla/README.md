# A TLA+ model of ironwood

Ironwood routes packets between nodes that are named by their public keys. This
directory holds TLA+ modules translated from the Go source under `src/`, the
configurations with which TLC checks them on small instances, and proofs that
TLAPS checks for every value of the constants. `PROJECT.json` says which lines each
definition stands for, which properties each run checks, and lists the hazards of
the code together with the properties that would catch them.

## The system

Everything concurrent in ironwood is a *phony* actor: it runs closures from a FIFO
inbox one at a time, and timers post closures into that inbox. A closure is
therefore one action of a model, and the interleavings are those of closures, of
goroutines that block on channels, and of the network.

| Part of the code | What it does | Modules |
|---|---|---|
| `network/router.go` | spanning tree as replicated soft state: requests, responses, announcements, a maintenance every second | `Tree`, `ParentChoice`, `FixLoop`, `Router`, `Restart` |
| `network/router.go`, `network/pathfinder.go` | greedy forwarding along tree coordinates, broken-path reports | `Forwarding` |
| `network/pathfinder.go` | lookups, paths, rumors and the packets they hold back | `Pathfinder` |
| `network/bloomfilter.go` | which keys can be reached through a tree neighbour; multicast of lookups | `Blooms`, `Multicast` |
| `network/peers.go`, `network/packetconn.go` | life of connections, ports, `Close` | `Peers` |
| `network/peers.go` | a peer's queue, writer, handler and monitor: requests for more, flushes, keepalives, read deadlines | `PeerWriter`, `PeerMonitor` |
| `network/packetqueue.go` | fair queue: a heap of heaps | `PacketStore` (abstract), `PacketQueue` |
| `network/packetconn.go` | `ReadFrom`, the hand-over to readers, deadlines | `Deadline`, `PacketConn` |
| `encrypted/network.go`, `encrypted/packetconn.go` | the read loop below the encrypted `ReadFrom` | `NetManager` |
| `encrypted/session.go` | sessions with ratcheting keys and nonces | `Session`, `SessionRepair` |

The parts meet at few places. The router tells `Blooms` its parent and its peers'
parents, and its tables give `Forwarding` the coordinates. The pathfinder's lookups
travel by `Multicast` and its packets by `Forwarding`; `Pathfinder` itself lets the
network deliver or lose what is sent. `PeerMonitor` extends `PeerWriter`,
`NetManager` extends `PacketConn`, which extends `Deadline`, and `Multicast` extends
`Blooms`: these run composed, with every interleaving of the parts.

## The modules

**Tree, ParentChoice, FixLoop.** `Tree` has the infos, the order in which `_update`
prefers them (`Accepts`) and the walks along parents. `ParentChoice` states in
closed form which parent `_fix` chooses. `FixLoop` is the loop itself, with the
random order of a Go map: one step per visited response.

**Router** composes the routers of all nodes with their connections. `infos`,
`sent`, `requests`, `responses`, `resSeqs`, `refresh` and `doRoot1` are the fields of
`router` (`doRoot2` is `doRoot1` of the previous maintenance). `Maintain` is
`_doMaintenance` as a whole: `_fix` in four cases, then `_sendAnnounces`.
`HandleRequest`, `HandleResponse`, `AcceptAnnounce`, `RefuseAnnounce`, `AddPeer`,
`RemovePeer`, `Expire` and `RefreshTimer` are the other closures. A connection is a
pair of FIFO streams that may fail at any moment; what was on it is delivered up to
some point, and each end notices by itself.

**Restart** adds to `Router` that a node loses its memory and starts over at
`router.init`, with smaller sequence numbers than its peers remember.

**Forwarding** follows one packet. The path comes from an arbitrary view of the tree;
every node has its own view and its own cache of paths, and views change under way.
A packet that cannot go on becomes a broken report, with the way back as its path.

**Pathfinder** is the pathfinder of one node, with `paths`, `rumors` and the packet
that each may hold back. The handlers are functions of that state and of what was
sent so far, because they call each other: a lookup for a node's own key is answered
within the same closure. A timer has an identity, since its closure compares it, and
`inbox` holds the closures of timers that have gone off. The destinations answer
lookups with the second of their clock and their place, and move. The throttles of a
second are flags that are cleared at any moment.

**Blooms, Multicast.** `Blooms` keeps, per node and peer, the filters sent and received
and the flags `onTree` and `zDirty`. A filter is the set of keys put into it. The tree
on which the routers settle is given; a node adopts its place in it at some
maintenance, only if that makes no circle as far as it knows, and learns of its peers'
places in any order. `Multicast` sends one lookup along these filters, node by node,
while they change.

**Peers** has the goroutines of `HandleConn`, the router's inbox and `Close`.

**PeerWriter, PeerMonitor.** `PeerWriter` is the hand-over between a peer's queue and
its writer, with the buffer and the flush; `seq` wraps at a constant. `PeerMonitor`
adds the monitor, an actor with its timer, the handler that reads, and the far end of
the connection. The far end runs the same code and is reduced to what the protocol
makes of it: that it owes an answer, or expects one.

**PacketStore, PacketQueue.** The store is a set of packets, from which `pop` takes an
oldest one and `drop` the first of a longest stream of a largest destination.
`PacketQueue` has the two nested heaps, with `container/heap` written out.

**Deadline, PacketConn, NetManager.** `Deadline` is `deadline.set` and its timer.
`PacketConn` extends it with readers, the actor and `Close`. `NetManager` adds the
encrypted side: the loop, which is one of the readers of `PacketConn`, starts when a
user reads, ends with any error, and feeds the users through a channel of one element.

**Session, SessionRepair.** `Session` has two nodes, each with three key pairs of its
own and two of the other's. The network keeps every message ever sent, so that it may
lose, repeat and reorder. The nonce's limit is a constant. The closures of the manager
and of a session that one event causes are one action, for only the manager posts to a
session. `SessionRepair` models no further code: from any state of `Session` it lets
the network become calm and one node write, once a second.

Operators with a comment `Fault:` are deliberate variants of the definition that
follows them. Nothing uses them; putting one in the place of its definition makes
TLC report a property as violated, which shows that the property depends on that
part of the code.

## The runs

`tlc -config X.cfg M` for each row; each takes at most two minutes on two cores.

| Run | Module, configuration | Instance | Checks |
|---|---|---|---|
| tree | MCTree, Tree | all tables of 4 keys, all responders and orders; every tree of 4 keys rooted at the least, any further links; 2 conflicting views, one change | `OrderFree`, `Delivered`, `HopsBounded`, `CacheFresh`, `Ends` |
| router | MCRouter, Router | 2 nodes: parallel connections, one fails and may be made again; a connection made again while an info expires or is renewed | `TypeOK`, `OwnInfoNewest`, `ResponseUsable`, `SentKnown`, `SentArrives` |
| router_settles | MCRouter, RouterSettles | 3 nodes in a line; 2 nodes with a failure and a refresh; 2 nodes with 2 restarts | `SentArrives`, `Convergence`, `MaintenanceSettles` |
| packet_queue | MCPacketQueue, PacketQueue | 3 sources, 2 destinations, 2 sizes, 4 packets | `SizesAgree`, `ImplementsStore` |
| packet_conn | NetManager, PacketConn | either 2 users of the encrypted connection, its loop and 1 packet, or 2 readers and 2 packets; deadline set twice | `NoLostWakeup`, `OnlyLastTimerCancels`, `NoDoubleClose`, `AllSettled`, `OneLoop`, `PassedOn`, `CloseNoticed` |
| packet_conn_panic | PacketConn, PacketConnPanic | 1 reader, 2 packets, one deadline | `NoPanic` is violated |
| session | SessionRepair, Session | largest nonce 1, 8 key pairs and 2 messages per node, then 5 calm ones | `NonceUsedOnce`, `NextIsNew`, `Heals` |
| peers | MCPeers, Peers | 3 connections to 2 keys | `PortsDistinct`, `CloseEndsAll`, `ClosedForGood` |
| peer_link | PeerMonitor | 1 queued packet, 1 from the far end, direct packets, paths of length 0 and 1 | `RestsReady`, `ReadyMeansEmpty`, `NoTimerLeft`, `FallsSilent`, `AnswerArrives` |
| pathfinder | MCPathfinder, Pathfinder | a destination that moves; one whose messages are lost or late; two with one transformed key; the node itself | `NoneKeptForGood`, `PathAdvances`, `NoneWaits`, `KeepsArriving` |
| blooms | MCMulticast, Blooms | 2 nodes, tree changes, 2 failures; 3 in a line; 3 in a circle that changes | `LastSentArrives`, `Complete`, `LookupEnds` |
| multicast_circle | MCMulticast, MulticastCircle | the same | `NoCircle` is violated |

**Bounds.** Each is the least at which the case in question happens.

- Two nodes with two connections are the least in which `sent`, which is kept per peer,
  and the connections can disagree; a line of three is the least in which infos are
  passed on. Over parallel connections (`Short`) at most `MaxWritten` messages are on
  their way together, which leaves room for a request, a response and two announcements
  at a time; the two connections are a symmetry of that run, which checks invariants
  only. That a connection returns while a self info is renewed is left to that run, too:
  with liveness it would take most of the time. Two restarts let a node meet the infos
  of two lives. `OwnInfoNewest` is not checked with restarts, where it is false by
  design: the peers of a node that restarts know a newer info than it does.
- Four packets from three sources let the heaps hold several elements while one is
  taken from the middle.
- `MaxAsked` lets a reader ask again after its read has timed out, which is what
  leaves requests counted; two deadlines let a timer meet its successor.
- A largest nonce of 1 makes overflow an everyday event; eight key pairs leave room
  for updates, and for ratchets and overflows after them (`FewKeys`: the two nodes make
  at most 15 together before the network is calm). `Patience` is 5: on this
  instance, in which a nonce overflows every second message, 3 and 4 messages do not
  suffice.
- `SeqLimit` 2 makes the writer's counter wrap at every second packet. With one packet
  from the router there are the first message of the connection, that packet and
  keepalives to interleave. With `MaxPush` 2 TLC finds no error either, among 1.2
  million states, but takes minutes; and the safety properties of the link are
  proved for any number.
- `MaxFired` 1 allows the closure of one timer in the router's inbox, which may meet its
  own timer, set again. It takes a second closure to delete an entry while the first is
  queued, so that no closure meets the successor of its timer. One lost and one late
  message meet in one scenario, so that a lookup may be answered after its rumor has
  expired.
- A circle of three is the least in which a lookup could go round. It starts with one
  of its two trees (`StartOfCircle`) and changes to the other.
- Settled routers have the least key as root (`Converged`), so the settled trees are those
  rooted there. On four keys they have paths that go up, across a link that is not of the
  tree, and down.

**Deadlock.** Runs of modules whose system may come to rest (a bounded number of
packets, a closed connection) do not check for deadlock. Those of the router, where
maintenance is always possible, and of the pathfinder, whose application keeps
writing, do.

**Fairness.** Actors handle what is in their inboxes, so their closures are weakly
fair. Maintenance is on a timer that starts itself again. The handler of a connection
reads as long as it works. A timer that is armed goes off. The environment is not
fair: connections need not fail, nor return once they have, and the application need
not call `Close`. `Convergence` therefore speaks of the connected parts of a network,
each of which settles by itself. In `NetManager` readers keep reading, which
`AllSettled`, `PassedOn` and `CloseNoticed` need. In `Pathfinder` the application keeps
writing, and the timer of a path marked as broken goes off in the end: nothing resets
it but a notification that mends the path. One condition is strong: the closure of a
rumor's timer runs before the next lookup at least now and then: a lookup that resets
the timer each time after it has gone off and before its closure runs, a minute apart,
is a coincidence that does not recur for ever. Where an action's effect is never to
leave itself due, its fairness is written `[]<>~Due`, which is cheaper to check.

## What the checks show

In these instances, the tree protocol holds up under parallel connections,
reconnection, expiry and restarts. No packet and no lookup travels forever; on a
settled tree each packet is delivered, and every filter comes to hold what is behind
its link. Whoever keeps writing to a destination comes to reach it, wherever it moves.
Sessions never reuse a nonce, and heal. The packet queue is the store its comments
describe. The writer always asks for more. `Close` leaves nothing behind.

Two runs show the code at odds with what it says:

- packet_conn_panic: `doPop` can reach its `panic("this should never happen")`
  (packetconn.go:230). Two packets are queued and the read deadline has passed. The
  `doPop` of a read moves the first packet to `recv`; the read may choose the deadline
  all the same, and leaves the packet there. The `doPop` of the next read finds `recv`
  full. The properties of `NetManager` say what happens otherwise.
- multicast_circle: a comment in `_sendMulticast` asks to "make very sure this can't loop,
  even temporarily" (bloomfilter.go:294). It can: in a circle of three whose tree changes
  from 1-2-3 to 1-3-2, a lookup from 1 for 3 goes to 2 and is queued on its way to 3. In
  the meantime 3 learns that 2 has become its child, from an announcement, which does
  not wait in that queue. Now 3 takes the lookup for one from a tree neighbour and sends
  it on to 1, whose filter still holds 3 by way of 2. `LookupEnds` says that this does not
  go on for ever.

The models also have behaviours that no comment excludes, and that the properties
name as their exceptions:

- The writer drops a packet that is too large with its paths (peers.go:203) and asks
  for nothing more; `MTU` does not count paths. What is in the queue and the buffer
  waits until something else is written, which sets it all going again; if nothing is,
  an answer that waits there comes too late (`ignored` in `RestsReady` and
  `AnswerArrives`).
- Two destinations with one transformed key share a rumor, and may displace each
  other's waiting packet again and again (`KeepsArriving` excludes them). The first
  packet to a node's own key waits although its path is known (`NoneWaits`).
- When a path is renewed while the closure of its timer is queued, that closure
  deletes it (pathfinder.go:119): `Reset` leaves the timer the same.
- A path marked as broken is not mended by a notification that names the same path
  (pathfinder.go:112); it is found again after it has expired. Until then it is looked
  up with every packet, for `reqTime` is set only when a path is stored.
- When an ack is lost, the sender's buffered init keeps its time, and the peer, which
  has made a session of it, takes it for old until its session expires, after a minute
  (`Stuck` in `SessionRepair`). The message sealed with nonce 0 after an overflow
  is dropped as old.
- After `Close`, one waiting reader of the encrypted connection is told; another may
  wait for good (network.go:65). `CloseNoticed` says no more than that.
- With two connections to one peer, an announcement that is refused is answered over
  the one that it came by (router.go:520), and the answer counts as sent. If that
  connection fails with the answer on it, the peer keeps its old info until the root's
  next refresh, though the other connection works. `SentArrives` is therefore about
  nodes whose connections are all whole.
- With two connections to one peer, of which one fails, an old filter that the
  remote end still reads can replace the newer one (router.go:158); `LastSentArrives` and
  `Complete` are about nodes that one connection joins, and no run of `Blooms` has two. A
  bit that is no longer needed stays when nothing else changes (bloomfilter.go:237).

## Proofs

Eight modules hold proofs, for any value of the constants that meets the named
assumptions. Each proof has one lemma per action, on top of lemmas about the operators.

**RouterProofs** is about `Router`, under `KeyAssumption` (finitely many keys, ordered as
numbers) and `RouterAssumption`. `TypeCorrect`, `SentStaysKnown`, `SingleWriter` and
`ResponsesStayUsable` (`TypeOK`, `SentKnown`, `OwnInfoNewest`, `ResponseUsable`) follow
from one inductive invariant,

    IInv == TypeOK /\ SelfKnown /\ SentKnown /\ OwnInfoNewest /\ RequestsCurrent

`SelfKnown` is needed because a node's own info is what the others are compared with.
`RequestsCurrent` says that a pending request carries the sequence number after that
of the self info, and a response that of its request; it holds because every change
of the self info clears the requests. `ResponseUsable` is not inductive by itself and
follows from it. `OwnInfoNewest` makes it inductive in turn: an announcement about
the node itself is never newer than what it has, so that it cannot change the self
info behind the requests.

`SentIsNotLost` (`SentArrives`) needs the contents of every stream:

    SInv == IInv /\ Ended /\ (used["expire"] = 0 => Told /\ Sources /\ OneInfo)

`Told` is `SentArrives` itself. `Sources` says that a message about a node is never better
than the table of the one who sent it, so that `AcceptAnnounce` may count the sender as
told. `OneInfo` says that there is one info for each node and sequence number: when
`RefuseAnnounce` compares two, it does not take different infos for equal. `Ended` says
that only the ends of a connection that was made have it as a peer. An action is not
compared with these predicates directly. Each is shown to be a `Step`: what is said was
known (`Says`), what leaves a stream is taken (`Delivers`), tables only get better
(`Grows`), what is learnt was heard (`Learns`), and what is newly sent arrives (`Tells`);
and a `Step` keeps `SInv`.

**TreeProofs** is about `FixLoop` and `Forwarding`, under `KeyAssumption`,
`SelfAssumption` and `ForwardingAssumption`. `ChoiceIsOrderFree` (`OrderFree`) rests on
`LoopInv`: after any part of the responses, the best candidate so far is what
`ParentChoice` would choose from that part (`IsBest`). `HopsStayBounded` (`HopsBounded`)
and `CacheStaysFresh` (`CacheFresh`) come from `FInv`, which is their conjunction with
types. What `Walk`, a recursive function, returns is proved by a least counterexample,
for the induction theorems of the library cannot be used here.

**BloomsProofs** is about `Multicast`, under `BloomsAssumption`.
`MulticastImplementsBlooms` says that lookups on their way leave the filters to behave
as `Blooms` says. `LastOneArrives` (`LastSentArrives`) rests on `BInv`: it also covers
an end that has not yet added the peer, to whom a filter must then be on its way
(`Arrives`).

**PeersProofs** is about `Peers`, for any keys and connections. A port may be given out
again as soon as a connection has left `peers`, while the router still has it, so that
ports are distinct only as the router sees them (`PeersPortsDistinct`). `PInv` says in
`Separated` that of two connections whose ports do not go together one is gone, and the
router forgets it before it hears of the other; `Queued` has the order of a
connection's closures in the router's inbox, and `Counted` that the maps of `peers`
agree with the stages of the connections. `RouterClosedForGood` proves the action
property `ClosedForGood`, from the invariant that a closed router has no timer
(`TimerEnded`).

**PeerLinkProofs** is about `PeerMonitor`, under `PeerWriterAssumption`, for any packets and
any width of the counter `seq`. `LinkImplementsWriter` says that the link implements
`PeerWriter`, so that what holds of the writer holds in the composition.
`WriterRestsReady` and `WriterReadyMeansEmpty` (`RestsReady`, `ReadyMeansEmpty`): that a
peer at rest is ready is not inductive. `WInv` adds why: unless the last packet was ignored, a
peer that is not ready has a request in its inbox, or the writer's inbox holds a
packet, or the request that carries the present `seq` (`Pending`); and what is in the
buffer is followed by a flush, or by one of these (`WillFlush`). A request with an old
`seq` does nothing, and then a later one is there. `NoTimerStaysArmed` (`NoTimerLeft`): by
`MInv`, an armed timer of a handler that has returned has the closure that stops it in
the monitor's inbox.

**NetManagerProofs** is about `NetManager` with `PacketConn` and `Deadline` in it, for any
readers, users and packets. `LastTimerCancels` and `ClosedOnce` (`OnlyLastTimerCancels`,
`NoDoubleClose`) rest on `DInv`: all `once` values but the current one are used up, and a
timer whose `once` is not holds the current channel. `NoWakeupLost` (`NoLostWakeup`) rests
on `CInv`, which counts: the readers that are in a read are at most the requests in the
inbox, those counted in `recvReady` and the packet in `recv`; requests are counted only
while the queue is empty. `NeverTwoLoops` (`OneLoop`) rests on `LInv`: the loop is in the
actor's inbox once if `running`, and its read goes on only while it is the first there.

**PathfinderProofs** is about `Pathfinder`, under `PathfinderAssumption`.
`NoneIsKeptForGood`, `PathsAdvance` and `NoneKeepsWaiting` (`NoneKeptForGood`, the action
property `PathAdvances`, `NoneWaits`) come from `PInv`, which also dates the notifications
that are on their way. A handler of `Pathfinder` is a function of a state, and each is
shown to keep a good state good (`StateGood`) and to replace paths only by later ones
(`Advances`); the actions follow from that.

**SessionProofs** is about `Session`, under `SessionAssumption`, for any limit of the nonce,
any number of keys and messages. `NoncesUsedOnce` and `NextStaysNew` (`NonceUsedOnce`,
`NextIsNew`) rest on what is public: a node starts to send with a key pair only when
that pair was its next one, and `IInv` says that no message has shown a next pair as a
current one, nor was sealed with it. A pair of keys is therefore new when it is first
used, and its nonces only grow for as long as it is. The theorems are about `Session`
itself; the run of `session` adds the calm phase of `SessionRepair`.

Only model-checked:

- all liveness properties, which are beyond the prover: `Convergence`, `AllSettled`,
  `PassedOn`, `CloseNoticed`, `CloseEndsAll`, `FallsSilent`, `AnswerArrives`,
  `KeepsArriving`, `Complete`, `LookupEnds`, `Delivered`, `Ends`;
- `Heals`: it says that a given number of messages suffices, which depends on the
  largest nonce, and is a statement about one instance;
- `MaintenanceSettles`: it needs what the walks along parents give in a table after
  one of its infos has changed, for the node and for each of its peers;
- `SizesAgree` and `ImplementsStore` of `PacketQueue`: the heaps are recursive, and what a
  recursive operator computes cannot be proved with these provers;
- `SentArrives` with restarts (`Restart`), where `OwnInfoNewest`, on which the proof for
  `Router` rests, does not hold.

## Not modelled

- The byte formats (`wire.go` and the encoders and decoders of each message): functions
  of one closure, without state.
- The hash functions of the filters, and so false positives, which cost needless
  lookups; the choice among parallel connections by priority, which lead to the same
  node; the cryptographic primitives, taken to be perfect.
- Time: a timer may go off at any moment while it runs. What depends on one timeout
  being longer than another is therefore not used by any property, but for the minute
  in `SessionRepair`.
- `signed/`, a stateless wrapper; the configuration, whose values are constants;
  `core.go`, which calls the init functions; `debug.go`, which reads copies of the
  state; the buffer pools; `types/`; and the example program, which is I/O around an
  encrypted connection. They hold no protocol state.
- Some orders of closures. `Router.Expire` takes the timer of an info and its closure as
  one step, so that a closure that finds a newer timer, and does nothing, is left out.
  `Blooms.Learn` lets a node learn the present place of its peer, never one that the peer
  has left in the meantime. `NetManager.LoopPacket` takes the closures of the sessions,
  through which a packet comes from the loop to the users, together with the loop's: a
  packet that is with its session is as good as one in `rinbox`.
- In `PacketConn` every packet passes through the buffer of `recv`, also one for a reader
  that waits, to whom Go hands it at once. Such a read may then still time out in the
  model. In the trace of packet_conn_panic the read has not begun to wait, and does so
  in the code, too.
- A packet of `Forwarding` that ends keeps the watermark it came with, though `_lookup` has
  lowered it: nothing looks at it again.
- The checks at the start of `HandleConn` (packetconn.go:150) return before anything is
  changed, and are left out.
- `_updateAncestries` writes `r.ancs`, which nothing reads.
- That a router handles no announcement of a peer it has removed (router.go:507) is
  built into `Router`; it is the order of the closures that `Peers` shows for addPeer
  and removePeer.
