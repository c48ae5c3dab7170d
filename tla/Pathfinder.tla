----------------------------- MODULE Pathfinder -----------------------------
(***************************************************************************)
(* The pathfinder of network/pathfinder.go at one node, Self: the cache of *)
(* paths to destinations, the rumors about destinations it is looking for, *)
(* and the packet each of them holds back.  The destinations answer        *)
(* lookups; they move to other coordinates in the tree, and what is sent   *)
(* to where they were is answered by a broken report.                      *)
(*                                                                         *)
(* Multicast is the subject of Blooms and routing that of Forwarding:      *)
(* here a message in the network arrives, or is lost, at any moment.       *)
(* Time is left out: a timer may go off whenever it runs.                  *)
(***************************************************************************)
EXTENDS Integers, Functions, Sequences

CONSTANTS
    Key, Self,      \* the nodes, and the one whose pathfinder this is
    XKey,           \* XKey[k]: the key that lookups for k are sent to (bloomTransform)
    Place,          \* the coordinates that a node may have
    MaxFired,       \* how many closures of timers may wait in the router's inbox
    None,           \* no key
    Scenarios       \* which nodes there are, and how often each event happens

Event == {"move", "tick", "lose", "late", "ask"}

ASSUME PathfinderAssumption ==
    /\ Self \in Key /\ None \notin Key
    /\ MaxFired \in Nat
    /\ Scenarios \subseteq [nodes : SUBSET Key, events : [Event -> Nat]]

VARIABLES
    paths,          \* pf.paths, by key
    rumors,         \* pf.rumors, by transformed key
    inbox,          \* the closures of timers in the router's inbox
    net,            \* the messages in the network
    place,          \* place[k]: where k is
    clock,          \* the time in seconds
    nodes, left,    \* the scenario, and how often each event may still happen
    was             \* was[k]: the seconds at which k was at which place

pfVars == <<paths, rumors>>
envVars == <<place, clock, nodes, left, was>>
vars == <<pfVars, inbox, net, envVars>>

XKeys == {XKey[k] : k \in Key}
TimerId == 0..MaxFired
NoPath == [seq |-> 0]
NoRumor == [traffic |-> None]
Known(k) == paths[k] # NoPath

Lookup(k) == [type |-> "lookup", to |-> k]
Notify(k, seq, path) == [type |-> "notify", source |-> k, seq |-> seq, path |-> path]
Traffic(k, path) == [type |-> "traffic", dest |-> k, path |-> path]
Broken(k) == [type |-> "broken", dest |-> k]

\* The closures of the timers of path k and of rumor x.
PathTimer(k, id) == <<"path", k, id>>
RumorTimer(x, id) == <<"rumor", x, id>>

\* time.AfterFunc makes a timer unlike those that still have a closure in the inbox.
FreshId(kind, owner) == CHOOSE id \in TimerId : <<kind, owner, id>> \notin Range(inbox)

-----------------------------------------------------------------------------
(* The handlers, as functions of the pathfinder's state and of what it has *)
(* sent so far: s has the fields paths, rumors and out.                    *)

Start == [paths |-> paths, rumors |-> rumors, out |-> {}]

Sends(s, ms) == [s EXCEPT !.out = @ \cup ms]

\* Fault: an older notification is taken for a newer one.
RefusesSamePath(s, n) ==
    LET info == s.paths[n.source]
    IN  IF info = NoPath THEN s.rumors[XKey[n.source]] = NoRumor
        ELSE n.path = info.path

\* _handleNotify, once the notification has arrived: nothing that is not newer and
\* different, and nothing that was not asked for.
Refuses(s, n) ==
    LET info == s.paths[n.source]
    IN  IF info = NoPath THEN s.rumors[XKey[n.source]] = NoRumor
        ELSE n.seq <= info.seq \/ n.path = info.path

\* The path is replaced and its timer reset.
Renewed(info, n) ==
    [info EXCEPT !.path = n.path, !.seq = n.seq, !.broken = FALSE, !.runs = TRUE]

\* A new path, which takes the packet that waits for it.
NewPath(s, n) ==
    [path |-> n.path, seq |-> n.seq, broken |-> FALSE, throttled |-> TRUE,
     timer |-> FreshId("path", n.source), runs |-> TRUE,
     traffic |-> s.rumors[XKey[n.source]].traffic = n.source]

\* Fault: the packet stays with the rumor.
TakenNot(s, n) == s.rumors

Taken(s, n) ==
    [s.rumors EXCEPT ![XKey[n.source]].traffic = IF @ = n.source THEN None ELSE @]

\* _handleNotify: the packet that was held back, or the last one that was sent, goes
\* out along the new path.
HandleNotify(s, n) ==
    LET first == s.paths[n.source] = NoPath
        info == IF first THEN NewPath(s, n) ELSE Renewed(s.paths[n.source], n)
    IN  IF Refuses(s, n) THEN s
        ELSE [paths |-> [s.paths EXCEPT ![n.source] = info],
              rumors |-> IF first THEN Taken(s, n) ELSE s.rumors,
              out |-> s.out \cup IF info.traffic THEN {Traffic(n.source, n.path)} ELSE {}]

\* _handleLookup, at the node that is looked for.
Answer(k) == Notify(k, clock, place[k])

\* _sendLookup and _handleLookup: the lookup goes to all nodes with that transformed
\* key, of which Self may be one.
SendLookup(s, dest) ==
    LET found == {k \in nodes : XKey[k] = XKey[dest]}
        sent == Sends(s, {Lookup(k) : k \in found \ {Self}})
    IN  IF s.paths[dest] # NoPath /\ s.paths[dest].throttled THEN s
        ELSE IF Self \in found THEN HandleNotify(sent, Answer(Self)) ELSE sent

\* _rumorSendLookup.
RumorSendLookup(s, dest) ==
    LET x == XKey[dest]
        rumor == s.rumors[x]
        new == IF rumor = NoRumor
               THEN [traffic |-> None, throttled |-> TRUE, runs |-> TRUE,
                     timer |-> FreshId("rumor", x)]
               ELSE [rumor EXCEPT !.throttled = TRUE, !.runs = TRUE]
    IN  IF rumor # NoRumor /\ rumor.throttled THEN s
        ELSE SendLookup([s EXCEPT !.rumors[x] = new], dest)

\* _handleTraffic: a packet goes out along the path and a copy is kept, or it waits
\* for the path in the place of the one that waited before.
HandleTraffic(s, dest) ==
    IF s.paths[dest] # NoPath
    THEN Sends([s EXCEPT !.paths[dest].traffic = TRUE],
               {Traffic(dest, s.paths[dest].path)})
    ELSE [RumorSendLookup(s, dest) EXCEPT !.rumors[XKey[dest]].traffic = dest]

\* Fault: the path is not marked.
HandleBrokenUnmarked(s, dest) == IF s.paths[dest] = NoPath THEN s ELSE SendLookup(s, dest)

\* _handleBroken, at the source of the packet.
HandleBroken(s, dest) ==
    IF s.paths[dest] = NoPath THEN s
    ELSE SendLookup([s EXCEPT !.paths[dest].broken = TRUE], dest)

-----------------------------------------------------------------------------
(* The router's actor runs the handlers. *)

\* s is the new state, and the message m, if any, was received.
Becomes(s, received) ==
    /\ paths' = s.paths
    /\ rumors' = s.rumors
    /\ net' = (net \ received) \cup s.out
    /\ UNCHANGED inbox

\* PacketConn.WriteTo.
Write(k) == k \in nodes /\ Becomes(HandleTraffic(Start, k), {}) /\ UNCHANGED envVars

\* PacketConn.SendLookup.
Ask(k) ==
    /\ k \in nodes
    /\ left["ask"] > 0
    /\ left' = [left EXCEPT !["ask"] = @ - 1]
    /\ Becomes(RumorSendLookup(Start, k), {})
    /\ UNCHANGED <<place, clock, nodes, was>>

RecvNotify(m) ==
    m.type = "notify" /\ Becomes(HandleNotify(Start, m), {m}) /\ UNCHANGED envVars

RecvBroken(m) ==
    m.type = "broken" /\ Becomes(HandleBroken(Start, m.dest), {m}) /\ UNCHANGED envVars

\* _resetTimeout, when traffic from k has come.
RecvTrafficFrom(k) ==
    /\ Known(k)
    /\ ~paths[k].broken
    /\ paths' = [paths EXCEPT ![k].runs = TRUE]
    /\ UNCHANGED <<rumors, inbox, net, envVars>>

\* A timer goes off, and its closure is posted.
Fires(closure) == Len(inbox) < MaxFired /\ inbox' = Append(inbox, closure)

FirePath(k) ==
    /\ Known(k)
    /\ paths[k].runs
    /\ Fires(PathTimer(k, paths[k].timer))
    /\ paths' = [paths EXCEPT ![k].runs = FALSE]
    /\ UNCHANGED <<rumors, net, envVars>>

\* A lookup or its answer is under way.  pathTimeout is a minute, so that one is
\* seldom so late that the timer of its rumor goes off.
Awaited(x) ==
    \E m \in net : \/ m.type = "lookup" /\ XKey[m.to] = x
                   \/ m.type = "notify" /\ XKey[m.source] = x

FireRumor(x) ==
    /\ rumors[x] # NoRumor
    /\ rumors[x].runs
    /\ Fires(RumorTimer(x, rumors[x].timer))
    /\ rumors' = [rumors EXCEPT ![x].runs = FALSE]
    /\ IF Awaited(x) THEN left["late"] > 0 /\ left' = [left EXCEPT !["late"] = @ - 1]
                     ELSE UNCHANGED left
    /\ UNCHANGED <<paths, net, place, clock, nodes, was>>

\* The closures: what the timer belonged to is deleted, if it is still there.
ExpirePath(k, id) ==
    /\ inbox # <<>> /\ Head(inbox) = PathTimer(k, id)
    /\ inbox' = Tail(inbox)
    /\ paths' = IF Known(k) /\ paths[k].timer = id
                THEN [paths EXCEPT ![k] = NoPath] ELSE paths
    /\ UNCHANGED <<rumors, net, envVars>>

\* Fault: a rumor that holds a packet is kept.
ExpireRumorIfEmpty(x, id) ==
    /\ inbox # <<>> /\ Head(inbox) = RumorTimer(x, id)
    /\ inbox' = Tail(inbox)
    /\ rumors' = IF rumors[x] # NoRumor /\ rumors[x].timer = id /\ rumors[x].traffic = None
                 THEN [rumors EXCEPT ![x] = NoRumor] ELSE rumors
    /\ UNCHANGED <<paths, net, envVars>>

ExpireRumor(x, id) ==
    /\ inbox # <<>> /\ Head(inbox) = RumorTimer(x, id)
    /\ inbox' = Tail(inbox)
    /\ rumors' = IF rumors[x] # NoRumor /\ rumors[x].timer = id
                 THEN [rumors EXCEPT ![x] = NoRumor] ELSE rumors
    /\ UNCHANGED <<paths, net, envVars>>

\* pathThrottle passes.
PassPath(k) ==
    /\ Known(k) /\ paths[k].throttled
    /\ paths' = [paths EXCEPT ![k].throttled = FALSE]
    /\ UNCHANGED <<rumors, inbox, net, envVars>>

PassRumor(x) ==
    /\ rumors[x] # NoRumor /\ rumors[x].throttled
    /\ rumors' = [rumors EXCEPT ![x].throttled = FALSE]
    /\ UNCHANGED <<paths, inbox, net, envVars>>

-----------------------------------------------------------------------------
(* The destinations and the network. *)

\* _handleLookup, at another node.
RecvLookup(m) ==
    /\ m.type = "lookup"
    /\ net' = (net \ {m}) \cup {Answer(m.to)}
    /\ UNCHANGED <<pfVars, inbox, envVars>>

\* A packet arrives where its path leads; if its destination is not there, a broken
\* report goes back (_doBroken).
Arrive(m) ==
    /\ m.type = "traffic"
    /\ m.path = place[m.dest]
    /\ net' = net \ {m}
    /\ UNCHANGED <<pfVars, inbox, envVars>>

Miss(m) ==
    /\ m.type = "traffic"
    /\ m.path # place[m.dest]
    /\ net' = (net \ {m}) \cup {Broken(m.dest)}
    /\ UNCHANGED <<pfVars, inbox, envVars>>

Happens(e) ==
    /\ left[e] > 0
    /\ left' = [left EXCEPT ![e] = @ - 1]
    /\ UNCHANGED <<pfVars, inbox, nodes>>

Seen(p, t) == [k \in Key |-> was[k] \cup {<<t, p[k]>>}]

Move(k) ==
    /\ Happens("move")
    /\ k \in nodes
    /\ \E p \in Place \ {place[k]} : place' = [place EXCEPT ![k] = p]
    /\ was' = Seen(place', clock)
    /\ UNCHANGED <<net, clock>>

Tick ==
    /\ Happens("tick")
    /\ clock' = clock + 1
    /\ was' = Seen(place, clock')
    /\ UNCHANGED <<net, place>>

Lose(m) ==
    /\ Happens("lose")
    /\ net' = net \ {m}
    /\ UNCHANGED <<place, clock, was>>

-----------------------------------------------------------------------------

Init ==
    /\ paths = [k \in Key |-> NoPath]
    /\ rumors = [x \in XKeys |-> NoRumor]
    /\ inbox = <<>>
    /\ net = {}
    /\ place = [k \in Key |-> CHOOSE p \in Place : TRUE]
    /\ clock = 1
    /\ \E s \in Scenarios : nodes = s.nodes /\ left = s.events
    /\ was = [k \in Key |-> {<<1, place[k]>>}]

Receive(m) == RecvNotify(m) \/ RecvBroken(m) \/ RecvLookup(m) \/ Arrive(m) \/ Miss(m)

Expire ==
    \E id \in TimerId :
        (\E k \in Key : ExpirePath(k, id)) \/ (\E x \in XKeys : ExpireRumor(x, id))

Next ==
    \/ \E k \in Key : Write(k) \/ Ask(k) \/ RecvTrafficFrom(k) \/ FirePath(k) \/ PassPath(k)
    \/ \E x \in XKeys : FireRumor(x) \/ PassRumor(x)
    \/ Expire
    \/ \E m \in net : Receive(m) \/ Lose(m)
    \/ \E k \in Key : Move(k)
    \/ Tick

Spec == Init /\ [][Next]_vars

\* The application keeps writing, what is not lost arrives, and throttles pass.  The
\* timer of a path goes off in the end if nothing resets it: traffic from the
\* destination may do so again and again, unless the path is marked as broken.
\* That of a rumor need not go off: every lookup resets it.  When it does, a lookup
\* does not slip in before its closure each time.  (A throttle that has passed and
\* a lookup or report that was received are no longer due: []<> is their weak
\* fairness.)
Fairness ==
    /\ \A k \in Key : /\ WF_vars(Write(k))
                      /\ []<>~(Known(k) /\ paths[k].throttled)
                      /\ []<>~(Known(k) /\ paths[k].broken /\ paths[k].runs)
    /\ \A x \in XKeys : /\ []<>~(rumors[x] # NoRumor /\ rumors[x].throttled)
                        /\ SF_vars(~Awaited(x) /\ \E id \in TimerId : ExpireRumor(x, id))
    /\ WF_vars(Expire)
    /\ \A k \in Key : /\ []<>(Lookup(k) \notin net) /\ []<>(Broken(k) \notin net)
                      /\ WF_vars(\E m \in net : m.type = "notify" /\ m.source = k /\ Receive(m))
                      /\ WF_vars(\E m \in net : m.type = "traffic" /\ m.dest = k /\ Receive(m))

FairSpec == Spec /\ Fairness

-----------------------------------------------------------------------------

\* No path and no rumor stays for good: the timer of each is running, or has its
\* closure in the router's inbox, however often it was reset or stopped.
NoneKeptForGood ==
    /\ \A k \in Key : Known(k) =>
          paths[k].runs \/ PathTimer(k, paths[k].timer) \in Range(inbox)
    /\ \A x \in XKeys : rumors[x] # NoRumor =>
          rumors[x].runs \/ RumorTimer(x, rumors[x].timer) \in Range(inbox)

\* While a path is kept it is replaced only by a later one, with the second at which
\* its destination was there: however the answers to several lookups overtake each
\* other, _handleNotify never goes back to where the destination was before.
Later(k, old, new) ==
    \/ new.seq = old.seq /\ new.path = old.path
    \/ new.seq > old.seq /\ <<new.seq, new.path>> \in was[k]

PathAdvances ==
    [][\A k \in Key : Known(k) /\ Known(k)' => Later(k, paths[k], paths'[k])]_vars

\* No packet waits for a path that is known.  A node's own key is the exception: the
\* lookup that _handleTraffic sends for it is answered before the packet is stored.
NoneWaits ==
    \A k \in Key \ {Self} :
        Known(k) /\ rumors[XKey[k]] # NoRumor => rumors[XKey[k]].traffic # k

\* While the application writes to k alone, its packets keep arriving, wherever k
\* has moved, whatever was lost or late, and whether or not k's clock has advanced
\* since, unless it writes so seldom that paths to k expire unused for ever.  With
\* two destinations that share a transformed key this does not hold: their packets
\* take each other's place in the one rumor, again and again.
KeepsArriving ==
    \A k \in {k \in Key : \E s \in Scenarios : s.nodes = {k}} :
        \/ []<><<\E m \in net : m.type = "traffic" /\ m.dest = k /\ Arrive(m)>>_vars
        \/ []<><<FirePath(k) /\ ~paths[k].traffic>>_vars
        \/ [](nodes # {k})
=============================================================================
