------------------------------- MODULE Router -------------------------------
(***************************************************************************)
(* The spanning tree protocol of network/router.go, run by every node of a *)
(* network.  A node asks each peer to countersign a request, becomes the   *)
(* child of a peer by using its response, and tells its peers the infos on *)
(* its own and on their paths to the root.  infos is a replicated soft     *)
(* state: every node keeps the best info it has heard about each node.     *)
(*                                                                         *)
(* The router is an actor: each of its closures runs alone and in the      *)
(* order it was queued, so each is one action.  A connection is a pair of  *)
(* reliable FIFO streams.  Two nodes may share several connections.        *)
(***************************************************************************)
EXTENDS ParentChoice

CONSTANTS
    Conn,       \* the connections that may be made
    Ends,       \* Ends[c]: the two nodes that connection c joins
    Port,       \* Port[n][m]: the port that node n gives to its peer m
    Nonce,      \* the nonces a request may draw
    Scenarios   \* what the environment may do: which connections it makes, and how
                \* often an event of each kind happens

\* "restart" is for the module Restart.
Event == {"connect", "break", "expire", "refresh", "restart"}

\* A connection joins two different nodes, ports are positive numbers (0 is a
\* root's own), and the events are bounded.
ASSUME RouterAssumption ==
    /\ Ends \in [Conn -> SUBSET Key]
    /\ \A c \in Conn : \E a, b \in Key : a # b /\ Ends[c] = {a, b}
    /\ Port \in [Key -> [Key -> Pos]]
    /\ Nonce \subseteq Nat
    /\ Scenarios \subseteq [conns : SUBSET Conn, events : [Event -> Nat]]

VARIABLES
    infos,      \* infos[n]: the table of node n
    sent,       \* sent[n][m]: what n has sent to, or knows from, its peer m
    requests,   \* requests[n][m]: the request that m is to countersign for n
    responses,  \* responses[n][m]: the countersigned request
    resSeqs,    \* resSeqs[n][m]: the place of m's response among n's, 0 if none
    resSeqCtr,  \* resSeqCtr[n]: the place of the last response
    refresh,    \* refresh[n]: the self info is due for renewal
    doRoot1,    \* doRoot1[n]: n makes itself root if it finds no parent now
    link,       \* link[c]: "down", "open" or "broken"
    pending,    \* pending[c]: the ends whose router has yet to learn of c
    attached,   \* attached[c]: the ends whose router has c among its peers
    chan,       \* chan[c][n]: the messages on their way to n over c
    scenario,   \* what the environment may do
    used        \* used[e]: how often an event of kind e has happened

selfVars == <<requests, responses, resSeqs, resSeqCtr, refresh, doRoot1>>
connVars == <<link, pending, attached>>
envVars == <<scenario, used>>
vars == <<infos, sent, selfVars, connVars, chan, envVars>>

Msg == [type : {"req"}, req : SigReq]
         \cup [type : {"res"}, res : SigRes]
         \cup [type : {"ann"}, key : Key, info : Info]

Req(r) == [type |-> "req", req |-> r]
Res(r) == [type |-> "res", res |-> r]
Ann(k, info) == [type |-> "ann", key |-> k, info |-> info]

-----------------------------------------------------------------------------

Remote(c, n) == CHOOSE m \in Ends[c] : m # n

\* The connections of node n's peers, and their keys: r.peers.
PeerConns(n) == {c \in Conn : n \in attached[c]}
Peers(n) == {Remote(c, n) : c \in PeerConns(n)}

\* chan after n writes out[c] to each of its connections c; writes to a
\* connection that has failed are lost.
Sending(n, ch, out) ==
    [c \in Conn |->
       IF n \in Ends[c] /\ link[c] = "open"
       THEN [ch[c] EXCEPT ![Remote(c, n)] = @ \o out[c]]
       ELSE ch[c]]

\* chan without the message that n takes from c.
Received(c, n) == [chan EXCEPT ![c][n] = Tail(@)]

Incoming(c, n, type) ==
    /\ n \in attached[c]
    /\ chan[c][n] # <<>>
    /\ Head(chan[c][n]).type = type

\* Fault: the request is for the seq that the node has.
NewReqSameSeq(n, nonce) == [seq |-> infos[n][n].seq, nonce |-> nonce]

\* _newReq.
NewReq(n, nonce) == [seq |-> infos[n][n].seq + 1, nonce |-> nonce]

-----------------------------------------------------------------------------
(* _fix, once it has looked at the responses. *)

\* The peers that have countersigned our request.
Responders(n) == {m \in Key : responses[n][m] # NoRes}

Best(n) ==
    BestParent(n, infos[n], Peers(n), Responders(n), resSeqs[n], refresh[n])

\* Fault: a better parent is no reason.
FixDueOnTimer(n, best) == refresh[n] \/ doRoot1[n]

FixDue(n, best) ==
    refresh[n] \/ doRoot1[n] \/ infos[n][n].parent # best.parent

\* The info that node n signs when it uses the response of its peer m.
ResponseInfo(n, m) ==
    [parent |-> m, seq |-> responses[n][m].seq,
     nonce |-> responses[n][m].nonce, port |-> responses[n][m].port]

CanUseResponse(n, best) ==
    /\ best.parent \in Responders(n)
    /\ best.root # n
    /\ Accepts(infos[n], n, ResponseInfo(n, best.parent))

-----------------------------------------------------------------------------
(* _doMaintenance: one disjunct for each case of the switch in _fix.  The  *)
(* code's doRoot2 has the value of doRoot1 at the start of a maintenance   *)
(* and is false again at its end, since doRoot2 leaves only the two cases  *)
(* that reset it: it needs no variable.                                    *)

\* What _sendAnnounces tells peer m, when the table of node n is tbl and S has
\* been sent already: what is missing on n's own path to the root, then on m's.
ToSend(n, tbl, S, m) ==
    LET selfAnc == Ancestry(tbl, n)
        New(k) == k \notin S
        NewToo(k) == k \notin S \cup Range(selfAnc)
    IN  SelectSeq(selfAnc, New) \o SelectSeq(Ancestry(tbl, m), NewToo)

Announces(tbl, keys) == [i \in 1..Len(keys) |-> Ann(keys[i], tbl[keys[i]])]

\* _sendAnnounces, after pre[c] was written to each connection c.  The code
\* panics when it is to announce a node it does not know.  Ancestry visits known
\* nodes only, so the first conjunct always holds; it hands the proofs that fact.
SendAnnounces(n, tbl, S, pre) ==
    LET toSend == [m \in Peers(n) |-> ToSend(n, tbl, S[m], m)]
    IN  /\ \A m \in Peers(n) : toSend[m] \in Seq(Known(tbl))
        /\ sent' = [sent EXCEPT ![n] =
             [m \in Key |-> IF m \in Peers(n) THEN S[m] \cup Range(toSend[m]) ELSE {}]]
        /\ chan' = Sending(n, chan,
             [c \in Conn |-> IF c \in PeerConns(n)
                             THEN pre[c] \o Announces(tbl, toSend[Remote(c, n)])
                             ELSE <<>>])

\* Store the self info, ask every peer for a new response, announce.
NewSelfInfo(n, info, nonce) ==
    LET tbl == [infos[n] EXCEPT ![n] = info]
        req(m) == [seq |-> info.seq + 1, nonce |-> nonce[m]]
    IN  /\ infos' = [infos EXCEPT ![n] = tbl]
        /\ requests' = [requests EXCEPT ![n] =
             [m \in Key |-> IF m \in Peers(n) THEN req(m) ELSE NoReq]]
        /\ responses' = [responses EXCEPT ![n] = [m \in Key |-> NoRes]]
        /\ resSeqs' = [resSeqs EXCEPT ![n] = [m \in Key |-> 0]]
        /\ resSeqCtr' = [resSeqCtr EXCEPT ![n] = 0]
        /\ refresh' = [refresh EXCEPT ![n] = FALSE]
        /\ doRoot1' = [doRoot1 EXCEPT ![n] = FALSE]
        /\ SendAnnounces(n, tbl, [m \in Key |-> sent[n][m] \ {n}],
             [c \in Conn |-> IF c \in PeerConns(n)
                             THEN <<Req(req(Remote(c, n)))>> ELSE <<>>])
        /\ UNCHANGED <<connVars, envVars>>

\* The periods in which _fix stores nothing.
KeepSelfInfo(n) ==
    /\ SendAnnounces(n, infos[n], sent[n], [c \in Conn |-> <<>>])
    /\ UNCHANGED <<infos, requests, responses, resSeqs, resSeqCtr, refresh,
                   connVars, envVars>>

\* Somebody else should be root, and the best peer has responded.
MaintainUseResponse(n, best) ==
    /\ FixDue(n, best)
    /\ CanUseResponse(n, best)
    /\ \E nonce \in [Key -> Nonce] :
          NewSelfInfo(n, ResponseInfo(n, best.parent), nonce)

\* Fault: the node becomes root without a new seq.
RootInfoSameSeq(n, nonce) ==
    [parent |-> n, seq |-> infos[n][n].seq, nonce |-> nonce, port |-> 0]

RootInfo(n, nonce) ==
    [parent |-> n, seq |-> infos[n][n].seq + 1, nonce |-> nonce, port |-> 0]

\* The second period without a parent: become root.
MaintainBecomeRoot(n, best) ==
    /\ FixDue(n, best)
    /\ ~CanUseResponse(n, best)
    /\ doRoot1[n]
    /\ \E nonce \in [Key -> Nonce] : NewSelfInfo(n, RootInfo(n, nonce[n]), nonce)

\* The first period without a parent: wait for one more.
MaintainArmRoot(n, best) ==
    /\ FixDue(n, best)
    /\ ~CanUseResponse(n, best)
    /\ ~doRoot1[n]
    /\ doRoot1' = [doRoot1 EXCEPT ![n] = TRUE]
    /\ KeepSelfInfo(n)

MaintainSteady(n, best) ==
    /\ ~FixDue(n, best)
    /\ KeepSelfInfo(n)
    /\ UNCHANGED doRoot1

Maintain(n) ==
    LET best == Best(n)
    IN  \/ MaintainUseResponse(n, best)
        \/ MaintainBecomeRoot(n, best)
        \/ MaintainArmRoot(n, best)
        \/ MaintainSteady(n, best)

-----------------------------------------------------------------------------
(* Messages from a peer. *)

\* _handleRequest: countersign, and answer over the same connection.
HandleRequest(c, n) ==
    /\ Incoming(c, n, "req")
    /\ LET req == Head(chan[c][n]).req
           res == [seq |-> req.seq, nonce |-> req.nonce,
                   port |-> Port[n][Remote(c, n)]]
       IN  chan' = Sending(n, Received(c, n),
                     [d \in Conn |-> IF d = c THEN <<Res(res)>> ELSE <<>>])
    /\ UNCHANGED <<infos, sent, selfVars, connVars, envVars>>

\* _handleResponse: keep the first response to the pending request.
HandleResponse(c, n) ==
    /\ Incoming(c, n, "res")
    /\ LET m == Remote(c, n)
           res == Head(chan[c][n]).res
           fits == /\ responses[n][m] = NoRes
                   /\ requests[n][m] = [seq |-> res.seq, nonce |-> res.nonce]
       IN  /\ responses' = IF fits THEN [responses EXCEPT ![n][m] = res] ELSE responses
           /\ resSeqs' = IF fits THEN [resSeqs EXCEPT ![n][m] = resSeqCtr[n] + 1] ELSE resSeqs
           /\ resSeqCtr' = IF fits THEN [resSeqCtr EXCEPT ![n] = @ + 1] ELSE resSeqCtr
    /\ chan' = Received(c, n)
    /\ UNCHANGED <<infos, sent, requests, refresh, doRoot1, connVars, envVars>>

\* _handleAnnounce, when _update stores the info.
AcceptAnnounce(c, n) ==
    /\ Incoming(c, n, "ann")
    /\ LET ann == Head(chan[c][n])
           k == ann.key
       IN  /\ Accepts(infos[n], k, ann.info)
           /\ infos' = [infos EXCEPT ![n][k] = ann.info]
           /\ sent' = [sent EXCEPT ![n] =
                         [m \in Key |-> IF m = Remote(c, n)
                                        THEN sent[n][m] \cup {k}
                                        ELSE sent[n][m] \ {k}]]
           /\ refresh' = IF k = n THEN [refresh EXCEPT ![n] = TRUE] ELSE refresh
    /\ chan' = Received(c, n)
    /\ UNCHANGED <<requests, responses, resSeqs, resSeqCtr, doRoot1,
                   connVars, envVars>>

\* _handleAnnounce, when _update refuses it: answer with what we know, over the
\* same connection, unless it is what they sent.
RefuseAnnounce(c, n) ==
    /\ Incoming(c, n, "ann")
    /\ LET ann == Head(chan[c][n])
           k == ann.key
           reply == IF ann.info = infos[n][k] THEN <<>> ELSE <<Ann(k, infos[n][k])>>
       IN  /\ ~Accepts(infos[n], k, ann.info)
           /\ sent' = [sent EXCEPT ![n][Remote(c, n)] = @ \cup {k}]
           /\ chan' = Sending(n, Received(c, n),
                        [d \in Conn |-> IF d = c THEN reply ELSE <<>>])
    /\ UNCHANGED <<infos, selfVars, connVars, envVars>>

-----------------------------------------------------------------------------
(* Peers come and go. *)

\* Fault: nothing is visited.
NoOrders(S) == {<<>>}

\* The orders in which a Go map with these keys may be visited.
Orders(S) ==
    {s \in [1..Cardinality(S) -> S] : \A i, j \in DOMAIN s : s[i] = s[j] => i = j}

\* addPeer: repeat what earlier connections to this peer were sent (in the
\* order of a Go map), then ask for a response if there is none.
AddPeer(c, n) ==
    /\ n \in pending[c]
    /\ pending' = [pending EXCEPT ![c] = @ \ {n}]
    /\ attached' = [attached EXCEPT ![c] = @ \cup {n}]
    /\ \E nonce \in Nonce, repeat \in Orders(sent[n][Remote(c, n)]) :
         LET m == Remote(c, n)
             req == IF requests[n][m] = NoReq THEN NewReq(n, nonce) ELSE requests[n][m]
             ask == responses[n][m] = NoRes
         IN  /\ requests' = IF ask THEN [requests EXCEPT ![n][m] = req] ELSE requests
             /\ chan' = Sending(n, chan,
                  [d \in Conn |->
                     IF d = c THEN Announces(infos[n], repeat)
                                     \o (IF ask THEN <<Req(req)>> ELSE <<>>)
                              ELSE <<>>])
    /\ UNCHANGED <<infos, sent, responses, resSeqs, resSeqCtr, refresh, doRoot1,
                   link, envVars>>

\* removePeer, once the handler has passed on all it could read: forget the
\* peer with its last connection.
RemovePeer(c, n) ==
    /\ link[c] = "broken"
    /\ n \in attached[c]
    /\ chan[c][n] = <<>>
    /\ attached' = [attached EXCEPT ![c] = @ \ {n}]
    /\ LET m == Remote(c, n)
           last == \A d \in PeerConns(n) \ {c} : Remote(d, n) # m
       IN  /\ sent' = IF last THEN [sent EXCEPT ![n][m] = {}] ELSE sent
           /\ requests' = IF last THEN [requests EXCEPT ![n][m] = NoReq] ELSE requests
           /\ responses' = IF last THEN [responses EXCEPT ![n][m] = NoRes] ELSE responses
           /\ resSeqs' = IF last THEN [resSeqs EXCEPT ![n][m] = 0] ELSE resSeqs
    /\ UNCHANGED <<infos, resSeqCtr, refresh, doRoot1, link,
                   pending, chan, envVars>>

-----------------------------------------------------------------------------
(* The environment. *)

Happens(e) ==
    /\ used[e] < scenario.events[e]
    /\ used' = [used EXCEPT ![e] = @ + 1]
    /\ UNCHANGED scenario

Connect(c) ==
    /\ Happens("connect")
    /\ c \in scenario.conns
    /\ link[c] # "open"
    /\ pending[c] \cup attached[c] = {}
    /\ link' = [link EXCEPT ![c] = "open"]
    /\ pending' = [pending EXCEPT ![c] = Ends[c]]
    /\ chan' = [chan EXCEPT ![c] = [n \in Key |-> <<>>]]
    /\ UNCHANGED <<infos, sent, selfVars, attached>>

\* What may be left of streams that are cut off: a prefix of each.
Truncated(streams) ==
    {[n \in Key |-> SubSeq(streams[n], 1, read[n])] :
       read \in {r \in [Key -> UNION {0..Len(streams[n]) : n \in Key}] :
                   \A n \in Key : r[n] <= Len(streams[n])}}

\* The connection fails: each end still reads some of what was sent to it.
Break(c) ==
    /\ Happens("break")
    /\ link[c] = "open"
    /\ link' = [link EXCEPT ![c] = "broken"]
    /\ \E rest \in Truncated(chan[c]) : chan' = [chan EXCEPT ![c] = rest]
    /\ UNCHANGED <<infos, sent, selfVars, pending, attached>>

\* Fault: what was sent is remembered.
ExpireKeepsSent(n, k) ==
    /\ Happens("expire")
    /\ k # n
    /\ k \in Known(infos[n])
    /\ infos' = [infos EXCEPT ![n][k] = NoInfo]
    /\ UNCHANGED <<sent, selfVars, connVars, chan>>

\* The timer of an info about somebody else, with its closure: forget it.
Expire(n, k) ==
    /\ Happens("expire")
    /\ k # n
    /\ k \in Known(infos[n])
    /\ infos' = [infos EXCEPT ![n][k] = NoInfo]
    /\ sent' = [sent EXCEPT ![n] = [m \in Key |-> sent[n][m] \ {k}]]
    /\ UNCHANGED <<selfVars, connVars, chan>>

\* The timer of the self info: renew it at the next maintenance.
RefreshTimer(n) ==
    /\ Happens("refresh")
    /\ ~refresh[n]
    /\ refresh' = [refresh EXCEPT ![n] = TRUE]
    /\ UNCHANGED <<infos, sent, requests, responses, resSeqs, resSeqCtr, doRoot1,
                   connVars, chan>>

-----------------------------------------------------------------------------

\* Fault: the first seq is 0.
FirstTableFromZero(n, nonce) ==
    [k \in Key |-> IF k = n THEN [parent |-> n, seq |-> 0, nonce |-> nonce, port |-> 0]
                            ELSE NoInfo]

\* The table of a router that has become root for the first time.
FirstTable(n, nonce) ==
    [k \in Key |-> IF k = n THEN [parent |-> n, seq |-> 1, nonce |-> nonce, port |-> 0]
                            ELSE NoInfo]

\* init queues a first maintenance before anything else can reach the router:
\* with no peers and doRoot2 set, the node has become root.
Init ==
    /\ \E nonce \in [Key -> Nonce] : infos = [n \in Key |-> FirstTable(n, nonce[n])]
    /\ sent = [n \in Key |-> [m \in Key |-> {}]]
    /\ requests = [n \in Key |-> [m \in Key |-> NoReq]]
    /\ responses = [n \in Key |-> [m \in Key |-> NoRes]]
    /\ resSeqs = [n \in Key |-> [m \in Key |-> 0]]
    /\ resSeqCtr = [n \in Key |-> 0]
    /\ refresh = [n \in Key |-> FALSE]
    /\ doRoot1 = [n \in Key |-> FALSE]
    /\ link = [c \in Conn |-> "down"]
    /\ pending = [c \in Conn |-> {}]
    /\ attached = [c \in Conn |-> {}]
    /\ chan = [c \in Conn |-> [n \in Key |-> <<>>]]
    /\ scenario \in Scenarios
    /\ used = [e \in Event |-> 0]

HandleMessage(c, n) ==
    \/ HandleRequest(c, n)
    \/ HandleResponse(c, n)
    \/ AcceptAnnounce(c, n)
    \/ RefuseAnnounce(c, n)

Next ==
    \/ \E n \in Key : Maintain(n) \/ RefreshTimer(n)
    \/ \E n, k \in Key : Expire(n, k)
    \/ \E c \in Conn : Connect(c) \/ Break(c)
    \/ \E c \in Conn, n \in Key :
          HandleMessage(c, n) \/ AddPeer(c, n) \/ RemovePeer(c, n)

Spec == Init /\ [][Next]_vars

\* Whether a maintenance of node n would change anything.
MaintainDue(n) ==
    \/ FixDue(n, Best(n))
    \/ \E m \in Peers(n) : ToSend(n, infos[n], sent[n][m], m) # <<>>

\* The handler of connection c at its end n has nothing to do.
HandlerRests(c, n) ==
    /\ n \notin pending[c]
    /\ n \in attached[c] => link[c] = "open" /\ chan[c][n] = <<>>

\* A step that takes a message from c at its end n.
HandlerReads(c, n) == Len(chan'[c][n]) < Len(chan[c][n])

\* The router's main timer and the handlers of connections keep running: they add
\* the peer, read until the connection fails and remove the peer.  Since a
\* maintenance leaves nothing due, or arms doRoot1 so that the next one does, the
\* first conjunct is weak fairness of Maintain(n); since connections are made and
\* fail a bounded number of times, the second is weak fairness of the handlers.
Fairness ==
    /\ \A n \in Key : []<>~MaintainDue(n)
    /\ \A c \in Conn : \A n \in Ends[c] :
          []<>HandlerRests(c, n) \/ []<><<HandlerReads(c, n)>>_vars

-----------------------------------------------------------------------------

\* The router's maps hold well-formed infos, requests and responses: in
\* particular every seq that a node signs is positive (_becomeRoot).
TypeOK ==
    /\ infos \in [Key -> Table]
    /\ sent \in [Key -> [Key -> SUBSET Key]]
    /\ requests \in [Key -> [Key -> SigReq \cup {NoReq}]]
    /\ responses \in [Key -> [Key -> SigRes \cup {NoRes}]]
    /\ resSeqs \in [Key -> [Key -> Nat]]
    /\ resSeqCtr \in [Key -> Nat]
    /\ refresh \in [Key -> BOOLEAN]
    /\ doRoot1 \in [Key -> BOOLEAN]
    /\ link \in [Conn -> {"down", "open", "broken"}]
    /\ pending \in [Conn -> SUBSET Key]
    /\ attached \in [Conn -> SUBSET Key]
    /\ chan \in [Conn -> [Key -> Seq(Msg)]]
    /\ scenario \in Scenarios
    /\ used \in [Event -> Nat]

\* A router only remembers having sent what it still knows, so that addPeer does
\* not meet a key without info and panic.
SentKnown == \A n, m \in Key : sent[n][m] \subseteq Known(infos[n])

AsGood(info, old) == info = old \/ Better(info, old)

\* The messages that say nothing newer about a node than the node's own table.
Dated == {msg \in Msg : msg.type = "ann" => AsGood(infos[msg.key][msg.key], msg.info)}

\* The single writer of the replicated state: whatever a table or a message
\* says about a node, the node's own table has it or something newer.
OwnInfoNewest ==
    /\ \A n, k \in Key : AsGood(infos[k][k], infos[n][k])
    /\ \A c \in Conn, n \in Key : chan[c][n] \in Seq(Dated)

\* Messages about node k that are on their way to n over c.
InFlight(c, n, k) ==
    {chan[c][n][i].info : i \in {j \in DOMAIN chan[c][n] :
                                   chan[c][n][j].type = "ann" /\ chan[c][n][j].key = k}}

\* Every connection that was made between n and m is open, and n has it as a peer.
Whole(n, m) ==
    \A c \in Conn : Ends[c] = {n, m} /\ link[c] # "down"
                       => link[c] = "open" /\ n \in attached[c]

\* What a node believes it has told a peer reaches that peer: the peer has it
\* or something better, or it is on its way, unless one of the connections
\* between the two has failed, or infos have expired.  When a connection is made
\* again, what addPeer repeats makes good what the failure has lost.
SentArrives ==
    used["expire"] = 0 => \A n, m \in Key : Whole(n, m) => \A k \in sent[n][m] :
       \/ AsGood(infos[m][k], infos[n][k])
       \/ \E c \in Conn : /\ Ends[c] = {n, m}
                          /\ \E info \in InFlight(c, m, k) : AsGood(info, infos[n][k])

\* _update never refuses the response that _fix has chosen to use: no step, of
\* the node or of the network, makes a response that is kept go stale.
ResponseUsable ==
    \A n \in Key : \A m \in Responders(n) : Accepts(infos[n], n, ResponseInfo(n, m))

\* The nodes that are connected with n: those in every set that has n and that
\* no open connection leaves.
Component(n) ==
    LET Closed(S) == \A c \in Conn : link[c] = "open" /\ Ends[c] \cap S # {}
                                       => Ends[c] \subseteq S
    IN  {k \in Key : \A S \in SUBSET Key : n \in S /\ Closed(S) => k \in S}

\* Every node has found the way to the best root that it is connected with, and
\* knows the current info of every node on its own path and on its peers'.
Converged ==
    \A n \in Key :
       /\ Root(infos[n], n) = Least(Component(n))
       /\ \A m \in Peers(n) \cup {n} : \A k \in Visited(infos[m], m) :
             infos[n][k] = infos[k][k]

\* A maintenance that changes anything leaves nothing for the next one to do,
\* except when it grants a period of grace before the node makes itself root:
\* parents do not flap.
MaintenanceSettles ==
    [][\A n \in Key :
         /\ ~UNCHANGED <<infos[n], sent[n], doRoot1[n]>>
         /\ \A c \in Conn : ~HandlerReads(c, n)
         /\ Maintain(n)
         => ~MaintainDue(n)' \/ (doRoot1'[n] /\ ~doRoot1[n])]_vars

\* Once connections no longer change, each connected part of the network settles on
\* one tree for good.
Convergence == <>[]Converged
=============================================================================
