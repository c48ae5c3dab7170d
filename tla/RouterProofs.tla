---------------------------- MODULE RouterProofs ----------------------------
(***************************************************************************)
(* Proofs about Router, for every set of nodes and connections, every port *)
(* and nonce, and every number of events: type correctness, SentKnown,     *)
(* OwnInfoNewest, ResponseUsable and SentArrives.                          *)
(***************************************************************************)
EXTENDS Router, TLAPS

-----------------------------------------------------------------------------
(* The order of infos. *)

AnyInfo == Info \cup {NoInfo}

\* The fields that _update compares are numbers.
LEMMA InfoFields ==
    ASSUME NEW a \in AnyInfo
    PROVE  a.seq \in Nat /\ a.parent \in Nat /\ a.nonce \in Nat
<1>1. CASE a \in Info
  BY <1>1, KeyAssumption, Zenon DEF Info, Pos
<1>2. CASE a = NoInfo
  BY <1>2, Zenon DEF NoInfo
<1> QED
  BY <1>1, <1>2, Zenon DEF AnyInfo

\* What _update keeps is at least as good as what it had, over any number of
\* updates.
LEMMA AsGoodTransitive ==
    ASSUME NEW a \in AnyInfo, NEW b \in AnyInfo, NEW c \in AnyInfo,
           AsGood(a, b), AsGood(b, c)
    PROVE  AsGood(a, c)
  BY InfoFields DEF AsGood, Better

\* Of two infos neither is better only when the code cannot tell them apart:
\* "this logic must be the same on every node".
LEMMA BetterTotal ==
    ASSUME NEW a \in AnyInfo, NEW b \in AnyInfo
    PROVE  /\ ~(Better(a, b) /\ Better(b, a))
           /\ \/ Better(a, b)
              \/ Better(b, a)
              \/ a.seq = b.seq /\ a.parent = b.parent /\ a.nonce = b.nonce
  BY InfoFields DEF Better

-----------------------------------------------------------------------------
(* Sequences. *)

\* A sequence over a set is one over a larger set.
LEMMA SeqOver ==
    ASSUME NEW S, NEW T, S \subseteq T, NEW q \in Seq(S) PROVE q \in Seq(T)
  OBVIOUS

\* Nothing is a sequence over any set.
LEMMA EmptySeq == \A S : <<>> \in Seq(S)
  OBVIOUS

\* The items of a sequence.
LEMMA SeqItems ==
    ASSUME NEW S, NEW q \in Seq(S)
    PROVE  Len(q) \in Nat /\ DOMAIN q = 1..Len(q) /\ \A i \in 1..Len(q) : q[i] \in S
  OBVIOUS

\* A function on the first numbers is a sequence.
LEMMA SeqOfFunction ==
    ASSUME NEW S, NEW n \in Nat, NEW f \in [1..n -> S] PROVE f \in Seq(S)
  OBVIOUS

\* Two sequences, one after the other.
LEMMA ConcatType ==
    ASSUME NEW S, NEW p \in Seq(S), NEW q \in Seq(S) PROVE p \o q \in Seq(S)
  OBVIOUS

\* The first item of a sequence, and the others.
LEMMA HeadTailType ==
    ASSUME NEW S, NEW q \in Seq(S), q # <<>> PROVE Head(q) \in S /\ Tail(q) \in Seq(S)
  OBVIOUS

\* A prefix of a sequence.
LEMMA PrefixType ==
    ASSUME NEW S, NEW q \in Seq(S), NEW n \in 0..Len(q) PROVE SubSeq(q, 1, n) \in Seq(S)
  OBVIOUS

-----------------------------------------------------------------------------
(* Connections and streams. *)

\* Every connection has another end.
LEMMA RemoteEnd ==
    ASSUME NEW c \in Conn, NEW n \in Key
    PROVE  Remote(c, n) \in Key /\ Remote(c, n) \in Ends[c] /\ Remote(c, n) # n
<1>1. \E m \in Ends[c] : m # n
  BY RouterAssumption, ZenonT(40)
<1>2. Remote(c, n) \in Ends[c] /\ Remote(c, n) # n
  BY <1>1, Zenon DEF Remote
<1>3. Ends[c] \subseteq Key
  BY RouterAssumption, Zenon
<1> QED
  BY <1>2, <1>3, Zenon

\* Writing messages of a set G to streams over G gives streams over G.
LEMMA SendingType ==
    ASSUME NEW G, NEW n \in Key, NEW ch \in [Conn -> [Key -> Seq(G)]],
           NEW out \in [Conn -> Seq(G)]
    PROVE  Sending(n, ch, out) \in [Conn -> [Key -> Seq(G)]]
<1>1. ASSUME NEW c \in Conn
      PROVE  [ch[c] EXCEPT ![Remote(c, n)] = @ \o out[c]] \in [Key -> Seq(G)]
  <2>1. ch[c][Remote(c, n)] \o out[c] \in Seq(G)
    BY RemoteEnd, ConcatType, Zenon
  <2> QED
    BY <2>1, Zenon
<1> QED
  BY <1>1, Zenon DEF Sending

\* So does reading a message.
LEMMA ReceivedType ==
    ASSUME NEW G, chan \in [Conn -> [Key -> Seq(G)]], NEW c \in Conn, NEW n \in Key,
           chan[c][n] # <<>>
    PROVE  /\ Received(c, n) \in [Conn -> [Key -> Seq(G)]]
           /\ Head(chan[c][n]) \in G
<1>1. Tail(chan[c][n]) \in Seq(G) /\ Head(chan[c][n]) \in G
  BY HeadTailType, Zenon
<1> QED
  BY <1>1, Zenon DEF Received

\* Announcements of known nodes are messages of G when the infos about them are.
LEMMA AnnouncesType ==
    ASSUME NEW G, NEW tbl, NEW K, NEW keys \in Seq(K),
           \A k \in K : Ann(k, tbl[k]) \in G
    PROVE  Announces(tbl, keys) \in Seq(G)
<1>1. Len(keys) \in Nat /\ \A i \in 1..Len(keys) : keys[i] \in K
  BY SeqItems, Zenon
<1>2. \A i \in 1..Len(keys) : Ann(keys[i], tbl[keys[i]]) \in G
  BY <1>1, Zenon
<1>3. [i \in 1..Len(keys) |-> Ann(keys[i], tbl[keys[i]])] \in [1..Len(keys) -> G]
  BY <1>2, Zenon
<1>4. [i \in 1..Len(keys) |-> Ann(keys[i], tbl[keys[i]])] \in Seq(G)
  BY <1>1, <1>3, SeqOfFunction, Zenon
<1> QED
  BY <1>4, Zenon DEF Announces

\* A visit of a Go map is a sequence of its keys, and meets all of them.
OrdersFit == \A S \in SUBSET Key : Orders(S) \subseteq Seq(S)
OrdersMeet == \A S \in SUBSET Key : \A s \in Orders(S) : Range(s) = S

-----------------------------------------------------------------------------
(* The inductive invariant. *)

SelfKnown == \A n \in Key : infos[n][n] \in Info

\* A pending request carries the next seq of its node, and its response with it.
RequestsCurrent ==
    \A n, m \in Key :
       /\ requests[n][m] # NoReq => requests[n][m].seq = infos[n][n].seq + 1
       /\ responses[n][m] # NoRes =>
            requests[n][m] = [seq |-> responses[n][m].seq, nonce |-> responses[n][m].nonce]

IInv == TypeOK /\ SelfKnown /\ SentKnown /\ OwnInfoNewest /\ RequestsCurrent

\* No info is the zero value.
LEMMA InfoNotZero == ASSUME NEW i \in Info PROVE i # NoInfo
  BY KeyAssumption DEF Info, NoInfo, Pos

\* No request is the zero value: an empty entry of r.requests is told apart.
LEMMA ReqNotZero == ASSUME NEW r \in SigReq PROVE r # NoReq
  BY DEF SigReq, NoReq, Pos

\* No response is the zero value: an empty entry of r.responses is told apart.
LEMMA ResNotZero == ASSUME NEW r \in SigRes PROVE r # NoRes
  BY DEF SigRes, NoRes, Pos

\* What a node knows about another is an info.
LEMMA KnownInfo ==
    ASSUME NEW tbl \in Table, NEW k \in Known(tbl) PROVE k \in Key /\ tbl[k] \in Info
  BY Zenon DEF Table, Known

\* A message that is dated stays so while nodes only improve their own infos.
LEMMA DatedGrows ==
    ASSUME infos \in [Key -> Table], infos' \in [Key -> Table],
           \A k \in Key : AsGood(infos'[k][k], infos[k][k])
    PROVE  Dated \subseteq Dated'
<1> SUFFICES ASSUME NEW msg \in Dated, msg.type = "ann"
             PROVE  AsGood(infos'[msg.key][msg.key], msg.info)
  BY Zenon DEF Dated
<1>1. msg.key \in Key /\ msg.info \in Info
  BY Zenon DEF Dated, Msg
<1>2. AsGood(infos[msg.key][msg.key], msg.info)
  BY Zenon DEF Dated
<1>3. infos[msg.key][msg.key] \in AnyInfo /\ infos'[msg.key][msg.key] \in AnyInfo
  BY <1>1, Zenon DEF Table, AnyInfo
<1> QED
  BY <1>1, <1>2, <1>3, AsGoodTransitive, Zenon DEF AnyInfo

\* What the invariant says of a node's own table and requests is kept by a
\* step that changes neither.
LEMMA SelfUnchanged ==
    ASSUME IInv, UNCHANGED <<infos, selfVars>>
    PROVE  SelfKnown' /\ RequestsCurrent'
<1>1. infos' = infos /\ requests' = requests /\ responses' = responses
  BY Zenon DEF selfVars
<1>2. SelfKnown'
  BY <1>1, Zenon DEF IInv, SelfKnown
<1>3. RequestsCurrent'
  BY <1>1, ZenonT(40) DEF IInv, RequestsCurrent
<1> QED
  BY <1>2, <1>3, Zenon

\* What was sent stays known while nothing is sent and no table changes.
LEMMA SentUnchanged ==
    ASSUME IInv, UNCHANGED <<infos, sent>> PROVE SentKnown'
  BY Zenon DEF IInv, SentKnown, Known

\* The streams of a state that satisfies the invariant, as one function.
LEMMA StreamsDated ==
    ASSUME IInv PROVE chan \in [Conn -> [Key -> Seq(Dated)]]
  BY Zenon DEF IInv, TypeOK, OwnInfoNewest

\* What a node may announce about a node it knows is dated.
LEMMA AnnDated ==
    ASSUME IInv, NEW n \in Key, NEW k \in Known(infos[n])
    PROVE  Ann(k, infos[n][k]) \in Dated
<1>1. k \in Key /\ infos[n][k] \in Info
  BY KnownInfo, Zenon DEF IInv, TypeOK
<1>2. AsGood(infos[k][k], infos[n][k])
  BY <1>1, Zenon DEF IInv, OwnInfoNewest
<1> QED
  BY <1>1, <1>2, Zenon DEF Ann, Dated, Msg

-----------------------------------------------------------------------------

\* The invariant holds at the start.
LEMMA InitIInv == Init => IInv
<1> SUFFICES ASSUME Init PROVE IInv
  BY Zenon
<1>1. PICK nonce \in [Key -> Nonce] : infos = [n \in Key |-> FirstTable(n, nonce[n])]
  BY Zenon DEF Init
<1>2. \A n \in Key : nonce[n] \in Nat
  BY RouterAssumption, Zenon
<1>3. \A n \in Key :
         /\ infos[n][n] = [parent |-> n, seq |-> 1, nonce |-> nonce[n], port |-> 0]
         /\ \A k \in Key \ {n} : infos[n][k] = NoInfo
  BY <1>1, Zenon DEF FirstTable
<1>4. ASSUME NEW n \in Key PROVE infos[n][n] \in Info /\ infos[n][n].seq = 1
  <2>1. [parent |-> n, seq |-> 1, nonce |-> nonce[n], port |-> 0] \in Info
    BY <1>2 DEF Info, Pos
  <2> QED
    BY <1>3, <2>1
<1>5. infos \in [Key -> Table]
  BY <1>1, <1>3, <1>4, Zenon DEF Table, FirstTable
<1>6. \A G : <<>> \in Seq(G)
  BY EmptySeq, Zenon
<1>7. TypeOK
  BY <1>5, <1>6, Zenon DEF Init, TypeOK
<1>8. \A n, k \in Key : AsGood(infos[k][k], infos[n][k])
  <2> SUFFICES ASSUME NEW n \in Key, NEW k \in Key PROVE AsGood(infos[k][k], infos[n][k])
    BY Zenon
  <2>1. CASE k = n
    BY <2>1, Zenon DEF AsGood
  <2>2. CASE k # n
    <3>1. infos[n][k] = NoInfo
      BY <1>3, <2>2, Zenon
    <3>2. infos[k][k].seq = 1
      BY <1>4, Zenon
    <3> QED
      BY <3>1, <3>2 DEF AsGood, Better, NoInfo
  <2> QED
    BY <2>1, <2>2, Zenon
<1>9. OwnInfoNewest
  BY <1>6, <1>8, Zenon DEF Init, OwnInfoNewest
<1>10. RequestsCurrent
  BY Zenon DEF Init, RequestsCurrent
<1> QED
  BY <1>4, <1>7, <1>9, <1>10, Zenon DEF IInv, SelfKnown, Init, SentKnown

\* Messages that are dated when the tables are as they were.
LEMMA KeepsOwnInfoNewest ==
    ASSUME IInv, infos' = infos, chan' \in [Conn -> [Key -> Seq(Dated)]]
    PROVE  OwnInfoNewest' /\ chan' \in [Conn -> [Key -> Seq(Msg)]]
<1>1. Dated' = Dated
  BY Zenon DEF Dated
<1>2. Seq(Dated) \subseteq Seq(Msg)
  BY SeqOver, Zenon DEF Dated
<1> QED
  BY <1>1, <1>2, Zenon DEF IInv, OwnInfoNewest

\* Countersigning a request (_handleRequest) keeps the invariant.
LEMMA HandleRequestIInv ==
    ASSUME IInv, NEW c \in Conn, NEW n \in Key, HandleRequest(c, n) PROVE IInv'
<1> DEFINE req == Head(chan[c][n]).req
           res == [seq |-> req.seq, nonce |-> req.nonce, port |-> Port[n][Remote(c, n)]]
           out == [d \in Conn |-> IF d = c THEN <<Res(res)>> ELSE <<>>]
<1>1. chan[c][n] # <<>> /\ Head(chan[c][n]).type = "req"
  BY Zenon DEF HandleRequest, Incoming
<1>2. Received(c, n) \in [Conn -> [Key -> Seq(Dated)]] /\ Head(chan[c][n]) \in Dated
  BY <1>1, StreamsDated, ReceivedType, Zenon
<1>3. req \in SigReq
  BY <1>1, <1>2, Zenon DEF Dated, Msg
<1>4. Port[n][Remote(c, n)] \in Nat
  BY RemoteEnd, RouterAssumption, SMTT(30) DEF Pos
<1>5. Res(res) \in Dated
  BY <1>3, <1>4, ZenonT(40) DEF Res, Dated, Msg, SigReq, SigRes
<1>6. out \in [Conn -> Seq(Dated)]
  BY <1>5
<1>7. chan' = Sending(n, Received(c, n), out)
  BY Zenon DEF HandleRequest
<1>8. chan' \in [Conn -> [Key -> Seq(Dated)]]
  BY <1>2, <1>6, <1>7, SendingType, Zenon
<1> HIDE DEF out, res, req
<1>9. UNCHANGED <<infos, sent, selfVars, connVars, envVars>>
  BY Zenon DEF HandleRequest
<1>10. OwnInfoNewest' /\ chan' \in [Conn -> [Key -> Seq(Msg)]]
  BY <1>8, <1>9, KeepsOwnInfoNewest, Zenon
<1>11. TypeOK'
  BY <1>9, <1>10, Zenon DEF IInv, TypeOK, selfVars, connVars, envVars
<1>12. SelfKnown' /\ SentKnown' /\ RequestsCurrent'
  BY <1>9, SelfUnchanged, SentUnchanged, Zenon
<1> QED
  BY <1>10, <1>11, <1>12, Zenon DEF IInv

\* Keeping a response (_handleResponse) keeps the invariant: it answers the
\* request that is pending.
LEMMA HandleResponseIInv ==
    ASSUME IInv, NEW c \in Conn, NEW n \in Key, HandleResponse(c, n) PROVE IInv'
<1> DEFINE m == Remote(c, n)
           res == Head(chan[c][n]).res
           fits == /\ responses[n][m] = NoRes
                   /\ requests[n][m] = [seq |-> res.seq, nonce |-> res.nonce]
<1>1. chan[c][n] # <<>> /\ Head(chan[c][n]).type = "res"
  BY Zenon DEF HandleResponse, Incoming
<1>2. Received(c, n) \in [Conn -> [Key -> Seq(Dated)]] /\ Head(chan[c][n]) \in Dated
  BY <1>1, StreamsDated, ReceivedType, Zenon
<1>3. res \in SigRes
  BY <1>1, <1>2, Zenon DEF Dated, Msg
<1>4. m \in Key
  BY RemoteEnd, Zenon
<1>5. UNCHANGED <<infos, sent, requests, refresh, doRoot1, connVars, envVars>>
      /\ chan' = Received(c, n)
  BY Zenon DEF HandleResponse
<1>6. OwnInfoNewest' /\ chan' \in [Conn -> [Key -> Seq(Msg)]]
  BY <1>2, <1>5, KeepsOwnInfoNewest, Zenon
<1>7. /\ responses' = IF fits THEN [responses EXCEPT ![n][m] = res] ELSE responses
      /\ resSeqs' = IF fits THEN [resSeqs EXCEPT ![n][m] = resSeqCtr[n] + 1] ELSE resSeqs
      /\ resSeqCtr' = IF fits THEN [resSeqCtr EXCEPT ![n] = @ + 1] ELSE resSeqCtr
  BY Zenon DEF HandleResponse
<1> HIDE DEF m, res
<1>8. responses' \in [Key -> [Key -> SigRes \cup {NoRes}]]
  BY <1>3, <1>4, <1>7, Zenon DEF IInv, TypeOK
<1>9. resSeqs' \in [Key -> [Key -> Nat]] /\ resSeqCtr' \in [Key -> Nat]
  BY <1>4, <1>7 DEF IInv, TypeOK
<1>10. TypeOK'
  BY <1>5, <1>6, <1>8, <1>9, Zenon DEF IInv, TypeOK, connVars, envVars
<1>11. RequestsCurrent'
  <2> SUFFICES ASSUME NEW a \in Key, NEW b \in Key, responses'[a][b] # NoRes
               PROVE  requests[a][b] = [seq |-> responses'[a][b].seq,
                                        nonce |-> responses'[a][b].nonce]
    BY <1>5, Zenon DEF IInv, RequestsCurrent
  <2>1. CASE fits /\ a = n /\ b = m
    BY <1>4, <1>7, <2>1, Zenon DEF IInv, TypeOK
  <2>2. CASE ~(fits /\ a = n /\ b = m)
    <3>1. responses'[a][b] = responses[a][b]
      BY <1>4, <1>7, <2>2, Zenon DEF IInv, TypeOK
    <3> QED
      BY <3>1 DEF IInv, RequestsCurrent
  <2> QED
    BY <2>1, <2>2, Zenon
<1> QED
  BY <1>5, <1>6, <1>10, <1>11, Zenon DEF IInv, SelfKnown, SentKnown, Known

\* No announcement improves what a node knows about itself.
LEMMA NotOwnInfo ==
    ASSUME IInv, NEW n \in Key, NEW ann \in Dated, ann.type = "ann",
           Accepts(infos[n], ann.key, ann.info)
    PROVE  ann.key # n
<1>1. ann.key \in Key /\ ann.info \in Info /\ AsGood(infos[ann.key][ann.key], ann.info)
  BY Zenon DEF Dated, Msg
<1>2. SUFFICES ASSUME ann.key = n PROVE FALSE
  BY Zenon
<1>3. n \in Known(infos[n]) /\ infos[n][n] \in Info
  BY InfoNotZero, Zenon DEF IInv, SelfKnown, Known
<1>4. Better(ann.info, infos[n][n]) /\ AsGood(infos[n][n], ann.info)
  BY <1>1, <1>2, <1>3, Zenon DEF Accepts
<1> QED
  BY <1>1, <1>3, <1>4, InfoFields DEF AnyInfo, AsGood, Better

\* Storing an announced info (_handleAnnounce, _update) keeps the invariant: the
\* info is about somebody else, and forgetting it in sent hurts nothing.
LEMMA AcceptAnnounceIInv ==
    ASSUME IInv, NEW c \in Conn, NEW n \in Key, AcceptAnnounce(c, n) PROVE IInv'
<1> DEFINE ann == Head(chan[c][n])
           k == ann.key
<1>1. chan[c][n] # <<>> /\ ann.type = "ann" /\ Accepts(infos[n], k, ann.info)
  BY Zenon DEF AcceptAnnounce, Incoming
<1>2. Received(c, n) \in [Conn -> [Key -> Seq(Dated)]] /\ ann \in Dated
  BY <1>1, StreamsDated, ReceivedType, Zenon
<1>3. k \in Key /\ ann.info \in Info /\ AsGood(infos[k][k], ann.info)
  BY <1>1, <1>2, ZenonT(40) DEF Dated, Msg
<1>4. k # n
  BY <1>1, <1>2, NotOwnInfo, Zenon
<1>5. /\ infos' = [infos EXCEPT ![n][k] = ann.info]
      /\ sent' = [sent EXCEPT ![n] = [m \in Key |-> IF m = Remote(c, n)
                                                     THEN sent[n][m] \cup {k}
                                                     ELSE sent[n][m] \ {k}]]
      /\ refresh' = refresh
      /\ chan' = Received(c, n)
      /\ UNCHANGED <<requests, responses, resSeqs, resSeqCtr, doRoot1, connVars, envVars>>
  BY <1>4, Zenon DEF AcceptAnnounce
<1> HIDE DEF k, ann
<1>6. infos' \in [Key -> Table]
  BY <1>3, <1>5, Zenon DEF IInv, TypeOK, Table
<1>7. \A j \in Key : infos'[j][j] = infos[j][j]
  BY <1>4, <1>5, <1>3, Zenon DEF IInv, TypeOK, Table
<1>8. Dated \subseteq Dated'
  BY <1>6, <1>7, DatedGrows, Zenon DEF AsGood, IInv, TypeOK
<1>9. Seq(Dated) \subseteq Seq(Dated') /\ Seq(Dated) \subseteq Seq(Msg)
  BY <1>8, SeqOver, Zenon DEF Dated
<1>10. OwnInfoNewest'
  <2>1. \A a, b \in Key : AsGood(infos'[b][b], infos'[a][b])
    BY <1>3, <1>5, <1>7, Zenon DEF IInv, TypeOK, Table, OwnInfoNewest
  <2>2. \A d \in Conn, m \in Key : chan'[d][m] \in Seq(Dated')
    BY <1>2, <1>5, <1>9, Zenon
  <2> QED
    BY <2>1, <2>2, Zenon DEF OwnInfoNewest
<1>11. chan' \in [Conn -> [Key -> Seq(Msg)]]
  BY <1>2, <1>5, <1>9, Zenon
<1>12. sent' \in [Key -> [Key -> SUBSET Key]]
  BY <1>3, <1>5, SMTT(30) DEF IInv, TypeOK
<1>13. TypeOK'
  BY <1>5, <1>6, <1>11, <1>12, ZenonT(40) DEF IInv, TypeOK, connVars, envVars
<1>14. \A a \in Key : Known(infos[a]) \subseteq Known(infos'[a])
  BY <1>3, <1>5, InfoNotZero, Zenon DEF IInv, TypeOK, Table, Known
<1>15. k \in Known(infos'[n])
  BY <1>3, <1>5, InfoNotZero, Zenon DEF IInv, TypeOK, Table, Known
<1>16. SentKnown'
  BY <1>5, <1>14, <1>15, ZenonT(40) DEF IInv, TypeOK, SentKnown
<1>17. RequestsCurrent'
  BY <1>5, <1>7 DEF IInv, RequestsCurrent
<1> QED
  BY <1>7, <1>10, <1>13, <1>16, <1>17, Zenon DEF IInv, SelfKnown

\* Refusing an announced info (_handleAnnounce) keeps the invariant: the answer
\* is what the table has.
LEMMA RefuseAnnounceIInv ==
    ASSUME IInv, NEW c \in Conn, NEW n \in Key, RefuseAnnounce(c, n) PROVE IInv'
<1> DEFINE ann == Head(chan[c][n])
           k == ann.key
           reply == IF ann.info = infos[n][k] THEN <<>> ELSE <<Ann(k, infos[n][k])>>
           out == [d \in Conn |-> IF d = c THEN reply ELSE <<>>]
<1>1. chan[c][n] # <<>> /\ ann.type = "ann" /\ ~Accepts(infos[n], k, ann.info)
  BY Zenon DEF RefuseAnnounce, Incoming
<1>2. Received(c, n) \in [Conn -> [Key -> Seq(Dated)]] /\ ann \in Dated
  BY <1>1, StreamsDated, ReceivedType, Zenon
<1>3. k \in Known(infos[n])
  BY <1>1, Zenon DEF Accepts
<1>4. Ann(k, infos[n][k]) \in Dated
  BY <1>3, AnnDated, Zenon
<1>5. /\ sent' = [sent EXCEPT ![n][Remote(c, n)] = @ \cup {k}]
      /\ chan' = Sending(n, Received(c, n), out)
      /\ UNCHANGED <<infos, selfVars, connVars, envVars>>
  BY Zenon DEF RefuseAnnounce
<1>6. out \in [Conn -> Seq(Dated)]
  <2>1. reply \in Seq(Dated)
    BY <1>4
  <2> HIDE DEF reply
  <2> QED
    BY <2>1, SMTT(30)
<1> HIDE DEF out, k, ann
<1>7. chan' \in [Conn -> [Key -> Seq(Dated)]]
  BY <1>2, <1>5, <1>6, SendingType, Zenon
<1>8. OwnInfoNewest' /\ chan' \in [Conn -> [Key -> Seq(Msg)]]
  BY <1>5, <1>7, KeepsOwnInfoNewest, Zenon
<1>9. sent' \in [Key -> [Key -> SUBSET Key]]
  BY <1>3, <1>5, RemoteEnd, SMTT(30) DEF IInv, TypeOK, Known
<1>10. SentKnown'
  BY <1>3, <1>5, RemoteEnd, ZenonT(40) DEF IInv, TypeOK, SentKnown, Known
<1>11. TypeOK'
  BY <1>5, <1>8, <1>9, Zenon DEF IInv, TypeOK, selfVars, connVars, envVars
<1>12. SelfKnown' /\ RequestsCurrent'
  BY <1>5, SelfUnchanged, Zenon
<1> QED
  BY <1>8, <1>10, <1>11, <1>12, Zenon DEF IInv

\* A new request is one for the next seq.
LEMMA NewReqType ==
    ASSUME IInv, NEW n \in Key, NEW nonce \in Nonce
    PROVE  NewReq(n, nonce) \in SigReq /\ NewReq(n, nonce).seq = infos[n][n].seq + 1
<1>1. infos[n][n].seq \in Pos /\ nonce \in Nat
  BY RouterAssumption, Zenon DEF IInv, SelfKnown, Info
<1> QED
  BY <1>1 DEF NewReq, SigReq, Pos

\* A new connection (addPeer) keeps the invariant: what is repeated is known, and
\* the request is for the next seq.
LEMMA AddPeerIInv ==
    ASSUME IInv, OrdersFit, NEW c \in Conn, NEW n \in Key, AddPeer(c, n) PROVE IInv'
<1> DEFINE m == Remote(c, n)
<1>1. PICK nonce \in Nonce, repeat \in Orders(sent[n][m]) :
         LET req == IF requests[n][m] = NoReq THEN NewReq(n, nonce) ELSE requests[n][m]
             ask == responses[n][m] = NoRes
         IN  /\ requests' = IF ask THEN [requests EXCEPT ![n][m] = req] ELSE requests
             /\ chan' = Sending(n, chan,
                  [d \in Conn |->
                     IF d = c THEN Announces(infos[n], repeat)
                                     \o (IF ask THEN <<Req(req)>> ELSE <<>>)
                              ELSE <<>>])
  BY Zenon DEF AddPeer
<1> DEFINE req == IF requests[n][m] = NoReq THEN NewReq(n, nonce) ELSE requests[n][m]
           ask == responses[n][m] = NoRes
           asking == IF ask THEN <<Req(req)>> ELSE <<>>
           out == [d \in Conn |-> IF d = c THEN Announces(infos[n], repeat) \o asking
                                           ELSE <<>>]
<1>2. /\ UNCHANGED <<infos, sent, responses, resSeqs, resSeqCtr, refresh, doRoot1,
                     link, envVars>>
      /\ pending' = [pending EXCEPT ![c] = @ \ {n}]
      /\ attached' = [attached EXCEPT ![c] = @ \cup {n}]
  BY Zenon DEF AddPeer
<1>3. m \in Key
  BY RemoteEnd, Zenon
<1>4. req \in SigReq /\ req.seq = infos[n][n].seq + 1
  <2>1. CASE requests[n][m] = NoReq
    <3>1. req = NewReq(n, nonce)
      BY <2>1, Zenon
    <3> HIDE DEF req
    <3> QED
      BY <3>1, NewReqType, Zenon
  <2>2. CASE requests[n][m] # NoReq
    <3>1. req = requests[n][m]
      BY <2>2, Zenon
    <3>2. requests[n][m] \in SigReq
      BY <1>3, <2>2 DEF IInv, TypeOK
    <3>3. requests[n][m].seq = infos[n][n].seq + 1
      BY <1>3, <2>2, Zenon DEF IInv, RequestsCurrent
    <3> QED
      BY <3>1, <3>2, <3>3, Zenon
  <2> QED
    BY <2>1, <2>2, Zenon
<1>5. sent[n][m] \subseteq Known(infos[n]) /\ sent[n][m] \subseteq Key
  BY <1>3 DEF IInv, SentKnown, TypeOK
<1>6. repeat \in Seq(sent[n][m])
  BY <1>5, Zenon DEF OrdersFit
<1>7. Announces(infos[n], repeat) \in Seq(Dated)
  BY <1>5, <1>6, AnnDated, AnnouncesType, Zenon
<1>8. asking \in Seq(Dated)
  <2>1. Req(req) \in Dated
    BY <1>4, Zenon DEF Req, Dated, Msg
  <2> QED
    BY <2>1, SMTT(30)
<1>9. out \in [Conn -> Seq(Dated)]
  BY <1>7, <1>8, ConcatType
<1>10. chan' = Sending(n, chan, out)
  BY <1>1, Zenon
<1>11. requests' = IF ask THEN [requests EXCEPT ![n][m] = req] ELSE requests
  BY <1>1, Zenon
<1> HIDE DEF out, asking, req, m
<1>12. chan' \in [Conn -> [Key -> Seq(Dated)]]
  BY <1>9, <1>10, StreamsDated, SendingType, Zenon
<1>13. OwnInfoNewest' /\ chan' \in [Conn -> [Key -> Seq(Msg)]]
  BY <1>2, <1>12, KeepsOwnInfoNewest, Zenon
<1>14. requests' \in [Key -> [Key -> SigReq \cup {NoReq}]]
  BY <1>3, <1>4, <1>11, Zenon DEF IInv, TypeOK
<1>15. pending' \in [Conn -> SUBSET Key] /\ attached' \in [Conn -> SUBSET Key]
  BY <1>2, ZenonT(40) DEF IInv, TypeOK
<1>16. TypeOK'
  BY <1>2, <1>13, <1>14, <1>15, Zenon DEF IInv, TypeOK, envVars
<1>17. RequestsCurrent'
  <2> SUFFICES ASSUME NEW a \in Key, NEW b \in Key
               PROVE  /\ requests'[a][b] # NoReq => requests'[a][b].seq = infos[a][a].seq + 1
                      /\ responses[a][b] # NoRes =>
                           requests'[a][b] = [seq |-> responses[a][b].seq,
                                              nonce |-> responses[a][b].nonce]
    BY <1>2, Zenon DEF RequestsCurrent
  <2>1. CASE ask /\ a = n /\ b = m
    BY <1>3, <1>4, <1>11, <2>1, Zenon DEF IInv, TypeOK
  <2>2. CASE ~(ask /\ a = n /\ b = m)
    <3>1. requests'[a][b] = requests[a][b]
      BY <1>3, <1>11, <2>2, Zenon DEF IInv, TypeOK
    <3>2. /\ requests[a][b] # NoReq => requests[a][b].seq = infos[a][a].seq + 1
          /\ responses[a][b] # NoRes =>
               requests[a][b] = [seq |-> responses[a][b].seq, nonce |-> responses[a][b].nonce]
      BY Zenon DEF IInv, RequestsCurrent
    <3> QED
      BY <3>1, <3>2, Zenon
  <2> QED
    BY <2>1, <2>2, Zenon
<1> QED
  BY <1>2, <1>13, <1>16, <1>17, Zenon DEF IInv, SelfKnown, SentKnown, Known

\* The end of a connection (removePeer) keeps the invariant.
LEMMA RemovePeerIInv ==
    ASSUME IInv, NEW c \in Conn, NEW n \in Key, RemovePeer(c, n) PROVE IInv'
<1> DEFINE m == Remote(c, n)
           last == \A d \in PeerConns(n) \ {c} : Remote(d, n) # m
<1>1. /\ attached' = [attached EXCEPT ![c] = @ \ {n}]
      /\ sent' = IF last THEN [sent EXCEPT ![n][m] = {}] ELSE sent
      /\ requests' = IF last THEN [requests EXCEPT ![n][m] = NoReq] ELSE requests
      /\ responses' = IF last THEN [responses EXCEPT ![n][m] = NoRes] ELSE responses
      /\ resSeqs' = IF last THEN [resSeqs EXCEPT ![n][m] = 0] ELSE resSeqs
      /\ UNCHANGED <<infos, resSeqCtr, refresh, doRoot1, link, pending, chan, envVars>>
  BY Zenon DEF RemovePeer
<1>2. m \in Key
  BY RemoteEnd, Zenon
<1> HIDE DEF m, last
<1>3. OwnInfoNewest' /\ chan' \in [Conn -> [Key -> Seq(Msg)]]
  BY <1>1, StreamsDated, KeepsOwnInfoNewest, Zenon
<1>4. attached' \in [Conn -> SUBSET Key] /\ sent' \in [Key -> [Key -> SUBSET Key]]
  BY <1>1, <1>2, Zenon DEF IInv, TypeOK
<1>5. /\ requests' \in [Key -> [Key -> SigReq \cup {NoReq}]]
      /\ responses' \in [Key -> [Key -> SigRes \cup {NoRes}]]
      /\ resSeqs' \in [Key -> [Key -> Nat]]
  BY <1>1, <1>2, Zenon DEF IInv, TypeOK
<1>6. TypeOK'
  BY <1>1, <1>3, <1>4, <1>5, Zenon DEF IInv, TypeOK, envVars
<1>7. SentKnown'
  BY <1>1, <1>2, ZenonT(40) DEF IInv, TypeOK, SentKnown, Known
<1>8. RequestsCurrent'
  <2> SUFFICES ASSUME NEW a \in Key, NEW b \in Key
               PROVE  /\ requests'[a][b] # NoReq => requests'[a][b].seq = infos[a][a].seq + 1
                      /\ responses'[a][b] # NoRes =>
                           requests'[a][b] = [seq |-> responses'[a][b].seq,
                                              nonce |-> responses'[a][b].nonce]
    BY <1>1, SMTT(30) DEF RequestsCurrent
  <2>1. CASE last /\ a = n /\ b = m
    BY <1>1, <1>2, <2>1, ZenonT(40) DEF IInv, TypeOK
  <2>2. CASE ~(last /\ a = n /\ b = m)
    <3>1. requests'[a][b] = requests[a][b] /\ responses'[a][b] = responses[a][b]
      BY <1>1, <1>2, <2>2, Zenon DEF IInv, TypeOK
    <3>2. /\ requests[a][b] # NoReq => requests[a][b].seq = infos[a][a].seq + 1
          /\ responses[a][b] # NoRes =>
               requests[a][b] = [seq |-> responses[a][b].seq, nonce |-> responses[a][b].nonce]
      BY Zenon DEF IInv, RequestsCurrent
    <3> QED
      BY <3>1, <3>2, ZenonT(40)
  <2> QED
    BY <2>1, <2>2, ZenonT(40)
<1> QED
  BY <1>1, <1>3, <1>6, <1>7, <1>8, Zenon DEF IInv, SelfKnown

\* A connection that is made starts with empty streams.
LEMMA ConnectIInv ==
    ASSUME IInv, NEW c \in Conn, Connect(c) PROVE IInv'
<1>1. /\ link' = [link EXCEPT ![c] = "open"]
      /\ pending' = [pending EXCEPT ![c] = Ends[c]]
      /\ chan' = [chan EXCEPT ![c] = [n \in Key |-> <<>>]]
      /\ used' = [used EXCEPT !["connect"] = @ + 1]
      /\ UNCHANGED scenario
      /\ UNCHANGED <<infos, sent, selfVars, attached>>
  BY Zenon DEF Connect, Happens
<1>2. chan' \in [Conn -> [Key -> Seq(Dated)]]
  BY <1>1, StreamsDated
<1>3. OwnInfoNewest' /\ chan' \in [Conn -> [Key -> Seq(Msg)]]
  BY <1>1, <1>2, KeepsOwnInfoNewest, Zenon
<1>4. link' \in [Conn -> {"down", "open", "broken"}]
  BY <1>1, Zenon DEF IInv, TypeOK
<1>5. pending' \in [Conn -> SUBSET Key]
  BY <1>1, RouterAssumption, ZenonT(40) DEF IInv, TypeOK
<1>6. used' \in [Event -> Nat]
  BY <1>1, SMTT(30) DEF IInv, TypeOK, Event
<1>7. TypeOK'
  BY <1>1, <1>3, <1>4, <1>5, <1>6, Zenon DEF IInv, TypeOK, selfVars
<1> QED
  BY <1>1, <1>3, <1>7, ZenonT(40) DEF IInv, SelfKnown, SentKnown, RequestsCurrent, selfVars, Known

\* A connection that fails keeps a prefix of each stream.
LEMMA BreakIInv ==
    ASSUME IInv, NEW c \in Conn, Break(c) PROVE IInv'
<1>1. /\ link' = [link EXCEPT ![c] = "broken"]
      /\ used' = [used EXCEPT !["break"] = @ + 1]
      /\ UNCHANGED scenario
      /\ UNCHANGED <<infos, sent, selfVars, pending, attached>>
  BY Zenon DEF Break, Happens
<1>2. PICK rest \in Truncated(chan[c]) : chan' = [chan EXCEPT ![c] = rest]
  BY Zenon DEF Break
<1>3. PICK read \in [Key -> UNION {0..Len(chan[c][n]) : n \in Key}] :
         /\ \A n \in Key : read[n] <= Len(chan[c][n])
         /\ rest = [n \in Key |-> SubSeq(chan[c][n], 1, read[n])]
  BY Zenon DEF Truncated
<1>4. ASSUME NEW n \in Key PROVE SubSeq(chan[c][n], 1, read[n]) \in Seq(Dated)
  <2>1. chan[c][n] \in Seq(Dated)
    BY StreamsDated, Zenon
  <2>2. read[n] \in 0..Len(chan[c][n])
    <3>1. PICK m \in Key : read[n] \in 0..Len(chan[c][m])
      BY <1>3, Zenon
    <3>2. read[n] \in Nat /\ Len(chan[c][n]) \in Nat
      BY <2>1, <3>1, SeqItems, SMTT(30)
    <3> QED
      BY <1>3, <3>2
  <2> QED
    BY <2>1, <2>2, PrefixType, Zenon
<1>8. chan' \in [Conn -> [Key -> Seq(Dated)]]
  BY <1>2, <1>3, <1>4, StreamsDated, Zenon
<1>9. OwnInfoNewest' /\ chan' \in [Conn -> [Key -> Seq(Msg)]]
  BY <1>1, <1>8, KeepsOwnInfoNewest, Zenon
<1>10. link' \in [Conn -> {"down", "open", "broken"}] /\ used' \in [Event -> Nat]
  BY <1>1 DEF IInv, TypeOK, Event
<1>11. TypeOK'
  BY <1>1, <1>9, <1>10, ZenonT(40) DEF IInv, TypeOK, selfVars
<1>12. SelfKnown' /\ SentKnown' /\ RequestsCurrent'
  BY <1>1, SelfUnchanged, SentUnchanged, Zenon
<1> QED
  BY <1>9, <1>11, <1>12, Zenon DEF IInv

\* Forgetting the info of another node (_update's timer) keeps the invariant,
\* since sent forgets it too.
LEMMA ExpireIInv ==
    ASSUME IInv, NEW n \in Key, NEW k \in Key, Expire(n, k) PROVE IInv'
<1>1. /\ k # n
      /\ infos' = [infos EXCEPT ![n][k] = NoInfo]
      /\ sent' = [sent EXCEPT ![n] = [m \in Key |-> sent[n][m] \ {k}]]
      /\ used' = [used EXCEPT !["expire"] = @ + 1]
      /\ UNCHANGED scenario
      /\ UNCHANGED <<selfVars, connVars, chan>>
  BY Zenon DEF Expire, Happens
<1>2. infos' \in [Key -> Table]
  BY <1>1, Zenon DEF IInv, TypeOK, Table
<1>3. \A j \in Key : infos'[j][j] = infos[j][j]
  BY <1>1, Zenon DEF IInv, TypeOK, Table
<1>4. Dated \subseteq Dated'
  BY <1>2, <1>3, DatedGrows, Zenon DEF AsGood, IInv, TypeOK
<1>5. \A a, b \in Key : AsGood(infos'[b][b], infos'[a][b])
  <2> SUFFICES ASSUME NEW a \in Key, NEW b \in Key PROVE AsGood(infos[b][b], infos'[a][b])
    BY <1>3, Zenon
  <2>1. CASE a = n /\ b = k
    <3>1. infos'[a][b] = NoInfo
      BY <1>1, <2>1, Zenon DEF IInv, TypeOK, Table
    <3>2. infos[b][b].seq \in Nat /\ infos[b][b].seq > 0
      BY DEF IInv, SelfKnown, Info, Pos
    <3> QED
      BY <3>1, <3>2 DEF AsGood, Better, NoInfo
  <2>2. CASE ~(a = n /\ b = k)
    <3>1. infos'[a][b] = infos[a][b]
      BY <1>1, <2>2, Zenon DEF IInv, TypeOK, Table
    <3> QED
      BY <3>1, Zenon DEF IInv, OwnInfoNewest
  <2> QED
    BY <2>1, <2>2, Zenon
<1>6. OwnInfoNewest'
  BY <1>1, <1>4, <1>5, SeqOver, Zenon DEF IInv, OwnInfoNewest
<1>7. sent' \in [Key -> [Key -> SUBSET Key]] /\ used' \in [Event -> Nat]
  BY <1>1, SMTT(30) DEF IInv, TypeOK, Event
<1>8. SentKnown'
  BY <1>1, ZenonT(40) DEF IInv, TypeOK, Table, SentKnown, Known
<1>9. TypeOK'
  BY <1>1, <1>2, <1>7, Zenon DEF IInv, TypeOK, selfVars, connVars, envVars
<1>10. SelfKnown' /\ RequestsCurrent'
  BY <1>1, <1>3, SMTT(30) DEF IInv, SelfKnown, RequestsCurrent, selfVars
<1> QED
  BY <1>6, <1>8, <1>9, <1>10, Zenon DEF IInv

\* The timer of the self info only sets refresh.
LEMMA RefreshTimerIInv ==
    ASSUME IInv, NEW n \in Key, RefreshTimer(n) PROVE IInv'
<1>1. /\ refresh' = [refresh EXCEPT ![n] = TRUE]
      /\ used' = [used EXCEPT !["refresh"] = @ + 1]
      /\ UNCHANGED scenario
      /\ UNCHANGED <<infos, sent, requests, responses, resSeqs, resSeqCtr, doRoot1,
                     connVars, chan>>
  BY Zenon DEF RefreshTimer, Happens
<1>2. OwnInfoNewest' /\ chan' \in [Conn -> [Key -> Seq(Msg)]]
  BY <1>1, StreamsDated, KeepsOwnInfoNewest, Zenon
<1>3. used' \in [Event -> Nat] /\ refresh' \in [Key -> BOOLEAN]
  BY <1>1 DEF IInv, TypeOK, Event
<1>4. TypeOK'
  BY <1>1, <1>2, <1>3, Zenon DEF IInv, TypeOK, connVars
<1> QED
  BY <1>1, <1>2, <1>4, ZenonT(40) DEF IInv, SelfKnown, SentKnown, RequestsCurrent, Known

-----------------------------------------------------------------------------
(* Maintenance. *)

\* _sendAnnounces, with a table that is to be the node's own, writes messages of
\* G and remembers nodes that the table knows.
LEMMA SendAnnouncesType ==
    ASSUME NEW G, NEW n \in Key, NEW tbl, NEW S \in [Key -> SUBSET Known(tbl)],
           NEW pre \in [Conn -> Seq(G)], chan \in [Conn -> [Key -> Seq(G)]],
           \A k \in Known(tbl) : Ann(k, tbl[k]) \in G,
           sent \in [Key -> [Key -> SUBSET Key]],
           SendAnnounces(n, tbl, S, pre)
    PROVE  /\ chan' \in [Conn -> [Key -> Seq(G)]]
           /\ sent' \in [Key -> [Key -> SUBSET Key]]
           /\ \A m \in Key : sent'[n][m] \subseteq Known(tbl)
           /\ \A a \in Key \ {n} : sent'[a] = sent[a]
<1> DEFINE toSend == [m \in Peers(n) |-> ToSend(n, tbl, S[m], m)]
           out == [c \in Conn |-> IF c \in PeerConns(n)
                                  THEN pre[c] \o Announces(tbl, toSend[Remote(c, n)])
                                  ELSE <<>>]
           sent2 == [m \in Key |-> IF m \in Peers(n) THEN S[m] \cup Range(toSend[m]) ELSE {}]
<1>1. /\ \A m \in Peers(n) : toSend[m] \in Seq(Known(tbl))
      /\ sent' = [sent EXCEPT ![n] = sent2]
      /\ chan' = Sending(n, chan, out)
  BY Zenon DEF SendAnnounces
<1> HIDE DEF toSend
<1>2. ASSUME NEW c \in PeerConns(n)
      PROVE  Announces(tbl, toSend[Remote(c, n)]) \in Seq(G)
  <2>1. toSend[Remote(c, n)] \in Seq(Known(tbl))
    BY <1>1, Zenon DEF Peers
  <2> QED
    BY <2>1, AnnouncesType, Zenon
<1>3. out \in [Conn -> Seq(G)]
  BY <1>2, ConcatType
<1>4. ASSUME NEW m \in Key PROVE sent2[m] \subseteq Known(tbl)
  <2>1. CASE m \in Peers(n)
    <3>1. Range(toSend[m]) \subseteq Known(tbl)
      BY <1>1, <2>1, SeqItems DEF Range
    <3> QED
      BY <2>1, <3>1, Zenon
  <2>2. CASE m \notin Peers(n)
    BY <2>2, Zenon
  <2> QED
    BY <2>1, <2>2, Zenon
<1> HIDE DEF out
<1>5. chan' \in [Conn -> [Key -> Seq(G)]]
  BY <1>1, <1>3, SendingType, ZenonT(40)
<1>6. sent2 \in [Key -> SUBSET Key]
  BY <1>4, Zenon DEF Known
<1> HIDE DEF sent2
<1> QED
  BY <1>1, <1>4, <1>5, <1>6, Zenon

\* A maintenance that stores no self info keeps the invariant.
LEMMA KeepSelfInfoIInv ==
    ASSUME IInv, NEW n \in Key, KeepSelfInfo(n), doRoot1' \in [Key -> BOOLEAN]
    PROVE  IInv'
<1>1. /\ SendAnnounces(n, infos[n], sent[n], [c \in Conn |-> <<>>])
      /\ UNCHANGED <<infos, requests, responses, resSeqs, resSeqCtr, refresh, connVars, envVars>>
  BY Zenon DEF KeepSelfInfo
<1>2. sent[n] \in [Key -> SUBSET Known(infos[n])]
  BY Zenon DEF IInv, TypeOK, SentKnown
<1>3. \A k \in Known(infos[n]) : Ann(k, infos[n][k]) \in Dated
  BY AnnDated, Zenon
<1>4. [c \in Conn |-> <<>>] \in [Conn -> Seq(Dated)]
  OBVIOUS
<1>5. /\ chan' \in [Conn -> [Key -> Seq(Dated)]]
      /\ sent' \in [Key -> [Key -> SUBSET Key]]
      /\ \A m \in Key : sent'[n][m] \subseteq Known(infos[n])
      /\ \A a \in Key \ {n} : sent'[a] = sent[a]
  BY <1>1, <1>2, <1>3, <1>4, StreamsDated, SendAnnouncesType, Zenon DEF IInv, TypeOK
<1>6. OwnInfoNewest' /\ chan' \in [Conn -> [Key -> Seq(Msg)]]
  BY <1>1, <1>5, KeepsOwnInfoNewest, Zenon
<1>7. SentKnown'
  BY <1>1, <1>5, Zenon DEF IInv, SentKnown, Known
<1> QED
  BY <1>1, <1>5, <1>6, <1>7, ZenonT(40) DEF IInv, TypeOK, SelfKnown, RequestsCurrent, connVars, envVars

\* A maintenance that stores a better self info (_useResponse, _becomeRoot) keeps
\* the invariant: every request and response is replaced by one for the next seq.
LEMMA NewSelfInfoIInv ==
    ASSUME IInv, NEW n \in Key, NEW info \in Info, Better(info, infos[n][n]),
           NEW nonce \in [Key -> Nonce], NewSelfInfo(n, info, nonce)
    PROVE  IInv'
<1> DEFINE tbl == [infos[n] EXCEPT ![n] = info]
           req(m) == [seq |-> info.seq + 1, nonce |-> nonce[m]]
           pre == [c \in Conn |-> IF c \in PeerConns(n) THEN <<Req(req(Remote(c, n)))>>
                                                        ELSE <<>>]
           S == [m \in Key |-> sent[n][m] \ {n}]
<1>1. /\ infos' = [infos EXCEPT ![n] = tbl]
      /\ requests' = [requests EXCEPT ![n] =
                        [m \in Key |-> IF m \in Peers(n) THEN req(m) ELSE NoReq]]
      /\ responses' = [responses EXCEPT ![n] = [m \in Key |-> NoRes]]
      /\ resSeqs' = [resSeqs EXCEPT ![n] = [m \in Key |-> 0]]
      /\ resSeqCtr' = [resSeqCtr EXCEPT ![n] = 0]
      /\ refresh' = [refresh EXCEPT ![n] = FALSE]
      /\ doRoot1' = [doRoot1 EXCEPT ![n] = FALSE]
      /\ SendAnnounces(n, tbl, S, pre)
      /\ UNCHANGED <<connVars, envVars>>
  BY Zenon DEF NewSelfInfo
<1>2. ASSUME NEW m \in Key PROVE req(m) \in SigReq /\ req(m).seq = info.seq + 1
  <2>1. info.seq + 1 \in Pos
    BY DEF Info, Pos
  <2>2. nonce[m] \in Nat
    BY RouterAssumption, Zenon
  <2> QED
    BY <2>1, <2>2, ZenonT(40) DEF SigReq
<1>3. tbl \in Table /\ tbl[n] = info /\ \A k \in Key \ {n} : tbl[k] = infos[n][k]
  BY Zenon DEF IInv, TypeOK, Table
<1>4. infos' \in [Key -> Table] /\ infos'[n] = tbl /\ \A a \in Key \ {n} : infos'[a] = infos[a]
  BY <1>1, <1>3, ZenonT(40) DEF IInv, TypeOK
<1> HIDE DEF tbl
<1>5. \A k \in Key : AsGood(infos'[k][k], infos[k][k])
  BY <1>3, <1>4, Zenon DEF AsGood
<1>6. Dated \subseteq Dated'
  BY <1>4, <1>5, DatedGrows, Zenon DEF IInv, TypeOK
<1>7. \A a, b \in Key : AsGood(infos'[b][b], infos'[a][b])
  <2> SUFFICES ASSUME NEW a \in Key, NEW b \in Key PROVE AsGood(infos'[b][b], infos'[a][b])
    BY ZenonT(40)
  <2>1. CASE a = b
    BY <2>1, Zenon DEF AsGood
  <2>2. CASE a # b
    <3>1. infos'[a][b] = infos[a][b]
      BY <1>3, <1>4, <2>2
    <3>2. AsGood(infos[b][b], infos[a][b])
      BY Zenon DEF IInv, OwnInfoNewest
    <3>3. infos'[b][b] \in AnyInfo /\ infos[b][b] \in AnyInfo /\ infos[a][b] \in AnyInfo
      BY <1>4 DEF IInv, TypeOK, Table, AnyInfo
    <3> QED
      BY <1>5, <3>1, <3>2, <3>3, AsGoodTransitive, Zenon
  <2> QED
    BY <2>1, <2>2, ZenonT(40)
<1>8. ASSUME NEW k \in Known(tbl) PROVE Ann(k, tbl[k]) \in Dated'
  <2>1. k \in Key /\ tbl[k] \in Info
    BY <1>3, KnownInfo, Zenon
  <2>2. AsGood(infos'[k][k], tbl[k])
    BY <1>4, <1>7, <2>1, Zenon
  <2> QED
    BY <2>1, <2>2, Zenon DEF Ann, Dated, Msg
<1>9. pre \in [Conn -> Seq(Dated')]
  <2>1. ASSUME NEW c \in Conn PROVE Req(req(Remote(c, n))) \in Dated'
    BY <1>2, RemoteEnd, Zenon DEF Req, Dated, Msg
  <2> QED
    BY <2>1
<1>10. S \in [Key -> SUBSET Known(tbl)]
  <2> SUFFICES ASSUME NEW m \in Key, NEW k \in sent[n][m] \ {n} PROVE k \in Known(tbl)
    BY Zenon
  <2> QED
    BY <1>3, Zenon DEF IInv, SentKnown, Known
<1>11. chan \in [Conn -> [Key -> Seq(Dated')]]
  BY <1>6, StreamsDated, SeqOver
<1> HIDE DEF pre, S, req
<1>12. /\ chan' \in [Conn -> [Key -> Seq(Dated')]]
       /\ sent' \in [Key -> [Key -> SUBSET Key]]
       /\ \A m \in Key : sent'[n][m] \subseteq Known(tbl)
       /\ \A a \in Key \ {n} : sent'[a] = sent[a]
  BY <1>1, <1>8, <1>9, <1>10, <1>11, SendAnnouncesType, Zenon DEF IInv, TypeOK
<1>13. OwnInfoNewest'
  BY <1>7, <1>12, Zenon DEF OwnInfoNewest
<1>14. SentKnown'
  BY <1>4, <1>12, Zenon DEF IInv, SentKnown
<1>15. chan' \in [Conn -> [Key -> Seq(Msg)]]
  <2>1. Dated' \subseteq Msg'
    BY Zenon DEF Dated
  <2>2. Msg' = Msg
    BY Zenon DEF Msg
  <2> QED
    BY <1>12, <2>1, <2>2, SeqOver
<1>16. requests' \in [Key -> [Key -> SigReq \cup {NoReq}]]
  BY <1>1, <1>2, Zenon DEF IInv, TypeOK
<1>17. TypeOK'
  BY <1>1, <1>4, <1>12, <1>15, <1>16, ZenonT(40) DEF IInv, TypeOK, connVars, envVars
<1>18. SelfKnown'
  BY <1>3, <1>4, Zenon DEF IInv, SelfKnown
<1>19. RequestsCurrent'
  <2> SUFFICES ASSUME NEW a \in Key, NEW b \in Key
               PROVE  /\ requests'[a][b] # NoReq => requests'[a][b].seq = infos'[a][a].seq + 1
                      /\ responses'[a][b] # NoRes =>
                           requests'[a][b] = [seq |-> responses'[a][b].seq,
                                              nonce |-> responses'[a][b].nonce]
    BY Zenon DEF RequestsCurrent
  <2>1. CASE a = n
    BY <1>1, <1>2, <1>3, <1>4, <2>1, Zenon DEF IInv, TypeOK
  <2>2. CASE a # n
    <3>1. /\ requests'[a] = requests[a] /\ responses'[a] = responses[a]
          /\ infos'[a] = infos[a]
      BY <1>1, <1>4, <2>2, Zenon DEF IInv, TypeOK
    <3>2. /\ requests[a][b] # NoReq => requests[a][b].seq = infos[a][a].seq + 1
          /\ responses[a][b] # NoRes =>
               requests[a][b] = [seq |-> responses[a][b].seq, nonce |-> responses[a][b].nonce]
      BY ZenonT(40) DEF IInv, RequestsCurrent
    <3> QED
      BY <3>1, <3>2, ZenonT(40)
  <2> QED
    BY <2>1, <2>2, Zenon
<1> QED
  BY <1>13, <1>14, <1>17, <1>18, <1>19, Zenon DEF IInv

\* A response that is kept is one to the request for the next seq.
LEMMA ResponseBetter ==
    ASSUME IInv, NEW n \in Key, NEW m \in Responders(n)
    PROVE  /\ ResponseInfo(n, m) \in Info /\ Better(ResponseInfo(n, m), infos[n][n])
           /\ ResponseInfo(n, m).seq > infos[n][n].seq
<1>1. m \in Key /\ responses[n][m] # NoRes /\ responses[n][m] \in SigRes
  BY SMTT(30) DEF Responders, IInv, TypeOK
<1>2. requests[n][m] = [seq |-> responses[n][m].seq, nonce |-> responses[n][m].nonce]
  BY <1>1, Zenon DEF IInv, RequestsCurrent
<1>3. requests[n][m].seq = responses[n][m].seq /\ responses[n][m].seq \in Pos
  BY <1>1, <1>2 DEF SigRes
<1>4. requests[n][m] # NoReq
  BY <1>3 DEF NoReq, Pos
<1>5. responses[n][m].seq = infos[n][n].seq + 1
  BY <1>1, <1>3, <1>4, ZenonT(40) DEF IInv, RequestsCurrent
<1>6. ResponseInfo(n, m) \in Info
  BY <1>1, Zenon DEF ResponseInfo, SigRes, Info
<1>7. infos[n][n].seq \in Nat
  BY Zenon DEF IInv, SelfKnown, Info, Pos
<1>8. ResponseInfo(n, m).seq > infos[n][n].seq
  BY <1>5, <1>7 DEF ResponseInfo
<1> QED
  BY <1>6, <1>8, ZenonT(40) DEF Better

\* A maintenance (_doMaintenance) keeps the invariant.
LEMMA MaintainIInv ==
    ASSUME IInv, NEW n \in Key, Maintain(n) PROVE IInv'
<1> DEFINE best == Best(n)
<1>1. CASE MaintainUseResponse(n, best)
  <2>1. best.parent \in Responders(n)
    BY <1>1, Zenon DEF MaintainUseResponse, CanUseResponse
  <2>2. PICK nonce \in [Key -> Nonce] : NewSelfInfo(n, ResponseInfo(n, best.parent), nonce)
    BY <1>1, Zenon DEF MaintainUseResponse
  <2> QED
    BY <2>1, <2>2, ResponseBetter, NewSelfInfoIInv, Zenon
<1>2. CASE MaintainBecomeRoot(n, best)
  <2>1. PICK nonce \in [Key -> Nonce] : NewSelfInfo(n, RootInfo(n, nonce[n]), nonce)
    BY <1>2, Zenon DEF MaintainBecomeRoot
  <2>2. infos[n][n].seq \in Nat /\ nonce[n] \in Nat
    BY RouterAssumption, Zenon DEF IInv, SelfKnown, Info, Pos
  <2>3. infos[n][n].seq + 1 \in Pos /\ infos[n][n].seq + 1 > infos[n][n].seq
    BY <2>2, SMTT(30) DEF Pos
  <2>4. RootInfo(n, nonce[n]) \in Info
    BY <2>2, <2>3, Zenon DEF RootInfo, Info
  <2>5. Better(RootInfo(n, nonce[n]), infos[n][n])
    BY <2>3, Zenon DEF RootInfo, Better
  <2> QED
    BY <2>1, <2>4, <2>5, NewSelfInfoIInv, Zenon
<1>3. CASE MaintainArmRoot(n, best)
  BY <1>3, KeepSelfInfoIInv, Zenon DEF MaintainArmRoot, IInv, TypeOK
<1>4. CASE MaintainSteady(n, best)
  BY <1>4, KeepSelfInfoIInv, Zenon DEF MaintainSteady, IInv, TypeOK
<1> QED
  BY <1>1, <1>2, <1>3, <1>4, Zenon DEF Maintain

-----------------------------------------------------------------------------

(***************************************************************************)
(* What was sent arrives (SentArrives).  The invariant that this needs:    *)
(* nobody passes on more about a node than its own table says (Sources),   *)
(* there is one info for each node and seq (OneInfo), and a node has only  *)
(* connections that were made among its peers (Ended).                     *)
(***************************************************************************)

Has(q, x) == \E i \in DOMAIN q : q[i] = x

\* The info x about node k is on its way to n over c, now and after a step.
Heard(c, n, k, x) == Has(chan[c][n], Ann(k, x))
HeardNext(c, n, k, x) == Has(chan'[c][n], Ann(k, x))

\* What n has told m about node k, an info as good as old, reaches m.
Arrives(n, m, k, old) ==
    \/ AsGood(infos[m][k], old)
    \/ \E c \in Conn, x \in Info : Ends[c] = {n, m} /\ Heard(c, m, k, x) /\ AsGood(x, old)
ArrivesNext(n, m, k, old) ==
    \/ AsGood(infos'[m][k], old)
    \/ \E c \in Conn, x \in Info : Ends[c] = {n, m} /\ HeardNext(c, m, k, x) /\ AsGood(x, old)

Told ==
    \A n, m \in Key : Whole(n, m) => \A k \in sent[n][m] : Arrives(n, m, k, infos[n][k])

Sources ==
    \A c \in Conn, n, k \in Key, x \in Info :
       Heard(c, n, k, x) => AsGood(infos[Remote(c, n)][k], x)

\* Somebody says x about node k.
Said(k, x) ==
    \/ \E n \in Key : infos[n][k] = x
    \/ \E c \in Conn, n \in Key : Heard(c, n, k, x)

OneInfo ==
    \A k \in Key : \A x, y \in AnyInfo : Said(k, x) /\ Said(k, y) /\ x.seq = y.seq => x = y

Ended ==
    \A c \in Conn : /\ attached[c] \subseteq Ends[c] /\ pending[c] \subseteq Ends[c]
                    /\ link[c] = "down" => attached[c] = {} /\ pending[c] = {}

SInv == IInv /\ Ended /\ (used["expire"] = 0 => Told /\ Sources /\ OneInfo)

\* The other end of the other end.
LEMMA RemoteRemote ==
    ASSUME NEW c \in Conn, NEW n \in Ends[c]
    PROVE  n \in Key /\ Remote(c, Remote(c, n)) = n /\ Ends[c] = {n, Remote(c, n)}
<1>1. PICK a \in Key, b \in Key : a # b /\ Ends[c] = {a, b}
  BY RouterAssumption, ZenonT(40)
<1>2. \A m \in {a, b} : Remote(c, m) \in {a, b} /\ Remote(c, m) # m
  <2> TAKE m \in {a, b}
  <2>1. \E o \in Ends[c] : o # m
    BY <1>1, Zenon
  <2> QED
    BY <1>1, <2>1, Zenon DEF Remote
<1> QED
  BY <1>1, <1>2, Zenon

\* A sequence over S has only members of S.
LEMMA SeqHas ==
    ASSUME NEW S, NEW q \in Seq(S), NEW x, Has(q, x) PROVE x \in S
  BY SeqItems DEF Has

\* What one sequence has, or the other.
LEMMA ConcatHas ==
    ASSUME NEW S, NEW p \in Seq(S), NEW q \in Seq(S), NEW x
    PROVE  Has(p \o q, x) <=> Has(p, x) \/ Has(q, x)
<1>1. Len(p) \in Nat /\ Len(q) \in Nat /\ Len(p \o q) = Len(p) + Len(q)
  OBVIOUS
<1>2. \A i \in 1..Len(p) : (p \o q)[i] = p[i]
  OBVIOUS
<1>3. \A i \in 1..Len(q) : (p \o q)[Len(p) + i] = q[i]
  OBVIOUS
<1>4. \A i \in 1..Len(p) + Len(q) : i \in 1..Len(p) \/ \E j \in 1..Len(q) : i = Len(p) + j
  <2> TAKE i \in 1..Len(p) + Len(q)
  <2>1. CASE i > Len(p)
    <3>1. i - Len(p) \in 1..Len(q) /\ i = Len(p) + (i - Len(p))
      BY <1>1, <2>1
    <3> QED
      BY <3>1, Zenon
  <2>2. CASE ~(i > Len(p))
    BY <1>1, <2>2
  <2> QED
    BY <2>1, <2>2, Zenon
<1>5. \A i \in 1..Len(p) : i \in 1..Len(p) + Len(q)
  BY <1>1
<1>6. \A i \in 1..Len(q) : Len(p) + i \in 1..Len(p) + Len(q)
  BY <1>1
<1>7. DOMAIN p = 1..Len(p) /\ DOMAIN q = 1..Len(q) /\ DOMAIN (p \o q) = 1..Len(p) + Len(q)
  BY <1>1, ConcatType, SeqItems, Zenon
<1>8. ASSUME Has(p \o q, x) PROVE Has(p, x) \/ Has(q, x)
  <2>1. PICK i \in 1..Len(p) + Len(q) : (p \o q)[i] = x
    BY <1>7, <1>8, Zenon DEF Has
  <2>2. CASE i \in 1..Len(p)
    BY <1>2, <1>7, <2>1, <2>2, Zenon DEF Has
  <2>3. CASE \E j \in 1..Len(q) : i = Len(p) + j
    BY <1>3, <1>7, <2>1, <2>3, Zenon DEF Has
  <2> QED
    BY <1>4, <2>2, <2>3, Zenon
<1>9. ASSUME Has(p, x) PROVE Has(p \o q, x)
  BY <1>2, <1>5, <1>7, <1>9, Zenon DEF Has
<1>10. ASSUME Has(q, x) PROVE Has(p \o q, x)
  BY <1>3, <1>6, <1>7, <1>10, Zenon DEF Has
<1> QED
  BY <1>8, <1>9, <1>10, Zenon

\* What the first item is, or a later one.
LEMMA HeadTailHas ==
    ASSUME NEW S, NEW q \in Seq(S), q # <<>>, NEW x
    PROVE  Has(q, x) <=> x = Head(q) \/ Has(Tail(q), x)
<1>1. Len(q) \in Nat /\ Len(q) # 0 /\ DOMAIN q = 1..Len(q)
  OBVIOUS
<1>2. Len(Tail(q)) = Len(q) - 1 /\ DOMAIN Tail(q) = 1..Len(q) - 1
  BY <1>1
<1>3. Head(q) = q[1] /\ \A i \in 1..Len(q) - 1 : Tail(q)[i] = q[i + 1]
  BY <1>1
<1>4. 1 \in 1..Len(q) /\ \A i \in 1..Len(q) - 1 : i + 1 \in 1..Len(q)
  BY <1>1
<1>5. \A i \in 1..Len(q) : i = 1 \/ \E j \in 1..Len(q) - 1 : i = j + 1
  <2> TAKE i \in 1..Len(q)
  <2>1. CASE i # 1
    <3>1. i - 1 \in 1..Len(q) - 1 /\ i = (i - 1) + 1
      BY <1>1, <2>1
    <3> QED
      BY <3>1, Zenon
  <2> QED
    BY <2>1, Zenon
<1>6. ASSUME Has(q, x) PROVE x = Head(q) \/ Has(Tail(q), x)
  <2>1. PICK i \in 1..Len(q) : q[i] = x
    BY <1>1, <1>6, Zenon DEF Has
  <2>2. CASE \E j \in 1..Len(q) - 1 : i = j + 1
    BY <1>2, <1>3, <2>1, <2>2, Zenon DEF Has
  <2> QED
    BY <1>3, <1>5, <2>1, <2>2, Zenon
<1>7. ASSUME Has(Tail(q), x) PROVE Has(q, x)
  BY <1>1, <1>2, <1>3, <1>4, <1>7, Zenon DEF Has
<1>8. Has(q, Head(q))
  BY <1>1, <1>3, <1>4, Zenon DEF Has
<1> QED
  BY <1>6, <1>7, <1>8, Zenon

\* A prefix has nothing else.
LEMMA PrefixHas ==
    ASSUME NEW S, NEW q \in Seq(S), NEW n \in 0..Len(q), NEW x, Has(SubSeq(q, 1, n), x)
    PROVE  Has(q, x)
<1>1. DOMAIN q = 1..Len(q) /\ Len(q) \in Nat
  OBVIOUS
<1>2. DOMAIN SubSeq(q, 1, n) = 1..n /\ \A i \in 1..n : SubSeq(q, 1, n)[i] = q[i]
  BY <1>1
<1>3. 1..n \subseteq 1..Len(q)
  BY <1>1
<1> QED
  BY <1>1, <1>2, <1>3, Zenon DEF Has

\* The empty sequence has nothing.
LEMMA EmptyHas == ASSUME NEW q, q = <<>>, NEW x PROVE ~Has(q, x)
  BY SMTT(30) DEF Has

\* A sequence of one item has only that.
LEMMA SingleHas == ASSUME NEW q, NEW x, q = <<x>>, NEW y PROVE Has(q, y) <=> x = y
  BY SMTT(30) DEF Has

\* A sequence of at most one item has nothing else.
LEMMA OneOrNone ==
    ASSUME NEW q, NEW x, q = <<x>> \/ q = <<>>, NEW y, Has(q, y) PROVE x = y
  BY EmptyHas, SingleHas

-----------------------------------------------------------------------------
(* What a step may do to tables and streams. *)

\* Tables only improve.
Grows == \A n, k \in Key : AsGood(infos'[n][k], infos[n][k])

\* What is new in a table was heard, or the node has just signed it.
Learns ==
    \A n, k \in Key : \/ infos'[n][k] = infos[n][k]
                      \/ \E c \in Conn : Heard(c, n, k, infos'[n][k])
                      \/ n = k /\ infos'[k][k].seq > infos[k][k].seq

\* What is new in a stream is in the table of the node that writes to it.
Says ==
    \A c \in Conn, n, k \in Key, x \in Info :
       HeardNext(c, n, k, x) => Heard(c, n, k, x) \/ x = infos'[Remote(c, n)][k]

\* What connection c does not keep for n has been read.
Keeps(c) ==
    \A n, k \in Key, x \in Info :
       Heard(c, n, k, x) => HeardNext(c, n, k, x) \/ AsGood(infos'[n][k], x)

\* The streams of two nodes with whole connections are kept.
Delivers ==
    \A n, m \in Key : Whole(n, m)' => \A c \in Conn : Ends[c] = {n, m} => Keeps(c)

\* What n remembers having sent to m, it remembered before and has not changed, or
\* it arrives.
StillSent(n, m, k) ==
    k \in sent[n][m] /\ infos'[n][k] = infos[n][k] /\ Whole(n, m)

Tells ==
    \A n, m \in Key : Whole(n, m)' => \A k \in sent'[n][m] :
       StillSent(n, m, k) \/ ArrivesNext(n, m, k, infos'[n][k])

\* Infos in tables, and in messages.
LEMMA TableInfo ==
    ASSUME IInv, NEW n \in Key, NEW k \in Key PROVE infos[n][k] \in AnyInfo
  BY DEF IInv, TypeOK, Table, AnyInfo

\* Infos in the next tables.
LEMMA TableInfoNext ==
    ASSUME IInv', NEW n \in Key, NEW k \in Key PROVE infos'[n][k] \in AnyInfo
  BY DEF IInv, TypeOK, Table, AnyInfo

\* What is heard about a node is an info, and its own table is as good.
LEMMA HeardInfo ==
    ASSUME IInv, NEW c \in Conn, NEW n \in Key, NEW k \in Key, NEW x, Heard(c, n, k, x)
    PROVE  x \in Info /\ AsGood(infos[k][k], x)
<1>1. Ann(k, x) \in Dated
  <2>1. chan[c][n] \in Seq(Dated)
    BY StreamsDated, Zenon
  <2> QED
    BY <2>1, SeqHas, Zenon DEF Heard
<1>2. Ann(k, x).type = "ann" /\ Ann(k, x).key = k /\ Ann(k, x).info = x
  BY Zenon DEF Ann
<1> QED
  BY <1>1, <1>2, Zenon DEF Dated, Msg

\* Whoever says x about node k, the seq of x is at most that of k.
LEMMA SaidSeq ==
    ASSUME IInv, NEW k \in Key, NEW x \in AnyInfo, Said(k, x) PROVE x.seq <= infos[k][k].seq
<1>1. AsGood(infos[k][k], x)
  BY HeardInfo, Zenon DEF Said, IInv, OwnInfoNewest
<1>2. infos[k][k] \in AnyInfo
  BY TableInfo, Zenon
<1> QED
  BY <1>1, <1>2, InfoFields DEF AsGood, Better

\* The messages of a stream still say no more than the writer's table.
LEMMA KeepsSources ==
    ASSUME IInv, IInv', Sources, Grows, Says PROVE Sources'
<1> SUFFICES ASSUME NEW c \in Conn, NEW n \in Key, NEW k \in Key, NEW x \in Info,
                    HeardNext(c, n, k, x)
             PROVE  AsGood(infos'[Remote(c, n)][k], x)
  BY Zenon DEF Sources, Heard, HeardNext
<1>1. Remote(c, n) \in Key
  BY RemoteEnd, Zenon
<1>2. CASE x = infos'[Remote(c, n)][k]
  BY <1>2, Zenon DEF AsGood
<1>3. CASE Heard(c, n, k, x)
  <2>1. AsGood(infos[Remote(c, n)][k], x)
    BY <1>3, Zenon DEF Sources
  <2>2. AsGood(infos'[Remote(c, n)][k], infos[Remote(c, n)][k])
    BY <1>1, Zenon DEF Grows
  <2>3. infos'[Remote(c, n)][k] \in AnyInfo /\ infos[Remote(c, n)][k] \in AnyInfo
    BY <1>1, TableInfo, TableInfoNext, Zenon
  <2> QED
    BY <2>1, <2>2, <2>3, AsGoodTransitive, Zenon DEF AnyInfo
<1> QED
  BY <1>2, <1>3, Zenon DEF Says

SaidNext(k, x) ==
    \/ \E n \in Key : infos'[n][k] = x
    \/ \E c \in Conn, n \in Key : HeardNext(c, n, k, x)

\* Node k signs x in a step.
Signed(k, x) == x = infos'[k][k] /\ x.seq > infos[k][k].seq

\* What is said after a step was said before, or the node has just signed it.
LEMMA SaidBefore ==
    ASSUME IInv, IInv', Learns, Says, NEW k \in Key, NEW x \in AnyInfo, SaidNext(k, x)
    PROVE  Said(k, x) \/ Signed(k, x)
<1>1. ASSUME NEW n \in Key, infos'[n][k] = x
      PROVE  Said(k, x) \/ Signed(k, x)
  <2>1. CASE infos'[n][k] = infos[n][k]
    BY <1>1, <2>1, Zenon DEF Said
  <2>2. CASE \E c \in Conn : Heard(c, n, k, infos'[n][k])
    BY <1>1, <2>2, Zenon DEF Said
  <2>3. CASE n = k /\ infos'[k][k].seq > infos[k][k].seq
    BY <1>1, <2>3, Zenon DEF Signed
  <2> QED
    BY <2>1, <2>2, <2>3, Zenon DEF Learns
<1>2. ASSUME NEW c \in Conn, NEW n \in Key, HeardNext(c, n, k, x)
      PROVE  Said(k, x) \/ Signed(k, x)
  <2>1. x \in Info
    <3>1. chan'[c][n] \in Seq(Msg)
      BY DEF IInv, TypeOK
    <3>2. Ann(k, x) \in Msg
      BY <1>2, <3>1, SeqHas, Zenon DEF HeardNext
    <3> QED
      BY <3>2, Zenon DEF Ann, Msg
  <2>2. CASE Heard(c, n, k, x)
    BY <2>2, Zenon DEF Said
  <2>3. CASE x = infos'[Remote(c, n)][k]
    BY <1>1, <2>3, RemoteEnd, Zenon
  <2> QED
    BY <1>2, <2>1, <2>2, <2>3, Zenon DEF Says
<1> QED
  BY <1>1, <1>2, Zenon DEF SaidNext

\* There is still one info for each node and seq.
LEMMA KeepsOneInfo ==
    ASSUME IInv, IInv', OneInfo, Learns, Says PROVE OneInfo'
<1> SUFFICES ASSUME NEW k \in Key, NEW x \in AnyInfo, NEW y \in AnyInfo,
                    SaidNext(k, x), SaidNext(k, y), x.seq = y.seq
             PROVE  x = y
  BY Zenon DEF OneInfo, Said, SaidNext, Heard, HeardNext, AnyInfo
<1>1. /\ Said(k, x) \/ Signed(k, x)
      /\ Said(k, y) \/ Signed(k, y)
  BY SaidBefore, Zenon
<1>2. /\ Said(k, x) => x.seq <= infos[k][k].seq
      /\ Said(k, y) => y.seq <= infos[k][k].seq
  BY SaidSeq, Zenon
<1>3. x.seq \in Nat /\ y.seq \in Nat /\ infos[k][k].seq \in Nat
  BY InfoFields, TableInfo, Zenon
<1>4. CASE Said(k, x) /\ Said(k, y)
  BY <1>4, Zenon DEF OneInfo
<1>5. CASE ~(Said(k, x) /\ Said(k, y))
  <2>1. x = infos'[k][k] /\ y = infos'[k][k]
    BY <1>1, <1>2, <1>3, <1>5 DEF Signed
  <2> QED
    BY <2>1, Zenon
<1> QED
  BY <1>4, <1>5, Zenon

\* What was sent still arrives.
LEMMA KeepsTold ==
    ASSUME IInv, IInv', Told, Grows, Delivers, Tells PROVE Told'
<1> SUFFICES ASSUME NEW n \in Key, NEW m \in Key, Whole(n, m)', NEW k \in sent'[n][m]
             PROVE  ArrivesNext(n, m, k, infos'[n][k])
  BY Zenon DEF Told, Arrives, ArrivesNext, Heard, HeardNext
<1> DEFINE old == infos[n][k]
<1>1. CASE StillSent(n, m, k)
  <2>1. k \in Key
    BY DEF IInv, TypeOK
  <2>2. Arrives(n, m, k, old) /\ infos'[n][k] = old
    BY <1>1, Zenon DEF StillSent, Told
  <2>3. old \in AnyInfo /\ infos[m][k] \in AnyInfo /\ infos'[m][k] \in AnyInfo
    BY <2>1, TableInfo, TableInfoNext, Zenon
  <2> HIDE DEF old
  <2>4. CASE AsGood(infos[m][k], old)
    <3>1. AsGood(infos'[m][k], infos[m][k])
      BY <2>1, Zenon DEF Grows
    <3>2. AsGood(infos'[m][k], old)
      BY <2>3, <2>4, <3>1, AsGoodTransitive, Zenon
    <3> QED
      BY <2>2, <3>2, ZenonT(40) DEF ArrivesNext
  <2>5. ASSUME NEW c \in Conn, NEW x \in Info, Ends[c] = {n, m}, Heard(c, m, k, x), AsGood(x, old)
        PROVE  ArrivesNext(n, m, k, old)
    <3>1. HeardNext(c, m, k, x) \/ AsGood(infos'[m][k], x)
      BY <2>1, <2>5, Zenon DEF Delivers, Keeps
    <3>2. CASE HeardNext(c, m, k, x)
      BY <2>5, <3>2, Zenon DEF ArrivesNext
    <3>3. CASE AsGood(infos'[m][k], x)
      <4>1. AsGood(infos'[m][k], old)
        BY <2>3, <2>5, <3>3, AsGoodTransitive, Zenon DEF AnyInfo
      <4> QED
        BY <4>1, Zenon DEF ArrivesNext
    <3> QED
      BY <3>1, <3>2, <3>3, Zenon
  <2> QED
    BY <2>2, <2>4, <2>5, Zenon DEF Arrives
<1> QED
  BY <1>1, Zenon DEF Tells

-----------------------------------------------------------------------------
(* What is in the streams after a message was written or read. *)

\* Node n wrote x to connection d, whose other end is a.
Wrote(n, out, d, a, x) == n \in Ends[d] /\ a = Remote(d, n) /\ Has(out[d], x)

\* What is written to an open connection comes after what is in the stream.
LEMMA SendingOpen ==
    ASSUME NEW n \in Key, NEW ch \in [Conn -> [Key -> Seq(Msg)]],
           NEW out \in [Conn -> Seq(Msg)], NEW d \in Conn, NEW a \in Key, NEW x,
           n \in Ends[d], link[d] = "open", a = Remote(d, n)
    PROVE  Has(Sending(n, ch, out)[d][a], x) <=> Has(ch[d][a], x) \/ Has(out[d], x)
<1>1. Sending(n, ch, out)[d][a] = ch[d][a] \o out[d]
  BY Zenon DEF Sending
<1>2. ch[d][a] \in Seq(Msg) /\ out[d] \in Seq(Msg)
  BY Zenon
<1>3. Has(ch[d][a] \o out[d], x) <=> Has(ch[d][a], x) \/ Has(out[d], x)
  BY <1>2, ConcatHas, Zenon
<1> QED
  BY <1>1, <1>3, Zenon

\* Other streams are left alone.
LEMMA SendingElse ==
    ASSUME NEW n \in Key, NEW ch \in [Conn -> [Key -> Seq(Msg)]],
           NEW out \in [Conn -> Seq(Msg)], NEW d \in Conn, NEW a \in Key,
           ~(n \in Ends[d] /\ link[d] = "open" /\ a = Remote(d, n))
    PROVE  Sending(n, ch, out)[d][a] = ch[d][a]
  BY Zenon DEF Sending

\* What is in a stream was there, or has been written.
LEMMA SendingGets ==
    ASSUME NEW n \in Key, NEW ch \in [Conn -> [Key -> Seq(Msg)]],
           NEW out \in [Conn -> Seq(Msg)], NEW d \in Conn, NEW a \in Key, NEW x,
           Has(Sending(n, ch, out)[d][a], x)
    PROVE  Has(ch[d][a], x) \/ Wrote(n, out, d, a, x)
<1>1. CASE n \in Ends[d] /\ link[d] = "open" /\ a = Remote(d, n)
  BY <1>1, SendingOpen, Zenon DEF Wrote
<1>2. CASE ~(n \in Ends[d] /\ link[d] = "open" /\ a = Remote(d, n))
  BY <1>2, SendingElse, Zenon
<1> QED
  BY <1>1, <1>2, Zenon

\* What is in a stream stays there.
LEMMA SendingKeeps ==
    ASSUME NEW n \in Key, NEW ch \in [Conn -> [Key -> Seq(Msg)]],
           NEW out \in [Conn -> Seq(Msg)], NEW d \in Conn, NEW a \in Key, NEW x,
           Has(ch[d][a], x)
    PROVE  Has(Sending(n, ch, out)[d][a], x)
<1>1. CASE n \in Ends[d] /\ link[d] = "open" /\ a = Remote(d, n)
  BY <1>1, SendingOpen, Zenon
<1>2. CASE ~(n \in Ends[d] /\ link[d] = "open" /\ a = Remote(d, n))
  BY <1>2, SendingElse, Zenon
<1> QED
  BY <1>1, <1>2, Zenon

\* What is written to an open connection is in its stream.
LEMMA SendingPuts ==
    ASSUME NEW n \in Key, NEW ch \in [Conn -> [Key -> Seq(Msg)]],
           NEW out \in [Conn -> Seq(Msg)], NEW d \in Conn, NEW x,
           n \in Ends[d], link[d] = "open", Has(out[d], x)
    PROVE  Has(Sending(n, ch, out)[d][Remote(d, n)], x)
<1>1. Remote(d, n) \in Key
  BY RemoteEnd, Zenon
<1> QED
  BY <1>1, SendingOpen, Zenon

\* Reading takes the first message.
LEMMA ReceivedAt ==
    ASSUME chan \in [Conn -> [Key -> Seq(Msg)]], NEW c \in Conn, NEW n \in Key,
           chan[c][n] # <<>>, NEW x
    PROVE  Has(chan[c][n], x) <=> x = Head(chan[c][n]) \/ Has(Received(c, n)[c][n], x)
<1>1. Received(c, n)[c][n] = Tail(chan[c][n])
  BY Zenon DEF Received
<1>2. chan[c][n] \in Seq(Msg)
  BY Zenon
<1>3. Has(chan[c][n], x) <=> x = Head(chan[c][n]) \/ Has(Tail(chan[c][n]), x)
  BY <1>2, HeadTailHas, Zenon
<1> QED
  BY <1>1, <1>3, Zenon

\* Other streams are left alone.
LEMMA ReceivedElse ==
    ASSUME chan \in [Conn -> [Key -> Seq(Msg)]], NEW c \in Conn, NEW n \in Key,
           NEW d \in Conn, NEW a \in Key, ~(d = c /\ a = n)
    PROVE  Received(c, n)[d][a] = chan[d][a]
  BY Zenon DEF Received

\* Reading adds nothing.
LEMMA ReceivedGets ==
    ASSUME chan \in [Conn -> [Key -> Seq(Msg)]], NEW c \in Conn, NEW n \in Key,
           chan[c][n] # <<>>, NEW d \in Conn, NEW a \in Key, NEW x,
           Has(Received(c, n)[d][a], x)
    PROVE  Has(chan[d][a], x)
<1>1. CASE d = c /\ a = n
  BY <1>1, ReceivedAt, Zenon
<1>2. CASE ~(d = c /\ a = n)
  BY <1>2, ReceivedElse, Zenon
<1> QED
  BY <1>1, <1>2, Zenon

\* Streams to which nothing is written say nothing.
LEMMA SilentHas ==
    ASSUME NEW out, \A d \in Conn : out[d] = <<>>
    PROVE  \A d \in Conn, k \in Key : \A x : ~Has(out[d], Ann(k, x))
  BY EmptyHas, Zenon

\* Announcements are told apart by what they say.
LEMMA AnnSays ==
    ASSUME NEW k, NEW x, NEW j, NEW y, Ann(k, x) = Ann(j, y) PROVE k = j /\ x = y
<1>1. Ann(k, x).key = k /\ Ann(k, x).info = x /\ Ann(j, y).key = j /\ Ann(j, y).info = y
  BY Zenon DEF Ann
<1> QED
  BY <1>1, Zenon

\* Requests and responses are not announcements.
LEMMA OthersAreNotAnn ==
    ASSUME NEW k, NEW x, NEW r PROVE Ann(k, x) # Req(r) /\ Ann(k, x) # Res(r)
<1>1. Ann(k, x).type = "ann" /\ Req(r).type = "req" /\ Res(r).type = "res"
  BY Zenon DEF Ann, Req, Res
<1> QED
  BY <1>1, Zenon

\* The announcements of some keys say what the table has, about each of them.
LEMMA AnnouncesHas ==
    ASSUME NEW tbl, NEW K, NEW keys \in Seq(K), NEW k
    PROVE  /\ \A x : Has(Announces(tbl, keys), Ann(k, x)) => x = tbl[k]
           /\ k \in Range(keys) => Has(Announces(tbl, keys), Ann(k, tbl[k]))
<1>1. DOMAIN keys = 1..Len(keys)
  BY SeqItems, Zenon
<1>2. /\ DOMAIN Announces(tbl, keys) = 1..Len(keys)
      /\ \A i \in 1..Len(keys) : Announces(tbl, keys)[i] = Ann(keys[i], tbl[keys[i]])
  BY Zenon DEF Announces
<1>3. ASSUME NEW x, Has(Announces(tbl, keys), Ann(k, x)) PROVE x = tbl[k]
  <2>1. PICK i \in 1..Len(keys) : Ann(keys[i], tbl[keys[i]]) = Ann(k, x)
    BY <1>2, <1>3, Zenon DEF Has
  <2>2. keys[i] = k /\ tbl[keys[i]] = x
    BY <2>1, AnnSays, SMTT(30)
  <2> QED
    BY <2>2, Zenon
<1>4. ASSUME k \in Range(keys) PROVE Has(Announces(tbl, keys), Ann(k, tbl[k]))
  <2>1. PICK i \in 1..Len(keys) : keys[i] = k
    BY <1>1, <1>4, Zenon DEF Range
  <2> QED
    BY <1>2, <2>1, Zenon DEF Has
<1> QED
  BY <1>3, <1>4, Zenon

\* Announcements say nothing else.
LEMMA AnnouncesOnly ==
    ASSUME NEW tbl, NEW keys \in Seq(Known(tbl)), NEW k, NEW x,
           Has(Announces(tbl, keys), Ann(k, x))
    PROVE  x = tbl[k]
  BY AnnouncesHas, Zenon

-----------------------------------------------------------------------------
(* What each step does, in these terms. *)

Step == Grows /\ Learns /\ Says /\ Delivers /\ Tells

\* A step that keeps the tables.
LEMMA SameTables == ASSUME infos' = infos PROVE Grows /\ Learns
  BY Zenon DEF Grows, Learns, AsGood

\* A step that keeps the connections.
LEMMA SameWhole ==
    ASSUME link' = link, attached' = attached, NEW n, NEW m PROVE Whole(n, m)' <=> Whole(n, m)
  BY Zenon DEF Whole

\* A step that sends nothing and learns nothing.
LEMMA SameSent ==
    ASSUME infos' = infos, sent' = sent, link' = link, attached' = attached PROVE Tells
  BY SameWhole, Zenon DEF Tells, StillSent

\* A step of node n that writes what its table says, after it has read from the
\* streams what is no longer in ch.
LEMMA WritesSays ==
    ASSUME NEW n \in Key, NEW ch \in [Conn -> [Key -> Seq(Msg)]],
           NEW out \in [Conn -> Seq(Msg)], chan' = Sending(n, ch, out),
           \A d \in Conn, a \in Key : \A x : Has(ch[d][a], x) => Has(chan[d][a], x),
           \A d \in Conn, k \in Key : \A x : Has(out[d], Ann(k, x)) => x = infos'[n][k]
    PROVE  Says
<1> SUFFICES ASSUME NEW d \in Conn, NEW a \in Key, NEW k \in Key, NEW x \in Info,
                    HeardNext(d, a, k, x)
             PROVE  Heard(d, a, k, x) \/ x = infos'[Remote(d, a)][k]
  BY Zenon DEF Says
<1>0. Has(Sending(n, ch, out)[d][a], Ann(k, x))
  BY Zenon DEF HeardNext
<1>1. Has(ch[d][a], Ann(k, x)) \/ Wrote(n, out, d, a, Ann(k, x))
  BY <1>0, SendingGets, Zenon
<1>2. CASE Has(ch[d][a], Ann(k, x))
  BY <1>2, Zenon DEF Heard
<1>3. CASE Wrote(n, out, d, a, Ann(k, x))
  <2>1. Remote(d, a) = n
    BY <1>3, RemoteRemote, Zenon DEF Wrote
  <2> QED
    BY <1>3, <2>1, Zenon DEF Wrote
<1> QED
  BY <1>1, <1>2, <1>3, Zenon

\* A step of node n that reads a message from c, if its table is then as good as
\* what the message says.
LEMMA ReadsDelivers ==
    ASSUME chan \in [Conn -> [Key -> Seq(Msg)]], NEW c \in Conn, NEW n \in Key,
           chan[c][n] # <<>>, NEW out \in [Conn -> Seq(Msg)],
           Received(c, n) \in [Conn -> [Key -> Seq(Msg)]],
           chan' = Sending(n, Received(c, n), out),
           \A k \in Key, x \in Info : Head(chan[c][n]) = Ann(k, x) => AsGood(infos'[n][k], x)
    PROVE  Delivers
<1> SUFFICES ASSUME NEW d \in Conn, NEW a \in Key, NEW k \in Key, NEW x \in Info,
                    Has(chan[d][a], Ann(k, x))
             PROVE  Has(chan'[d][a], Ann(k, x)) \/ AsGood(infos'[a][k], x)
  BY Zenon DEF Delivers, Keeps, Heard, HeardNext
<1>1. CASE Has(Received(c, n)[d][a], Ann(k, x))
  BY <1>1, SendingKeeps, Zenon
<1>2. CASE ~Has(Received(c, n)[d][a], Ann(k, x))
  <2>1. d = c /\ a = n
    BY <1>2, ReceivedElse, Zenon
  <2>2. Ann(k, x) = Head(chan[c][n])
    BY <1>2, <2>1, ReceivedAt, Zenon
  <2> QED
    BY <2>1, <2>2, Zenon
<1> QED
  BY <1>1, <1>2, Zenon

\* A step that only writes.
LEMMA WritesDelivers ==
    ASSUME chan \in [Conn -> [Key -> Seq(Msg)]], NEW n \in Key, NEW out \in [Conn -> Seq(Msg)],
           chan' = Sending(n, chan, out)
    PROVE  Delivers
<1> SUFFICES ASSUME NEW d \in Conn, NEW a \in Key, NEW k \in Key, NEW x \in Info,
                    Has(chan[d][a], Ann(k, x))
             PROVE  Has(chan'[d][a], Ann(k, x))
  BY Zenon DEF Delivers, Keeps, Heard, HeardNext
<1> QED
  BY SendingKeeps, Zenon

\* Writing nothing at all.
LEMMA WritesNothing ==
    ASSUME NEW n \in Key, NEW ch \in [Conn -> [Key -> Seq(Msg)]]
    PROVE  Sending(n, ch, [d \in Conn |-> <<>>]) = ch
<1>1. ASSUME NEW c \in Conn
      PROVE  [ch[c] EXCEPT ![Remote(c, n)] = @ \o <<>>] = ch[c]
  <2>1. ch[c] \in [Key -> Seq(Msg)] /\ Remote(c, n) \in Key
    BY RemoteEnd, Zenon
  <2>2. ch[c][Remote(c, n)] \o <<>> = ch[c][Remote(c, n)]
    BY <2>1
  <2> QED
    BY <2>1, <2>2, Zenon
<1>2. Sending(n, ch, [d \in Conn |-> <<>>]) = [c \in Conn |-> ch[c]]
  BY <1>1, Zenon DEF Sending
<1> QED
  BY <1>2, Zenon

\* The streams of a state that satisfies the invariant hold messages.
LEMMA StreamsType == ASSUME IInv PROVE chan \in [Conn -> [Key -> Seq(Msg)]]
  BY Zenon DEF IInv, TypeOK

\* The type of sent, by its entries.
LEMMA SentType ==
    ASSUME IInv, NEW n \in Key, NEW m \in Key PROVE sent[n][m] \in SUBSET Key
<1>1. sent \in [Key -> [Key -> SUBSET Key]]
  BY Zenon DEF IInv, TypeOK
<1> QED
  BY <1>1

\* Countersigning a request.
LEMMA HandleRequestStep ==
    ASSUME IInv, NEW c \in Conn, NEW n \in Key, HandleRequest(c, n) PROVE Step
<1> DEFINE req == Head(chan[c][n]).req
           res == [seq |-> req.seq, nonce |-> req.nonce, port |-> Port[n][Remote(c, n)]]
           out == [d \in Conn |-> IF d = c THEN <<Res(res)>> ELSE <<>>]
<1>1. chan[c][n] # <<>> /\ Head(chan[c][n]).type = "req"
  BY Zenon DEF HandleRequest, Incoming
<1>2. Received(c, n) \in [Conn -> [Key -> Seq(Msg)]] /\ Head(chan[c][n]) \in Msg
  BY <1>1, StreamsType, ReceivedType, Zenon
<1>3. req \in SigReq
  BY <1>1, <1>2, Zenon DEF Msg
<1>4. Port[n][Remote(c, n)] \in Nat
  BY RemoteEnd, RouterAssumption, SMTT(30) DEF Pos
<1>5. Res(res) \in Msg
  BY <1>3, <1>4, Zenon DEF Res, Msg, SigReq, SigRes
<1> HIDE DEF res, req
<1>6. out \in [Conn -> Seq(Msg)]
  BY <1>5
<1>7. \A d \in Conn : out[d] = <<Res(res)>> \/ out[d] = <<>>
  BY Zenon
<1>8. \A d \in Conn, k \in Key : \A x : ~Has(out[d], Ann(k, x))
  <2> SUFFICES ASSUME NEW d \in Conn, NEW k \in Key, NEW x, Has(out[d], Ann(k, x)) PROVE FALSE
    BY Zenon
  <2>1. Res(res) = Ann(k, x)
    BY <1>7, OneOrNone, Zenon
  <2> QED
    BY <2>1, OthersAreNotAnn, Zenon
<1>9. chan' = Sending(n, Received(c, n), out) /\ UNCHANGED <<infos, sent, connVars>>
  BY Zenon DEF HandleRequest, res, req
<1> HIDE DEF out
<1>10. link' = link /\ attached' = attached /\ infos' = infos /\ sent' = sent
  BY <1>9, Zenon DEF connVars
<1>11. \A d \in Conn, a \in Key : \A x : Has(Received(c, n)[d][a], x) => Has(chan[d][a], x)
  BY <1>1, ReceivedGets, StreamsType, Zenon
<1>12. Says
  BY <1>2, <1>6, <1>8, <1>9, <1>11, WritesSays, Zenon
<1>13. \A k \in Key, x \in Info : Head(chan[c][n]) # Ann(k, x)
  BY <1>1 DEF Ann
<1>14. Delivers
  BY <1>1, <1>2, <1>6, <1>9, <1>13, StreamsType, ReadsDelivers, Zenon
<1> QED
  BY <1>10, <1>12, <1>14, SameTables, SameSent, Zenon DEF Step

\* Keeping a response.
LEMMA HandleResponseStep ==
    ASSUME IInv, NEW c \in Conn, NEW n \in Key, HandleResponse(c, n) PROVE Step
<1> DEFINE out == [d \in Conn |-> <<>>]
<1>1. chan[c][n] # <<>> /\ Head(chan[c][n]).type = "res"
  BY Zenon DEF HandleResponse, Incoming
<1>2. Received(c, n) \in [Conn -> [Key -> Seq(Msg)]]
  BY <1>1, StreamsType, ReceivedType, Zenon
<1>3. /\ chan' = Received(c, n)
      /\ link' = link /\ attached' = attached /\ infos' = infos /\ sent' = sent
  BY Zenon DEF HandleResponse, connVars
<1>4. out \in [Conn -> Seq(Msg)] /\ \A d \in Conn : out[d] = <<>>
  OBVIOUS
<1>5. chan' = Sending(n, Received(c, n), out)
  BY <1>2, <1>3, WritesNothing, Zenon
<1> HIDE DEF out
<1>6. \A d \in Conn, k \in Key : \A x : ~Has(out[d], Ann(k, x))
  BY <1>4, SilentHas, Zenon
<1>7. \A d \in Conn, a \in Key : \A x : Has(Received(c, n)[d][a], x) => Has(chan[d][a], x)
  BY <1>1, ReceivedGets, StreamsType, Zenon
<1>8. Says
  BY <1>2, <1>4, <1>5, <1>6, <1>7, WritesSays, Zenon
<1>9. \A k \in Key, x \in Info : Head(chan[c][n]) # Ann(k, x)
  BY <1>1 DEF Ann
<1>10. Delivers
  BY <1>1, <1>2, <1>4, <1>5, <1>9, StreamsType, ReadsDelivers, Zenon
<1> QED
  BY <1>3, <1>8, <1>10, SameTables, SameSent, Zenon DEF Step

\* The first message of a stream, when it is an announcement.
LEMMA FirstAnn ==
    ASSUME IInv, NEW c \in Conn, NEW n \in Key, chan[c][n] # <<>>,
           Head(chan[c][n]).type = "ann"
    PROVE  LET ann == Head(chan[c][n])
           IN  /\ ann.key \in Key /\ ann.info \in Info
               /\ ann = Ann(ann.key, ann.info)
               /\ Heard(c, n, ann.key, ann.info)
<1> DEFINE ann == Head(chan[c][n])
<1>1. chan[c][n] \in Seq(Msg)
  BY StreamsType, Zenon
<1>2. ann \in Msg
  BY <1>1, HeadTailType, Zenon
<1>3. Has(chan[c][n], ann)
  BY <1>1, HeadTailHas, Zenon
<1> HIDE DEF ann
<1>4. ann.key \in Key /\ ann.info \in Info /\ ann = Ann(ann.key, ann.info)
  BY <1>2, Zenon DEF Msg, Ann, ann
<1> QED
  BY <1>3, <1>4, Zenon DEF Heard, ann

\* Storing an announced info: what its sender has is as good.
LEMMA AcceptAnnounceStep ==
    ASSUME IInv, IInv', Ended, Sources, NEW c \in Conn, NEW n \in Key, AcceptAnnounce(c, n)
    PROVE  Step
<1> DEFINE ann == Head(chan[c][n])
           k == ann.key
           info == ann.info
           m == Remote(c, n)
           out == [d \in Conn |-> <<>>]
<1>1. /\ chan[c][n] # <<>> /\ ann.type = "ann" /\ Accepts(infos[n], k, info)
      /\ infos' = [infos EXCEPT ![n][k] = info]
      /\ sent' = [sent EXCEPT ![n] = [o \in Key |-> IF o = m THEN sent[n][o] \cup {k}
                                                             ELSE sent[n][o] \ {k}]]
      /\ chan' = Received(c, n)
      /\ link' = link /\ attached' = attached
  BY Zenon DEF AcceptAnnounce, Incoming, connVars
<1>2. k \in Key /\ info \in Info /\ ann = Ann(k, info) /\ Heard(c, n, k, info)
  BY <1>1, FirstAnn, Zenon
<1>3. m \in Key /\ m # n
  BY RemoteEnd, Zenon
<1>4. Received(c, n) \in [Conn -> [Key -> Seq(Msg)]]
  BY <1>1, StreamsType, ReceivedType, Zenon
<1>5. out \in [Conn -> Seq(Msg)] /\ \A d \in Conn : out[d] = <<>>
  OBVIOUS
<1>6. chan' = Sending(n, Received(c, n), out)
  BY <1>1, <1>4, WritesNothing, Zenon
<1>7. \A d \in Conn, a \in Key : \A x : Has(Received(c, n)[d][a], x) => Has(chan[d][a], x)
  BY <1>1, ReceivedGets, StreamsType, Zenon
<1> HIDE DEF out
<1>8. Says
  <2>1. \A d \in Conn, j \in Key : \A x : ~Has(out[d], Ann(j, x))
    BY <1>5, SilentHas, Zenon
  <2> QED
    BY <1>4, <1>5, <1>6, <1>7, <2>1, WritesSays, Zenon
<1>9. infos'[n][k] = info /\ \A a, j \in Key : ~(a = n /\ j = k) => infos'[a][j] = infos[a][j]
  <2> HIDE DEF k, info, ann, m
  <2>1. infos \in [Key -> [Key -> Info \cup {NoInfo}]]
    BY Zenon DEF IInv, TypeOK, Table
  <2> QED
    BY <1>1, <1>2, <2>1, ZenonT(40)
<1> HIDE DEF m
<1>10. Delivers
  <2>1. \A j \in Key, x \in Info : ann = Ann(j, x) => AsGood(infos'[n][j], x)
    <3> SUFFICES ASSUME NEW j \in Key, NEW x \in Info, ann = Ann(j, x)
                 PROVE  AsGood(infos'[n][j], x)
      BY ZenonT(40)
    <3>1. j = k /\ x = info
      BY <1>2, AnnSays, SMTT(30)
    <3> HIDE DEF k, info
    <3> QED
      BY <1>9, <3>1, ZenonT(40) DEF AsGood
  <2> QED
    BY <1>1, <1>4, <1>5, <1>6, <2>1, StreamsType, ReadsDelivers, Zenon
<1> HIDE DEF k, info, ann, m
<1>11. AsGood(info, infos[n][k])
  <2>1. CASE k \notin Known(infos[n])
    <3>1. infos[n][k] = NoInfo
      BY <1>2, <2>1, Zenon DEF Known
    <3>2. info.seq \in Nat /\ info.seq > 0
      BY <1>2 DEF Info, Pos
    <3> QED
      BY <3>1, <3>2 DEF AsGood, Better, NoInfo
  <2> QED
    BY <1>1, <2>1, Zenon DEF Accepts, AsGood
<1>12. Grows
  BY <1>9, <1>11, Zenon DEF Grows, AsGood
<1>13. Learns
  BY <1>2, <1>9, Zenon DEF Learns
<1>14. Tells
  <2> SUFFICES ASSUME NEW a \in Key, NEW b \in Key, Whole(a, b)', NEW j \in sent'[a][b]
               PROVE  StillSent(a, b, j) \/ ArrivesNext(a, b, j, infos'[a][j])
    BY Zenon DEF Tells
  <2>1. Whole(a, b)
    BY <1>1, SameWhole, Zenon
  <2>2. CASE a # n
    <3>1. sent'[a] = sent[a]
      BY <1>1, <2>2, Zenon DEF IInv, TypeOK
    <3>2. j \in sent[a][b] /\ j \in Key
      BY <3>1, SentType, Zenon
    <3> QED
      BY <1>9, <2>1, <2>2, <3>2, Zenon DEF StillSent
  <2>3. CASE a = n /\ j # k
    <3>1. j \in sent[n][b]
      BY <1>1, <2>3, ZenonT(40) DEF IInv, TypeOK
    <3>2. j \in Key
      BY <3>1, SentType, Zenon
    <3> QED
      BY <1>9, <2>1, <2>3, <3>1, <3>2, Zenon DEF StillSent
  <2>4. CASE a = n /\ j = k
    <3>1. b = m
      BY <1>1, <2>4, ZenonT(40) DEF IInv, TypeOK
    <3>2. AsGood(infos[m][k], info)
      BY <1>2, Zenon DEF Sources, m
    <3>3. infos'[m][k] = infos[m][k]
      BY <1>2, <1>3, <1>9, Zenon
    <3> QED
      BY <1>9, <2>4, <3>1, <3>2, <3>3, Zenon DEF ArrivesNext
  <2> QED
    BY <2>2, <2>3, <2>4, Zenon
<1> QED
  BY <1>8, <1>10, <1>12, <1>13, <1>14, Zenon DEF Step

\* What n tells m over an open connection arrives.
LEMMA PutArrives ==
    ASSUME NEW n \in Key, NEW ch \in [Conn -> [Key -> Seq(Msg)]], NEW out \in [Conn -> Seq(Msg)],
           chan' = Sending(n, ch, out), NEW c \in Conn, n \in Ends[c], link[c] = "open",
           NEW k \in Key, NEW x \in Info, Has(out[c], Ann(k, x))
    PROVE  ArrivesNext(n, Remote(c, n), k, x)
<1>1. HeardNext(c, Remote(c, n), k, x)
  BY SendingPuts, Zenon DEF HeardNext
<1>2. Ends[c] = {n, Remote(c, n)}
  BY RemoteRemote, Zenon
<1>3. AsGood(x, x)
  BY Zenon DEF AsGood
<1> QED
  BY <1>1, <1>2, <1>3, Zenon DEF ArrivesNext

\* A node's connection that was made is open when all are whole.
LEMMA WholeOpen ==
    ASSUME Ended, NEW c \in Conn, NEW n \in attached[c], Whole(n, Remote(c, n))
    PROVE  n \in Ends[c] /\ link[c] = "open"
<1>1. n \in Ends[c] /\ link[c] # "down"
  BY Zenon DEF Ended
<1>2. Ends[c] = {n, Remote(c, n)}
  BY <1>1, RemoteRemote, Zenon
<1> QED
  BY <1>1, <1>2, Zenon DEF Whole

\* An info that _update refuses is no better than what the table has, and not
\* another one that it cannot tell apart.
LEMMA RefusedInfo ==
    ASSUME IInv, OneInfo, NEW c \in Conn, NEW n \in Key, NEW k \in Key, NEW x \in Info,
           Heard(c, n, k, x), ~Accepts(infos[n], k, x)
    PROVE  infos[n][k] \in Info /\ AsGood(infos[n][k], x)
<1>1. k \in Known(infos[n]) /\ ~Better(x, infos[n][k])
  BY ZenonT(40) DEF Accepts
<1>2. infos[n][k] \in Info
  BY <1>1, KnownInfo, Zenon DEF IInv, TypeOK
<1>3. infos[n][k] \in AnyInfo /\ x \in AnyInfo
  BY <1>2, Zenon DEF AnyInfo
<1>4. Said(k, x) /\ Said(k, infos[n][k])
  BY Zenon DEF Said
<1>5. CASE Better(infos[n][k], x)
  BY <1>2, <1>5, Zenon DEF AsGood
<1>6. CASE infos[n][k].seq = x.seq
  BY <1>2, <1>3, <1>4, <1>6, Zenon DEF OneInfo, AsGood
<1> QED
  BY <1>1, <1>3, <1>5, <1>6, BetterTotal, ZenonT(40)

\* Refusing an announced info: the sender has what it sent, or gets the answer.
LEMMA RefuseAnnounceStep ==
    ASSUME IInv, IInv', Ended, Sources, OneInfo, NEW c \in Conn, NEW n \in Key,
           RefuseAnnounce(c, n)
    PROVE  Step
<1> DEFINE ann == Head(chan[c][n])
           k == ann.key
           info == ann.info
           m == Remote(c, n)
           reply == IF info = infos[n][k] THEN <<>> ELSE <<Ann(k, infos[n][k])>>
           out == [d \in Conn |-> IF d = c THEN reply ELSE <<>>]
<1>1. /\ n \in attached[c] /\ chan[c][n] # <<>> /\ ann.type = "ann"
      /\ ~Accepts(infos[n], k, info)
      /\ sent' = [sent EXCEPT ![n][m] = @ \cup {k}]
      /\ chan' = Sending(n, Received(c, n), out)
      /\ infos' = infos /\ link' = link /\ attached' = attached
  BY Zenon DEF RefuseAnnounce, Incoming, connVars
<1>2. k \in Key /\ info \in Info /\ ann = Ann(k, info) /\ Heard(c, n, k, info)
  BY <1>1, FirstAnn, Zenon
<1>3. m \in Key /\ m # n
  BY RemoteEnd, Zenon
<1>4. Received(c, n) \in [Conn -> [Key -> Seq(Msg)]]
  BY <1>1, StreamsType, ReceivedType, Zenon
<1>5. infos[n][k] \in Info /\ AsGood(infos[n][k], info)
  BY <1>1, <1>2, RefusedInfo, Zenon
<1>6. \A d \in Conn, a \in Key : \A x : Has(Received(c, n)[d][a], x) => Has(chan[d][a], x)
  BY <1>1, ReceivedGets, StreamsType, Zenon
<1> HIDE DEF k, info, m
<1>7. Ann(k, infos[n][k]) \in Msg
  BY <1>2, <1>5, Zenon DEF Ann, Msg
<1>8. /\ \A d \in Conn : out[d] = <<Ann(k, infos[n][k])>> \/ out[d] = <<>>
      /\ info # infos[n][k] => out[c] = <<Ann(k, infos[n][k])>>
  BY Zenon
<1>9. out \in [Conn -> Seq(Msg)]
  BY <1>7
<1> HIDE DEF out
<1>10. Says
  <2>1. ASSUME NEW d \in Conn, NEW j \in Key, NEW x, Has(out[d], Ann(j, x))
        PROVE  x = infos'[n][j]
    <3>1. Ann(k, infos[n][k]) = Ann(j, x)
      BY <1>8, <2>1, OneOrNone, Zenon
    <3>2. k = j /\ infos[n][k] = x
      BY <3>1, AnnSays, SMTT(30)
    <3> QED
      BY <1>1, <3>2, Zenon
  <2> QED
    BY <1>1, <1>4, <1>6, <1>9, <2>1, WritesSays, Zenon
<1>11. Delivers
  <2>1. \A j \in Key, x \in Info : ann = Ann(j, x) => AsGood(infos'[n][j], x)
    <3> SUFFICES ASSUME NEW j \in Key, NEW x \in Info, ann = Ann(j, x)
                 PROVE  AsGood(infos'[n][j], x)
      BY Zenon
    <3>1. j = k /\ x = info
      BY <1>2, AnnSays, SMTT(30)
    <3> QED
      BY <1>1, <1>5, <3>1, Zenon
  <2> QED
    BY <1>1, <1>4, <1>9, <2>1, StreamsType, ReadsDelivers, Zenon
<1> HIDE DEF ann
<1>12. Tells
  <2> SUFFICES ASSUME NEW a \in Key, NEW b \in Key, Whole(a, b)', NEW j \in sent'[a][b]
               PROVE  StillSent(a, b, j) \/ ArrivesNext(a, b, j, infos'[a][j])
    BY Zenon DEF Tells
  <2>1. Whole(a, b)
    BY <1>1, SameWhole, Zenon
  <2>2. CASE j \in sent[a][b]
    BY <1>1, <2>1, <2>2, Zenon DEF StillSent
  <2>3. CASE j \notin sent[a][b]
    <3>1. a = n /\ b = m /\ j = k
      BY <1>1, <1>3, <2>3 DEF IInv, TypeOK
    <3>2. CASE info = infos[n][k]
      <4>1. AsGood(infos[m][k], info)
        BY <1>2, Zenon DEF Sources, m
      <4> QED
        BY <1>1, <3>1, <3>2, <4>1, Zenon DEF ArrivesNext
    <3>3. CASE info # infos[n][k]
      <4>1. n \in Ends[c] /\ link[c] = "open"
        BY <1>1, <2>1, <3>1, WholeOpen, Zenon DEF m
      <4>2. Has(out[c], Ann(k, infos[n][k]))
        BY <1>8, <3>3, SingleHas, Zenon
      <4>3. ArrivesNext(n, m, k, infos[n][k])
        BY <1>1, <1>2, <1>4, <1>5, <1>9, <4>1, <4>2, PutArrives, Zenon DEF m
      <4> QED
        BY <1>1, <3>1, <4>3, Zenon
    <3> QED
      BY <3>2, <3>3, ZenonT(40)
  <2> QED
    BY <2>2, <2>3, Zenon
<1> QED
  BY <1>1, <1>10, <1>11, <1>12, SameTables, Zenon DEF Step

\* A new connection: what the node has sent before is repeated over it.
LEMMA AddPeerStep ==
    ASSUME IInv, IInv', Ended, OrdersFit, OrdersMeet, NEW c \in Conn, NEW n \in Key,
           AddPeer(c, n)
    PROVE  Step
<1> DEFINE m == Remote(c, n)
<1>1. PICK nonce \in Nonce, repeat \in Orders(sent[n][m]) :
         LET req == IF requests[n][m] = NoReq THEN NewReq(n, nonce) ELSE requests[n][m]
             ask == responses[n][m] = NoRes
         IN  /\ requests' = IF ask THEN [requests EXCEPT ![n][m] = req] ELSE requests
             /\ chan' = Sending(n, chan,
                  [d \in Conn |->
                     IF d = c THEN Announces(infos[n], repeat)
                                     \o (IF ask THEN <<Req(req)>> ELSE <<>>)
                              ELSE <<>>])
  BY Zenon DEF AddPeer
<1> DEFINE req == IF requests[n][m] = NoReq THEN NewReq(n, nonce) ELSE requests[n][m]
           ask == responses[n][m] = NoRes
           asking == IF ask THEN <<Req(req)>> ELSE <<>>
           says == Announces(infos[n], repeat)
           out == [d \in Conn |-> IF d = c THEN says \o asking ELSE <<>>]
<1>2. /\ n \in pending[c] /\ infos' = infos /\ sent' = sent /\ link' = link
      /\ attached' = [attached EXCEPT ![c] = @ \cup {n}]
  BY ZenonT(40) DEF AddPeer
<1>3. m \in Key /\ m # n
  BY RemoteEnd, Zenon
<1>4. req \in SigReq
  <2>1. CASE requests[n][m] = NoReq
    <3>1. req = NewReq(n, nonce)
      BY <2>1, ZenonT(40)
    <3> HIDE DEF req
    <3> QED
      BY <3>1, NewReqType, Zenon
  <2>2. CASE requests[n][m] # NoReq
    BY <1>3, <2>2 DEF IInv, TypeOK
  <2> QED
    BY <2>1, <2>2, ZenonT(40)
<1>5. sent[n][m] \subseteq Known(infos[n]) /\ sent[n][m] \in SUBSET Key
  BY <1>3, SentType, Zenon DEF IInv, SentKnown
<1>6. repeat \in Seq(sent[n][m])
  BY <1>5, Zenon DEF OrdersFit
<1>7. Range(repeat) = sent[n][m]
  BY <1>5, Zenon DEF OrdersMeet
<1>8. \A k \in sent[n][m] : infos[n][k] \in Info /\ Ann(k, infos[n][k]) \in Msg
  BY <1>5, KnownInfo, ZenonT(40) DEF IInv, TypeOK, Ann, Msg
<1>9. says \in Seq(Msg)
  BY <1>6, <1>8, AnnouncesType, ZenonT(40)
<1>10. chan' = Sending(n, chan, out)
  BY <1>1, Zenon
<1> HIDE DEF req
<1>11. asking \in Seq(Msg) /\ (asking = <<Req(req)>> \/ asking = <<>>)
  <2>1. Req(req) \in Msg
    BY <1>4, Zenon DEF Req, Msg
  <2>2. asking = <<Req(req)>> \/ asking = <<>>
    BY Zenon
  <2>3. <<Req(req)>> \in Seq(Msg) /\ <<>> \in Seq(Msg)
    BY <2>1
  <2> HIDE DEF asking
  <2> QED
    BY <2>2, <2>3, Zenon
<1> HIDE DEF asking, says, ask
<1>12. /\ says \o asking \in Seq(Msg)
       /\ \A x : Has(says \o asking, x) <=> Has(says, x) \/ Has(asking, x)
  BY <1>9, <1>11, ConcatType, ConcatHas, Zenon
<1>13. out \in [Conn -> Seq(Msg)]
  BY <1>12
<1>14. out[c] = says \o asking /\ \A d \in Conn : d # c => out[d] = <<>>
  BY Zenon
<1> HIDE DEF out
<1>15. Says
  <2>1. ASSUME NEW d \in Conn, NEW k \in Key, NEW x, Has(out[d], Ann(k, x))
        PROVE  x = infos'[n][k]
    <3>1. d = c
      BY <1>14, <2>1, EmptyHas, Zenon
    <3>2. Has(says, Ann(k, x)) \/ Has(asking, Ann(k, x))
      BY <1>12, <1>14, <2>1, <3>1, Zenon
    <3>3. ~Has(asking, Ann(k, x))
      <4>1. Has(asking, Ann(k, x)) => Req(req) = Ann(k, x)
        BY <1>11, OneOrNone, Zenon
      <4> QED
        BY <4>1, OthersAreNotAnn, Zenon
    <3>4. Has(Announces(infos[n], repeat), Ann(k, x))
      BY <3>2, <3>3, ZenonT(40) DEF says
    <3> QED
      BY <1>2, <1>6, <3>4, AnnouncesHas, Zenon
  <2>2. \A d \in Conn, a \in Key : \A x : Has(chan[d][a], x) => Has(chan[d][a], x)
    BY Zenon
  <2> QED
    BY <1>10, <1>13, <2>1, <2>2, StreamsType, WritesSays, Zenon
<1>16. Delivers
  BY <1>10, <1>13, StreamsType, WritesDelivers, Zenon
<1>17. n \in Ends[c] /\ link[c] # "down"
  BY <1>2, Zenon DEF Ended
<1>18. Ends[c] = {n, m}
  BY <1>17, RemoteRemote, Zenon
<1>19. Tells
  <2> SUFFICES ASSUME NEW a \in Key, NEW b \in Key, Whole(a, b)', NEW k \in sent'[a][b]
               PROVE  StillSent(a, b, k) \/ ArrivesNext(a, b, k, infos'[a][k])
    BY Zenon DEF Tells
  <2>1. CASE a = n /\ b = m
    <3>1. link[c] = "open"
      BY <1>2, <1>17, <1>18, <2>1, Zenon DEF Whole
    <3>2. k \in sent[n][m] /\ k \in Key
      BY <1>2, <1>5, <2>1, ZenonT(40)
    <3>3. Has(says, Ann(k, infos[n][k]))
      BY <1>6, <1>7, <3>2, AnnouncesHas, Zenon DEF says
    <3>4. Has(out[c], Ann(k, infos[n][k]))
      BY <1>12, <1>14, <3>3, Zenon
    <3>5. ArrivesNext(n, m, k, infos[n][k])
      BY <1>8, <1>10, <1>13, <1>17, <3>1, <3>2, <3>4, StreamsType, PutArrives, Zenon
    <3> QED
      BY <1>2, <2>1, <3>5, Zenon
  <2>2. CASE ~(a = n /\ b = m)
    <3>1. Whole(a, b)
      <4> SUFFICES ASSUME NEW d \in Conn, Ends[d] = {a, b}, link[d] # "down"
                   PROVE  link[d] = "open" /\ a \in attached[d]
        BY Zenon DEF Whole
      <4>1. link[d] = "open" /\ a \in attached'[d]
        BY <1>2, Zenon DEF Whole
      <4>2. d = c => a # n
        BY <1>18, <1>3, <2>2, Zenon
      <4> QED
        BY <1>2, <4>1, <4>2, ZenonT(40) DEF IInv, TypeOK
    <3> QED
      BY <1>2, <3>1, Zenon DEF StillSent
  <2> QED
    BY <2>1, <2>2, Zenon
<1> QED
  BY <1>2, <1>15, <1>16, <1>19, SameTables, Zenon DEF Step

\* A step that keeps all streams says nothing new and delivers what is in them.
LEMMA SameStreams == ASSUME chan' = chan PROVE Says /\ Delivers
<1>1. \A c, n, k, x : HeardNext(c, n, k, x) <=> Heard(c, n, k, x)
  BY Zenon DEF Heard, HeardNext
<1> QED
  BY <1>1, Zenon DEF Says, Delivers, Keeps

\* The end of a connection that has failed: what was sent over it is not claimed.
LEMMA RemovePeerStep ==
    ASSUME IInv, IInv', Ended, NEW c \in Conn, NEW n \in Key, RemovePeer(c, n) PROVE Step
<1> DEFINE m == Remote(c, n)
           last == \A d \in PeerConns(n) \ {c} : Remote(d, n) # m
<1>1. /\ link[c] = "broken" /\ n \in attached[c]
      /\ attached' = [attached EXCEPT ![c] = @ \ {n}]
      /\ sent' = IF last THEN [sent EXCEPT ![n][m] = {}] ELSE sent
      /\ infos' = infos /\ link' = link /\ chan' = chan
  BY ZenonT(40) DEF RemovePeer
<1>2. m \in Key
  BY RemoteEnd, Zenon
<1> HIDE DEF m, last
<1>3. Tells
  <2> SUFFICES ASSUME NEW a \in Key, NEW b \in Key, Whole(a, b)', NEW k \in sent'[a][b]
               PROVE  StillSent(a, b, k)
    BY Zenon DEF Tells
  <2>1. k \in sent[a][b]
    BY <1>1, <1>2 DEF IInv, TypeOK
  <2>2. Whole(a, b)
    <3> SUFFICES ASSUME NEW d \in Conn, Ends[d] = {a, b}, link[d] # "down"
                 PROVE  link[d] = "open" /\ a \in attached[d]
      BY Zenon DEF Whole
    <3>1. link[d] = "open" /\ a \in attached'[d]
      BY <1>1, Zenon DEF Whole
    <3> QED
      BY <1>1, <3>1, Zenon DEF IInv, TypeOK
  <2> QED
    BY <1>1, <2>1, <2>2, Zenon DEF StillSent
<1> QED
  BY <1>1, <1>3, SameTables, SameStreams, Zenon DEF Step

\* Two nodes are not whole with a connection that is not open, or that one of
\* them has yet to learn of.
LEMMA NotWhole ==
    ASSUME NEW a, NEW b, NEW d \in Conn, Ends[d] = {a, b}, link'[d] # "down", Whole(a, b)'
    PROVE  link'[d] = "open" /\ a \in attached'[d]
  BY Zenon DEF Whole

\* A new connection, before either end has learned of it.
LEMMA ConnectStep ==
    ASSUME IInv, IInv', Ended, NEW c \in Conn, Connect(c) PROVE Step
<1>1. /\ link' = [link EXCEPT ![c] = "open"]
      /\ attached[c] = {}
      /\ chan' = [chan EXCEPT ![c] = [n \in Key |-> <<>>]]
      /\ infos' = infos /\ sent' = sent /\ attached' = attached
  BY Zenon DEF Connect
<1>2. link'[c] = "open" /\ \A d \in Conn : d # c => link'[d] = link[d] /\ chan'[d] = chan[d]
  BY <1>1, ZenonT(40) DEF IInv, TypeOK
<1>3. ASSUME NEW a \in Key, NEW b \in Key, Whole(a, b)' PROVE Ends[c] # {a, b}
  BY <1>1, <1>2, <1>3, NotWhole, Zenon
<1>4. Says
  <2> SUFFICES ASSUME NEW d \in Conn, NEW n \in Key, NEW k \in Key, NEW x \in Info,
                      HeardNext(d, n, k, x)
               PROVE  Heard(d, n, k, x)
    BY Zenon DEF Says
  <2>1. CASE d = c
    <3>1. chan'[d][n] = <<>>
      BY <1>1, <2>1, ZenonT(40) DEF IInv, TypeOK
    <3> QED
      BY <3>1, EmptyHas, Zenon DEF HeardNext
  <2>2. CASE d # c
    BY <1>2, <2>2, Zenon DEF Heard, HeardNext
  <2> QED
    BY <2>1, <2>2, Zenon
<1>5. Delivers
  BY <1>2, <1>3, Zenon DEF Delivers, Keeps, Heard, HeardNext
<1>6. Tells
  <2> SUFFICES ASSUME NEW a \in Key, NEW b \in Key, Whole(a, b)', NEW k \in sent'[a][b]
               PROVE  StillSent(a, b, k)
    BY Zenon DEF Tells
  <2>1. Whole(a, b)
    BY <1>1, <1>2, <1>3, Zenon DEF Whole
  <2> QED
    BY <1>1, <2>1, Zenon DEF StillSent
<1> QED
  BY <1>1, <1>4, <1>5, <1>6, SameTables, Zenon DEF Step

\* A connection that fails: nothing is claimed of its ends.
LEMMA BreakStep ==
    ASSUME IInv, IInv', Ended, NEW c \in Conn, Break(c) PROVE Step
<1>1. /\ link' = [link EXCEPT ![c] = "broken"]
      /\ infos' = infos /\ sent' = sent /\ attached' = attached
  BY Zenon DEF Break
<1>2. PICK rest \in Truncated(chan[c]) : chan' = [chan EXCEPT ![c] = rest]
  BY Zenon DEF Break
<1>3. PICK read \in [Key -> UNION {0..Len(chan[c][n]) : n \in Key}] :
         /\ \A n \in Key : read[n] <= Len(chan[c][n])
         /\ rest = [n \in Key |-> SubSeq(chan[c][n], 1, read[n])]
  BY Zenon DEF Truncated
<1>4. /\ link'[c] = "broken"
      /\ \A d \in Conn : d # c => link'[d] = link[d] /\ chan'[d] = chan[d]
  BY <1>1, <1>2, ZenonT(40) DEF IInv, TypeOK
<1>5. ASSUME NEW a \in Key, NEW b \in Key, Whole(a, b)' PROVE Ends[c] # {a, b}
  BY <1>4, <1>5, NotWhole, Zenon
<1>6. Says
  <2> SUFFICES ASSUME NEW d \in Conn, NEW n \in Key, NEW k \in Key, NEW x \in Info,
                      HeardNext(d, n, k, x)
               PROVE  Heard(d, n, k, x)
    BY Zenon DEF Says
  <2>1. CASE d = c
    <3>1. chan'[c][n] = SubSeq(chan[c][n], 1, read[n])
      BY <1>2, <1>3, ZenonT(40) DEF IInv, TypeOK
    <3>2. chan[c][n] \in Seq(Msg)
      BY StreamsType, ZenonT(40)
    <3>3. read[n] \in 0..Len(chan[c][n])
      <4>1. PICK m \in Key : read[n] \in 0..Len(chan[c][m])
        BY <1>3, Zenon
      <4>2. read[n] \in Nat /\ Len(chan[c][n]) \in Nat
        BY <3>2, <4>1, SeqItems, StreamsType, SMTT(30)
      <4> QED
        BY <1>3, <4>2
    <3>4. Has(SubSeq(chan[c][n], 1, read[n]), Ann(k, x))
      BY <2>1, <3>1, Zenon DEF HeardNext
    <3> QED
      BY <2>1, <3>2, <3>3, <3>4, PrefixHas, Zenon DEF Heard
  <2>2. CASE d # c
    BY <1>4, <2>2, Zenon DEF Heard, HeardNext
  <2> QED
    BY <2>1, <2>2, Zenon
<1>7. Delivers
  BY <1>4, <1>5, Zenon DEF Delivers, Keeps, Heard, HeardNext
<1>8. Tells
  <2> SUFFICES ASSUME NEW a \in Key, NEW b \in Key, Whole(a, b)', NEW k \in sent'[a][b]
               PROVE  StillSent(a, b, k)
    BY Zenon DEF Tells
  <2>1. Whole(a, b)
    BY <1>1, <1>4, <1>5, Zenon DEF Whole
  <2> QED
    BY <1>1, <2>1, Zenon DEF StillSent
<1> QED
  BY <1>1, <1>6, <1>7, <1>8, SameTables, Zenon DEF Step

\* A step that changes neither tables nor connections nor streams.
LEMMA QuietStep ==
    ASSUME UNCHANGED <<infos, sent, link, attached, chan>> PROVE Step
  BY SameTables, SameStreams, SameSent, Zenon DEF Step

\* _sendAnnounces: what a node has not sent yet goes to all connections of a peer.
LEMMA SendAnnouncesStep ==
    ASSUME IInv, IInv', Ended, NEW n \in Key, NEW S \in [Key -> SUBSET Key],
           NEW pre \in [Conn -> Seq(Msg)],
           \A d \in Conn, k \in Key : \A x : ~Has(pre[d], Ann(k, x)),
           \A m \in Key : S[m] \subseteq sent[n][m],
           \A m \in Key : \A k \in S[m] : infos'[n][k] = infos[n][k],
           \A a \in Key \ {n} : infos'[a] = infos[a],
           link' = link, attached' = attached,
           NEW tbl, tbl = infos'[n], SendAnnounces(n, tbl, S, pre)
    PROVE  Says /\ Delivers /\ Tells
<1> DEFINE toSend == [m \in Peers(n) |-> ToSend(n, tbl, S[m], m)]
           out == [c \in Conn |-> IF c \in PeerConns(n)
                                  THEN pre[c] \o Announces(tbl, toSend[Remote(c, n)])
                                  ELSE <<>>]
           sent2 == [m \in Key |-> IF m \in Peers(n) THEN S[m] \cup Range(toSend[m]) ELSE {}]
<1>1. /\ \A m \in Peers(n) : toSend[m] \in Seq(Known(tbl))
      /\ sent' = [sent EXCEPT ![n] = sent2]
      /\ chan' = Sending(n, chan, out)
  BY ZenonT(40) DEF SendAnnounces
<1> HIDE DEF toSend
<1>2. tbl \in Table
  BY ZenonT(40) DEF IInv, TypeOK
<1>3. \A k \in Known(tbl) : k \in Key /\ tbl[k] \in Info /\ Ann(k, tbl[k]) \in Msg
  BY <1>2, KnownInfo, Zenon DEF Ann, Msg
<1>4. ASSUME NEW c \in PeerConns(n)
      PROVE  /\ c \in Conn /\ Remote(c, n) \in Peers(n)
             /\ toSend[Remote(c, n)] \in Seq(Known(tbl))
             /\ Announces(tbl, toSend[Remote(c, n)]) \in Seq(Msg)
  <2>1. c \in Conn /\ Remote(c, n) \in Peers(n)
    BY Zenon DEF PeerConns, Peers
  <2>2. toSend[Remote(c, n)] \in Seq(Known(tbl))
    BY <1>1, <2>1, Zenon
  <2> QED
    BY <1>3, <2>1, <2>2, AnnouncesType, Zenon
<1>5. ASSUME NEW c \in PeerConns(n)
      PROVE  /\ pre[c] \o Announces(tbl, toSend[Remote(c, n)]) \in Seq(Msg)
             /\ \A x : Has(pre[c] \o Announces(tbl, toSend[Remote(c, n)]), x) <=>
                         Has(pre[c], x) \/ Has(Announces(tbl, toSend[Remote(c, n)]), x)
  <2>1. pre[c] \in Seq(Msg)
    BY <1>4, Zenon
  <2> DEFINE says == Announces(tbl, toSend[Remote(c, n)])
  <2>2. says \in Seq(Msg)
    BY <1>4, Zenon
  <2> HIDE DEF says
  <2>3. pre[c] \o says \in Seq(Msg)
    BY <2>1, <2>2, ConcatType, Zenon
  <2>4. \A x : Has(pre[c] \o says, x) <=> Has(pre[c], x) \/ Has(says, x)
    BY <2>1, <2>2, ConcatHas, Zenon
  <2> QED
    BY <2>3, <2>4, Zenon DEF says
<1>6. out \in [Conn -> Seq(Msg)]
  BY <1>5, EmptySeq, Zenon
<1>7. /\ \A c \in PeerConns(n) : out[c] = pre[c] \o Announces(tbl, toSend[Remote(c, n)])
      /\ \A c \in Conn : c \notin PeerConns(n) => out[c] = <<>>
  BY <1>4, Zenon
<1> HIDE DEF out
<1>8. ASSUME NEW d \in Conn, NEW k \in Key, NEW x, Has(out[d], Ann(k, x)) PROVE x = tbl[k]
  <2>1. d \in PeerConns(n)
    BY <1>7, <1>8, EmptyHas, Zenon
  <2>2. Has(Announces(tbl, toSend[Remote(d, n)]), Ann(k, x))
    BY <1>5, <1>7, <1>8, <2>1, Zenon
  <2>3. toSend[Remote(d, n)] \in Seq(Known(tbl))
    BY <1>4, <2>1, Zenon
  <2> QED
    BY <2>2, <2>3, AnnouncesOnly, ZenonT(40)
<1>9. Says
  <2>1. \A d \in Conn, a \in Key : \A x : Has(chan[d][a], x) => Has(chan[d][a], x)
    BY Zenon
  <2>2. \A d \in Conn, k \in Key : \A x : Has(out[d], Ann(k, x)) => x = infos'[n][k]
    BY <1>8, Zenon
  <2> QED
    BY <1>1, <1>6, <2>1, <2>2, StreamsType, WritesSays, ZenonT(40)
<1>10. Delivers
  BY <1>1, <1>6, StreamsType, WritesDelivers, Zenon
<1>11. Tells
  <2> SUFFICES ASSUME NEW a \in Key, NEW b \in Key, Whole(a, b)', NEW k \in sent'[a][b]
               PROVE  StillSent(a, b, k) \/ ArrivesNext(a, b, k, infos'[a][k])
    BY Zenon DEF Tells
  <2>1. Whole(a, b)
    BY SameWhole, Zenon
  <2>2. CASE a # n
    <3>1. sent'[a] = sent[a] /\ infos'[a] = infos[a]
      BY <1>1, <2>2, ZenonT(40) DEF IInv, TypeOK
    <3> QED
      BY <2>1, <3>1, Zenon DEF StillSent
  <2>3. CASE a = n
    <3>1. k \in sent2[b]
      BY <1>1, <2>3, ZenonT(40) DEF IInv, TypeOK
    <3>2. b \in Peers(n) /\ (k \in S[b] \/ k \in Range(toSend[b]))
      BY <3>1, Zenon
    <3>3. CASE k \in S[b]
      BY <2>1, <2>3, <3>3, Zenon DEF StillSent
    <3>4. CASE k \in Range(toSend[b])
      <4>1. PICK c \in PeerConns(n) : b = Remote(c, n)
        BY <3>2, Zenon DEF Peers
      <4>2. c \in Conn /\ n \in attached[c]
        BY Zenon DEF PeerConns
      <4>3. n \in Ends[c] /\ link[c] = "open"
        BY <2>1, <2>3, <4>1, <4>2, WholeOpen, Zenon
      <4>4. toSend[b] \in Seq(Known(tbl))
        BY <1>1, <3>2, Zenon
      <4>5. k \in Known(tbl)
        BY <3>4, <4>4, SeqItems DEF Range
      <4>6. Has(Announces(tbl, toSend[b]), Ann(k, tbl[k]))
        BY <3>4, <4>4, AnnouncesHas, Zenon
      <4>7. Has(out[c], Ann(k, tbl[k]))
        BY <1>5, <1>7, <4>1, <4>6, Zenon
      <4>8. ArrivesNext(n, b, k, tbl[k])
        BY <1>1, <1>3, <1>6, <4>1, <4>2, <4>3, <4>5, <4>7, StreamsType, PutArrives, Zenon
      <4> QED
        BY <2>3, <4>8, Zenon
    <3> QED
      BY <3>2, <3>3, <3>4, Zenon
  <2> QED
    BY <2>2, <2>3, Zenon
<1> QED
  BY <1>9, <1>10, <1>11, ZenonT(40)

\* A maintenance that stores no self info.
LEMMA KeepSelfInfoStep ==
    ASSUME IInv, IInv', Ended, NEW n \in Key, KeepSelfInfo(n) PROVE Step
<1> DEFINE pre == [c \in Conn |-> <<>>]
<1>1. /\ SendAnnounces(n, infos[n], sent[n], pre)
      /\ infos' = infos /\ link' = link /\ attached' = attached
  BY Zenon DEF KeepSelfInfo, connVars
<1>2. pre \in [Conn -> Seq(Msg)] /\ \A d \in Conn : pre[d] = <<>>
  OBVIOUS
<1> HIDE DEF pre
<1>3. \A d \in Conn, k \in Key : \A x : ~Has(pre[d], Ann(k, x))
  BY <1>2, SilentHas, Zenon
<1>4. sent[n] \in [Key -> SUBSET Key]
  BY Zenon DEF IInv, TypeOK
<1>5. infos[n] = infos'[n] /\ \A a \in Key \ {n} : infos'[a] = infos[a]
  BY <1>1, Zenon
<1>6. \A m \in Key : sent[n][m] \subseteq sent[n][m] /\ \A k \in sent[n][m] : infos'[n][k] = infos[n][k]
  BY <1>5, Zenon
<1>7. Says /\ Delivers /\ Tells
  BY <1>1, <1>2, <1>3, <1>4, <1>5, <1>6, SendAnnouncesStep, Zenon
<1> QED
  BY <1>1, <1>7, SameTables, Zenon DEF Step

\* A maintenance that stores a new self info.
LEMMA NewSelfInfoStep ==
    ASSUME IInv, IInv', Ended, NEW n \in Key, NEW info \in Info, info.seq > infos[n][n].seq,
           NEW nonce \in [Key -> Nonce], NewSelfInfo(n, info, nonce)
    PROVE  Step
<1> DEFINE tbl == [infos[n] EXCEPT ![n] = info]
           req(m) == [seq |-> info.seq + 1, nonce |-> nonce[m]]
           pre == [c \in Conn |-> IF c \in PeerConns(n) THEN <<Req(req(Remote(c, n)))>>
                                                        ELSE <<>>]
           S == [m \in Key |-> sent[n][m] \ {n}]
<1>1. /\ infos' = [infos EXCEPT ![n] = tbl]
      /\ SendAnnounces(n, tbl, S, pre)
      /\ link' = link /\ attached' = attached
  BY Zenon DEF NewSelfInfo, connVars
<1>2. ASSUME NEW m \in Key PROVE req(m) \in SigReq
  <2>1. info.seq + 1 \in Pos
    BY DEF Info, Pos
  <2>2. nonce[m] \in Nat
    BY RouterAssumption, Zenon
  <2> QED
    BY <2>1, <2>2, ZenonT(40) DEF SigReq
<1>3. tbl[n] = info /\ \A k \in Key \ {n} : tbl[k] = infos[n][k]
  BY ZenonT(40) DEF IInv, TypeOK, Table
<1> HIDE DEF tbl
<1>4. infos'[n] = tbl /\ \A a \in Key \ {n} : infos'[a] = infos[a]
  BY <1>1, ZenonT(40) DEF IInv, TypeOK
<1>5. ASSUME NEW c \in Conn PROVE Req(req(Remote(c, n))) \in Msg
  <2>1. Remote(c, n) \in Key
    BY RemoteEnd, Zenon
  <2> QED
    BY <1>2, <2>1, Zenon DEF Req, Msg
<1> HIDE DEF req
<1>6. /\ pre \in [Conn -> Seq(Msg)]
      /\ \A c \in Conn : pre[c] = <<Req(req(Remote(c, n)))>> \/ pre[c] = <<>>
  BY <1>5
<1> HIDE DEF pre
<1>7. \A d \in Conn, k \in Key : \A x : ~Has(pre[d], Ann(k, x))
  <2> SUFFICES ASSUME NEW d \in Conn, NEW k \in Key, NEW x, Has(pre[d], Ann(k, x)) PROVE FALSE
    BY Zenon
  <2>1. Req(req(Remote(d, n))) = Ann(k, x)
    BY <1>6, OneOrNone, Zenon
  <2> QED
    BY <2>1, OthersAreNotAnn, Zenon
<1>8. S \in [Key -> SUBSET Key] /\ \A m \in Key : S[m] = sent[n][m] \ {n}
  BY SentType, Zenon
<1> HIDE DEF S
<1>9. \A m \in Key : S[m] \subseteq sent[n][m] /\ \A k \in S[m] : infos'[n][k] = infos[n][k]
  BY <1>3, <1>4, <1>8, ZenonT(40)
<1>10. Says /\ Delivers /\ Tells
  BY <1>1, <1>4, <1>6, <1>7, <1>8, <1>9, SendAnnouncesStep, Zenon
<1>11. infos'[n][n] = info /\ \A a, k \in Key : ~(a = n /\ k = n) => infos'[a][k] = infos[a][k]
  BY <1>3, <1>4, Zenon
<1>12. Grows
  BY <1>11, Zenon DEF Grows, AsGood, Better
<1>13. Learns
  <2> SUFFICES ASSUME NEW a \in Key, NEW k \in Key
               PROVE  infos'[a][k] = infos[a][k] \/ (a = k /\ infos'[k][k].seq > infos[k][k].seq)
    BY Zenon DEF Learns
  <2>1. CASE a = n /\ k = n
    BY <1>11, <2>1, Zenon
  <2>2. CASE ~(a = n /\ k = n)
    BY <1>11, <2>2, Zenon
  <2> QED
    BY <2>1, <2>2, Zenon
<1> QED
  BY <1>10, <1>12, <1>13, Zenon DEF Step

\* A maintenance.
LEMMA MaintainStep ==
    ASSUME IInv, IInv', Ended, NEW n \in Key, Maintain(n) PROVE Step
<1> DEFINE best == Best(n)
<1>1. CASE MaintainUseResponse(n, best)
  <2>1. best.parent \in Responders(n)
    BY <1>1, ZenonT(40) DEF MaintainUseResponse, CanUseResponse
  <2>2. PICK nonce \in [Key -> Nonce] : NewSelfInfo(n, ResponseInfo(n, best.parent), nonce)
    BY <1>1, Zenon DEF MaintainUseResponse
  <2> HIDE DEF best
  <2>3. /\ ResponseInfo(n, best.parent) \in Info
        /\ ResponseInfo(n, best.parent).seq > infos[n][n].seq
    BY <2>1, ResponseBetter, Zenon
  <2> QED
    BY <2>2, <2>3, NewSelfInfoStep, Zenon
<1>2. CASE MaintainBecomeRoot(n, best)
  <2>1. PICK nonce \in [Key -> Nonce] : NewSelfInfo(n, RootInfo(n, nonce[n]), nonce)
    BY <1>2, Zenon DEF MaintainBecomeRoot
  <2>2. infos[n][n].seq \in Nat /\ nonce[n] \in Nat
    BY RouterAssumption, Zenon DEF IInv, SelfKnown, Info, Pos
  <2>3. infos[n][n].seq + 1 \in Pos /\ infos[n][n].seq + 1 > infos[n][n].seq
    BY <2>2, SMTT(30) DEF Pos
  <2>4. RootInfo(n, nonce[n]) \in Info /\ RootInfo(n, nonce[n]).seq > infos[n][n].seq
    BY <2>2, <2>3, ZenonT(40) DEF RootInfo, Info
  <2> QED
    BY <2>1, <2>4, NewSelfInfoStep, Zenon
<1>3. CASE MaintainArmRoot(n, best) \/ MaintainSteady(n, best)
  BY <1>3, KeepSelfInfoStep, Zenon DEF MaintainArmRoot, MaintainSteady
<1> QED
  BY <1>1, <1>2, <1>3, Zenon DEF Maintain

\* What an action leaves alone of the connections' state.
LEMMA SameEnded == ASSUME Ended, UNCHANGED connVars PROVE Ended'
  BY Zenon DEF Ended, connVars

\* addPeer.
LEMMA AddPeerEnded ==
    ASSUME IInv, Ended, NEW c \in Conn, NEW n \in Key, AddPeer(c, n) PROVE Ended'
<1>1. /\ n \in pending[c]
      /\ pending' = [pending EXCEPT ![c] = @ \ {n}]
      /\ attached' = [attached EXCEPT ![c] = @ \cup {n}]
      /\ link' = link
  BY Zenon DEF AddPeer
<1> QED
  BY <1>1, ZenonT(40) DEF Ended, IInv, TypeOK

\* removePeer.
LEMMA RemovePeerEnded ==
    ASSUME IInv, Ended, NEW c \in Conn, NEW n \in Key, RemovePeer(c, n) PROVE Ended'
<1>1. /\ attached' = [attached EXCEPT ![c] = @ \ {n}]
      /\ pending' = pending /\ link' = link
  BY Zenon DEF RemovePeer
<1> QED
  BY <1>1, ZenonT(40) DEF Ended, IInv, TypeOK

\* A connection is made.
LEMMA ConnectEnded == ASSUME IInv, Ended, NEW c \in Conn, Connect(c) PROVE Ended'
<1>1. /\ link' = [link EXCEPT ![c] = "open"]
      /\ pending' = [pending EXCEPT ![c] = Ends[c]]
      /\ attached' = attached
  BY Zenon DEF Connect
<1> QED
  BY <1>1, ZenonT(40) DEF Ended, IInv, TypeOK

\* A connection fails.
LEMMA BreakEnded == ASSUME IInv, Ended, NEW c \in Conn, Break(c) PROVE Ended'
<1>1. /\ link[c] = "open" /\ link' = [link EXCEPT ![c] = "broken"]
      /\ attached' = attached /\ pending' = pending
  BY Zenon DEF Break
<1> QED
  BY <1>1, ZenonT(40) DEF Ended, IInv, TypeOK

\* The steps of the router, and the ends of its connections.
LEMMA MaintainQuiet ==
    ASSUME NEW n \in Key, Maintain(n) PROVE UNCHANGED <<connVars, envVars>>
<1> DEFINE best == Best(n)
<1>1. CASE MaintainUseResponse(n, best)
  BY <1>1, ZenonT(40) DEF MaintainUseResponse, NewSelfInfo
<1>2. CASE MaintainBecomeRoot(n, best)
  BY <1>2, ZenonT(40) DEF MaintainBecomeRoot, NewSelfInfo
<1>3. CASE MaintainArmRoot(n, best) \/ MaintainSteady(n, best)
  BY <1>3, Zenon DEF MaintainArmRoot, MaintainSteady, KeepSelfInfo
<1> QED
  BY <1>1, <1>2, <1>3, Zenon DEF Maintain

\* Messages neither make nor end connections.
LEMMA HandleMessageQuiet ==
    ASSUME NEW c \in Conn, NEW n \in Key, HandleMessage(c, n)
    PROVE  UNCHANGED <<connVars, envVars>>
  BY Zenon DEF HandleMessage, HandleRequest, HandleResponse, AcceptAnnounce, RefuseAnnounce

\* Peers are added at the two ends of connections that were made.
LEMMA NextEnded == ASSUME IInv, Ended, [Next]_vars PROVE Ended'
<1>1. CASE \E n \in Key : Maintain(n)
  BY <1>1, MaintainQuiet, SameEnded, Zenon
<1>2. CASE \E n \in Key : RefreshTimer(n)
  BY <1>2, SameEnded, Zenon DEF RefreshTimer
<1>3. CASE \E n, k \in Key : Expire(n, k)
  BY <1>3, SameEnded, Zenon DEF Expire
<1>4. CASE \E c \in Conn : Connect(c) \/ Break(c)
  BY <1>4, ConnectEnded, BreakEnded, Zenon
<1>5. CASE \E c \in Conn, n \in Key : HandleMessage(c, n)
  BY <1>5, HandleMessageQuiet, SameEnded, Zenon
<1>6. CASE \E c \in Conn, n \in Key : AddPeer(c, n) \/ RemovePeer(c, n)
  BY <1>6, AddPeerEnded, RemovePeerEnded, Zenon
<1>7. CASE UNCHANGED vars
  BY <1>7, SameEnded, Zenon DEF vars
<1> QED
  BY <1>1, <1>2, <1>3, <1>4, <1>5, <1>6, <1>7, ZenonT(40) DEF Next

\* No info had expired when none has expired after a step.
LEMMA NoneExpired ==
    ASSUME IInv, [Next]_vars, used'["expire"] = 0
    PROVE  used["expire"] = 0 /\ \A n, k \in Key : ~Expire(n, k)
<1>1. used \in [Event -> Nat] /\ "expire" \in Event /\ "connect" \in Event
      /\ "break" \in Event /\ "refresh" \in Event
  BY Zenon DEF IInv, TypeOK, Event
<1>2. ASSUME NEW n \in Key, NEW k \in Key, Expire(n, k) PROVE FALSE
  <2>1. used' = [used EXCEPT !["expire"] = @ + 1]
    BY <1>2, Zenon DEF Expire, Happens
  <2> QED
    BY <1>1, <2>1
<1>3. CASE \E n \in Key : Maintain(n)
  BY <1>2, <1>3, MaintainQuiet, Zenon DEF envVars
<1>4. CASE \E n \in Key : RefreshTimer(n)
  <2>1. used' = [used EXCEPT !["refresh"] = @ + 1]
    BY <1>4, Zenon DEF RefreshTimer, Happens
  <2> QED
    BY <1>1, <1>2, <2>1, Zenon
<1>5. CASE \E c \in Conn : Connect(c)
  <2>1. used' = [used EXCEPT !["connect"] = @ + 1]
    BY <1>5, Zenon DEF Connect, Happens
  <2> QED
    BY <1>1, <1>2, <2>1, Zenon
<1>6. CASE \E c \in Conn : Break(c)
  <2>1. used' = [used EXCEPT !["break"] = @ + 1]
    BY <1>6, Zenon DEF Break, Happens
  <2> QED
    BY <1>1, <1>2, <2>1, Zenon
<1>7. CASE \E c \in Conn, n \in Key : HandleMessage(c, n)
  BY <1>2, <1>7, HandleMessageQuiet, ZenonT(40) DEF envVars
<1>8. CASE \E c \in Conn, n \in Key : AddPeer(c, n) \/ RemovePeer(c, n)
  BY <1>2, <1>8, ZenonT(40) DEF AddPeer, RemovePeer, envVars
<1>9. CASE UNCHANGED vars
  BY <1>2, <1>9, Zenon DEF vars, envVars
<1>10. ~\E n, k \in Key : Expire(n, k)
  BY <1>2, Zenon
<1> QED
  BY <1>3, <1>4, <1>5, <1>6, <1>7, <1>8, <1>9, <1>10, ZenonT(40) DEF Next

\* Nothing has been sent yet, and everybody knows only themselves.
LEMMA InitSInv == Init => SInv
<1> SUFFICES ASSUME Init PROVE SInv
  BY Zenon
<1>1. IInv
  BY InitIInv, Zenon
<1>2. Ended
  BY ZenonT(40) DEF Init, Ended
<1>3. \A n, m \in Key : sent[n][m] = {}
  BY Zenon DEF Init
<1>4. \A c \in Conn, n \in Key : chan[c][n] = <<>>
  BY Zenon DEF Init
<1>5. \A c \in Conn, n, k \in Key : \A x : ~Heard(c, n, k, x)
  BY <1>4, EmptyHas, Zenon DEF Heard
<1>6. Told /\ Sources
  BY <1>3, <1>5, Zenon DEF Told, Sources
<1>7. OneInfo
  <2> SUFFICES ASSUME NEW k \in Key, NEW x \in AnyInfo, NEW y \in AnyInfo,
                      Said(k, x), Said(k, y), x.seq = y.seq
               PROVE  x = y
    BY Zenon DEF OneInfo
  <2>1. PICK nonce \in [Key -> Nonce] : infos = [n \in Key |-> FirstTable(n, nonce[n])]
    BY Zenon DEF Init
  <2>2. \A n \in Key : infos[n][k] = infos[k][k] \/ infos[n][k] = NoInfo
    BY <2>1, Zenon DEF FirstTable
  <2>3. infos[k][k].seq = 1 /\ NoInfo.seq # 1
    BY <2>1, SMTT(30) DEF FirstTable, NoInfo
  <2>4. (x = infos[k][k] \/ x = NoInfo) /\ (y = infos[k][k] \/ y = NoInfo)
    BY <1>5, <2>2, Zenon DEF Said
  <2> QED
    BY <2>3, <2>4, SMTT(30)
<1> QED
  BY <1>1, <1>2, <1>6, <1>7, Zenon DEF SInv

\* What is heard is in flight.
LEMMA HeardInFlight ==
    ASSUME NEW c \in Conn, NEW n \in Key, NEW k \in Key, NEW x, Heard(c, n, k, x)
    PROVE  x \in InFlight(c, n, k)
<1>1. PICK i \in DOMAIN chan[c][n] : chan[c][n][i] = Ann(k, x)
  BY Zenon DEF Heard, Has
<1>2. Ann(k, x).type = "ann" /\ Ann(k, x).key = k /\ Ann(k, x).info = x
  BY Zenon DEF Ann
<1> QED
  BY <1>1, <1>2, ZenonT(40) DEF InFlight

-----------------------------------------------------------------------------
(* All steps together. *)

(* Visits of Go maps: the sets are finite, as Key is. *)

INSTANCE FiniteSetTheorems

\* A visit of a Go map (addPeer ranges over r.sent) is a sequence of its keys.
LEMMA OrdersType == OrdersFit
<1> SUFFICES ASSUME NEW S \in SUBSET Key, NEW s \in Orders(S) PROVE s \in Seq(S)
  BY Zenon DEF OrdersFit
<1>1. Cardinality(S) \in Nat
  BY KeyAssumption, FS_Subset, FS_CardinalityType, ZenonT(40)
<1>2. s \in [1..Cardinality(S) -> S]
  BY Zenon DEF Orders
<1> QED
  BY <1>1, <1>2, SeqOfFunction, Zenon

\* A visit of a Go map meets every key.
LEMMA OrdersAll == OrdersMeet
<1> SUFFICES ASSUME NEW S \in SUBSET Key, NEW s \in Orders(S) PROVE Range(s) = S
  BY Zenon DEF OrdersMeet
<1> DEFINE N == Cardinality(S)
<1>1. IsFiniteSet(S) /\ N \in Nat
  BY KeyAssumption, FS_Subset, FS_CardinalityType, ZenonT(40)
<1>2. s \in [1..N -> S] /\ \A i, j \in DOMAIN s : s[i] = s[j] => i = j
  BY Zenon DEF Orders
<1>3. s \in Injection(1..N, S)
  BY <1>2, Zenon DEF Injection, IsInjective
<1>4. Cardinality(1..N) = N
  <2>1. N = 0 \/ N >= 1
    BY <1>1
  <2> HIDE DEF N
  <2>2. Cardinality(1..N) = IF 1 > N THEN 0 ELSE N - 1 + 1
    BY <1>1, FS_Interval
  <2> QED
    BY <1>1, <2>1, <2>2
<1>5. s \in Surjection(1..N, S)
  <2>1. Cardinality(1..N) = Cardinality(S)
    BY <1>4, Zenon
  <2> QED
    BY <1>1, <1>3, <2>1, FS_Injection, Zenon
<1> QED
  BY <1>2, <1>5 DEF Surjection, Range

\* Every step keeps the invariant.
LEMMA NextIInv == IInv /\ [Next]_vars => IInv'
<1> SUFFICES ASSUME IInv, [Next]_vars PROVE IInv'
  BY Zenon
<1>1. CASE \E n \in Key : Maintain(n) \/ RefreshTimer(n)
  BY <1>1, MaintainIInv, RefreshTimerIInv, Zenon
<1>2. CASE \E n, k \in Key : Expire(n, k)
  BY <1>2, ExpireIInv, ZenonT(40)
<1>3. CASE \E c \in Conn : Connect(c) \/ Break(c)
  BY <1>3, ConnectIInv, BreakIInv, Zenon
<1>4. CASE \E c \in Conn, n \in Key : HandleMessage(c, n)
  BY <1>4, HandleRequestIInv, HandleResponseIInv, AcceptAnnounceIInv, RefuseAnnounceIInv
  DEF HandleMessage
<1>5. CASE \E c \in Conn, n \in Key : AddPeer(c, n) \/ RemovePeer(c, n)
  BY <1>5, OrdersType, AddPeerIInv, RemovePeerIInv, Zenon
<1>6. CASE UNCHANGED vars
  <2>1. UNCHANGED <<infos, sent, requests, responses, resSeqs, resSeqCtr, refresh,
                    doRoot1, link, pending, attached, chan, envVars>>
    BY <1>6, Zenon DEF vars, selfVars, connVars, envVars
  <2>2. OwnInfoNewest' /\ chan' \in [Conn -> [Key -> Seq(Msg)]]
    BY <2>1, StreamsDated, KeepsOwnInfoNewest, Zenon
  <2> QED
    BY <2>1, <2>2, Zenon DEF IInv, TypeOK, envVars, SelfKnown, SentKnown, RequestsCurrent, Known
<1> QED
  BY <1>1, <1>2, <1>3, <1>4, <1>5, <1>6, Zenon DEF Next

\* The tables, requests, responses and streams of a network keep their types.
THEOREM TypeCorrect == Spec => []TypeOK
<1>1. IInv => TypeOK
  BY ZenonT(40) DEF IInv
<1> QED
  BY <1>1, InitIInv, NextIInv, PTL DEF Spec

\* addPeer never finds a key in sent that has no info, and never panics
\* (router.go, addPeer).
THEOREM SentStaysKnown == Spec => []SentKnown
<1>1. IInv => SentKnown
  BY Zenon DEF IInv
<1> QED
  BY <1>1, InitIInv, NextIInv, PTL DEF Spec

\* Nobody knows more about a node than the node itself, in whatever order the
\* announcements travel and connections fail (router.go, _update).
THEOREM SingleWriter == Spec => []OwnInfoNewest
<1>1. IInv => OwnInfoNewest
  BY Zenon DEF IInv
<1> QED
  BY <1>1, InitIInv, NextIInv, PTL DEF Spec

\* _update never refuses the response that _fix uses (router.go, _useResponse).
THEOREM ResponsesStayUsable == Spec => []ResponseUsable
<1>1. IInv => ResponseUsable
  BY ResponseBetter, Zenon DEF ResponseUsable, Accepts
<1> QED
  BY <1>1, InitIInv, NextIInv, PTL DEF Spec

\* The steps that may happen while no info expires.
LEMMA NextStep ==
    ASSUME IInv, IInv', Ended, Sources, OneInfo, [Next]_vars,
           \A n, k \in Key : ~Expire(n, k)
    PROVE  Step
<1>1. CASE \E n \in Key : Maintain(n)
  BY <1>1, MaintainStep, Zenon
<1>2. CASE \E n \in Key : RefreshTimer(n)
  <2>1. UNCHANGED <<infos, sent, link, attached, chan>>
    BY <1>2, Zenon DEF RefreshTimer, connVars
  <2> QED
    BY <2>1, QuietStep, Zenon
<1>3. CASE \E c \in Conn : Connect(c) \/ Break(c)
  BY <1>3, ConnectStep, BreakStep, Zenon
<1>4. CASE \E c \in Conn, n \in Key : HandleMessage(c, n)
  <2>1. PICK c \in Conn, n \in Key : HandleMessage(c, n)
    BY <1>4, Zenon
  <2>2. CASE HandleRequest(c, n)
    BY <2>2, HandleRequestStep, Zenon
  <2>3. CASE HandleResponse(c, n)
    BY <2>3, HandleResponseStep, Zenon
  <2>4. CASE AcceptAnnounce(c, n)
    BY <2>4, AcceptAnnounceStep, Zenon
  <2>5. CASE RefuseAnnounce(c, n)
    BY <2>5, RefuseAnnounceStep, Zenon
  <2> QED
    BY <2>1, <2>2, <2>3, <2>4, <2>5, Zenon DEF HandleMessage
<1>5. CASE \E c \in Conn, n \in Key : AddPeer(c, n) \/ RemovePeer(c, n)
  BY <1>5, OrdersType, OrdersAll, AddPeerStep, RemovePeerStep, Zenon
<1>6. CASE UNCHANGED vars
  <2>1. UNCHANGED <<infos, sent, link, attached, chan>>
    BY <1>6, Zenon DEF vars, connVars
  <2> QED
    BY <2>1, QuietStep, Zenon
<1> QED
  BY <1>1, <1>2, <1>3, <1>4, <1>5, <1>6, ZenonT(40) DEF Next

\* Every step keeps the strengthened invariant.
LEMMA NextSInv == SInv /\ [Next]_vars => SInv'
<1> SUFFICES ASSUME SInv, [Next]_vars PROVE SInv'
  BY Zenon
<1>1. IInv /\ Ended /\ (used["expire"] = 0 => Told /\ Sources /\ OneInfo)
  BY Zenon DEF SInv
<1>2. IInv'
  BY <1>1, NextIInv, Zenon
<1>3. Ended'
  BY <1>1, NextEnded, Zenon
<1>4. ASSUME used'["expire"] = 0 PROVE Told' /\ Sources' /\ OneInfo'
  <2>1. Told /\ Sources /\ OneInfo /\ \A n, k \in Key : ~Expire(n, k)
    BY <1>1, <1>4, NoneExpired, Zenon
  <2>2. Step
    BY <1>1, <1>2, <2>1, NextStep, Zenon
  <2>3. Grows /\ Learns /\ Says /\ Delivers /\ Tells
    BY <2>2, Zenon DEF Step
  <2>4. Told'
    BY <1>1, <1>2, <2>1, <2>3, KeepsTold, Zenon
  <2>5. Sources'
    BY <1>1, <1>2, <2>1, <2>3, KeepsSources, Zenon
  <2>6. OneInfo'
    BY <1>1, <1>2, <2>1, <2>3, KeepsOneInfo, Zenon
  <2> QED
    BY <2>4, <2>5, <2>6, Zenon
<1> QED
  BY <1>2, <1>3, <1>4, Zenon DEF SInv

\* As long as no info has expired, a node that remembers having sent a peer what it
\* knows about another node (r.sent) is right: the peer has an info as good, or one
\* is on its way to it, unless a connection between the two has failed.
THEOREM SentIsNotLost == Spec => []SentArrives
<1>1. SInv => SentArrives
  <2> SUFFICES ASSUME SInv, used["expire"] = 0, NEW n \in Key, NEW m \in Key, Whole(n, m),
                      NEW k \in sent[n][m]
               PROVE  \/ AsGood(infos[m][k], infos[n][k])
                      \/ \E c \in Conn :
                            /\ Ends[c] = {n, m}
                            /\ \E info \in InFlight(c, m, k) : AsGood(info, infos[n][k])
    BY Zenon DEF SentArrives
  <2>1. IInv /\ Told
    BY Zenon DEF SInv
  <2>2. k \in Key
    BY <2>1 DEF IInv, TypeOK
  <2>3. Arrives(n, m, k, infos[n][k])
    BY <2>1, Zenon DEF Told
  <2>4. CASE AsGood(infos[m][k], infos[n][k])
    BY <2>4, ZenonT(40)
  <2>5. CASE \E c \in Conn, x \in Info :
                Ends[c] = {n, m} /\ Heard(c, m, k, x) /\ AsGood(x, infos[n][k])
    BY <2>2, <2>5, HeardInFlight, Zenon
  <2> QED
    BY <2>3, <2>4, <2>5, Zenon DEF Arrives
<1> QED
  BY <1>1, InitSInv, NextSInv, PTL DEF Spec
=============================================================================
