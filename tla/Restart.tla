------------------------------- MODULE Restart -------------------------------
(***************************************************************************)
(* A network in which nodes stop and start again with the same key.        *)
(* Nothing of router.go is persistent: the new router counts its own infos *)
(* from 1, while the network still has the infos of its earlier life.      *)
(***************************************************************************)
EXTENDS Router

Reset(f, n, value) == [f EXCEPT ![n] = value]

\* Node n stops and starts.  Stopping has made its connections fail (Break); the
\* new router has become root when it gets its first peer.
RestartNode(n) ==
    /\ \A c \in Conn : n \in Ends[c] => link[c] # "open"
    /\ Happens("restart")
    /\ \E nonce \in Nonce : infos' = Reset(infos, n, FirstTable(n, nonce))
    /\ sent' = Reset(sent, n, [m \in Key |-> {}])
    /\ requests' = Reset(requests, n, [m \in Key |-> NoReq])
    /\ responses' = Reset(responses, n, [m \in Key |-> NoRes])
    /\ resSeqs' = Reset(resSeqs, n, [m \in Key |-> 0])
    /\ resSeqCtr' = Reset(resSeqCtr, n, 0)
    /\ refresh' = Reset(refresh, n, FALSE)
    /\ doRoot1' = Reset(doRoot1, n, FALSE)
    /\ pending' = [c \in Conn |-> pending[c] \ {n}]
    /\ attached' = [c \in Conn |-> attached[c] \ {n}]
    /\ chan' = [c \in Conn |-> [chan[c] EXCEPT ![n] = <<>>]]
    /\ UNCHANGED link

RestartNext == Next \/ \E n \in Key : RestartNode(n)

RestartSpec == Init /\ [][RestartNext]_vars /\ Fairness
=============================================================================
