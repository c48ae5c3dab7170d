-------------------------- MODULE PathfinderProofs --------------------------
(***************************************************************************)
(* Proofs about the pathfinder, for any number of nodes, places, timers    *)
(* and events: no path and no rumor stays without a timer, a path is never *)
(* replaced by an older one, and no packet waits for a path that is known. *)
(***************************************************************************)
EXTENDS Pathfinder, TLAPS

-----------------------------------------------------------------------------
(* The inductive invariant.  The handlers are functions of a state s, and  *)
(* each is shown to keep such a state good.                                *)

PathFields == {"path", "seq", "broken", "throttled", "timer", "runs", "traffic"}
RumorFields == {"traffic", "throttled", "runs", "timer"}

\* An entry of pf.paths: its timer runs or has its closure in the inbox.
PathGood(k, p) ==
    \/ p = NoPath
    \/ /\ DOMAIN p = PathFields /\ p.runs \in BOOLEAN
       /\ p.runs \/ PathTimer(k, p.timer) \in Range(inbox)
       /\ p.seq \in Nat

\* An entry of pf.rumors.
RumorGood(x, r) ==
    \/ r = NoRumor
    \/ /\ DOMAIN r = RumorFields /\ r.runs \in BOOLEAN
       /\ r.runs \/ RumorTimer(x, r.timer) \in Range(inbox)

\* A message: a notification says where its source was, and when.
MsgGood(m) ==
    /\ m.type = "lookup" => m.to \in Key
    /\ m.type = "notify" => /\ m.source \in Key /\ m.seq \in Nat
                            /\ <<m.seq, m.path>> \in was[m.source]
    /\ m.type \in {"broken", "traffic"} => m.dest \in Key
    /\ m.type \in {"lookup", "notify", "broken", "traffic"}

\* No packet waits for a path that is known.
Waits(s, k) == s.paths[k] # NoPath /\ s.rumors[XKey[k]].traffic = k

StateGood(s) ==
    /\ s = [paths |-> s.paths, rumors |-> s.rumors, out |-> s.out]
    /\ s.paths = [k \in Key |-> s.paths[k]]
    /\ s.rumors = [x \in XKeys |-> s.rumors[x]]
    /\ \A k \in Key : PathGood(k, s.paths[k])
    /\ \A x \in XKeys : RumorGood(x, s.rumors[x])
    /\ \A m \in s.out : MsgGood(m)
    /\ \A k \in Key \ {Self} : ~Waits(s, k)

\* The destinations: where they are now is among where they were.
EnvGood ==
    /\ was = [k \in Key |-> was[k]]
    /\ place = [k \in Key |-> place[k]]
    /\ nodes \subseteq Key
    /\ clock \in Nat
    /\ \A k \in Key : <<clock, place[k]>> \in was[k]

\* The same of the pathfinder's state and of the messages in the network.
PInv ==
    /\ EnvGood
    /\ inbox \in Seq(Range(inbox))
    /\ paths = [k \in Key |-> paths[k]]
    /\ rumors = [x \in XKeys |-> rumors[x]]
    /\ \A k \in Key : PathGood(k, paths[k])
    /\ \A x \in XKeys : RumorGood(x, rumors[x])
    /\ \A m \in net : MsgGood(m)
    /\ NoneWaits

-----------------------------------------------------------------------------
(* The handlers. *)

\* A rumor that is there has the fields of one.
LEMMA RumorHasFields ==
    ASSUME NEW x, NEW r, RumorGood(x, r), r # NoRumor
    PROVE  DOMAIN r = RumorFields /\ r.runs \in BOOLEAN
                /\ (r.runs \/ RumorTimer(x, r.timer) \in Range(inbox))
  BY DEF RumorGood

\* What has the fields of a rumor is not the zero value.
LEMMA FieldsAreRumor == ASSUME NEW r, DOMAIN r = RumorFields PROVE r # NoRumor
  BY DEF RumorFields, NoRumor

LEMMA FieldsArePath == ASSUME NEW p, DOMAIN p = PathFields PROVE p # NoPath
  BY DEF PathFields, NoPath

\* The path that a notification makes or renews.
LEMMA InfoGood ==
    ASSUME NEW s, StateGood(s), NEW n, MsgGood(n), n.type = "notify",
           NEW info, info = IF s.paths[n.source] = NoPath THEN NewPath(s, n)
                            ELSE Renewed(s.paths[n.source], n)
    PROVE  /\ PathGood(n.source, info) /\ info # NoPath
           /\ info.seq = n.seq /\ info.path = n.path
<1>1. n.source \in Key /\ n.seq \in Nat
  BY DEF MsgGood
<1>2. CASE s.paths[n.source] = NoPath
  <2>1. info = NewPath(s, n)
    BY <1>2
  <2>2. DOMAIN info = PathFields /\ info.runs = TRUE /\ info.seq = n.seq /\ info.path = n.path
    BY <2>1 DEF NewPath, PathFields
  <2> QED
    BY <1>1, <2>2, FieldsArePath, Zenon DEF PathGood
<1>3. CASE s.paths[n.source] # NoPath
  <2>1. DOMAIN s.paths[n.source] = PathFields
    BY <1>1, <1>3, Zenon DEF StateGood, PathGood
  <2>2. info = Renewed(s.paths[n.source], n)
    BY <1>3
  <2>3. DOMAIN info = PathFields /\ info.runs = TRUE /\ info.seq = n.seq /\ info.path = n.path
    BY <2>1, <2>2, Zenon DEF Renewed, PathFields
  <2> QED
    BY <1>1, <2>3, FieldsArePath, Zenon DEF PathGood
<1> QED
  BY <1>2, <1>3

\* The packet that waited is taken from the rumor, which stays.
LEMMA TakenGood ==
    ASSUME NEW s, StateGood(s), NEW n, n.source \in Key, s.rumors[XKey[n.source]] # NoRumor
    PROVE  /\ Taken(s, n) = [x \in XKeys |-> Taken(s, n)[x]]
           /\ \A x \in XKeys : /\ RumorGood(x, Taken(s, n)[x])
                               /\ s.rumors[x] # NoRumor => Taken(s, n)[x] # NoRumor
           /\ Taken(s, n)[XKey[n.source]].traffic # n.source
           /\ \A k \in Key : Taken(s, n)[XKey[k]].traffic = k => s.rumors[XKey[k]].traffic = k
<1> DEFINE y == XKey[n.source]
           old == s.rumors[y]
           new == [old EXCEPT !.traffic = IF @ = n.source THEN None ELSE @]
<1>1. y \in XKeys /\ \A k \in Key : XKey[k] \in XKeys
  BY SMTT(30) DEF XKeys
<1>2. /\ Taken(s, n) = [x \in XKeys |-> Taken(s, n)[x]]
      /\ \A x \in XKeys : Taken(s, n)[x] = IF x = y THEN new ELSE s.rumors[x]
  BY <1>1, Zenon DEF Taken, StateGood
<1>3. RumorGood(y, old) /\ old # NoRumor
  BY <1>1 DEF StateGood
<1>4. DOMAIN old = RumorFields
  BY <1>3, RumorHasFields
<1>5. /\ DOMAIN new = RumorFields /\ new.runs = old.runs /\ new.timer = old.timer
      /\ new.traffic = IF old.traffic = n.source THEN None ELSE old.traffic
  BY <1>4 DEF RumorFields
<1>6. None \notin Key
  BY PathfinderAssumption
<1> HIDE DEF new, old
<1>7. RumorGood(y, new) /\ new # NoRumor /\ new.traffic # n.source
  BY <1>3, <1>5, <1>6, RumorHasFields, FieldsAreRumor DEF RumorGood
<1>8. \A k \in Key : new.traffic = k => old.traffic = k
  BY <1>5, <1>6
<1>9. \A x \in XKeys : RumorGood(x, s.rumors[x])
  BY DEF StateGood
<1>10. \A x \in XKeys : /\ RumorGood(x, Taken(s, n)[x])
                        /\ s.rumors[x] # NoRumor => Taken(s, n)[x] # NoRumor
  BY <1>2, <1>7, <1>9
<1>11. \A k \in Key : Taken(s, n)[XKey[k]].traffic = k => s.rumors[XKey[k]].traffic = k
  BY <1>1, <1>2, <1>8 DEF old
<1> QED
  BY <1>1, <1>2, <1>7, <1>10, <1>11

\* t was made from s without a path to a node other than k.
Only(k, s, t) ==
    /\ \A o \in Key \ {k} : t.paths[o] = s.paths[o]
    /\ \A x \in XKeys : s.rumors[x] # NoRumor => t.rumors[x] # NoRumor

\* t was made from s without forgetting a path or going back to an earlier one.
Advances(s, t) ==
    \A k \in Key : s.paths[k] # NoPath =>
        t.paths[k] # NoPath /\ Later(k, s.paths[k], t.paths[k])

LEMMA SameAdvances ==
    ASSUME NEW s, NEW t, t.paths = s.paths
    PROVE  /\ Advances(s, t)
           /\ \A u : Advances(t, u) => Advances(s, u)
           /\ \A u : Advances(u, s) => Advances(u, t)
  BY Zenon DEF Advances, Later

\* _handleNotify.
LEMMA NotifyGood ==
    ASSUME NEW s, StateGood(s), NEW n, MsgGood(n), n.type = "notify"
    PROVE  /\ StateGood(HandleNotify(s, n)) /\ Only(n.source, s, HandleNotify(s, n))
           /\ Advances(s, HandleNotify(s, n))
<1>1. CASE Refuses(s, n)
  BY <1>1, SameAdvances DEF HandleNotify, Only
<1>2. CASE ~Refuses(s, n)
  <2>1. PICK info : info = IF s.paths[n.source] = NoPath THEN NewPath(s, n)
                           ELSE Renewed(s.paths[n.source], n)
    OBVIOUS
  <2>2. /\ PathGood(n.source, info) /\ info # NoPath
        /\ info.seq = n.seq /\ info.path = n.path
    BY <2>1, InfoGood
  <2>3. n.source \in Key
    BY DEF MsgGood
  <2>4. PICK rs : rs = IF s.paths[n.source] = NoPath THEN Taken(s, n) ELSE s.rumors
    OBVIOUS
  <2>5. PICK sent : sent = IF info.traffic THEN {Traffic(n.source, n.path)} ELSE {}
    BY Zenon
  <2>6. HandleNotify(s, n) = [paths |-> [s.paths EXCEPT ![n.source] = info],
                              rumors |-> rs, out |-> s.out \cup sent]
    BY <1>2, <2>1, <2>4, <2>5, Zenon DEF HandleNotify
  <2>7. \A m \in sent : MsgGood(m)
    BY <2>3, <2>5 DEF MsgGood, Traffic
  <2>8. /\ rs = [x \in XKeys |-> rs[x]]
        /\ \A x \in XKeys : /\ RumorGood(x, rs[x])
                            /\ s.rumors[x] # NoRumor => rs[x] # NoRumor
        /\ \A k \in Key : rs[XKey[k]].traffic = k => s.rumors[XKey[k]].traffic = k
        /\ s.paths[n.source] = NoPath => rs[XKey[n.source]].traffic # n.source
    <3>1. CASE s.paths[n.source] = NoPath
      <4>1. s.rumors[XKey[n.source]] # NoRumor
        BY <1>2, <3>1 DEF Refuses
      <4>2. rs = Taken(s, n)
        BY <2>4, <3>1
      <4> QED
        BY <2>3, <4>1, <4>2, TakenGood
    <3>2. CASE s.paths[n.source] # NoPath
      BY <2>4, <3>2 DEF StateGood
    <3> QED
      BY <3>1, <3>2
  <2>9. PICK t : t = HandleNotify(s, n)
    OBVIOUS
  <2>10. /\ t = [paths |-> t.paths, rumors |-> t.rumors, out |-> t.out]
         /\ t.paths = [s.paths EXCEPT ![n.source] = info] /\ t.rumors = rs
         /\ t.out = s.out \cup sent
    BY <2>6, <2>9
  <2>11. /\ t.paths = [k \in Key |-> t.paths[k]]
         /\ \A k \in Key : t.paths[k] = IF k = n.source THEN info ELSE s.paths[k]
    BY <2>3, <2>10 DEF StateGood
  <2>12. \A k \in Key : PathGood(k, t.paths[k])
    BY <2>2, <2>11 DEF StateGood
  <2>13. \A k \in Key \ {Self} : ~Waits(t, k)
    BY <2>8, <2>10, <2>11, Zenon DEF StateGood, Waits
  <2>14. \A m \in t.out : MsgGood(m)
    BY <2>7, <2>10 DEF StateGood
  <2>15. StateGood(t)
    BY <2>8, <2>10, <2>11, <2>12, <2>13, <2>14 DEF StateGood
  <2>16. Only(n.source, s, t)
    BY <2>8, <2>10, <2>11 DEF Only
  <2>17. Advances(s, t)
    <3>1. ASSUME NEW k \in Key, k # n.source, s.paths[k] # NoPath
          PROVE  t.paths[k] # NoPath /\ Later(k, s.paths[k], t.paths[k])
      BY <2>11, <3>1 DEF Later
    <3>2. ASSUME s.paths[n.source] # NoPath
          PROVE  /\ t.paths[n.source] # NoPath
                 /\ Later(n.source, s.paths[n.source], t.paths[n.source])
      <4>1. ~(n.seq <= s.paths[n.source].seq)
        BY <1>2, <3>2 DEF Refuses
      <4>2. s.paths[n.source].seq \in Nat
        BY <2>3, <3>2, Zenon DEF StateGood, PathGood
      <4>3. n.seq \in Nat /\ <<n.seq, n.path>> \in was[n.source]
        BY DEF MsgGood
      <4>4. n.seq > s.paths[n.source].seq
        BY <4>1, <4>2, <4>3
      <4>5. t.paths[n.source] = info
        BY <2>3, <2>11
      <4> QED
        BY <2>2, <4>3, <4>4, <4>5 DEF Later
    <3> QED
      BY <3>1, <3>2, Zenon DEF Advances
  <2> QED
    BY <2>9, <2>15, <2>16, <2>17
<1> QED
  BY <1>1, <1>2

\* An answer says where its source is.
LEMMA AnswerGood ==
    ASSUME EnvGood, NEW k \in Key
    PROVE  MsgGood(Answer(k)) /\ Answer(k).type = "notify" /\ Answer(k).source = k
  BY DEF EnvGood, Answer, Notify, MsgGood

\* Messages that are good may be sent.
LEMMA SendsGood ==
    ASSUME NEW s, StateGood(s), NEW ms, \A m \in ms : MsgGood(m)
    PROVE  /\ StateGood(Sends(s, ms))
           /\ Sends(s, ms).paths = s.paths /\ Sends(s, ms).rumors = s.rumors
<1>1. PICK t : t = Sends(s, ms)
  BY Zenon
<1>2. s = [paths |-> s.paths, rumors |-> s.rumors, out |-> s.out]
  BY DEF StateGood
<1>3. t = [paths |-> s.paths, rumors |-> s.rumors, out |-> s.out \cup ms]
  BY <1>1, <1>2 DEF Sends
<1>4. t.paths = s.paths /\ t.rumors = s.rumors /\ t.out = s.out \cup ms
  BY <1>3
<1>5. StateGood(t)
  BY <1>3, <1>4 DEF StateGood, Waits
<1> QED
  BY <1>1, <1>4, <1>5

\* _sendLookup.
LEMMA SendLookupGood ==
    ASSUME EnvGood, NEW s, StateGood(s), NEW dest
    PROVE  /\ StateGood(SendLookup(s, dest)) /\ Only(Self, s, SendLookup(s, dest))
           /\ Advances(s, SendLookup(s, dest))
<1> DEFINE found == {k \in nodes : XKey[k] = XKey[dest]}
           ms == {Lookup(k) : k \in found \ {Self}}
<1>1. PICK sent : sent = Sends(s, ms)
  BY Zenon
<1>2. \A m \in ms : MsgGood(m)
  BY SMTT(30) DEF EnvGood, Lookup, MsgGood
<1> HIDE DEF ms
<1>3. StateGood(sent) /\ sent.paths = s.paths /\ sent.rumors = s.rumors
  BY <1>1, <1>2, SendsGood
<1>4. Only(Self, s, s) /\ Only(Self, s, sent) /\ Advances(s, s) /\ Advances(s, sent)
  BY <1>3, SameAdvances DEF Only
<1>5. /\ MsgGood(Answer(Self)) /\ Answer(Self).type = "notify" /\ Answer(Self).source = Self
  BY AnswerGood, PathfinderAssumption
<1>6. /\ StateGood(HandleNotify(sent, Answer(Self)))
      /\ Only(Self, sent, HandleNotify(sent, Answer(Self)))
      /\ Advances(sent, HandleNotify(sent, Answer(Self)))
  BY <1>3, <1>5, NotifyGood
<1>7. /\ Only(Self, s, HandleNotify(sent, Answer(Self)))
      /\ Advances(s, HandleNotify(sent, Answer(Self)))
  BY <1>3, <1>6, SameAdvances DEF Only
<1>8. SendLookup(s, dest) \in {s, sent, HandleNotify(sent, Answer(Self))}
  BY <1>1 DEF SendLookup, ms
<1> QED
  BY <1>3, <1>4, <1>6, <1>7, <1>8

\* A good rumor takes the place of another one.
LEMMA SetRumorGood ==
    ASSUME NEW s, StateGood(s), NEW x \in XKeys, NEW r, RumorGood(x, r),
           \A k \in Key \ {Self} : XKey[k] = x /\ s.paths[k] # NoPath => r.traffic # k
    PROVE  LET t == [s EXCEPT !.rumors[x] = r]
           IN  /\ StateGood(t) /\ t.paths = s.paths
               /\ \A y \in XKeys : t.rumors[y] = IF y = x THEN r ELSE s.rumors[y]
<1>1. PICK t : t = [s EXCEPT !.rumors[x] = r]
  BY Zenon
<1>2. s = [paths |-> s.paths, rumors |-> s.rumors, out |-> s.out]
  BY DEF StateGood
<1>3. t = [paths |-> s.paths, rumors |-> [s.rumors EXCEPT ![x] = r], out |-> s.out]
  BY <1>1, <1>2
<1>4. t.paths = s.paths /\ t.rumors = [s.rumors EXCEPT ![x] = r] /\ t.out = s.out
  BY <1>3
<1>5. /\ t.rumors = [y \in XKeys |-> t.rumors[y]]
      /\ \A y \in XKeys : t.rumors[y] = IF y = x THEN r ELSE s.rumors[y]
  BY <1>4 DEF StateGood
<1>6. \A k \in Key : XKey[k] \in XKeys
  BY DEF XKeys
<1>7. \A k \in Key \ {Self} : ~Waits(t, k)
  BY <1>4, <1>5, <1>6 DEF StateGood, Waits
<1>8. StateGood(t)
  BY <1>3, <1>4, <1>5, <1>7 DEF StateGood
<1> QED
  BY <1>1, <1>4, <1>5, <1>8

\* And so does a path.
LEMMA SetPathGood ==
    ASSUME NEW s, StateGood(s), NEW k \in Key, NEW p, PathGood(k, p),
           s.paths[k] # NoPath \/ p = NoPath
    PROVE  /\ StateGood([s EXCEPT !.paths[k] = p])
           /\ \A o \in Key : [s EXCEPT !.paths[k] = p].paths[o] = IF o = k THEN p ELSE s.paths[o]
<1>1. PICK t : t = [s EXCEPT !.paths[k] = p]
  BY Zenon
<1>2. s = [paths |-> s.paths, rumors |-> s.rumors, out |-> s.out]
  BY DEF StateGood
<1>3. t = [paths |-> [s.paths EXCEPT ![k] = p], rumors |-> s.rumors, out |-> s.out]
  BY <1>1, <1>2
<1>4. t.paths = [s.paths EXCEPT ![k] = p] /\ t.rumors = s.rumors /\ t.out = s.out
  BY <1>3
<1>5. /\ t.paths = [o \in Key |-> t.paths[o]]
      /\ \A o \in Key : t.paths[o] = IF o = k THEN p ELSE s.paths[o]
  BY <1>4 DEF StateGood
<1>6. \A o \in Key \ {Self} : ~Waits(t, o)
  BY <1>4, <1>5 DEF StateGood, Waits
<1>7. StateGood(t)
  BY <1>3, <1>4, <1>5, <1>6 DEF StateGood
<1> QED
  BY <1>1, <1>5, <1>7

\* What is made after a path was only marked advances.
LEMMA MarkedAdvances ==
    ASSUME NEW s, NEW t, NEW k \in Key, s.paths[k] # NoPath, NEW p, p # NoPath,
           p.seq = s.paths[k].seq, p.path = s.paths[k].path,
           \A o \in Key : t.paths[o] = IF o = k THEN p ELSE s.paths[o],
           NEW u, Advances(t, u)
    PROVE  Advances(s, u)
<1>1. \A o \in Key : s.paths[o] # NoPath =>
         /\ t.paths[o] # NoPath
         /\ t.paths[o].seq = s.paths[o].seq /\ t.paths[o].path = s.paths[o].path
  BY SMTT(30)
<1> QED
  BY <1>1, Zenon DEF Advances, Later

\* _rumorSendLookup: the rumor is there afterwards.
LEMMA RumorSendLookupGood ==
    ASSUME EnvGood, NEW s, StateGood(s), NEW dest \in Key
    PROVE  /\ StateGood(RumorSendLookup(s, dest))
           /\ Only(Self, s, RumorSendLookup(s, dest))
           /\ Advances(s, RumorSendLookup(s, dest))
           /\ RumorSendLookup(s, dest).rumors[XKey[dest]] # NoRumor
<1>1. PICK x : x = XKey[dest]
  BY Zenon
<1>2. PICK rumor : rumor = s.rumors[x]
  BY Zenon
<1>3. PICK new : new = IF rumor = NoRumor
                       THEN [traffic |-> None, throttled |-> TRUE, runs |-> TRUE,
                             timer |-> FreshId("rumor", x)]
                       ELSE [rumor EXCEPT !.throttled = TRUE, !.runs = TRUE]
  BY Zenon
<1>4. x \in XKeys /\ RumorGood(x, rumor)
  BY <1>1, <1>2, SMTT(30) DEF XKeys, StateGood
<1>5. CASE rumor # NoRumor /\ rumor.throttled
  <2>1. RumorSendLookup(s, dest) = s
    BY <1>1, <1>2, <1>5 DEF RumorSendLookup
  <2> QED
    BY <1>1, <1>2, <1>5, <2>1, SameAdvances DEF Only
<1>6. CASE ~(rumor # NoRumor /\ rumor.throttled)
  <2>1. DOMAIN new = RumorFields /\ new.runs = TRUE
    BY <1>3, <1>4, RumorHasFields DEF RumorFields
  <2>2. RumorGood(x, new) /\ new # NoRumor
    BY <2>1, FieldsAreRumor, Zenon DEF RumorGood
  <2>3. new.traffic = IF rumor = NoRumor THEN None ELSE rumor.traffic
    BY <1>3, <1>4, RumorHasFields DEF RumorFields
  <2>4. \A k \in Key \ {Self} : XKey[k] = x /\ s.paths[k] # NoPath => new.traffic # k
    BY <1>2, <2>3, PathfinderAssumption DEF StateGood, Waits
  <2>5. PICK t : t = [s EXCEPT !.rumors[x] = new]
    BY Zenon
  <2>6. /\ StateGood(t) /\ t.paths = s.paths
        /\ \A y \in XKeys : t.rumors[y] = IF y = x THEN new ELSE s.rumors[y]
    BY <1>4, <2>2, <2>4, <2>5, SetRumorGood
  <2>7. RumorSendLookup(s, dest) = SendLookup(t, dest)
    BY <1>1, <1>2, <1>3, <1>6, <2>5 DEF RumorSendLookup
  <2>8. /\ StateGood(SendLookup(t, dest)) /\ Only(Self, t, SendLookup(t, dest))
        /\ Advances(t, SendLookup(t, dest))
    BY <2>6, SendLookupGood
  <2>9. Only(Self, s, SendLookup(t, dest)) /\ SendLookup(t, dest).rumors[x] # NoRumor
    BY <1>4, <2>2, <2>6, <2>8 DEF Only
  <2>10. Advances(s, SendLookup(t, dest))
    BY <2>6, <2>8, SameAdvances
  <2> QED
    BY <1>1, <2>7, <2>8, <2>9, <2>10
<1> QED
  BY <1>5, <1>6

\* _handleTraffic.
LEMMA TrafficGood ==
    ASSUME EnvGood, NEW s, StateGood(s), NEW dest \in Key
    PROVE  StateGood(HandleTraffic(s, dest)) /\ Advances(s, HandleTraffic(s, dest))
<1>1. CASE s.paths[dest] # NoPath
  <2>1. PICK old : old = s.paths[dest]
    BY Zenon
  <2>2. PICK p : p = [old EXCEPT !.traffic = TRUE]
    BY Zenon
  <2>3. PathGood(dest, old) /\ old # NoPath
    BY <1>1, <2>1 DEF StateGood
  <2>4. DOMAIN old = PathFields
    BY <2>3, Zenon DEF PathGood
  <2>5. /\ DOMAIN p = PathFields /\ p.runs = old.runs /\ p.timer = old.timer
        /\ p.seq = old.seq /\ p.path = old.path
    BY <2>2, <2>4 DEF PathFields
  <2>6. PathGood(dest, p)
    BY <2>3, <2>5, Zenon DEF PathGood
  <2>7. /\ StateGood([s EXCEPT !.paths[dest] = p])
        /\ \A o \in Key :
             [s EXCEPT !.paths[dest] = p].paths[o] = IF o = dest THEN p ELSE s.paths[o]
    BY <1>1, <2>6, SetPathGood
  <2>8. [s EXCEPT !.paths[dest] = p] = [s EXCEPT !.paths[dest].traffic = TRUE]
    BY <2>1, <2>2
  <2>9. \A m \in {Traffic(dest, s.paths[dest].path)} : MsgGood(m)
    BY DEF MsgGood, Traffic
  <2>10. PICK t : t = [s EXCEPT !.paths[dest].traffic = TRUE]
    BY Zenon
  <2>11. StateGood(t) /\ Advances(s, t)
    <3>1. /\ StateGood(t)
          /\ \A o \in Key : t.paths[o] = IF o = dest THEN p ELSE s.paths[o]
      BY <2>7, <2>8, <2>10, Zenon
    <3>2. p # NoPath
      BY <2>5, FieldsArePath
    <3>3. p.seq = s.paths[dest].seq /\ p.path = s.paths[dest].path
      BY <2>1, <2>5, Zenon
    <3>4. Advances(t, t)
      BY SameAdvances
    <3> QED
      BY <1>1, <3>1, <3>2, <3>3, <3>4, MarkedAdvances, SMTT(30)
  <2>12. PICK u : u = Sends(t, {Traffic(dest, s.paths[dest].path)})
    BY Zenon
  <2>13. StateGood(u) /\ u.paths = t.paths
    BY <2>9, <2>11, <2>12, SendsGood
  <2>14. Advances(s, u)
    BY <2>11, <2>13, SameAdvances
  <2>15. HandleTraffic(s, dest) = u
    BY <1>1, <2>10, <2>12 DEF HandleTraffic
  <2> QED
    BY <2>13, <2>14, <2>15
<1>2. CASE s.paths[dest] = NoPath
  <2>1. PICK t : t = RumorSendLookup(s, dest)
    BY Zenon
  <2>2. /\ StateGood(t) /\ Only(Self, s, t) /\ Advances(s, t)
        /\ t.rumors[XKey[dest]] # NoRumor
    BY <2>1, RumorSendLookupGood, Zenon
  <2>3. PICK x : x = XKey[dest]
    BY Zenon
  <2>4. PICK old : old = t.rumors[x]
    BY Zenon
  <2>5. PICK r : r = [old EXCEPT !.traffic = dest]
    BY Zenon
  <2>6. x \in XKeys /\ RumorGood(x, old) /\ old # NoRumor
    BY <2>2, <2>3, <2>4 DEF StateGood, XKeys
  <2>7. DOMAIN old = RumorFields
    BY <2>6, RumorHasFields, Zenon
  <2>8. /\ DOMAIN r = RumorFields /\ r.runs = old.runs /\ r.timer = old.timer
        /\ r.traffic = dest
    BY <2>5, <2>7 DEF RumorFields
  <2>9. RumorGood(x, r)
    BY <2>6, <2>8, Zenon DEF RumorGood
  <2>10. \A k \in Key \ {Self} : XKey[k] = x /\ t.paths[k] # NoPath => r.traffic # k
    BY <1>2, <2>2, <2>8 DEF Only
  <2>11. PICK u : u = [t EXCEPT !.rumors[x] = r]
    BY Zenon
  <2>12. StateGood(u) /\ u.paths = t.paths
    BY <2>2, <2>6, <2>9, <2>10, <2>11, SetRumorGood
  <2>13. HandleTraffic(s, dest) = u
    BY <1>2, <2>1, <2>3, <2>4, <2>5, <2>11 DEF HandleTraffic
  <2>14. Advances(s, u)
    BY <2>2, <2>12, SameAdvances
  <2> QED
    BY <2>12, <2>13, <2>14
<1> QED
  BY <1>1, <1>2

\* _handleBroken.
LEMMA BrokenGood ==
    ASSUME EnvGood, NEW s, StateGood(s), NEW dest \in Key
    PROVE  StateGood(HandleBroken(s, dest)) /\ Advances(s, HandleBroken(s, dest))
<1>1. CASE s.paths[dest] # NoPath
  <2>1. PICK old : old = s.paths[dest]
    BY Zenon
  <2>2. PICK p : p = [old EXCEPT !.broken = TRUE]
    BY Zenon
  <2>3. PathGood(dest, old) /\ old # NoPath
    BY <1>1, <2>1 DEF StateGood
  <2>4. DOMAIN old = PathFields
    BY <2>3, Zenon DEF PathGood
  <2>5. /\ DOMAIN p = PathFields /\ p.runs = old.runs /\ p.timer = old.timer
        /\ p.seq = old.seq /\ p.path = old.path
    BY <2>2, <2>4 DEF PathFields
  <2>6. PathGood(dest, p)
    BY <2>3, <2>5, Zenon DEF PathGood
  <2>7. /\ StateGood([s EXCEPT !.paths[dest] = p])
        /\ \A o \in Key :
             [s EXCEPT !.paths[dest] = p].paths[o] = IF o = dest THEN p ELSE s.paths[o]
    BY <1>1, <2>6, SetPathGood
  <2>8. [s EXCEPT !.paths[dest] = p] = [s EXCEPT !.paths[dest].broken = TRUE]
    BY <2>1, <2>2
  <2>9. PICK t : t = [s EXCEPT !.paths[dest].broken = TRUE]
    BY Zenon
  <2>10. PICK u : u = SendLookup(t, dest)
    BY Zenon
  <2>11. StateGood(u) /\ Advances(s, u)
    <3>1. /\ StateGood(t)
          /\ \A o \in Key : t.paths[o] = IF o = dest THEN p ELSE s.paths[o]
      BY <2>7, <2>8, <2>9, Zenon
    <3>2. p # NoPath
      BY <2>5, FieldsArePath
    <3>3. p.seq = s.paths[dest].seq /\ p.path = s.paths[dest].path
      BY <2>1, <2>5, Zenon
    <3>4. StateGood(u) /\ Advances(t, u)
      BY <2>10, <3>1, SendLookupGood
    <3> QED
      BY <1>1, <3>1, <3>2, <3>3, <3>4, MarkedAdvances, SMTT(30)
  <2>12. HandleBroken(s, dest) = u
    BY <1>1, <2>9, <2>10 DEF HandleBroken
  <2> QED
    BY <2>11, <2>12
<1>2. CASE s.paths[dest] = NoPath
  BY <1>2, SameAdvances DEF HandleBroken
<1> QED
  BY <1>1, <1>2

-----------------------------------------------------------------------------
(* The steps. *)

\* The zero value holds no packet back.
LEMMA NoneWaitsFor ==
    ASSUME NEW k \in Key PROVE NoRumor.traffic # k
  BY PathfinderAssumption DEF NoRumor

\* A handler starts in a good state.
LEMMA StartGood == ASSUME PInv PROVE StateGood(Start) /\ EnvGood
<1>1. /\ Start = [paths |-> paths, rumors |-> rumors, out |-> {}]
      /\ Start.paths = paths /\ Start.rumors = rumors /\ Start.out = {}
  BY DEF Start
<1>2. \A k \in Key \ {Self} : ~Waits(Start, k)
  BY <1>1, NoneWaitsFor DEF PInv, NoneWaits, Known, Waits
<1> QED
  BY <1>1, <1>2 DEF PInv, StateGood

\* What a step has to keep of an entry and of a message.
PathNext(k, p) ==
    \/ p = NoPath
    \/ /\ DOMAIN p = PathFields /\ p.runs \in BOOLEAN
       /\ p.runs \/ PathTimer(k, p.timer) \in Range(inbox')
       /\ p.seq \in Nat

RumorNext(x, r) ==
    \/ r = NoRumor
    \/ /\ DOMAIN r = RumorFields /\ r.runs \in BOOLEAN
       /\ r.runs \/ RumorTimer(x, r.timer) \in Range(inbox')

MsgNext(m) ==
    /\ m.type = "lookup" => m.to \in Key
    /\ m.type = "notify" => /\ m.source \in Key /\ m.seq \in Nat
                            /\ <<m.seq, m.path>> \in was'[m.source]
    /\ m.type \in {"broken", "traffic"} => m.dest \in Key
    /\ m.type \in {"lookup", "notify", "broken", "traffic"}

LEMMA StepGood ==
    ASSUME EnvGood', (inbox \in Seq(Range(inbox)))',
           paths' = [k \in Key |-> paths'[k]], rumors' = [x \in XKeys |-> rumors'[x]],
           \A k \in Key : PathNext(k, paths'[k]),
           \A x \in XKeys : RumorNext(x, rumors'[x]),
           \A m \in net' : MsgNext(m),
           NoneWaits'
    PROVE  PInv'
<1>1. \A k \in Key : PathGood(k, paths[k])'
  BY Zenon DEF PathNext, PathGood
<1>2. \A x \in XKeys : RumorGood(x, rumors[x])'
  BY Zenon DEF RumorNext, RumorGood
<1>3. \A m \in net' : MsgGood(m)'
  BY Zenon DEF MsgNext, MsgGood
<1> QED
  BY <1>1, <1>2, <1>3, Zenon DEF PInv

\* Messages stay good; so does an entry, while its closure does not leave the inbox.
LEMMA MsgStill ==
    ASSUME \A k \in Key : was[k] \subseteq was'[k], NEW m, MsgGood(m) PROVE MsgNext(m)
  BY SMTT(30) DEF MsgGood, MsgNext

LEMMA PathStill ==
    ASSUME \A k \in Key : was[k] \subseteq was'[k], NEW k \in Key, NEW p, PathGood(k, p),
           p # NoPath => (PathTimer(k, p.timer) \in Range(inbox) =>
                             PathTimer(k, p.timer) \in Range(inbox'))
    PROVE  PathNext(k, p)
  BY Zenon DEF PathGood, PathNext

LEMMA RumorStill ==
    ASSUME NEW x, NEW r, RumorGood(x, r),
           r # NoRumor => (RumorTimer(x, r.timer) \in Range(inbox) =>
                             RumorTimer(x, r.timer) \in Range(inbox'))
    PROVE  RumorNext(x, r)
  BY Zenon DEF RumorGood, RumorNext

\* So a handler ends in a good state.
LEMMA BecomesGood ==
    ASSUME PInv, NEW s, StateGood(s), NEW received, Becomes(s, received),
           EnvGood', was' = was
    PROVE  PInv'
<1>1. paths' = s.paths /\ rumors' = s.rumors /\ net' \subseteq net \cup s.out /\ inbox' = inbox
  BY DEF Becomes
<1>2. \A m \in net' : MsgGood(m)
  BY <1>1 DEF PInv, StateGood
<1>3. \A m \in net' : MsgNext(m)
  BY <1>2, MsgStill
<1>4. \A k \in Key : PathNext(k, paths'[k])
  BY <1>1, PathStill DEF StateGood
<1>5. \A x \in XKeys : RumorNext(x, rumors'[x])
  BY <1>1, RumorStill DEF StateGood
<1>6. NoneWaits'
  BY <1>1, NoneWaitsFor DEF StateGood, Waits, NoneWaits, Known
<1>7. paths' = [k \in Key |-> paths'[k]] /\ rumors' = [x \in XKeys |-> rumors'[x]]
  BY <1>1, Zenon DEF StateGood
<1>8. (inbox \in Seq(Range(inbox)))'
  BY <1>1 DEF PInv
<1> QED
  BY <1>3, <1>4, <1>5, <1>6, <1>7, <1>8, StepGood

\* What Range says of a sequence.
LEMMA SeqRange ==
    ASSUME NEW S, NEW q \in Seq(S)
    PROVE  /\ q \in Seq(Range(q))
           /\ \A v : v \in Range(q) <=> \E i \in 1..Len(q) : q[i] = v
  BY DEF Range

\* A closure that is posted is added to those in the inbox.
LEMMA FiresGood ==
    ASSUME PInv, NEW c, Fires(c)
    PROVE  (inbox \in Seq(Range(inbox)))' /\ Range(inbox') = Range(inbox) \cup {c}
<1>1. PICK S : inbox \in Seq(S) /\ c \in S
  <2>1. PICK R : inbox \in Seq(R)
    BY Zenon DEF PInv
  <2>2. inbox \in Seq(R \cup {c})
    BY <2>1
  <2> QED
    BY <2>2
<1>2. /\ inbox' \in Seq(S) /\ Len(inbox') = Len(inbox) + 1 /\ Len(inbox) \in Nat
      /\ \A i \in 1..Len(inbox') : inbox'[i] = IF i = Len(inbox) + 1 THEN c ELSE inbox[i]
  BY <1>1, SMTT(30) DEF Fires
<1>3. /\ \A v : v \in Range(inbox) <=> \E i \in 1..Len(inbox) : inbox[i] = v
      /\ \A v : v \in Range(inbox') <=> \E i \in 1..Len(inbox') : inbox'[i] = v
      /\ inbox' \in Seq(Range(inbox'))
  <2>1. inbox' \in Seq(S)
    BY <1>2
  <2> QED
    BY <1>1, <2>1, SeqRange, ZenonT(30)
<1>4. ASSUME NEW v PROVE v \in Range(inbox') <=> v \in Range(inbox) \/ v = c
  <2>1. ASSUME v \in Range(inbox') PROVE v \in Range(inbox) \/ v = c
    <3>1. PICK i \in 1..Len(inbox') : inbox'[i] = v
      BY <1>3, <2>1
    <3>2. i = Len(inbox) + 1 \/ (i \in 1..Len(inbox) /\ inbox[i] = v)
      BY <1>2, <3>1
    <3> QED
      BY <1>2, <1>3, <3>1, <3>2
  <2>2. ASSUME v \in Range(inbox) PROVE v \in Range(inbox')
    <3>1. PICK i \in 1..Len(inbox) : inbox[i] = v
      BY <1>3, <2>2
    <3>2. i \in 1..Len(inbox') /\ inbox'[i] = v
      BY <1>2, <3>1
    <3> QED
      BY <1>3, <3>2
  <2>3. ASSUME v = c PROVE v \in Range(inbox')
    <3>1. Len(inbox) + 1 \in 1..Len(inbox') /\ inbox'[Len(inbox) + 1] = v
      BY <1>2, <2>3
    <3> QED
      BY <1>3, <3>1
  <2> QED
    BY <2>1, <2>2, <2>3
<1> QED
  BY <1>3, <1>4

\* Only the first closure leaves the inbox.
LEMMA TailGood ==
    ASSUME PInv, inbox # <<>>, inbox' = Tail(inbox)
    PROVE  (inbox \in Seq(Range(inbox)))' /\ Range(inbox) \ {Head(inbox)} \subseteq Range(inbox')
<1>1. PICK S : inbox \in Seq(S)
  BY DEF PInv
<1>2. /\ inbox' \in Seq(S) /\ Len(inbox') = Len(inbox) - 1 /\ Len(inbox) \in Nat \ {0}
      /\ \A i \in 1..Len(inbox') : inbox'[i] = inbox[i + 1]
      /\ Head(inbox) = inbox[1]
  BY <1>1, SMTT(30)
<1>3. /\ \A v : v \in Range(inbox) <=> \E i \in 1..Len(inbox) : inbox[i] = v
      /\ \A v : v \in Range(inbox') <=> \E i \in 1..Len(inbox') : inbox'[i] = v
      /\ inbox' \in Seq(Range(inbox'))
  <2>1. inbox' \in Seq(S)
    BY <1>2
  <2> QED
    BY <1>1, <2>1, SeqRange, ZenonT(30)
<1>4. ASSUME NEW v \in Range(inbox) \ {Head(inbox)} PROVE v \in Range(inbox')
  <2>1. PICK i \in 1..Len(inbox) : inbox[i] = v
    BY <1>3, <1>4
  <2>2. i # 1
    BY <1>2, <1>4, <2>1
  <2>3. i - 1 \in 1..Len(inbox') /\ inbox'[i - 1] = v
    BY <1>2, <2>1, <2>2
  <2> QED
    BY <1>3, <2>3, Zenon
<1> QED
  BY <1>3, <1>4, SMTT(30)

-----------------------------------------------------------------------------

\* A step that changes nothing but k's path, and takes no closure from the inbox but
\* its own.
LEMMA PathStep ==
    ASSUME PInv, NEW k \in Key, NEW p, PathNext(k, p), p # NoPath => paths[k] # NoPath,
           paths' = [paths EXCEPT ![k] = p], (inbox \in Seq(Range(inbox)))',
           \A c \in Range(inbox) : c \in Range(inbox') \/ \E id : c = PathTimer(k, id),
           UNCHANGED <<rumors, net, envVars>>
    PROVE  PInv'
<1>1. rumors' = rumors /\ net' = net /\ was' = was /\ EnvGood'
  BY DEF envVars, PInv, EnvGood
<1>2. /\ paths' = [o \in Key |-> paths'[o]]
      /\ \A o \in Key : paths'[o] = IF o = k THEN p ELSE paths[o]
  BY DEF PInv
<1>3. \A o \in Key : PathGood(o, paths[o]) /\ was[o] \subseteq was'[o]
  BY <1>1 DEF PInv
<1>4. ASSUME NEW o \in Key, o # k PROVE PathNext(o, paths[o])
  <2>1. \A id, b : PathTimer(o, id) # PathTimer(k, b)
    BY <1>4 DEF PathTimer
  <2>2. \A id : PathTimer(o, id) \in Range(inbox) => PathTimer(o, id) \in Range(inbox')
    BY <2>1
  <2> QED
    BY <1>3, <2>2, PathStill
<1>5. \A o \in Key : PathNext(o, paths'[o])
  BY <1>2, <1>4
<1>6. ASSUME NEW x \in XKeys PROVE RumorNext(x, rumors'[x])
  <2>1. \A id, b : RumorTimer(x, id) # PathTimer(k, b)
    BY DEF PathTimer, RumorTimer
  <2>2. \A id : RumorTimer(x, id) \in Range(inbox) => RumorTimer(x, id) \in Range(inbox')
    BY <2>1
  <2> QED
    BY <1>1, <2>2, RumorStill DEF PInv
<1>7. \A m \in net' : MsgNext(m)
  BY <1>1, <1>3, MsgStill DEF PInv
<1>8. NoneWaits' /\ rumors' = [x \in XKeys |-> rumors'[x]]
  BY <1>1, <1>2 DEF PInv, NoneWaits, Known
<1> QED
  BY <1>1, <1>2, <1>5, <1>6, <1>7, <1>8, StepGood

\* The timer of k's path goes off.
LEMMA FirePathGood == ASSUME PInv, NEW k \in Key, FirePath(k) PROVE PInv'
<1>1. PICK old : old = paths[k]
  BY Zenon
<1>2. PICK p : p = [old EXCEPT !.runs = FALSE]
  BY Zenon
<1>3. PathGood(k, old) /\ old # NoPath
  BY <1>1 DEF FirePath, Known, PInv
<1>4. DOMAIN old = PathFields
  BY <1>3, Zenon DEF PathGood
<1>5. /\ DOMAIN p = PathFields /\ p.runs = FALSE /\ p.timer = old.timer
      /\ p.seq = old.seq /\ p.path = old.path
  BY <1>2, <1>4 DEF PathFields
<1>6. /\ (inbox \in Seq(Range(inbox)))'
      /\ Range(inbox') = Range(inbox) \cup {PathTimer(k, old.timer)}
  BY <1>1, FiresGood, Zenon DEF FirePath
<1>7. was' = was
  BY DEF FirePath, envVars
<1>8. PathNext(k, p)
  BY <1>3, <1>5, <1>6, <1>7, Zenon DEF PathGood, PathNext
<1>9. paths' = [paths EXCEPT ![k] = p] /\ UNCHANGED <<rumors, net, envVars>>
  BY <1>1, <1>2 DEF FirePath
<1> QED
  BY <1>1, <1>3, <1>6, <1>8, <1>9, PathStep, Zenon

\* Traffic resets it, and pathThrottle passes.
LEMMA PathFieldGood ==
    ASSUME PInv, NEW k \in Key, RecvTrafficFrom(k) \/ PassPath(k) PROVE PInv'
<1>1. PICK old : old = paths[k]
  BY Zenon
<1>2. PICK p : paths' = [paths EXCEPT ![k] = p] /\
               p \in {[old EXCEPT !.runs = TRUE], [old EXCEPT !.throttled = FALSE]}
  BY <1>1, Zenon DEF RecvTrafficFrom, PassPath
<1>3. PathGood(k, old) /\ old # NoPath
  BY <1>1 DEF RecvTrafficFrom, PassPath, Known, PInv
<1>4. DOMAIN old = PathFields
  BY <1>3, Zenon DEF PathGood
<1>5. /\ DOMAIN p = PathFields /\ (p.runs = TRUE \/ p.runs = old.runs)
      /\ p.timer = old.timer /\ p.seq = old.seq /\ p.path = old.path
  BY <1>2, <1>4 DEF PathFields
<1>6. inbox' = inbox /\ UNCHANGED <<rumors, net, envVars>>
  BY DEF RecvTrafficFrom, PassPath
<1>7. was' = was
  BY <1>6 DEF envVars
<1>8. PathNext(k, p)
  BY <1>3, <1>5, <1>6, <1>7, Zenon DEF PathGood, PathNext
<1>9. (inbox \in Seq(Range(inbox)))'
  BY <1>6 DEF PInv
<1> QED
  BY <1>1, <1>2, <1>3, <1>6, <1>8, <1>9, PathStep, Zenon

\* The closure of a path's timer.
LEMMA ExpirePathGood ==
    ASSUME PInv, NEW k \in Key, NEW id, ExpirePath(k, id) PROVE PInv'
<1>1. /\ (inbox \in Seq(Range(inbox)))'
      /\ Range(inbox) \ {PathTimer(k, id)} \subseteq Range(inbox')
  BY TailGood DEF ExpirePath
<1>2. was' = was /\ UNCHANGED <<rumors, net, envVars>>
  BY DEF ExpirePath, envVars
<1>3. CASE Known(k) /\ paths[k].timer = id
  <2>1. paths' = [paths EXCEPT ![k] = NoPath]
    BY <1>3 DEF ExpirePath
  <2>2. PathNext(k, NoPath)
    BY DEF PathNext
  <2> QED
    BY <1>1, <1>2, <2>1, <2>2, PathStep, Zenon
<1>4. CASE ~(Known(k) /\ paths[k].timer = id)
  <2>1. paths' = [paths EXCEPT ![k] = paths[k]]
    BY <1>4 DEF ExpirePath, PInv
  <2>2. paths[k] # NoPath => PathTimer(k, paths[k].timer) # PathTimer(k, id)
    BY <1>4 DEF Known, PathTimer
  <2>3. PathNext(k, paths[k])
    BY <1>1, <1>2, <2>2, PathStill DEF PInv
  <2> QED
    BY <1>1, <1>2, <2>1, <2>3, PathStep, Zenon
<1> QED
  BY <1>3, <1>4

\* A step that changes nothing but the rumor about x, and takes no closure from the
\* inbox but its own.
LEMMA RumorStep ==
    ASSUME PInv, NEW x \in XKeys, NEW r, RumorNext(x, r),
           r # NoRumor => rumors[x] # NoRumor /\ r.traffic = rumors[x].traffic,
           rumors' = [rumors EXCEPT ![x] = r], (inbox \in Seq(Range(inbox)))',
           \A c \in Range(inbox) : c \in Range(inbox') \/ \E id : c = RumorTimer(x, id),
           UNCHANGED <<paths, net, place, clock, nodes, was>>
    PROVE  PInv'
<1>1. paths' = paths /\ net' = net /\ was' = was /\ EnvGood'
  BY DEF PInv, EnvGood
<1>2. /\ rumors' = [y \in XKeys |-> rumors'[y]]
      /\ \A y \in XKeys : rumors'[y] = IF y = x THEN r ELSE rumors[y]
  BY DEF PInv
<1>3. \A o \in Key : PathGood(o, paths[o]) /\ was[o] \subseteq was'[o]
  BY <1>1 DEF PInv
<1>4. ASSUME NEW o \in Key PROVE PathNext(o, paths'[o])
  <2>1. \A id, b : PathTimer(o, id) # RumorTimer(x, b)
    BY DEF PathTimer, RumorTimer
  <2>2. \A id : PathTimer(o, id) \in Range(inbox) => PathTimer(o, id) \in Range(inbox')
    BY <2>1
  <2> QED
    BY <1>1, <1>3, <2>2, PathStill
<1>5. ASSUME NEW y \in XKeys, y # x PROVE RumorNext(y, rumors[y])
  <2>1. \A id, b : RumorTimer(y, id) # RumorTimer(x, b)
    BY <1>5 DEF RumorTimer
  <2>2. \A id : RumorTimer(y, id) \in Range(inbox) => RumorTimer(y, id) \in Range(inbox')
    BY <2>1
  <2> QED
    BY <2>2, RumorStill DEF PInv
<1>6. \A y \in XKeys : RumorNext(y, rumors'[y])
  BY <1>2, <1>5
<1>7. \A m \in net' : MsgNext(m)
  BY <1>1, <1>3, MsgStill DEF PInv
<1>8. NoneWaits' /\ paths' = [k \in Key |-> paths'[k]]
  <2>1. \A k \in Key : XKey[k] \in XKeys
    BY DEF XKeys
  <2> QED
    BY <1>1, <1>2, <2>1 DEF PInv, NoneWaits, Known
<1> QED
  BY <1>1, <1>2, <1>4, <1>6, <1>7, <1>8, StepGood

\* The timer of the rumor about x goes off.
LEMMA FireRumorGood == ASSUME PInv, NEW x \in XKeys, FireRumor(x) PROVE PInv'
<1>1. PICK old : old = rumors[x]
  BY Zenon
<1>2. PICK r : r = [old EXCEPT !.runs = FALSE]
  BY Zenon
<1>3. RumorGood(x, old) /\ old # NoRumor
  BY <1>1 DEF FireRumor, PInv
<1>4. DOMAIN old = RumorFields
  BY <1>3, RumorHasFields, Zenon
<1>5. /\ DOMAIN r = RumorFields /\ r.runs = FALSE /\ r.timer = old.timer
      /\ r.traffic = old.traffic
  BY <1>2, <1>4 DEF RumorFields
<1>6. /\ (inbox \in Seq(Range(inbox)))'
      /\ Range(inbox') = Range(inbox) \cup {RumorTimer(x, old.timer)}
  BY <1>1, FiresGood, Zenon DEF FireRumor
<1>7. RumorNext(x, r)
  BY <1>5, <1>6, Zenon DEF RumorNext
<1>8. /\ rumors' = [rumors EXCEPT ![x] = r]
      /\ UNCHANGED <<paths, net, place, clock, nodes, was>>
  BY <1>1, <1>2 DEF FireRumor
<1> QED
  BY <1>1, <1>3, <1>5, <1>6, <1>7, <1>8, RumorStep, Zenon

\* pathThrottle passes.
LEMMA PassRumorGood == ASSUME PInv, NEW x \in XKeys, PassRumor(x) PROVE PInv'
<1>1. PICK old : old = rumors[x]
  BY Zenon
<1>2. PICK r : r = [old EXCEPT !.throttled = FALSE]
  BY Zenon
<1>3. RumorGood(x, old) /\ old # NoRumor
  BY <1>1 DEF PassRumor, PInv
<1>4. DOMAIN old = RumorFields
  BY <1>3, RumorHasFields, Zenon
<1>5. /\ DOMAIN r = RumorFields /\ r.runs = old.runs /\ r.timer = old.timer
      /\ r.traffic = old.traffic
  BY <1>2, <1>4 DEF RumorFields
<1>6. /\ rumors' = [rumors EXCEPT ![x] = r] /\ inbox' = inbox
      /\ UNCHANGED <<paths, net, place, clock, nodes, was>>
  BY <1>1, <1>2 DEF PassRumor, envVars
<1>7. RumorNext(x, r)
  BY <1>3, <1>5, <1>6, Zenon DEF RumorGood, RumorNext
<1>8. (inbox \in Seq(Range(inbox)))'
  BY <1>6 DEF PInv
<1> QED
  BY <1>1, <1>3, <1>5, <1>6, <1>7, <1>8, RumorStep, Zenon

\* The closure of a rumor's timer.
LEMMA ExpireRumorGood ==
    ASSUME PInv, NEW x \in XKeys, NEW id, ExpireRumor(x, id) PROVE PInv'
<1>1. /\ (inbox \in Seq(Range(inbox)))'
      /\ Range(inbox) \ {RumorTimer(x, id)} \subseteq Range(inbox')
  BY TailGood DEF ExpireRumor
<1>2. UNCHANGED <<paths, net, place, clock, nodes, was>>
  BY DEF ExpireRumor, envVars
<1>3. CASE rumors[x] # NoRumor /\ rumors[x].timer = id
  <2>1. rumors' = [rumors EXCEPT ![x] = NoRumor]
    BY <1>3 DEF ExpireRumor
  <2>2. RumorNext(x, NoRumor)
    BY DEF RumorNext
  <2> QED
    BY <1>1, <1>2, <2>1, <2>2, RumorStep, Zenon
<1>4. CASE ~(rumors[x] # NoRumor /\ rumors[x].timer = id)
  <2>1. rumors' = [rumors EXCEPT ![x] = rumors[x]]
    BY <1>4 DEF ExpireRumor, PInv
  <2>2. rumors[x] # NoRumor => RumorTimer(x, rumors[x].timer) # RumorTimer(x, id)
    BY <1>4 DEF RumorTimer
  <2>3. RumorNext(x, rumors[x])
    BY <1>1, <2>2, RumorStill DEF PInv
  <2> QED
    BY <1>1, <1>2, <2>1, <2>3, RumorStep, Zenon
<1> QED
  BY <1>3, <1>4

\* A step that leaves the pathfinder alone.
LEMMA NetStep ==
    ASSUME PInv, UNCHANGED <<pfVars, inbox>>, EnvGood',
           \A k \in Key : was[k] \subseteq was'[k],
           \A m \in net' : m \in net \/ MsgNext(m)
    PROVE  PInv'
<1>1. paths' = paths /\ rumors' = rumors /\ inbox' = inbox
  BY DEF pfVars
<1>2. \A k \in Key : PathNext(k, paths'[k])
  BY <1>1, PathStill DEF PInv
<1>3. \A x \in XKeys : RumorNext(x, rumors'[x])
  BY <1>1, RumorStill DEF PInv
<1>4. \A m \in net' : MsgNext(m)
  BY MsgStill DEF PInv
<1>5. NoneWaits' /\ (inbox \in Seq(Range(inbox)))'
  BY <1>1 DEF PInv, NoneWaits, Known
<1>6. paths' = [k \in Key |-> paths'[k]] /\ rumors' = [x \in XKeys |-> rumors'[x]]
  BY <1>1, Zenon DEF PInv
<1> QED
  BY <1>2, <1>3, <1>4, <1>5, <1>6, StepGood, Zenon

\* The network and the destinations.
LEMMA ReceiveGood ==
    ASSUME PInv, NEW m \in net, RecvLookup(m) \/ Arrive(m) \/ Miss(m) PROVE PInv'
<1>1. was' = was /\ EnvGood' /\ UNCHANGED <<pfVars, inbox>>
  BY DEF RecvLookup, Arrive, Miss, envVars, PInv, EnvGood
<1>2. \A n \in net' : n \in net \/ MsgNext(n)
  <2>1. CASE RecvLookup(m)
    <3>1. m.to \in Key /\ net' \subseteq net \cup {Answer(m.to)}
      BY <2>1, Zenon DEF RecvLookup, PInv, MsgGood
    <3>2. MsgGood(Answer(m.to))
      BY <3>1, AnswerGood DEF PInv
    <3> QED
      BY <1>1, <3>1, <3>2, MsgStill
  <2>2. CASE Arrive(m)
    BY <2>2 DEF Arrive
  <2>3. CASE Miss(m)
    <3>1. m.dest \in Key /\ net' \subseteq net \cup {Broken(m.dest)}
      BY <2>3, Zenon DEF Miss, PInv, MsgGood
    <3>2. MsgNext(Broken(m.dest))
      BY <3>1 DEF MsgNext, Broken
    <3> QED
      BY <3>1, <3>2
  <2> QED
    BY <2>1, <2>2, <2>3
<1> QED
  BY <1>1, <1>2, NetStep

\* Time passes, destinations move, messages are lost.
LEMMA EventGood ==
    ASSUME PInv, Tick \/ (\E k \in Key : Move(k)) \/ (\E m \in net : Lose(m)) PROVE PInv'
<1>1. nodes' = nodes /\ UNCHANGED <<pfVars, inbox>> /\ net' \subseteq net
  BY DEF Tick, Move, Lose, Happens
<1>2. /\ was' = [k \in Key |-> was'[k]] /\ place' = [k \in Key |-> place'[k]]
      /\ \A k \in Key : <<clock', place'[k]>> \in was'[k] /\ was[k] \subseteq was'[k]
  <2>1. CASE Tick
    BY <2>1 DEF Tick, Seen, PInv, EnvGood
  <2>2. ASSUME NEW k \in Key, Move(k)
        PROVE  /\ was' = [o \in Key |-> was'[o]] /\ place' = [o \in Key |-> place'[o]]
               /\ \A o \in Key : <<clock', place'[o]>> \in was'[o] /\ was[o] \subseteq was'[o]
    <3>1. PICK p : place' = [place EXCEPT ![k] = p]
      BY <2>2, Zenon DEF Move
    <3> QED
      BY <2>2, <3>1 DEF Move, Seen, PInv, EnvGood
  <2>3. ASSUME NEW m \in net, Lose(m) PROVE was' = was /\ place' = place /\ clock' = clock
    BY <2>3 DEF Lose
  <2> QED
    BY <2>1, <2>2, <2>3, Zenon DEF PInv, EnvGood
<1>3. clock' \in Nat
  BY DEF Tick, Move, Lose, PInv, EnvGood
<1>4. EnvGood'
  BY <1>1, <1>2, <1>3 DEF PInv, EnvGood
<1> QED
  BY <1>1, <1>2, <1>4, NetStep, Zenon

\* Nothing happens.
LEMMA StutterGood == ASSUME PInv, UNCHANGED vars PROVE PInv'
  BY NetStep DEF vars, envVars, PInv, EnvGood

\* The handlers, run by the router's actor.
LEMMA HandlerGood ==
    ASSUME PInv,
           \/ \E k \in Key : Write(k) \/ Ask(k)
           \/ \E m \in net : RecvNotify(m) \/ RecvBroken(m)
    PROVE  PInv'
<1>1. StateGood(Start) /\ EnvGood
  BY StartGood
<1>2. EnvGood' /\ was' = was
  BY <1>1, Zenon DEF Write, Ask, RecvNotify, RecvBroken, envVars, EnvGood
<1>3. ASSUME NEW k \in Key, Write(k) PROVE PInv'
  BY <1>1, <1>2, <1>3, TrafficGood, BecomesGood DEF Write
<1>4. ASSUME NEW k \in Key, Ask(k) PROVE PInv'
  BY <1>1, <1>2, <1>4, RumorSendLookupGood, BecomesGood DEF Ask
<1>5. ASSUME NEW m \in net, RecvNotify(m) PROVE PInv'
  <2>1. MsgGood(m) /\ m.type = "notify"
    BY <1>5 DEF PInv, RecvNotify
  <2> QED
    BY <1>1, <1>2, <1>5, <2>1, NotifyGood, BecomesGood DEF RecvNotify
<1>6. ASSUME NEW m \in net, RecvBroken(m) PROVE PInv'
  <2>1. m.dest \in Key
    BY <1>6, Zenon DEF PInv, RecvBroken, MsgGood
  <2> QED
    BY <1>1, <1>2, <1>6, <2>1, BrokenGood, BecomesGood DEF RecvBroken
<1> QED
  BY <1>3, <1>4, <1>5, <1>6

LEMMA InitGood == ASSUME Init PROVE PInv
<1>1. EnvGood
  <2>1. nodes \subseteq Key
    BY PathfinderAssumption DEF Init
  <2> QED
    BY <2>1 DEF Init, EnvGood
<1>2. inbox \in Seq(Range(inbox)) /\ net = {}
  BY DEF Init
<1>3. /\ paths = [k \in Key |-> NoPath]
      /\ rumors = [x \in XKeys |-> NoRumor]
  BY DEF Init
<1> QED
  BY <1>1, <1>2, <1>3 DEF PInv, PathGood, RumorGood, NoneWaits, Known

LEMMA NextGood == ASSUME PInv, [Next]_vars PROVE PInv'
<1>1. CASE UNCHANGED vars
  BY <1>1, StutterGood
<1>2. CASE Next
  BY <1>2, HandlerGood, PathFieldGood, FirePathGood, FireRumorGood, PassRumorGood,
     ExpirePathGood, ExpireRumorGood, ReceiveGood, EventGood
     DEF Next, Expire, Receive
<1> QED
  BY <1>1, <1>2

\* The steps that are taken outside the handlers leave a path where it is, or drop it.
LEMMA StepAdvances ==
    ASSUME PInv, [Next]_vars
    PROVE  \A k \in Key : Known(k) /\ Known(k)' => Later(k, paths[k], paths'[k])
<1> DEFINE Good == \A k \in Key : Known(k) /\ Known(k)' => Later(k, paths[k], paths'[k])
<1>1. StateGood(Start) /\ EnvGood /\ Start.paths = paths
  BY StartGood DEF Start
<1>2. ASSUME NEW s, NEW received, Becomes(s, received), Advances(Start, s) PROVE Good
  BY <1>1, <1>2, Zenon DEF Becomes, Advances, Known
<1>3. ASSUME NEW k \in Key, Write(k) \/ Ask(k) PROVE Good
  BY <1>1, <1>2, <1>3, TrafficGood, RumorSendLookupGood DEF Write, Ask
<1>4. ASSUME NEW m \in net, RecvNotify(m) \/ RecvBroken(m) PROVE Good
  <2>1. MsgGood(m)
    BY <1>4 DEF PInv
  <2>2. CASE RecvNotify(m)
    BY <1>1, <1>2, <2>1, <2>2, NotifyGood DEF RecvNotify
  <2>3. CASE RecvBroken(m)
    <3>1. m.dest \in Key
      BY <2>1, <2>3, Zenon DEF RecvBroken, MsgGood
    <3> QED
      BY <1>1, <1>2, <2>3, <3>1, BrokenGood DEF RecvBroken
  <2> QED
    BY <1>4, <2>2, <2>3
<1>5. ASSUME NEW k \in Key, RecvTrafficFrom(k) \/ FirePath(k) \/ PassPath(k) PROVE Good
  <2>1. PICK old : old = paths[k]
    BY Zenon
  <2>2. PICK p : /\ paths' = [paths EXCEPT ![k] = p]
                 /\ p \in {[old EXCEPT !.runs = TRUE], [old EXCEPT !.runs = FALSE],
                          [old EXCEPT !.throttled = FALSE]}
    BY <1>5, <2>1, Zenon DEF RecvTrafficFrom, FirePath, PassPath
  <2>3. p.seq = old.seq /\ p.path = old.path
    <3>1. PathGood(k, old) /\ old # NoPath
      BY <1>5, <2>1 DEF RecvTrafficFrom, FirePath, PassPath, Known, PInv
    <3>2. DOMAIN old = PathFields
      BY <3>1, Zenon DEF PathGood
    <3> QED
      BY <2>2, <3>2 DEF PathFields
  <2>4. \A o \in Key : paths'[o] = IF o = k THEN p ELSE paths[o]
    BY <2>2 DEF PInv
  <2> QED
    BY <2>1, <2>3, <2>4 DEF Later
<1>6. ASSUME NEW k \in Key, NEW id, ExpirePath(k, id) PROVE Good
  <2>1. \A o \in Key : paths'[o] = paths[o] \/ paths'[o] = NoPath
    BY <1>6 DEF ExpirePath, PInv
  <2> QED
    BY <2>1 DEF Known, Later
<1>7. ASSUME paths' = paths PROVE Good
  BY <1>7 DEF Later
<1>8. ASSUME NEW x \in XKeys,
             FireRumor(x) \/ PassRumor(x) \/ \E id \in TimerId : ExpireRumor(x, id)
      PROVE  Good
  BY <1>7, <1>8 DEF FireRumor, PassRumor, ExpireRumor
<1>9. ASSUME \/ \E m \in net : RecvLookup(m) \/ Arrive(m) \/ Miss(m) \/ Lose(m)
             \/ \E k \in Key : Move(k)
             \/ Tick \/ UNCHANGED vars
      PROVE  Good
  <2>1. paths' = paths
    BY <1>9 DEF RecvLookup, Arrive, Miss, Lose, Move, Tick, Happens, pfVars, vars
  <2> QED
    BY <1>7, <2>1
<1> HIDE DEF Good
<1>10. Good
  BY <1>3, <1>4, <1>5, <1>6, <1>8, <1>9 DEF Next, Expire, Receive
<1> QED
  BY <1>10 DEF Good

LEMMA PathfinderInvariant == Spec => []PInv
<1>1. Init => PInv
  BY InitGood
<1>2. PInv /\ [Next]_vars => PInv'
  BY NextGood
<1> QED
  BY <1>1, <1>2, PTL DEF Spec

-----------------------------------------------------------------------------

\* No path and no rumor outlives its timer, however the resets of _handleNotify,
\* _rumorSendLookup and _resetTimeout interleave with closures that are under way: a
\* timer that has gone off has its closure in the inbox, and that finds the entry.
THEOREM NoneIsKeptForGood == Spec => []NoneKeptForGood
<1>1. PInv => NoneKeptForGood
  BY Zenon DEF PInv, PathGood, RumorGood, NoneKeptForGood, Known
<1> QED
  BY <1>1, PathfinderInvariant, PTL

\* Whatever order notifications arrive in, _handleNotify replaces a path only by one
\* that its destination had later.
THEOREM PathsAdvance == Spec => PathAdvances
<1>1. PInv /\ [Next]_vars =>
         [\A k \in Key : Known(k) /\ Known(k)' => Later(k, paths[k], paths'[k])]_vars
  BY StepAdvances
<1> QED
  BY <1>1, PathfinderInvariant, PTL DEF Spec, PathAdvances

\* A packet that was held back is sent when the path becomes known (_handleNotify),
\* and none is held back when it is known (_handleTraffic).
THEOREM NoneKeepsWaiting == Spec => []NoneWaits
<1>1. PInv => NoneWaits
  BY DEF PInv
<1> QED
  BY <1>1, PathfinderInvariant, PTL
=============================================================================
