--------------------------- MODULE SessionRepair ---------------------------
(***************************************************************************)
(* What becomes of two sessions that no longer match (see Session) once    *)
(* the network calms down: from then on every message arrives, once and in *)
(* order, one of the nodes, the writer, keeps writing a message a second,  *)
(* and no session expires.  Nothing of the code is modelled here but the   *)
(* calls that Session models; the module asks whether the inits and acks   *)
(* that _handleTraffic and doRecv answer with ("let it self-heal", "hope   *)
(* they ack so we can fix things") do repair the sessions.                 *)
(***************************************************************************)
EXTENDS Session, TLC

CONSTANT
    Patience        \* how many messages it takes for a session to heal

ASSUME PatienceAssumption == Patience \in Nat \ {0}

VARIABLES
    writer,         \* who writes, once the network is calm; before, None
    path,           \* the messages on their way, in the order they were sent
    round,          \* how many messages were written
    healed          \* one of them was received

repairVars == <<vars, writer, path, round, healed>>

\* n waits for an ack with an init that its peer may have had: the peer's ack was
\* lost, and the peer takes the init, which keeps its time, for old.
Stuck(n) == session[n] = None /\ buffer[n] # None

\* The network calms down, at a time that is later than that of any init.  If the
\* writer is stuck, the peer's session, which hears nothing new, has expired.
CalmDown(n) ==
    /\ writer = None
    /\ writer' = n
    /\ session' = IF Stuck(n) THEN [session EXCEPT ![Other(n)] = None] ELSE session
    /\ net' = {}
    /\ now' = [o \in Node |-> MaxTime]
    /\ written' = [o \in Node |-> MaxWrites]
    /\ UNCHANGED <<buffer, keys, path, round, healed>>

\* n's state becomes x, and what n sends is on its way.
CalmBecomes(n, x, rest) ==
    /\ session' = [session EXCEPT ![n] = x.session]
    /\ buffer' = [buffer EXCEPT ![n] = x.buffer]
    /\ keys' = [keys EXCEPT ![n] = x.keys]
    /\ path' = rest \o x.out

\* The next second, when all that was sent has arrived.
CalmWrite ==
    /\ writer # None /\ ~healed
    /\ path = <<>> /\ round < Patience
    /\ round' = round + 1
    /\ now' = [o \in Node |-> MaxTime + round']
    /\ CalmBecomes(writer, WriteTo(writer, Local(writer), now'[writer], MaxWrites + round'), <<>>)
    /\ UNCHANGED <<net, written, writer, healed>>

CalmReceive ==
    /\ path # <<>> /\ ~healed
    /\ LET m == Head(path)
       IN  \E minute \in MinutePassed(m.to) :
              LET x == HandleData(m.to, Local(m.to), now[m.to], m, minute)
              IN  /\ CalmBecomes(m.to, x, Tail(path))
                  /\ healed' = (m.to # writer /\ \E p \in x.got : p > MaxWrites)
    /\ UNCHANGED <<net, now, written, writer, round>>

RepairInit ==
    /\ Init
    /\ writer = None /\ path = <<>> /\ round = 0 /\ healed = FALSE

RepairNext ==
    \/ writer = None /\ Next /\ UNCHANGED <<writer, path, round, healed>>
    \/ \E n \in Node : CalmDown(n)
    \/ CalmWrite
    \/ CalmReceive

RepairSpec == RepairInit /\ [][RepairNext]_repairVars

\* How many key pairs the nodes make together before the network is calm.
MaxTogether == 15
FewKeys == writer = None => \A n \in Node : keys[n] + keys[Other(n)] <= MaxTogether

NodeSymmetry == Permutations(Node)

-----------------------------------------------------------------------------

\* Whatever was lost, repeated or reordered, and whichever sessions were lost, the
\* sessions heal: of Patience messages that are written one second after the other,
\* one is received.
Heals == round = Patience /\ path = <<>> => healed
=============================================================================
