------------------------------ MODULE Deadline ------------------------------
(***************************************************************************)
(* The read deadline of network/packetconn.go: a channel that a timer      *)
(* closes to cancel reads, replaced by set once it is closed.  A timer is  *)
(* stopped by set, but its callback may already be on its way; a sync.Once *)
(* per call of set decides between the two.                                *)
(***************************************************************************)
EXTENDS Integers, FiniteSets

CONSTANT MaxSets    \* how often set is called

ASSUME DeadlineAssumption == MaxSets \in Nat

VARIABLES
    cancel,         \* d.cancel: the channel that new reads wait on
    cancelled,      \* the channels that are closed
    once,           \* d.once, one for each call of set
    done,           \* the onces that are used up
    timers          \* the callbacks that may still run: their once and channel

deadlineVars == <<cancel, cancelled, once, done, timers>>

\* newDeadline.
DeadlineInit ==
    /\ cancel = 0
    /\ cancelled = {}
    /\ once = 0
    /\ done = {}
    /\ timers = {}

\* set(t): Stop removes the callback of the current timer unless it has been
\* started; hasTime is false when t is the zero time.
Set(hasTime) ==
    /\ once < MaxSets
    /\ once' = once + 1
    /\ done' = done \cup {once}
    /\ cancel' = IF cancel \in cancelled THEN cancel + 1 ELSE cancel
    /\ \E stopped \in SUBSET {t \in timers : t.once = once /\ once \notin done} :
         timers' = (timers \ stopped) \cup
                     IF hasTime THEN {[once |-> once + 1, cancel |-> cancel']} ELSE {}
    /\ UNCHANGED cancelled

\* Fault: the callback does not ask its once.
RunTimerWithoutOnce(t) ==
    /\ t \in timers
    /\ timers' = timers \ {t}
    /\ done' = done \cup {t.once}
    /\ cancelled' = cancelled \cup {t.cancel}
    /\ UNCHANGED <<cancel, once>>

\* The callback of a timer: close its channel, if its once is not used up.
RunTimer(t) ==
    /\ t \in timers
    /\ timers' = timers \ {t}
    /\ done' = done \cup {t.once}
    /\ cancelled' = IF t.once \in done THEN cancelled ELSE cancelled \cup {t.cancel}
    /\ UNCHANGED <<cancel, once>>

DeadlineNext ==
    \/ \E hasTime \in BOOLEAN : Set(hasTime)
    \/ \E t \in timers : RunTimer(t)

DeadlineSpec == DeadlineInit /\ [][DeadlineNext]_deadlineVars

\* The state of a deadline keeps its type.
DeadlineTypeOK ==
    /\ cancel \in Nat
    /\ cancelled \subseteq Nat
    /\ once \in Nat
    /\ done \subseteq Nat
    /\ timers \subseteq [once : Nat, cancel : Nat]

\* A read that starts now is cancelled only by the timer of the last call of
\* set, never by the late callback of a timer that set has replaced.
OnlyLastTimerCancels == cancel \in cancelled => once \in done

\* No channel is closed twice, which would panic.
NoDoubleClose == \A t \in timers : t.once \notin done => t.cancel \notin cancelled
=============================================================================
