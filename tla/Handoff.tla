------------------------------ MODULE Handoff ------------------------------
(***************************************************************************)
(* What a pool of idle connections promises to the tasks that take from    *)
(* it, with the lock, the notifiers and the loop of StreamPool left out: a *)
(* stream is handed to one taker only, and as long as a task is asking     *)
(* while a stream lies idle, some task is eventually handed one.           *)
(***************************************************************************)
CONSTANTS
    Taker,      \* the tasks that call take or try_take
    Stream      \* the connections the pool is given

VARIABLES
    idle,       \* the streams in the pool
    asking,     \* the takers inside take
    held        \* held[t]: the stream t was handed, as a set of at most one

vars == <<idle, asking, held>>

Init ==
    /\ idle = {}
    /\ asking = {}
    /\ held = [t \in Taker |-> {}]

\* A connection enters the pool once, and not while someone still holds it.
Offer(s) ==
    /\ s \notin idle
    /\ \A t \in Taker : s \notin held[t]
    /\ idle' = idle \cup {s}
    /\ UNCHANGED <<asking, held>>

Ask(t) ==
    /\ t \notin asking
    /\ held[t] = {}
    /\ asking' = asking \cup {t}
    /\ UNCHANGED <<idle, held>>

\* A taker need not have asked: try_take takes what is there.
Hand(t, s) ==
    /\ s \in idle
    /\ held[t] = {}
    /\ idle' = idle \ {s}
    /\ asking' = asking \ {t}
    /\ held' = [held EXCEPT ![t] = {s}]

GiveUp(t) ==
    /\ t \in asking
    /\ asking' = asking \ {t}
    /\ UNCHANGED <<idle, held>>

\* The taker is done with the stream it was handed.
Finish(t) ==
    /\ held[t] # {}
    /\ held' = [held EXCEPT ![t] = {}]
    /\ UNCHANGED <<idle, asking>>

Next ==
    \/ \E s \in Stream : Offer(s)
    \/ \E t \in Taker : Ask(t) \/ GiveUp(t) \/ Finish(t)
    \/ \E t \in Taker, s \in Stream : Hand(t, s)

HandSomeone == \E t \in asking, s \in Stream : Hand(t, s)

Spec == Init /\ [][Next]_vars /\ WF_vars(HandSomeone)
=============================================================================
