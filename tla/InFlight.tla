------------------------------ MODULE InFlight ------------------------------
(***************************************************************************)
(* InFlightTracker of src/src/state.rs and the drain of a daemon           *)
(* (graceful_drain in src/src/main.rs): tunnel handlers are counted while  *)
(* they run, a handler that finds the shutdown flag set refuses its        *)
(* tunnel, and the drain sets the flag, tells the peers, and waits for the *)
(* count to reach zero or for DRAIN_TIMEOUT.                               *)
(*                                                                         *)
(* The counter is the set of the handlers that hold a guard.  A guard that *)
(* was the last one notifies in a step of its own, and the waiting drain   *)
(* registers, checks and sleeps in separate steps.                         *)
(***************************************************************************)
CONSTANT Task           \* the tunnel handlers

VARIABLES
    shutdown,   \* the daemon's CancellationToken is cancelled
    tracked,    \* the handlers that hold an InFlightGuard
    accepted,   \* the handlers that passed refuse_if_draining
    zeroing,    \* the handlers whose guard was the last one, not yet notified
    listening,  \* the state of the Notified future of wait_zero
    drain       \* where graceful_drain is

inFlightVars == <<shutdown, tracked, accepted, zeroing, listening, drain>>

Over == {"drained", "cut"}

InFlightTypeOK ==
    /\ shutdown \in BOOLEAN
    /\ tracked \subseteq Task
    /\ accepted \subseteq Task
    /\ zeroing \subseteq Task
    /\ listening \in {"none", "waiting", "notified"}
    /\ drain \in {"up", "register", "check", "sleep", "gone"} \cup Over

InFlightInit ==
    /\ shutdown = FALSE
    /\ tracked = {}
    /\ accepted = {}
    /\ zeroing = {}
    /\ listening = "none"
    /\ drain = "up"
-----------------------------------------------------------------------------
(***************************************************************************)
(* The handlers.                                                           *)
(***************************************************************************)

\* track(), before the handler is spawned or runs.
Track(k) ==
    /\ k \notin tracked
    /\ k \notin zeroing
    /\ tracked' = tracked \cup {k}
    /\ UNCHANGED <<shutdown, accepted, zeroing, listening, drain>>

\* A mutant: the check and the guard in the other order, so that a handler
\* that passed the check before the shutdown is not counted.
AcceptUncounted(k) ==
    /\ k \in tracked \ accepted
    /\ ~shutdown
    /\ accepted' = accepted \cup {k}
    /\ tracked' = tracked \ {k}
    /\ UNCHANGED <<shutdown, zeroing, listening, drain>>

\* refuse_if_draining lets the tunnel through.
Accept(k) ==
    /\ k \in tracked \ accepted
    /\ ~shutdown
    /\ accepted' = accepted \cup {k}
    /\ UNCHANGED <<shutdown, tracked, zeroing, listening, drain>>

\* The handler ends, refused or served, and its guard is dropped.
Untrack(k) ==
    /\ k \in tracked
    /\ tracked' = tracked \ {k}
    /\ accepted' = accepted \ {k}
    /\ zeroing' = IF tracked = {k} THEN zeroing \cup {k} ELSE zeroing
    /\ UNCHANGED <<shutdown, listening, drain>>

\* notify_waiters wakes the futures that are registered and stores nothing.
NotifyZero(k) ==
    /\ k \in zeroing
    /\ zeroing' = zeroing \ {k}
    /\ listening' = IF listening = "waiting" THEN "notified" ELSE listening
    /\ UNCHANGED <<shutdown, tracked, accepted, drain>>
-----------------------------------------------------------------------------
(***************************************************************************)
(* graceful_drain and wait_zero.                                           *)
(***************************************************************************)

BeginShutdown ==
    /\ drain = "up"
    /\ shutdown' = TRUE
    /\ drain' = "register"
    /\ UNCHANGED <<tracked, accepted, zeroing, listening>>

\* A mutant: the future of notified() is not there before the check, so that
\* notify_waiters passes it over.
RegisterZeroLate ==
    /\ drain = "register"
    /\ drain' = "check"
    /\ UNCHANGED <<shutdown, tracked, accepted, zeroing, listening>>

\* The NodeLeave broadcast is over, or a wakeup sent the loop round.
RegisterZero ==
    /\ drain = "register"
    /\ listening' = "waiting"
    /\ drain' = "check"
    /\ UNCHANGED <<shutdown, tracked, accepted, zeroing>>

CheckZero ==
    /\ drain = "check"
    /\ drain' = IF tracked = {} THEN "drained" ELSE "sleep"
    /\ UNCHANGED <<shutdown, tracked, accepted, zeroing, listening>>

WakeZero ==
    /\ drain = "sleep"
    /\ listening = "notified"
    /\ listening' = "none"
    /\ drain' = "register"
    /\ UNCHANGED <<shutdown, tracked, accepted, zeroing>>

DrainTimeout ==
    /\ drain = "sleep"
    /\ drain' = "cut"
    /\ UNCHANGED <<shutdown, tracked, accepted, zeroing, listening>>

\* The process ends, and with it every task.
Exit ==
    /\ drain \in Over
    /\ drain' = "gone"
    /\ tracked' = {} /\ accepted' = {} /\ zeroing' = {}
    /\ UNCHANGED <<shutdown, listening>>
-----------------------------------------------------------------------------
DrainStep == RegisterZero \/ CheckZero \/ WakeZero

InFlightNext ==
    \/ \E k \in Task : Track(k) \/ Accept(k) \/ Untrack(k) \/ NotifyZero(k)
    \/ BeginShutdown \/ DrainStep \/ DrainTimeout \/ Exit

InFlightSpec ==
    /\ InFlightInit /\ [][InFlightNext]_inFlightVars
    /\ WF_inFlightVars(DrainStep)
    /\ \A k \in Task : WF_inFlightVars(NotifyZero(k))
-----------------------------------------------------------------------------
\* A drain that ends because the count reached zero cuts off no tunnel: the
\* guard is taken before the shutdown flag is read, so every handler that
\* saw the flag clear was counted when the flag was set (tunnel.rs:29,
\* gossip/mod.rs:104, mux.rs:132, reverse.rs:125).
DrainedIsIdle == drain = "drained" => accepted = {}

\* Once no handler is left the drain is over without the help of
\* DRAIN_TIMEOUT: wait_zero misses no wakeup (state.rs:139-156).
ZeroEndsDrain ==
    (shutdown /\ tracked = {}) ~> (drain \in Over \cup {"gone"} \/ tracked # {})
=============================================================================
