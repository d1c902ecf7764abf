----------------------------- MODULE StreamPool -----------------------------
(***************************************************************************)
(* StreamPool<T> of src/src/state.rs for one key: push stores a connection *)
(* and only then wakes a waiter; take registers with the key's Notify,     *)
(* looks under the lock, and sleeps until it is woken or its deadline      *)
(* passes.  The pool's lock, the wakeup and the sleep are separate steps,  *)
(* so pushers and takers interleave between them.                          *)
(*                                                                         *)
(* The connections are a set: vec.pop() returns the newest one, here any   *)
(* of them may be returned.  tokio's Notify wakes the waiter that came     *)
(* first, here any waiter.                                                 *)
(***************************************************************************)
EXTENDS Naturals, FiniteSets

CONSTANTS
    Taker,      \* the tasks that call take or try_take
    Stream,     \* the connections pushed
    None        \* no connection

ASSUME PoolAssumption ==
    /\ IsFiniteSet(Taker)
    /\ IsFiniteSet(Stream)
    /\ None \notin Stream

VARIABLES
    idle,       \* connections[key]
    notifying,  \* the streams whose push has stored them and not yet notified
    notifier,   \* notifiers[key] exists: some take has created it
    permit,     \* the Notify holds a stored permit
    notice,     \* notice[t]: the state of t's Notified future
    taking,     \* taking[t]: where t is in take
    got         \* got[t]: the connection t took and still uses

poolVars == <<idle, notifying, notifier, permit, notice, taking, got>>

PoolTypeOK ==
    /\ idle \subseteq Stream
    /\ notifying \subseteq Stream
    /\ notifier \in BOOLEAN
    /\ permit \in BOOLEAN
    /\ notice \in [Taker -> {"none", "waiting", "one", "permit"}]
    /\ taking \in [Taker -> {"out", "look", "check", "sleep", "leave"}]
    /\ got \in [Taker -> Stream \cup {None}]

PoolInit ==
    /\ idle = {}
    /\ notifying = {}
    /\ notifier = FALSE
    /\ permit = FALSE
    /\ notice = [t \in Taker |-> "none"]
    /\ taking = [t \in Taker |-> "out"]
    /\ got = [t \in Taker |-> None]
-----------------------------------------------------------------------------
(***************************************************************************)
(* tokio::sync::Notify, as the pool uses it.                               *)
(***************************************************************************)

\* notify_one wakes a registered waiter, or stores one permit.  n is the
\* state of the futures when it runs.
NotifyOne(n) ==
    \/ \E t \in Taker :
          /\ n[t] = "waiting"
          /\ notice' = [n EXCEPT ![t] = "one"]
          /\ UNCHANGED permit
    \/ /\ \A t \in Taker : n[t] # "waiting"
       /\ notice' = n
       /\ permit' = TRUE

\* Notified::enable consumes the stored permit or joins the waiters.
Enable(t) ==
    /\ notice' = [notice EXCEPT ![t] = IF permit THEN "permit" ELSE "waiting"]
    /\ permit' = FALSE

\* Dropping a Notified that notify_one picked, and that nobody awaited,
\* passes the wakeup on.
DropNotified(t) ==
    LET dropped == [notice EXCEPT ![t] = "none"]
    IN IF notice[t] = "one" THEN NotifyOne(dropped)
       ELSE notice' = dropped /\ UNCHANGED permit
-----------------------------------------------------------------------------
(***************************************************************************)
(* push, in two steps: the store under the lock, then the wakeup.  A push  *)
(* that finds no notifier wakes nobody.                                    *)
(***************************************************************************)

Unused(s) == s \notin idle /\ s \notin notifying /\ \A t \in Taker : got[t] # s

Push(s) ==
    /\ Unused(s)
    /\ idle' = idle \cup {s}
    /\ notifying' = notifying \cup {s}
    /\ UNCHANGED <<notifier, permit, notice, taking, got>>

NotifyWaiter(s) ==
    /\ s \in notifying
    /\ notifying' = notifying \ {s}
    /\ IF notifier THEN NotifyOne(notice) ELSE UNCHANGED <<notice, permit>>
    /\ UNCHANGED <<idle, notifier, taking, got>>

(***************************************************************************)
(* take: the head of the loop creates the notifier and registers; the      *)
(* check pops a connection or goes to sleep; a wakeup goes round the loop. *)
(* A task on its way out still holds its registration until the future is  *)
(* dropped.                                                                *)
(***************************************************************************)

\* A mutant: the task does not register before the check, so a wakeup that
\* comes before it sleeps goes to nobody.
RegisterLate(t) ==
    /\ \/ taking[t] = "out" /\ got[t] = None
       \/ taking[t] = "look"
    /\ notifier' = TRUE
    /\ taking' = [taking EXCEPT ![t] = "check"]
    /\ UNCHANGED <<idle, notifying, got, notice, permit>>

Register(t) ==
    /\ \/ taking[t] = "out" /\ got[t] = None
       \/ taking[t] = "look"
    /\ notifier' = TRUE
    /\ Enable(t)
    /\ taking' = [taking EXCEPT ![t] = "check"]
    /\ UNCHANGED <<idle, notifying, got>>

\* A mutant: the connection is handed out and left in the pool.
PopKeeps(t, s) ==
    /\ taking[t] = "check"
    /\ s \in idle
    /\ got' = [got EXCEPT ![t] = s]
    /\ taking' = [taking EXCEPT ![t] = "leave"]
    /\ UNCHANGED <<idle, notifying, notifier, permit, notice>>

Pop(t, s) ==
    /\ taking[t] = "check"
    /\ s \in idle
    /\ idle' = idle \ {s}
    /\ got' = [got EXCEPT ![t] = s]
    /\ taking' = [taking EXCEPT ![t] = "leave"]
    /\ UNCHANGED <<notifying, notifier, permit, notice>>

FindEmpty(t) ==
    /\ taking[t] = "check"
    /\ idle = {}
    /\ taking' = [taking EXCEPT ![t] = "sleep"]
    /\ UNCHANGED <<idle, notifying, notifier, permit, notice, got>>

Wake(t) ==
    /\ taking[t] = "sleep"
    /\ notice[t] \in {"one", "permit"}
    /\ notice' = [notice EXCEPT ![t] = "none"]
    /\ taking' = [taking EXCEPT ![t] = "look"]
    /\ UNCHANGED <<idle, notifying, notifier, permit, got>>

\* The deadline passes: found at the check of an empty pool, or by the
\* timeout around the sleep, which looks at the wakeup first.
Expire(t) ==
    /\ \/ taking[t] = "check" /\ idle = {}
       \/ taking[t] = "sleep" /\ notice[t] \notin {"one", "permit"}
    /\ taking' = [taking EXCEPT ![t] = "leave"]
    /\ UNCHANGED <<idle, notifying, notifier, permit, notice, got>>

Return(t) ==
    /\ taking[t] = "leave"
    /\ DropNotified(t)
    /\ taking' = [taking EXCEPT ![t] = "out"]
    /\ UNCHANGED <<idle, notifying, notifier, got>>

\* try_take neither registers nor waits; on an empty pool it changes nothing.
TryTake(t, s) ==
    /\ taking[t] = "out" /\ got[t] = None
    /\ s \in idle
    /\ idle' = idle \ {s}
    /\ got' = [got EXCEPT ![t] = s]
    /\ UNCHANGED <<notifying, notifier, permit, notice, taking>>

\* The task that took a connection closes it.
Close(t) ==
    /\ taking[t] = "out" /\ got[t] # None
    /\ got' = [got EXCEPT ![t] = None]
    /\ UNCHANGED <<idle, notifying, notifier, permit, notice, taking>>
-----------------------------------------------------------------------------
TakeStep(t) ==
    \/ \E s \in Stream : Pop(t, s)
    \/ FindEmpty(t) \/ Wake(t) \/ Return(t)
    \/ taking[t] = "look" /\ Register(t)

PoolNext ==
    \/ \E s \in Stream : Push(s) \/ NotifyWaiter(s)
    \/ \E t \in Taker : Register(t) \/ TakeStep(t) \/ Expire(t) \/ Close(t)
    \/ \E t \in Taker, s \in Stream : TryTake(t, s)

\* The runtime runs every task that is ready; callers and the clock owe
\* nothing.
PoolSpec ==
    /\ PoolInit /\ [][PoolNext]_poolVars
    /\ \A t \in Taker : WF_poolVars(TakeStep(t))
    /\ \A s \in Stream : WF_poolVars(NotifyWaiter(s))
-----------------------------------------------------------------------------
Asleep == {t \in Taker : taking[t] = "sleep" /\ notice[t] \in {"none", "waiting"}}
Woken == {t \in Taker : notice[t] = "one"}
Looking == {t \in Taker : taking[t] \in {"look", "check"}}

\* While a task sleeps in take, every idle connection is spoken for: a push
\* is about to notify, a wakeup is on its way, or a task is about to look.
\* (push stores before it notifies, take registers before it looks:
\* state.rs:34-74.)
NoLostWakeup ==
    Asleep # {} =>
        Cardinality(idle) <=
            Cardinality(notifying) + Cardinality(Woken) + Cardinality(Looking)

HO == INSTANCE Handoff WITH
        asking <- {t \in Taker : taking[t] \in {"look", "check", "sleep"}},
        held <- [t \in Taker |-> IF got[t] = None THEN {} ELSE {got[t]}]

\* The pool, locks, notifiers and loops included, hands streams over as
\* Handoff says: to one taker each, and always to someone while a task asks
\* and a stream is idle (state.rs:34-90).
HandsOver == HO!Spec
=============================================================================
