--------------------------- MODULE Tunnels_proofs ---------------------------
(***************************************************************************)
(* For any finite sets of takers and reverse connections:                  *)
(*   - the pool loses no wakeup, and each of its steps is a step of        *)
(*     Handoff or no change;                                               *)
(*   - a drain that ends at zero cuts off no tunnel;                       *)
(*   - the tunnels use the pool and the drain as these allow, so that both *)
(*     results hold of them too, and a bridge leads to the node's service. *)
(***************************************************************************)
EXTENDS Tunnels, FiniteSetTheorems, TLAPS

(***************************************************************************)
(* StreamPool.                                                             *)
(***************************************************************************)

\* The registrations: a stored permit means that nobody waits, nobody waits
\* without a notifier, and a task has a Notified future exactly from its
\* registration until it returns or goes round the loop.
Registrations ==
    /\ permit => \A t \in Taker : notice[t] # "waiting"
    /\ (\E t \in Taker : notice[t] = "waiting") => notifier
    /\ \A t \in Taker : taking[t] \in {"check", "sleep"} => notice[t] # "none"
    /\ \A t \in Taker : taking[t] \in {"out", "look"} => notice[t] = "none"

\* A task inside the loop holds no connection yet.
LoopHoldsNothing ==
    \A t \in Taker : taking[t] \in {"look", "check", "sleep"} => got[t] = None

\* The inductive invariant of the pool.
PoolInv == PoolTypeOK /\ Registrations /\ LoopHoldsNothing /\ NoLostWakeup
-----------------------------------------------------------------------------
\* The sets that NoLostWakeup counts are finite.
LEMMA Finite ==
    ASSUME PoolTypeOK
    PROVE  /\ IsFiniteSet(idle) /\ IsFiniteSet(notifying)
           /\ IsFiniteSet(Woken) /\ IsFiniteSet(Looking)
           /\ Cardinality(idle) \in Nat /\ Cardinality(notifying) \in Nat
           /\ Cardinality(Woken) \in Nat /\ Cardinality(Looking) \in Nat
<1>1. Woken \subseteq Taker /\ Looking \subseteq Taker
  BY DEF Woken, Looking
<1>2. idle \subseteq Stream /\ notifying \subseteq Stream
  BY DEF PoolTypeOK
<1>3. /\ IsFiniteSet(idle) /\ IsFiniteSet(notifying)
      /\ IsFiniteSet(Woken) /\ IsFiniteSet(Looking)
  BY <1>1, <1>2, PoolAssumption, FS_Subset
<1> QED BY <1>3, FS_CardinalityType

\* Adding and removing one element, in the form the steps below use.
LEMMA AddOne ==
    ASSUME NEW S, IsFiniteSet(S), NEW x, x \notin S
    PROVE  Cardinality(S \cup {x}) = Cardinality(S) + 1
BY FS_AddElement

\* Taking one element away.
LEMMA RemoveOne ==
    ASSUME NEW S, IsFiniteSet(S), NEW x \in S
    PROVE  Cardinality(S \ {x}) = Cardinality(S) - 1
BY FS_RemoveElement

\* It holds initially.
LEMMA PoolInitInv == PoolInit => PoolInv
<1> SUFFICES ASSUME PoolInit PROVE PoolInv
  OBVIOUS
<1>1. PoolTypeOK
  BY DEF PoolInit, PoolTypeOK
<1>2. Registrations /\ LoopHoldsNothing
  BY DEF PoolInit, Registrations, LoopHoldsNothing
<1>3. Asleep = {}
  BY DEF PoolInit, Asleep
<1> QED BY <1>1, <1>2, <1>3 DEF PoolInv, NoLostWakeup

\* Types, registrations and holdings survive a step of a pusher.
LEMMA PushBasics ==
    ASSUME PoolInv, NEW s \in Stream, Push(s) \/ NotifyWaiter(s)
    PROVE  PoolTypeOK' /\ Registrations' /\ LoopHoldsNothing'
<1> USE DEF PoolInv
<1>1. CASE Push(s)
  BY <1>1 DEF Push, PoolTypeOK, Registrations, LoopHoldsNothing
<1>2. CASE NotifyWaiter(s)
  <2>1. PoolTypeOK'
    BY <1>2 DEF NotifyWaiter, NotifyOne, PoolTypeOK
  <2>2. Registrations'
    BY <1>2 DEF NotifyWaiter, NotifyOne, PoolTypeOK, Registrations
  <2>3. LoopHoldsNothing'
    BY <1>2 DEF NotifyWaiter, PoolTypeOK, LoopHoldsNothing
  <2> QED BY <2>1, <2>2, <2>3
<1> QED BY <1>1, <1>2

\* The same for a step of a taker.
LEMMA TakeBasics ==
    ASSUME PoolInv, NEW t \in Taker,
           \/ Register(t) \/ FindEmpty(t) \/ Wake(t) \/ Expire(t) \/ Return(t) \/ Close(t)
           \/ \E s \in Stream : Pop(t, s) \/ TryTake(t, s)
    PROVE  PoolTypeOK' /\ Registrations' /\ LoopHoldsNothing'
<1> USE DEF PoolInv
<1>1. CASE Register(t)
  BY <1>1 DEF Register, Enable, PoolTypeOK, Registrations, LoopHoldsNothing
<1>2. CASE FindEmpty(t) \/ Expire(t) \/ Close(t)
  BY <1>2 DEF FindEmpty, Expire, Close, PoolTypeOK, Registrations, LoopHoldsNothing
<1>3. CASE Wake(t)
  BY <1>3 DEF Wake, PoolTypeOK, Registrations, LoopHoldsNothing
<1>4. CASE \E s \in Stream : Pop(t, s) \/ TryTake(t, s)
  BY <1>4 DEF Pop, TryTake, PoolTypeOK, Registrations, LoopHoldsNothing
<1>5. CASE Return(t)
  <2>1. PoolTypeOK'
    BY <1>5 DEF Return, DropNotified, NotifyOne, PoolTypeOK
  <2>2. Registrations'
    BY <1>5 DEF Return, DropNotified, NotifyOne, PoolTypeOK, Registrations
  <2>3. LoopHoldsNothing'
    BY <1>5 DEF Return, PoolTypeOK, LoopHoldsNothing
  <2> QED BY <2>1, <2>2, <2>3
<1> QED BY <1>1, <1>2, <1>3, <1>4, <1>5
-----------------------------------------------------------------------------
\* push keeps NoLostWakeup: the stored connection and the pending wakeup
\* are counted on the two sides.
LEMMA PushCounts ==
    ASSUME PoolInv, NEW s \in Stream, Push(s)
    PROVE  NoLostWakeup'
<1>1. s \notin idle /\ s \notin notifying
  BY DEF Push, Unused
<1>2. /\ Cardinality(idle') = Cardinality(idle) + 1
      /\ Cardinality(notifying') = Cardinality(notifying) + 1
  BY <1>1, Finite, AddOne DEF Push, PoolInv
<1>3. Woken' = Woken /\ Looking' = Looking /\ Asleep' = Asleep
  BY DEF Push, Woken, Looking, Asleep
<1> QED BY <1>2, <1>3, Finite DEF PoolInv, NoLostWakeup

\* So does the wakeup: it goes to a waiter, or nobody waits and nobody sleeps.
LEMMA NotifyCounts ==
    ASSUME PoolInv, NEW s \in Stream, NotifyWaiter(s)
    PROVE  NoLostWakeup'
<1> SUFFICES ASSUME Asleep' # {}
             PROVE  Cardinality(idle') <=
                      Cardinality(notifying') + Cardinality(Woken') + Cardinality(Looking')
  BY DEF NoLostWakeup
<1>1. Cardinality(notifying') = Cardinality(notifying) - 1
  BY Finite, RemoveOne DEF NotifyWaiter, PoolInv
<1>2. idle' = idle /\ Looking' = Looking
  BY DEF NotifyWaiter, Looking
<1>3. \E u \in Taker : notice'[u] = "waiting"
  <2>1. Registrations'
    BY PushBasics
  <2> QED BY <2>1 DEF Registrations, Asleep
<1>4. notifier /\ NotifyOne(notice)
  BY <1>3 DEF NotifyWaiter, PoolInv, Registrations
<1>5. PICK t \in Taker : notice[t] = "waiting" /\ notice' = [notice EXCEPT ![t] = "one"]
  BY <1>3, <1>4 DEF NotifyOne
<1>6. Woken' = Woken \cup {t} /\ t \notin Woken
  BY <1>5 DEF Woken, PoolInv, PoolTypeOK
<1>7. Cardinality(Woken') = Cardinality(Woken) + 1
  BY <1>6, Finite, AddOne DEF PoolInv
<1>8. Asleep # {}
  BY <1>5 DEF Asleep, NotifyWaiter, PoolInv, PoolTypeOK
<1> QED BY <1>1, <1>2, <1>7, <1>8, Finite DEF PoolInv, NoLostWakeup

\* Registering adds a task that is about to look.
LEMMA RegisterCounts ==
    ASSUME PoolInv, NEW t \in Taker, Register(t)
    PROVE  NoLostWakeup'
<1>1. taking[t] \in {"out", "look"} /\ notice[t] = "none"
  BY DEF Register, PoolInv, Registrations
<1>2. idle' = idle /\ notifying' = notifying
  BY DEF Register
<1>3. Woken' = Woken /\ Asleep' = Asleep
  BY <1>1 DEF Register, Enable, Woken, Asleep, PoolInv, PoolTypeOK
<1>4. Looking' = Looking \cup {t}
  BY <1>1 DEF Register, Looking, PoolInv, PoolTypeOK
<1>5. Cardinality(Looking') >= Cardinality(Looking)
  <2>1. CASE t \in Looking
    <3>1. Looking' = Looking
      BY <1>4, <2>1
    <3> QED BY <3>1, Finite DEF PoolInv
  <2>2. CASE t \notin Looking
    BY <1>4, <2>2, Finite, AddOne DEF PoolInv
  <2> QED BY <2>1, <2>2
<1>6. Cardinality(Looking') \in Nat
  BY TakeBasics, Finite, <1>4, FS_AddElement, FS_CardinalityType DEF PoolInv
<1> QED BY <1>2, <1>3, <1>5, <1>6, Finite DEF PoolInv, NoLostWakeup

\* A task that looks and finds one takes one off each side; try_take only
\* takes one off the pool.
LEMMA PopCounts ==
    ASSUME PoolInv, NEW t \in Taker, NEW s \in Stream, Pop(t, s) \/ TryTake(t, s)
    PROVE  NoLostWakeup'
<1>1. Cardinality(idle') = Cardinality(idle) - 1
  BY Finite, RemoveOne DEF Pop, TryTake, PoolInv
<1>2. notifying' = notifying /\ Woken' = Woken
  BY DEF Pop, TryTake, Woken
<1>3. CASE Pop(t, s)
  <2>1. Looking' = Looking \ {t} /\ t \in Looking
    BY <1>3 DEF Pop, Looking, PoolInv, PoolTypeOK
  <2>2. Cardinality(Looking') = Cardinality(Looking) - 1
    BY <2>1, Finite, RemoveOne DEF PoolInv
  <2>3. Asleep' = Asleep
    BY <1>3 DEF Pop, Asleep, PoolInv, PoolTypeOK
  <2> QED BY <1>1, <1>2, <2>2, <2>3, Finite DEF PoolInv, NoLostWakeup
<1>4. CASE TryTake(t, s)
  <2>1. Looking' = Looking /\ Asleep' = Asleep
    BY <1>4 DEF TryTake, Looking, Asleep
  <2> QED BY <1>1, <1>2, <2>1, Finite DEF PoolInv, NoLostWakeup
<1> QED BY <1>3, <1>4

\* A task that looks and finds nothing sleeps only on an empty pool.
LEMMA EmptyCounts ==
    ASSUME PoolInv, PoolTypeOK', idle' = {}
    PROVE  NoLostWakeup'
<1>1. Cardinality(idle') = 0
  BY FS_EmptySet
<1>2. /\ Cardinality(notifying') \in Nat
      /\ Cardinality(Woken') \in Nat /\ Cardinality(Looking') \in Nat
  <2>1. Woken' \subseteq Taker /\ Looking' \subseteq Taker
    BY DEF Woken, Looking
  <2>2. notifying' \subseteq Stream
    BY DEF PoolTypeOK
  <2> QED BY <2>1, <2>2, PoolAssumption, FS_Subset, FS_CardinalityType
<1> QED BY <1>1, <1>2 DEF NoLostWakeup

\* A task that wakes up is about to look.
LEMMA WakeCounts ==
    ASSUME PoolInv, NEW t \in Taker, Wake(t)
    PROVE  NoLostWakeup'
<1>1. idle' = idle /\ notifying' = notifying
  BY DEF Wake
<1>2. Asleep' = Asleep
  BY DEF Wake, Asleep, PoolInv, PoolTypeOK
<1>3. Looking' = Looking \cup {t} /\ t \notin Looking
  BY DEF Wake, Looking, PoolInv, PoolTypeOK
<1>4. Cardinality(Looking') = Cardinality(Looking) + 1
  BY <1>3, Finite, AddOne DEF PoolInv
<1>5. Woken' = Woken \ {t}
  BY DEF Wake, Woken, PoolInv, PoolTypeOK
<1>6. /\ Cardinality(Woken') \in Nat
      /\ Cardinality(Woken') >= Cardinality(Woken) - 1
  <2>1. CASE t \in Woken
    <3>1. /\ IsFiniteSet(Woken \ {t})
          /\ Cardinality(Woken \ {t}) = Cardinality(Woken) - 1
      BY <2>1, Finite, FS_RemoveElement DEF PoolInv
    <3>2. Cardinality(Woken \ {t}) \in Nat
      BY <3>1, FS_CardinalityType
    <3> QED BY <1>5, <3>1, <3>2, Finite DEF PoolInv
  <2>2. CASE t \notin Woken
    <3>1. Woken' = Woken
      BY <1>5, <2>2
    <3> QED BY <3>1, Finite DEF PoolInv
  <2> QED BY <2>1, <2>2
<1> QED BY <1>1, <1>2, <1>4, <1>6, Finite DEF PoolInv, NoLostWakeup

\* A task that returns with a wakeup it did not use passes it on.
LEMMA ReturnCounts ==
    ASSUME PoolInv, NEW t \in Taker, Return(t)
    PROVE  NoLostWakeup'
<1> SUFFICES ASSUME Asleep' # {}
             PROVE  Cardinality(idle') <=
                      Cardinality(notifying') + Cardinality(Woken') + Cardinality(Looking')
  BY DEF NoLostWakeup
<1> DEFINE dropped == [notice EXCEPT ![t] = "none"]
<1>1. idle' = idle /\ notifying' = notifying
  BY DEF Return
<1>2. Looking' = Looking
  BY DEF Return, Looking, PoolInv, PoolTypeOK
<1>3. \E u \in Taker : notice'[u] = "waiting"
  <2>1. Registrations'
    BY TakeBasics
  <2> QED BY <2>1 DEF Registrations, Asleep
<1>4. CASE notice[t] = "one"
  <2>1. NotifyOne(dropped)
    BY <1>4 DEF Return, DropNotified
  <2>2. PICK u \in Taker : dropped[u] = "waiting" /\ notice' = [dropped EXCEPT ![u] = "one"]
    BY <1>3, <2>1 DEF NotifyOne
  <2>3. u # t /\ notice[u] = "waiting"
    BY <2>2 DEF PoolInv, PoolTypeOK
  <2>4. Woken' = (Woken \ {t}) \cup {u} /\ t \in Woken /\ u \notin Woken
    BY <1>4, <2>2, <2>3 DEF Woken, PoolInv, PoolTypeOK
  <2>5. IsFiniteSet(Woken \ {t}) /\ Cardinality(Woken \ {t}) = Cardinality(Woken) - 1
    BY <2>4, Finite, FS_RemoveElement DEF PoolInv
  <2>6. Cardinality(Woken') = Cardinality(Woken)
    BY <2>4, <2>5, Finite, AddOne DEF PoolInv
  <2>7. Asleep # {}
    BY <2>2, <2>3 DEF Asleep, Return, PoolInv, PoolTypeOK
  <2> QED BY <1>1, <1>2, <2>6, <2>7, Finite DEF PoolInv, NoLostWakeup
<1>5. CASE notice[t] # "one"
  <2>1. notice' = dropped
    BY <1>5 DEF Return, DropNotified
  <2>2. Woken' = Woken
    BY <1>5, <2>1 DEF Woken, PoolInv, PoolTypeOK
  <2>3. Asleep # {}
    BY <2>1 DEF Asleep, Return, PoolInv, PoolTypeOK
  <2> QED BY <1>1, <1>2, <2>2, <2>3, Finite DEF PoolInv, NoLostWakeup
<1> QED BY <1>4, <1>5

\* A deadline that passes ends a sleep, or a look at an empty pool; closing a
\* connection concerns neither side.
LEMMA OtherCounts ==
    ASSUME PoolInv, NEW t \in Taker, FindEmpty(t) \/ Expire(t) \/ Close(t)
    PROVE  NoLostWakeup'
<1>1. PoolTypeOK'
  BY TakeBasics
<1>2. CASE idle = {}
  <2>1. idle' = {}
    BY <1>2 DEF FindEmpty, Expire, Close
  <2> QED BY <1>1, <2>1, EmptyCounts
<1>3. CASE idle # {}
  <2>1. idle' = idle /\ notifying' = notifying /\ Woken' = Woken
    BY DEF FindEmpty, Expire, Close, Woken
  <2>2. Looking' = Looking
    BY <1>3 DEF FindEmpty, Expire, Close, Looking, PoolInv, PoolTypeOK
  <2>3. Asleep' \subseteq Asleep
    BY <1>3 DEF FindEmpty, Expire, Close, Asleep, PoolInv, PoolTypeOK
  <2> QED BY <2>1, <2>2, <2>3 DEF PoolInv, NoLostWakeup
<1> QED BY <1>2, <1>3
-----------------------------------------------------------------------------
\* PoolInv is inductive.
LEMMA PoolInvStep ==
    ASSUME PoolInv, [PoolNext]_poolVars
    PROVE  PoolInv'
<1>1. CASE \E s \in Stream : Push(s) \/ NotifyWaiter(s)
  BY <1>1, PushBasics, PushCounts, NotifyCounts DEF PoolInv
<1>2. CASE \E t \in Taker : Register(t)
  BY <1>2, TakeBasics, RegisterCounts DEF PoolInv
<1>3. CASE \E t \in Taker, s \in Stream : Pop(t, s) \/ TryTake(t, s)
  BY <1>3, TakeBasics, PopCounts DEF PoolInv
<1>4. CASE \E t \in Taker : Wake(t)
  BY <1>4, TakeBasics, WakeCounts DEF PoolInv
<1>5. CASE \E t \in Taker : Return(t)
  BY <1>5, TakeBasics, ReturnCounts DEF PoolInv
<1>6. CASE \E t \in Taker : FindEmpty(t) \/ Expire(t) \/ Close(t)
  BY <1>6, TakeBasics, OtherCounts DEF PoolInv
<1>7. CASE UNCHANGED poolVars
  BY <1>7 DEF poolVars, PoolInv, PoolTypeOK, Registrations, LoopHoldsNothing,
              NoLostWakeup, Asleep, Woken, Looking
<1> QED BY <1>1, <1>2, <1>3, <1>4, <1>5, <1>6, <1>7 DEF PoolNext, TakeStep

\* The pool's invariant holds always.
LEMMA PoolInvariant == PoolInit /\ [][PoolNext]_poolVars => []PoolInv
<1>1. PoolInit => PoolInv
  BY PoolInitInv
<1>2. PoolInv /\ [PoolNext]_poolVars => PoolInv'
  BY PoolInvStep
<1> QED BY <1>1, <1>2, PTL

\* StreamPool::take misses no wakeup: while a task sleeps, every idle
\* connection has a pending wakeup or a task about to look (state.rs:34-82).
THEOREM PoolLosesNoWakeup == PoolSpec => []NoLostWakeup
<1>1. PoolInv => NoLostWakeup
  BY DEF PoolInv
<1> QED BY <1>1, PoolInvariant, PTL DEF PoolSpec
-----------------------------------------------------------------------------
(***************************************************************************)
(* The refinement.                                                         *)
(***************************************************************************)

\* A step inside push or take that Handoff does not see.
LEMMA InnerSteps ==
    ASSUME PoolInv,
           \/ \E s \in Stream : NotifyWaiter(s)
           \/ \E t \in Taker : \/ FindEmpty(t) \/ Wake(t) \/ Return(t)
                               \/ taking[t] = "look" /\ Register(t)
    PROVE  UNCHANGED HO!vars
<1>1. idle' = idle /\ got' = got
  BY DEF NotifyWaiter, FindEmpty, Wake, Return, Register
<1>2. \A u \in Taker : taking'[u] \in {"look", "check", "sleep"}
                      <=> taking[u] \in {"look", "check", "sleep"}
  BY DEF NotifyWaiter, FindEmpty, Wake, Return, Register, PoolInv, PoolTypeOK
<1> QED BY <1>1, <1>2 DEF HO!vars

\* push is Offer, the first registration is Ask, a pop is Hand, an expiry is
\* GiveUp, and closing the connection is Finish.
LEMMA OuterSteps ==
    ASSUME PoolInv,
           \/ \E s \in Stream : Push(s)
           \/ \E t \in Taker : \/ taking[t] = "out" /\ Register(t)
                               \/ Expire(t) \/ Close(t)
           \/ \E t \in Taker, s \in Stream : Pop(t, s) \/ TryTake(t, s)
    PROVE  HO!Next
<1> USE DEF PoolInv, PoolTypeOK
<1>1. ASSUME NEW s \in Stream, Push(s)
      PROVE  HO!Offer(s)
  BY <1>1 DEF Push, Unused, HO!Offer
<1>2. ASSUME NEW t \in Taker, taking[t] = "out", Register(t)
      PROVE  HO!Ask(t)
  BY <1>2 DEF Register, HO!Ask
<1>3. ASSUME NEW t \in Taker, Expire(t)
      PROVE  HO!GiveUp(t)
  BY <1>3 DEF Expire, HO!GiveUp
<1>4. ASSUME NEW t \in Taker, Close(t)
      PROVE  HO!Finish(t)
  BY <1>4, PoolAssumption, ZenonT(30) DEF Close, HO!Finish
<1>5. ASSUME NEW t \in Taker, NEW s \in Stream, Pop(t, s) \/ TryTake(t, s)
      PROVE  HO!Hand(t, s)
  <2>1. /\ s \in idle /\ s # None /\ got[t] = None /\ idle' = idle \ {s}
        /\ got' = [got EXCEPT ![t] = s]
    BY <1>5, PoolAssumption DEF Pop, TryTake, LoopHoldsNothing
  <2>2. {u \in Taker : taking'[u] \in {"look", "check", "sleep"}} =
           {u \in Taker : taking[u] \in {"look", "check", "sleep"}} \ {t}
    BY <1>5 DEF Pop, TryTake
  <2>3. [u \in Taker |-> IF got'[u] = None THEN {} ELSE {got'[u]}] =
           [[u \in Taker |-> IF got[u] = None THEN {} ELSE {got[u]}] EXCEPT ![t] = {s}]
    BY <2>1, ZenonT(30)
  <2> QED BY <2>1, <2>2, <2>3 DEF HO!Hand
<1> QED BY <1>1, <1>2, <1>3, <1>4, <1>5 DEF HO!Next

\* A step of the pool is a step of Handoff, or one that it does not see.
LEMMA PoolStepHandsOver ==
    ASSUME PoolInv, [PoolNext]_poolVars
    PROVE  [HO!Next]_(HO!vars)
<1> SUFFICES HO!Next \/ UNCHANGED HO!vars
  OBVIOUS
<1>1. CASE UNCHANGED poolVars
  BY <1>1 DEF poolVars, HO!vars
<1>2. CASE \E t \in Taker : Register(t)
  BY <1>2, InnerSteps, OuterSteps DEF Register
<1>3. CASE PoolNext /\ ~\E t \in Taker : Register(t)
  BY <1>3, InnerSteps, OuterSteps DEF PoolNext, TakeStep
<1> QED BY <1>1, <1>2, <1>3

\* The pool starts as Handoff does.
LEMMA PoolInitHandsOver == PoolInit => HO!Init
BY DEF PoolInit, HO!Init

\* Every behaviour of the pool is one of Handoff, as far as safety goes: a
\* connection is handed to one taker, who did not hold one (state.rs:33-88).
THEOREM PoolImplementsHandoff == PoolSpec => HO!Init /\ [][HO!Next]_(HO!vars)
<1>1. PoolInv /\ [PoolNext]_poolVars => [HO!Next]_(HO!vars)
  BY PoolStepHandsOver
<1> QED BY <1>1, PoolInitHandsOver, PoolInvariant, PTL DEF PoolSpec
-----------------------------------------------------------------------------
(***************************************************************************)
(* InFlight.                                                               *)
(***************************************************************************)

\* What DrainedIsIdle needs to be inductive: an accepted tunnel is counted,
\* and the flag is set for good before the drain looks at the count.
DrainInv ==
    /\ accepted \subseteq tracked
    /\ drain # "up" => shutdown
    /\ DrainedIsIdle

\* One step keeps DrainInv.  Accept needs the flag clear, so it cannot run
\* once the drain is over; CheckZero sees a count that includes every
\* accepted tunnel.
LEMMA DrainInvStep ==
    ASSUME DrainInv, [InFlightNext]_inFlightVars
    PROVE  DrainInv'
<1> USE DEF DrainInv, DrainedIsIdle, Over
<1>1. CASE \E k \in Task : Track(k) \/ Untrack(k) \/ NotifyZero(k)
  BY <1>1 DEF Track, Untrack, NotifyZero
<1>2. CASE \E k \in Task : Accept(k)
  BY <1>2 DEF Accept
<1>3. CASE BeginShutdown
  BY <1>3 DEF BeginShutdown
<1>4. CASE DrainStep
  BY <1>4 DEF DrainStep, RegisterZero, CheckZero, WakeZero
<1>5. CASE DrainTimeout
  BY <1>5 DEF DrainTimeout
<1>6. CASE Exit
  BY <1>6 DEF Exit
<1>7. CASE UNCHANGED inFlightVars
  BY <1>7 DEF inFlightVars
<1> QED BY <1>1, <1>2, <1>3, <1>4, <1>5, <1>6, <1>7 DEF InFlightNext

\* The drain's invariant holds always.
LEMMA DrainInvariant == InFlightInit /\ [][InFlightNext]_inFlightVars => []DrainInv
<1>1. InFlightInit => DrainInv
  BY DEF InFlightInit, DrainInv, DrainedIsIdle
<1>2. DrainInv /\ [InFlightNext]_inFlightVars => DrainInv'
  BY DrainInvStep
<1> QED BY <1>1, <1>2, PTL

\* graceful_drain: when wait_zero returns because the count is zero, no
\* handler that passed refuse_if_draining is left (main.rs:898, tunnel.rs:29).
THEOREM DrainCutsOffNothing == InFlightSpec => []DrainedIsIdle
<1>1. DrainInv => DrainedIsIdle
  BY DEF DrainInv
<1> QED BY <1>1, DrainInvariant, PTL DEF InFlightSpec
-----------------------------------------------------------------------------
(***************************************************************************)
(* The tunnels.                                                            *)
(***************************************************************************)

\* Where the parties to a tunnel are, and what is on a connection.
TunnelTypes ==
    /\ relay \in [Taker -> {"none", "arriving", "take", "forward", "status", "bridge", "serve"}]
    /\ near \in [Stream -> {"closed", "wait", "check", "connect", "proxy"}]
    /\ far \in [Stream -> {"closed", "arriving", "open"}]
    /\ wire \in [Stream -> {"none", "request", "ok", "err"}]
    /\ worker \in [Worker -> Stream \cup {None}]

\* A connection that is idle or taken is registered, and it is in one place:
\* in the pool or with one taker.
OnePlace ==
    /\ \A s \in idle : far[s] = "open"
    /\ \A c \in Taker : got[c] # None =>
          /\ got[c] \notin idle /\ far[got[c]] = "open"
          /\ \A d \in Taker \ {c} : got[d] # got[c]

\* No request was sent on s, and so no status byte is on it.
Unasked(s) == wire[s] = "none" /\ near[s] \in {"wait", "closed"}

\* What is on taker c's connection at each stage of its handler.
OwnAnswer(c) ==
    /\ relay[c] \in {"take", "forward"} /\ got[c] # None => Unasked(got[c])
    /\ relay[c] \in {"forward", "status", "bridge"} => got[c] # None
    /\ relay[c] = "status" /\ wire[got[c]] = "ok" => near[got[c]] \in {"proxy", "closed"}
    /\ relay[c] = "bridge" =>
          wire[got[c]] = "none" /\ near[got[c]] \in {"proxy", "closed"}

\* Nothing is left on a connection from an earlier use when the relay asks on
\* it: the status byte that it passes on is the answer to its own request.
AnswersAreOwn ==
    /\ \A s \in Stream : far[s] = "arriving" \/ s \in idle => Unasked(s)
    /\ \A c \in Taker : OwnAnswer(c)

\* The inductive invariant of the tunnels, with those of the pool and the
\* drain.
TunnelInv == TunnelTypes /\ OnePlace /\ AnswersAreOwn

\* Every step of the tunnels is a step of the pool or leaves it alone.
LEMMA TunnelsRunThePool ==
    ASSUME [Next]_vars
    PROVE  [PoolNext]_poolVars
<1> SUFFICES PoolNext \/ UNCHANGED poolVars
  OBVIOUS
<1>1. CASE UNCHANGED vars
  BY <1>1 DEF vars, tunnelVars
<1>2. CASE \E c \in Taker : EstablishTunnel(c) \/ SubStep(c) \/ HangUp(c)
  BY <1>2 DEF EstablishTunnel, SubStep, OpenStream, OpenStreamFails, ReadOk, ReadError,
              HangUp, Drop
<1>3. ASSUME NEW c \in Taker, RelayStep(c)
      PROVE  PoolNext \/ UNCHANGED poolVars
  <2>1. CASE \/ ServeDirect(c) \/ DirectEnds(c) \/ RequestLost(c) \/ ForwardRequest(c)
             \/ RelayStatus(c)
    BY <2>1 DEF ServeDirect, DirectEnds, RequestLost, ForwardRequest, RelayStatus
  <2>2. CASE RelayTunnel(c)
    BY <2>2 DEF RelayTunnel, PoolNext
  <2>3. CASE InTake(c)
    BY <2>3 DEF InTake, PoolNext, TakeStep
  <2>4. CASE TakeReturns(c)
    BY <2>4 DEF TakeReturns, PoolNext, TakeStep
  <2>5. CASE PoolWaitTimeout(c)
    BY <2>5 DEF PoolWaitTimeout, PoolNext
  <2>6. CASE ForwardFails(c) \/ RelayFails(c) \/ BridgeEnds(c)
    <3>1. Close(c)
      BY <2>6 DEF ForwardFails, RelayFails, BridgeEnds, RelayEnds
    <3> QED BY <3>1 DEF PoolNext
  <2> QED BY <1>3, <2>1, <2>2, <2>3, <2>4, <2>5, <2>6 DEF RelayStep
<1>4. CASE EstablishMuxSession \/ \E k \in Session : DriverEnds(k) \/ SessionBreaks(k)
  BY <1>4 DEF EstablishMuxSession, DriverEnds, SessionBreaks
<1>5. ASSUME NEW s \in Stream, StreamStep(s) \/ ConnectFails(s) \/ ServiceEnds(s)
      PROVE  PoolNext \/ UNCHANGED poolVars
  <2>1. CASE ReverseRegistration(s)
    BY <2>1 DEF ReverseRegistration, PoolNext
  <2>2. CASE NotifyTaker(s)
    BY <2>2 DEF NotifyTaker, PoolNext
  <2>3. CASE RefuseIfDraining(s) \/ PeerEnds(s) \/ ConnectFails(s) \/ ServiceEnds(s)
    BY <2>3 DEF RefuseIfDraining, PeerEnds, ConnectFails, ServiceEnds, RefuseTunnel, TunnelEnds
  <2>4. CASE AcceptTunnel(s) \/ ConnectLocal(s) \/ NodeDrain(NotifyZero(s))
    BY <2>4 DEF AcceptTunnel, ConnectLocal, NodeDrain
  <2> QED BY <1>5, <2>1, <2>2, <2>3, <2>4 DEF StreamStep
<1>6. CASE \/ \E w \in Worker, s \in Stream : OpenReverse(w, s)
           \/ \E w \in Worker : Dispatch(w) \/ WorkerStops(w) \/ ReverseBreaks(w)
  BY <1>6 DEF OpenReverse, Dispatch, WorkerStops, ReverseBreaks, ReverseCloses
<1>7. CASE \/ NodeDrain(BeginShutdown) \/ NodeDrain(DrainStep) \/ NodeDrain(DrainTimeout)
           \/ NodeExit
  BY <1>7 DEF NodeDrain, NodeExit
<1> QED BY <1>1, <1>2, <1>3, <1>4, <1>5, <1>6, <1>7 DEF Next, Step

\* Every step of the tunnels is a step of the handlers and the drain, or
\* leaves them alone.  A worker counts the handler of its own connection.
LEMMA TunnelsRunTheDrain ==
    ASSUME TunnelTypes, [Next]_vars
    PROVE  [InFlightNext]_inFlightVars
<1> SUFFICES InFlightNext \/ UNCHANGED inFlightVars
  OBVIOUS
<1>1. CASE UNCHANGED vars
  BY <1>1 DEF vars, tunnelVars
<1>2. CASE \E c \in Taker : EstablishTunnel(c) \/ SubStep(c) \/ HangUp(c)
  BY <1>2 DEF EstablishTunnel, SubStep, OpenStream, OpenStreamFails, ReadOk, ReadError,
              HangUp, Drop
<1>3. CASE \E c \in Taker : RelayStep(c)
  BY <1>3 DEF RelayStep, ServeDirect, DirectEnds, RequestLost, ForwardRequest, RelayStatus,
              RelayTunnel, InTake, TakeReturns, PoolWaitTimeout, ForwardFails, RelayFails,
              BridgeEnds, RelayEnds
<1>4. CASE EstablishMuxSession \/ \E k \in Session : DriverEnds(k) \/ SessionBreaks(k)
  BY <1>4 DEF EstablishMuxSession, DriverEnds, SessionBreaks
<1>5. ASSUME NEW s \in Stream, StreamStep(s) \/ ConnectFails(s) \/ ServiceEnds(s)
      PROVE  InFlightNext \/ UNCHANGED inFlightVars
  <2>1. CASE ReverseRegistration(s) \/ NotifyTaker(s) \/ ConnectLocal(s)
    BY <2>1 DEF ReverseRegistration, NotifyTaker, ConnectLocal
  <2>2. CASE RefuseIfDraining(s) \/ PeerEnds(s) \/ ConnectFails(s) \/ ServiceEnds(s)
    <3>1. Untrack(s)
      BY <2>2 DEF RefuseIfDraining, PeerEnds, ConnectFails, ServiceEnds, RefuseTunnel,
                  TunnelEnds
    <3> QED BY <3>1, TaskAssumption DEF InFlightNext
  <2>3. CASE AcceptTunnel(s) \/ NodeDrain(NotifyZero(s))
    BY <2>3, TaskAssumption DEF AcceptTunnel, NodeDrain, InFlightNext
  <2> QED BY <1>5, <2>1, <2>2, <2>3 DEF StreamStep
<1>6. ASSUME NEW w \in Worker, Dispatch(w)
      PROVE  InFlightNext
  BY <1>6, TaskAssumption DEF Dispatch, InFlightNext, TunnelTypes
<1>7. CASE \/ \E w \in Worker, s \in Stream : OpenReverse(w, s)
           \/ \E w \in Worker : WorkerStops(w) \/ ReverseBreaks(w)
  BY <1>7 DEF OpenReverse, WorkerStops, ReverseBreaks, ReverseCloses
<1>8. CASE \/ NodeDrain(BeginShutdown) \/ NodeDrain(DrainStep) \/ NodeDrain(DrainTimeout)
           \/ NodeExit
  BY <1>8 DEF NodeDrain, NodeExit, InFlightNext
<1> QED BY <1>1, <1>2, <1>3, <1>4, <1>5, <1>6, <1>7, <1>8 DEF Next, Step

\* A step that leaves a taker and its connection alone keeps OwnAnswer.
LEMMA SameTaker ==
    ASSUME NEW c \in Taker, OwnAnswer(c), relay'[c] = relay[c], got'[c] = got[c],
           got[c] # None => near'[got[c]] = near[got[c]] /\ wire'[got[c]] = wire[got[c]]
    PROVE  OwnAnswer(c)'
<1>1. CASE got[c] = None
  BY <1>1 DEF OwnAnswer
<1>2. CASE got[c] # None
  BY <1>2 DEF OwnAnswer, Unasked
<1> QED BY <1>1, <1>2

\* The subscribers' steps, and the relay's before it takes a connection.
LEMMA FarFromStreams ==
    ASSUME TunnelInv, UNCHANGED <<idle, got, near, far, wire, worker>>,
           \/ UNCHANGED relay
           \/ \E c \in Taker, r \in {"none", "arriving", "serve"} :
                 relay' = [relay EXCEPT ![c] = r]
           \/ \E c \in Taker : got[c] = None /\ relay' = [relay EXCEPT ![c] = "take"]
    PROVE  TunnelInv'
<1>1. TunnelTypes' /\ OnePlace'
  <2>1. TunnelTypes'
    BY DEF TunnelInv, TunnelTypes
  <2>2. OnePlace'
    BY DEF TunnelInv, OnePlace
  <2> QED BY <2>1, <2>2
<1>2. \A c \in Taker :
        \/ relay'[c] = relay[c]
        \/ relay'[c] \in {"none", "arriving", "serve"}
        \/ relay'[c] = "take" /\ got[c] = None
  BY DEF TunnelInv, TunnelTypes
<1>3. \A s \in Stream : Unasked(s)' = Unasked(s)
  BY DEF Unasked
<1>4. \A s \in Stream : far'[s] = "arriving" \/ s \in idle' => Unasked(s)'
  BY <1>3 DEF TunnelInv, AnswersAreOwn
<1>5. ASSUME NEW c \in Taker
      PROVE  OwnAnswer(c)'
  <2>1. OwnAnswer(c) /\ got'[c] = got[c] /\ UNCHANGED <<near, wire>>
    BY DEF TunnelInv, AnswersAreOwn
  <2>2. CASE relay'[c] = relay[c]
    BY <2>1, <2>2, SameTaker
  <2>3. CASE relay'[c] \in {"none", "arriving", "serve"}
    BY <2>3 DEF OwnAnswer
  <2>4. CASE relay'[c] = "take" /\ got[c] = None
    BY <2>1, <2>4 DEF OwnAnswer
  <2> QED BY <1>2, <2>2, <2>3, <2>4
<1>6. AnswersAreOwn'
  BY <1>4, <1>5 DEF AnswersAreOwn
<1> QED BY <1>1, <1>6 DEF TunnelInv

\* A popped connection was idle: no other taker has it, and it is unasked.
LEMMA TakeKeepsTunnels ==
    ASSUME PoolInv, TunnelInv, NEW c \in Taker,
           InTake(c) \/ PoolWaitTimeout(c) \/ TakeReturns(c)
    PROVE  TunnelInv'
<1> USE DEF TunnelInv
<1>1. ASSUME NEW s \in Stream, Pop(c, s), UNCHANGED <<relay, near, far, wire, worker>>,
             relay[c] = "take"
      PROVE  TunnelInv'
  <2>1. /\ s \in idle /\ idle' = idle \ {s} /\ got' = [got EXCEPT ![c] = s] /\ s # None
    BY <1>1, PoolAssumption DEF Pop
  <2>2. /\ got'[c] = s /\ \A d \in Taker \ {c} : got'[d] = got[d] /\ got[d] # s
    BY <2>1 DEF PoolInv, PoolTypeOK, OnePlace
  <2>3. TunnelTypes'
    BY <1>1 DEF TunnelTypes
  <2>4. OnePlace'
    <3>1. \A r \in idle' : far'[r] = "open"
      BY <1>1, <2>1 DEF OnePlace
    <3>2. s \notin idle' /\ far'[s] = "open" /\ \A d \in Taker \ {c} : got'[d] # s
      BY <1>1, <2>1, <2>2 DEF OnePlace
    <3>3. ASSUME NEW d \in Taker \ {c}, got[d] # None
          PROVE  /\ got[d] \notin idle' /\ far'[got[d]] = "open"
                 /\ \A e \in Taker \ {d} : got'[e] # got[d]
      <4>1. got[d] \notin idle /\ far[got[d]] = "open" /\ \A e \in Taker \ {d} : got[e] # got[d]
        BY <3>3 DEF OnePlace
      <4> QED BY <1>1, <2>1, <2>2, <4>1
    <3> QED BY <2>2, <3>1, <3>2, <3>3 DEF OnePlace
  <2>5. \A r \in Stream : Unasked(r)' = Unasked(r)
    BY <1>1 DEF Unasked
  <2>6. \A r \in Stream : far'[r] = "arriving" \/ r \in idle' => Unasked(r)'
    BY <1>1, <2>1, <2>5 DEF AnswersAreOwn
  <2>7. OwnAnswer(c)'
    <3>1. Unasked(s)'
      BY <2>1, <2>5 DEF AnswersAreOwn
    <3> QED BY <1>1, <2>2, <3>1 DEF OwnAnswer, Unasked
  <2>8. \A d \in Taker \ {c} : OwnAnswer(d)'
    BY <1>1, <2>2, SameTaker DEF AnswersAreOwn
  <2> QED BY <2>3, <2>4, <2>6, <2>7, <2>8 DEF AnswersAreOwn
<1>2. CASE InTake(c)
  <2>1. CASE \E s \in Stream : Pop(c, s)
    BY <1>1, <1>2, <2>1 DEF InTake, revVars
  <2>2. CASE FindEmpty(c) \/ Wake(c) \/ Register(c)
    <3>1. UNCHANGED <<idle, got, near, far, wire, worker, relay>>
      BY <1>2, <2>2 DEF InTake, revVars, FindEmpty, Wake, Register
    <3> QED BY <3>1, FarFromStreams
  <2> QED BY <1>2, <2>1, <2>2 DEF InTake
<1>3. CASE PoolWaitTimeout(c)
  <2>1. UNCHANGED <<idle, got, near, far, wire, worker, relay>>
    BY <1>3 DEF PoolWaitTimeout, Expire, revVars
  <2> QED BY <2>1, FarFromStreams
<1>4. CASE TakeReturns(c)
  <2>1. /\ UNCHANGED <<idle, got, near, far, wire, worker>> /\ relay[c] = "take"
        /\ relay' = [relay EXCEPT ![c] = IF got[c] = None THEN "none" ELSE "forward"]
    BY <1>4 DEF TakeReturns, Return, revVars
  <2>2. CASE got[c] = None
    BY <2>1, <2>2, FarFromStreams
  <2>3. CASE got[c] # None
    <3>1. relay' = [relay EXCEPT ![c] = "forward"]
      BY <2>1, <2>3
    <3>2. relay'[c] = "forward" /\ \A d \in Taker \ {c} : relay'[d] = relay[d]
      BY <3>1 DEF TunnelTypes
    <3>3. TunnelTypes'
      BY <2>1, <3>1 DEF TunnelTypes
    <3>4. OnePlace'
      BY <2>1 DEF OnePlace
    <3>5. \A r \in Stream : far'[r] = "arriving" \/ r \in idle' => Unasked(r)'
      BY <2>1 DEF AnswersAreOwn, Unasked
    <3>6. OwnAnswer(c)'
      BY <2>1, <2>3, <3>2 DEF AnswersAreOwn, OwnAnswer, Unasked
    <3>7. \A d \in Taker \ {c} : OwnAnswer(d)'
      BY <2>1, <3>2, SameTaker DEF AnswersAreOwn
    <3> QED BY <3>3, <3>4, <3>5, <3>6, <3>7 DEF AnswersAreOwn
  <2> QED BY <2>2, <2>3
<1> QED BY <1>2, <1>3, <1>4

\* The request and the status byte go over the taker's own connection.
LEMMA RelayKeepsTunnels ==
    ASSUME PoolInv, TunnelInv, NEW c \in Taker, ForwardRequest(c) \/ RelayStatus(c)
    PROVE  TunnelInv'
<1> USE DEF TunnelInv
<1>1. /\ UNCHANGED <<idle, got, near, far, worker>>
      /\ got[c] \in Stream /\ \A d \in Taker \ {c} : got[d] # got[c]
  BY DEF ForwardRequest, RelayStatus, poolVars, AnswersAreOwn, OwnAnswer, OnePlace, PoolInv,
         PoolTypeOK
<1>2. /\ got[c] \notin idle /\ far[got[c]] = "open"
  BY <1>1, PoolAssumption DEF OnePlace
<1>3. /\ \A s \in Stream \ {got[c]} : wire'[s] = wire[s]
      /\ \A d \in Taker \ {c} : relay'[d] = relay[d]
  BY <1>1 DEF ForwardRequest, RelayStatus, TunnelTypes
<1>4. OnePlace'
  BY <1>1 DEF OnePlace
<1>5. \A r \in Stream : far'[r] = "arriving" \/ r \in idle' => Unasked(r)'
  BY <1>1, <1>2, <1>3 DEF AnswersAreOwn, Unasked
<1>6. ASSUME NEW d \in Taker \ {c}
      PROVE  OwnAnswer(d)'
  <2>1. OwnAnswer(d) /\ (got[d] # None => got[d] \in Stream \ {got[c]})
    BY <1>1 DEF AnswersAreOwn, PoolInv, PoolTypeOK
  <2> QED BY <1>1, <1>3, <2>1, SameTaker
<1>7. CASE ForwardRequest(c)
  <2>1. /\ relay[c] = "forward" /\ relay' = [relay EXCEPT ![c] = "status"]
        /\ wire' = IF near[got[c]] = "wait" THEN [wire EXCEPT ![got[c]] = "request"] ELSE wire
    BY <1>7 DEF ForwardRequest
  <2>2. TunnelTypes' /\ relay'[c] = "status"
    BY <1>1, <2>1 DEF TunnelTypes
  <2>3. wire[got[c]] = "none" /\ got[c] # None
    BY <2>1 DEF AnswersAreOwn, OwnAnswer, Unasked
  <2>4. wire'[got[c]] # "ok"
    BY <1>1, <2>1, <2>3 DEF TunnelTypes
  <2>5. OwnAnswer(c)'
    BY <1>1, <2>2, <2>3, <2>4 DEF OwnAnswer
  <2> QED BY <1>4, <1>5, <1>6, <2>2, <2>5 DEF AnswersAreOwn
<1>8. CASE RelayStatus(c)
  <2>1. /\ relay[c] = "status" /\ relay' = [relay EXCEPT ![c] = "bridge"]
        /\ wire[got[c]] = "ok" /\ wire' = [wire EXCEPT ![got[c]] = "none"]
    BY <1>8 DEF RelayStatus
  <2>2. TunnelTypes' /\ relay'[c] = "bridge" /\ wire'[got[c]] = "none"
    BY <1>1, <2>1 DEF TunnelTypes
  <2>3. got[c] # None /\ near[got[c]] \in {"proxy", "closed"}
    BY <2>1 DEF AnswersAreOwn, OwnAnswer
  <2>4. OwnAnswer(c)'
    BY <1>1, <2>2, <2>3 DEF OwnAnswer
  <2> QED BY <1>4, <1>5, <1>6, <2>2, <2>4 DEF AnswersAreOwn
<1> QED BY <1>7, <1>8

\* A handler that ends closes a connection that nobody else has.
LEMMA EndKeepsTunnels ==
    ASSUME PoolInv, TunnelInv, NEW c \in Taker,
           ForwardFails(c) \/ RelayFails(c) \/ BridgeEnds(c)
    PROVE  TunnelInv'
<1> USE DEF TunnelInv
<1>1. /\ UNCHANGED <<idle, near, wire, worker>>
      /\ got[c] # None /\ got' = [got EXCEPT ![c] = None]
      /\ relay' = [relay EXCEPT ![c] = "none"] /\ far' = [far EXCEPT ![got[c]] = "closed"]
  BY DEF ForwardFails, RelayFails, BridgeEnds, RelayEnds, Close
<1>2. /\ got[c] \in Stream /\ got[c] \notin idle
      /\ \A d \in Taker \ {c} : got[d] # got[c] /\ got'[d] = got[d]
  BY <1>1 DEF OnePlace, PoolInv, PoolTypeOK
<1>3. far'[got[c]] = "closed" /\ \A s \in Stream \ {got[c]} : far'[s] = far[s]
  BY <1>1, <1>2 DEF TunnelTypes
<1>4. /\ got'[c] = None /\ relay'[c] = "none"
      /\ \A d \in Taker \ {c} : relay'[d] = relay[d]
  BY <1>1 DEF PoolInv, PoolTypeOK, TunnelTypes
<1>5. TunnelTypes'
  BY <1>1, <1>2 DEF TunnelTypes
<1>6. OnePlace'
  <2>1. \A s \in idle' : far'[s] = "open"
    BY <1>1, <1>2, <1>3 DEF OnePlace, PoolInv, PoolTypeOK
  <2>2. ASSUME NEW d \in Taker, got'[d] # None
        PROVE  /\ got'[d] \notin idle' /\ far'[got'[d]] = "open"
               /\ \A e \in Taker \ {d} : got'[e] # got'[d]
    <3>1. d # c /\ got'[d] = got[d] /\ got[d] \in Stream \ {got[c]}
      BY <1>2, <1>4, <2>2 DEF PoolInv, PoolTypeOK
    <3>2. got[d] \notin idle /\ far[got[d]] = "open" /\ \A e \in Taker \ {d} : got[e] # got[d]
      BY <2>2, <3>1 DEF OnePlace
    <3>3. \A e \in Taker \ {d} : got'[e] = None \/ got'[e] = got[e]
      BY <1>2, <1>4
    <3> QED BY <1>1, <1>3, <2>2, <3>1, <3>2, <3>3
  <2> QED BY <2>1, <2>2 DEF OnePlace
<1>7. \A s \in Stream : far'[s] = "arriving" \/ s \in idle' => Unasked(s)'
  BY <1>1, <1>3 DEF AnswersAreOwn, Unasked
<1>8. OwnAnswer(c)'
  BY <1>4 DEF OwnAnswer
<1>9. \A d \in Taker \ {c} : OwnAnswer(d)'
  BY <1>1, <1>2, <1>4, SameTaker DEF AnswersAreOwn
<1> QED BY <1>5, <1>6, <1>7, <1>8, <1>9 DEF AnswersAreOwn

\* The node's end of s becomes b, and m is on its wire: the request was read,
\* or the handler that read it answers or goes on.
LEMMA NodeEndKeepsTunnels ==
    ASSUME PoolInv, TunnelInv, NEW s \in Stream,
           NEW b \in {"closed", "check", "proxy"}, NEW m \in {"none", "ok", "err"},
           UNCHANGED <<idle, got, far, relay>>,
           near' = [near EXCEPT ![s] = b], wire' = [wire EXCEPT ![s] = m],
           worker' \in [Worker -> Stream \cup {None}],
           \/ b = "check" /\ m = "none" /\ wire[s] = "request"
           \/ near[s] \in {"check", "connect"} /\ (m = "ok" => b = "proxy")
    PROVE  TunnelInv'
<1> USE DEF TunnelInv
<1>1. /\ near'[s] = b /\ wire'[s] = m
      /\ \A r \in Stream \ {s} : near'[r] = near[r] /\ wire'[r] = wire[r]
  BY DEF TunnelTypes
<1>2. TunnelTypes' /\ OnePlace'
  BY DEF TunnelTypes, OnePlace
<1>3. \A r \in Stream : Unasked(r) => Unasked(r)'
  BY <1>1 DEF Unasked
<1>4. ASSUME NEW c \in Taker, relay[c] = "bridge"
      PROVE  wire'[got[c]] = "none" /\ near'[got[c]] \in {"proxy", "closed"}
  <2>1. got[c] \in Stream /\ wire[got[c]] = "none" /\ near[got[c]] \in {"proxy", "closed"}
    BY <1>4 DEF AnswersAreOwn, OwnAnswer, PoolInv, PoolTypeOK
  <2> QED BY <1>1, <2>1
<1>5. ASSUME NEW c \in Taker, relay[c] = "status", wire'[got[c]] = "ok"
      PROVE  near'[got[c]] \in {"proxy", "closed"}
  <2>1. got[c] \in Stream /\ (wire[got[c]] = "ok" => near[got[c]] \in {"proxy", "closed"})
    BY <1>5 DEF AnswersAreOwn, OwnAnswer, PoolInv, PoolTypeOK
  <2> QED BY <1>1, <1>5, <2>1
<1>6. AnswersAreOwn'
  <2>1. \A c \in Taker : got[c] # None => got[c] \in Stream
    BY DEF PoolInv, PoolTypeOK
  <2>2. \A r \in Stream : far'[r] = "arriving" \/ r \in idle' => Unasked(r)'
    BY <1>3 DEF AnswersAreOwn
  <2>3. ASSUME NEW c \in Taker
        PROVE  OwnAnswer(c)'
    <3>1. OwnAnswer(c)
      BY DEF AnswersAreOwn
    <3>2. got[c] # None /\ Unasked(got[c]) => Unasked(got[c])'
      BY <1>3, <2>1
    <3> QED BY <1>4, <1>5, <3>1, <3>2 DEF OwnAnswer
  <2> QED BY <2>2, <2>3 DEF AnswersAreOwn
<1> QED BY <1>2, <1>6

\* An end that closes while something is on the wire leaves it there.
LEMMA CloseKeepsTunnels ==
    ASSUME PoolInv, TunnelInv, UNCHANGED <<idle, got, far, relay, wire>>,
           worker' \in [Worker -> Stream \cup {None}],
           near' \in [Stream -> {"closed", "wait", "check", "connect", "proxy"}],
           \A s \in Stream : near'[s] = near[s] \/ near'[s] = "closed"
    PROVE  TunnelInv'
<1> USE DEF TunnelInv
<1>1. TunnelTypes' /\ OnePlace'
  BY DEF TunnelTypes, OnePlace
<1>2. \A s \in Stream : Unasked(s) => Unasked(s)'
  BY DEF Unasked
<1>3. AnswersAreOwn'
  <2>1. \A c \in Taker : got[c] # None => got[c] \in Stream
    BY DEF PoolInv, PoolTypeOK
  <2>2. \A s \in Stream : far'[s] = "arriving" \/ s \in idle' => Unasked(s)'
    BY <1>2 DEF AnswersAreOwn
  <2>3. ASSUME NEW c \in Taker
        PROVE  OwnAnswer(c)'
    <3>1. OwnAnswer(c) /\ (got[c] # None => near'[got[c]] \in {near[got[c]], "closed"})
      BY <2>1 DEF AnswersAreOwn
    <3>2. got[c] # None /\ Unasked(got[c]) => Unasked(got[c])'
      BY <1>2, <2>1
    <3> QED BY <3>1, <3>2 DEF OwnAnswer
  <2> QED BY <2>2, <2>3 DEF AnswersAreOwn
<1> QED BY <1>1, <1>3

LEMMA HandlerKeepsTunnels ==
    ASSUME PoolInv, TunnelInv, NEW s \in Stream,
           \/ RefuseIfDraining(s) \/ AcceptTunnel(s) \/ ConnectLocal(s) \/ PeerEnds(s)
           \/ ConnectFails(s) \/ ServiceEnds(s)
    PROVE  TunnelInv'
<1>1. UNCHANGED <<idle, got, far, relay, worker>>
  BY DEF RefuseIfDraining, AcceptTunnel, ConnectLocal, PeerEnds, ConnectFails, ServiceEnds,
         RefuseTunnel, TunnelEnds, poolVars
<1>2. worker' \in [Worker -> Stream \cup {None}]
  BY <1>1 DEF TunnelInv, TunnelTypes
<1>3. CASE RefuseIfDraining(s) \/ ConnectFails(s)
  <2>1. /\ near' = [near EXCEPT ![s] = "closed"] /\ wire' = [wire EXCEPT ![s] = "err"]
        /\ near[s] \in {"check", "connect"}
    BY <1>3 DEF RefuseIfDraining, ConnectFails, RefuseTunnel, TunnelEnds
  <2> QED BY <1>1, <1>2, <2>1, NodeEndKeepsTunnels
<1>4. CASE AcceptTunnel(s)
  <2>1. /\ near' = [near EXCEPT ![s] = "connect"] /\ UNCHANGED wire /\ near[s] = "check"
    BY <1>4 DEF AcceptTunnel
  <2>2. \A r \in Stream : Unasked(r) => Unasked(r)'
    BY <2>1 DEF TunnelInv, TunnelTypes, Unasked
  <2>3. TunnelTypes' /\ OnePlace'
    BY <1>1, <2>1 DEF TunnelInv, TunnelTypes, OnePlace
  <2>4. \A r \in Stream : far'[r] = "arriving" \/ r \in idle' => Unasked(r)'
    BY <1>1, <2>2 DEF TunnelInv, AnswersAreOwn
  <2>5. ASSUME NEW c \in Taker
        PROVE  OwnAnswer(c)'
    <3>1. OwnAnswer(c) /\ got'[c] = got[c] /\ relay'[c] = relay[c]
      BY <1>1 DEF TunnelInv, AnswersAreOwn
    <3>2. CASE got[c] = s
      BY <1>1, <2>1, <3>1, <3>2 DEF OwnAnswer, Unasked
    <3>3. CASE got[c] # s
      <4>1. got[c] # None => near'[got[c]] = near[got[c]] /\ wire'[got[c]] = wire[got[c]]
        BY <2>1, <3>3 DEF TunnelInv, TunnelTypes, PoolInv, PoolTypeOK
      <4> QED BY <3>1, <4>1, SameTaker
    <3> QED BY <3>2, <3>3
  <2> QED BY <2>3, <2>4, <2>5 DEF TunnelInv, AnswersAreOwn
<1>5. CASE ConnectLocal(s)
  <2>1. /\ near' = [near EXCEPT ![s] = "proxy"] /\ wire' = [wire EXCEPT ![s] = "ok"]
        /\ near[s] = "connect"
    BY <1>5 DEF ConnectLocal
  <2> QED BY <1>1, <1>2, <2>1, NodeEndKeepsTunnels
<1>6. CASE PeerEnds(s) \/ ServiceEnds(s)
  <2>1. near' = [near EXCEPT ![s] = "closed"] /\ UNCHANGED wire
    BY <1>6 DEF PeerEnds, ServiceEnds, TunnelEnds
  <2>2. /\ near' \in [Stream -> {"closed", "wait", "check", "connect", "proxy"}]
        /\ \A r \in Stream : near'[r] = near[r] \/ near'[r] = "closed"
    BY <2>1 DEF TunnelInv, TunnelTypes
  <2> QED BY <1>1, <1>2, <2>1, <2>2, CloseKeepsTunnels
<1> QED BY <1>3, <1>4, <1>5, <1>6

\* A worker opens a connection under a name that nothing refers to, and hands
\* over or closes the one it waits on.
LEMMA WorkerKeepsTunnels ==
    ASSUME PoolInv, TunnelInv, NEW w \in Worker,
           \/ \E s \in Stream : OpenReverse(w, s)
           \/ Dispatch(w) \/ WorkerStops(w) \/ ReverseBreaks(w)
    PROVE  TunnelInv'
<1>1. ASSUME NEW s \in Stream, OpenReverse(w, s)
      PROVE  TunnelInv'
  <2>1. /\ UNCHANGED <<idle, got, relay>>
        /\ s \notin idle /\ \A c \in Taker : got[c] # s
        /\ near' = [near EXCEPT ![s] = "wait"] /\ far' = [far EXCEPT ![s] = "arriving"]
        /\ wire' = [wire EXCEPT ![s] = "none"] /\ worker' = [worker EXCEPT ![w] = s]
    BY <1>1 DEF OpenReverse, Fresh, Unused, poolVars
  <2>2. /\ near'[s] = "wait" /\ wire'[s] = "none"
        /\ \A r \in Stream \ {s} : near'[r] = near[r] /\ wire'[r] = wire[r] /\ far'[r] = far[r]
    BY <2>1 DEF TunnelInv, TunnelTypes
  <2>3. \A c \in Taker : got[c] # None => got[c] \in Stream \ {s}
    BY <2>1 DEF PoolInv, PoolTypeOK
  <2>4. TunnelTypes'
    BY <2>1 DEF TunnelInv, TunnelTypes
  <2>5. OnePlace'
    <3>1. \A r \in idle : r \in Stream \ {s} /\ far[r] = "open"
      BY <2>1 DEF TunnelInv, OnePlace, PoolInv, PoolTypeOK
    <3> QED BY <2>1, <2>2, <2>3, <3>1 DEF TunnelInv, OnePlace
  <2>6. ASSUME NEW r \in Stream, far'[r] = "arriving" \/ r \in idle'
        PROVE  Unasked(r)'
    <3>1. CASE r = s
      BY <2>2, <3>1 DEF Unasked
    <3>2. CASE r # s
      BY <2>1, <2>2, <2>6, <3>2 DEF TunnelInv, AnswersAreOwn, Unasked
    <3> QED BY <3>1, <3>2
  <2>7. \A c \in Taker : OwnAnswer(c)'
    BY <2>1, <2>2, <2>3, SameTaker DEF TunnelInv, AnswersAreOwn
  <2> QED BY <2>4, <2>5, <2>6, <2>7 DEF TunnelInv, AnswersAreOwn
<1>2. CASE Dispatch(w)
  <2>1. /\ UNCHANGED <<idle, got, far, relay>> /\ worker[w] \in Stream
        /\ wire[worker[w]] = "request"
        /\ near' = [near EXCEPT ![worker[w]] = "check"]
        /\ wire' = [wire EXCEPT ![worker[w]] = "none"]
        /\ worker' \in [Worker -> Stream \cup {None}]
    BY <1>2 DEF Dispatch, poolVars, TunnelInv, TunnelTypes
  <2> QED BY <2>1, NodeEndKeepsTunnels
<1>3. CASE WorkerStops(w) \/ ReverseBreaks(w)
  <2>1. /\ UNCHANGED <<idle, got, far, relay, wire>>
        /\ near' = [near EXCEPT ![worker[w]] = "closed"]
        /\ worker' \in [Worker -> Stream \cup {None}]
    BY <1>3 DEF WorkerStops, ReverseBreaks, ReverseCloses, poolVars, TunnelInv, TunnelTypes
  <2>2. /\ near' \in [Stream -> {"closed", "wait", "check", "connect", "proxy"}]
        /\ \A r \in Stream : near'[r] = near[r] \/ near'[r] = "closed"
    BY <2>1 DEF TunnelInv, TunnelTypes
  <2> QED BY <2>1, <2>2, CloseKeepsTunnels
<1> QED BY <1>1, <1>2, <1>3

\* push puts a registered connection into the pool once.
LEMMA RegistrationKeepsTunnels ==
    ASSUME PoolInv, TunnelInv, NEW s \in Stream, ReverseRegistration(s)
    PROVE  TunnelInv'
<1>1. /\ UNCHANGED <<got, near, wire, worker, relay>> /\ far[s] = "arriving"
      /\ idle' = idle \cup {s} /\ far' = [far EXCEPT ![s] = "open"]
      /\ \A c \in Taker : got[c] # s
  BY DEF ReverseRegistration, Push, Unused
<1>2. TunnelTypes'
  BY <1>1 DEF TunnelInv, TunnelTypes
<1>3. far'[s] = "open" /\ \A r \in Stream \ {s} : far'[r] = far[r]
  BY <1>1 DEF TunnelInv, TunnelTypes
<1>4. OnePlace'
  <2>1. \A r \in idle' : far'[r] = "open"
    BY <1>1, <1>3 DEF TunnelInv, OnePlace, PoolInv, PoolTypeOK
  <2>2. \A c \in Taker : got[c] # None => got[c] \in Stream \ {s}
    BY <1>1 DEF PoolInv, PoolTypeOK
  <2> QED BY <1>1, <1>3, <2>1, <2>2 DEF TunnelInv, OnePlace
<1>5. \A r \in Stream : far'[r] = "arriving" \/ r \in idle' => Unasked(r)'
  BY <1>1, <1>3 DEF TunnelInv, AnswersAreOwn, Unasked
<1>6. \A c \in Taker : OwnAnswer(c)'
  BY <1>1, SameTaker DEF TunnelInv, AnswersAreOwn
<1> QED BY <1>2, <1>4, <1>5, <1>6 DEF TunnelInv, AnswersAreOwn

\* The process that exits closes every end of its.
LEMMA ExitKeepsTunnels ==
    ASSUME PoolInv, TunnelInv, NodeExit
    PROVE  TunnelInv'
<1>1. /\ UNCHANGED <<idle, got, far, relay, wire>>
      /\ near' = [s \in Stream |-> "closed"] /\ worker' = [w \in Worker |-> None]
  BY DEF NodeExit, poolVars
<1> QED BY <1>1, CloseKeepsTunnels

\* TunnelInv is inductive, given what the pool keeps.
LEMMA TunnelInvStep ==
    ASSUME PoolInv, TunnelInv, [Next]_vars
    PROVE  TunnelInv'
<1>1. CASE UNCHANGED vars
  BY <1>1, FarFromStreams DEF vars, tunnelVars, poolVars, revVars
<1>2. ASSUME NEW c \in Taker, EstablishTunnel(c) \/ SubStep(c) \/ HangUp(c)
      PROVE  TunnelInv'
  <2>1. /\ UNCHANGED <<idle, got, near, far, wire, worker>>
        /\ UNCHANGED relay \/ relay' = [relay EXCEPT ![c] = "arriving"]
    BY <1>2 DEF EstablishTunnel, SubStep, OpenStream, OpenStreamFails, ReadOk, ReadError,
                HangUp, Drop, Fallback, poolVars, revVars
  <2> QED BY <2>1, FarFromStreams
<1>3. ASSUME NEW c \in Taker, RelayStep(c)
      PROVE  TunnelInv'
  <2>1. CASE ServeDirect(c) \/ DirectEnds(c) \/ RequestLost(c)
    <3>1. /\ UNCHANGED <<idle, got, near, far, wire, worker>>
          /\ \/ relay' = [relay EXCEPT ![c] = "none"]
             \/ relay' = [relay EXCEPT ![c] = "serve"]
      BY <2>1 DEF ServeDirect, DirectEnds, RequestLost, poolVars, revVars
    <3> QED BY <3>1, FarFromStreams
  <2>2. CASE RelayTunnel(c)
    <3>1. /\ UNCHANGED <<idle, got, near, far, wire, worker>> /\ got[c] = None
          /\ relay' = [relay EXCEPT ![c] = "take"]
      BY <2>2 DEF RelayTunnel, Register, revVars, PoolInv, LoopHoldsNothing
    <3> QED BY <3>1, FarFromStreams
  <2> QED BY <1>3, <2>1, <2>2, TakeKeepsTunnels, RelayKeepsTunnels, EndKeepsTunnels
          DEF RelayStep
<1>4. CASE EstablishMuxSession \/ \E k \in Session : DriverEnds(k) \/ SessionBreaks(k)
  BY <1>4, FarFromStreams DEF EstablishMuxSession, DriverEnds, SessionBreaks, poolVars, revVars
<1>5. ASSUME NEW s \in Stream, StreamStep(s) \/ ConnectFails(s) \/ ServiceEnds(s)
      PROVE  TunnelInv'
  <2>1. CASE NotifyTaker(s) \/ NodeDrain(NotifyZero(s))
    <3>1. UNCHANGED <<idle, got, near, far, wire, worker, relay>>
      BY <2>1 DEF NotifyTaker, NotifyWaiter, NodeDrain, poolVars, revVars
    <3> QED BY <3>1, FarFromStreams
  <2> QED BY <1>5, <2>1, RegistrationKeepsTunnels, HandlerKeepsTunnels DEF StreamStep
<1>6. CASE \/ \E w \in Worker, s \in Stream : OpenReverse(w, s)
           \/ \E w \in Worker : Dispatch(w) \/ WorkerStops(w) \/ ReverseBreaks(w)
  BY <1>6, WorkerKeepsTunnels
<1>7. CASE NodeDrain(BeginShutdown) \/ NodeDrain(DrainStep) \/ NodeDrain(DrainTimeout)
  BY <1>7, FarFromStreams DEF NodeDrain, poolVars, revVars
<1>8. CASE NodeExit
  BY <1>8, ExitKeepsTunnels
<1> QED BY <1>1, <1>2, <1>3, <1>4, <1>5, <1>6, <1>7, <1>8 DEF Next, Step

\* The three invariants hold initially, ...
LEMMA TunnelInitInv == Init => PoolInv /\ DrainInv /\ TunnelInv
<1>1. Init => PoolInv
  BY PoolInitInv DEF Init
<1>2. Init => DrainInv
  BY DEF Init, InFlightInit, DrainInv, DrainedIsIdle
<1>3. Init => TunnelInv
  <2> SUFFICES ASSUME Init PROVE TunnelInv
    OBVIOUS
  <2>1. TunnelTypes
    BY DEF Init, TunnelTypes
  <2>2. OnePlace
    BY DEF Init, PoolInit, OnePlace
  <2>3. AnswersAreOwn
    BY DEF Init, PoolInit, AnswersAreOwn, OwnAnswer
  <2> QED BY <2>1, <2>2, <2>3 DEF TunnelInv
<1> QED BY <1>1, <1>2, <1>3

\* ... and always.
LEMMA TunnelInvariant == Spec => [](PoolInv /\ DrainInv /\ TunnelInv)
<1>1. PoolInv /\ DrainInv /\ TunnelInv /\ [Next]_vars => (PoolInv /\ DrainInv /\ TunnelInv)'
  <2> SUFFICES ASSUME PoolInv, DrainInv, TunnelInv, [Next]_vars
               PROVE  PoolInv' /\ DrainInv' /\ TunnelInv'
    OBVIOUS
  <2>1. PoolInv'
    BY TunnelsRunThePool, PoolInvStep
  <2>2. DrainInv'
    BY TunnelsRunTheDrain, DrainInvStep DEF TunnelInv
  <2> QED BY <2>1, <2>2, TunnelInvStep
<1> QED BY <1>1, TunnelInitInv, PTL DEF Spec

\* A bridge at the relay leads to the node's service, on a connection of its
\* own, whatever breaks, drains or is reused on the way (relay.rs:122-171,
\* state.rs:65-71, reverse.rs:125).
THEOREM BridgesReachTheService == Spec => []BridgedToService
<1>1. PoolInv /\ TunnelInv => BridgedToService
  BY PoolAssumption DEF TunnelInv, AnswersAreOwn, OwnAnswer, OnePlace, BridgedToService
<1> QED BY <1>1, TunnelInvariant, PTL

\* The pool of reverse connections, as the relay and the workers use it,
\* loses no wakeup (state.rs:34-82, relay.rs:101).
THEOREM TunnelsLoseNoWakeup == Spec => []NoLostWakeup
<1>1. PoolInv => NoLostWakeup
  BY DEF PoolInv
<1> QED BY <1>1, TunnelInvariant, PTL

\* As the relay and the workers use it, the pool hands each reverse
\* connection to one tunnel at a time, who did not have one (state.rs:33-88).
THEOREM TunnelsHandOver == Spec => HO!Init /\ [][HO!Next]_(HO!vars)
<1>1. Init => HO!Init
  BY PoolInitHandsOver DEF Init
<1>2. PoolInv /\ [Next]_vars => [HO!Next]_(HO!vars)
  BY TunnelsRunThePool, PoolStepHandsOver
<1> QED BY <1>1, <1>2, TunnelInvariant, PTL DEF Spec

\* A node that drains to zero cuts off no tunnel that it accepted over a
\* reverse connection (main.rs:898, tunnel.rs:29, reverse.rs:125).
THEOREM TunnelsAreDrained == Spec => []DrainedIsIdle
<1>1. DrainInv => DrainedIsIdle
  BY DEF DrainInv
<1> QED BY <1>1, TunnelInvariant, PTL
=============================================================================
