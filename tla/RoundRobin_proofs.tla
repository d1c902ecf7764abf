-------------------------- MODULE RoundRobin_proofs ---------------------------
(***************************************************************************)
(* The shares that instances get, for any number of nodes, any weights and *)
(* limits and any routes.                                                  *)
(***************************************************************************)
EXTENDS RoundRobin, Balancer_proofs

(* The weights that the nodes of a subset share its picks by.              *)
WeightsIn(S) == [n \in Shared(S) |-> WeightOf(backends[n])]

(* The types, and what the fixed instances and the slots that are given    *)
(* back at once imply: no node is ejected, and only the last one chosen    *)
(* may have a connection.                                                  *)
RoundRobinTypeOK ==
    /\ BalancerTypeOK
    /\ backends \in [Node -> Backend]
    /\ labels \in [Node -> [{"version"} -> Version]]
    /\ routes \in RouteTables
    /\ turns \in [SUBSET Node -> Nat]
    /\ picks \in [Node -> Nat]
    /\ outlier = [n \in Node |-> NotOutlier]
    /\ slots = {} => active = [n \in Node |-> 0]
    /\ slots # {} =>
         \E s \in CL!Slot : /\ slots = {s}
                            /\ active = [n \in Node |-> IF n = s.node THEN 1 ELSE 0]

(* The running weights are in balance, whatever is chosen from.            *)
BalanceInv ==
    /\ SumFunctionOnSet(current, Node) = 0
    /\ \A most \in Nat :
         (\A n \in Node : WeightOf(backends[n]) =< most) => Bounded(current, most)

(* The running weight of a node is its share of the turns, less what it    *)
(* was given.                                                              *)
SharesOf(S) ==
    /\ Shared(S) # {} /\ Even(current, WeightsIn(S), Shared(S))
    /\ \A n \in Shared(S) :
         current[n] = turns[S] * WeightOf(backends[n]) - picks[n] * TotalWeight(S)
    /\ \A n \in S \ Shared(S) : picks[n] = 0

(* Nodes outside of the subsets in use have had no part.                   *)
ShareInv ==
    Disjoint =>
        /\ \A n \in Node : (\A S \in Used : n \notin S) => current[n] = 0 /\ picks[n] = 0
        /\ \A S \in Used : SharesOf(S)

RoundRobinInv == RoundRobinTypeOK /\ BalanceInv /\ ShareInv

-----------------------------------------------------------------------------
(* Requests are routed to nodes that host the service.                     *)
LEMMA CandidatesInNode ==
    ASSUME RoundRobinTypeOK, NEW S \in Candidates
    PROVE  S \in SUBSET Node
<1>1. DOMAIN labels = Node
  BY DEF RoundRobinTypeOK
<1>2. PICK r : S = Subset(labels, r)
  BY DEF Candidates
<1> QED BY <1>1, <1>2 DEF Subset

(* While no connection is open, pick goes over the nodes that share.       *)
LEMMA EligibleIsShared ==
    ASSUME RoundRobinTypeOK, slots = {}, NEW S \in SUBSET Node
    PROVE  /\ Restrict(backends, S) \in Instances
           /\ Eligible(Restrict(backends, S), {}) = Shared(S)
<1> DEFINE cand == Restrict(backends, S)
<1>1. cand \in [S -> Backend] /\ DOMAIN cand = S /\ \A n \in S : cand[n] = backends[n]
  BY DEF Restrict, RoundRobinTypeOK
<1>2. cand \in Instances
  BY <1>1 DEF Instances
<1>3. \A n \in Node : active[n] = 0 /\ ~Ejected(n)
  <2>1. \A n \in Node : outlier[n] = NotOutlier /\ active[n] = 0
    BY DEF RoundRobinTypeOK
  <2>2. ~(NotOutlier.left > 0)
    BY DEF NotOutlier
  <2> QED BY <2>1, <2>2 DEF Ejected
<1> HIDE DEF cand
<1>4. Open(cand, {}) = {n \in S : CL!Below(0, backends[n].limit)}
  BY <1>1, <1>3 DEF Open, Untried
<1>5. {n \in DOMAIN cand : cand[n].weight > 0} = {n \in S : backends[n].weight > 0}
  BY <1>1
<1>6. {n \in DOMAIN cand : ~Ejected(n)} = S
  BY <1>1, <1>3
<1>7. FailOpen(Open(cand, {}), {n \in DOMAIN cand : cand[n].weight > 0}) = Shared(S)
  BY <1>4, <1>5 DEF Shared
<1>8. Shared(S) \subseteq S
  BY DEF Shared, FailOpen
<1>9. FailOpen(Shared(S), S) = Shared(S)
  BY <1>8 DEF FailOpen
<1>10. Eligible(cand, {}) = Shared(S)
  BY <1>6, <1>7, <1>9 DEF Eligible
<1> QED BY <1>2, <1>10 DEF cand

(* The nodes that share and their weights.                                 *)
LEMMA SharedFacts ==
    ASSUME RoundRobinTypeOK, NEW S \in SUBSET Node
    PROVE  /\ Shared(S) \subseteq S /\ IsFiniteSet(Shared(S))
           /\ \A n \in Node : WeightOf(backends[n]) \in Nat \ {0}
           /\ WeightsIn(S) \in [Shared(S) -> Nat \ {0}]
           /\ \A n \in Shared(S) : WeightsIn(S)[n] = WeightOf(backends[n])
           /\ TotalWeight(S) = SumFunctionOnSet(WeightsIn(S), Shared(S))
           /\ TotalWeight(S) \in Nat
           /\ Shared(S) # {} => TotalWeight(S) > 0
<1>1. Shared(S) \subseteq S
  BY DEF Shared, FailOpen
<1>2. IsFiniteSet(Shared(S))
  BY <1>1, NodeFinite, FS_Subset
<1>3. \A n \in Node : WeightOf(backends[n]) \in Nat \ {0}
  <2> SUFFICES ASSUME NEW n \in Node
               PROVE  WeightOf(backends[n]) \in Nat \ {0}
    OBVIOUS
  <2>1. backends[n].weight \in Nat
    BY BalancerAssumption DEF RoundRobinTypeOK, Backend
  <2> QED BY <2>1 DEF WeightOf
<1>4. /\ WeightsIn(S) \in [Shared(S) -> Nat \ {0}]
      /\ \A n \in Shared(S) : WeightsIn(S)[n] = WeightOf(backends[n])
  BY <1>1, <1>3 DEF WeightsIn
<1>5. TotalWeight(S) = SumFunctionOnSet(WeightsIn(S), Shared(S))
  BY DEF TotalWeight, Total, WeightsIn
<1> DEFINE E == Shared(S)
           w == WeightsIn(S)
<1>6. \A n \in E : w[n] \in Nat /\ w[n] > 0
  BY <1>4
<1> HIDE DEF E, w
<1>7. SumFunctionOnSet(w, E) \in Nat
  BY <1>2, <1>6, SumNat DEF E
<1>8. ASSUME NEW n \in E
      PROVE  SumFunctionOnSet(w, E) > 0
  <2>1. SumFunctionOnSet(w, E) = w[n] + SumFunctionOnSet(w, E \ {n})
    BY <1>2, <1>6, SumRemove DEF E
  <2>2. SumFunctionOnSet(w, E \ {n}) \in Nat
    BY <1>2, <1>6, SumNat DEF E
  <2> QED BY <1>6, <2>1, <2>2
<1> QED BY <1>1, <1>2, <1>3, <1>4, <1>5, <1>7, <1>8 DEF E, w

(* A pick is a turn among the nodes that share the subset's picks.         *)
LEMMA PickIsTurn ==
    ASSUME RoundRobinTypeOK, NEW c \in Client, NEW S \in Candidates, Pick(c, S)
    PROVE  \E n \in Shared(S) :
             /\ Choose(c, Restrict(backends, S), {}, n)
             /\ Turn(current, current', WeightsIn(S), Shared(S), n)
             /\ picks' = [picks EXCEPT ![n] = @ + 1]
<1>1. S \in SUBSET Node /\ slots = {}
  BY CandidatesInNode DEF Pick
<1> DEFINE cand == Restrict(backends, S)
           E == Eligible(cand, {})
<1>2. cand \in Instances /\ E = Shared(S)
  BY <1>1, EligibleIsShared
<1>3. PICK n \in Node : Choose(c, cand, {}, n) /\ picks' = [picks EXCEPT ![n] = @ + 1]
  BY DEF Pick
<1>4. BalancerTypeOK
  BY DEF RoundRobinTypeOK
<1>5. [m \in E |-> WeightOf(cand[m])] = WeightsIn(S)
  <2>1. \A m \in Shared(S) : cand[m] = backends[m]
    BY <1>1, SharedFacts DEF Restrict
  <2> HIDE DEF cand
  <2> QED BY <1>2, <2>1 DEF WeightsIn
<1> HIDE DEF cand
<1>6. Turn(current, current', [m \in E |-> WeightOf(cand[m])], E, n)
  BY <1>2, <1>3, <1>4, ChooseIsTurn
<1>7. Turn(current, current', WeightsIn(S), Shared(S), n)
  BY <1>2, <1>5, <1>6
<1>8. n \in Shared(S)
  BY <1>7 DEF Turn
<1> QED BY <1>3, <1>7, <1>8 DEF cand

(* While the instances are the same, so is who shares what.                *)
LEMMA SharesFixed ==
    ASSUME NEW S, backends' = backends
    PROVE  /\ Shared(S)' = Shared(S) /\ WeightsIn(S)' = WeightsIn(S)
           /\ TotalWeight(S)' = TotalWeight(S)
BY DEF Shared, WeightsIn, TotalWeight, FailOpen

(* Only the running weights of the nodes that share matter to them.        *)
LEMMA SameEven ==
    ASSUME NEW E, IsFiniteSet(E), NEW w, NEW cur, \A m \in E : cur[m] \in Int,
           NEW nxt, \A m \in E : nxt[m] = cur[m], Even(cur, w, E)
    PROVE  Even(nxt, w, E)
<1>1. ASSUME NEW A \in SUBSET E
      PROVE  SumFunctionOnSet(nxt, A) = SumFunctionOnSet(cur, A)
  <2>1. IsFiniteSet(A)
    BY FS_Subset
  <2> QED BY <2>1, SumSame
<1> QED BY <1>1 DEF Even

(* Before the first turn the shares are even.                              *)
LEMMA ZeroEven ==
    ASSUME NEW E, IsFiniteSet(E), NEW w, SumFunctionOnSet(w, E) \in Nat \ {0},
           NEW cur, \A m \in E : cur[m] = 0
    PROVE  Even(cur, w, E)
<1> DEFINE total == SumFunctionOnSet(w, E)
           k == Cardinality(E)
<1>1. ASSUME NEW A \in SUBSET E
      PROVE  SumFunctionOnSet(cur, A) = 0
  <2>1. IsFiniteSet(A)
    BY FS_Subset
  <2> QED BY <2>1, SumZero
<1>2. ASSUME NEW A \in SUBSET E, A # {}
      PROVE  LagOf(total, k)[k - Cardinality(A)] \in Nat
  <2>1. k \in Nat \ {0} /\ k - Cardinality(A) \in 0 .. k - 1
    BY <1>2, PartSize
  <2> HIDE DEF k, total
  <2> QED BY <2>1, LagRuleExists DEF total
<1>3. ASSUME NEW A \in SUBSET E, A # {}
      PROVE  SumFunctionOnSet(cur, A) =< LagOf(total, k)[k - Cardinality(A)]
  BY <1>1, <1>2, <1>3
<1>4. SumFunctionOnSet(cur, E) = 0
  BY <1>1
<1>5. \A m \in E : -total < cur[m]
  OBVIOUS
<1> QED BY <1>3, <1>4, <1>5 DEF Even

(* A pick keeps the types.                                                 *)
LEMMA PickTypes ==
    ASSUME RoundRobinTypeOK, NEW c \in Client, NEW S \in Candidates, Pick(c, S)
    PROVE  RoundRobinTypeOK'
<1>1. S \in SUBSET Node /\ slots = {}
  BY CandidatesInNode DEF Pick
<1>2. PICK n \in Shared(S) : /\ Choose(c, Restrict(backends, S), {}, n)
                             /\ picks' = [picks EXCEPT ![n] = @ + 1]
  BY PickIsTurn
<1>3. n \in Node /\ Restrict(backends, S) \in Instances
  BY <1>1, SharedFacts, EligibleIsShared
<1>4. BalancerTypeOK /\ BalancerTypeOK'
  BY <1>2, <1>3, ChooseFacts DEF RoundRobinTypeOK
<1> DEFINE s == [client |-> c, node |-> n, limit |-> Restrict(backends, S)[n].limit]
<1>5. slots' = {s} /\ active' = [active EXCEPT ![n] = @ + 1] /\ outlier' = outlier
  BY <1>1, <1>2 DEF Choose
<1>6. s \in CL!Slot /\ s.node = n
  BY <1>4, <1>5 DEF BalancerTypeOK
<1>7. active' = [m \in Node |-> IF m = s.node THEN 1 ELSE 0]
  <2>1. active = [m \in Node |-> 0]
    BY <1>1 DEF RoundRobinTypeOK
  <2> HIDE DEF s
  <2> QED BY <1>3, <1>5, <1>6, <2>1
<1>8. /\ turns' \in [SUBSET Node -> Nat] /\ picks' \in [Node -> Nat]
      /\ UNCHANGED <<backends, labels, routes>>
  <2>1. turns' = [turns EXCEPT ![S] = @ + 1] /\ UNCHANGED <<backends, labels, routes>>
    BY DEF Pick
  <2> QED BY <1>1, <1>2, <1>3, <2>1 DEF RoundRobinTypeOK
<1> HIDE DEF s
<1> QED BY <1>4, <1>5, <1>6, <1>7, <1>8 DEF RoundRobinTypeOK

(* A pick keeps the balance.                                               *)
LEMMA PickKeepsBalance ==
    ASSUME RoundRobinTypeOK, BalanceInv, NEW c \in Client, NEW S \in Candidates, Pick(c, S)
    PROVE  BalanceInv'
<1>1. S \in SUBSET Node /\ backends' = backends
  BY CandidatesInNode DEF Pick
<1>2. PICK n \in Shared(S) : /\ Choose(c, Restrict(backends, S), {}, n)
                             /\ Turn(current, current', WeightsIn(S), Shared(S), n)
  BY PickIsTurn
<1>3. SumFunctionOnSet(current', Node) = 0
  <2>1. Restrict(backends, S) \in Instances /\ n \in Node
    BY <1>1, SharedFacts, EligibleIsShared DEF Pick
  <2> QED BY <1>2, <2>1, ChooseFacts DEF BalanceInv, RoundRobinTypeOK
<1>4. ASSUME NEW most \in Nat, \A m \in Node : WeightOf(backends[m]) =< most
      PROVE  Bounded(current', most)
  <2>1. Bounded(current, most)
    BY <1>4 DEF BalanceInv
  <2>2. \A m \in Shared(S) : WeightsIn(S)[m] =< most
    BY <1>1, <1>4, SharedFacts
  <2> QED BY <1>2, <2>1, <2>2, TurnBounded
<1> QED BY <1>1, <1>3, <1>4 DEF BalanceInv, Bounded

(* Before a pick from S, its nodes have their shares, also when it is the  *)
(* first one.                                                              *)
LEMMA SharesBefore ==
    ASSUME RoundRobinInv, NEW S \in SUBSET Node, Shared(S) # {}, Disjoint,
           \A T \in Used : T = S \/ T \cap S = {}
    PROVE  SharesOf(S)
<1>1. CASE S \in Used
  BY <1>1 DEF RoundRobinInv, ShareInv
<1>2. CASE S \notin Used
  <2>1. turns[S] = 0
    BY <1>2 DEF Used, RoundRobinInv, RoundRobinTypeOK
  <2>2. \A n \in S : current[n] = 0 /\ picks[n] = 0
    <3>1. \A n \in S : \A T \in Used : n \notin T
      BY <1>2
    <3> QED BY <3>1 DEF RoundRobinInv, ShareInv
  <2>3. /\ Shared(S) \subseteq S /\ IsFiniteSet(Shared(S))
        /\ \A n \in S : WeightOf(backends[n]) \in Nat
        /\ TotalWeight(S) = SumFunctionOnSet(WeightsIn(S), Shared(S))
        /\ TotalWeight(S) \in Nat \ {0}
    BY SharedFacts DEF RoundRobinInv
  <2>4. Even(current, WeightsIn(S), Shared(S))
    BY <2>2, <2>3, ZeroEven
  <2>5. \A n \in Shared(S) :
           current[n] = turns[S] * WeightOf(backends[n]) - picks[n] * TotalWeight(S)
    BY <2>1, <2>2, <2>3
  <2> QED BY <2>2, <2>4, <2>5 DEF SharesOf
<1> QED BY <1>1, <1>2

(* The pick gives them their shares of one more turn.                      *)
LEMMA SharesAfter ==
    ASSUME RoundRobinTypeOK, NEW c \in Client, NEW S \in Candidates, Pick(c, S), SharesOf(S)
    PROVE  SharesOf(S)'
<1>1. /\ S \in SUBSET Node /\ turns' = [turns EXCEPT ![S] = @ + 1]
      /\ backends' = backends
  BY CandidatesInNode DEF Pick
<1> DEFINE E == Shared(S)
           w == WeightsIn(S)
           total == TotalWeight(S)
           t == turns[S]
<1>2. PICK n \in E : /\ Turn(current, current', w, E, n)
                     /\ picks' = [picks EXCEPT ![n] = @ + 1]
  BY PickIsTurn
<1>3. /\ E' = E /\ w' = w /\ total' = total
      /\ \A m \in E : WeightOf(backends'[m]) = WeightOf(backends[m])
  BY <1>1, SharesFixed
<1>4. Even(current', w, E)
  BY <1>2, TurnEven DEF SharesOf
<1>5. /\ E \subseteq S /\ total \in Nat /\ total = SumFunctionOnSet(w, E)
      /\ \A m \in E : w[m] \in Nat /\ w[m] = WeightOf(backends[m])
  BY <1>1, SharedFacts
<1>6. turns'[S] = t + 1 /\ t \in Nat
  BY <1>1 DEF RoundRobinTypeOK
<1>7. \A m \in Node : picks'[m] = (IF m = n THEN picks[m] + 1 ELSE picks[m]) /\ picks[m] \in Nat
  BY <1>2 DEF RoundRobinTypeOK
<1>8. \A m \in E : current[m] = t * w[m] - picks[m] * total
  BY <1>5 DEF SharesOf
<1>9. \A m \in E : current'[m] = current[m] + w[m] - (IF m = n THEN total ELSE 0)
  BY <1>1, <1>2, <1>5 DEF Turn
<1>10. \A m \in S \ E : picks'[m] = 0
  BY <1>1, <1>2, <1>7 DEF SharesOf
<1> HIDE DEF E, w, total, t
<1>11. ASSUME NEW m \in E
       PROVE  current'[m] = turns'[S] * w[m] - picks'[m] * total
  <2>1. \A a, b \in Nat : (a + 1) * b = a * b + b /\ a * b \in Int
    OBVIOUS
  <2>2. m \in Node /\ w[m] \in Nat /\ total \in Nat
    BY <1>1, <1>5 DEF E
  <2>3. (t + 1) * w[m] = t * w[m] + w[m] /\ t * w[m] \in Int
    BY <1>6, <2>1, <2>2
  <2>4. (picks[m] + 1) * total = picks[m] * total + total /\ picks[m] * total \in Int
    BY <1>7, <2>1, <2>2
  <2>5. CASE m = n
    BY <1>6, <1>7, <1>8, <1>9, <2>2, <2>3, <2>4, <2>5
  <2>6. CASE m # n
    BY <1>6, <1>7, <1>8, <1>9, <2>2, <2>3, <2>4, <2>6
  <2> QED BY <2>5, <2>6
<1>12. \A m \in E :
         current'[m] = turns'[S] * WeightOf(backends'[m]) - picks'[m] * total
  BY <1>3, <1>5, <1>11
<1>13. E # {}
  BY <1>2
<1> QED BY <1>3, <1>4, <1>10, <1>12, <1>13 DEF SharesOf, E, w, total

(* It leaves the other subsets alone.                                      *)
LEMMA SharesElsewhere ==
    ASSUME RoundRobinTypeOK, NEW c \in Client, NEW S \in Candidates, Pick(c, S),
           NEW T \in SUBSET Node, T \cap S = {}, T # S, SharesOf(T)
    PROVE  SharesOf(T)'
<1>1. /\ S \in SUBSET Node /\ turns' = [turns EXCEPT ![S] = @ + 1]
      /\ backends' = backends
  BY CandidatesInNode DEF Pick
<1>2. PICK n \in Shared(S) : /\ Turn(current, current', WeightsIn(S), Shared(S), n)
                             /\ picks' = [picks EXCEPT ![n] = @ + 1]
  BY PickIsTurn
<1>3. Shared(S) \subseteq S
  BY <1>1, SharedFacts
<1>4. \A m \in T : current'[m] = current[m] /\ picks'[m] = picks[m] /\ current[m] \in Int
  <2>1. \A m \in T : m \in Node /\ m \notin Shared(S)
    BY <1>3
  <2> QED BY <1>2, <2>1 DEF Turn, RoundRobinTypeOK
<1>5. turns'[T] = turns[T]
  BY <1>1 DEF RoundRobinTypeOK
<1>6. Shared(T)' = Shared(T) /\ WeightsIn(T)' = WeightsIn(T) /\ TotalWeight(T)' = TotalWeight(T)
  BY <1>1, SharesFixed
<1>7. Shared(T) \subseteq T /\ IsFiniteSet(Shared(T))
  BY SharedFacts
<1>8. Even(current', WeightsIn(T), Shared(T))
  BY <1>4, <1>7, SameEven DEF SharesOf
<1> QED BY <1>1, <1>4, <1>5, <1>6, <1>7, <1>8 DEF SharesOf

(* So a pick keeps all shares.                                             *)
LEMMA PickKeepsShares ==
    ASSUME RoundRobinInv, NEW c \in Client, NEW S \in Candidates, Pick(c, S)
    PROVE  ShareInv'
<1> SUFFICES ASSUME Disjoint'
             PROVE  /\ \A n \in Node : (\A T \in Used' : n \notin T)
                                         => current'[n] = 0 /\ picks'[n] = 0
                    /\ \A T \in Used' : SharesOf(T)'
  BY DEF ShareInv
<1>1. /\ S \in SUBSET Node /\ turns' = [turns EXCEPT ![S] = @ + 1]
      /\ RoundRobinTypeOK
  BY CandidatesInNode DEF Pick, RoundRobinInv
<1>2. \A T \in SUBSET Node : turns'[T] = IF T = S THEN turns[T] + 1 ELSE turns[T]
  BY <1>1 DEF RoundRobinTypeOK
<1>3. Used' = Used \cup {S}
  <2>1. \A T \in SUBSET Node : turns'[T] > 0 <=> (T = S \/ turns[T] > 0)
    BY <1>1, <1>2 DEF RoundRobinTypeOK
  <2> QED BY <1>1, <2>1 DEF Used
<1>4. /\ Disjoint
      /\ \A T \in Used : T = S \/ T \cap S = {}
  BY <1>3 DEF Disjoint
<1>5. PICK n \in Shared(S) : /\ Turn(current, current', WeightsIn(S), Shared(S), n)
                             /\ picks' = [picks EXCEPT ![n] = @ + 1]
  BY <1>1, PickIsTurn
<1>6. Shared(S) \subseteq S
  BY <1>1, SharedFacts
<1>7. ASSUME NEW m \in Node, \A T \in Used' : m \notin T
      PROVE  current'[m] = 0 /\ picks'[m] = 0
  <2>1. m \notin Shared(S) /\ \A T \in Used : m \notin T
    BY <1>3, <1>6, <1>7
  <2>2. current[m] = 0 /\ picks[m] = 0
    BY <1>4, <2>1 DEF RoundRobinInv, ShareInv
  <2>3. current'[m] = current[m] /\ picks'[m] = picks[m]
    BY <1>1, <1>5, <2>1, <2>2 DEF Turn, RoundRobinTypeOK
  <2> QED BY <2>2, <2>3
<1>8. SharesOf(S)'
  BY <1>1, <1>4, <1>5, SharesBefore, SharesAfter
<1>9. ASSUME NEW T \in Used, T # S
      PROVE  SharesOf(T)'
  <2>1. T \in SUBSET Node /\ T \cap S = {} /\ SharesOf(T)
    BY <1>4, <1>9 DEF Used, RoundRobinInv, ShareInv
  <2> QED BY <1>1, <1>9, <2>1, SharesElsewhere
<1> QED BY <1>3, <1>7, <1>8, <1>9

(* A slot is given back.                                                   *)
LEMMA GiveBackKeeps ==
    ASSUME RoundRobinInv, GiveBack
    PROVE  RoundRobinInv'
<1>1. PICK s \in slots : DropSlot(s)
  BY DEF GiveBack
<1>2. /\ RoundRobinTypeOK /\ UNCHANGED <<current, outlier, backends, labels, routes, turns, picks>>
      /\ slots' = slots \ {s}
      /\ active' = [active EXCEPT ![s.node] = IF @ = 0 THEN 0 ELSE @ - 1]
  BY <1>1 DEF GiveBack, DropSlot, RoundRobinInv
<1>3. BalancerTypeOK'
  BY <1>1, <1>2, OperationTypes DEF RoundRobinTypeOK
<1>4. slots' = {} /\ active' = [n \in Node |-> 0]
  <2>1. /\ slots = {s} /\ s \in CL!Slot
        /\ active = [n \in Node |-> IF n = s.node THEN 1 ELSE 0]
    BY <1>1, <1>2 DEF RoundRobinTypeOK
  <2> QED BY <1>2, <2>1
<1>5. RoundRobinTypeOK'
  BY <1>2, <1>3, <1>4 DEF RoundRobinTypeOK
<1>6. BalanceInv'
  BY <1>2 DEF RoundRobinInv, BalanceInv, Bounded
<1>7. ShareInv'
  <2>1. Used' = Used /\ Disjoint' = Disjoint
    BY <1>2 DEF Used, Disjoint
  <2>2. ASSUME NEW S, SharesOf(S)
        PROVE  SharesOf(S)'
    <3>1. Shared(S)' = Shared(S) /\ WeightsIn(S)' = WeightsIn(S) /\ TotalWeight(S)' = TotalWeight(S)
      BY <1>2, SharesFixed
    <3> QED BY <1>2, <2>2, <3>1 DEF SharesOf
  <2> QED BY <1>2, <2>1, <2>2 DEF RoundRobinInv, ShareInv
<1> QED BY <1>5, <1>6, <1>7 DEF RoundRobinInv

(* The invariant holds at first.                                           *)
LEMMA RoundRobinStarts ==
    ASSUME RoundRobinInit
    PROVE  RoundRobinInv
<1>1. /\ current = [n \in Node |-> 0] /\ active = [n \in Node |-> 0]
      /\ outlier = [n \in Node |-> NotOutlier] /\ slots = {}
      /\ turns = [S \in SUBSET Node |-> 0] /\ picks = [n \in Node |-> 0]
  BY DEF RoundRobinInit, BalancerInit
<1>2. BalancerTypeOK
  BY <1>1 DEF BalancerTypeOK, NotOutlier, Outlier
<1>3. RoundRobinTypeOK
  BY <1>1, <1>2 DEF RoundRobinInit, RoundRobinTypeOK
<1>4. ASSUME NEW A \in SUBSET Node
      PROVE  /\ SumFunctionOnSet(current, A) = 0
             /\ Cardinality(A) \in Nat /\ N - Cardinality(A) \in Nat
  <2>1. IsFiniteSet(A) /\ Cardinality(A) =< Cardinality(Node)
    BY NodeFinite, FS_Subset
  <2>2. Cardinality(Node) = N /\ Cardinality(A) \in Nat /\ N \in Nat
    BY <2>1, BalancerAssumption, FS_Interval, FS_CardinalityType DEF Node
  <2>3. SumFunctionOnSet(current, A) = 0
    BY <1>1, <2>1, SumZero
  <2> QED BY <2>1, <2>2, <2>3
<1>5. BalanceInv
  <2>1. \A x, y, z \in Nat : 0 =< x * y * z
    <3>1. \A x, y \in Nat : x * y \in Nat
      OBVIOUS
    <3> QED BY <3>1
  <2>2. ASSUME NEW most \in Nat
        PROVE  Bounded(current, most)
    BY <1>4, <2>1 DEF Bounded
  <2> QED BY <1>4, <2>2 DEF BalanceInv
<1>6. ShareInv
  <2>1. Used = {}
    BY <1>1 DEF Used
  <2> QED BY <1>1, <2>1 DEF ShareInv
<1> QED BY <1>3, <1>5, <1>6 DEF RoundRobinInv

(* It is kept by every step.                                               *)
LEMMA RoundRobinKeeps ==
    ASSUME RoundRobinInv, [RoundRobinNext]_roundRobin
    PROVE  RoundRobinInv'
<1>1. ASSUME NEW c \in Client, NEW S \in Candidates, Pick(c, S)
      PROVE  RoundRobinInv'
  <2>1. RoundRobinTypeOK /\ BalanceInv
    BY DEF RoundRobinInv
  <2> QED BY <1>1, <2>1, PickTypes, PickKeepsBalance, PickKeepsShares DEF RoundRobinInv
<1>2. CASE UNCHANGED roundRobin
  <2>1. UNCHANGED <<current, active, outlier, slots, backends, labels, routes, turns, picks>>
    BY <1>2 DEF roundRobin
  <2>2. RoundRobinTypeOK'
    BY <2>1 DEF RoundRobinInv, RoundRobinTypeOK, BalancerTypeOK
  <2>3. BalanceInv'
    BY <2>1 DEF RoundRobinInv, BalanceInv, Bounded
  <2>4. Used' = Used /\ Disjoint' = Disjoint
    BY <2>1 DEF Used, Disjoint
  <2>5. ASSUME NEW S, SharesOf(S)
        PROVE  SharesOf(S)'
    <3>1. Shared(S)' = Shared(S) /\ WeightsIn(S)' = WeightsIn(S) /\ TotalWeight(S)' = TotalWeight(S)
      BY <2>1, SharesFixed
    <3> QED BY <2>1, <2>5, <3>1 DEF SharesOf
  <2>6. ShareInv'
    BY <2>1, <2>4, <2>5 DEF RoundRobinInv, ShareInv
  <2> QED BY <2>2, <2>3, <2>6 DEF RoundRobinInv
<1> QED BY <1>1, <1>2, GiveBackKeeps DEF RoundRobinNext

(* So it always holds.                                                     *)
LEMMA RoundRobinInvariant == RoundRobinSpec => []RoundRobinInv
BY RoundRobinStarts, RoundRobinKeeps, PTL DEF RoundRobinSpec

(* Every full round, the nodes that share are quit.                        *)
LEMMA QuitAfterRound ==
    ASSUME RoundRobinTypeOK, NEW S \in SUBSET Node, SharesOf(S),
           turns[S] % TotalWeight(S) = 0
    PROVE  \A n \in Shared(S) : current[n] = 0
<1> DEFINE E == Shared(S)
           total == TotalWeight(S)
           q == turns[S] \div total
           Sum(A) == SumFunctionOnSet(current, A)
<1>1. /\ E \subseteq Node /\ IsFiniteSet(E) /\ total \in Nat \ {0}
      /\ \A m \in E : WeightOf(backends[m]) \in Nat
      /\ total = SumFunctionOnSet(WeightsIn(S), E)
  BY SharedFacts DEF SharesOf
<1>2. turns[S] \in Nat /\ \A m \in E : picks[m] \in Nat /\ current[m] \in Int
  BY <1>1 DEF RoundRobinTypeOK, BalancerTypeOK
<1>3. turns[S] = q * total /\ q \in Nat
  <2>1. \A a \in Nat, b \in Nat \ {0} : a % b = 0 => a = (a \div b) * b /\ a \div b \in Nat
    OBVIOUS
  <2> QED BY <1>1, <1>2, <2>1
<1>4. /\ Sum(E) = 0
      /\ \A m \in E : /\ -total < current[m]
                      /\ current[m] = turns[S] * WeightOf(backends[m]) - picks[m] * total
  BY <1>1 DEF SharesOf, Even
<1> HIDE DEF E, total, q
<1>5. ASSUME NEW m \in E
      PROVE  current[m] \in Nat
  <2> DEFINE w == WeightOf(backends[m])
             d == q * w - picks[m]
  <2>1. w \in Nat /\ picks[m] \in Nat /\ q * w \in Nat /\ d \in Int
    BY <1>1, <1>2, <1>3
  <2>2. current[m] = (q * total) * w - picks[m] * total
    BY <1>3, <1>4
  <2>3. \A a, b, x, p \in Nat : (a * b) * x - p * b = (a * x - p) * b
    OBVIOUS
  <2>4. current[m] = d * total
    BY <1>1, <1>3, <2>1, <2>2, <2>3
  <2>5. \A a \in Int, b \in Nat \ {0} : -b < a * b => a * b \in Nat
    OBVIOUS
  <2> HIDE DEF d
  <2> QED BY <1>1, <1>4, <2>1, <2>4, <2>5
<1>6. ASSUME NEW m \in E
      PROVE  current[m] = 0
  <2>1. Sum(E) = current[m] + Sum(E \ {m})
    BY <1>1, <1>2, SumRemove
  <2>2. Sum(E \ {m}) \in Nat
    BY <1>1, <1>5, SumNat
  <2> QED BY <1>4, <1>5, <2>1, <2>2
<1> QED BY <1>6 DEF E

(* Lag is the value of such a bound for one node.                          *)
LEMMA LagIsChosen ==
    ASSUME NEW total, NEW k
    PROVE  Lag(total, k) = LagOf(total, k)[k - 1]
BY DEF Lag, LagOf, LagRule, LagNext

(* The bound on how far a node is behind.                                  *)
LEMMA BehindByLag ==
    ASSUME RoundRobinTypeOK, NEW S \in SUBSET Node, SharesOf(S)
    PROVE  /\ Lag(TotalWeight(S), Cardinality(Shared(S))) \in Nat
           /\ \A n \in Shared(S) :
                current[n] =< Lag(TotalWeight(S), Cardinality(Shared(S)))
<1> DEFINE E == Shared(S)
           total == TotalWeight(S)
           k == Cardinality(E)
<1>1. /\ E \subseteq Node /\ IsFiniteSet(E) /\ total \in Nat /\ E # {}
      /\ total = SumFunctionOnSet(WeightsIn(S), E)
  BY SharedFacts DEF SharesOf
<1>2. k \in Nat \ {0}
  BY <1>1, PartSize
<1>3. \A A \in (SUBSET E) \ {{}} :
         SumFunctionOnSet(current, A) =< LagOf(total, k)[k - Cardinality(A)]
  BY <1>1 DEF SharesOf, Even
<1> HIDE DEF E, total, k
<1>4. Lag(total, k) = LagOf(total, k)[k - 1] /\ LagOf(total, k)[k - 1] \in Nat
  BY <1>1, <1>2, LagIsChosen, LagRuleExists
<1>5. ASSUME NEW n \in E
      PROVE  current[n] =< Lag(total, k)
  <2>1. current[n] \in Int
    BY <1>1 DEF RoundRobinTypeOK, BalancerTypeOK
  <2>2. SumFunctionOnSet(current, {n}) = current[n] + SumFunctionOnSet(current, {})
    <3>1. IsFiniteSet({n}) /\ {n} \ {n} = {} /\ \A x \in {n} : current[x] \in Int
      BY <2>1, FS_Singleton
    <3> QED BY <3>1, SumRemove
  <2>3. SumFunctionOnSet(current, {n}) = current[n]
    BY <2>1, <2>2, SumEmpty
  <2>4. Cardinality({n}) = 1
    BY FS_Singleton
  <2> QED BY <1>3, <1>4, <2>3, <2>4
<1> QED BY <1>4, <1>5 DEF E, total, k

(* pick shares out smoothly within each subset of instances, at any moment *)
(* and exactly after every full round, if the subsets in use do not        *)
(* overlap.                                                                *)
THEOREM SharesAreSmooth == RoundRobinSpec => []SmoothShare
<1>1. ASSUME RoundRobinInv
      PROVE  SmoothShare
  <2> SUFFICES ASSUME Disjoint, NEW S \in Used, NEW n \in S
               PROVE  LET total == TotalWeight(S)
                          share == IF n \in Shared(S) THEN WeightOf(backends[n]) ELSE 0
                          off == turns[S] * share - picks[n] * total
                      IN  /\ -total < off /\ off =< Lag(total, Cardinality(Shared(S)))
                          /\ turns[S] % total = 0 => off = 0
    BY DEF SmoothShare
  <2> DEFINE total == TotalWeight(S)
             lag == Lag(total, Cardinality(Shared(S)))
  <2>1. S \in SUBSET Node /\ RoundRobinTypeOK /\ SharesOf(S) /\ turns[S] \in Nat
    BY <1>1 DEF Used, RoundRobinInv, RoundRobinTypeOK, ShareInv
  <2>2. lag \in Nat /\ \A m \in Shared(S) : current[m] =< lag
    BY <2>1, BehindByLag
  <2>3. total \in Nat /\ total > 0 /\ total = SumFunctionOnSet(WeightsIn(S), Shared(S))
    BY <2>1, SharedFacts DEF SharesOf
  <2> HIDE DEF lag
  <2>4. CASE n \in Shared(S)
    <3>1. current[n] = turns[S] * WeightOf(backends[n]) - picks[n] * total
      BY <2>1, <2>4 DEF SharesOf
    <3>2. -total < current[n] /\ current[n] =< lag
      BY <2>1, <2>2, <2>3, <2>4 DEF SharesOf, Even
    <3>3. turns[S] % total = 0 => current[n] = 0
      BY <2>1, <2>4, QuitAfterRound
    <3> QED BY <2>4, <3>1, <3>2, <3>3 DEF lag
  <2>5. CASE n \notin Shared(S)
    <3>1. picks[n] = 0
      BY <2>1, <2>5 DEF SharesOf
    <3>2. turns[S] * 0 - picks[n] * total = 0
      BY <2>1, <2>3, <3>1
    <3>3. -total < 0 /\ 0 =< lag
      BY <2>2, <2>3
    <3> QED BY <2>5, <3>2, <3>3 DEF lag
  <2> QED BY <2>4, <2>5
<1> QED BY <1>1, RoundRobinInvariant, PTL

(* However pick is called on subsets that overlap, the running weights     *)
(* stay in balance and bounded.                                            *)
THEOREM WeightsAreBounded == RoundRobinSpec => []WeightsBounded
<1>1. ASSUME RoundRobinInv
      PROVE  WeightsBounded
  <2> DEFINE f == [n \in Node |-> WeightOf(backends[n])]
             W == {f[n] : n \in Node}
             most == Max(W)
             Sum(A) == SumFunctionOnSet(current, A)
  <2>1. RoundRobinTypeOK /\ BalanceInv
    BY <1>1 DEF RoundRobinInv
  <2>2. /\ SumFunction(current) = 0 /\ Sum(Node) = 0
        /\ \A n \in Node : current[n] \in Int
    BY <2>1 DEF SumFunction, SumFunctionOnSet, FoldFunction, FoldFunctionOnSet,
                BalanceInv, RoundRobinTypeOK, BalancerTypeOK
  <2>3. \A n \in Node : f[n] \in Nat
    BY <2>1, SharedFacts
  <2>4. ASSUME NEW n \in Node
        PROVE  /\ -((N - 1) * most) =< current[n]
               /\ current[n] =< (N - 1) * most
    <3>1. most \in Nat /\ \A m \in Node : f[m] =< most
      <4>1. W \in SUBSET Int /\ W # {} /\ \A x \in W : x \in Nat
        BY <2>3
      <4>2. IsFiniteSet(W)
        <5> HIDE DEF f
        <5> QED BY NodeFinite, ImageFinite
      <4>3. most \in W /\ \A x \in W : most >= x
        <5> HIDE DEF W
        <5> QED BY <4>1, <4>2, MaxFacts
      <4>4. \A m \in Node : f[m] \in W
        OBVIOUS
      <4> HIDE DEF W, most, f
      <4> QED BY <2>3, <4>1, <4>3, <4>4
    <3>2. Bounded(current, most)
      <4>1. \A m \in Node : WeightOf(backends[m]) =< most
        <5> HIDE DEF most
        <5> QED BY <3>1
      <4> HIDE DEF most
      <4> QED BY <2>1, <3>1, <4>1 DEF BalanceInv
    <3> HIDE DEF most
    <3>3. N \in Nat \ {0} /\ Cardinality(Node) = N
      BY BalancerAssumption, FS_Interval DEF Node
    <3>4. Cardinality({n}) = 1 /\ Cardinality(Node \ {n}) = N - 1
      BY <3>3, NodeFinite, FS_Singleton, FS_RemoveElement
    <3>5. Sum({n}) = current[n] /\ Sum(Node \ {n}) = -current[n]
      <4>1. Sum(Node) = current[n] + Sum(Node \ {n})
        BY <2>2, NodeFinite, SumRemove
      <4>2. Sum({n}) = current[n] + Sum({})
        <5>1. IsFiniteSet({n}) /\ {n} \ {n} = {} /\ \A x \in {n} : current[x] \in Int
          BY <2>2, FS_Singleton
        <5> QED BY <5>1, SumRemove
      <4>3. Sum(Node \ {n}) \in Int
        <5>1. IsFiniteSet(Node \ {n})
          BY NodeFinite, FS_Subset
        <5> QED BY <2>2, <5>1, SumInt
      <4> QED BY <2>2, <4>1, <4>2, <4>3, SumEmpty
    <3>6. Sum({n}) =< most * 1 * (N - 1) /\ Sum(Node \ {n}) =< most * (N - 1) * (N - (N - 1))
      BY <3>2, <3>4 DEF Bounded
    <3>7. most * 1 * (N - 1) = (N - 1) * most /\ most * (N - 1) * (N - (N - 1)) = (N - 1) * most
      <4>1. N - (N - 1) = 1 /\ N - 1 \in Nat
        BY <3>3
      <4>2. \A a, b \in Nat : a * 1 * b = b * a /\ a * b * 1 = b * a
        OBVIOUS
      <4> QED BY <3>1, <4>1, <4>2
    <3>8. (N - 1) * most \in Nat
      <4>1. \A a, b \in Nat : a * b \in Nat
        OBVIOUS
      <4> QED BY <3>1, <3>3, <4>1
    <3>9. current[n] =< (N - 1) * most /\ -current[n] =< (N - 1) * most
      BY <3>5, <3>6, <3>7
    <3> QED BY <2>2, <3>8, <3>9
  <2>5. W = {WeightOf(backends[n]) : n \in Node}
    OBVIOUS
  <2> HIDE DEF W
  <2> QED BY <2>2, <2>4, <2>5 DEF WeightsBounded
<1> QED BY <1>1, RoundRobinInvariant, PTL

(* The tickets of the first k subsets of a route.                          *)
LEMMA TicketsFacts ==
    ASSUME NEW route, IsSplit(route.backends)
    PROVE  /\ TicketsUpTo(route, 0) = 0
           /\ \A k \in 0 .. Len(route.backends) : TicketsUpTo(route, k) \in Nat
           /\ \A k \in 1 .. Len(route.backends) :
                TicketsUpTo(route, k) = route.backends[k].weight + TicketsUpTo(route, k - 1)
           /\ \A j, k \in 0 .. Len(route.backends) :
                j =< k => TicketsUpTo(route, j) =< TicketsUpTo(route, k)
<1> DEFINE len == Len(route.backends)
           f == [i \in DOMAIN route.backends |-> route.backends[i].weight]
           Sum(A) == SumFunctionOnSet(f, A)
<1>1. /\ DOMAIN route.backends = 1 .. len /\ len \in Nat
      /\ \A i \in 1 .. len : f[i] = route.backends[i].weight /\ f[i] \in Nat
  BY DEF IsSplit
<1>2. \A k : TicketsUpTo(route, k) = Sum(1 .. k)
  BY DEF TicketsUpTo
<1> HIDE DEF f, len
<1>3. ASSUME NEW k \in 0 .. len
      PROVE  IsFiniteSet(1 .. k) /\ \A i \in 1 .. k : f[i] \in Nat /\ f[i] \in Int
  <2>1. k \in Int
    OBVIOUS
  <2>2. IsFiniteSet(1 .. k)
    BY <2>1, FS_Interval
  <2>3. \A i \in 1 .. k : i \in 1 .. len
    BY <1>1
  <2> QED BY <1>1, <2>2, <2>3
<1>4. Sum(1 .. 0) = 0
  <2>1. 1 .. 0 = {}
    OBVIOUS
  <2> QED BY <2>1, SumEmpty
<1>5. ASSUME NEW k \in 0 .. len, NEW j \in 0 .. len, j =< k
      PROVE  Sum(1 .. k) \in Nat /\ Sum(1 .. j) =< Sum(1 .. k)
  <2>1. 1 .. j \in SUBSET (1 .. k)
    BY <1>5
  <2> QED BY <1>3, <2>1, SumNat
<1>6. ASSUME NEW k \in 1 .. len
      PROVE  Sum(1 .. k) = f[k] + Sum(1 .. k - 1)
  <2>1. k \in 1 .. k /\ (1 .. k) \ {k} = 1 .. k - 1 /\ k \in 0 .. len
    OBVIOUS
  <2>2. IsFiniteSet(1 .. k) /\ \A i \in 1 .. k : f[i] \in Int
    BY <1>3, <2>1
  <2>3. Sum(1 .. k) = f[k] + Sum((1 .. k) \ {k})
    BY <2>1, <2>2, SumRemove
  <2> QED BY <2>1, <2>3
<1>7. \A k \in 0 .. len : Sum(1 .. k) \in Nat
  BY <1>5
<1> QED BY <1>1, <1>2, <1>4, <1>5, <1>6, <1>7 DEF len

(* A subset's tickets are the ones after those of the subsets before it.   *)
LEMMA TicketsOfBackend ==
    ASSUME NEW route, IsSplit(route.backends), NEW b \in 1 .. Len(route.backends)
    PROVE  {t \in 0 .. TotalTickets(route) - 1 : BackendAt(route, t) = b}
             = TicketsUpTo(route, b - 1) .. TicketsUpTo(route, b) - 1
<1> DEFINE len == Len(route.backends)
           UpTo(k) == TicketsUpTo(route, k)
           Winners(t) == {i \in DOMAIN route.backends : t < UpTo(i)}
<1>1. /\ \A k \in 0 .. len : UpTo(k) \in Nat
      /\ \A j, k \in 0 .. len : j =< k => UpTo(j) =< UpTo(k)
      /\ DOMAIN route.backends = 1 .. len /\ TotalTickets(route) = UpTo(len)
      /\ b \in 0 .. len /\ b - 1 \in 0 .. len /\ len \in 1 .. len /\ len \in 0 .. len
  <2>1. len \in Nat /\ DOMAIN route.backends = 1 .. len /\ TotalTickets(route) = UpTo(len)
    BY DEF IsSplit, TotalTickets
  <2>2. /\ \A k \in 0 .. len : UpTo(k) \in Nat
        /\ \A j, k \in 0 .. len : j =< k => UpTo(j) =< UpTo(k)
    BY TicketsFacts
  <2>3. b \in 1 .. len
    OBVIOUS
  <2> HIDE DEF len, UpTo
  <2>4. b \in 0 .. len /\ b - 1 \in 0 .. len /\ len \in 1 .. len /\ len \in 0 .. len
    BY <2>1, <2>3
  <2> QED BY <2>1, <2>2, <2>4
<1> HIDE DEF len, UpTo
<1>2. ASSUME NEW t \in 0 .. UpTo(len) - 1
      PROVE  /\ BackendAt(route, t) \in Winners(t)
             /\ \A i \in Winners(t) : BackendAt(route, t) =< i
  <2>1. len \in Winners(t)
    BY <1>1
  <2>2. Winners(t) \in SUBSET Int /\ IsFiniteSet(Winners(t))
    <3>1. Winners(t) \subseteq 1 .. len
      BY <1>1
    <3>2. IsFiniteSet(1 .. len)
      BY <1>1, FS_Interval
    <3>3. 1 .. len \subseteq Int
      OBVIOUS
    <3> HIDE DEF Winners
    <3> QED BY <3>1, <3>2, <3>3, FS_Subset
  <2>3. BackendAt(route, t) = Min(Winners(t))
    BY <2>1 DEF BackendAt, UpTo
  <2> HIDE DEF Winners
  <2> QED BY <2>1, <2>2, <2>3, MinFacts
<1>3. ASSUME NEW t \in 0 .. UpTo(len) - 1, BackendAt(route, t) = b
      PROVE  t \in UpTo(b - 1) .. UpTo(b) - 1
  <2>1. t < UpTo(b) /\ \A i \in Winners(t) : b =< i
    BY <1>2, <1>3
  <2>2. ~(t < UpTo(b - 1))
    <3> SUFFICES ASSUME t < UpTo(b - 1)
                 PROVE  FALSE
      OBVIOUS
    <3>1. CASE b = 1
      <4>1. UpTo(b - 1) = 0
        BY <3>1, TicketsFacts DEF UpTo
      <4> QED BY <4>1
    <3>2. CASE b # 1
      <4>1. b - 1 \in Winners(t)
        BY <1>1, <3>2
      <4>2. b =< b - 1
        BY <2>1, <4>1
      <4> QED BY <4>2
    <3> QED BY <3>1, <3>2
  <2> QED BY <1>1, <2>1, <2>2
<1>4. ASSUME NEW t \in UpTo(b - 1) .. UpTo(b) - 1
      PROVE  t \in 0 .. UpTo(len) - 1 /\ BackendAt(route, t) = b
  <2>1. t \in 0 .. UpTo(len) - 1
    <3>1. UpTo(b) =< UpTo(len) /\ UpTo(b - 1) \in Nat /\ UpTo(b) \in Nat /\ UpTo(len) \in Nat
      BY <1>1
    <3> QED BY <3>1
  <2>2. b \in Winners(t)
    BY <1>1
  <2>3. ASSUME NEW i \in Winners(t)
        PROVE  b =< i
    <3> SUFFICES ASSUME ~(b =< i)
                 PROVE  FALSE
      OBVIOUS
    <3>1. i \in 1 .. len /\ t < UpTo(i)
      BY <1>1
    <3>2. i =< b - 1 /\ i \in 0 .. len
      BY <1>1, <3>1
    <3>3. UpTo(i) =< UpTo(b - 1) /\ UpTo(i) \in Nat /\ UpTo(b - 1) \in Nat
      BY <1>1, <3>2
    <3> QED BY <3>1, <3>3
  <2>4. BackendAt(route, t) =< b /\ b =< BackendAt(route, t) /\ BackendAt(route, t) \in Int
    <3>1. BackendAt(route, t) \in Winners(t) /\ BackendAt(route, t) =< b
      BY <1>2, <2>1, <2>2
    <3> QED BY <1>1, <2>3, <3>1
  <2> QED BY <2>1, <2>4
<1>5. {t \in 0 .. UpTo(len) - 1 : BackendAt(route, t) = b} = UpTo(b - 1) .. UpTo(b) - 1
  BY <1>3, <1>4
<1> QED BY <1>1, <1>5 DEF UpTo

(* select_route gives each backend of a route exactly its weight of the    *)
(* tickets.                                                                *)
THEOREM TicketsFollowWeights == RoundRobinSpec => []TicketsByWeight
<1>1. ASSUME RoundRobinInv
      PROVE  TicketsByWeight
  <2> SUFFICES ASSUME NEW i \in DOMAIN routes, NEW b \in DOMAIN routes[i].backends
               PROVE  Cardinality({t \in 0 .. TotalTickets(routes[i]) - 1 :
                                     BackendAt(routes[i], t) = b}) = routes[i].backends[b].weight
    BY DEF TicketsByWeight
  <2> DEFINE route == routes[i]
             low == TicketsUpTo(route, b - 1)
             high == TicketsUpTo(route, b)
             weight == route.backends[b].weight
  <2>1. IsSplit(route.backends)
    BY <1>1, RoutesAssumption DEF RoundRobinInv, RoundRobinTypeOK
  <2>2. b \in 1 .. Len(route.backends) /\ weight \in Nat
    BY <2>1 DEF IsSplit
  <2>3. high = weight + low /\ low \in Nat
    <3>1. b - 1 \in 0 .. Len(route.backends)
      BY <2>2
    <3> QED BY <2>1, <2>2, <3>1, TicketsFacts
  <2>4. {t \in 0 .. TotalTickets(route) - 1 : BackendAt(route, t) = b} = low .. high - 1
    BY <2>1, <2>2, TicketsOfBackend
  <2> HIDE DEF low, high, weight
  <2>5. Cardinality(low .. high - 1) = weight
    <3>1. low \in Int /\ high - 1 \in Int
      BY <2>2, <2>3 DEF weight
    <3>2. Cardinality(low .. high - 1) = IF low > high - 1 THEN 0 ELSE (high - 1) - low + 1
      BY <3>1, FS_Interval
    <3> QED BY <2>2, <2>3, <3>2 DEF weight
  <2> QED BY <2>4, <2>5 DEF weight
<1> QED BY <1>1, RoundRobinInvariant, PTL
=============================================================================
