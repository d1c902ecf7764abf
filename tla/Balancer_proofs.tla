--------------------------- MODULE Balancer_proofs ---------------------------
(***************************************************************************)
(* What the balancer's operations do for any number of nodes, whatever     *)
(* proxy calls them: pick reserves a slot on an untried candidate below    *)
(* its limit and leaves the sum of the running weights alone, and slots    *)
(* are counted exactly.  Reserved and given back like this, slots keep the *)
(* hard cap of ConnectionLimit.                                            *)
(*                                                                         *)
(* First come the facts on finite sets and sums that this needs.           *)
(***************************************************************************)
EXTENDS Balancer, FiniteSetTheorems, TLAPS

(* A nonempty set of subsets of a finite set has a smallest one: what the  *)
(* inductions below rest on.                                               *)
LEMMA SmallestSubset ==
    ASSUME NEW S, IsFiniteSet(S), NEW F \in SUBSET SUBSET S, F # {}
    PROVE  \E A \in F : \A B \in F : B \subseteq A => B = A
<1>1. IsWellFoundedOn(StrictSubsetOrdering(S), SUBSET S)
  BY FS_FiniteSubsetsOfFinite, FS_StrictSubsetOrderingWellFounded
<1>2. PICK A \in F : \A B \in F : <<B, A>> \notin StrictSubsetOrdering(S)
  BY <1>1, WFMin
<1>3. ASSUME NEW B \in F, B \subseteq A
      PROVE  B = A
  BY <1>2, <1>3 DEF StrictSubsetOrdering
<1> QED BY <1>3

(* On a finite set a function to the integers has a highest value.         *)
LEMMA HighestExists ==
    ASSUME NEW S, IsFiniteSet(S), S # {}, NEW f, \A x \in S : f[x] \in Int
    PROVE  \E x \in S : \A y \in S : f[x] >= f[y]
<1> DEFINE High(A) == \E x \in A : \A y \in A : f[x] >= f[y]
           F == {A \in SUBSET S : A # {} /\ ~High(A)}
<1> SUFFICES ASSUME F # {} PROVE FALSE
  OBVIOUS
<1>1. PICK A \in F : \A B \in F : B \subseteq A => B = A
  <2>1. F \in SUBSET SUBSET S
    OBVIOUS
  <2> HIDE DEF F
  <2> QED BY <2>1, SmallestSubset
<1>2. PICK x \in A : TRUE
  OBVIOUS
<1>3. A \ {x} \notin F
  BY <1>1, <1>2
<1>4. CASE A \ {x} = {}
  BY <1>2, <1>4
<1>5. CASE High(A \ {x})
  <2>1. PICK y \in A \ {x} : \A z \in A \ {x} : f[y] >= f[z]
    BY <1>5
  <2>2. CASE f[x] >= f[y]
    <3>1. \A z \in A : f[x] >= f[z]
      BY <2>1, <2>2
    <3> QED BY <3>1
  <2>3. CASE ~(f[x] >= f[y])
    <3>1. \A z \in A : f[y] >= f[z]
      BY <2>1, <2>3
    <3> QED BY <3>1
  <2> QED BY <2>2, <2>3
<1> QED BY <1>3, <1>4, <1>5

(* Max and Min of a finite set of integers are what their names say.       *)
LEMMA MaxFacts ==
    ASSUME NEW S \in SUBSET Int, IsFiniteSet(S), S # {}
    PROVE  Max(S) \in S /\ \A x \in S : Max(S) >= x
<1> DEFINE f == [x \in S |-> x]
<1>1. \A x \in S : f[x] \in Int /\ f[x] = x
  OBVIOUS
<1> HIDE DEF f
<1>2. \E x \in S : \A y \in S : f[x] >= f[y]
  BY <1>1, HighestExists
<1>3. \E x \in S : \A y \in S : x >= y
  BY <1>1, <1>2
<1> QED BY <1>3 DEF Max

(* The lowest value of a set is the highest of the negated ones.           *)
LEMMA MinFacts ==
    ASSUME NEW S \in SUBSET Int, IsFiniteSet(S), S # {}
    PROVE  Min(S) \in S /\ \A x \in S : Min(S) =< x
<1> DEFINE f == [x \in S |-> -x]
<1>1. \A x \in S : f[x] \in Int /\ f[x] = -x
  OBVIOUS
<1> HIDE DEF f
<1>2. \E x \in S : \A y \in S : f[x] >= f[y]
  BY <1>1, HighestExists
<1>3. \E x \in S : \A y \in S : x =< y
  BY <1>1, <1>2
<1> QED BY <1>3 DEF Min

(* A function takes finitely many values on a finite set.                  *)
LEMMA ImageFinite ==
    ASSUME NEW S, IsFiniteSet(S), NEW f
    PROVE  IsFiniteSet({f[x] : x \in S})
<1> DEFINE T == {f[x] : x \in S}
           g == [x \in S |-> f[x]]
<1>1. g \in Surjection(S, T)
  BY DEF Surjection
<1> HIDE DEF g, T
<1>2. IsFiniteSet(T)
  BY <1>1, FS_Surjection
<1> QED BY <1>2 DEF T

-----------------------------------------------------------------------------
(* Sums.  The element that MapThenFoldSet takes out of a set first is      *)
(* named, and so is what defines the sums over all subsets at once.        *)

(* The element taken out first.                                            *)
First(s) == CHOOSE x \in s : TRUE

(* g gives the sum of f over every subset of S.                            *)
SumRule(f, S, g) ==
    g = [s \in SUBSET S |-> IF s = {} THEN 0
                            ELSE f[First(s)] + g[s \ {First(s)}]]

(* SumFunctionOnSet is the value at S of such a function.                  *)
LEMMA SumIsChosen ==
    ASSUME NEW f, NEW S
    PROVE  SumFunctionOnSet(f, S) = (CHOOSE g : SumRule(f, S, g))[S]
BY DEF SumFunctionOnSet, FoldFunctionOnSet, MapThenFoldSet, SumRule, First

(* What such a function gives for one subset.                              *)
LEMMA SumRuleAt ==
    ASSUME NEW f, NEW S, NEW g, SumRule(f, S, g), NEW s \in SUBSET S
    PROVE  g[s] = IF s = {} THEN 0
                  ELSE f[First(s)] + g[s \ {First(s)}]
<1> DEFINE h == [t \in SUBSET S |-> IF t = {} THEN 0
                     ELSE f[First(t)] + g[t \ {First(t)}]]
<1>1. g = h
  BY DEF SumRule
<1>2. h[s] = IF s = {} THEN 0
             ELSE f[First(s)] + g[s \ {First(s)}]
  OBVIOUS
<1> HIDE DEF h
<1>3. g[s] = h[s]
  BY <1>1
<1> QED BY <1>2, <1>3

(* The rule leaves no choice, ...                                          *)
LEMMA SumRuleUnique ==
    ASSUME NEW f, NEW S, IsFiniteSet(S), NEW T, S \subseteq T,
           NEW g, SumRule(f, S, g), NEW h, SumRule(f, T, h)
    PROVE  g[S] = h[S]
<1> DEFINE F == {s \in SUBSET S : g[s] # h[s]}
<1> SUFFICES ASSUME F # {} PROVE FALSE
  OBVIOUS
<1>1. PICK s \in F : \A t \in F : t \subseteq s => t = s
  <2>1. F \in SUBSET SUBSET S
    OBVIOUS
  <2> HIDE DEF F
  <2> QED BY <2>1, SmallestSubset
<1> DEFINE x == First(s)
<1>2. g[s] = IF s = {} THEN 0 ELSE f[x] + g[s \ {x}]
  BY SumRuleAt
<1>3. h[s] = IF s = {} THEN 0 ELSE f[x] + h[s \ {x}]
  <2>1. s \in SUBSET T
    OBVIOUS
  <2> QED BY <2>1, SumRuleAt
<1>4. s # {} => x \in s
  BY DEF First
<1> HIDE DEF x
<1>5. s # {} /\ g[s \ {x}] # h[s \ {x}]
  BY <1>2, <1>3
<1>6. s \ {x} \in F /\ s \ {x} # s
  BY <1>4, <1>5
<1> QED BY <1>1, <1>6

(* The function that the recursive definition denotes.                     *)
Chosen(f, S) == CHOOSE g : SumRule(f, S, g)

(* ... and there is a function that follows it.                            *)
LEMMA SumRuleExists ==
    ASSUME NEW f, NEW U, IsFiniteSet(U)
    PROVE  SumRule(f, U, Chosen(f, U))
<1> DEFINE F == {S \in SUBSET U : ~SumRule(f, S, Chosen(f, S))}
<1> SUFFICES ASSUME F # {} PROVE FALSE
  OBVIOUS
<1>1. PICK S \in F : \A T \in F : T \subseteq S => T = S
  <2>1. F \in SUBSET SUBSET U
    OBVIOUS
  <2> HIDE DEF F
  <2> QED BY <2>1, SmallestSubset
<1>2. \A T \in SUBSET S : T # S => SumRule(f, T, Chosen(f, T))
  BY <1>1
<1>3. IsFiniteSet(S)
  BY FS_Subset
<1> DEFINE rest(s) == s \ {First(s)}
           h == [s \in SUBSET S |-> IF s = {} THEN 0
                   ELSE f[First(s)] + Chosen(f, rest(s))[rest(s)]]
<1>4. ASSUME NEW t \in SUBSET S, t # S
      PROVE  h[t] = Chosen(f, t)[t]
  <2>1. SumRule(f, t, Chosen(f, t))
    BY <1>2, <1>4
  <2>2. Chosen(f, t)[t] = IF t = {} THEN 0
                          ELSE f[First(t)] + Chosen(f, t)[rest(t)]
    <3>1. t \in SUBSET t
      OBVIOUS
    <3> QED BY <2>1, <3>1, SumRuleAt
  <2>3. ASSUME t # {}
        PROVE  Chosen(f, rest(t))[rest(t)] = Chosen(f, t)[rest(t)]
    <3>1. rest(t) \subseteq t /\ rest(t) # S
      BY <1>4 DEF First
    <3>2. SumRule(f, rest(t), Chosen(f, rest(t)))
      BY <1>2, <3>1
    <3>3. IsFiniteSet(rest(t))
      BY <1>3, <3>1, FS_Subset
    <3> HIDE DEF rest
    <3> QED BY <2>1, <3>1, <3>2, <3>3, SumRuleUnique
  <2> QED BY <2>2, <2>3
<1>5. SumRule(f, S, h)
  <2>1. ASSUME NEW s \in SUBSET S, s # {}
        PROVE  Chosen(f, rest(s))[rest(s)] = h[rest(s)]
    <3>1. rest(s) \in SUBSET S /\ rest(s) # S
      BY <2>1 DEF First
    <3> HIDE DEF h, rest
    <3> QED BY <3>1, <1>4
  <2> DEFINE k == [s \in SUBSET S |-> IF s = {} THEN 0
                                     ELSE f[First(s)] + h[rest(s)]]
  <2>2. \A s \in SUBSET S :
           (IF s = {} THEN 0 ELSE f[First(s)] + Chosen(f, rest(s))[rest(s)])
             = IF s = {} THEN 0 ELSE f[First(s)] + h[rest(s)]
    <3> HIDE DEF h, rest
    <3> QED BY <2>1
  <2>3. h = k
    BY <2>2
  <2> HIDE DEF h
  <2> QED BY <2>3 DEF SumRule
<1>6. SumRule(f, S, Chosen(f, S))
  <2> HIDE DEF h
  <2> QED BY <1>5 DEF Chosen
<1> QED BY <1>1, <1>6

(* So a sum is what one expects: of nothing 0, ...                         *)
LEMMA SumEmpty ==
    ASSUME NEW f
    PROVE  SumFunctionOnSet(f, {}) = 0
<1>1. SumRule(f, {}, Chosen(f, {}))
  BY SumRuleExists, FS_EmptySet
<1> QED BY <1>1, SumRuleAt, SumIsChosen DEF Chosen

(* ... of a set, one element and the sum of the rest, ...                  *)
LEMMA SumFirst ==
    ASSUME NEW f, NEW S, IsFiniteSet(S), S # {}
    PROVE  \E x \in S : SumFunctionOnSet(f, S) = f[x] + SumFunctionOnSet(f, S \ {x})
<1> DEFINE x == First(S)
<1>1. x \in S
  BY DEF First
<1>2. Chosen(f, S)[S] = f[x] + Chosen(f, S)[S \ {x}]
  BY SumRuleExists, SumRuleAt
<1> HIDE DEF x
<1>3. IsFiniteSet(S \ {x})
  BY FS_Subset
<1>4. Chosen(f, S \ {x})[S \ {x}] = Chosen(f, S)[S \ {x}]
  BY <1>3, SumRuleExists, SumRuleUnique
<1>5. /\ SumFunctionOnSet(f, S) = Chosen(f, S)[S]
      /\ SumFunctionOnSet(f, S \ {x}) = Chosen(f, S \ {x})[S \ {x}]
  BY SumIsChosen DEF Chosen
<1> QED BY <1>1, <1>2, <1>4, <1>5

(* ... of integers an integer, ...                                         *)
LEMMA SumInt ==
    ASSUME NEW f, NEW U, IsFiniteSet(U), \A x \in U : f[x] \in Int
    PROVE  SumFunctionOnSet(f, U) \in Int
<1> DEFINE F == {S \in SUBSET U : SumFunctionOnSet(f, S) \notin Int}
<1> SUFFICES ASSUME F # {} PROVE FALSE
  OBVIOUS
<1>1. PICK S \in F : \A T \in F : T \subseteq S => T = S
  <2>1. F \in SUBSET SUBSET U
    OBVIOUS
  <2> HIDE DEF F
  <2> QED BY <2>1, SmallestSubset
<1>2. IsFiniteSet(S) /\ S # {}
  <2>1. S \in SUBSET U /\ SumFunctionOnSet(f, S) \notin Int
    OBVIOUS
  <2>2. S # {}
    BY <2>1, SumEmpty
  <2> QED BY <2>1, <2>2, FS_Subset
<1>3. PICK x \in S : SumFunctionOnSet(f, S) = f[x] + SumFunctionOnSet(f, S \ {x})
  BY <1>2, SumFirst
<1>4. S \ {x} \notin F /\ S \ {x} \in SUBSET U
  BY <1>1
<1> QED BY <1>3, <1>4

(* ... and of a set whatever element is taken out first.                   *)
LEMMA SumRemove ==
    ASSUME NEW f, NEW U, IsFiniteSet(U), \A x \in U : f[x] \in Int, NEW e \in U
    PROVE  SumFunctionOnSet(f, U) = f[e] + SumFunctionOnSet(f, U \ {e})
<1> DEFINE Sum(S) == SumFunctionOnSet(f, S)
           F == {S \in SUBSET U : \E y \in S : Sum(S) # f[y] + Sum(S \ {y})}
<1> SUFFICES ASSUME F # {} PROVE FALSE
  OBVIOUS
<1>1. PICK S \in F : \A T \in F : T \subseteq S => T = S
  <2>1. F \in SUBSET SUBSET U
    OBVIOUS
  <2> HIDE DEF F
  <2> QED BY <2>1, SmallestSubset
<1>2. PICK y \in S : Sum(S) # f[y] + Sum(S \ {y})
  OBVIOUS
<1>3. S \in SUBSET U /\ IsFiniteSet(S)
  BY FS_Subset
<1>4. PICK x \in S : Sum(S) = f[x] + Sum(S \ {x})
  BY <1>3, SumFirst
<1>5. x # y
  BY <1>2, <1>4
<1>6. \A T \in SUBSET S : T # S => \A z \in T : Sum(T) = f[z] + Sum(T \ {z})
  BY <1>1, <1>3
<1> DEFINE rest == S \ {x, y}
<1>7. /\ S \ {x} \in SUBSET S /\ S \ {x} # S /\ y \in S \ {x} /\ (S \ {x}) \ {y} = rest
      /\ S \ {y} \in SUBSET S /\ S \ {y} # S /\ x \in S \ {y} /\ (S \ {y}) \ {x} = rest
  BY <1>5
<1>8. Sum(rest) \in Int /\ f[x] \in Int /\ f[y] \in Int
  <2>1. IsFiniteSet(rest) /\ rest \subseteq U
    BY <1>3, FS_Subset
  <2> HIDE DEF rest
  <2> QED BY <1>3, <2>1, SumInt
<1> HIDE DEF Sum, rest
<1>9. Sum(S \ {x}) = f[y] + Sum(rest) /\ Sum(S \ {y}) = f[x] + Sum(rest)
  BY <1>6, <1>7
<1> QED BY <1>2, <1>4, <1>8, <1>9

(* Adding w on the members of E adds the sum of w over E.                  *)
LEMMA SumGain ==
    ASSUME NEW U, IsFiniteSet(U), NEW E \in SUBSET U,
           NEW f, \A x \in U : f[x] \in Int,
           NEW w, \A x \in E : w[x] \in Int,
           NEW g, \A x \in U : g[x] = IF x \in E THEN f[x] + w[x] ELSE f[x]
    PROVE  SumFunctionOnSet(g, U) = SumFunctionOnSet(f, U) + SumFunctionOnSet(w, E)
<1> DEFINE Sum(h, S) == SumFunctionOnSet(h, S)
           F == {S \in SUBSET U : Sum(g, S) # Sum(f, S) + Sum(w, S \cap E)}
<1>0. U \cap E = E
  OBVIOUS
<1> SUFFICES ASSUME F # {} PROVE FALSE
  BY <1>0
<1>1. PICK S \in F : \A T \in F : T \subseteq S => T = S
  <2>1. F \in SUBSET SUBSET U
    OBVIOUS
  <2> HIDE DEF F
  <2> QED BY <2>1, SmallestSubset
<1>2. S \in SUBSET U /\ IsFiniteSet(S) /\ IsFiniteSet(S \cap E)
  <2>1. S \in SUBSET U /\ S \cap E \in SUBSET U
    OBVIOUS
  <2> QED BY <2>1, FS_Subset
<1>3. S # {}
  BY SumEmpty
<1>4. PICK x \in S : TRUE
  BY <1>3
<1> DEFINE T == S \ {x}
<1>5. Sum(g, T) = Sum(f, T) + Sum(w, T \cap E)
  <2>1. T \in SUBSET U /\ T \notin F
    BY <1>1, <1>2
  <2> QED BY <2>1
<1>6. Sum(g, S) = g[x] + Sum(g, T) /\ Sum(f, S) = f[x] + Sum(f, T)
  BY <1>2, SumRemove
<1>7. Sum(f, T) \in Int /\ Sum(w, T \cap E) \in Int /\ f[x] \in Int
  <2>1. IsFiniteSet(T) /\ IsFiniteSet(T \cap E) /\ T \in SUBSET U
    BY <1>2, FS_Subset
  <2> HIDE DEF T
  <2> QED BY <1>2, <2>1, SumInt
<1>8. CASE x \in E
  <2>1. x \in S \cap E /\ (S \cap E) \ {x} = T \cap E
    BY <1>8
  <2>2. Sum(w, S \cap E) = w[x] + Sum(w, T \cap E)
    BY <1>2, <2>1, SumRemove
  <2>3. g[x] = f[x] + w[x] /\ w[x] \in Int
    BY <1>2, <1>8
  <2>4. Sum(g, S) # Sum(f, S) + Sum(w, S \cap E)
    OBVIOUS
  <2> HIDE DEF Sum, T, F
  <2> QED BY <1>5, <1>6, <1>7, <2>2, <2>3, <2>4
<1>9. CASE x \notin E
  <2>1. S \cap E = T \cap E /\ g[x] = f[x]
    BY <1>2, <1>9
  <2>2. Sum(g, S) # Sum(f, S) + Sum(w, T \cap E)
    BY <2>1
  <2>3. g[x] = f[x]
    BY <2>1
  <2> HIDE DEF Sum, T, F
  <2> QED BY <1>5, <1>6, <1>7, <2>2, <2>3
<1> QED BY <1>8, <1>9

(* A sum depends on the values summed only.                                *)
LEMMA SumSame ==
    ASSUME NEW U, IsFiniteSet(U), NEW f, \A x \in U : f[x] \in Int,
           NEW g, \A x \in U : g[x] = f[x]
    PROVE  SumFunctionOnSet(g, U) = SumFunctionOnSet(f, U)
<1>1. SumFunctionOnSet(g, U) = SumFunctionOnSet(f, U) + SumFunctionOnSet(f, {})
  BY SumGain
<1> QED BY <1>1, SumEmpty, SumInt

(* Zeros add up to zero.                                                   *)
LEMMA SumZero ==
    ASSUME NEW U, IsFiniteSet(U), NEW f, \A x \in U : f[x] = 0
    PROVE  SumFunctionOnSet(f, U) = 0
<1> DEFINE F == {S \in SUBSET U : SumFunctionOnSet(f, S) # 0}
<1> SUFFICES ASSUME F # {} PROVE FALSE
  OBVIOUS
<1>1. PICK S \in F : \A T \in F : T \subseteq S => T = S
  <2>1. F \in SUBSET SUBSET U
    OBVIOUS
  <2> HIDE DEF F
  <2> QED BY <2>1, SmallestSubset
<1>2. IsFiniteSet(S) /\ S # {}
  <2>1. S \in SUBSET U /\ SumFunctionOnSet(f, S) # 0
    OBVIOUS
  <2> QED BY <2>1, SumEmpty, FS_Subset
<1>3. PICK x \in S : SumFunctionOnSet(f, S) = f[x] + SumFunctionOnSet(f, S \ {x})
  BY <1>2, SumFirst
<1>4. S \ {x} \notin F /\ S \ {x} \in SUBSET U
  BY <1>1
<1> QED BY <1>3, <1>4

(* A sum over a set, from the sums over two parts of it.                   *)
LEMMA SumSplit ==
    ASSUME NEW U, IsFiniteSet(U), NEW f, \A x \in U : f[x] \in Int, NEW E \in SUBSET U
    PROVE  SumFunctionOnSet(f, U) = SumFunctionOnSet(f, U \ E) + SumFunctionOnSet(f, E)
<1> DEFINE Sum(S) == SumFunctionOnSet(f, S)
           F == {S \in SUBSET E : Sum(U) # Sum(U \ S) + Sum(S)}
<1> SUFFICES ASSUME F # {} PROVE FALSE
  OBVIOUS
<1>1. PICK S \in F : \A T \in F : T \subseteq S => T = S
  <2>1. F \in SUBSET SUBSET E /\ IsFiniteSet(E)
    BY FS_Subset
  <2> HIDE DEF F
  <2> QED BY <2>1, SmallestSubset
<1>2. S \in SUBSET U /\ Sum(U) # Sum(U \ S) + Sum(S)
  OBVIOUS
<1>3. /\ IsFiniteSet(S) /\ IsFiniteSet(U \ S) /\ U \ S \in SUBSET U
      /\ Sum(U) \in Int
  BY <1>2, FS_Subset, SumInt
<1>4. S # {}
  <2> SUFFICES ASSUME S = {} PROVE FALSE
    OBVIOUS
  <2>1. U \ S = U /\ Sum(S) = 0
    BY SumEmpty
  <2> HIDE DEF Sum, F
  <2> QED BY <1>2, <1>3, <2>1
<1>5. PICK x \in S : TRUE
  BY <1>4
<1> DEFINE T == S \ {x}
           R == U \ T
<1>6. Sum(U) = Sum(R) + Sum(T)
  <2>1. T \in SUBSET E /\ T \notin F
    BY <1>1
  <2> QED BY <2>1
<1>7. Sum(S) = f[x] + Sum(T)
  BY <1>2, <1>3, SumRemove
<1>8. Sum(R) = f[x] + Sum(U \ S)
  <2>1. x \in R /\ R \ {x} = U \ S /\ R \in SUBSET U
    BY <1>2
  <2>2. IsFiniteSet(R)
    BY <2>1, FS_Subset
  <2> HIDE DEF R
  <2> QED BY <2>1, <2>2, SumRemove
<1>9. Sum(T) \in Int /\ Sum(U \ S) \in Int /\ f[x] \in Int
  <2>1. IsFiniteSet(T) /\ T \in SUBSET U
    BY <1>2, <1>3, FS_Subset
  <2> HIDE DEF T
  <2> QED BY <1>2, <1>3, <2>1, SumInt
<1> HIDE DEF Sum, F, T, R
<1> QED BY <1>2, <1>6, <1>7, <1>8, <1>9

(* A sum of values that are at most c.                                     *)
LEMMA SumAtMost ==
    ASSUME NEW U, IsFiniteSet(U), NEW c \in Int,
           NEW f, \A x \in U : f[x] \in Int /\ f[x] =< c
    PROVE  SumFunctionOnSet(f, U) =< Cardinality(U) * c
<1> DEFINE F == {S \in SUBSET U : ~(SumFunctionOnSet(f, S) =< Cardinality(S) * c)}
<1> SUFFICES ASSUME F # {} PROVE FALSE
  OBVIOUS
<1>1. PICK S \in F : \A T \in F : T \subseteq S => T = S
  <2>1. F \in SUBSET SUBSET U
    OBVIOUS
  <2> HIDE DEF F
  <2> QED BY <2>1, SmallestSubset
<1>2. S \in SUBSET U /\ IsFiniteSet(S) /\ ~(SumFunctionOnSet(f, S) =< Cardinality(S) * c)
  BY FS_Subset
<1>3. S # {}
  <2> SUFFICES ASSUME S = {} PROVE FALSE
    OBVIOUS
  <2>1. SumFunctionOnSet(f, S) = 0 /\ Cardinality(S) = 0
    BY SumEmpty, FS_EmptySet
  <2> QED BY <1>2, <2>1
<1>4. PICK x \in S : TRUE
  BY <1>3
<1> DEFINE T == S \ {x}
           s == SumFunctionOnSet(f, T)
           k == Cardinality(T)
<1>5. T \in SUBSET U /\ s =< k * c
  <2>1. T \in SUBSET U /\ T \notin F
    BY <1>1, <1>2
  <2> QED BY <2>1
<1>6. SumFunctionOnSet(f, S) = f[x] + s /\ f[x] \in Int /\ f[x] =< c
  BY <1>2, SumRemove
<1>7. IsFiniteSet(T) /\ Cardinality(S) = k + 1
  <2>1. Cardinality(S) \in Nat
    BY <1>2, FS_CardinalityType
  <2>2. IsFiniteSet(T) /\ k = Cardinality(S) - 1
    BY <1>2, FS_RemoveElement
  <2> QED BY <2>1, <2>2
<1>8. k \in Nat /\ s \in Int
  <2>1. \A z \in T : f[z] \in Int
    BY <1>5
  <2> HIDE DEF T
  <2> QED BY <1>7, <2>1, FS_CardinalityType, SumInt
<1> HIDE DEF T, s, k, F
<1>9. (k + 1) * c = k * c + c
  BY <1>8
<1>10. k * c \in Int
  BY <1>8
<1> DEFINE kc == k * c
<1> HIDE DEF kc
<1>11. ~(f[x] + s =< kc + c) /\ s =< kc /\ kc \in Int
  BY <1>2, <1>5, <1>6, <1>7, <1>9, <1>10 DEF kc
<1> QED BY <1>6, <1>8, <1>11

(* A sum of naturals is one, and grows with the set.                       *)
LEMMA SumNat ==
    ASSUME NEW U, IsFiniteSet(U), NEW f, \A x \in U : f[x] \in Nat, NEW E \in SUBSET U
    PROVE  /\ SumFunctionOnSet(f, U) \in Nat
           /\ SumFunctionOnSet(f, E) \in Nat
           /\ SumFunctionOnSet(f, E) =< SumFunctionOnSet(f, U)
<1>1. \A S \in SUBSET U : SumFunctionOnSet(f, S) \in Nat
  <2> DEFINE F == {S \in SUBSET U : SumFunctionOnSet(f, S) \notin Nat}
  <2> SUFFICES ASSUME F # {} PROVE FALSE
    OBVIOUS
  <2>1. PICK S \in F : \A T \in F : T \subseteq S => T = S
    <3>1. F \in SUBSET SUBSET U
      OBVIOUS
    <3> HIDE DEF F
    <3> QED BY <3>1, SmallestSubset
  <2>2. S \in SUBSET U /\ IsFiniteSet(S) /\ S # {}
    <3>1. S \in SUBSET U /\ SumFunctionOnSet(f, S) \notin Nat
      OBVIOUS
    <3>2. S # {}
      BY <3>1, SumEmpty
    <3> QED BY <3>1, <3>2, FS_Subset
  <2>3. PICK x \in S : SumFunctionOnSet(f, S) = f[x] + SumFunctionOnSet(f, S \ {x})
    BY <2>2, SumFirst
  <2>4. S \ {x} \notin F /\ S \ {x} \in SUBSET U
    BY <2>1, <2>2
  <2>5. f[x] \in Nat /\ SumFunctionOnSet(f, S \ {x}) \in Nat
    BY <2>2, <2>4
  <2>6. SumFunctionOnSet(f, S) \notin Nat
    OBVIOUS
  <2> HIDE DEF F
  <2> QED BY <2>3, <2>5, <2>6
<1>2. SumFunctionOnSet(f, U) = SumFunctionOnSet(f, U \ E) + SumFunctionOnSet(f, E)
  BY SumSplit
<1>3. /\ SumFunctionOnSet(f, U) \in Nat /\ SumFunctionOnSet(f, E) \in Nat
      /\ SumFunctionOnSet(f, U \ E) \in Nat
  BY <1>1
<1> QED BY <1>2, <1>3
-----------------------------------------------------------------------------

(* The nodes are finitely many.                                            *)
LEMMA NodeFinite == IsFiniteSet(Node)
BY BalancerAssumption, FS_Interval DEF Node

(* What a set of candidates is.                                            *)
LEMMA InstanceFacts ==
    ASSUME NEW cand \in Instances
    PROVE  /\ DOMAIN cand \subseteq Node
           /\ cand \in [DOMAIN cand -> Backend]
           /\ \A n \in DOMAIN cand : /\ cand[n] \in Backend
                                     /\ cand[n].weight \in Nat
                                     /\ cand[n].limit \in Limits
           /\ \A S \in SUBSET DOMAIN cand : [n \in S |-> cand[n]] \in Instances
<1>1. PICK S \in SUBSET Node : cand \in [S -> Backend]
  BY DEF Instances
<1>2. ASSUME NEW T \in SUBSET DOMAIN cand
      PROVE  [n \in T |-> cand[n]] \in Instances
  <2>1. [n \in T |-> cand[n]] \in [T -> Backend] /\ T \in SUBSET Node
    BY <1>1
  <2> QED BY <2>1 DEF Instances
<1> QED BY <1>1, <1>2, BalancerAssumption DEF Backend

(* A service without instances is a set of candidates too.                 *)
LEMMA NoBackendsInstances == NoBackends \in Instances
<1>1. NoBackends \in [{} -> Backend] /\ {} \in SUBSET Node
  BY DEF NoBackends
<1> QED BY <1>1 DEF Instances

(* prefer_healthy only leaves out candidates.                              *)
LEMMA PreferredSubset ==
    ASSUME NEW all, NEW S \in Preferred(all)
    PROVE  S \in SUBSET all
BY DEF Preferred, PreferHealthy, Prefer

(* The loop of pick returns one of the nodes it went over.                 *)
LEMMA BestIsEligible ==
    ASSUME NEW E \in SUBSET Node, E # {}, NEW gained, \A n \in E : gained[n] \in Int
    PROVE  Best(gained, E) \in E
<1> DEFINE H == {n \in E : \A m \in E : gained[n] >= gained[m]}
<1>1. IsFiniteSet(E) /\ IsFiniteSet(H)
  BY NodeFinite, FS_Subset
<1>2. H # {}
  <2>1. \E n \in E : \A m \in E : gained[n] >= gained[m]
    BY <1>1, HighestExists
  <2> QED BY <2>1
<1>3. H \in SUBSET Int
  <2>1. Node \subseteq Int
    BY BalancerAssumption DEF Node
  <2> QED BY <2>1
<1>4. Min(H) \in H
  <2> HIDE DEF H
  <2> QED BY <1>1, <1>2, <1>3, MinFacts
<1> QED BY <1>4 DEF Best

(* None of them has more than the one it returns.                          *)
LEMMA BestIsBest ==
    ASSUME NEW E \in SUBSET Node, E # {}, NEW gained, \A n \in E : gained[n] \in Int
    PROVE  \A m \in E : gained[m] =< gained[Best(gained, E)]
<1> DEFINE H == {n \in E : \A m \in E : gained[n] >= gained[m]}
<1>1. IsFiniteSet(E) /\ IsFiniteSet(H) /\ H \in SUBSET Int
  <2>1. Node \subseteq Int
    BY BalancerAssumption DEF Node
  <2> QED BY <2>1, NodeFinite, FS_Subset
<1>2. \E n \in E : \A m \in E : gained[n] >= gained[m]
  BY <1>1, HighestExists
<1>3. H # {}
  BY <1>2
<1>4. Min(H) \in H
  <2> HIDE DEF H
  <2> QED BY <1>1, <1>3, MinFacts
<1>5. Best(gained, E) = Min(H)
  BY DEF Best
<1>6. ASSUME NEW b \in H, NEW m \in E
      PROVE  gained[m] =< gained[b]
  <2>1. gained[m] \in Int /\ gained[b] \in Int /\ gained[b] >= gained[m]
    OBVIOUS
  <2> QED BY <2>1
<1> HIDE DEF H
<1> QED BY <1>4, <1>5, <1>6

(* pick considers no node that is full or was tried.                       *)
LEMMA EligibleIsOpen ==
    ASSUME NEW cand, NEW tried
    PROVE  Eligible(cand, tried) \subseteq Open(cand, tried)
BY DEF Eligible, FailOpen

(* What pick does, apart from the choice among eligible nodes: it reserves *)
(* a slot on an untried candidate below its limit, and the running weights *)
(* keep their sum.                                                         *)
LEMMA ChooseFacts ==
    ASSUME BalancerTypeOK, NEW c \in Client, NEW cand \in Instances, NEW tried,
           NEW n \in Node, Choose(c, cand, tried, n)
    PROVE  /\ n \in Eligible(cand, tried) /\ n \in Open(cand, tried)
           /\ BalancerTypeOK'
           /\ SumFunctionOnSet(current', Node) = SumFunctionOnSet(current, Node)
<1> DEFINE E == Eligible(cand, tried)
           gained == Gained(cand, E)
           w == [m \in E |-> WeightOf(cand[m])]
<1>1. /\ E # {} /\ n = Best(gained, E)
      /\ current' = [gained EXCEPT ![n] = @ - Total(cand, E)]
      /\ active' = [active EXCEPT ![n] = @ + 1]
      /\ slots' = slots \cup {[client |-> c, node |-> n, limit |-> cand[n].limit]}
      /\ outlier' = outlier
  BY DEF Choose
<1>2. E \subseteq Open(cand, tried) /\ E \subseteq DOMAIN cand /\ E \in SUBSET Node
  BY EligibleIsOpen, InstanceFacts DEF Open, Untried
<1>3. \A m \in E : w[m] = WeightOf(cand[m]) /\ w[m] \in Int
  BY <1>2, InstanceFacts DEF WeightOf
<1>4. gained \in [Node -> Int]
  BY <1>2, <1>3 DEF Gained, BalancerTypeOK
<1>5. n \in E
  BY <1>1, <1>2, <1>4, BestIsEligible
<1>6. IsFiniteSet(E)
  BY <1>2, NodeFinite, FS_Subset
<1>7. Total(cand, E) = SumFunctionOnSet(w, E) /\ Total(cand, E) \in Int
  BY <1>3, <1>6, SumInt DEF Total
<1>8. current' \in [Node -> Int]
  BY <1>1, <1>4, <1>7
<1>9. BalancerTypeOK'
  <2>1. [client |-> c, node |-> n, limit |-> cand[n].limit] \in CL!Slot
    BY <1>2, <1>5, InstanceFacts DEF CL!Slot
  <2> QED BY <1>1, <1>8, <2>1 DEF BalancerTypeOK
<1>10. SumFunctionOnSet(gained, Node)
         = SumFunctionOnSet(current, Node) + SumFunctionOnSet(w, E)
  <2>1. \A m \in Node : /\ current[m] \in Int
                        /\ gained[m] = IF m \in E THEN current[m] + w[m] ELSE current[m]
    BY <1>3 DEF Gained, BalancerTypeOK
  <2> HIDE DEF E, gained, w
  <2> QED BY <1>2, <1>3, <2>1, NodeFinite, SumGain
<1> DEFINE d == [m \in {n} |-> -Total(cand, E)]
<1>11. SumFunctionOnSet(current', Node)
         = SumFunctionOnSet(gained, Node) + SumFunctionOnSet(d, {n})
  <2>1. \A m \in Node : /\ gained[m] \in Int
                        /\ current'[m] = IF m \in {n} THEN gained[m] + d[m] ELSE gained[m]
    BY <1>1, <1>4, <1>7
  <2>2. {n} \in SUBSET Node /\ \A m \in {n} : d[m] \in Int
    BY <1>7
  <2> HIDE DEF gained, d
  <2> QED BY <2>1, <2>2, NodeFinite, SumGain
<1>12. SumFunctionOnSet(d, {n}) = -Total(cand, E)
  <2>1. \A m \in {n} : d[m] \in Int
    BY <1>7
  <2>2. IsFiniteSet({n}) /\ n \in {n} /\ {n} \ {n} = {} /\ d[n] = -Total(cand, E)
    BY FS_Singleton
  <2> HIDE DEF d
  <2>3. SumFunctionOnSet(d, {n}) = d[n] + SumFunctionOnSet(d, {n} \ {n})
    BY <2>1, <2>2, SumRemove
  <2>4. SumFunctionOnSet(d, {n} \ {n}) = 0
    BY <2>2, SumEmpty
  <2> QED BY <1>7, <2>2, <2>3, <2>4
<1>13. SumFunctionOnSet(current, Node) \in Int
  BY NodeFinite, SumInt DEF BalancerTypeOK
<1>14. n \in Eligible(cand, tried) /\ n \in Open(cand, tried)
  BY <1>2, <1>5
<1> HIDE DEF E, gained, w, d
<1> QED BY <1>7, <1>9, <1>10, <1>11, <1>12, <1>13, <1>14

(* The multiplier of an ejection, 2^k, is a number: there are 2^k sets of  *)
(* k numbers.                                                              *)
LEMMA PowerOfTwo ==
    ASSUME NEW k \in Nat
    PROVE  2 ^ k \in Nat
<1>1. IsFiniteSet(1 .. k) /\ Cardinality(1 .. k) = k
  BY FS_Interval
<1>2. IsFiniteSet(SUBSET (1 .. k)) /\ Cardinality(SUBSET (1 .. k)) = 2 ^ k
  BY <1>1, FS_SUBSET
<1> QED BY <1>2, FS_CardinalityType

(* The outlier record after a failure.                                     *)
LEMMA AfterFailureType ==
    ASSUME NEW o \in Outlier
    PROVE  AfterFailure(o) \in Outlier /\ (o.left > 0 => AfterFailure(o) = o)
<1> DEFINE again == IF o.ejections > 0 /\ EjectionTime(o.ejections) = MaxEjection
                    THEN o.ejections ELSE o.ejections + 1
<1>1. again \in Nat /\ again - 1 \in Nat
  BY DEF Outlier
<1>2. EjectionTime(again) \in Nat
  <2> HIDE DEF again
  <2>1. 2 ^ (again - 1) \in Nat /\ MaxEjection \in Nat
    BY <1>1, PowerOfTwo, BalancerAssumption
  <2> DEFINE S == {2 ^ (again - 1), MaxEjection}
  <2>2. S \subseteq Nat /\ \E x \in S : \A y \in S : x =< y
    BY <2>1
  <2>3. Min(S) \in S
    <3> HIDE DEF S
    <3> QED BY <2>2 DEF Min
  <2> QED BY <2>2, <2>3 DEF EjectionTime
<1>3. AfterFailure(o) = IF o.left > 0 THEN o
        ELSE IF o.failures + 1 < EjectAfter THEN [o EXCEPT !.failures = @ + 1]
        ELSE [failures |-> 0, ejections |-> again, left |-> EjectionTime(again)]
  BY DEF AfterFailure
<1> HIDE DEF again
<1> QED BY <1>1, <1>2, <1>3 DEF Outlier

(* Types survive every operation of the balancer.                          *)
LEMMA OperationTypes ==
    ASSUME BalancerTypeOK,
           \/ \E s : DropSlot(s)
           \/ \E S \in SUBSET Node : RetainNodes(S)
           \/ \E n \in Node : RecordSuccess(n) \/ RecordFailure(n)
           \/ Tick
    PROVE  BalancerTypeOK'
<1>1. ASSUME NEW s, DropSlot(s)
      PROVE  BalancerTypeOK'
  BY <1>1 DEF BalancerTypeOK, DropSlot, CL!Slot
<1>2. ASSUME NEW S \in SUBSET Node, RetainNodes(S)
      PROVE  BalancerTypeOK'
  BY <1>2 DEF BalancerTypeOK, RetainNodes, Outlier, NotOutlier
<1>3. ASSUME NEW n \in Node, RecordSuccess(n)
      PROVE  BalancerTypeOK'
  BY <1>3 DEF BalancerTypeOK, RecordSuccess, Outlier, NotOutlier
<1>4. ASSUME NEW n \in Node, RecordFailure(n)
      PROVE  BalancerTypeOK'
  BY <1>4, AfterFailureType DEF BalancerTypeOK, RecordFailure
<1>5. CASE Tick
  <2>1. ASSUME NEW o \in Outlier
        PROVE  [o EXCEPT !.left = IF @ = 0 THEN 0 ELSE @ - 1] \in Outlier
    BY DEF Outlier
  <2>2. outlier' \in [Node -> Outlier]
    BY <1>5, <2>1 DEF BalancerTypeOK, Tick
  <2> QED BY <1>5, <2>2 DEF BalancerTypeOK, Tick
<1> QED BY <1>1, <1>2, <1>3, <1>4, <1>5

-----------------------------------------------------------------------------
(* Products and inequalities.                                              *)
LEMMA TimesMonotone ==
    \A k \in Nat, x, y \in Int : x =< y => k * x =< k * y
OBVIOUS

(* And back.                                                               *)
LEMMA TimesCancel ==
    \A k \in Nat \ {0}, x, y \in Int : k * x =< k * y => x =< y
OBVIOUS

(* The arithmetic of a turn in which no node of A is chosen.  sumA and     *)
(* sumT are the sums over A and over its t members that take part, cur is  *)
(* the chosen node's running weight: with the bound known of A with that   *)
(* node and of A without those members, it follows for A.                  *)
LEMMA BoundStep ==
    ASSUME NEW n \in Nat, NEW most \in Nat, NEW a \in Nat, NEW t \in Nat,
           NEW sumA \in Int, NEW sumT \in Int, NEW cur \in Int,
           NEW wT \in Int, NEW w \in Int,
           sumA + cur =< most * (a + 1) * (n - (a + 1)),
           sumA - sumT =< most * (a - t) * (n - (a - t)),
           sumT + wT =< t * (cur + w),
           wT =< t * most, w =< most
    PROVE  sumA + wT =< most * a * (n - a)
<1> DEFINE f0 == most * a * (n - a)
           f1 == most * (a + 1) * (n - (a + 1))
           f2 == most * (a - t) * (n - (a - t))
<1>1. f0 \in Int /\ f1 \in Int /\ f2 \in Int /\ t * most \in Int /\ t * (t * most) \in Int
  OBVIOUS
<1>2. (t + 1) * f0 = t * f1 + f2 + t * most + t * (t * most)
  OBVIOUS
<1>3. sumA + cur =< f1 /\ sumA - sumT =< f2
  OBVIOUS
<1> HIDE DEF f0, f1, f2
<1>4. t * (sumA + cur) =< t * f1
  BY <1>1, <1>3, TimesMonotone
<1>5. t * wT =< t * (t * most) /\ t * w =< t * most
  BY <1>1, TimesMonotone
<1>6. /\ t * (sumA + cur) = t * sumA + t * cur
      /\ t * (cur + w) = t * cur + t * w
      /\ (t + 1) * (sumA + wT) = t * sumA + t * wT + sumA + wT
      /\ t * sumA \in Int /\ t * cur \in Int /\ t * w \in Int /\ t * wT \in Int /\ t * f1 \in Int
  BY <1>1
<1> DEFINE ts == t * sumA  tc == t * cur  tw == t * w  twT == t * wT  tf == t * f1
           tm == t * most  ttm == t * (t * most)
<1>7. /\ ts + tc =< tf /\ twT =< ttm /\ tw =< tm /\ sumT + wT =< tc + tw
      /\ ts \in Int /\ tc \in Int /\ tw \in Int /\ twT \in Int
      /\ tf \in Int /\ tm \in Int /\ ttm \in Int
  BY <1>1, <1>4, <1>5, <1>6
<1>8. ts + twT + sumA + wT =< tf + f2 + tm + ttm
  <2> HIDE DEF ts, tc, tw, twT, tf, tm, ttm
  <2> QED BY <1>1, <1>7, <1>3
<1>9. (t + 1) * (sumA + wT) =< (t + 1) * f0
  BY <1>2, <1>6, <1>8
<1> QED BY <1>1, <1>9, TimesCancel DEF f0

(* The quotient is the largest number of times that the divisor fits.      *)
LEMMA DivAtLeast ==
    ASSUME NEW d \in Nat \ {0}, NEW x \in Int, NEW y \in Int, d * x =< y
    PROVE  x =< y \div d /\ y \div d \in Int
OBVIOUS

(* A part of a nodes that did not get the turn: none of them had more than *)
(* the one that did, which bounds what they have by what they and that     *)
(* one had together.                                                       *)
LEMMA LagStep ==
    ASSUME NEW a \in Nat, NEW x \in Int, NEW best \in Int, NEW lag \in Int,
           x =< a * best, x + best =< lag
    PROVE  x =< (a * lag) \div (a + 1)
<1>1. (a + 1) * x = a * x + x /\ a * (x + best) = a * x + a * best
  OBVIOUS
<1>2. a * x \in Int /\ a * best \in Int /\ a * lag \in Int
  OBVIOUS
<1>3. a * (x + best) =< a * lag
  BY TimesMonotone
<1> DEFINE ax == a * x  ab == a * best  al == a * lag
<1>4. ax \in Int /\ ab \in Int /\ al \in Int /\ ax + ab =< al /\ x =< ab
  BY <1>1, <1>2, <1>3
<1>5. ax + x =< al
  <2> HIDE DEF ax, ab, al
  <2> QED BY <1>4
<1>6. (a + 1) * x =< al
  BY <1>1, <1>5
<1> HIDE DEF al
<1>7. x =< al \div (a + 1)
  <2>1. a + 1 \in Nat \ {0}
    OBVIOUS
  <2> QED BY <1>4, <1>6, <2>1, DivAtLeast
<1> QED BY <1>7 DEF al

-----------------------------------------------------------------------------
(* A turn of smooth weighted round-robin among the nodes E with weights w: *)
(* they all gain their weights, and n, which has the most then, pays them  *)
(* all.                                                                    *)
Turn(cur, nxt, w, E, n) ==
    /\ E \in SUBSET Node /\ n \in E /\ w \in [E -> Nat \ {0}]
    /\ cur \in [Node -> Int] /\ nxt \in [Node -> Int]
    /\ \A m \in E : cur[m] + w[m] =< cur[n] + w[n]
    /\ \A m \in Node : nxt[m] = (IF m \in E THEN cur[m] + w[m] ELSE cur[m])
                                  - (IF m = n THEN SumFunctionOnSet(w, E) ELSE 0)

(* The types in it.                                                        *)
LEMMA TurnTypes ==
    ASSUME NEW cur, NEW nxt, NEW w, NEW E, NEW n, Turn(cur, nxt, w, E, n),
           NEW A \in SUBSET Node
    PROVE  /\ IsFiniteSet(A) /\ IsFiniteSet(E) /\ E \in SUBSET Node /\ n \in E
           /\ SumFunctionOnSet(cur, A) \in Int /\ SumFunctionOnSet(nxt, A) \in Int
           /\ SumFunctionOnSet(w, E \cap A) \in Nat /\ SumFunctionOnSet(w, E) \in Nat
           /\ SumFunctionOnSet(w, E \cap A) =< SumFunctionOnSet(w, E)
           /\ \A m \in E : w[m] \in Nat \ {0}
           /\ \A m \in Node : cur[m] \in Int /\ nxt[m] \in Int
<1>1. IsFiniteSet(A) /\ E \in SUBSET Node /\ IsFiniteSet(E) /\ n \in E
  BY NodeFinite, FS_Subset DEF Turn
<1>2. \A m \in Node : cur[m] \in Int /\ nxt[m] \in Int
  BY DEF Turn
<1>3. \A m \in E : w[m] \in Nat \ {0} /\ w[m] \in Nat
  BY DEF Turn
<1>4. SumFunctionOnSet(cur, A) \in Int
  <2>1. \A m \in A : cur[m] \in Int
    BY <1>2
  <2> QED BY <1>1, <2>1, SumInt
<1>5. SumFunctionOnSet(nxt, A) \in Int
  <2>1. \A m \in A : nxt[m] \in Int
    BY <1>2
  <2> QED BY <1>1, <2>1, SumInt
<1>6. /\ SumFunctionOnSet(w, E \cap A) \in Nat /\ SumFunctionOnSet(w, E) \in Nat
      /\ SumFunctionOnSet(w, E \cap A) =< SumFunctionOnSet(w, E)
  <2>1. E \cap A \in SUBSET E
    OBVIOUS
  <2> HIDE DEF Turn
  <2> QED BY <1>1, <1>3, <2>1, SumNat
<1> QED BY <1>1, <1>2, <1>3, <1>4, <1>5, <1>6

(* The sum over any nodes A gains the weights of those that took part, and *)
(* loses all weights if the chosen node is one of them.                    *)
LEMMA TurnSum ==
    ASSUME NEW cur, NEW nxt, NEW w, NEW E, NEW n, Turn(cur, nxt, w, E, n),
           NEW A \in SUBSET Node
    PROVE  SumFunctionOnSet(nxt, A)
             = SumFunctionOnSet(cur, A) + SumFunctionOnSet(w, E \cap A)
                 - (IF n \in A THEN SumFunctionOnSet(w, E) ELSE 0)
<1> DEFINE total == SumFunctionOnSet(w, E)
           gained == [m \in Node |-> IF m \in E THEN cur[m] + w[m] ELSE cur[m]]
           paid == [m \in {n} |-> -total]
<1>1. /\ IsFiniteSet(A) /\ E \in SUBSET Node /\ n \in E /\ total \in Nat
      /\ \A m \in E : w[m] \in Nat
      /\ \A m \in Node : cur[m] \in Int
      /\ SumFunctionOnSet(cur, A) \in Int /\ SumFunctionOnSet(w, E \cap A) \in Nat
  BY TurnTypes
<1> HIDE DEF total
<1>2. \A m \in Node : gained[m] \in Int
  BY <1>1
<1>3. \A m \in Node : nxt[m] = IF m = n THEN gained[m] - total ELSE gained[m]
  BY <1>2 DEF Turn, total
<1>4. SumFunctionOnSet(gained, A) = SumFunctionOnSet(cur, A) + SumFunctionOnSet(w, E \cap A)
  <2>1. \A m \in A : gained[m] = IF m \in E \cap A THEN cur[m] + w[m] ELSE cur[m]
    OBVIOUS
  <2>2. E \cap A \in SUBSET A /\ \A m \in A : cur[m] \in Int
    BY <1>1
  <2>3. \A m \in E \cap A : w[m] \in Int
    BY <1>1
  <2> HIDE DEF gained
  <2> QED BY <1>1, <2>1, <2>2, <2>3, SumGain
<1> HIDE DEF gained
<1>5. SumFunctionOnSet(gained, A) \in Int
  BY <1>1, <1>4
<1>6. CASE n \in A
  <2>1. SumFunctionOnSet(nxt, A) = SumFunctionOnSet(gained, A) + SumFunctionOnSet(paid, {n})
    <3>1. \A m \in A : nxt[m] = IF m \in {n} THEN gained[m] + paid[m] ELSE gained[m]
      BY <1>1, <1>2, <1>3
    <3>2. {n} \in SUBSET A /\ \A m \in {n} : paid[m] \in Int
      BY <1>1, <1>6
    <3>3. \A m \in A : gained[m] \in Int
      BY <1>2
    <3> HIDE DEF paid
    <3> QED BY <1>1, <3>1, <3>2, <3>3, SumGain
  <2>2. SumFunctionOnSet(paid, {n}) = -total
    <3>1. paid[n] = -total /\ paid[n] \in Int /\ {n} \ {n} = {} /\ IsFiniteSet({n})
      <4>1. IsFiniteSet({n})
        BY FS_Singleton
      <4> QED BY <1>1, <4>1
    <3>2. SumFunctionOnSet(paid, {n}) = paid[n] + SumFunctionOnSet(paid, {})
      <4>1. \A m \in {n} : paid[m] \in Int
        BY <3>1
      <4> HIDE DEF paid
      <4> QED BY <3>1, <4>1, SumRemove
    <3> HIDE DEF paid
    <3> QED BY <1>1, <3>1, <3>2, SumEmpty
  <2> HIDE DEF paid
  <2> QED BY <1>1, <1>4, <1>6, <2>1, <2>2 DEF total
<1>7. CASE n \notin A
  <2>1. \A m \in A : nxt[m] = gained[m] /\ gained[m] \in Int
    BY <1>2, <1>3, <1>7
  <2>2. SumFunctionOnSet(nxt, A) = SumFunctionOnSet(gained, A)
    BY <1>1, <2>1, SumSame
  <2> QED BY <1>1, <1>4, <1>7, <2>2
<1> QED BY <1>6, <1>7

(* None of the nodes that take part has more than the chosen one then.     *)
LEMMA TurnBest ==
    ASSUME NEW cur, NEW nxt, NEW w, NEW E, NEW n, Turn(cur, nxt, w, E, n),
           NEW T \in SUBSET E
    PROVE  SumFunctionOnSet(cur, T) + SumFunctionOnSet(w, T) =< Cardinality(T) * (cur[n] + w[n])
<1> DEFINE gained == [m \in T |-> cur[m] + w[m]]
           best == cur[n] + w[n]
<1>1. /\ T \in SUBSET Node /\ IsFiniteSet(T) /\ n \in Node /\ n \in E
      /\ \A m \in E : cur[m] \in Int /\ w[m] \in Int
  <2>1. E \in SUBSET Node /\ n \in E /\ w \in [E -> Nat \ {0}] /\ cur \in [Node -> Int]
    BY DEF Turn
  <2>2. T \in SUBSET Node /\ IsFiniteSet(T)
    BY <2>1, NodeFinite, FS_Subset
  <2> QED BY <2>1, <2>2
<1>2. \A m \in T : gained[m] \in Int /\ gained[m] =< best
  BY <1>1 DEF Turn
<1>3. best \in Int
  BY <1>1
<1>4. SumFunctionOnSet(gained, T) = SumFunctionOnSet(cur, T) + SumFunctionOnSet(w, T)
  <2>1. \A m \in T : gained[m] = IF m \in T THEN cur[m] + w[m] ELSE cur[m]
    OBVIOUS
  <2>2. T \in SUBSET T /\ \A m \in T : cur[m] \in Int /\ w[m] \in Int
    BY <1>1
  <2> HIDE DEF gained
  <2> QED BY <1>1, <2>1, <2>2, SumGain
<1> HIDE DEF gained, best
<1>5. SumFunctionOnSet(gained, T) =< Cardinality(T) * best
  BY <1>1, <1>2, <1>3, SumAtMost
<1> QED BY <1>4, <1>5 DEF best

(* No nodes have more together than others, times most, could give them:   *)
(* each one of the others to each of them.                                 *)
Bounded(cur, most) ==
    \A A \in SUBSET Node :
        SumFunctionOnSet(cur, A) =< most * Cardinality(A) * (N - Cardinality(A))

(* A turn keeps this, if no weight is more than most.                      *)
LEMMA TurnBounded ==
    ASSUME NEW cur, NEW nxt, NEW w, NEW E, NEW n, Turn(cur, nxt, w, E, n),
           NEW most \in Nat, \A m \in E : w[m] =< most, Bounded(cur, most)
    PROVE  Bounded(nxt, most)
<1> SUFFICES ASSUME NEW A \in SUBSET Node
             PROVE  SumFunctionOnSet(nxt, A) =< most * Cardinality(A) * (N - Cardinality(A))
  BY DEF Bounded
<1> DEFINE Sum(S) == SumFunctionOnSet(cur, S)
           T == E \cap A
           wT == SumFunctionOnSet(w, T)
           total == SumFunctionOnSet(w, E)
           a == Cardinality(A)
           t == Cardinality(T)
<1>1. /\ IsFiniteSet(A) /\ IsFiniteSet(E) /\ E \in SUBSET Node /\ n \in E /\ n \in Node
      /\ Sum(A) \in Int /\ wT \in Nat /\ total \in Nat /\ wT =< total
      /\ cur[n] \in Int /\ w[n] \in Nat /\ w[n] =< most
      /\ \A m \in Node : cur[m] \in Int
      /\ \A m \in E : w[m] \in Nat
  BY TurnTypes
<1>2. IsFiniteSet(T) /\ a \in Nat /\ t \in Nat /\ T \in SUBSET A /\ T \in SUBSET E
  BY <1>1, FS_Subset, FS_CardinalityType
<1>3. SumFunctionOnSet(nxt, A) = Sum(A) + wT - (IF n \in A THEN total ELSE 0)
  BY TurnSum
<1>4. Sum(A) =< most * a * (N - a)
  BY DEF Bounded
<1>5. CASE n \in A
  <2> DEFINE f == most * a * (N - a)
  <2>1. f \in Int
    BY <1>2, BalancerAssumption
  <2> HIDE DEF f, Sum, wT, total
  <2>2. Sum(A) + wT - total =< f
    BY <1>1, <1>4, <2>1 DEF f
  <2> QED BY <1>3, <1>5, <2>2 DEF f
<1>6. CASE n \notin A
  <2>1. /\ A \cup {n} \in SUBSET Node /\ IsFiniteSet(A \cup {n})
        /\ Cardinality(A \cup {n}) = a + 1
        /\ (A \cup {n}) \ {n} = A
    BY <1>1, <1>6, FS_AddElement
  <2>2. Sum(A \cup {n}) = cur[n] + Sum(A)
    <3>1. \A m \in A \cup {n} : cur[m] \in Int
      BY <1>1
    <3> QED BY <2>1, <3>1, SumRemove
  <2>3. A \ T \in SUBSET Node /\ Cardinality(A \ T) = a - t
    <3>1. A \cap T = T
      OBVIOUS
    <3> HIDE DEF T
    <3> QED BY <1>1, <1>2, <3>1, FS_Difference
  <2>4. Sum(A) = Sum(A \ T) + Sum(T) /\ Sum(T) \in Int /\ Sum(A \ T) \in Int
    <3>1. /\ \A m \in A : cur[m] \in Int
          /\ \A m \in T : cur[m] \in Int
          /\ \A m \in A \ T : cur[m] \in Int
      BY <1>1, <1>2
    <3>2. IsFiniteSet(A \ T)
      BY <1>1, FS_Subset
    <3> HIDE DEF T
    <3> QED BY <1>1, <1>2, <3>1, <3>2, SumSplit, SumInt
  <2>5. Sum(T) + wT =< t * (cur[n] + w[n])
    <3> HIDE DEF T
    <3> QED BY <1>2, TurnBest
  <2>6. wT =< t * most
    <3>1. \A m \in T : w[m] \in Int /\ w[m] =< most
      BY <1>1, <1>2
    <3> HIDE DEF T
    <3> QED BY <1>2, <3>1, SumAtMost
  <2>7. Sum(A \cup {n}) =< most * (a + 1) * (N - (a + 1))
    BY <2>1 DEF Bounded
  <2>8. Sum(A \ T) =< most * (a - t) * (N - (a - t))
    BY <2>3 DEF Bounded
  <2> HIDE DEF Sum, wT, total, a, t, T
  <2>9. /\ Sum(A) + cur[n] =< most * (a + 1) * (N - (a + 1))
        /\ Sum(A) - Sum(T) =< most * (a - t) * (N - (a - t))
    <3>1. Sum(A \cup {n}) = Sum(A) + cur[n] /\ Sum(A \ T) = Sum(A) - Sum(T)
      BY <1>1, <2>2, <2>4
    <3> QED BY <2>7, <2>8, <3>1
  <2>10. Sum(A) + wT =< most * a * (N - a)
    BY <1>1, <1>2, <2>4, <2>5, <2>6, <2>9, BoundStep, BalancerAssumption
  <2>11. SumFunctionOnSet(nxt, A) = Sum(A) + wT
    BY <1>1, <1>3, <1>6
  <2> QED BY <2>10, <2>11 DEF a
<1> QED BY <1>5, <1>6

-----------------------------------------------------------------------------
(* What one more node that is left out makes of the bound.                 *)
LagNext(total, k, i, lag) == ((k - i) * (lag + total)) \div (k - i + 1)

(* g bounds how far any k - i nodes of k are behind together.              *)
LagRule(total, k, g) ==
    g = [i \in 0 .. k - 1 |-> IF i = 0 THEN 0 ELSE LagNext(total, k, i, g[i - 1])]

LagOf(total, k) == CHOOSE g : LagRule(total, k, g)

(* The bound is a natural number.                                          *)
LEMMA LagNextNat ==
    ASSUME NEW total \in Nat, NEW k \in Nat, NEW i \in 0 .. k - 1, NEW lag \in Nat
    PROVE  LagNext(total, k, i, lag) \in Nat
<1> DEFINE d == k - i
           x == lag + total
<1>1. d \in Nat /\ x \in Nat
  OBVIOUS
<1>2. d * x \in Nat /\ d + 1 \in Nat \ {0}
  <2> HIDE DEF d, x
  <2> QED BY <1>1
<1>3. \A y \in Nat, z \in Nat \ {0} : y \div z \in Nat
  OBVIOUS
<1>4. (d * x) \div (d + 1) \in Nat
  <2> HIDE DEF d, x
  <2> QED BY <1>2, <1>3
<1> QED BY <1>4 DEF LagNext

(* There is such a bound.                                                  *)
LEMMA LagRuleExists ==
    ASSUME NEW total \in Nat, NEW k \in Nat \ {0}
    PROVE  /\ \A i \in 0 .. k - 1 : LagOf(total, k)[i] \in Nat
           /\ LagOf(total, k)[0] = 0
           /\ \A i \in 1 .. k - 1 :
                LagOf(total, k)[i] = LagNext(total, k, i, LagOf(total, k)[i - 1])
<1> DEFINE Follows(g, j) == /\ g[0] = 0
                            /\ \A i \in 1 .. j : g[i] = LagNext(total, k, i, g[i - 1])
           Known(j) == \E g \in [0 .. j -> Nat] : Follows(g, j)
           F == {j \in 0 .. k - 1 : ~Known(j)}
<1>0. IsFiniteSet(0 .. k - 1) /\ 0 .. k - 1 \subseteq Int
  <2>1. k - 1 \in Int
    OBVIOUS
  <2> QED BY <2>1, FS_Interval
<1>1. F = {}
  <2> SUFFICES ASSUME F # {} PROVE FALSE
    OBVIOUS
  <2>1. PICK j \in F : \A i \in F : j =< i
    <3>1. F \in SUBSET (0 .. k - 1)
      OBVIOUS
    <3>2. IsFiniteSet(F) /\ F \in SUBSET Int
      BY <1>0, <3>1, FS_Subset
    <3> HIDE DEF F
    <3> QED BY <3>2, MinFacts
  <2>2. j \in 0 .. k - 1 /\ ~Known(j)
    OBVIOUS
  <2>3. j # 0
    <3> SUFFICES ASSUME j = 0 PROVE FALSE
      OBVIOUS
    <3> DEFINE g == [i \in 0 .. 0 |-> 0]
    <3>1. g \in [0 .. j -> Nat] /\ Follows(g, j)
      OBVIOUS
    <3> HIDE DEF g, Follows
    <3> QED BY <2>2, <3>1
  <2>4. Known(j - 1)
    <3>1. j - 1 \in 0 .. k - 1 /\ j \in Int /\ ~(j =< j - 1)
      BY <2>2, <2>3
    <3>2. j - 1 \notin F
      <4> HIDE DEF F
      <4> QED BY <2>1, <3>1
    <3> HIDE DEF Known
    <3> QED BY <3>1, <3>2
  <2>5. PICK g \in [0 .. j - 1 -> Nat] : Follows(g, j - 1)
    BY <2>4
  <2> DEFINE last == LagNext(total, k, j, g[j - 1])
             h == [i \in 0 .. j |-> IF i = j THEN last ELSE g[i]]
  <2>6. last \in Nat
    <3>1. g[j - 1] \in Nat
      BY <2>2, <2>3
    <3> QED BY <2>2, <3>1, LagNextNat
  <2> HIDE DEF last
  <2>7. h \in [0 .. j -> Nat]
    BY <2>2, <2>6
  <2>8. \A i \in 0 .. j - 1 : h[i] = g[i]
    BY <2>2
  <2>9. h[0] = 0 /\ h[j] = last
    BY <2>2, <2>3, <2>5, <2>8
  <2>10. \A i \in 1 .. j - 1 : h[i] = LagNext(total, k, i, h[i - 1])
    <3> HIDE DEF h
    <3>1. ASSUME NEW i \in 1 .. j - 1
          PROVE  h[i] = g[i] /\ h[i - 1] = g[i - 1] /\ g[i] = LagNext(total, k, i, g[i - 1])
      BY <2>2, <2>5, <2>8
    <3> QED BY <3>1
  <2>11. h[j] = LagNext(total, k, j, h[j - 1])
    <3>1. h[j - 1] = g[j - 1]
      BY <2>2, <2>3, <2>8
    <3> HIDE DEF h
    <3> QED BY <2>9, <3>1 DEF last
  <2> HIDE DEF h
  <2>12. Follows(h, j)
    <3>1. \A i \in 1 .. j : i = j \/ i \in 1 .. j - 1
      BY <2>2
    <3> QED BY <2>9, <2>10, <2>11, <3>1
  <2> QED BY <2>2, <2>7, <2>12
<1>2. PICK g \in [0 .. k - 1 -> Nat] : Follows(g, k - 1)
  <2>1. k - 1 \in 0 .. k - 1
    OBVIOUS
  <2> QED BY <1>1, <2>1
<1>3. LagRule(total, k, g)
  <2> DEFINE r == [i \in 0 .. k - 1 |-> IF i = 0 THEN 0 ELSE LagNext(total, k, i, g[i - 1])]
  <2>1. \A i \in 0 .. k - 1 : g[i] = r[i]
    <3>1. ASSUME NEW i \in 0 .. k - 1
          PROVE  g[i] = IF i = 0 THEN 0 ELSE LagNext(total, k, i, g[i - 1])
      BY <1>2
    <3> QED BY <3>1
  <2>2. g = r
    BY <2>1
  <2> QED BY <2>2 DEF LagRule
<1>4. LagRule(total, k, LagOf(total, k))
  BY <1>3 DEF LagOf
<1> DEFINE c == LagOf(total, k)
<1> HIDE DEF c
<1>5. \A i \in 0 .. k - 1 : c[i] = IF i = 0 THEN 0 ELSE LagNext(total, k, i, c[i - 1])
  BY <1>4 DEF c, LagRule
<1>6. c[0] = 0 /\ \A i \in 1 .. k - 1 : c[i] = LagNext(total, k, i, c[i - 1])
  BY <1>5
<1>7. \A i \in 0 .. k - 1 : c[i] \in Nat
  <2> DEFINE G == {i \in 0 .. k - 1 : c[i] \notin Nat}
  <2> SUFFICES ASSUME G # {} PROVE FALSE
    OBVIOUS
  <2>1. PICK j \in G : \A i \in G : j =< i
    <3>1. G \in SUBSET (0 .. k - 1)
      OBVIOUS
    <3>2. IsFiniteSet(G) /\ G \in SUBSET Int
      BY <1>0, <3>1, FS_Subset
    <3> HIDE DEF G
    <3> QED BY <3>2, MinFacts
  <2>2. j \in 1 .. k - 1 /\ c[j] \notin Nat
    BY <1>6
  <2>3. c[j - 1] \in Nat
    <3>1. j - 1 \in 0 .. k - 1 /\ ~(j =< j - 1)
      BY <2>2
    <3>2. j - 1 \notin G
      <4> HIDE DEF G
      <4> QED BY <2>1, <3>1
    <3> QED BY <3>1, <3>2
  <2>4. LagNext(total, k, j, c[j - 1]) \in Nat
    BY <2>2, <2>3, LagNextNat
  <2> QED BY <1>6, <2>2, <2>4
<1> QED BY <1>6, <1>7 DEF c

(* The shares of nodes E with weights w are even: they owe each other what *)
(* they have, none is a whole turn ahead, and no part of them is further   *)
(* behind than the bound says.                                             *)
Even(cur, w, E) ==
    /\ SumFunctionOnSet(cur, E) = 0
    /\ \A m \in E : -SumFunctionOnSet(w, E) < cur[m]
    /\ \A A \in (SUBSET E) \ {{}} :
         SumFunctionOnSet(cur, A)
           =< LagOf(SumFunctionOnSet(w, E), Cardinality(E))[Cardinality(E) - Cardinality(A)]

(* The size of a part.                                                     *)
LEMMA PartSize ==
    ASSUME NEW E, IsFiniteSet(E), NEW A \in SUBSET E, A # {}
    PROVE  /\ IsFiniteSet(A) /\ Cardinality(A) \in Nat \ {0}
           /\ Cardinality(E) \in Nat \ {0}
           /\ Cardinality(E) - Cardinality(A) \in 0 .. Cardinality(E) - 1
           /\ A # E => Cardinality(A) < Cardinality(E)
<1>1. IsFiniteSet(A) /\ Cardinality(A) =< Cardinality(E)
  BY FS_Subset
<1>2. Cardinality(A) \in Nat /\ Cardinality(E) \in Nat /\ Cardinality(A) # 0
  BY <1>1, FS_CardinalityType, FS_EmptySet
<1>3. A # E => Cardinality(A) < Cardinality(E)
  <2>1. A # E => Cardinality(A) # Cardinality(E)
    BY FS_Subset
  <2> QED BY <1>1, <1>2, <2>1
<1> QED BY <1>1, <1>2, <1>3

(* A turn among E keeps the shares even.                                   *)
LEMMA TurnEven ==
    ASSUME NEW cur, NEW nxt, NEW w, NEW E, NEW n, Turn(cur, nxt, w, E, n), Even(cur, w, E)
    PROVE  Even(nxt, w, E)
<1> DEFINE total == SumFunctionOnSet(w, E)
           k == Cardinality(E)
           lag == LagOf(total, k)
           best == cur[n] + w[n]
<1>1. /\ IsFiniteSet(E) /\ E \in SUBSET Node /\ n \in E /\ total \in Nat
      /\ \A m \in E : w[m] \in Nat \ {0}
      /\ \A m \in Node : cur[m] \in Int /\ nxt[m] \in Int
      /\ w[n] \in Nat \ {0} /\ cur[n] \in Int
  <2>1. E \in SUBSET Node
    BY DEF Turn
  <2> QED BY <2>1, TurnTypes
<1>2. total > 0
  <2>1. total = w[n] + SumFunctionOnSet(w, E \ {n})
    BY <1>1, SumRemove
  <2>2. SumFunctionOnSet(w, E \ {n}) \in Nat
    <3>1. \A m \in E : w[m] \in Nat
      BY <1>1
    <3>2. E \ {n} \in SUBSET E
      OBVIOUS
    <3> QED BY <1>1, <3>1, <3>2, SumNat
  <2> QED BY <1>1, <2>1, <2>2
<1>3. k \in Nat \ {0}
  BY <1>1, PartSize
<1>4. SumFunctionOnSet(nxt, E) = 0
  <2>1. SumFunctionOnSet(nxt, E) = SumFunctionOnSet(cur, E) + SumFunctionOnSet(w, E \cap E) - total
    BY <1>1, TurnSum
  <2>2. E \cap E = E
    OBVIOUS
  <2> QED BY <1>1, <2>1, <2>2 DEF Even
<1>5. best \in Int /\ best > 0
  <2>1. SumFunctionOnSet(cur, E) + total =< k * best
    BY TurnBest
  <2>2. SumFunctionOnSet(cur, E) = 0
    BY DEF Even
  <2>3. best \in Int
    BY <1>1
  <2> HIDE DEF k, best, total
  <2>4. ~(best =< 0)
    <3> SUFFICES ASSUME best =< 0 PROVE FALSE
      OBVIOUS
    <3>1. k * best =< k * 0
      BY <1>3, <2>3, TimesMonotone
    <3>2. k * 0 = 0
      BY <1>3
    <3>3. k * best \in Int
      BY <1>3, <2>3
    <3> QED BY <1>1, <1>2, <2>1, <2>2, <3>1, <3>2, <3>3
  <2> QED BY <2>3, <2>4
<1>6. ASSUME NEW m \in E
      PROVE  -total < nxt[m]
  <2>1. nxt[m] = cur[m] + w[m] - (IF m = n THEN total ELSE 0)
    BY <1>1 DEF Turn
  <2>2. cur[m] \in Int /\ w[m] \in Nat /\ -total < cur[m]
    BY <1>1 DEF Even
  <2>3. CASE m = n
    <3> HIDE DEF total
    <3>1. nxt[m] = cur[m] + w[m] - total
      BY <2>1, <2>3
    <3>2. nxt[m] = best - total
      BY <1>1, <2>3, <3>1
    <3> HIDE DEF best
    <3> QED BY <1>1, <1>5, <3>2
  <2>4. CASE m # n
    <3>1. nxt[m] = cur[m] + w[m] - 0
      BY <2>1, <2>4
    <3> HIDE DEF total
    <3> QED BY <1>1, <2>2, <3>1
  <2> QED BY <2>3, <2>4
<1>7. ASSUME NEW A \in SUBSET E, A # {}
      PROVE  SumFunctionOnSet(nxt, A) =< lag[k - Cardinality(A)]
  <2> DEFINE a == Cardinality(A)
             wA == SumFunctionOnSet(w, A)
             sum == SumFunctionOnSet(cur, A)
             x == SumFunctionOnSet(nxt, A)
  <2>1. IsFiniteSet(A) /\ a \in Nat \ {0} /\ k - a \in 0 .. k - 1 /\ (A # E => a < k)
    BY <1>1, <1>7, PartSize
  <2>2. A \in SUBSET Node /\ E \cap A = A
    BY <1>1
  <2>3. x = sum + wA - (IF n \in A THEN total ELSE 0)
    BY <2>2, TurnSum
  <2>4. sum \in Int /\ x \in Int /\ wA \in Nat /\ wA =< total
    BY <2>2, TurnTypes
  <2>5. sum =< lag[k - a]
    <3>1. A \in (SUBSET E) \ {{}}
      BY <1>7
    <3> QED BY <3>1 DEF Even
  <2>6. lag[k - a] \in Nat
    BY <1>1, <1>3, <2>1, LagRuleExists
  <2>7. CASE n \in A
    <3>1. x = sum + wA - total
      BY <2>3, <2>7
    <3> HIDE DEF x, sum, wA, total, lag, k, a
    <3>2. x =< lag[k - a]
      BY <1>1, <2>4, <2>5, <2>6, <3>1
    <3> QED BY <3>2 DEF x, a
  <2>8. CASE n \notin A
    <3> DEFINE B == A \cup {n}
               y == SumFunctionOnSet(nxt, B)
               sumB == SumFunctionOnSet(cur, B)
               wB == SumFunctionOnSet(w, B)
    <3>1. /\ B \in SUBSET E /\ B \in SUBSET Node /\ B # {} /\ E \cap B = B /\ n \in B
          /\ B \ {n} = A /\ Cardinality(B) = a + 1
      <4>1. Cardinality(B) = a + 1
        BY <2>1, <2>8, FS_AddElement
      <4>2. B \in SUBSET E /\ B # {} /\ n \in B /\ B \ {n} = A
        BY <1>1, <2>8
      <4>3. B \in SUBSET Node /\ E \cap B = B
        BY <1>1, <4>2
      <4> QED BY <4>1, <4>2, <4>3
    <3>2. y = sumB + wB - total
      <4> HIDE DEF B
      <4> QED BY <3>1, TurnSum
    <3>3. sumB \in Int /\ y \in Int /\ wB \in Nat /\ wB =< total
      <4> HIDE DEF B
      <4> QED BY <3>1, TurnTypes
    <3>4. sumB =< lag[k - (a + 1)]
      <4>1. B \in (SUBSET E) \ {{}}
        BY <3>1
      <4> HIDE DEF B
      <4> QED BY <3>1, <4>1 DEF Even
    <3>5. k - (a + 1) \in 0 .. k - 1 /\ k - a \in 1 .. k - 1 /\ k - (a + 1) = (k - a) - 1
      <4>1. A # E
        BY <1>1, <2>8
      <4> HIDE DEF k, a
      <4> QED BY <1>3, <2>1, <4>1
    <3>6. lag[k - (a + 1)] \in Nat /\ lag[k - a] = LagNext(total, k, k - a, lag[k - (a + 1)])
      BY <1>1, <1>3, <3>5, LagRuleExists
    <3>7. y = nxt[n] + x /\ nxt[n] = best - total
      <4>1. IsFiniteSet(B) /\ \A m \in B : nxt[m] \in Int
        BY <1>1, <3>1, FS_Subset
      <4>2. y = nxt[n] + x
        <5> HIDE DEF B
        <5> QED BY <3>1, <4>1, SumRemove
      <4>3. nxt[n] = best - total
        BY <1>1 DEF Turn
      <4> QED BY <4>2, <4>3
    <3>8. x = sum + wA - 0
      BY <2>3, <2>8
    <3>9. sum + wA =< a * best
      BY TurnBest
    <3> DEFINE l == lag[k - (a + 1)]
    <3>10. x =< a * best /\ x + best =< l + total /\ l + total \in Int
      <4>1. l \in Nat /\ sumB =< l
        BY <3>4, <3>6
      <4>2. x =< a * best
        <5>1. x = sum + wA
          <6> HIDE DEF x, sum, wA
          <6> QED BY <2>4, <3>8
        <5> HIDE DEF x, sum, wA, a, best
        <5> QED BY <3>9, <5>1
      <4> HIDE DEF x, y, sumB, wB, total, l, best
      <4>3. x + best =< l + total
        BY <1>1, <1>5, <2>4, <3>2, <3>3, <3>7, <4>1
      <4> QED BY <1>1, <4>1, <4>2, <4>3
    <3>11. x =< (a * (l + total)) \div (a + 1)
      <4>1. a \in Nat
        BY <2>1
      <4> HIDE DEF x, total, l, best, a
      <4> QED BY <1>5, <2>4, <3>10, <4>1, LagStep
    <3>12. LagNext(total, k, k - a, l) = (a * (l + total)) \div (a + 1)
      <4>1. k - (k - a) = a
        <5> HIDE DEF k, a
        <5> QED BY <1>3, <2>1
      <4>2. LagNext(total, k, k - a, l) = ((k - (k - a)) * (l + total)) \div (k - (k - a) + 1)
        BY DEF LagNext
      <4> HIDE DEF k, a, total, l
      <4> QED BY <4>1, <4>2
    <3> QED BY <3>6, <3>11, <3>12
  <2> QED BY <2>7, <2>8
<1> HIDE DEF lag, k
<1> QED BY <1>4, <1>6, <1>7 DEF Even, lag, k

(* pick is a turn.                                                         *)
LEMMA ChooseIsTurn ==
    ASSUME BalancerTypeOK, NEW c \in Client, NEW cand \in Instances, NEW tried,
           NEW n \in Node, Choose(c, cand, tried, n)
    PROVE  LET E == Eligible(cand, tried)
           IN  Turn(current, current', [m \in E |-> WeightOf(cand[m])], E, n)
<1> DEFINE E == Eligible(cand, tried)
           gained == Gained(cand, E)
           w == [m \in E |-> WeightOf(cand[m])]
           total == SumFunctionOnSet(w, E)
<1>1. /\ n = Best(gained, E)
      /\ current' = [gained EXCEPT ![n] = @ - Total(cand, E)]
  BY DEF Choose
<1>2. n \in E /\ current' \in [Node -> Int]
  BY ChooseFacts DEF BalancerTypeOK
<1>3. E \in SUBSET Node /\ E \subseteq DOMAIN cand
  BY EligibleIsOpen, InstanceFacts DEF Open, Untried
<1>4. w \in [E -> Nat \ {0}]
  BY <1>3, InstanceFacts DEF WeightOf
<1>5. current \in [Node -> Int]
  BY DEF BalancerTypeOK
<1>6. Total(cand, E) = total
  BY DEF Total
<1>7. IsFiniteSet(E) /\ total \in Nat
  <2>1. IsFiniteSet(E)
    BY <1>3, NodeFinite, FS_Subset
  <2>2. \A m \in E : w[m] \in Nat
    BY <1>4
  <2>3. E \in SUBSET E
    OBVIOUS
  <2> HIDE DEF E, w
  <2> QED BY <2>1, <2>2, <2>3, SumNat
<1>8. \A m \in Node : /\ gained[m] = IF m \in E THEN current[m] + w[m] ELSE current[m]
                      /\ gained[m] \in Int
  <2>1. \A m \in E : w[m] = WeightOf(cand[m]) /\ w[m] \in Nat
    BY <1>4
  <2>2. \A m \in Node : gained[m] = IF m \in E THEN current[m] + WeightOf(cand[m]) ELSE current[m]
    BY DEF Gained
  <2> HIDE DEF E, w, gained
  <2> QED BY <1>5, <2>1, <2>2
<1>9. gained \in [Node -> Int]
  <2>1. DOMAIN gained = Node /\ gained = [m \in Node |-> gained[m]]
    BY DEF Gained
  <2> HIDE DEF gained
  <2> QED BY <1>8, <2>1
<1> HIDE DEF E, w, gained
<1>10. \A m \in E : gained[m] =< gained[n]
  BY <1>1, <1>3, <1>2, <1>9, BestIsBest
<1>11. \A m \in E : current[m] + w[m] =< current[n] + w[n]
  BY <1>2, <1>3, <1>8, <1>10
<1>12. \A m \in Node : current'[m] = (IF m \in E THEN current[m] + w[m] ELSE current[m])
                                      - (IF m = n THEN total ELSE 0)
  <2> HIDE DEF total
  <2>1. \A m \in Node : current'[m] = IF m = n THEN gained[m] - total ELSE gained[m]
    BY <1>1, <1>6, <1>9
  <2>2. ASSUME NEW m \in Node
        PROVE  current'[m] = gained[m] - (IF m = n THEN total ELSE 0)
    BY <1>7, <1>8, <2>1
  <2> QED BY <1>8, <2>2
<1>13. Turn(current, current', w, E, n)
  BY <1>2, <1>3, <1>4, <1>5, <1>11, <1>12 DEF Turn
<1> QED BY <1>13 DEF w, E

-----------------------------------------------------------------------------
(***************************************************************************)
(* Slots and the counts of open connections.                               *)
(***************************************************************************)

(* The count of a node is the number of slots alive on it.                 *)
Counted ==
    /\ IsFiniteSet(slots)
    /\ \A n \in Node : active[n] = Cardinality(CL!On(n))

(* ConnectionLimit counts as this module does.                             *)
LEMMA SameCardinality == \A S : CL!Cardinality(S) = Cardinality(S)
BY DEF Cardinality, CL!Cardinality, IsFiniteSet, CL!IsFiniteSet

(* The slots on a node can be counted.                                     *)
LEMMA OnFinite ==
    ASSUME Counted, NEW n
    PROVE  IsFiniteSet(CL!On(n)) /\ Cardinality(CL!On(n)) \in Nat
<1>1. CL!On(n) \subseteq slots
  BY DEF CL!On
<1> QED BY <1>1, FS_Subset, FS_CardinalityType DEF Counted

(* pick reserves a slot as ConnectionLimit says, and counts it, if the     *)
(* client has none on the node yet.                                        *)
LEMMA ChooseAcquires ==
    ASSUME BalancerTypeOK, Counted, NEW c \in Client, NEW cand \in Instances, NEW tried,
           NEW n \in Node, Choose(c, cand, tried, n), \A s \in CL!On(n) : s.client # c
    PROVE  Counted' /\ \E s \in CL!Slot : CL!Acquire(s)
<1> DEFINE s == [client |-> c, node |-> n, limit |-> cand[n].limit]
<1>1. n \in Open(cand, tried)
  BY ChooseFacts
<1>2. /\ active' = [active EXCEPT ![n] = @ + 1]
      /\ slots' = slots \cup {s}
  BY DEF Choose
<1>3. s \in CL!Slot /\ s.node = n /\ s.client = c /\ s.limit = cand[n].limit
  BY <1>1, InstanceFacts DEF CL!Slot, Open, Untried
<1> HIDE DEF s
<1>4. CL!Acquire(s)
  <2>1. CL!Below(active[n], cand[n].limit) /\ active[n] = Cardinality(CL!On(n))
    BY <1>1 DEF Counted, Open
  <2>2. CL!Below(Cardinality(CL!On(s.node)), s.limit)
    BY <1>3, <2>1
  <2>3. \A t \in CL!On(s.node) : t.client # s.client
    BY <1>3
  <2>4. slots' = slots \cup {s}
    BY <1>2
  <2> QED BY <2>2, <2>3, <2>4, SameCardinality DEF CL!Acquire
<1>5. IsFiniteSet(slots')
  BY <1>2, FS_AddElement DEF Counted
<1>6. ASSUME NEW m \in Node
      PROVE  active'[m] = Cardinality(CL!On(m)')
  <2>1. CASE m = n
    <3>1. CL!On(m)' = CL!On(m) \cup {s} /\ s \notin CL!On(m)
      BY <1>2, <1>3, <2>1 DEF CL!On
    <3>2. Cardinality(CL!On(m)') = Cardinality(CL!On(m)) + 1
      BY <3>1, OnFinite, FS_AddElement
    <3> QED BY <1>2, <2>1, <3>2 DEF Counted, BalancerTypeOK
  <2>2. CASE m # n
    <3>1. CL!On(m)' = CL!On(m)
      BY <1>2, <1>3, <2>2 DEF CL!On
    <3> QED BY <1>2, <2>2, <3>1 DEF Counted, BalancerTypeOK
  <2> QED BY <2>1, <2>2
<1> QED BY <1>3, <1>4, <1>5, <1>6 DEF Counted

(* Slot::drop gives one back.                                              *)
LEMMA DropReleases ==
    ASSUME BalancerTypeOK, Counted, NEW s, DropSlot(s)
    PROVE  Counted' /\ \E S \in SUBSET slots : CL!Release(S)
<1>1. s \in slots /\ s.node \in Node /\ slots' = slots \ {s}
  BY DEF DropSlot, BalancerTypeOK, CL!Slot
<1>2. \E S \in SUBSET slots : CL!Release(S)
  <2>1. {s} \in SUBSET slots /\ CL!Release({s})
    BY <1>1 DEF CL!Release
  <2> QED BY <2>1
<1>3. IsFiniteSet(slots')
  BY <1>1, FS_Subset DEF Counted
<1>4. ASSUME NEW m \in Node
      PROVE  active'[m] = Cardinality(CL!On(m)')
  <2>1. CASE m = s.node
    <3>1. CL!On(m)' = CL!On(m) \ {s} /\ s \in CL!On(m)
      BY <1>1, <2>1 DEF CL!On
    <3>2. /\ Cardinality(CL!On(m)') = Cardinality(CL!On(m)) - 1
          /\ Cardinality(CL!On(m)') \in Nat
      <4>1. /\ IsFiniteSet(CL!On(m) \ {s})
            /\ Cardinality(CL!On(m) \ {s}) = Cardinality(CL!On(m)) - 1
        BY <3>1, OnFinite, FS_RemoveElement
      <4> QED BY <3>1, <4>1, FS_CardinalityType
    <3>3. active'[m] = IF active[m] = 0 THEN 0 ELSE active[m] - 1
      BY <2>1 DEF DropSlot, BalancerTypeOK
    <3>4. active[m] = Cardinality(CL!On(m))
      BY DEF Counted
    <3> QED BY <3>2, <3>3, <3>4, OnFinite
  <2>2. CASE m # s.node
    <3>1. CL!On(m)' = CL!On(m)
      BY <1>1, <2>2 DEF CL!On
    <3>2. active'[m] = active[m]
      BY <2>2 DEF DropSlot, BalancerTypeOK
    <3> QED BY <3>1, <3>2 DEF Counted
  <2> QED BY <2>1, <2>2
<1> QED BY <1>2, <1>3, <1>4 DEF Counted

(* A step that leaves counts and slots alone keeps them equal.             *)
LEMMA CountedUnchanged ==
    ASSUME Counted, UNCHANGED <<active, slots>>
    PROVE  Counted'
BY DEF Counted, CL!On

-----------------------------------------------------------------------------
(* The promise of ConnectionLimit.                                         *)

(* HardCap is lost by a release if the slot given back is the one whose    *)
(* limit allowed the others, so the invariant speaks of every set of slots *)
(* that could be left on a node, not only of all of them.                  *)
CapInv ==
    /\ CL!LimitTypeOK
    /\ IsFiniteSet(slots)
    /\ \A n \in Node : \A S \in SUBSET CL!On(n) :
          S # {} => \E s \in S : CL!Within(Cardinality(S), s.limit)

(* One more slot than a set that is below the limit is within it.          *)
LEMMA BelowThenWithin ==
    ASSUME NEW k \in Nat, NEW m \in Nat, NEW limit \in Nat \cup {NoLimit},
           CL!Below(k, limit), m <= k + 1
    PROVE  CL!Within(m, limit)
BY DEF CL!Below, CL!Within

(* Reserving a slot (Balancer::pick) keeps the invariant.                  *)
LEMMA AcquireKeepsCap ==
    ASSUME CapInv, NEW s \in CL!Slot, CL!Acquire(s)
    PROVE  CapInv'
<1>1. slots' = slots \cup {s} /\ CL!LimitTypeOK'
  BY DEF CL!Acquire, CapInv, CL!LimitTypeOK
<1>2. IsFiniteSet(slots')
  BY <1>1, FS_AddElement DEF CapInv
<1>3. ASSUME NEW n \in Node, NEW S \in SUBSET CL!On(n)', S # {}
      PROVE  \E t \in S : CL!Within(Cardinality(S), t.limit)
  <2>1. CASE s \notin S
    <3>1. S \in SUBSET CL!On(n)
      BY <1>1, <2>1 DEF CL!On
    <3>2. QED
      BY <3>1, <1>3 DEF CapInv
  <2>2. CASE s \in S
    <3>1. s.node = n /\ S \subseteq CL!On(n) \cup {s}
      BY <1>1, <2>2 DEF CL!On
    <3>2. IsFiniteSet(CL!On(n)) /\ Cardinality(CL!On(n)) \in Nat
      <4>1. CL!On(n) \subseteq slots
        BY DEF CL!On
      <4>2. QED
        BY <4>1, FS_Subset, FS_CardinalityType DEF CapInv
    <3>3. /\ IsFiniteSet(CL!On(n) \cup {s})
          /\ Cardinality(CL!On(n) \cup {s}) \in Nat
          /\ Cardinality(CL!On(n) \cup {s}) <= Cardinality(CL!On(n)) + 1
      <4>1. /\ IsFiniteSet(CL!On(n) \cup {s})
            /\ Cardinality(CL!On(n) \cup {s}) =
                 IF s \in CL!On(n) THEN Cardinality(CL!On(n)) ELSE Cardinality(CL!On(n)) + 1
        BY <3>2, FS_AddElement
      <4>2. QED
        BY <4>1, <3>2
    <3>4. Cardinality(S) \in Nat /\ Cardinality(S) <= Cardinality(CL!On(n)) + 1
      <4>1. IsFiniteSet(S) /\ Cardinality(S) <= Cardinality(CL!On(n) \cup {s})
        BY <3>1, <3>3, FS_Subset
      <4>2. Cardinality(S) \in Nat
        BY <4>1, FS_CardinalityType
      <4>3. QED
        BY <4>1, <4>2, <3>2, <3>3
    <3>5. CL!Below(Cardinality(CL!On(n)), s.limit) /\ s.limit \in Nat \cup {NoLimit}
      BY <3>1, BalancerAssumption, SameCardinality DEF CL!Acquire, CL!Slot
    <3>6. CL!Within(Cardinality(S), s.limit)
      BY <3>2, <3>4, <3>5, BelowThenWithin
    <3>7. QED
      BY <3>6, <2>2
  <2>3. QED
    BY <2>1, <2>2
<1>4. QED
  BY <1>1, <1>2, <1>3 DEF CapInv

(* Giving slots back (Slot::drop) keeps the invariant.                     *)
LEMMA ReleaseKeepsCap ==
    ASSUME CapInv, NEW S \in SUBSET slots, CL!Release(S)
    PROVE  CapInv'
<1>1. slots' \subseteq slots
  BY DEF CL!Release
<1>2. IsFiniteSet(slots')
  BY <1>1, FS_Subset DEF CapInv
<1>3. \A n \in Node : CL!On(n)' \subseteq CL!On(n)
  BY <1>1 DEF CL!On
<1>4. CL!LimitTypeOK'
  BY <1>1 DEF CapInv, CL!LimitTypeOK
<1>5. ASSUME NEW n \in Node, NEW T \in SUBSET CL!On(n)', T # {}
      PROVE  \E s \in T : CL!Within(Cardinality(T), s.limit)
  <2>1. T \in SUBSET CL!On(n)
    BY <1>3
  <2>2. QED
    BY <2>1, <1>5 DEF CapInv
<1>6. QED
  BY <1>2, <1>4, <1>5 DEF CapInv

(* maxConnections is a hard cap: however the limit changes while slots are *)
(* held, the slots held on a node are no more than some holder's limit.    *)
THEOREM LimitsAreHardCaps == CL!LimitSpec => []CL!HardCap
<1>1. CL!LimitInit => CapInv
  BY FS_EmptySet DEF CL!LimitInit, CapInv, CL!LimitTypeOK, CL!On
<1>2. CapInv /\ [CL!LimitNext]_slots => CapInv'
  <2>1. SUFFICES ASSUME CapInv, [CL!LimitNext]_slots
                 PROVE  CapInv'
    OBVIOUS
  <2>2. CASE UNCHANGED slots
    BY <2>1, <2>2 DEF CapInv, CL!LimitTypeOK, CL!On
  <2>3. ASSUME NEW s \in CL!Slot, CL!Acquire(s)
        PROVE  CapInv'
    BY <2>1, <2>3, AcquireKeepsCap
  <2>4. ASSUME NEW S \in SUBSET slots, CL!Release(S)
        PROVE  CapInv'
    BY <2>1, <2>4, ReleaseKeepsCap
  <2>5. QED
    BY <2>1, <2>2, <2>3, <2>4 DEF CL!LimitNext
<1>3. CapInv => CL!HardCap
  <2>1. \A n \in Node : CL!On(n) \in SUBSET CL!On(n)
    OBVIOUS
  <2>2. QED
    BY <2>1, SameCardinality DEF CapInv, CL!HardCap
<1>4. QED
  BY <1>1, <1>2, <1>3, PTL DEF CL!LimitSpec
=============================================================================
