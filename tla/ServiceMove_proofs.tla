------------------------- MODULE ServiceMove_proofs -------------------------
(***************************************************************************)
(* For any catalogs, any number of admins and any number of their          *)
(* operations: every admin operation keeps a config valid, a move that is  *)
(* not disturbed happens whole or not at all, and the moved service is     *)
(* never lost.                                                             *)
(***************************************************************************)
EXTENDS ServiceMove, FiniteSetTheorems, TLAPS

(* A set of naturals has a smallest element.                               *)
LEMMA MinFacts ==
    ASSUME NEW S \in SUBSET Nat, S # {}
    PROVE  Min(S) \in S /\ \A x \in S : Min(S) =< x
<1> DEFINE R == OpToRel(<, Nat)
<1>1. \A y, z \in Nat : y < z => <<y, z>> \in R
  BY DEF OpToRel
<1>2. IsWellFoundedOn(R, Nat)
  BY NatLessThanWellFounded, Zenon
<1> HIDE DEF R
<1>3. PICK x \in S : \A y \in S : <<y, x>> \notin R
  BY <1>2, WFMin, Zenon
<1>4. ASSUME NEW y \in S
      PROVE  x =< y
  <2>1. x \in Nat /\ y \in Nat /\ ~(y < x)
    BY <1>1, <1>3, Zenon
  <2> QED BY <2>1
<1>5. \E z \in S : \A y \in S : z =< y
  BY <1>4
<1> QED BY <1>5, Zenon DEF Min

-----------------------------------------------------------------------------
(* How many of the positions S are not after i.                            *)
Rank(S, i) == Cardinality({j \in S : j =< i})

(* The positions of a finite set of naturals have the ranks 1, 2, ... .    *)
LEMMA RankFacts ==
    ASSUME NEW S \in SUBSET Nat, IsFiniteSet(S)
    PROVE  /\ Cardinality(S) \in Nat
           /\ \A k \in 1 .. Cardinality(S) : \E i \in S : Rank(S, i) = k
           /\ \A i \in S : Rank(S, i) \in 1 .. Cardinality(S)
           /\ \A i, j \in S : i < j => Rank(S, i) < Rank(S, j)
<1> DEFINE n == Cardinality(S)
           upTo(i) == {j \in S : j =< i}
           rank == [i \in S |-> Rank(S, i)]
<1>1. n \in Nat
  BY FS_CardinalityType
<1>2. ASSUME NEW i \in S
      PROVE  /\ IsFiniteSet(upTo(i)) /\ Cardinality(upTo(i)) \in 1 .. n
             /\ Cardinality(upTo(i)) = Rank(S, i)
  <2>1. upTo(i) \in SUBSET S /\ i \in upTo(i)
    OBVIOUS
  <2> HIDE DEF upTo
  <2>2. IsFiniteSet(upTo(i)) /\ Cardinality(upTo(i)) =< n
    BY <2>1, FS_Subset
  <2>3. Cardinality(upTo(i)) \in Nat
    BY <2>2, FS_CardinalityType
  <2>4. Cardinality(upTo(i)) # 0
    BY <2>1, <2>2, FS_EmptySet
  <2>5. Cardinality(upTo(i)) \in 1 .. n
    BY <1>1, <2>2, <2>3, <2>4
  <2> QED BY <2>2, <2>5 DEF upTo, Rank
<1>3. ASSUME NEW i \in S, NEW j \in S, i < j
      PROVE  Rank(S, i) < Rank(S, j)
  <2>1. \A l \in S : l =< i => l =< j
    BY <1>3
  <2>2. upTo(i) \in SUBSET upTo(j) /\ j \in upTo(j) /\ j \notin upTo(i)
    <3>1. j =< j /\ ~(j =< i)
      BY <1>3
    <3> QED BY <2>1, <3>1, Zenon
  <2> HIDE DEF upTo
  <2>3. /\ Cardinality(upTo(i)) =< Cardinality(upTo(j))
        /\ Cardinality(upTo(i)) # Cardinality(upTo(j))
    BY <1>2, <2>2, FS_Subset
  <2>4. /\ Cardinality(upTo(i)) \in Nat /\ Cardinality(upTo(i)) = Rank(S, i)
        /\ Cardinality(upTo(j)) \in Nat /\ Cardinality(upTo(j)) = Rank(S, j)
    BY <1>1, <1>2
  <2> QED BY <2>3, <2>4
<1>4. \A i \in S : Rank(S, i) \in 1 .. n
  BY <1>2, Zenon
<1>5. ASSUME NEW i \in S, NEW j \in S, Rank(S, i) = Rank(S, j)
      PROVE  i = j
  <2>1. ~(i < j) /\ ~(j < i)
    BY <1>1, <1>3, <1>4, <1>5
  <2> QED BY <2>1
<1>6. rank \in Injection(S, 1 .. n)
  BY <1>4, <1>5 DEF Injection, IsInjective
<1>7. IsFiniteSet(1 .. n) /\ Cardinality(1 .. n) = n
  <2>1. 1 \in Int /\ n \in Int /\ (IF 1 > n THEN 0 ELSE n - 1 + 1) = n
    BY <1>1
  <2> HIDE DEF n
  <2> QED BY <2>1, FS_Interval
<1>8. rank \in Surjection(S, 1 .. n)
  <2> HIDE DEF rank
  <2> QED BY <1>6, <1>7, FS_Injection
<1>9. \A k \in 1 .. n : \E i \in S : Rank(S, i) = k
  BY <1>8, Zenon DEF Surjection
<1> QED BY <1>1, <1>3, <1>4, <1>9

(* p lists the positions S of a sequence, each once, and kept its elements *)
(* there.                                                                  *)
IsSelection(p, kept, seq, S) ==
    /\ p \in [1 .. Cardinality(S) -> S]
    /\ \A k \in 1 .. Cardinality(S) : kept[k] = seq[p[k]]
    /\ \A k, l \in 1 .. Cardinality(S) : p[k] = p[l] => k = l
    /\ \A i \in S : \E k \in 1 .. Cardinality(S) : p[k] = i

(* What Retain returns: the elements at the positions S and no others,     *)
(* each once.                                                              *)
LEMMA RetainFacts ==
    ASSUME NEW X, NEW seq \in Seq(X), NEW S \in SUBSET DOMAIN seq
    PROVE  /\ Retain(seq, S) \in Seq(X)
           /\ Len(Retain(seq, S)) = Cardinality(S) /\ Cardinality(S) \in Nat
           /\ \E p : IsSelection(p, Retain(seq, S), seq, S)
<1> DEFINE n == Cardinality(S)
           position(k) == CHOOSE i \in S : Rank(S, i) = k
           p == [k \in 1 .. n |-> position(k)]
<1>1. S \in SUBSET Nat /\ IsFiniteSet(S)
  <2>1. DOMAIN seq = 1 .. Len(seq) /\ Len(seq) \in Nat
    OBVIOUS
  <2>2. IsFiniteSet(1 .. Len(seq))
    BY <2>1, FS_Interval
  <2> QED BY <2>1, <2>2, FS_Subset
<1>2. /\ n \in Nat
      /\ \A k \in 1 .. n : \E i \in S : Rank(S, i) = k
      /\ \A i \in S : Rank(S, i) \in 1 .. n
      /\ \A i, j \in S : i < j => Rank(S, i) < Rank(S, j)
  BY <1>1, RankFacts
<1>3. \A k \in 1 .. n : position(k) \in S /\ Rank(S, position(k)) = k
  BY <1>2
<1>4. p \in [1 .. n -> S] /\ \A k \in 1 .. n : p[k] = position(k)
  BY <1>3
<1>5. Retain(seq, S) = [k \in 1 .. n |-> seq[position(k)]]
  BY DEF Retain, Rank
<1> HIDE DEF position, p, n
<1>6. \A k \in 1 .. n : seq[position(k)] \in X
  BY <1>3
<1>7. Retain(seq, S) \in Seq(X) /\ Len(Retain(seq, S)) = n
  BY <1>2, <1>5, <1>6
<1>8. \A k \in 1 .. n : Retain(seq, S)[k] = seq[p[k]]
  BY <1>4, <1>5
<1>9. \A k, l \in 1 .. n : p[k] = p[l] => k = l
  BY <1>3, <1>4
<1>10. ASSUME NEW i \in S
       PROVE  \E k \in 1 .. n : p[k] = i
  <2>1. PICK k \in 1 .. n : Rank(S, i) = k
    BY <1>2
  <2>2. p[k] \in S /\ Rank(S, p[k]) = k
    BY <1>3, <1>4
  <2>3. ~(p[k] < i) /\ ~(i < p[k])
    BY <1>2, <2>1, <2>2
  <2> QED BY <1>1, <2>2, <2>3
<1>11. IsSelection(p, Retain(seq, S), seq, S)
  BY <1>4, <1>8, <1>9, <1>10, Zenon DEF IsSelection, n
<1> QED BY <1>2, <1>7, <1>11, Zenon DEF n

LEMMA RetainElements ==
    ASSUME NEW X, NEW seq \in Seq(X), NEW S \in SUBSET DOMAIN seq
    PROVE  \A x : (\E k \in DOMAIN Retain(seq, S) : x = Retain(seq, S)[k])
                     <=> \E i \in S : x = seq[i]
<1> DEFINE kept == Retain(seq, S)
           n == Cardinality(S)
<1>1. kept \in Seq(X) /\ Len(kept) = n /\ n \in Nat
  BY RetainFacts
<1>2. PICK p : IsSelection(p, kept, seq, S)
  BY RetainFacts, Zenon
<1> HIDE DEF kept
<1>3. /\ p \in [1 .. n -> S] /\ \A k \in 1 .. n : kept[k] = seq[p[k]]
      /\ \A k, l \in 1 .. n : p[k] = p[l] => k = l
      /\ \A i \in S : \E k \in 1 .. n : p[k] = i
  BY <1>2 DEF IsSelection
<1> HIDE DEF n
<1>4. DOMAIN kept = 1 .. n
  BY <1>1
<1>5. \A x : (\E k \in DOMAIN kept : x = kept[k]) <=> \E i \in S : x = seq[i]
  BY <1>3, <1>4
<1> QED BY <1>5, Zenon DEF kept

-----------------------------------------------------------------------------
(* The elements of a sequence.                                             *)
LEMMA SeqElements ==
    ASSUME NEW X, NEW seq \in Seq(X)
    PROVE  /\ Len(seq) \in Nat /\ DOMAIN seq = 1 .. Len(seq) /\ DOMAIN seq \in SUBSET Nat
           /\ \A i \in DOMAIN seq : seq[i] \in X
  OBVIOUS

(* Replacing an element.                                                   *)
LEMMA SeqReplace ==
    ASSUME NEW X, NEW seq \in Seq(X), NEW i \in DOMAIN seq, NEW x \in X
    PROVE  /\ [seq EXCEPT ![i] = x] \in Seq(X) /\ Len([seq EXCEPT ![i] = x]) = Len(seq)
           /\ DOMAIN [seq EXCEPT ![i] = x] = DOMAIN seq
           /\ \A j \in DOMAIN seq : [seq EXCEPT ![i] = x][j] = IF j = i THEN x ELSE seq[j]
  OBVIOUS

(* The parts of a config.                                                  *)
LEMMA ConfigParts ==
    ASSUME NEW config \in Config
    PROVE  /\ config.version \in Nat
           /\ config.groups \in Seq([name : Group, services : Seq(Service)])
           /\ DOMAIN config.groups \in SUBSET Nat
           /\ \A i \in DOMAIN config.groups :
                 /\ config.groups[i] \in [name : Group, services : Seq(Service)]
                 /\ config.groups[i].name \in Group
                 /\ config.groups[i].services \in Seq(Service)
           /\ config.routes \in Seq(Route)
<1>1. /\ config.version \in Nat /\ config.routes \in Seq(Route)
      /\ config.groups \in Seq([name : Group, services : Seq(Service)])
  BY DEF Config
<1>2. ASSUME NEW i \in DOMAIN config.groups
      PROVE  /\ i \in Nat
             /\ config.groups[i] \in [name : Group, services : Seq(Service)]
  BY <1>1, SeqElements, Zenon
<1> QED BY <1>1, <1>2

(* The first group of a name is the only one.                              *)
LEMMA GroupFacts ==
    ASSUME NEW config \in Config, ValidateGroups(config), NEW group,
           GroupAt(config, group) # {}
    PROVE  LET g == Min(GroupAt(config, group))
           IN  /\ g \in DOMAIN config.groups /\ config.groups[g].name = group
               /\ \A i \in DOMAIN config.groups : config.groups[i].name = group => i = g
               /\ ServicesOf(config, group) = config.groups[g].services
               /\ ServicesOf(config, group) \in Seq(Service)
               /\ ValidServices(ServicesOf(config, group))
<1> DEFINE g == Min(GroupAt(config, group))
<1>1. GroupAt(config, group) \in SUBSET Nat
  BY ConfigParts DEF GroupAt
<1>2. g \in GroupAt(config, group)
  BY <1>1, MinFacts
<1> HIDE DEF g
<1>3. g \in DOMAIN config.groups /\ config.groups[g].name = group
  BY <1>2 DEF GroupAt
<1>4. \A i \in DOMAIN config.groups : config.groups[i].name = group => i = g
  BY <1>3 DEF ValidateGroups
<1>5. ServicesOf(config, group) = config.groups[g].services
  BY DEF ServicesOf, g
<1>6. config.groups[g].services \in Seq(Service) /\ ValidServices(config.groups[g].services)
  BY <1>3, ConfigParts DEF ValidateGroups
<1> QED BY <1>3, <1>4, <1>5, <1>6 DEF g

(* A group has at most one service of a name on a node.                    *)
LEMMA ServiceAtFacts ==
    ASSUME NEW services \in Seq(Service), ValidServices(services), NEW node, NEW name,
           ServiceAt(services, node, name) # {}
    PROVE  LET i == Min(ServiceAt(services, node, name))
           IN  /\ i \in DOMAIN services /\ ServiceAt(services, node, name) = {i}
               /\ services[i] \in Service
               /\ services[i].name = name /\ services[i].node = node
<1> DEFINE at == ServiceAt(services, node, name)
           i == Min(at)
<1>1. at \in SUBSET Nat
  <2>1. \A j \in DOMAIN services : j \in Nat
    OBVIOUS
  <2> QED BY <2>1 DEF ServiceAt
<1>2. i \in at
  <2> HIDE DEF at
  <2> QED BY <1>1, MinFacts DEF at
<1> HIDE DEF i
<1>3. i \in DOMAIN services /\ services[i].name = name /\ services[i].node = node
  BY <1>2 DEF ServiceAt
<1>4. at = {i}
  BY <1>3 DEF ValidServices
<1>5. services[i] \in Service
  BY <1>3
<1> QED BY <1>3, <1>4, <1>5 DEF i

(* What the entries of a config are.                                       *)
LEMMA EntriesFacts ==
    ASSUME NEW config
    PROVE  \A e : e \in Entries(config) <=>
              \E i \in DOMAIN config.groups :
                 \E j \in DOMAIN config.groups[i].services :
                    e = <<config.groups[i].name, config.groups[i].services[j]>>
<1> DEFINE of(i) == {<<config.groups[i].name, s>> : s \in Range(config.groups[i].services)}
<1>1. ASSUME NEW e, NEW i
      PROVE  e \in of(i) <=>
                \E j \in DOMAIN config.groups[i].services :
                   e = <<config.groups[i].name, config.groups[i].services[j]>>
  BY DEF Range
<1>2. Entries(config) = UNION {of(i) : i \in DOMAIN config.groups}
  BY DEF Entries
<1> HIDE DEF of
<1> QED BY <1>1, <1>2

(* find looks a service up among the entries.                              *)
LEMMA FindFacts ==
    ASSUME NEW config \in Config, ValidateGroups(config), NEW group, NEW node, NEW name
    PROVE  /\ \A s : s \in Find(config, group, node, name) <=>
                 <<group, s>> \in Entries(config) /\ s.name = name /\ s.node = node
           /\ \A s \in Find(config, group, node, name) :
                 /\ s \in Service /\ ValidHealthPath(s.spec.healthPath)
                 /\ Find(config, group, node, name) = {s}
<1> DEFINE found == Find(config, group, node, name)
           services == ServicesOf(config, group)
           at == ServiceAt(services, node, name)
<1>1. CASE GroupAt(config, group) = {}
  <2>1. found = {}
    BY <1>1 DEF Find
  <2>2. \A i \in DOMAIN config.groups : config.groups[i].name # group
    BY <1>1 DEF GroupAt
  <2>3. \A s : <<group, s>> \notin Entries(config)
    BY <2>2, EntriesFacts
  <2> QED BY <2>1, <2>3
<1>2. CASE GroupAt(config, group) # {}
  <2> DEFINE g == Min(GroupAt(config, group))
  <2>1. /\ g \in DOMAIN config.groups /\ config.groups[g].name = group
        /\ \A i \in DOMAIN config.groups : config.groups[i].name = group => i = g
        /\ services = config.groups[g].services
        /\ services \in Seq(Service) /\ ValidServices(services)
    BY <1>2, GroupFacts
  <2> HIDE DEF g
  <2>2. \A s : <<group, s>> \in Entries(config) <=> \E j \in DOMAIN services : s = services[j]
    BY <2>1, EntriesFacts
  <2>3. found = IF at = {} THEN {} ELSE {services[Min(at)]}
    BY <1>2 DEF Find
  <2> HIDE DEF services
  <2>4. CASE at = {}
    <3>1. \A j \in DOMAIN services : ~(services[j].name = name /\ services[j].node = node)
      BY <2>4 DEF ServiceAt
    <3> QED BY <2>2, <2>3, <2>4, <3>1
  <2>5. CASE at # {}
    <3> DEFINE j == Min(at)
    <3>1. /\ j \in DOMAIN services /\ at = {j} /\ services[j] \in Service
          /\ services[j].name = name /\ services[j].node = node
      BY <2>1, <2>5, ServiceAtFacts
    <3> HIDE DEF j
    <3>2. \A k \in DOMAIN services : services[k].name = name /\ services[k].node = node => k = j
      BY <3>1 DEF ServiceAt
    <3>3. found = {services[j]}
      BY <2>3, <2>5 DEF j
    <3>4. ValidHealthPath(services[j].spec.healthPath)
      BY <2>1, <3>1 DEF ValidServices
    <3> QED BY <2>2, <3>1, <3>2, <3>3, <3>4
  <2> QED BY <2>4, <2>5
<1> QED BY <1>1, <1>2

-----------------------------------------------------------------------------
(* What an operation must leave.                                           *)
WellFormed(config) == config \in Config /\ ValidateGroups(config) /\ ValidateRoutes(config)

(* What the groups say does not depend on the routes and the version.      *)
LEMMA SameGroups ==
    ASSUME NEW c, NEW d, c.groups = d.groups
    PROVE  Entries(c) = Entries(d) /\ (ValidateGroups(c) <=> ValidateGroups(d))
  BY DEF Entries, ValidateGroups

LEMMA SameRoutes ==
    ASSUME NEW c, NEW d, c.routes = d.routes
    PROVE  ValidateRoutes(c) <=> ValidateRoutes(d)
  BY DEF ValidateRoutes, RoutesAt

(* Counting the version up changes nothing else.                           *)
LEMMA OkFacts ==
    ASSUME NEW config \in Config
    PROVE  /\ Ok(config).ok /\ Ok(config).dc \in Config
           /\ Entries(Ok(config).dc) = Entries(config)
           /\ WellFormed(config) => WellFormed(Ok(config).dc)
<1>1. Ok(config).ok /\ Ok(config).dc = [config EXCEPT !.version = @ + 1]
  BY DEF Ok
<1>2. /\ Ok(config).dc \in Config
      /\ Ok(config).dc.groups = config.groups /\ Ok(config).dc.routes = config.routes
  BY <1>1 DEF Config
<1> QED BY <1>1, <1>2, SameGroups, SameRoutes, Zenon DEF WellFormed

(* Giving a group other services.                                          *)
LEMMA WithServicesFacts ==
    ASSUME NEW config, WellFormed(config), NEW group, GroupAt(config, group) # {},
           NEW services \in Seq(Service), ValidServices(services)
    PROVE  /\ WellFormed(WithServices(config, group, services))
           /\ \A e : e \in Entries(WithServices(config, group, services)) <=>
                 \/ e \in Entries(config) /\ e[1] # group
                 \/ \E j \in DOMAIN services : e = <<group, services[j]>>
<1> DEFINE new == WithServices(config, group, services)
           g == Min(GroupAt(config, group))
           entry == [name |-> group, services |-> services]
<1>1. config \in Config /\ ValidateGroups(config) /\ ValidateRoutes(config)
  BY DEF WellFormed
<1>2. /\ g \in DOMAIN config.groups /\ config.groups[g].name = group
      /\ \A i \in DOMAIN config.groups : config.groups[i].name = group => i = g
  BY <1>1, GroupFacts
<1>3. config.groups[g] \in [name : Group, services : Seq(Service)]
  BY <1>1, <1>2, ConfigParts
<1>4. new = [config EXCEPT !.groups = [config.groups EXCEPT ![g] = entry]]
  <2>1. new = [config EXCEPT !.groups = [config.groups EXCEPT ![g] =
                                            [config.groups[g] EXCEPT !.services = services]]]
    BY DEF WithServices
  <2> HIDE DEF g, new
  <2>2. [config.groups[g] EXCEPT !.services = services] = entry
    BY <1>2, <1>3
  <2> QED BY <2>1, <2>2
<1> HIDE DEF g
<1>5. entry \in [name : Group, services : Seq(Service)]
  BY <1>2, <1>3
<1>6. /\ new.groups = [config.groups EXCEPT ![g] = entry] /\ new.routes = config.routes
      /\ new.version = config.version
  BY <1>1, <1>4 DEF Config
<1>7. new \in Config
  <2>1. config.groups \in Seq([name : Group, services : Seq(Service)])
    BY <1>1, ConfigParts, Zenon
  <2>2. [config.groups EXCEPT ![g] = entry] \in Seq([name : Group, services : Seq(Service)])
    <3> HIDE DEF entry
    <3> QED BY <1>2, <1>5, <2>1, SeqReplace, Zenon
  <2> HIDE DEF entry
  <2> QED BY <1>1, <1>4, <2>2, Zenon DEF Config
<1>8. /\ DOMAIN new.groups = DOMAIN config.groups
      /\ \A i \in DOMAIN config.groups :
            new.groups[i] = IF i = g THEN entry ELSE config.groups[i]
  BY <1>2, <1>6
<1> HIDE DEF new
<1>9. \A i \in DOMAIN config.groups :
         /\ new.groups[i].name = config.groups[i].name
         /\ new.groups[i].services = IF i = g THEN services ELSE config.groups[i].services
  BY <1>2, <1>8
<1>10. ValidateGroups(new)
  BY <1>1, <1>8, <1>9 DEF ValidateGroups
<1>11. ValidateRoutes(new)
  BY <1>1, <1>6, SameRoutes
<1>12. ASSUME NEW e
       PROVE  e \in Entries(new) <=>
                 \/ e \in Entries(config) /\ e[1] # group
                 \/ \E j \in DOMAIN services : e = <<group, services[j]>>
  <2>1. e \in Entries(new) <=>
           \E i \in DOMAIN config.groups : \E j \in DOMAIN new.groups[i].services :
              e = <<config.groups[i].name, new.groups[i].services[j]>>
    BY <1>8, <1>9, EntriesFacts
  <2>2. e \in Entries(config) <=>
           \E i \in DOMAIN config.groups : \E j \in DOMAIN config.groups[i].services :
              e = <<config.groups[i].name, config.groups[i].services[j]>>
    BY EntriesFacts
  <2>3. ASSUME NEW i \in DOMAIN config.groups, NEW j \in DOMAIN new.groups[i].services,
               e = <<config.groups[i].name, new.groups[i].services[j]>>
        PROVE  \/ e \in Entries(config) /\ e[1] # group
               \/ \E k \in DOMAIN services : e = <<group, services[k]>>
    <3>1. CASE i = g
      BY <1>2, <1>9, <2>3, <3>1
    <3>2. CASE i # g
      BY <1>2, <1>9, <2>2, <2>3, <3>2
    <3> QED BY <3>1, <3>2
  <2>4. ASSUME e \in Entries(config), e[1] # group
        PROVE  e \in Entries(new)
    <3>1. PICK i \in DOMAIN config.groups : \E j \in DOMAIN config.groups[i].services :
             e = <<config.groups[i].name, config.groups[i].services[j]>>
      BY <2>2, <2>4
    <3>2. i # g
      BY <1>2, <2>4, <3>1
    <3> QED BY <1>9, <2>1, <3>1, <3>2
  <2>5. ASSUME NEW j \in DOMAIN services, e = <<group, services[j]>>
        PROVE  e \in Entries(new)
    BY <1>2, <1>9, <2>1, <2>5
  <2> QED BY <2>1, <2>3, <2>4, <2>5
<1> QED BY <1>7, <1>10, <1>11, <1>12 DEF new, WellFormed

-----------------------------------------------------------------------------
(* Services are valid when they differ in name or node and their health    *)
(* paths are.                                                              *)
LEMMA ValidServicesMeans ==
    ASSUME NEW services
    PROVE  ValidServices(services) <=>
              /\ \A i, j \in DOMAIN services :
                    services[i].name = services[j].name /\ services[i].node = services[j].node
                       => i = j
              /\ \A i \in DOMAIN services : ValidHealthPath(services[i].spec.healthPath)
<1>1. \A i \in DOMAIN services :
         ServiceAt(services, services[i].node, services[i].name) = {i} <=>
            \A j \in DOMAIN services :
               services[i].name = services[j].name /\ services[i].node = services[j].node
                  => i = j
  BY DEF ServiceAt
<1> QED BY <1>1, Zenon DEF ValidServices

(* Keeping some of the services keeps them valid.                          *)
LEMMA RetainServices ==
    ASSUME NEW services \in Seq(Service), ValidServices(services),
           NEW S \in SUBSET DOMAIN services
    PROVE  /\ Retain(services, S) \in Seq(Service) /\ ValidServices(Retain(services, S))
           /\ \A x : (\E j \in DOMAIN Retain(services, S) : x = Retain(services, S)[j])
                        <=> \E i \in S : x = services[i]
<1> DEFINE kept == Retain(services, S)
           n == Cardinality(S)
<1>1. kept \in Seq(Service) /\ Len(kept) = n /\ n \in Nat
  BY RetainFacts
<1>2. PICK p : IsSelection(p, kept, services, S)
  BY RetainFacts, Zenon
<1> HIDE DEF kept
<1>3. /\ p \in [1 .. n -> S] /\ \A k \in 1 .. n : kept[k] = services[p[k]]
      /\ \A k, l \in 1 .. n : p[k] = p[l] => k = l
      /\ \A i \in S : \E k \in 1 .. n : p[k] = i
  BY <1>2 DEF IsSelection
<1> HIDE DEF n
<1>4. DOMAIN kept = 1 .. n
  BY <1>1
<1>5. \A k \in 1 .. n : p[k] \in DOMAIN services
  BY <1>3
<1>6. ValidServices(kept)
  <2>1. \A k, l \in DOMAIN kept :
           kept[k].name = kept[l].name /\ kept[k].node = kept[l].node => k = l
    BY <1>3, <1>4, <1>5, ValidServicesMeans
  <2>2. \A k \in DOMAIN kept : ValidHealthPath(kept[k].spec.healthPath)
    BY <1>3, <1>4, <1>5, ValidServicesMeans
  <2> QED BY <2>1, <2>2, ValidServicesMeans
<1>7. \A x : (\E j \in DOMAIN kept : x = kept[j]) <=> \E i \in S : x = services[i]
  BY RetainElements, Zenon DEF kept
<1> QED BY <1>1, <1>6, <1>7 DEF kept

(* So does adding one with a name that the node does not have.             *)
LEMMA AppendService ==
    ASSUME NEW services \in Seq(Service), ValidServices(services), NEW service \in Service,
           ValidHealthPath(service.spec.healthPath),
           ServiceAt(services, service.node, service.name) = {}
    PROVE  /\ Append(services, service) \in Seq(Service)
           /\ ValidServices(Append(services, service))
           /\ \A x : (\E j \in DOMAIN Append(services, service) :
                         x = Append(services, service)[j])
                        <=> x = service \/ \E i \in DOMAIN services : x = services[i]
<1> DEFINE new == Append(services, service)
           n == Len(services)
<1>1. /\ n \in Nat /\ DOMAIN services = 1 .. n /\ new \in Seq(Service)
      /\ DOMAIN new = 1 .. n + 1 /\ new[n + 1] = service
      /\ \A i \in 1 .. n : new[i] = services[i]
  OBVIOUS
<1>2. \A i \in 1 .. n : ~(services[i].name = service.name /\ services[i].node = service.node)
  BY <1>1 DEF ServiceAt
<1> HIDE DEF new, n
<1>3. \A i \in 1 .. n + 1 : i = n + 1 \/ i \in 1 .. n
  BY <1>1
<1>4. 1 .. n \subseteq 1 .. n + 1 /\ n + 1 \in 1 .. n + 1
  BY <1>1
<1>5. \A i, j \in 1 .. n + 1 : new[i].name = new[j].name /\ new[i].node = new[j].node => i = j
  BY <1>1, <1>2, <1>3, ValidServicesMeans
<1>6. \A i \in 1 .. n + 1 : ValidHealthPath(new[i].spec.healthPath)
  BY <1>1, <1>3, ValidServicesMeans
<1>7. ValidServices(new)
  BY <1>1, <1>5, <1>6, ValidServicesMeans
<1>8. \A x : (\E j \in DOMAIN new : x = new[j])
                <=> x = service \/ \E i \in DOMAIN services : x = services[i]
  BY <1>1, <1>3, <1>4
<1> QED BY <1>1, <1>7, <1>8 DEF new

(* And replacing one by one that no other clashes with.                    *)
LEMMA ReplaceService ==
    ASSUME NEW services \in Seq(Service), ValidServices(services), NEW service \in Service,
           ValidHealthPath(service.spec.healthPath), NEW i \in DOMAIN services,
           ServiceAt(services, service.node, service.name) \subseteq {i}
    PROVE  /\ [services EXCEPT ![i] = service] \in Seq(Service)
           /\ ValidServices([services EXCEPT ![i] = service])
           /\ \A x : (\E j \in DOMAIN [services EXCEPT ![i] = service] :
                         x = [services EXCEPT ![i] = service][j])
                        <=> x = service \/ \E j \in DOMAIN services \ {i} : x = services[j]
<1> DEFINE new == [services EXCEPT ![i] = service]
<1>1. /\ new \in Seq(Service) /\ DOMAIN new = DOMAIN services
      /\ \A j \in DOMAIN services : new[j] = IF j = i THEN service ELSE services[j]
  BY SeqReplace
<1>2. \A j \in DOMAIN services :
         services[j].name = service.name /\ services[j].node = service.node => j = i
  BY DEF ServiceAt
<1> HIDE DEF new
<1>3. ValidServices(new)
  BY <1>1, <1>2, ValidServicesMeans
<1>4. \A x : (\E j \in DOMAIN new : x = new[j])
                <=> x = service \/ \E j \in DOMAIN services \ {i} : x = services[j]
  BY <1>1
<1> QED BY <1>1, <1>3, <1>4 DEF new

-----------------------------------------------------------------------------
(* An entry of that name on that node in that group.                       *)
HasKey(e, group, node, name) == e[1] = group /\ e[2].node = node /\ e[2].name = name

(* The entries of a group are its services.                                *)
LEMMA GroupEntries ==
    ASSUME NEW config \in Config, ValidateGroups(config), NEW group
    PROVE  /\ GroupAt(config, group) = {} => \A e \in Entries(config) : e[1] # group
           /\ GroupAt(config, group) # {} =>
                 \A e : e \in Entries(config) /\ e[1] = group <=>
                    \E j \in DOMAIN ServicesOf(config, group) :
                       e = <<group, ServicesOf(config, group)[j]>>
<1>1. ASSUME GroupAt(config, group) = {}, NEW e \in Entries(config)
      PROVE  e[1] # group
  <2>1. \A i \in DOMAIN config.groups : config.groups[i].name # group
    BY <1>1 DEF GroupAt
  <2> QED BY <2>1, EntriesFacts
<1>2. ASSUME GroupAt(config, group) # {}, NEW e
      PROVE  e \in Entries(config) /\ e[1] = group <=>
                \E j \in DOMAIN ServicesOf(config, group) :
                   e = <<group, ServicesOf(config, group)[j]>>
  <2> DEFINE g == Min(GroupAt(config, group))
  <2>1. /\ g \in DOMAIN config.groups /\ config.groups[g].name = group
        /\ \A i \in DOMAIN config.groups : config.groups[i].name = group => i = g
        /\ ServicesOf(config, group) = config.groups[g].services
    BY <1>2, GroupFacts
  <2> HIDE DEF g
  <2>2. e \in Entries(config) <=>
           \E i \in DOMAIN config.groups : \E j \in DOMAIN config.groups[i].services :
              e = <<config.groups[i].name, config.groups[i].services[j]>>
    BY EntriesFacts
  <2> QED BY <2>1, <2>2
<1> QED BY <1>1, <1>2

(* A new group with one service.                                           *)
LEMMA NewGroup ==
    ASSUME NEW config, WellFormed(config), NEW group \in Group, GroupAt(config, group) = {},
           NEW service \in Service, ValidHealthPath(service.spec.healthPath)
    PROVE  LET new == [config EXCEPT !.groups =
                          Append(@, [name |-> group, services |-> <<service>>])]
           IN  /\ WellFormed(new)
               /\ \A e : e \in Entries(new) <=> e = <<group, service>> \/ e \in Entries(config)
<1> DEFINE entry == [name |-> group, services |-> <<service>>]
           new == [config EXCEPT !.groups = Append(@, entry)]
           n == Len(config.groups)
           X == [name : Group, services : Seq(Service)]
<1>1. config \in Config /\ ValidateGroups(config) /\ ValidateRoutes(config)
  BY DEF WellFormed
<1>2. config.groups \in Seq(X) /\ entry \in X
  <2>1. <<service>> \in Seq(Service)
    OBVIOUS
  <2> QED BY <1>1, <2>1, ConfigParts, Zenon
<1>3. new.groups = Append(config.groups, entry) /\ new.routes = config.routes
  BY <1>1 DEF Config
<1>4. new \in Config
  <2> HIDE DEF entry, X
  <2>1. Append(config.groups, entry) \in Seq(X)
    BY <1>2
  <2> QED BY <1>1, <2>1, Zenon DEF Config, X
<1>5. /\ n \in Nat /\ DOMAIN config.groups = 1 .. n /\ DOMAIN new.groups = 1 .. n + 1
      /\ new.groups[n + 1] = entry
      /\ \A i \in 1 .. n : new.groups[i] = config.groups[i]
  <2> HIDE DEF entry, X, new
  <2> QED BY <1>2, <1>3
<1>6. \A i \in 1 .. n : config.groups[i].name # group
  BY <1>5 DEF GroupAt
<1>7. entry.name = group /\ entry.services = <<service>>
  OBVIOUS
<1>8. ValidServices(<<service>>)
  BY ValidServicesMeans
<1> HIDE DEF new, n, entry
<1>9. \A i \in 1 .. n + 1 : i = n + 1 \/ i \in 1 .. n
  BY <1>5
<1>10. 1 .. n \subseteq 1 .. n + 1 /\ n + 1 \in 1 .. n + 1
  BY <1>5
<1>11. ValidateGroups(new)
  <2>1. \A i, j \in DOMAIN new.groups : new.groups[i].name = new.groups[j].name => i = j
    BY <1>1, <1>5, <1>6, <1>7, <1>9 DEF ValidateGroups
  <2>2. \A i \in DOMAIN new.groups : ValidServices(new.groups[i].services)
    BY <1>1, <1>5, <1>7, <1>8, <1>9 DEF ValidateGroups
  <2> QED BY <2>1, <2>2 DEF ValidateGroups
<1>12. ValidateRoutes(new)
  BY <1>1, <1>3, SameRoutes
<1>13. ASSUME NEW e
       PROVE  e \in Entries(new) <=> e = <<group, service>> \/ e \in Entries(config)
  <2>1. e \in Entries(new) <=>
           \E i \in 1 .. n + 1 : \E j \in DOMAIN new.groups[i].services :
              e = <<new.groups[i].name, new.groups[i].services[j]>>
    <3>1. e \in Entries(new) <=>
             \E i \in DOMAIN new.groups : \E j \in DOMAIN new.groups[i].services :
                e = <<new.groups[i].name, new.groups[i].services[j]>>
      BY EntriesFacts
    <3>2. DOMAIN new.groups = 1 .. n + 1
      BY <1>5
    <3> QED BY <3>1, <3>2, Zenon
  <2>2. e \in Entries(config) <=>
           \E i \in 1 .. n : \E j \in DOMAIN config.groups[i].services :
              e = <<config.groups[i].name, config.groups[i].services[j]>>
    BY <1>5, EntriesFacts
  <2>3. e = <<group, service>> <=>
           \E j \in DOMAIN entry.services : e = <<entry.name, entry.services[j]>>
    BY <1>7
  <2> QED BY <1>5, <1>9, <1>10, <2>1, <2>2, <2>3, Zenon
<1> QED BY <1>4, <1>11, <1>12, <1>13, Zenon DEF new, entry, WellFormed

(* upsert_service: the service takes the place of the one of its name on   *)
(* its node, if there is one, and nothing else changes.                    *)
LEMMA UpsertFacts ==
    ASSUME NEW config, WellFormed(config), NEW group \in Group, NEW service \in Service,
           ValidHealthPath(service.spec.healthPath)
    PROVE  /\ UpsertService(config, group, service).ok
           /\ WellFormed(UpsertService(config, group, service).dc)
           /\ \A e : e \in Entries(UpsertService(config, group, service).dc) <=>
                 \/ e = <<group, service>>
                 \/ e \in Entries(config) /\ ~HasKey(e, group, service.node, service.name)
<1> DEFINE services == ServicesOf(config, group)
           at == ServiceAt(services, service.node, service.name)
           next == IF at = {} THEN Append(services, service)
                   ELSE [services EXCEPT ![Min(at)] = service]
           new == IF GroupAt(config, group) = {}
                  THEN [config EXCEPT !.groups =
                           Append(@, [name |-> group, services |-> <<service>>])]
                  ELSE WithServices(config, group, next)
<1>1. UpsertService(config, group, service) = Ok(new)
  BY DEF UpsertService
<1>2. config \in Config /\ ValidateGroups(config)
  BY DEF WellFormed
<1>3. /\ WellFormed(new)
      /\ \A e : e \in Entries(new) <=>
            \/ e = <<group, service>>
            \/ e \in Entries(config) /\ ~HasKey(e, group, service.node, service.name)
  <2>1. CASE GroupAt(config, group) = {}
    <3>1. /\ WellFormed(new)
          /\ \A e : e \in Entries(new) <=> e = <<group, service>> \/ e \in Entries(config)
      BY <2>1, NewGroup, Zenon
    <3> HIDE DEF new
    <3>2. \A e \in Entries(config) : ~HasKey(e, group, service.node, service.name)
      BY <1>2, <2>1, GroupEntries DEF HasKey
    <3> QED BY <3>1, <3>2
  <2>2. CASE GroupAt(config, group) # {}
    <3>1. services \in Seq(Service) /\ ValidServices(services)
      BY <1>2, <2>2, GroupFacts
    <3>2. \A e : e \in Entries(config) /\ e[1] = group <=>
                    \E j \in DOMAIN services : e = <<group, services[j]>>
      BY <1>2, <2>2, GroupEntries
    <3>3. new = WithServices(config, group, next)
      BY <2>2
    <3> HIDE DEF new, services
    <3>4. /\ next \in Seq(Service) /\ ValidServices(next)
          /\ \A x : (\E j \in DOMAIN next : x = next[j]) <=>
                \/ x = service
                \/ \E j \in DOMAIN services :
                      /\ x = services[j]
                      /\ ~(services[j].node = service.node /\ services[j].name = service.name)
      <4>1. CASE at = {}
        <5>1. \A j \in DOMAIN services :
                 ~(services[j].node = service.node /\ services[j].name = service.name)
          BY <4>1 DEF ServiceAt
        <5>2. next = Append(services, service)
          BY <4>1
        <5> HIDE DEF next
        <5>3. /\ next \in Seq(Service) /\ ValidServices(next)
              /\ \A x : (\E j \in DOMAIN next : x = next[j])
                           <=> x = service \/ \E j \in DOMAIN services : x = services[j]
          BY <3>1, <4>1, <5>2, AppendService
        <5> QED BY <5>1, <5>3, Zenon
      <4>2. CASE at # {}
        <5> DEFINE k == Min(at)
        <5>1. /\ k \in DOMAIN services /\ at = {k}
          BY <3>1, <4>2, ServiceAtFacts
        <5>2. next = [services EXCEPT ![k] = service]
          BY <4>2
        <5> HIDE DEF next, k
        <5>3. \A j \in DOMAIN services :
                 j = k <=> services[j].node = service.node /\ services[j].name = service.name
          BY <5>1 DEF ServiceAt
        <5>4. /\ next \in Seq(Service) /\ ValidServices(next)
              /\ \A x : (\E j \in DOMAIN next : x = next[j])
                           <=> x = service \/ \E j \in DOMAIN services \ {k} : x = services[j]
          BY <3>1, <5>1, <5>2, ReplaceService, Zenon
        <5> QED BY <5>3, <5>4
      <4> QED BY <4>1, <4>2, Zenon
    <3> HIDE DEF next
    <3>5. /\ WellFormed(new)
          /\ \A e : e \in Entries(new) <=>
                \/ e \in Entries(config) /\ e[1] # group
                \/ \E j \in DOMAIN next : e = <<group, next[j]>>
      BY <2>2, <3>3, <3>4, WithServicesFacts
    <3>6. ASSUME NEW e
          PROVE  e \in Entries(new) <=>
                    \/ e = <<group, service>>
                    \/ e \in Entries(config) /\ ~HasKey(e, group, service.node, service.name)
      <4>1. ASSUME NEW j \in DOMAIN next, e = <<group, next[j]>>
            PROVE  \/ e = <<group, service>>
                   \/ e \in Entries(config) /\ ~HasKey(e, group, service.node, service.name)
        <5>1. next[j] = service \/ \E k \in DOMAIN services :
                 /\ next[j] = services[k]
                 /\ ~(services[k].node = service.node /\ services[k].name = service.name)
          BY <3>4
        <5>2. ASSUME NEW k \in DOMAIN services, next[j] = services[k],
                     ~(services[k].node = service.node /\ services[k].name = service.name)
              PROVE  e \in Entries(config) /\ ~HasKey(e, group, service.node, service.name)
          BY <3>2, <4>1, <5>2 DEF HasKey
        <5> QED BY <4>1, <5>1, <5>2
      <4>2. ASSUME e = <<group, service>>
            PROVE  \E j \in DOMAIN next : e = <<group, next[j]>>
        <5>1. PICK j \in DOMAIN next : service = next[j]
          BY <3>4
        <5> QED BY <4>2, <5>1
      <4>3. ASSUME e \in Entries(config), e[1] = group,
                   ~HasKey(e, group, service.node, service.name)
            PROVE  \E j \in DOMAIN next : e = <<group, next[j]>>
        <5>1. PICK k \in DOMAIN services : e = <<group, services[k]>>
          BY <3>2, <4>3
        <5>2. ~(services[k].node = service.node /\ services[k].name = service.name)
          BY <4>3, <5>1 DEF HasKey
        <5>3. PICK j \in DOMAIN next : services[k] = next[j]
          BY <3>4, <5>2
        <5> QED BY <5>1, <5>3
      <4> QED BY <3>5, <4>1, <4>2, <4>3 DEF HasKey
    <3> QED BY <3>5, <3>6
  <2> QED BY <2>1, <2>2, Zenon
<1> HIDE DEF new
<1>4. new \in Config
  BY <1>3 DEF WellFormed
<1> QED BY <1>1, <1>3, <1>4, OkFacts

(* remove_service: an error if there is no such service, else that one     *)
(* goes and nothing else changes.                                          *)
LEMMA RemoveFacts ==
    ASSUME NEW config, WellFormed(config), NEW group, NEW node, NEW name
    PROVE  /\ Find(config, group, node, name) = {} =>
                 RemoveService(config, group, node, name) = Err(config)
           /\ Find(config, group, node, name) # {} =>
                 /\ RemoveService(config, group, node, name).ok
                 /\ WellFormed(RemoveService(config, group, node, name).dc)
                 /\ \A e : e \in Entries(RemoveService(config, group, node, name).dc) <=>
                       e \in Entries(config) /\ ~HasKey(e, group, node, name)
<1>1. ASSUME Find(config, group, node, name) # {}
      PROVE  /\ RemoveService(config, group, node, name).ok
             /\ WellFormed(RemoveService(config, group, node, name).dc)
             /\ \A e : e \in Entries(RemoveService(config, group, node, name).dc) <=>
                   e \in Entries(config) /\ ~HasKey(e, group, node, name)
  <2> DEFINE services == ServicesOf(config, group)
             others == DOMAIN services \ ServiceAt(services, node, name)
             next == Retain(services, others)
             new == WithServices(config, group, next)
  <2>1. RemoveService(config, group, node, name) = Ok(new)
    BY <1>1 DEF RemoveService
  <2>2. GroupAt(config, group) # {}
    BY <1>1 DEF Find
  <2>3. config \in Config /\ ValidateGroups(config)
    BY DEF WellFormed
  <2>4. services \in Seq(Service) /\ ValidServices(services)
    BY <2>2, <2>3, GroupFacts
  <2>5. \A e : e \in Entries(config) /\ e[1] = group <=>
                  \E j \in DOMAIN services : e = <<group, services[j]>>
    BY <2>2, <2>3, GroupEntries
  <2>6. \A j \in DOMAIN services :
           j \in others <=> ~(services[j].node = node /\ services[j].name = name)
    BY DEF ServiceAt
  <2>7. others \in SUBSET DOMAIN services
    OBVIOUS
  <2> HIDE DEF services, others
  <2>8. /\ next \in Seq(Service) /\ ValidServices(next)
        /\ \A x : (\E j \in DOMAIN next : x = next[j]) <=> \E i \in others : x = services[i]
    BY <2>4, <2>7, RetainServices, Zenon
  <2> HIDE DEF next
  <2>9. /\ WellFormed(new)
        /\ \A e : e \in Entries(new) <=>
              \/ e \in Entries(config) /\ e[1] # group
              \/ \E j \in DOMAIN next : e = <<group, next[j]>>
    BY <2>2, <2>8, WithServicesFacts
  <2> HIDE DEF new
  <2>10. ASSUME NEW e, NEW j \in DOMAIN next, e = <<group, next[j]>>
         PROVE  e \in Entries(config) /\ ~HasKey(e, group, node, name)
    <3>1. PICK i \in others : next[j] = services[i]
      BY <2>8, Zenon
    <3>2. i \in DOMAIN services /\ ~(services[i].node = node /\ services[i].name = name)
      BY <2>6, <2>7
    <3> QED BY <2>5, <2>10, <3>1, <3>2 DEF HasKey
  <2>11. ASSUME NEW e, e \in Entries(config), e[1] = group, ~HasKey(e, group, node, name)
         PROVE  \E j \in DOMAIN next : e = <<group, next[j]>>
    <3>1. PICK i \in DOMAIN services : e = <<group, services[i]>>
      BY <2>5, <2>11
    <3>2. i \in others
      BY <2>6, <2>11, <3>1 DEF HasKey
    <3>3. PICK j \in DOMAIN next : services[i] = next[j]
      BY <2>8, <3>2, Zenon
    <3> QED BY <3>1, <3>3
  <2>12. \A e : e \in Entries(new) <=> e \in Entries(config) /\ ~HasKey(e, group, node, name)
    BY <2>9, <2>10, <2>11 DEF HasKey
  <2>13. new \in Config
    BY <2>9 DEF WellFormed
  <2> QED BY <2>1, <2>9, <2>12, <2>13, OkFacts
<1> QED BY <1>1 DEF RemoveService

(* rename_service keeps a config well formed, because the new name is      *)
(* free.                                                                   *)
LEMMA RenameFacts ==
    ASSUME NEW config, WellFormed(config), NEW group, NEW node, NEW from, NEW to \in Name
    PROVE  WellFormed(RenameService(config, group, node, from, to).dc)
<1>1. CASE Find(config, group, node, to) # {} \/ Find(config, group, node, from) = {}
  BY <1>1 DEF RenameService, Err
<1>2. CASE Find(config, group, node, to) = {} /\ Find(config, group, node, from) # {}
  <2> DEFINE services == ServicesOf(config, group)
             next == Renamed(services, node, from, to)
             new == WithServices(config, group, next)
             i == Min(ServiceAt(services, node, from))
             service == [services[i] EXCEPT !.name = to]
  <2>1. RenameService(config, group, node, from, to) = Ok(new)
    BY <1>2 DEF RenameService
  <2>2. GroupAt(config, group) # {} /\ ServiceAt(services, node, from) # {}
    BY <1>2 DEF Find
  <2>3. ServiceAt(services, node, to) = {}
    BY <1>2, <2>2 DEF Find
  <2>4. config \in Config /\ ValidateGroups(config)
    BY DEF WellFormed
  <2>5. services \in Seq(Service) /\ ValidServices(services)
    BY <2>2, <2>4, GroupFacts
  <2>6. /\ i \in DOMAIN services /\ services[i] \in Service /\ services[i].node = node
    <3> HIDE DEF services
    <3> QED BY <2>2, <2>5, ServiceAtFacts
  <2>7. next = [services EXCEPT ![i] = service]
    BY DEF Renamed
  <2> HIDE DEF services, i
  <2>8. ValidHealthPath(services[i].spec.healthPath)
    BY <2>5, <2>6 DEF ValidServices
  <2>9. /\ service \in Service /\ service.node = node /\ service.name = to
        /\ service.spec = services[i].spec
    BY <2>6 DEF Service
  <2> HIDE DEF service, next
  <2>10. next \in Seq(Service) /\ ValidServices(next)
    BY <2>3, <2>5, <2>6, <2>7, <2>8, <2>9, ReplaceService, Zenon
  <2>11. WellFormed(new)
    BY <2>2, <2>10, WithServicesFacts
  <2> HIDE DEF new
  <2>12. new \in Config
    BY <2>11 DEF WellFormed
  <2> QED BY <2>1, <2>11, <2>12, OkFacts
<1> QED BY <1>1, <1>2

-----------------------------------------------------------------------------
(* The routes of a config are valid one by one.                            *)
LEMMA ValidateRoutesMeans ==
    ASSUME NEW config \in Config
    PROVE  ValidateRoutes(config) <=>
              \A i \in DOMAIN config.routes :
                 ValidRoute(config.routes[i].service, config.routes[i])
<1> DEFINE kept(service) == Retain(config.routes, RoutesAt(config, service))
<1>1. ASSUME NEW service
      PROVE  ValidRoutes(service, kept(service)) <=>
                \A i \in RoutesAt(config, service) : ValidRoute(service, config.routes[i])
  <2> DEFINE S == RoutesAt(config, service)
             routes == config.routes
  <2>1. routes \in Seq(Route) /\ S \in SUBSET DOMAIN routes
    BY ConfigParts DEF RoutesAt
  <2> HIDE DEF S, routes
  <2>2. \A x : (\E k \in DOMAIN Retain(routes, S) : x = Retain(routes, S)[k])
                  <=> \E i \in S : x = routes[i]
    BY <2>1, RetainElements, Zenon
  <2>3. ValidRoutes(service, Retain(routes, S)) <=>
           \A i \in S : ValidRoute(service, routes[i])
    BY <2>2 DEF ValidRoutes
  <2> QED BY <2>3 DEF S, routes
<1> HIDE DEF kept
<1>2. \A i \in DOMAIN config.routes : i \in RoutesAt(config, config.routes[i].service)
  BY DEF RoutesAt
<1>3. \A service : \A i \in RoutesAt(config, service) :
         i \in DOMAIN config.routes /\ config.routes[i].service = service
  BY DEF RoutesAt
<1>4. ValidateRoutes(config) <=>
         \A i \in DOMAIN config.routes :
            ValidRoutes(config.routes[i].service, kept(config.routes[i].service))
  BY DEF ValidateRoutes, kept
<1> QED BY <1>1, <1>2, <1>3, <1>4

(* The elements of a concatenation, ...                                    *)
LEMMA ConcatElements ==
    ASSUME NEW X, NEW s \in Seq(X), NEW r \in Seq(X)
    PROVE  s \o r \in Seq(X) /\ Range(s \o r) \subseteq Range(s) \cup Range(r)
<1>1. /\ s \o r \in Seq(X) /\ Len(s \o r) = Len(s) + Len(r)
      /\ Len(s) \in Nat /\ Len(r) \in Nat
      /\ DOMAIN s = 1 .. Len(s) /\ DOMAIN r = 1 .. Len(r)
      /\ DOMAIN (s \o r) = 1 .. Len(s) + Len(r)
  OBVIOUS
<1>2. ASSUME NEW k \in DOMAIN (s \o r)
      PROVE  (s \o r)[k] \in Range(s) \cup Range(r)
  <2>1. CASE k =< Len(s)
    <3>1. k \in DOMAIN s /\ (s \o r)[k] = s[k]
      BY <1>1, <2>1
    <3> QED BY <3>1 DEF Range
  <2>2. CASE k > Len(s)
    <3>1. k - Len(s) \in DOMAIN r /\ (s \o r)[k] = r[k - Len(s)]
      BY <1>1, <2>2
    <3> QED BY <3>1 DEF Range
  <2> QED BY <1>1, <2>1, <2>2
<1> QED BY <1>1, <1>2 DEF Range

(* ... of a part of a sequence, ...                                        *)
LEMMA SubSeqElements ==
    ASSUME NEW X, NEW s \in Seq(X), NEW m \in Nat, NEW n \in Nat, 1 =< m, n =< Len(s)
    PROVE  SubSeq(s, m, n) \in Seq(X) /\ Range(SubSeq(s, m, n)) \subseteq Range(s)
<1> DEFINE part == SubSeq(s, m, n)
<1>1. Len(s) \in Nat /\ DOMAIN s = 1 .. Len(s)
  OBVIOUS
<1>2. CASE m > n
  <2>1. part = <<>>
    BY <1>1, <1>2
  <2> QED BY <2>1 DEF Range
<1>3. CASE m =< n
  <2>1. /\ part \in Seq(X) /\ DOMAIN part = 1 .. n + 1 - m
        /\ \A i \in 1 .. n + 1 - m : part[i] = s[m + i - 1]
    BY <1>1, <1>3
  <2>2. \A i \in 1 .. n + 1 - m : m + i - 1 \in DOMAIN s
    BY <1>1, <1>3
  <2> QED BY <2>1, <2>2 DEF Range
<1> QED BY <1>2, <1>3

(* ... and of a sequence put into another after position n.                *)
LEMMA InsertElements ==
    ASSUME NEW X, NEW s \in Seq(X), NEW r \in Seq(X), NEW n \in 0 .. Len(s)
    PROVE  /\ SubSeq(s, 1, n) \o r \o SubSeq(s, n + 1, Len(s)) \in Seq(X)
           /\ Range(SubSeq(s, 1, n) \o r \o SubSeq(s, n + 1, Len(s)))
                \subseteq Range(s) \cup Range(r)
<1> DEFINE front == SubSeq(s, 1, n)
           back == SubSeq(s, n + 1, Len(s))
<1>1. /\ Len(s) \in Nat /\ n \in Nat /\ 1 \in Nat /\ n + 1 \in Nat /\ n =< Len(s)
      /\ 1 =< 1 /\ 1 =< n + 1 /\ Len(s) =< Len(s)
  OBVIOUS
<1>2. front \in Seq(X) /\ Range(front) \subseteq Range(s)
  BY <1>1, SubSeqElements, Zenon
<1>3. back \in Seq(X) /\ Range(back) \subseteq Range(s)
  BY <1>1, SubSeqElements, Zenon
<1> HIDE DEF front, back
<1>4. front \o r \in Seq(X) /\ Range(front \o r) \subseteq Range(front) \cup Range(r)
  BY <1>2, ConcatElements, Zenon
<1>5. /\ front \o r \o back \in Seq(X)
      /\ Range(front \o r \o back) \subseteq Range(front \o r) \cup Range(back)
  BY <1>3, <1>4, ConcatElements, Zenon
<1>6. Range(front \o r \o back) \subseteq Range(s) \cup Range(r)
  BY <1>2, <1>3, <1>4, <1>5, Zenon
<1> QED BY <1>5, <1>6 DEF front, back

(* set_routes keeps a config well formed, and its groups.                  *)
LEMMA SetRoutesFacts ==
    ASSUME NEW config, WellFormed(config), NEW service, NEW routes \in Seq(Route)
    PROVE  WellFormed(SetRoutes(config, service, routes).dc)
<1> DEFINE old == RoutesAt(config, service)
           left == DOMAIN config.routes \ old
           others == Retain(config.routes, left)
           at == IF old = {} THEN Len(others) ELSE Min(old) - 1
           list == SubSeq(others, 1, at) \o routes \o SubSeq(others, at + 1, Len(others))
           new == [config EXCEPT !.routes = list]
           n == Len(config.routes)
<1>1. CASE \/ routes # <<>> /\ ~ValidateRouteTarget(config, service)
           \/ ~ValidRoutes(service, routes)
  BY <1>1 DEF SetRoutes, Err
<1>2. CASE ~(routes # <<>> /\ ~ValidateRouteTarget(config, service)) /\ ValidRoutes(service, routes)
  <2>1. SetRoutes(config, service, routes) = Ok(new)
    BY <1>2 DEF SetRoutes
  <2>2. /\ config \in Config /\ ValidateGroups(config) /\ ValidateRoutes(config)
        /\ config.routes \in Seq(Route)
    BY ConfigParts DEF WellFormed
  <2>3. n \in Nat /\ DOMAIN config.routes = 1 .. n
    BY <2>2
  <2>4. left \in SUBSET DOMAIN config.routes /\ old \in SUBSET Nat /\ old \in SUBSET (1 .. n)
    BY <2>3 DEF RoutesAt
  <2>5. old # {} => Min(old) \in old /\ \A i \in old : Min(old) =< i
    <3> HIDE DEF old
    <3> QED BY <2>4, MinFacts
  <2> HIDE DEF n, old
  <2>6. left = (1 .. n) \ old
    BY <2>3
  <2> HIDE DEF left
  <2>7. /\ others \in Seq(Route) /\ Len(others) = Cardinality(left)
        /\ Cardinality(left) \in Nat
    BY <2>2, <2>4, RetainFacts
  <2>8. \A k \in DOMAIN others : \E i \in DOMAIN config.routes : others[k] = config.routes[i]
    <3>1. \A x : (\E k \in DOMAIN others : x = others[k]) <=> \E i \in left : x = config.routes[i]
      BY <2>2, <2>4, RetainElements, Zenon
    <3> HIDE DEF others
    <3> QED BY <2>4, <3>1
  <2> HIDE DEF others
  <2>9. at \in 0 .. Len(others)
    <3>1. CASE old = {}
      BY <2>7, <3>1
    <3>2. CASE old # {}
      <4> DEFINE m == Min(old)
      <4>1. m \in 1 .. n /\ \A i \in old : m =< i
        BY <2>4, <2>5, <3>2, Zenon
      <4> HIDE DEF m
      <4>2. 1 .. m - 1 \in SUBSET left
        BY <2>3, <2>4, <2>6, <4>1
      <4>3. IsFiniteSet(1 .. n) /\ left \in SUBSET (1 .. n)
        <5>1. left \in SUBSET (1 .. n)
          BY <2>6
        <5> QED BY <2>3, <5>1, FS_Interval
      <4>4. IsFiniteSet(left)
        BY <4>3, FS_Subset, Zenon
      <4>5. Cardinality(1 .. m - 1) =< Cardinality(left)
        BY <4>2, <4>4, FS_Subset, Zenon
      <4>6. Cardinality(1 .. m - 1) = m - 1
        <5>1. m \in Nat /\ 1 \in Int /\ m - 1 \in Int
              /\ (IF 1 > m - 1 THEN 0 ELSE (m - 1) - 1 + 1) = m - 1
          BY <2>3, <4>1
        <5>2. Cardinality(1 .. m - 1) = IF 1 > m - 1 THEN 0 ELSE (m - 1) - 1 + 1
          BY <5>1, FS_Interval
        <5> QED BY <5>1, <5>2
      <4>7. at = m - 1
        BY <3>2 DEF m
      <4> HIDE DEF at
      <4> QED BY <2>3, <2>7, <4>1, <4>5, <4>6, <4>7
    <3> QED BY <3>1, <3>2
  <2> HIDE DEF at
  <2>10. list \in Seq(Route) /\ Range(list) \subseteq Range(others) \cup Range(routes)
    BY <2>7, <2>9, InsertElements
  <2> HIDE DEF list
  <2>11. new \in Config /\ new.routes = list /\ new.groups = config.groups
    BY <2>2, <2>10, Zenon DEF Config
  <2>12. \A k \in DOMAIN list : ValidRoute(list[k].service, list[k])
    <3>1. \A i \in DOMAIN config.routes :
             ValidRoute(config.routes[i].service, config.routes[i])
      BY <2>2, ValidateRoutesMeans
    <3>2. \A i \in DOMAIN routes :
             routes[i].service = service /\ ValidRoute(service, routes[i])
      BY <1>2 DEF ValidRoutes, ValidRoute
    <3>3. \A route \in Range(others) \cup Range(routes) : ValidRoute(route.service, route)
      BY <2>8, <3>1, <3>2 DEF Range
    <3> QED BY <2>10, <3>3, Zenon DEF Range
  <2> HIDE DEF new
  <2>13. ValidateRoutes(new)
    BY <2>11, <2>12, ValidateRoutesMeans
  <2>14. WellFormed(new)
    BY <2>2, <2>11, <2>13, SameGroups DEF WellFormed
  <2> QED BY <2>1, <2>11, <2>14, OkFacts
<1> QED BY <1>1, <1>2

-----------------------------------------------------------------------------
(* What an admin may ask for.                                              *)
AdminOp ==
    [kind : {"add"}, group : Group, service : Service]
      \cup [kind : {"remove"}, group : Group, node : Node, name : Name]
      \cup [kind : {"rename"}, group : Group, node : Node, from : Name, to : Name]
      \cup [kind : {"routes"}, service : Name, routes : RouteLists]

(* A request to add a service, and its answer.                             *)
LEMMA AddHandled ==
    ASSUME NEW config, WellFormed(config), NEW allow \in BOOLEAN, NEW op,
           op.kind = "add", op.group \in Group, op.service \in Service,
           ValidHealthPath(op.service.spec.healthPath),
           NEW r, r = HandleAdminRequest(config, allow, op)
    PROVE  /\ r.ok = allow /\ WellFormed(r.dc)
           /\ ~allow => r.dc = config
           /\ allow => \A e : e \in Entries(r.dc) <=>
                 \/ e = <<op.group, op.service>>
                 \/ /\ e \in Entries(config)
                    /\ ~HasKey(e, op.group, op.service.node, op.service.name)
<1>1. CASE ~allow
  BY <1>1, Zenon DEF HandleAdminRequest, Err
<1>2. CASE allow
  <2>1. r = UpsertService(config, op.group, op.service)
    BY <1>2 DEF HandleAdminRequest
  <2>2. r.ok = TRUE
    BY <2>1 DEF UpsertService, Ok
  <2> QED BY <1>2, <2>1, <2>2, UpsertFacts, Zenon
<1> QED BY <1>1, <1>2

(* A request to remove one.                                                *)
LEMMA RemoveHandled ==
    ASSUME NEW config, WellFormed(config), NEW allow \in BOOLEAN, NEW op,
           op.kind = "remove", NEW r, r = HandleAdminRequest(config, allow, op)
    PROVE  /\ r.ok <=> allow /\ Find(config, op.group, op.node, op.name) # {}
           /\ WellFormed(r.dc)
           /\ ~r.ok => r.dc = config
           /\ r.ok => \A e : e \in Entries(r.dc) <=>
                 e \in Entries(config) /\ ~HasKey(e, op.group, op.node, op.name)
<1> DEFINE found == Find(config, op.group, op.node, op.name)
<1>1. CASE ~allow
  BY <1>1 DEF HandleAdminRequest, Err
<1>2. CASE allow
  <2>1. r = RemoveService(config, op.group, op.node, op.name)
    BY <1>2 DEF HandleAdminRequest
  <2>2. CASE found = {}
    <3>1. r = Err(config)
      BY <2>1, <2>2, RemoveFacts
    <3>2. r.ok = FALSE /\ r.dc = config
      BY <3>1 DEF Err
    <3> HIDE DEF found
    <3> QED BY <2>2, <3>2 DEF found
  <2>3. CASE found # {}
    <3>1. /\ r.ok /\ WellFormed(r.dc)
          /\ \A e : e \in Entries(r.dc) <=>
                e \in Entries(config) /\ ~HasKey(e, op.group, op.node, op.name)
      BY <2>1, <2>3, RemoveFacts
    <3> HIDE DEF found
    <3> QED BY <1>2, <2>3, <3>1, Zenon DEF found
  <2> QED BY <2>2, <2>3
<1> QED BY <1>1, <1>2

(* Whatever an admin asks for, the config stays well formed.               *)
LEMMA HandleKeeps ==
    ASSUME NEW config, WellFormed(config), NEW allow \in BOOLEAN, NEW op \in AdminOp
    PROVE  WellFormed(HandleAdminRequest(config, allow, op).dc)
<1> DEFINE r == HandleAdminRequest(config, allow, op)
<1>1. CASE ~allow
  BY <1>1 DEF HandleAdminRequest, Err
<1>2. CASE allow /\ op \in [kind : {"add"}, group : Group, service : Service]
  <2>1. op.kind = "add" /\ op.group \in Group /\ op.service \in Service
    BY <1>2
  <2>2. CASE ValidHealthPath(op.service.spec.healthPath)
    BY <2>1, <2>2, AddHandled
  <2>3. CASE ~ValidHealthPath(op.service.spec.healthPath)
    BY <1>2, <2>1, <2>3 DEF HandleAdminRequest, Err
  <2> QED BY <2>2, <2>3
<1>3. CASE allow /\ op \in [kind : {"remove"}, group : Group, node : Node, name : Name]
  <2>1. op.kind = "remove"
    BY <1>3
  <2> QED BY <2>1, RemoveHandled
<1>4. CASE allow /\ op \in [kind : {"rename"}, group : Group, node : Node, from : Name, to : Name]
  <2>1. op.kind = "rename" /\ op.to \in Name
    BY <1>4
  <2>2. r = RenameService(config, op.group, op.node, op.from, op.to)
    BY <1>4, <2>1 DEF HandleAdminRequest
  <2> HIDE DEF r
  <2>3. WellFormed(r.dc)
    BY <2>1, <2>2, RenameFacts
  <2> QED BY <2>3 DEF r
<1>5. CASE allow /\ op \in [kind : {"routes"}, service : Name, routes : RouteLists]
  <2>1. op.kind = "routes" /\ op.routes \in Seq(Route)
    BY <1>5, ConfigsAssumption
  <2>2. r = SetRoutes(config, op.service, op.routes)
    BY <1>5, <2>1 DEF HandleAdminRequest
  <2> HIDE DEF r
  <2>3. WellFormed(r.dc)
    BY <2>1, <2>2, SetRoutesFacts
  <2> QED BY <2>3 DEF r
<1> QED BY <1>1, <1>2, <1>3, <1>4, <1>5 DEF AdminOp

-----------------------------------------------------------------------------
(* What the move puts into the target.                                     *)
Copy == [fetched EXCEPT !.node = move.to.node]

(* A request of the move that went astray.                                 *)
AtSource(o) == o.cluster = move.from.cluster /\ o.op = RemoveOp

AtTarget(o) ==
    o.cluster = move.to.cluster /\ (o.op = UndoOp \/ (fetched # Unset /\ o.op = AddOp))

(* The configs are well formed, the move is between two places that        *)
(* differ, what it fetched is a valid service of the name and node it is   *)
(* from, and the requests that went astray are the move's.                 *)
StateInv ==
    /\ dc \in [Cluster -> Config] /\ before \in [Cluster -> Config]
    /\ \A c \in Cluster : WellFormed(dc[c]) /\ WellFormed(before[c])
    /\ move \in [from : [cluster : Cluster, group : Group, node : Node, name : Name],
                 to : [cluster : Cluster, group : Group, node : Node]]
    /\ <<move.to.cluster, move.to.group, move.to.node>>
         # <<move.from.cluster, move.from.group, move.from.node>>
    /\ fetched # Unset =>
          /\ fetched \in Service
          /\ fetched.name = move.from.name /\ fetched.node = move.from.node
          /\ ValidHealthPath(fetched.spec.healthPath)
    /\ pc = "fetch" => fetched = Unset /\ orphans = {} /\ broken = {}
    /\ pc \in {"add", "remove", "rollback", "moved"} => fetched # Unset
    /\ \A o \in orphans : AtSource(o) \/ AtTarget(o)

(* Until the removal is confirmed the source has the service, and the      *)
(* target has it from the confirmed add on.  A request that went astray    *)
(* ends the move, and is for the target.                                   *)
KeptInv ==
    ~disturbed /\ fetched # Unset /\ "remove" \notin broken =>
        /\ pc # "moved" => InSource # {}
        /\ pc \in {"remove", "moved"} => InTarget # {}
        /\ orphans # {} => pc = "failed"
        /\ \A o \in orphans : AtTarget(o)

(* The entries of cluster c after the add, ...                             *)
Replaced == {<<move.to.group, x>> : x \in TargetBefore}

AfterAdd(c) ==
    IF c = move.to.cluster
    THEN (Entries(before[c]) \ Replaced) \cup {<<move.to.group, Copy>>}
    ELSE Entries(before[c])

(* ... and after the removal.                                              *)
AfterMove(c) ==
    IF c = move.from.cluster THEN AfterAdd(c) \ {<<move.from.group, fetched>>} ELSE AfterAdd(c)

(* How far the clusters have come at each step of the move.  A rollback    *)
(* will be accepted, because the add was.                                  *)
WholeInv ==
    ~disturbed /\ broken = {} =>
        /\ orphans = {}
        /\ pc \in {"add", "remove", "rollback", "moved"} =>
              fetched \in At(before, move.from.cluster, move.from.group, move.from.node)
        /\ pc = "add" => dc = before
        /\ pc \in {"remove", "rollback"} =>
              move.to.cluster \in allowed /\ \A c \in Cluster : Entries(dc[c]) = AfterAdd(c)
        /\ pc = "moved" => \A c \in Cluster : Entries(dc[c]) = AfterMove(c)
        /\ pc = "failed" /\ TargetBefore = {} =>
              \A c \in Cluster : Entries(dc[c]) = Entries(before[c])

MoveInv == StateInv /\ KeptInv /\ WholeInv

-----------------------------------------------------------------------------
(* What is found: the services of the entries with that key, ...           *)
LEMMA FoundIs ==
    ASSUME NEW config, WellFormed(config), NEW group, NEW node, NEW name
    PROVE  \A s : s \in Find(config, group, node, name) <=>
              <<group, s>> \in Entries(config) /\ s.name = name /\ s.node = node
<1>1. config \in Config /\ ValidateGroups(config)
  BY DEF WellFormed
<1> QED BY <1>1, FindFacts

(* ... and there is one at most, which is valid.                           *)
LEMMA FoundOne ==
    ASSUME NEW config, WellFormed(config), NEW group, NEW node, NEW name,
           NEW s \in Find(config, group, node, name)
    PROVE  /\ s \in Service /\ ValidHealthPath(s.spec.healthPath)
           /\ Find(config, group, node, name) = {s}
<1>1. config \in Config /\ ValidateGroups(config)
  BY DEF WellFormed
<1> QED BY <1>1, FindFacts

(* An entry with the key is found.                                         *)
LEMMA FoundMember ==
    ASSUME NEW config, WellFormed(config), NEW group, NEW node, NEW name,
           NEW e \in Entries(config), HasKey(e, group, node, name)
    PROVE  e = <<group, e[2]>> /\ e[2] \in Find(config, group, node, name)
<1> DEFINE found == Find(config, group, node, name)
<1>1. \A s : s \in found <=> <<group, s>> \in Entries(config) /\ s.name = name /\ s.node = node
  BY FoundIs
<1> HIDE DEF found
<1>2. e = <<e[1], e[2]>>
  BY EntriesFacts
<1>3. e = <<group, e[2]>> /\ e[2] \in found
  BY <1>1, <1>2 DEF HasKey
<1> QED BY <1>3 DEF found

LEMMA FoundEntries ==
    ASSUME NEW config, WellFormed(config), NEW group, NEW node, NEW name
    PROVE  {<<group, x>> : x \in Find(config, group, node, name)} =
              {e \in Entries(config) : HasKey(e, group, node, name)}
<1> DEFINE found == Find(config, group, node, name)
<1>1. \A s : s \in found <=> <<group, s>> \in Entries(config) /\ s.name = name /\ s.node = node
  BY FoundIs
<1> HIDE DEF found
<1>2. \A e \in Entries(config) : e = <<e[1], e[2]>>
  BY EntriesFacts
<1>3. \A e \in Entries(config) :
         HasKey(e, group, node, name) => e = <<group, e[2]>> /\ e[2] \in found
  BY <1>1, <1>2 DEF HasKey
<1>4. \A s \in found : <<group, s>> \in Entries(config) /\ HasKey(<<group, s>>, group, node, name)
  BY <1>1 DEF HasKey
<1>5. {<<group, x>> : x \in found} = {e \in Entries(config) : HasKey(e, group, node, name)}
  BY <1>3, <1>4
<1> QED BY <1>5 DEF found

(* Something is found when an entry has the key.                           *)
LEMMA FoundMeans ==
    ASSUME NEW config, WellFormed(config), NEW group, NEW node, NEW name
    PROVE  Find(config, group, node, name) # {} <=>
              \E e \in Entries(config) : HasKey(e, group, node, name)
<1> DEFINE found == Find(config, group, node, name)
<1>1. {<<group, x>> : x \in found} = {e \in Entries(config) : HasKey(e, group, node, name)}
  BY FoundEntries
<1> HIDE DEF found
<1>2. found # {} <=> \E e \in Entries(config) : HasKey(e, group, node, name)
  BY <1>1, Zenon
<1> QED BY <1>2 DEF found

(* The arguments of the move and its requests.                             *)
LEMMA MoveFacts ==
    ASSUME StateInv
    PROVE  /\ move.from.cluster \in Cluster /\ move.to.cluster \in Cluster
           /\ move.from.group \in Group /\ move.to.group \in Group
           /\ move.from.node \in Node /\ move.to.node \in Node /\ move.from.name \in Name
           /\ fetched # Unset =>
                 /\ Copy \in Service /\ Copy.node = move.to.node
                 /\ Copy.name = move.from.name /\ Copy.spec = fetched.spec
                 /\ AddOp.kind = "add" /\ AddOp.group = move.to.group /\ AddOp.service = Copy
           /\ RemoveOp.kind = "remove" /\ RemoveOp.group = move.from.group
           /\ RemoveOp.node = move.from.node /\ RemoveOp.name = move.from.name
           /\ UndoOp.kind = "remove" /\ UndoOp.group = move.to.group
           /\ UndoOp.node = move.to.node /\ UndoOp.name = move.from.name
<1>1. /\ move.from \in [cluster : Cluster, group : Group, node : Node, name : Name]
      /\ move.to \in [cluster : Cluster, group : Group, node : Node]
  BY DEF StateInv
<1>2. ASSUME fetched # Unset
      PROVE  /\ Copy \in Service /\ Copy.node = move.to.node
             /\ Copy.name = move.from.name /\ Copy.spec = fetched.spec
  <2>1. fetched \in Service /\ fetched.name = move.from.name
    BY <1>2 DEF StateInv
  <2> QED BY <1>1, <2>1 DEF Copy, Service
<1> QED BY <1>1, <1>2 DEF AddOp, RemoveOp, UndoOp, Copy

(* The key of the source and that of the target are not the same entry.    *)
LEMMA KeysDiffer ==
    ASSUME StateInv, NEW e, move.from.cluster = move.to.cluster,
           HasKey(e, move.from.group, move.from.node, move.from.name)
    PROVE  ~HasKey(e, move.to.group, move.to.node, move.from.name)
  BY DEF StateInv, HasKey

(* A daemon handles the add, ...                                           *)
LEMMA AddEffect ==
    ASSUME StateInv, fetched # Unset,
           dc' = [dc EXCEPT ![move.to.cluster] = Handle(move.to.cluster, AddOp).dc]
    PROVE  /\ dc' \in [Cluster -> Config] /\ \A c \in Cluster : WellFormed(dc'[c])
           /\ \A c \in Cluster : c # move.to.cluster => dc'[c] = dc[c]
           /\ Handle(move.to.cluster, AddOp).ok <=> move.to.cluster \in allowed
           /\ move.to.cluster \notin allowed => dc' = dc
           /\ move.to.cluster \in allowed =>
                 \A e : e \in Entries(dc'[move.to.cluster]) <=>
                    \/ e = <<move.to.group, Copy>>
                    \/ /\ e \in Entries(dc[move.to.cluster])
                       /\ ~HasKey(e, move.to.group, move.to.node, move.from.name)
<1> DEFINE t == move.to.cluster
           r == Handle(t, AddOp)
           allow == t \in allowed
<1>1. dc \in [Cluster -> Config] /\ t \in Cluster /\ \A c \in Cluster : WellFormed(dc[c])
  BY MoveFacts DEF StateInv
<1>2. /\ AddOp.kind = "add" /\ AddOp.group = move.to.group /\ AddOp.service = Copy
      /\ AddOp.group \in Group /\ AddOp.service \in Service
      /\ Copy.node = move.to.node /\ Copy.name = move.from.name
      /\ ValidHealthPath(AddOp.service.spec.healthPath)
  BY MoveFacts DEF StateInv
<1>3. r = HandleAdminRequest(dc[t], allow, AddOp) /\ allow \in BOOLEAN
  BY DEF Handle
<1> HIDE DEF r, allow
<1>4. /\ r.ok = allow /\ WellFormed(r.dc)
      /\ ~allow => r.dc = dc[t]
      /\ allow => \A e : e \in Entries(r.dc) <=>
            \/ e = <<move.to.group, Copy>>
            \/ e \in Entries(dc[t]) /\ ~HasKey(e, move.to.group, move.to.node, move.from.name)
  <2> DEFINE config == dc[t]
             op == AddOp
  <2>1. WellFormed(config) /\ r = HandleAdminRequest(config, allow, op)
    BY <1>1, <1>3
  <2>2. /\ op.kind = "add" /\ op.group \in Group /\ op.service \in Service
        /\ ValidHealthPath(op.service.spec.healthPath)
    BY <1>2
  <2> HIDE DEF config, op
  <2>3. /\ r.ok = allow /\ WellFormed(r.dc)
        /\ ~allow => r.dc = config
        /\ allow => \A e : e \in Entries(r.dc) <=>
              \/ e = <<op.group, op.service>>
              \/ e \in Entries(config) /\ ~HasKey(e, op.group, op.service.node, op.service.name)
    BY <1>3, <2>1, <2>2, AddHandled, SMTT(30)
  <2>4. /\ op.group = move.to.group /\ op.service = Copy
        /\ Copy.node = move.to.node /\ Copy.name = move.from.name
    BY <1>2 DEF op
  <2> QED BY <2>3, <2>4 DEF config
<1>5. dc' = [dc EXCEPT ![t] = r.dc] /\ r.dc \in Config
  BY <1>4 DEF r, WellFormed
<1>6. dc' \in [Cluster -> Config] /\ dc'[t] = r.dc /\ \A c \in Cluster : c # t => dc'[c] = dc[c]
  BY <1>1, <1>5
<1>7. \A c \in Cluster : WellFormed(dc'[c])
  BY <1>1, <1>4, <1>6
<1>8. ~allow => dc' = dc
  BY <1>1, <1>4, <1>5
<1> QED BY <1>2, <1>4, <1>6, <1>7, <1>8, Zenon DEF r, allow

(* ... or the removal of an entry.                                         *)
LEMMA RemoveEffect ==
    ASSUME StateInv, NEW c \in Cluster, NEW op, op.kind = "remove",
           dc' = [dc EXCEPT ![c] = Handle(c, op).dc]
    PROVE  /\ dc' \in [Cluster -> Config] /\ \A d \in Cluster : WellFormed(dc'[d])
           /\ \A d \in Cluster : d # c => dc'[d] = dc[d]
           /\ Handle(c, op).ok <=>
                 c \in allowed /\ \E e \in Entries(dc[c]) : HasKey(e, op.group, op.node, op.name)
           /\ ~Handle(c, op).ok => dc' = dc
           /\ Handle(c, op).ok =>
                 \A e : e \in Entries(dc'[c]) <=>
                    e \in Entries(dc[c]) /\ ~HasKey(e, op.group, op.node, op.name)
<1> DEFINE r == Handle(c, op)
           allow == c \in allowed
<1>1. dc \in [Cluster -> Config] /\ \A d \in Cluster : WellFormed(dc[d])
  BY DEF StateInv
<1>2. r = HandleAdminRequest(dc[c], allow, op) /\ allow \in BOOLEAN
  BY DEF Handle
<1> HIDE DEF r, allow
<1>3. /\ r.ok <=> allow /\ Find(dc[c], op.group, op.node, op.name) # {}
      /\ WellFormed(r.dc)
      /\ ~r.ok => r.dc = dc[c]
      /\ r.ok => \A e : e \in Entries(r.dc) <=>
            e \in Entries(dc[c]) /\ ~HasKey(e, op.group, op.node, op.name)
  <2> DEFINE config == dc[c]
  <2>1. WellFormed(config) /\ r = HandleAdminRequest(config, allow, op)
    BY <1>1, <1>2
  <2> HIDE DEF config
  <2>2. /\ r.ok <=> allow /\ Find(config, op.group, op.node, op.name) # {}
        /\ WellFormed(r.dc)
        /\ ~r.ok => r.dc = config
        /\ r.ok => \A e : e \in Entries(r.dc) <=>
              e \in Entries(config) /\ ~HasKey(e, op.group, op.node, op.name)
    BY <1>2, <2>1, RemoveHandled, SMTT(30)
  <2> QED BY <2>2 DEF config
<1>4. Find(dc[c], op.group, op.node, op.name) # {} <=>
         \E e \in Entries(dc[c]) : HasKey(e, op.group, op.node, op.name)
  BY <1>1, FoundMeans
<1>5. dc' = [dc EXCEPT ![c] = r.dc] /\ r.dc \in Config
  BY <1>3 DEF r, WellFormed
<1>6. dc' \in [Cluster -> Config] /\ dc'[c] = r.dc /\ \A d \in Cluster : d # c => dc'[d] = dc[d]
  BY <1>1, <1>5
<1>7. \A d \in Cluster : WellFormed(dc'[d])
  BY <1>1, <1>3, <1>6
<1>8. ~r.ok => dc' = dc
  BY <1>1, <1>3, <1>5
<1> QED BY <1>3, <1>4, <1>6, <1>7, <1>8 DEF r, allow

(* A request of the move changes entries of one key only.                  *)
LEMMA AtTargetEffect ==
    ASSUME StateInv, NEW op, op = UndoOp \/ (fetched # Unset /\ op = AddOp),
           dc' = [dc EXCEPT ![move.to.cluster] = Handle(move.to.cluster, op).dc]
    PROVE  /\ dc' \in [Cluster -> Config] /\ \A c \in Cluster : WellFormed(dc'[c])
           /\ \A c \in Cluster : c # move.to.cluster => dc'[c] = dc[c]
           /\ \A e \in Entries(dc[move.to.cluster]) :
                 ~HasKey(e, move.to.group, move.to.node, move.from.name) =>
                    e \in Entries(dc'[move.to.cluster])
<1>1. CASE op = UndoOp
  <2>1. /\ move.to.cluster \in Cluster /\ op.kind = "remove" /\ op.group = move.to.group
        /\ op.node = move.to.node /\ op.name = move.from.name
    BY <1>1, MoveFacts
  <2> QED BY <2>1, RemoveEffect, Zenon
<1>2. CASE fetched # Unset /\ op = AddOp
  BY <1>2, AddEffect
<1> QED BY <1>1, <1>2

LEMMA AtSourceEffect ==
    ASSUME StateInv,
           dc' = [dc EXCEPT ![move.from.cluster] = Handle(move.from.cluster, RemoveOp).dc]
    PROVE  /\ dc' \in [Cluster -> Config] /\ \A c \in Cluster : WellFormed(dc'[c])
           /\ \A c \in Cluster : c # move.from.cluster => dc'[c] = dc[c]
           /\ \A e \in Entries(dc[move.from.cluster]) :
                 ~HasKey(e, move.from.group, move.from.node, move.from.name) =>
                    e \in Entries(dc'[move.from.cluster])
           /\ ~Handle(move.from.cluster, RemoveOp).ok => dc' = dc
           /\ Handle(move.from.cluster, RemoveOp).ok =>
                 \A e : e \in Entries(dc'[move.from.cluster]) <=>
                    /\ e \in Entries(dc[move.from.cluster])
                    /\ ~HasKey(e, move.from.group, move.from.node, move.from.name)
<1>1. /\ move.from.cluster \in Cluster /\ RemoveOp.kind = "remove"
      /\ RemoveOp.group = move.from.group /\ RemoveOp.node = move.from.node
      /\ RemoveOp.name = move.from.name
  BY MoveFacts
<1> QED BY <1>1, RemoveEffect, Zenon

(* So a request for the target leaves the service in the source, ...       *)
LEMMA SourceSurvives ==
    ASSUME StateInv, UNCHANGED move, InSource # {},
           NEW op, op = UndoOp \/ (fetched # Unset /\ op = AddOp),
           dc' = [dc EXCEPT ![move.to.cluster] = Handle(move.to.cluster, op).dc]
    PROVE  InSource' # {}
<1> DEFINE s == move.from.cluster
           key(e) == HasKey(e, move.from.group, move.from.node, move.from.name)
<1>1. s \in Cluster /\ move.to.cluster \in Cluster /\ WellFormed(dc[s])
  BY MoveFacts DEF StateInv
<1>2. /\ \A c \in Cluster : WellFormed(dc'[c])
      /\ \A c \in Cluster : c # move.to.cluster => dc'[c] = dc[c]
      /\ \A e \in Entries(dc[move.to.cluster]) :
            ~HasKey(e, move.to.group, move.to.node, move.from.name) =>
               e \in Entries(dc'[move.to.cluster])
  BY AtTargetEffect, Zenon
<1>3. PICK e \in Entries(dc[s]) : key(e)
  BY <1>1, FoundMeans DEF InSource, At
<1>4. e \in Entries(dc'[s])
  <2>1. CASE s # move.to.cluster
    BY <1>1, <1>2, <2>1
  <2>2. CASE s = move.to.cluster
    BY <1>2, <1>3, <2>2, KeysDiffer
  <2> QED BY <2>1, <2>2
<1>5. Find(dc'[s], move.from.group, move.from.node, move.from.name) # {}
  <2>1. /\ WellFormed(dc'[s]) /\ e \in Entries(dc'[s])
        /\ HasKey(e, move.from.group, move.from.node, move.from.name)
    BY <1>1, <1>2, <1>3, <1>4
  <2> QED BY <2>1, FoundMeans, Zenon
<1> QED BY <1>5 DEF InSource, At

(* ... and the removal leaves the one in the target.                       *)
LEMMA TargetSurvives ==
    ASSUME StateInv, UNCHANGED move, InTarget # {},
           dc' = [dc EXCEPT ![move.from.cluster] = Handle(move.from.cluster, RemoveOp).dc]
    PROVE  InTarget' # {}
<1> DEFINE t == move.to.cluster
           key(e) == HasKey(e, move.to.group, move.to.node, move.from.name)
<1>1. t \in Cluster /\ move.from.cluster \in Cluster /\ WellFormed(dc[t])
  BY MoveFacts, Zenon DEF StateInv
<1>2. /\ \A c \in Cluster : WellFormed(dc'[c])
      /\ \A c \in Cluster : c # move.from.cluster => dc'[c] = dc[c]
      /\ \A e \in Entries(dc[move.from.cluster]) :
            ~HasKey(e, move.from.group, move.from.node, move.from.name) =>
               e \in Entries(dc'[move.from.cluster])
  BY AtSourceEffect
<1>3. PICK e \in Entries(dc[t]) : key(e)
  BY <1>1, FoundMeans DEF InTarget, At
<1>4. e \in Entries(dc'[t])
  <2>1. CASE t # move.from.cluster
    BY <1>1, <1>2, <2>1
  <2>2. CASE t = move.from.cluster
    BY <1>2, <1>3, <2>2, KeysDiffer
  <2> QED BY <2>1, <2>2
<1>5. Find(dc'[t], move.to.group, move.to.node, move.from.name) # {}
  <2>1. /\ WellFormed(dc'[t]) /\ e \in Entries(dc'[t])
        /\ HasKey(e, move.to.group, move.to.node, move.from.name)
    BY <1>1, <1>2, <1>3, <1>4
  <2> QED BY <2>1, FoundMeans, Zenon
<1> QED BY <1>5 DEF InTarget, At

-----------------------------------------------------------------------------
(* The state after a step that reads and keeps what the move fetched.      *)
LEMMA StateStep ==
    ASSUME StateInv, UNCHANGED <<before, move, fetched>>,
           dc' \in [Cluster -> Config], \A c \in Cluster : WellFormed(dc'[c]),
           pc' # "fetch" \/ (pc = "fetch" /\ UNCHANGED <<orphans, broken>>),
           pc' \in {"add", "remove", "rollback", "moved"} => fetched # Unset,
           \A o \in orphans' : o \in orphans \/ AtSource(o) \/ AtTarget(o)
    PROVE  StateInv'
<1>1. \A o : (AtSource(o)' <=> AtSource(o)) /\ (AtTarget(o)' <=> AtTarget(o))
  BY DEF AtSource, AtTarget, RemoveOp, UndoOp, AddOp
<1>2. \A o \in orphans' : AtSource(o)' \/ AtTarget(o)'
  BY <1>1 DEF StateInv
<1>3. pc' = "fetch" => fetched' = Unset /\ orphans' = {} /\ broken' = {}
  BY DEF StateInv
<1> QED BY <1>2, <1>3 DEF StateInv

LEMMA MoveStarts == Init => MoveInv
<1> SUFFICES ASSUME Init
             PROVE  MoveInv
  OBVIOUS
<1>1. dc \in [Cluster -> Config] /\ \A c \in Cluster : WellFormed(dc[c])
  <2>1. dc \in [Cluster -> Configs]
    BY DEF Init
  <2>2. \A config \in Configs : config \in Config /\ WellFormed(config)
    BY ConfigsAssumption DEF WellFormed
  <2> QED BY <2>1, <2>2
<1>2. /\ move \in [from : Sources, to : Targets]
      /\ <<move.to.cluster, move.to.group, move.to.node>>
           # <<move.from.cluster, move.from.group, move.from.node>>
  BY DEF Init, Moves
<1>3. move \in [from : [cluster : Cluster, group : Group, node : Node, name : Name],
                to : [cluster : Cluster, group : Group, node : Node]]
  BY <1>2, ConfigsAssumption
<1>4. StateInv
  <2>1. before = dc /\ fetched = Unset /\ pc = "fetch" /\ orphans = {} /\ broken = {}
    BY DEF Init
  <2> QED BY <1>1, <1>2, <1>3, <2>1 DEF StateInv
<1>5. KeptInv /\ WholeInv
  BY DEF Init, KeptInv, WholeInv
<1> QED BY <1>4, <1>5 DEF MoveInv

LEMMA FetchKeeps == MoveInv /\ FetchSource => MoveInv'
<1> SUFFICES ASSUME MoveInv, FetchSource
             PROVE  MoveInv'
  OBVIOUS
<1> DEFINE found == Find(dc[move.from.cluster], move.from.group, move.from.node, move.from.name)
<1>1. /\ pc = "fetch" /\ before' = dc /\ disturbed' = FALSE
      /\ UNCHANGED <<dc, allowed, move, orphans, broken, ops>>
      /\ \/ found = {} /\ pc' = "failed" /\ UNCHANGED fetched
         \/ found # {} /\ pc' = "add" /\ fetched' \in found
  BY DEF FetchSource
<1>2. /\ dc \in [Cluster -> Config] /\ \A c \in Cluster : WellFormed(dc[c])
      /\ fetched = Unset /\ orphans = {} /\ broken = {} /\ move.from.cluster \in Cluster
  BY <1>1, MoveFacts, Zenon DEF MoveInv, StateInv
<1>3. \A s \in found : /\ s \in Service /\ s # Unset
                       /\ s.name = move.from.name /\ s.node = move.from.node
                       /\ ValidHealthPath(s.spec.healthPath)
  <2>1. WellFormed(dc[move.from.cluster])
    BY <1>2
  <2>2. \A s : s \in found <=> /\ <<move.from.group, s>> \in Entries(dc[move.from.cluster])
                               /\ s.name = move.from.name /\ s.node = move.from.node
    BY <2>1, FoundIs
  <2>3. \A s \in found : s \in Service /\ ValidHealthPath(s.spec.healthPath)
    BY <2>1, FoundOne
  <2> HIDE DEF found
  <2>4. Unset \notin Service
    BY ConfigsAssumption
  <2> QED BY <2>2, <2>3, <2>4, Zenon
<1>4. /\ InSource' = found
      /\ At(before, move.from.cluster, move.from.group, move.from.node)' = found
  BY <1>1 DEF InSource, At
<1> HIDE DEF found
<1>5. fetched' # Unset =>
         /\ fetched' \in Service /\ fetched'.name = move.from.name
         /\ fetched'.node = move.from.node /\ ValidHealthPath(fetched'.spec.healthPath)
  BY <1>1, <1>2, <1>3
<1>6. StateInv'
  <2>1. pc' # "fetch" /\ (pc' = "add" => fetched' # Unset)
        /\ pc' \notin {"remove", "rollback", "moved"}
    BY <1>1, <1>3
  <2> QED BY <1>1, <1>2, <1>5, <2>1 DEF MoveInv, StateInv
<1>7. KeptInv'
  BY <1>1, <1>2, <1>4 DEF KeptInv
<1>8. WholeInv'
  BY <1>1, <1>2, <1>4 DEF WholeInv
<1> QED BY <1>6, <1>7, <1>8 DEF MoveInv

LEMMA DieKeeps == MoveInv /\ Die => MoveInv'
<1> SUFFICES ASSUME MoveInv, Die
             PROVE  MoveInv'
  OBVIOUS
<1>1. /\ pc \in {"fetch", "add", "remove", "rollback"} /\ pc' = "died"
      /\ UNCHANGED <<dc, allowed, move, fetched, orphans, before, broken, disturbed, ops>>
  BY DEF Die
<1>2. InSource' = InSource
  BY <1>1 DEF InSource, At
<1>3. \A o : AtTarget(o)' <=> AtTarget(o)
  BY <1>1 DEF AtTarget, UndoOp, AddOp
<1>4. StateInv'
  <2>1. dc' \in [Cluster -> Config] /\ \A c \in Cluster : WellFormed(dc'[c])
    BY <1>1 DEF MoveInv, StateInv
  <2> QED BY <1>1, <2>1, StateStep DEF MoveInv
<1>5. KeptInv'
  BY <1>1, <1>2, <1>3 DEF MoveInv, KeptInv
<1>6. WholeInv'
  BY <1>1 DEF MoveInv, WholeInv
<1> QED BY <1>4, <1>5, <1>6 DEF MoveInv

(* The command of another admin disturbs the move, and keeps the configs   *)
(* well formed.                                                            *)
LEMMA OtherAdminKeeps == \A c \in Cluster : MoveInv /\ OtherAdmin(c) => MoveInv'
<1> SUFFICES ASSUME NEW c \in Cluster, MoveInv, OtherAdmin(c)
             PROVE  MoveInv'
  OBVIOUS
<1>1. PICK op \in AdminOp : RunAdminRpc(c, op)
  <2>1. CASE AddService(c)
    <3>1. PICK group \in Group, name \in Name, node \in Node, spec \in Specs :
             RunAdminRpc(c, [kind |-> "add", group |-> group,
                             service |-> [name |-> name, node |-> node, spec |-> spec]])
      BY <2>1 DEF AddService
    <3> QED BY <3>1 DEF AdminOp, Service
  <2>2. CASE RenameAService(c)
    <3>1. PICK group \in Group, node \in Node, from \in Name, to \in Name :
             RunAdminRpc(c, [kind |-> "rename", group |-> group, node |-> node,
                             from |-> from, to |-> to])
      BY <2>2 DEF RenameAService
    <3> QED BY <3>1 DEF AdminOp
  <2>3. CASE RemoveAService(c)
    <3>1. PICK group \in Group, node \in Node, name \in Name :
             RunAdminRpc(c, [kind |-> "remove", group |-> group, node |-> node, name |-> name])
      BY <2>3 DEF RemoveAService
    <3> QED BY <3>1 DEF AdminOp
  <2>4. CASE SetOrClearRoutes(c)
    <3>1. PICK service \in Name, list \in RouteLists :
             RunAdminRpc(c, [kind |-> "routes", service |-> service, routes |-> list])
      BY <2>4 DEF SetOrClearRoutes
    <3> QED BY <3>1 DEF AdminOp
  <2> QED BY <2>1, <2>2, <2>3, <2>4 DEF OtherAdmin
<1> DEFINE allow == c \in allowed
           r == HandleAdminRequest(dc[c], allow, op)
<1>2. /\ dc' = [dc EXCEPT ![c] = r.dc] /\ disturbed' = TRUE
      /\ UNCHANGED <<allowed, move, pc, fetched, orphans, before, broken>>
  BY <1>1 DEF RunAdminRpc, Handle
<1>3. dc \in [Cluster -> Config] /\ \A d \in Cluster : WellFormed(dc[d])
  BY DEF MoveInv, StateInv
<1>4. allow \in BOOLEAN
  OBVIOUS
<1> HIDE DEF allow
<1>5. WellFormed(r.dc)
  BY <1>3, <1>4, HandleKeeps
<1> HIDE DEF r
<1>6. dc' \in [Cluster -> Config] /\ \A d \in Cluster : WellFormed(dc'[d])
  BY <1>2, <1>3, <1>5 DEF WellFormed
<1>7. StateInv'
  BY <1>2, <1>6, StateStep, Zenon DEF MoveInv, StateInv
<1>8. KeptInv' /\ WholeInv'
  BY <1>2 DEF KeptInv, WholeInv
<1> QED BY <1>7, <1>8 DEF MoveInv

-----------------------------------------------------------------------------
(* The move's view of the past does not change after the fetch.            *)
LEMMA SameHistory ==
    ASSUME UNCHANGED <<before, move, fetched>>
    PROVE  /\ TargetBefore' = TargetBefore
           /\ At(before, move.from.cluster, move.from.group, move.from.node)'
                = At(before, move.from.cluster, move.from.group, move.from.node)
           /\ \A c : AfterAdd(c)' = AfterAdd(c) /\ AfterMove(c)' = AfterMove(c)
           /\ \A o : AtTarget(o)' <=> AtTarget(o)
<1>1. TargetBefore' = TargetBefore /\ Copy' = Copy
  BY DEF TargetBefore, At, Copy
<1>2. Replaced' = Replaced
  BY <1>1 DEF Replaced
<1>3. \A c : AfterAdd(c)' = AfterAdd(c)
  BY <1>1, <1>2 DEF AfterAdd
<1>4. \A c : AfterMove(c)' = AfterMove(c)
  BY <1>3, Zenon DEF AfterMove
<1>5. \A o : AtTarget(o)' <=> AtTarget(o)
  BY DEF AtTarget, UndoOp, AddOp
<1>6. At(before, move.from.cluster, move.from.group, move.from.node)'
         = At(before, move.from.cluster, move.from.group, move.from.node)
  BY DEF At
<1> QED BY <1>1, <1>3, <1>4, <1>5, <1>6

(* What the target holds after the add, by key.                            *)
LEMMA AfterAddMeans ==
    ASSUME StateInv, NEW e
    PROVE  e \in AfterAdd(move.to.cluster) <=>
              \/ e = <<move.to.group, Copy>>
              \/ /\ e \in Entries(before[move.to.cluster])
                 /\ ~HasKey(e, move.to.group, move.to.node, move.from.name)
<1>1. WellFormed(before[move.to.cluster])
  BY MoveFacts, Zenon DEF StateInv
<1>2. Replaced = {x \in Entries(before[move.to.cluster]) :
                     HasKey(x, move.to.group, move.to.node, move.from.name)}
  BY <1>1, FoundEntries DEF Replaced, TargetBefore, At
<1> QED BY <1>2 DEF AfterAdd

(* The copy has the key of the target, and what was fetched the key of the *)
(* source.                                                                 *)
LEMMA MoveKeys ==
    ASSUME StateInv, fetched # Unset
    PROVE  /\ HasKey(<<move.to.group, Copy>>, move.to.group, move.to.node, move.from.name)
           /\ HasKey(<<move.from.group, fetched>>, move.from.group, move.from.node, move.from.name)
  BY MoveFacts, Zenon DEF HasKey, StateInv

(* After the add the source still holds what was fetched under its key,    *)
(* and only that.                                                          *)
LEMMA SourceEntry ==
    ASSUME StateInv, fetched # Unset,
           fetched \in At(before, move.from.cluster, move.from.group, move.from.node),
           NEW e \in AfterAdd(move.from.cluster),
           HasKey(e, move.from.group, move.from.node, move.from.name)
    PROVE  e = <<move.from.group, fetched>>
<1> DEFINE s == move.from.cluster
           found == Find(before[s], move.from.group, move.from.node, move.from.name)
<1>1. e \in Entries(before[s])
  <2>1. CASE s = move.to.cluster
    <3>1. ~HasKey(e, move.to.group, move.to.node, move.from.name)
      BY <2>1, KeysDiffer
    <3>2. e # <<move.to.group, Copy>>
      BY <3>1, MoveKeys
    <3> QED BY <2>1, <3>2, AfterAddMeans
  <2>2. CASE s # move.to.cluster
    BY <2>2 DEF AfterAdd
  <2> QED BY <2>1, <2>2
<1>2. WellFormed(before[s])
  BY MoveFacts DEF StateInv
<1>3. fetched \in found
  BY DEF At
<1>4. found = {fetched}
  BY <1>2, <1>3, FoundOne, SMTT(30)
<1>5. e = <<move.from.group, e[2]>> /\ e[2] \in found
  BY <1>1, <1>2, FoundMember
<1> HIDE DEF found
<1> QED BY <1>4, <1>5

LEMMA AddKeeps == MoveInv /\ AddToTarget => MoveInv'
<1> SUFFICES ASSUME MoveInv, AddToTarget
             PROVE  MoveInv'
  OBVIOUS
<1> DEFINE t == move.to.cluster
<1>1. /\ pc = "add" /\ UNCHANGED <<allowed, move, fetched, before, disturbed, ops>>
      /\ Answered(t, AddOp, "remove", "failed") \/ Broken(t, AddOp, "failed")
  BY DEF AddToTarget
<1>2. StateInv /\ KeptInv /\ WholeInv /\ fetched # Unset /\ t \in Cluster
  BY <1>1, MoveFacts, Zenon DEF MoveInv, StateInv
<1>3. /\ TargetBefore' = TargetBefore
      /\ At(before, move.from.cluster, move.from.group, move.from.node)'
           = At(before, move.from.cluster, move.from.group, move.from.node)
      /\ \A c : AfterAdd(c)' = AfterAdd(c) /\ AfterMove(c)' = AfterMove(c)
      /\ \A o : AtTarget(o)' <=> AtTarget(o)
  BY <1>1, SameHistory
<1>4. CASE Answered(t, AddOp, "remove", "failed")
  <2>1. /\ dc' = [dc EXCEPT ![t] = Handle(t, AddOp).dc]
        /\ pc' = IF Handle(t, AddOp).ok THEN "remove" ELSE "failed"
        /\ UNCHANGED <<orphans, broken>>
    BY <1>4 DEF Answered
  <2>2. /\ dc' \in [Cluster -> Config] /\ \A c \in Cluster : WellFormed(dc'[c])
        /\ \A c \in Cluster : c # t => dc'[c] = dc[c]
        /\ Handle(t, AddOp).ok <=> t \in allowed
        /\ t \notin allowed => dc' = dc
        /\ t \in allowed => \A e : e \in Entries(dc'[t]) <=>
              \/ e = <<move.to.group, Copy>>
              \/ /\ e \in Entries(dc[t])
                 /\ ~HasKey(e, move.to.group, move.to.node, move.from.name)
    BY <1>2, <2>1, AddEffect
  <2>3. pc' = IF t \in allowed THEN "remove" ELSE "failed"
    BY <2>1, <2>2
  <2>4. StateInv'
    BY <1>1, <1>2, <2>1, <2>2, <2>3, StateStep
  <2>5. KeptInv'
    <3>1. InSource # {} => InSource' # {}
      BY <1>1, <1>2, <2>1, SourceSurvives, Zenon
    <3>2. t \in allowed => InTarget' # {}
      <4>1. t \in allowed => <<move.to.group, Copy>> \in Entries(dc'[t])
        BY <2>2
      <4>2. t \in allowed => Find(dc'[t], move.to.group, move.to.node, move.from.name) # {}
        BY <1>2, <2>2, <4>1, MoveKeys, FoundMeans, Zenon
      <4> QED BY <1>1, <4>2 DEF InTarget, At
    <3> QED BY <1>1, <1>2, <1>3, <2>1, <2>3, <3>1, <3>2 DEF KeptInv
  <2>6. WholeInv'
    <3> SUFFICES ASSUME ~disturbed, broken = {}
                 PROVE  WholeInv'
      BY <1>1, <2>1 DEF WholeInv
    <3>1. /\ orphans = {} /\ dc = before
          /\ fetched \in At(before, move.from.cluster, move.from.group, move.from.node)
      BY <1>1, <1>2, Zenon DEF WholeInv
    <3>2. CASE t \in allowed
      <4>1. ASSUME NEW c \in Cluster
            PROVE  Entries(dc'[c]) = AfterAdd(c)
        <5>1. CASE c = t
          <6>1. \A e : e \in Entries(dc'[t]) <=> e \in AfterAdd(t)
            BY <1>2, <2>2, <3>1, <3>2, AfterAddMeans
          <6>2. Entries(dc'[t]) = AfterAdd(t)
            BY <6>1, Zenon
          <6> QED BY <5>1, <6>2
        <5>2. CASE c # t
          BY <2>2, <3>1, <5>2 DEF AfterAdd
        <5> QED BY <5>1, <5>2
      <4> QED BY <1>1, <1>3, <2>1, <2>3, <3>1, <3>2, <4>1 DEF WholeInv
    <3>3. CASE t \notin allowed
      BY <1>1, <1>3, <2>1, <2>2, <2>3, <3>1, <3>3 DEF WholeInv
    <3> QED BY <3>2, <3>3
  <2> QED BY <2>4, <2>5, <2>6 DEF MoveInv
<1>5. CASE Broken(t, AddOp, "failed")
  <2> DEFINE o == [at |-> pc, cluster |-> t, op |-> AddOp]
  <2>1. /\ orphans' = orphans \cup {o} /\ broken' = broken \cup {"add"}
        /\ pc' = "failed" /\ UNCHANGED dc
    BY <1>1, <1>5 DEF Broken
  <2>2. AtTarget(o)
    BY <1>2 DEF AtTarget
  <2> HIDE DEF o
  <2>3. StateInv'
    <3>1. dc' \in [Cluster -> Config] /\ \A c \in Cluster : WellFormed(dc'[c])
      BY <1>2, <2>1 DEF StateInv
    <3> QED BY <1>1, <1>2, <2>1, <2>2, <3>1, StateStep
  <2>4. KeptInv'
    <3>1. InSource' = InSource
      BY <1>1, <2>1 DEF InSource, At
    <3> QED BY <1>1, <1>2, <1>3, <2>1, <2>2, <3>1 DEF KeptInv
  <2>5. WholeInv'
    BY <2>1 DEF WholeInv
  <2> QED BY <2>3, <2>4, <2>5 DEF MoveInv
<1> QED BY <1>1, <1>4, <1>5

LEMMA RemoveKeeps == MoveInv /\ RemoveFromSource => MoveInv'
<1> SUFFICES ASSUME MoveInv, RemoveFromSource
             PROVE  MoveInv'
  OBVIOUS
<1> DEFINE s == move.from.cluster
           key(e) == HasKey(e, move.from.group, move.from.node, move.from.name)
           removed == <<move.from.group, fetched>>
<1>1. /\ pc = "remove" /\ UNCHANGED <<allowed, move, fetched, before, disturbed, ops>>
      /\ Answered(s, RemoveOp, "moved", "rollback") \/ Broken(s, RemoveOp, "rollback")
  BY DEF RemoveFromSource
<1>2. StateInv /\ KeptInv /\ WholeInv /\ fetched # Unset /\ s \in Cluster
  BY <1>1, MoveFacts, Zenon DEF MoveInv, StateInv
<1>3. /\ TargetBefore' = TargetBefore
      /\ At(before, move.from.cluster, move.from.group, move.from.node)'
           = At(before, move.from.cluster, move.from.group, move.from.node)
      /\ \A c : AfterAdd(c)' = AfterAdd(c) /\ AfterMove(c)' = AfterMove(c)
      /\ \A o : AtTarget(o)' <=> AtTarget(o)
  BY <1>1, SameHistory
<1>4. CASE Answered(s, RemoveOp, "moved", "rollback")
  <2> DEFINE ok == Handle(s, RemoveOp).ok
  <2>1. /\ dc' = [dc EXCEPT ![s] = Handle(s, RemoveOp).dc]
        /\ pc' = IF ok THEN "moved" ELSE "rollback"
        /\ UNCHANGED <<orphans, broken>>
    BY <1>4 DEF Answered
  <2>2. /\ dc' \in [Cluster -> Config] /\ \A c \in Cluster : WellFormed(dc'[c])
        /\ \A c \in Cluster : c # s => dc'[c] = dc[c]
        /\ ~ok => dc' = dc
        /\ ok => \A e : e \in Entries(dc'[s]) <=> e \in Entries(dc[s]) /\ ~key(e)
    BY <1>2, <2>1, AtSourceEffect
  <2> HIDE DEF ok
  <2>3. StateInv'
    BY <1>1, <1>2, <2>1, <2>2, StateStep
  <2>4. KeptInv'
    <3>1. InTarget # {} => InTarget' # {}
      BY <1>1, <1>2, <2>1, TargetSurvives
    <3>2. ~ok => InSource' = InSource
      BY <1>1, <2>2 DEF InSource, At
    <3> QED BY <1>1, <1>2, <1>3, <2>1, <3>1, <3>2 DEF KeptInv
  <2>5. WholeInv'
    <3> SUFFICES ASSUME ~disturbed, broken = {}
                 PROVE  WholeInv'
      BY <1>1, <2>1 DEF WholeInv
    <3>1. /\ orphans = {} /\ move.to.cluster \in allowed
          /\ fetched \in At(before, move.from.cluster, move.from.group, move.from.node)
          /\ \A c \in Cluster : Entries(dc[c]) = AfterAdd(c)
      BY <1>1, <1>2, Zenon DEF WholeInv
    <3>2. CASE ok
      <4>1. ASSUME NEW c \in Cluster
            PROVE  Entries(dc'[c]) = AfterMove(c)
        <5>1. CASE c = s
          <6>1. \A e \in AfterAdd(s) : key(e) <=> e = removed
            BY <1>2, <3>1, SourceEntry, MoveKeys
          <6>2. \A e : e \in Entries(dc'[s]) <=> e \in AfterAdd(s) /\ e # removed
            BY <1>2, <2>2, <3>1, <3>2, <6>1
          <6>3. Entries(dc'[s]) = AfterAdd(s) \ {removed}
            BY <6>2
          <6> QED BY <5>1, <6>3 DEF AfterMove
        <5>2. CASE c # s
          BY <2>2, <3>1, <5>2, Zenon DEF AfterMove
        <5> QED BY <5>1, <5>2
      <4> QED BY <1>1, <1>3, <2>1, <3>1, <3>2, <4>1 DEF WholeInv
    <3>3. CASE ~ok
      BY <1>1, <1>3, <2>1, <2>2, <3>1, <3>3 DEF WholeInv
    <3> QED BY <3>2, <3>3
  <2> QED BY <2>3, <2>4, <2>5 DEF MoveInv
<1>5. CASE Broken(s, RemoveOp, "rollback")
  <2> DEFINE o == [at |-> pc, cluster |-> s, op |-> RemoveOp]
  <2>1. /\ orphans' = orphans \cup {o} /\ broken' = broken \cup {"remove"}
        /\ pc' = "rollback" /\ UNCHANGED dc
    BY <1>1, <1>5 DEF Broken
  <2>2. AtSource(o)
    BY DEF AtSource
  <2> HIDE DEF o
  <2>3. StateInv'
    <3>1. dc' \in [Cluster -> Config] /\ \A c \in Cluster : WellFormed(dc'[c])
      BY <1>2, <2>1 DEF StateInv
    <3> QED BY <1>1, <1>2, <2>1, <2>2, <3>1, StateStep
  <2>4. KeptInv' /\ WholeInv'
    BY <2>1 DEF KeptInv, WholeInv
  <2> QED BY <2>3, <2>4 DEF MoveInv
<1> QED BY <1>1, <1>4, <1>5

LEMMA RollbackKeeps == MoveInv /\ Rollback => MoveInv'
<1> SUFFICES ASSUME MoveInv, Rollback
             PROVE  MoveInv'
  OBVIOUS
<1> DEFINE t == move.to.cluster
           key(e) == HasKey(e, move.to.group, move.to.node, move.from.name)
<1>1. /\ pc = "rollback" /\ UNCHANGED <<allowed, move, fetched, before, disturbed, ops>>
      /\ Answered(t, UndoOp, "failed", "failed") \/ Broken(t, UndoOp, "failed")
  BY DEF Rollback
<1>2. StateInv /\ KeptInv /\ WholeInv /\ fetched # Unset /\ t \in Cluster
  BY <1>1, MoveFacts, Zenon DEF MoveInv, StateInv
<1>3. /\ TargetBefore' = TargetBefore
      /\ \A o : AtTarget(o)' <=> AtTarget(o)
  BY <1>1, SameHistory
<1>4. CASE Answered(t, UndoOp, "failed", "failed")
  <2>1. /\ dc' = [dc EXCEPT ![t] = Handle(t, UndoOp).dc]
        /\ pc' = "failed" /\ UNCHANGED <<orphans, broken>>
    BY <1>4 DEF Answered
  <2>2. /\ dc' \in [Cluster -> Config] /\ \A c \in Cluster : WellFormed(dc'[c])
        /\ \A c \in Cluster : c # t => dc'[c] = dc[c]
        /\ Handle(t, UndoOp).ok <=> t \in allowed /\ \E e \in Entries(dc[t]) : key(e)
        /\ Handle(t, UndoOp).ok =>
              \A e : e \in Entries(dc'[t]) <=> e \in Entries(dc[t]) /\ ~key(e)
    <3>1. /\ UndoOp.kind = "remove" /\ UndoOp.group = move.to.group
          /\ UndoOp.node = move.to.node /\ UndoOp.name = move.from.name
      BY <1>2, MoveFacts, Zenon
    <3> QED BY <1>2, <2>1, <3>1, RemoveEffect, Zenon
  <2>3. StateInv'
    BY <1>1, <1>2, <2>1, <2>2, StateStep
  <2>4. KeptInv'
    <3>1. InSource # {} => InSource' # {}
      BY <1>1, <1>2, <2>1, SourceSurvives, Zenon
    <3> QED BY <1>1, <1>2, <1>3, <2>1, <3>1 DEF KeptInv
  <2>5. WholeInv'
    <3> SUFFICES ASSUME ~disturbed, broken = {}, TargetBefore = {}
                 PROVE  \A c \in Cluster : Entries(dc'[c]) = Entries(before[c])
      BY <1>1, <1>2, <1>3, <2>1 DEF WholeInv
    <3>1. t \in allowed /\ \A c \in Cluster : Entries(dc[c]) = AfterAdd(c)
      BY <1>1, <1>2, Zenon DEF WholeInv
    <3>2. \A e \in Entries(before[t]) : ~key(e)
      <4>1. WellFormed(before[t])
        BY <1>2 DEF StateInv
      <4> QED BY <4>1, FoundMeans DEF TargetBefore, At
    <3>3. /\ <<move.to.group, Copy>> \in Entries(dc[t]) /\ key(<<move.to.group, Copy>>)
      BY <1>2, <3>1, AfterAddMeans, MoveKeys
    <3>4. \A e : e \in Entries(dc[t]) <=>
             e = <<move.to.group, Copy>> \/ (e \in Entries(before[t]) /\ ~key(e))
      BY <1>2, <3>1, AfterAddMeans
    <3>5. \A e : e \in Entries(dc'[t]) <=> e \in Entries(before[t])
      BY <2>2, <3>1, <3>2, <3>3, <3>4, Zenon
    <3>6. Entries(dc'[t]) = Entries(before[t])
      BY <3>5, Zenon
    <3>7. \A c \in Cluster : c # t => Entries(dc'[c]) = Entries(before[c])
      BY <2>2, <3>1, Zenon DEF AfterAdd
    <3> QED BY <3>6, <3>7
  <2> QED BY <2>3, <2>4, <2>5 DEF MoveInv
<1>5. CASE Broken(t, UndoOp, "failed")
  <2> DEFINE o == [at |-> pc, cluster |-> t, op |-> UndoOp]
  <2>1. /\ orphans' = orphans \cup {o} /\ broken' = broken \cup {"rollback"}
        /\ pc' = "failed" /\ UNCHANGED dc
    BY <1>1, <1>5 DEF Broken
  <2>2. AtTarget(o)
    BY DEF AtTarget
  <2> HIDE DEF o
  <2>3. StateInv'
    <3>1. dc' \in [Cluster -> Config] /\ \A c \in Cluster : WellFormed(dc'[c])
      BY <1>2, <2>1 DEF StateInv
    <3> QED BY <1>1, <1>2, <2>1, <2>2, <3>1, StateStep
  <2>4. KeptInv'
    <3>1. InSource' = InSource
      BY <1>1, <2>1 DEF InSource, At
    <3> QED BY <1>1, <1>2, <1>3, <2>1, <2>2, <3>1 DEF KeptInv
  <2>5. WholeInv'
    BY <2>1 DEF WholeInv
  <2> QED BY <2>3, <2>4, <2>5 DEF MoveInv
<1> QED BY <1>1, <1>4, <1>5

LEMMA OrphanKeeps == \A o \in orphans : MoveInv /\ HandleOrphan(o) => MoveInv'
<1> SUFFICES ASSUME NEW o \in orphans, MoveInv, HandleOrphan(o)
             PROVE  MoveInv'
  OBVIOUS
<1>1. /\ dc' = [dc EXCEPT ![o.cluster] = Handle(o.cluster, o.op).dc]
      /\ orphans' = orphans \ {o}
      /\ UNCHANGED <<allowed, move, pc, fetched, before, broken, disturbed, ops>>
  BY DEF HandleOrphan
<1>2. StateInv /\ KeptInv /\ WholeInv /\ (AtSource(o) \/ AtTarget(o))
  BY DEF MoveInv, StateInv
<1>3. dc' \in [Cluster -> Config] /\ \A c \in Cluster : WellFormed(dc'[c])
  <2>1. CASE AtSource(o)
    BY <1>1, <1>2, <2>1, AtSourceEffect, Zenon DEF AtSource
  <2>2. CASE AtTarget(o)
    BY <1>1, <1>2, <2>2, AtTargetEffect, Zenon DEF AtTarget
  <2> QED BY <1>2, <2>1, <2>2
<1>4. StateInv'
  <2>1. pc # "fetch"
    BY <1>2 DEF StateInv
  <2> QED BY <1>1, <1>2, <1>3, <2>1, StateStep, Zenon DEF StateInv
<1>5. KeptInv'
  <2> SUFFICES ASSUME ~disturbed, fetched # Unset, "remove" \notin broken
               PROVE  KeptInv'
    BY <1>1 DEF KeptInv
  <2>1. pc = "failed" /\ InSource # {} /\ AtTarget(o) /\ \A p \in orphans : AtTarget(p)
    BY <1>2 DEF KeptInv
  <2>2. InSource' # {}
    BY <1>1, <1>2, <2>1, SourceSurvives, Zenon DEF AtTarget
  <2>3. \A p : AtTarget(p)' <=> AtTarget(p)
    BY <1>1, SameHistory
  <2> QED BY <1>1, <2>1, <2>2, <2>3 DEF KeptInv
<1>6. WholeInv'
  BY <1>1, <1>2 DEF WholeInv
<1> QED BY <1>4, <1>5, <1>6 DEF MoveInv

LEMMA MoveInvariant == Spec => []MoveInv
<1>1. MoveInv /\ UNCHANGED vars => MoveInv'
  <2> SUFFICES ASSUME MoveInv, UNCHANGED vars
               PROVE  MoveInv'
    OBVIOUS
  <2>1. UNCHANGED <<dc, allowed, move, pc, fetched, orphans, before, broken, disturbed>>
    BY DEF vars
  <2>2. InSource' = InSource /\ InTarget' = InTarget
    BY <2>1 DEF InSource, InTarget, At
  <2>3. StateInv'
    BY <2>1, StateStep, Zenon DEF MoveInv, StateInv
  <2>4. KeptInv'
    BY <2>1, <2>2, SameHistory DEF MoveInv, KeptInv
  <2>5. WholeInv'
    BY <2>1, SameHistory DEF MoveInv, WholeInv
  <2> QED BY <2>3, <2>4, <2>5 DEF MoveInv
<1>2. MoveInv /\ [Next]_vars => MoveInv'
  BY <1>1, FetchKeeps, AddKeeps, RemoveKeeps, RollbackKeeps, DieKeeps, OrphanKeeps,
     OtherAdminKeeps DEF Next
<1> QED BY <1>2, MoveStarts, PTL DEF Spec

-----------------------------------------------------------------------------
(* No sequence of admin operations, whatever move it is interleaved with   *)
(* and wherever that breaks off, leaves a config with two groups of one    *)
(* name, a service twice on a node, a bad health path or a malformed       *)
(* route, which Config::validate would reject.                             *)
THEOREM CatalogsStayValid == Spec => []CatalogWellFormed
<1>1. MoveInv => CatalogWellFormed
  BY DEF MoveInv, StateInv, WellFormed, CatalogWellFormed
<1> QED BY <1>1, MoveInvariant, PTL

(* A move that is not disturbed never leaves the service in neither place, *)
(* wherever the command dies and whatever becomes of an add or a rollback  *)
(* that was not answered.                                                  *)
THEOREM ServiceIsKept == Spec => []ServiceKept
<1>1. MoveInv => ServiceKept
  BY DEF MoveInv, KeptInv, ServiceKept
<1> QED BY <1>1, MoveInvariant, PTL

(* What a finished move has done to all clusters, from what it has done to *)
(* each.                                                                   *)
LEMMA MovedWhole ==
    ASSUME MoveInv, ~disturbed, broken = {}, pc = "moved"
    PROVE  /\ InSource = {} /\ InTarget = {Copy}
           /\ \A c \in Cluster : \A e : e \in Entries(dc[c]) <=>
                 \/ /\ e \in Entries(before[c])
                    /\ ~(c = move.from.cluster /\ e = <<move.from.group, fetched>>)
                    /\ ~(c = move.to.cluster /\ e \in Replaced)
                 \/ c = move.to.cluster /\ e = <<move.to.group, Copy>>
<1> DEFINE s == move.from.cluster
           t == move.to.cluster
           added == <<move.to.group, Copy>>
           removed == <<move.from.group, fetched>>
<1>1. /\ StateInv /\ fetched # Unset /\ s \in Cluster /\ t \in Cluster
      /\ fetched \in At(before, move.from.cluster, move.from.group, move.from.node)
      /\ \A c \in Cluster : Entries(dc[c]) = AfterMove(c)
  BY MoveFacts, Zenon DEF MoveInv, StateInv, WholeInv
<1>2. /\ HasKey(added, move.to.group, move.to.node, move.from.name)
      /\ HasKey(removed, move.from.group, move.from.node, move.from.name)
  BY <1>1, MoveKeys, Zenon
<1>3. s = t => added # removed
  BY <1>1, <1>2, KeysDiffer, Zenon
<1> HIDE DEF added, removed
<1>4. ASSUME NEW c \in Cluster, NEW e
      PROVE  e \in Entries(dc[c]) <=>
                \/ /\ e \in Entries(before[c])
                   /\ ~(c = s /\ e = removed) /\ ~(c = t /\ e \in Replaced)
                \/ c = t /\ e = added
  <2>1. Entries(dc[c]) = IF c = s THEN AfterAdd(c) \ {removed} ELSE AfterAdd(c)
    BY <1>1 DEF AfterMove, removed
  <2>2. AfterAdd(c) = IF c = t THEN (Entries(before[c]) \ Replaced) \cup {added}
                               ELSE Entries(before[c])
    BY DEF AfterAdd, added
  <2>3. CASE c = s
    BY <1>3, <2>1, <2>2, <2>3
  <2>4. CASE c # s
    BY <2>1, <2>2, <2>4
  <2> QED BY <2>3, <2>4
<1>5. InSource = {}
  <2>1. \A e \in Entries(dc[s]) : ~HasKey(e, move.from.group, move.from.node, move.from.name)
    <3>1. Entries(dc[s]) = AfterAdd(s) \ {removed}
      BY <1>1, Zenon DEF AfterMove, removed
    <3> QED BY <1>1, <3>1, SourceEntry DEF removed
  <2>2. WellFormed(dc[s])
    BY <1>1 DEF StateInv
  <2> QED BY <2>1, <2>2, FoundMeans DEF InSource, At
<1>6. InTarget = {Copy}
  <2>1. added \in Entries(dc[t])
    BY <1>1, <1>4
  <2>2. WellFormed(dc[t])
    BY <1>1 DEF StateInv
  <2>3. /\ <<move.to.group, Copy>> \in Entries(dc[t])
        /\ Copy.name = move.from.name /\ Copy.node = move.to.node
    BY <1>1, <2>1, MoveFacts DEF added
  <2> DEFINE config == dc[t]
             group == move.to.group
             node == move.to.node
             name == move.from.name
  <2>4. /\ WellFormed(config) /\ <<group, Copy>> \in Entries(config)
        /\ Copy.name = name /\ Copy.node = node
    BY <2>2, <2>3
  <2> HIDE DEF config, group, node, name
  <2>5. Copy \in Find(config, group, node, name)
    BY <2>4, FoundIs
  <2>6. Find(config, group, node, name) = {Copy}
    BY <2>4, <2>5, FoundOne
  <2> QED BY <2>6 DEF InTarget, At, config, group, node, name
<1> QED BY <1>4, <1>5, <1>6, Zenon DEF added, removed

(* A move happens whole or not at all when every request is answered and   *)
(* nobody else changes the clusters: what it reports is what it has done.  *)
THEOREM MovesAreAllOrNothing == Spec => []MoveAllOrNothing
<1>1. MoveInv => MoveAllOrNothing
  <2> SUFFICES ASSUME MoveInv, ~disturbed, broken = {}, pc \in {"moved", "failed"}
               PROVE  MoveAllOrNothing
    BY DEF MoveAllOrNothing
  <2>1. CASE pc = "failed"
    <3>1. TargetBefore = {} => \A c \in Cluster : Entries(dc[c]) = Entries(before[c])
      BY <2>1 DEF MoveInv, WholeInv
    <3> QED BY <2>1, <3>1 DEF MoveAllOrNothing
  <2>2. CASE pc = "moved"
    <3> DEFINE s == move.from.cluster
               t == move.to.cluster
               added == {<<move.to.group, x>> : x \in InTarget}
               removed == {<<move.from.group, fetched>>}
    <3>1. /\ InSource = {} /\ InTarget = {Copy}
          /\ \A c \in Cluster : \A e : e \in Entries(dc[c]) <=>
                \/ /\ e \in Entries(before[c])
                   /\ ~(c = move.from.cluster /\ e = <<move.from.group, fetched>>)
                   /\ ~(c = move.to.cluster /\ e \in Replaced)
                \/ c = move.to.cluster /\ e = <<move.to.group, Copy>>
      BY <2>2, MovedWhole
    <3>2. added = {<<move.to.group, Copy>>}
      BY <3>1
    <3>3. ASSUME NEW configs, NEW x
          PROVE  x \in Holdings(configs) <=>
                    \E c \in Cluster : \E e : x = <<c, e>> /\ e \in Entries(configs[c])
      BY DEF Holdings
    <3>4. t \in Cluster
      BY MoveFacts DEF MoveInv
    <3> HIDE DEF added
    <3>5. \A x : x \in Holdings(dc) <=>
             x \in ((Holdings(before) \ (({s} \X removed) \cup ({t} \X Replaced)))
                      \cup ({t} \X added))
      <4>1. ASSUME NEW c \in Cluster, NEW e
            PROVE  <<c, e>> \in Holdings(dc) <=>
                      <<c, e>> \in ((Holdings(before) \ (({s} \X removed) \cup ({t} \X Replaced)))
                                      \cup ({t} \X added))
        <5>1. /\ <<c, e>> \in Holdings(dc) <=> e \in Entries(dc[c])
              /\ <<c, e>> \in Holdings(before) <=> e \in Entries(before[c])
          BY <3>3
        <5> QED BY <3>1, <3>2, <5>1
      <4>2. \A x \in Holdings(dc) \cup Holdings(before) \cup ({t} \X added) :
               \E c \in Cluster : \E e : x = <<c, e>>
        BY <3>3, <3>4
      <4> QED BY <4>1, <4>2
    <3>6. Holdings(dc) = (Holdings(before) \ (({s} \X removed) \cup ({t} \X Replaced)))
                           \cup ({t} \X added)
      BY <3>5
    <3>7. InTarget = {[fetched EXCEPT !.node = move.to.node]}
      BY <3>1 DEF Copy
    <3> QED BY <2>2, <3>1, <3>6, <3>7 DEF MoveAllOrNothing, added, Replaced
  <2> QED BY <2>1, <2>2
<1> QED BY <1>1, MoveInvariant, PTL
=============================================================================
