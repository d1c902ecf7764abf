------------------------------- MODULE Balancer -------------------------------
(***************************************************************************)
(* The balancer of one service's proxy: smooth weighted round-robin,       *)
(* outlier ejection and connection slots.  Each operation runs under the   *)
(* balancer's mutex, so each is one step.  A map entry that is absent      *)
(* stands for its default, which is how every operation reads it.          *)
(***************************************************************************)
EXTENDS Integers, FiniteSetsExt

CONSTANTS
    N,             \* number of nodes
    Client,        \* connections that pick a backend
    NoLimit,       \* maxConnections is not set
    Weights,       \* weights the config may give an instance
    Limits,        \* values of maxConnections it may give one
    MaxAttempts,   \* MAX_TUNNEL_ATTEMPTS
    EjectAfter,    \* EJECT_AFTER_FAILURES
    MaxEjection    \* MAX_EJECTION, in units of BASE_EJECTION

ASSUME BalancerAssumption ==
    /\ N \in Nat /\ MaxAttempts \in Nat
    /\ EjectAfter \in Nat \ {0} /\ MaxEjection \in Nat \ {0}
    /\ Weights \subseteq Nat /\ Limits \subseteq Nat \cup {NoLimit}
    /\ NoLimit \notin Nat

VARIABLES
    current,       \* running weight of each node
    active,        \* open connections to each node
    outlier,       \* failures, ejections and time left of the ejection
    slots          \* the Slot guards alive, with the limit they were taken under

balancer == <<current, active, outlier, slots>>

Node == 1 .. N     \* numbered in the order of their ids

Backend == [weight : Weights, limit : Limits]

Instances == UNION {[S -> Backend] : S \in SUBSET Node}

NoBackends == [n \in {} |-> 0]

Outlier == [failures : Nat, ejections : Nat, left : Nat]

NotOutlier == [failures |-> 0, ejections |-> 0, left |-> 0]

CL == INSTANCE ConnectionLimit

BalancerTypeOK ==
    /\ current \in [Node -> Int]
    /\ active \in [Node -> Nat]
    /\ outlier \in [Node -> Outlier]
    /\ slots \in SUBSET CL!Slot

BalancerInit ==
    /\ current = [n \in Node |-> 0]
    /\ active = [n \in Node |-> 0]
    /\ outlier = [n \in Node |-> NotOutlier]
    /\ slots = {}

-----------------------------------------------------------------------------
(* The candidates, before the balancer sees them.                          *)

(* `prefer`: the members of S that are in `good`, or all if none is.       *)
Prefer(S, good) == IF S \cap good = {} THEN S ELSE S \cap good

(* prefer_healthy, for the nodes whose liveness marker is fresh and those  *)
(* whose health check reports the service up.                              *)
PreferHealthy(all, fresh, up) == Prefer(Prefer(all, fresh), up)

(* What it may leave of `all`.                                             *)
Preferred(all) == {PreferHealthy(all, fresh, up) : fresh, up \in SUBSET Node}

(* How many of the candidates a client tries.                              *)
Attempts(cand) == Min({Cardinality(DOMAIN cand), MaxAttempts})

-----------------------------------------------------------------------------
(* pick.  `cand` maps the candidate nodes to their Backend. *)

FailOpen(S, keep) == IF S \cap keep = {} THEN S ELSE S \cap keep

Ejected(n) == outlier[n].left > 0

Untried(cand, tried) == DOMAIN cand \ tried

(* Mutant: a node at its limit takes one more.                             *)
OpenAtLimit(cand, tried) ==
    {n \in Untried(cand, tried) : CL!Within(active[n], cand[n].limit)}

Open(cand, tried) ==
    {n \in Untried(cand, tried) : CL!Below(active[n], cand[n].limit)}

(* Mutant: ejected nodes are not skipped.                                  *)
EligibleEjected(cand, tried) ==
    FailOpen(Open(cand, tried), {n \in DOMAIN cand : cand[n].weight > 0})

Eligible(cand, tried) ==
    LET undrained == FailOpen(Open(cand, tried), {n \in DOMAIN cand : cand[n].weight > 0})
    IN  FailOpen(undrained, {n \in DOMAIN cand : ~Ejected(n)})

WeightOf(b) == IF b.weight = 0 THEN 1 ELSE b.weight

(* Mutant: candidates that may not be chosen gain weight too.              *)
GainedDrained(cand, E) ==
    [n \in Node |-> IF n \in DOMAIN cand THEN current[n] + WeightOf(cand[n]) ELSE current[n]]

Gained(cand, E) ==
    [n \in Node |-> IF n \in E THEN current[n] + WeightOf(cand[n]) ELSE current[n]]

(* The first node, in id order, with the highest running weight.           *)
Best(gained, E) == Min({n \in E : \A m \in E : gained[n] >= gained[m]})

Total(cand, E) == SumFunctionOnSet([n \in E |-> WeightOf(cand[n])], E)

(* Mutant: the chosen node pays back its own weight only.                  *)
ChooseUnpaid(c, cand, tried, n) ==
    LET E == Eligible(cand, tried)
        gained == Gained(cand, E)
    IN  /\ E # {}
        /\ n = Best(gained, E)
        /\ current' = [gained EXCEPT ![n] = @ - WeightOf(cand[n])]
        /\ active' = [active EXCEPT ![n] = @ + 1]
        /\ slots' = slots \cup {[client |-> c, node |-> n, limit |-> cand[n].limit]}
        /\ UNCHANGED outlier

(* The pick of client c reserves a slot on node n.                         *)
Choose(c, cand, tried, n) ==
    LET E == Eligible(cand, tried)
        gained == Gained(cand, E)
    IN  /\ E # {}
        /\ n = Best(gained, E)
        /\ current' = [gained EXCEPT ![n] = @ - Total(cand, E)]
        /\ active' = [active EXCEPT ![n] = @ + 1]
        /\ slots' = slots \cup {[client |-> c, node |-> n, limit |-> cand[n].limit]}
        /\ UNCHANGED outlier

(* Slot::drop.                                                             *)
DropSlot(s) ==
    /\ s \in slots
    /\ slots' = slots \ {s}
    /\ active' = [active EXCEPT ![s.node] = IF @ = 0 THEN 0 ELSE @ - 1]
    /\ UNCHANGED <<current, outlier>>

(* Mutant: connection counts of other nodes are forgotten too.             *)
RetainActive(all) ==
    /\ current' = [n \in Node |-> IF n \in all THEN current[n] ELSE 0]
    /\ outlier' = [n \in Node |-> IF n \in all THEN outlier[n] ELSE NotOutlier]
    /\ active' = [n \in Node |-> IF n \in all THEN active[n] ELSE 0]
    /\ UNCHANGED slots

RetainNodes(all) ==
    /\ current' = [n \in Node |-> IF n \in all THEN current[n] ELSE 0]
    /\ outlier' = [n \in Node |-> IF n \in all THEN outlier[n] ELSE NotOutlier]
    /\ UNCHANGED <<active, slots>>

RecordSuccess(n) ==
    /\ outlier' = [outlier EXCEPT ![n] = NotOutlier]
    /\ UNCHANGED <<current, active, slots>>

(* Doubled with every ejection, up to MAX_EJECTION.  From the first one    *)
(* that reaches it on, counting further ejections changes nothing.         *)
EjectionTime(ejections) == Min({2 ^ (ejections - 1), MaxEjection})

(* Mutant: failures during an ejection count towards the next one.         *)
AfterAnyFailure(o) ==
    IF o.failures + 1 < EjectAfter THEN [o EXCEPT !.failures = @ + 1]
    ELSE [failures |-> 0, ejections |-> 1, left |-> MaxEjection]

AfterFailure(o) ==
    LET again == IF o.ejections > 0 /\ EjectionTime(o.ejections) = MaxEjection
                 THEN o.ejections ELSE o.ejections + 1
    IN  IF o.left > 0 THEN o
        ELSE IF o.failures + 1 < EjectAfter THEN [o EXCEPT !.failures = @ + 1]
        ELSE [failures |-> 0, ejections |-> again, left |-> EjectionTime(again)]

RecordFailure(n) ==
    /\ outlier' = [outlier EXCEPT ![n] = AfterFailure(@)]
    /\ UNCHANGED <<current, active, slots>>

(* BASE_EJECTION passes.                                                   *)
Tick ==
    /\ \E n \in Node : Ejected(n)
    /\ outlier' = [n \in Node |->
                     [outlier[n] EXCEPT !.left = IF @ = 0 THEN 0 ELSE @ - 1]]
    /\ UNCHANGED <<current, active, slots>>

-----------------------------------------------------------------------------
(* The count a limit is compared with is the number of connections or      *)
(* requests that hold a slot, the ones whose answer is only kept as a      *)
(* fallback included: nothing is leaked by a retry, a failure, a client    *)
(* that goes away or a removed node.                                       *)
ActiveCountsSlots == \A n \in Node : active[n] = Cardinality(CL!On(n))

(* The hard cap of ConnectionLimit.                                        *)
HardCap == CL!HardCap

(* Slots are reserved and given back as ConnectionLimit says.              *)
KeepsLimits == CL!LimitSpec
=============================================================================
