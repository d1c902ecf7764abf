------------------------------ MODULE RoundRobin ------------------------------
(***************************************************************************)
(* The shares of an http service's instances: requests are routed to label *)
(* subsets (Routes) and every subset picks from the same balancer, with    *)
(* its one running weight per node.  The instances and the routes are      *)
(* fixed, all instances are up, and each pick is given back at once.       *)
(***************************************************************************)
EXTENDS Balancer, Routes

CONSTANTS
    Version,        \* values of the one label, "version"
    Service,
    RouteTables,    \* the route lists a config may give the service
    Requests,       \* [path, method, headers]
    MaxTurns        \* bound: picks

ASSUME RoutesAssumption ==
    \A table \in RouteTables :
        /\ ValidRoutes(Service, table)
        /\ \A i \in DOMAIN table : IsSplit(table[i].backends)

VARIABLES
    backends,       \* the instances' weights and limits
    labels,         \* and their labels
    routes,         \* the service's routes
    turns,          \* picks so far from each set of candidates
    picks           \* how often each node was chosen

roundRobin == <<current, active, outlier, slots, backends, labels, routes, turns, picks>>

RoundRobinInit ==
    /\ BalancerInit
    /\ backends \in [Node -> Backend]
    /\ labels \in [Node -> [{"version"} -> Version]]
    /\ routes \in RouteTables
    /\ turns = [S \in SUBSET Node |-> 0]
    /\ picks = [n \in Node |-> 0]

(* The candidates a request may get, by the ticket that it draws.          *)
Candidates ==
    UNION {{Subset(labels, SelectRoute(routes, request, t)) : t \in Tickets(routes, request)}
              : request \in Requests}

(* A request with candidates S; with none, `no_route_backend` is answered  *)
(* and the balancer is not asked.                                          *)
Pick(c, S) ==
    /\ SumFunction(turns) < MaxTurns /\ slots = {}
    /\ S # {}
    /\ \E n \in Node : /\ Choose(c, Restrict(backends, S), {}, n)
                       /\ picks' = [picks EXCEPT ![n] = @ + 1]
    /\ turns' = [turns EXCEPT ![S] = @ + 1]
    /\ UNCHANGED <<backends, labels, routes>>

GiveBack == /\ \E s \in slots : DropSlot(s)
            /\ UNCHANGED <<backends, labels, routes, turns, picks>>

RoundRobinNext == (\E c \in Client, S \in Candidates : Pick(c, S)) \/ GiveBack

RoundRobinSpec == RoundRobinInit /\ [][RoundRobinNext]_roundRobin

-----------------------------------------------------------------------------
Used == {S \in SUBSET Node : turns[S] > 0}

Disjoint == \A S, T \in Used : S = T \/ S \cap T = {}

(* The nodes of S that share its picks: those that may have a connection,  *)
(* and of them the ones that are not drained, if there are any.            *)
Shared(S) ==
    FailOpen({n \in S : CL!Below(0, backends[n].limit)},
             {n \in S : backends[n].weight > 0})

TotalWeight(S) == Total(backends, Shared(S))

(* By how much k nodes with the given total of weights can fall behind, in *)
(* units of a pick's total-th part: lag[i] is for any k - i of them        *)
(* together.  For large k it grows like the logarithm of k, times total.   *)
Lag(total, k) ==
    LET lag[i \in 0 .. k - 1] ==
            IF i = 0 THEN 0 ELSE ((k - i) * (lag[i - 1] + total)) \div (k - i + 1)
    IN  lag[k - 1]

(* Shares are smooth within each subset, however the requests for the      *)
(* subsets interleave, as long as the subsets in use do not overlap.  At   *)
(* any moment, not only after full rounds, a node has been chosen less     *)
(* than one pick more often than its weight's share of its subset's picks, *)
(* and is behind by Lag at most, which is less than one pick for up to     *)
(* three nodes.  After a full round each has exactly its share; a drained  *)
(* node is chosen only when its whole subset is drained, and then they     *)
(* share equally.                                                          *)
SmoothShare ==
    Disjoint =>
        \A S \in Used : \A n \in S :
            LET total == TotalWeight(S)
                share == IF n \in Shared(S) THEN WeightOf(backends[n]) ELSE 0
                off == turns[S] * share - picks[n] * total
            IN  /\ -total < off /\ off =< Lag(total, Cardinality(Shared(S)))
                /\ turns[S] % total = 0 => off = 0

(* Subsets that do overlap share their nodes' running weights.  These stay *)
(* in balance and never run away: they sum to zero, and each is at most    *)
(* the largest weight times the number of the other nodes, so no mix of    *)
(* routed requests can starve a node or build up an unbounded debt.        *)
WeightsBounded ==
    LET bound == (N - 1) * Max({WeightOf(backends[n]) : n \in Node})
    IN  /\ SumFunction(current) = 0
        /\ \A n \in Node : -bound =< current[n] /\ current[n] =< bound

(* The split of a route is its weights': of the tickets that a request may *)
(* draw, exactly a backend's weight choose the backend, so that one of     *)
(* weight zero gets nothing and no ticket is left over.                    *)
TicketsByWeight ==
    \A i \in DOMAIN routes :
        \A b \in DOMAIN routes[i].backends :
            Cardinality({t \in 0 .. TotalTickets(routes[i]) - 1 :
                            BackendAt(routes[i], t) = b}) = routes[i].backends[b].weight
=============================================================================
