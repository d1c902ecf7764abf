------------------------------- MODULE Routes -------------------------------
(***************************************************************************)
(* L7 routes: which instances may serve a request.  Translated from        *)
(* labels_match, RouteMatch::matches, path_has_prefix and validate_routes  *)
(* of src/src/config.rs and select_route of src/src/subscribe/http.rs.     *)
(*                                                                         *)
(* A path is a sequence of characters, because matching on segment         *)
(* boundaries is about them.  Labels and headers are functions from names  *)
(* to values, header names in lower case.  A route is a record [service,   *)
(* match, backends]; a condition that is not set is Unset.                 *)
(***************************************************************************)
EXTENDS Integers, Sequences, FiniteSetsExt, Functions

CONSTANT Unset          \* a condition that the route does not make

NoRoute == [labels |-> Unset]

LabelsMatch(labels, selector) ==
    \A k \in DOMAIN selector : k \in DOMAIN labels /\ labels[k] = selector[k]

StartsWith(s, prefix) == Len(prefix) =< Len(s) /\ SubSeq(s, 1, Len(prefix)) = prefix

EndsWith(s, suffix) == s # <<>> /\ s[Len(s)] = suffix

(* Mutant: any string prefix will do.                                      *)
PathStartsWith(path, prefix) == StartsWith(path, prefix)

PathHasPrefix(path, prefix) ==
    LET rest == SubSeq(path, Len(prefix) + 1, Len(path))
    IN  /\ StartsWith(path, prefix)
        /\ rest = <<>> \/ EndsWith(prefix, "/") \/ StartsWith(rest, <<"/">>)

Matches(m, request) ==
    /\ m.prefix = Unset \/ PathHasPrefix(request.path, m.prefix)
    /\ m.method = Unset \/ m.method = request.method
    /\ LabelsMatch(request.headers, m.headers)

(* The subsets that a route splits its requests between.                   *)
IsSplit(backends) ==
    /\ Len(backends) \in Nat /\ DOMAIN backends = 1 .. Len(backends)
    /\ \A i \in DOMAIN backends : backends[i].weight \in Nat

(* The weights of the first k subsets, added up.                           *)
TicketsUpTo(route, k) ==
    SumFunctionOnSet([i \in DOMAIN route.backends |-> route.backends[i].weight], 1 .. k)

TotalTickets(route) == TicketsUpTo(route, Len(route.backends))

(* validate_routes; methods and header names are well formed by choice of  *)
(* the values.                                                             *)
ValidRoute(service, route) ==
    /\ route.service = service
    /\ route.backends # <<>>
    /\ TotalTickets(route) > 0
    /\ route.match.prefix = Unset \/ StartsWith(route.match.prefix, <<"/">>)

ValidRoutes(service, routes) == \A i \in DOMAIN routes : ValidRoute(service, routes[i])

(* Mutant: the boundary between two shares is off by one.                  *)
BackendOffByOne(route, ticket) ==
    LET winners == {i \in DOMAIN route.backends : ticket =< TicketsUpTo(route, i)}
    IN  IF winners = {} THEN 1 ELSE Min(winners)

(* The subset whose share of the weights holds the ticket; the first one   *)
(* if there is none.                                                       *)
BackendAt(route, ticket) ==
    LET winners == {i \in DOMAIN route.backends : ticket < TicketsUpTo(route, i)}
    IN  IF winners = {} THEN 1 ELSE Min(winners)

BackendFor(route, ticket) == route.backends[BackendAt(route, ticket)]

MatchingRoutes(routes, request) == {i \in DOMAIN routes : Matches(routes[i].match, request)}

(* The tickets select_route may draw for a request.                        *)
Tickets(routes, request) ==
    LET matching == MatchingRoutes(routes, request)
    IN  IF matching = {} THEN {0}
        ELSE 0 .. Max({0, TotalTickets(routes[Min(matching)]) - 1})

SelectRoute(routes, request, ticket) ==
    LET matching == MatchingRoutes(routes, request)
    IN  IF matching = {} THEN NoRoute ELSE BackendFor(routes[Min(matching)], ticket)

(* `attempt` narrows the instances to those that carry the route's labels. *)
(* labelsOf maps the instances to their labels.                            *)
Subset(labelsOf, routed) ==
    IF routed = NoRoute THEN DOMAIN labelsOf
    ELSE {n \in DOMAIN labelsOf : LabelsMatch(labelsOf[n], routed.labels)}
=============================================================================
