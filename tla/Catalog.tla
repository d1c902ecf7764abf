------------------------------- MODULE Catalog --------------------------------
(***************************************************************************)
(* The content of a DynamicConfig and the operations that change it, from  *)
(* src/src/config.rs: adding, removing and renaming a service and setting  *)
(* a service's routes, and what handle_admin_request makes of them.        *)
(*                                                                         *)
(* A config is [version, groups, routes]: groups a sequence of [name,      *)
(* services], services a sequence of [name, node, spec].  A spec holds the *)
(* settings that are validated, [protocol, healthPath]; a health path is   *)
(* Unset or a sequence of characters.  An operation returns [ok, dc]; a    *)
(* failed one leaves the config as it was.                                 *)
(***************************************************************************)
EXTENDS Routes

Ok(dc) == [ok |-> TRUE, dc |-> [dc EXCEPT !.version = @ + 1]]

Err(dc) == [ok |-> FALSE, dc |-> dc]

GroupAt(dc, group) == {i \in DOMAIN dc.groups : dc.groups[i].name = group}

(* The services of the first group of that name; there is one.             *)
ServicesOf(dc, group) == dc.groups[Min(GroupAt(dc, group))].services

WithServices(dc, group, services) ==
    [dc EXCEPT !.groups[Min(GroupAt(dc, group))].services = services]

ServiceAt(services, node, name) ==
    {i \in DOMAIN services : services[i].name = name /\ services[i].node = node}

(* find and find_mut return the first of several.                          *)
Find(dc, group, node, name) ==
    LET services == ServicesOf(dc, group)
        at == ServiceAt(services, node, name)
    IN  IF GroupAt(dc, group) = {} \/ at = {} THEN {} ELSE {services[Min(at)]}

AllServices(dc) == UNION {Range(dc.groups[i].services) : i \in DOMAIN dc.groups}

(* Vec::retain: the elements of seq at the positions S, in their order.    *)
Retain(seq, S) ==
    LET position(k) == CHOOSE i \in S : Cardinality({j \in S : j =< i}) = k
    IN  [k \in 1 .. Cardinality(S) |-> seq[position(k)]]

-----------------------------------------------------------------------------
ValidHealthPath(path) ==
    path = Unset \/ (StartsWith(path, <<"/">>) /\ " " \notin Range(path))

ValidateRouteTarget(dc, service) ==
    LET instances == {s \in AllServices(dc) : s.name = service}
    IN  instances # {} /\ \A s \in instances : s.spec.protocol = "http"

RoutesAt(dc, service) == {i \in DOMAIN dc.routes : dc.routes[i].service = service}

(* What Config::validate asks of a group's services, ...                   *)
ValidServices(services) ==
    \A i \in DOMAIN services :
        /\ ServiceAt(services, services[i].node, services[i].name) = {i}
        /\ ValidHealthPath(services[i].spec.healthPath)

(* ... of all groups, but for domains and ports, ...                       *)
ValidateGroups(dc) ==
    /\ \A i, j \in DOMAIN dc.groups : dc.groups[i].name = dc.groups[j].name => i = j
    /\ \A i \in DOMAIN dc.groups : ValidServices(dc.groups[i].services)

(* ... and of the routes, but for their target.                            *)
ValidateRoutes(dc) ==
    \A i \in DOMAIN dc.routes :
        LET service == dc.routes[i].service
        IN  ValidRoutes(service, Retain(dc.routes, RoutesAt(dc, service)))

-----------------------------------------------------------------------------
UpsertService(dc, group, service) ==
    LET services == ServicesOf(dc, group)
        at == ServiceAt(services, service.node, service.name)
    IN  Ok(IF GroupAt(dc, group) = {}
           THEN [dc EXCEPT !.groups = Append(@, [name |-> group, services |-> <<service>>])]
           ELSE WithServices(dc, group,
                             IF at = {} THEN Append(services, service)
                             ELSE [services EXCEPT ![Min(at)] = service]))

RemoveService(dc, group, node, name) ==
    LET services == ServicesOf(dc, group)
        others == DOMAIN services \ ServiceAt(services, node, name)
    IN  IF Find(dc, group, node, name) = {} THEN Err(dc)
        ELSE Ok(WithServices(dc, group, Retain(services, others)))

Renamed(services, node, from, to) ==
    [services EXCEPT ![Min(ServiceAt(services, node, from))].name = to]

(* Mutant: the new name may be taken.                                      *)
RenameUnchecked(dc, group, node, from, to) ==
    IF Find(dc, group, node, from) = {} THEN Err(dc)
    ELSE Ok(WithServices(dc, group, Renamed(ServicesOf(dc, group), node, from, to)))

RenameService(dc, group, node, from, to) ==
    IF Find(dc, group, node, to) # {} \/ Find(dc, group, node, from) = {} THEN Err(dc)
    ELSE Ok(WithServices(dc, group, Renamed(ServicesOf(dc, group), node, from, to)))

(* The new routes take the place of the service's first old one.           *)
SetRoutes(dc, service, routes) ==
    LET old == RoutesAt(dc, service)
        others == Retain(dc.routes, DOMAIN dc.routes \ old)
        at == IF old = {} THEN Len(others) ELSE Min(old) - 1
    IN  IF \/ routes # <<>> /\ ~ValidateRouteTarget(dc, service)
           \/ ~ValidRoutes(service, routes)
        THEN Err(dc)
        ELSE Ok([dc EXCEPT !.routes = SubSeq(others, 1, at) \o routes
                                        \o SubSeq(others, at + 1, Len(others))])

-----------------------------------------------------------------------------
(* handle_admin_request, under the write lock of the config.  `allowed`:   *)
(* the client's name is in adminCns and the daemon is not subscribe-only.  *)
HandleAdminRequest(dc, allowed, op) ==
    IF ~allowed THEN Err(dc)
    ELSE CASE op.kind = "add" ->
                IF ValidHealthPath(op.service.spec.healthPath)
                THEN UpsertService(dc, op.group, op.service) ELSE Err(dc)
           [] op.kind = "routes" -> SetRoutes(dc, op.service, op.routes)
           [] op.kind = "rename" -> RenameService(dc, op.group, op.node, op.from, op.to)
           [] op.kind = "remove" -> RemoveService(dc, op.group, op.node, op.name)
=============================================================================
