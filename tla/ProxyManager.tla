---------------------------- MODULE ProxyManager ----------------------------
(***************************************************************************)
(* manage_proxies keeps one local proxy (a run_proxy task) per subscribed  *)
(* service: it starts and aborts proxies as the config and the known nodes *)
(* change, and lists their ports for the REST API.  Proxies and the shared *)
(* HTTP listener take the service's balancer from HttpProxies.             *)
(***************************************************************************)
EXTENDS Integers, Sequences, FiniteSetsExt, Functions

CONSTANTS
    Group, Name,   \* names of groups and services
    Node,          \* the other nodes
    Self,          \* this node, in nodeSubscribe mode
    Configs,       \* configs: their instances, in order
    FilterGroups, FilterServices,   \* subscribeFilter
    Port,          \* local ports
    Ephemeral,     \* those the system may choose for a random port
    NoPort,        \* no localPort: a random one
    Info,          \* domains and meta of an instance
    None,
    MaxTasks,      \* bound: run_proxy tasks at a time
    MaxChanges     \* bound: changes around the manager

Key == Group \X Name

Instance == [group : Group, name : Name, node : Node \cup {Self},
             port : Port \cup {NoPort}, info : Info]

ASSUME ProxyManagerAssumption ==
    /\ Ephemeral \subseteq Port /\ NoPort \notin Port
    /\ Self \notin Node /\ None \notin Name \cup Key
    /\ MaxTasks \in Nat \ {0} /\ MaxChanges \in Nat
    /\ Configs \subseteq Seq(Instance)

VARIABLES
    dc,            \* dynamic_config
    known,         \* nodes in known_nodes
    foreign,       \* ports that other processes hold
    manager,       \* where manage_proxies is, and its locals
    proxies,       \* its handles: key |-> task and requested port
    service_ports, \* name |-> port and info
    http_proxies,  \* the HttpProxy of each service, 0 if it has none
    task,          \* the run_proxy tasks
    listener,      \* the service a request of the HTTP listener resolved to
    shutdown,      \* the shutdown token is cancelled
    changes        \* changes so far

env == <<dc, known, foreign, shutdown, changes>>

vars == <<dc, known, foreign, manager, proxies, service_ports, http_proxies,
          task, listener, shutdown, changes>>

Task == 1 .. MaxTasks

Without(f, x) == Restrict(f, DOMAIN f \ {x})

With(f, x, v) == [y \in DOMAIN f \cup {x} |-> IF y = x THEN v ELSE f[y]]

Empty == [x \in {} |-> 0]

-----------------------------------------------------------------------------
(* The desired set. *)

Allowed(s) == \/ FilterGroups = {} /\ FilterServices = {}
              \/ s.group \in FilterGroups \/ s.name \in FilterServices

NamesIn(c) == {c[i].name : i \in DOMAIN c}

(* local_port_for, with a random port when the instances disagree.         *)
LocalPort(c, n) ==
    LET ports == {c[i].port : i \in {j \in DOMAIN c : c[j].name = n}} \ {NoPort}
    IN  IF Cardinality(ports) = 1 THEN CHOOSE p \in ports : TRUE ELSE NoPort

(* The services with a reachable instance on another node.  The first such *)
(* instance gives the domains and meta.                                    *)
Desired(c, nodes) ==
    LET usable == {i \in DOMAIN c : c[i].node \in nodes /\ Allowed(c[i])}
        of(k)  == {i \in usable : <<c[i].group, c[i].name>> = k}
    IN  [k \in {l \in Key : of(l) # {}} |->
            [port |-> LocalPort(c, k[2]), info |-> c[Min(of(k))].info]]

-----------------------------------------------------------------------------
Resting == [pc |-> "tick", config |-> <<>>, desired |-> Empty, configured |-> {},
            todo |-> {}, key |-> None, task |-> 0]

NoTask == [pc |-> "ended", name |-> None, want |-> NoPort, port |-> NoPort,
           http |-> 0, aborted |-> FALSE]

IsMap(f, K, V) == DOMAIN f \subseteq K /\ f \in [DOMAIN f -> V]

Wish == [port : Port \cup {NoPort}, info : Info]

Handle == [task : Task, port : Port \cup {NoPort}]

Listing == [port : Port, info : Info]

Manager(desired) ==
    [pc : {"tick", "nodes", "remove", "unlist", "start", "await", "done"},
     config : Configs \cup {<<>>}, desired : {desired}, configured : SUBSET Name,
     todo : SUBSET Key, key : Key \cup {None}, task : 0 .. MaxTasks]

ProxyTask == [pc : {"bind", "get", "accept", "failed", "ended"},
              name : Name \cup {None}, want : Port \cup {NoPort},
              port : Port \cup {NoPort}, http : 0 .. MaxTasks + 1, aborted : BOOLEAN]

TypeOK ==
    /\ dc \in Configs /\ known \subseteq Node /\ foreign \subseteq Port
    /\ manager \in Manager(manager.desired) /\ IsMap(manager.desired, Key, Wish)
    /\ IsMap(proxies, Key, Handle) /\ IsMap(service_ports, Name, Listing)
    /\ http_proxies \in [Name -> 0 .. MaxTasks + 1]
    /\ task \in [Task -> ProxyTask]
    /\ listener \in Name \cup {None}
    /\ shutdown \in BOOLEAN /\ changes \in 0 .. MaxChanges

(* When manage_proxies starts, the gossip loops may have run already.      *)
Init ==
    /\ dc \in Configs /\ known \in SUBSET Node /\ foreign \in SUBSET Port
    /\ manager = Resting
    /\ proxies = Empty /\ service_ports = Empty
    /\ http_proxies = [n \in Name |-> 0]
    /\ task = [t \in Task |-> NoTask]
    /\ listener = None
    /\ shutdown = FALSE /\ changes = 0

Listening(t) == task[t].pc \in {"get", "accept"}

Held == foreign \cup {task[t].port : t \in {u \in Task : Listening(u)}}

-----------------------------------------------------------------------------
(* manage_proxies. *)

(* A pass begins with the config, ...  At shutdown a tick that is due may  *)
(* still win the select.                                                   *)
Tick ==
    /\ manager.pc = "tick"
    /\ manager' = [manager EXCEPT !.pc = "nodes", !.config = dc]
    /\ UNCHANGED <<env, proxies, service_ports, http_proxies, task, listener>>

Stop ==
    /\ manager.pc = "tick" /\ shutdown
    /\ manager' = [manager EXCEPT !.pc = "done"]
    /\ UNCHANGED <<env, proxies, service_ports, http_proxies, task, listener>>

(* Mutant: only a changed port makes a proxy stop.                         *)
RemovedIfMoved(desired) ==
    {k \in DOMAIN proxies \cap DOMAIN desired : desired[k].port # proxies[k].port}

(* The proxies to stop: not desired any more, or on another port.          *)
Removed(desired) ==
    {k \in DOMAIN proxies :
        k \in DOMAIN desired => desired[k].port # proxies[k].port}

(* ... then the nodes.                                                     *)
Snapshot ==
    LET desired == Desired(manager.config, known)
    IN  /\ manager.pc = "nodes"
        /\ manager' = [manager EXCEPT
              !.pc = "remove", !.config = <<>>, !.desired = desired,
              !.configured = NamesIn(manager.config), !.todo = Removed(desired)]
        /\ UNCHANGED <<env, proxies, service_ports, http_proxies, task, listener>>

(* The handle is dropped; a task that has ended is not affected.           *)
Abort(t) ==
    task' = [task EXCEPT ![t] = IF Listening(t) THEN [@ EXCEPT !.aborted = TRUE]
                                ELSE NoTask]

(* Mutant: the handle is dropped without aborting the task.                *)
ForgetProxy(k) ==
    /\ manager.pc = "remove" /\ k \in manager.todo
    /\ proxies' = Without(proxies, k)
    /\ manager' = [manager EXCEPT !.pc = "unlist", !.key = k, !.todo = @ \ {k}]
    /\ UNCHANGED <<env, service_ports, http_proxies, task, listener>>

AbortProxy(k) ==
    /\ manager.pc = "remove" /\ k \in manager.todo
    /\ Abort(proxies[k].task)
    /\ proxies' = Without(proxies, k)
    /\ manager' = [manager EXCEPT !.pc = "unlist", !.key = k, !.todo = @ \ {k}]
    /\ UNCHANGED <<env, service_ports, http_proxies, listener>>

Unlist ==
    /\ manager.pc = "unlist"
    /\ service_ports' = Without(service_ports, manager.key[2])
    /\ manager' = [manager EXCEPT !.pc = "remove", !.key = None]
    /\ UNCHANGED <<env, proxies, http_proxies, task, listener>>

(* HttpProxies::retain.                                                    *)
RetainHttp ==
    /\ manager.pc = "remove" /\ manager.todo = {}
    /\ http_proxies' = [n \in Name |-> IF n \in manager.configured
                                       THEN http_proxies[n] ELSE 0]
    /\ manager' = [manager EXCEPT !.pc = "start", !.configured = {},
                                  !.todo = DOMAIN manager.desired]
    /\ UNCHANGED <<env, proxies, service_ports, task, listener>>

(* A proxy that is running gets its domains and meta updated.              *)
Refresh(k) ==
    /\ manager.pc = "start" /\ k \in manager.todo \cap DOMAIN proxies
    /\ service_ports' = IF k[2] \in DOMAIN service_ports
                        THEN [service_ports EXCEPT
                                 ![k[2]] = [@ EXCEPT !.info = manager.desired[k].info]]
                        ELSE service_ports
    /\ manager' = [manager EXCEPT !.todo = @ \ {k}]
    /\ UNCHANGED <<env, proxies, http_proxies, task, listener>>

(* A service of the same name in another group has the name.               *)
SkipTaken(k) ==
    /\ manager.pc = "start" /\ k \in manager.todo \ DOMAIN proxies
    /\ k[2] \in DOMAIN service_ports
    /\ manager' = [manager EXCEPT !.todo = @ \ {k}]
    /\ UNCHANGED <<env, proxies, service_ports, http_proxies, task, listener>>

Free == {t \in Task : task[t] = NoTask}

(* Mutant: names that are taken are not skipped.                           *)
SpawnAny(k) ==
    /\ manager.pc = "start" /\ k \in manager.todo \ DOMAIN proxies
    /\ Free # {}
    /\ LET t == Min(Free)
       IN  /\ task' = [task EXCEPT ![t] = [@ EXCEPT !.pc = "bind", !.name = k[2],
                                                    !.want = manager.desired[k].port]]
           /\ manager' = [manager EXCEPT !.pc = "await", !.key = k, !.task = t,
                                         !.todo = @ \ {k}]
    /\ UNCHANGED <<env, proxies, service_ports, http_proxies, listener>>

Spawn(k) ==
    /\ manager.pc = "start" /\ k \in manager.todo \ DOMAIN proxies
    /\ k[2] \notin DOMAIN service_ports
    /\ Free # {}
    /\ LET t == Min(Free)
       IN  /\ task' = [task EXCEPT ![t] = [@ EXCEPT !.pc = "bind", !.name = k[2],
                                                    !.want = manager.desired[k].port]]
           /\ manager' = [manager EXCEPT !.pc = "await", !.key = k, !.task = t,
                                         !.todo = @ \ {k}]
    /\ UNCHANGED <<env, proxies, service_ports, http_proxies, listener>>

(* The new task reports its port, which may be after it ended.             *)
Started ==
    LET k == manager.key
        t == manager.task
        d == manager.desired[k]
    IN  /\ manager.pc = "await" /\ task[t].port # NoPort
        /\ service_ports' = With(service_ports, k[2], [port |-> task[t].port, info |-> d.info])
        /\ proxies' = With(proxies, k, [task |-> t, port |-> d.port])
        /\ manager' = [manager EXCEPT !.pc = "start", !.key = None, !.task = 0]
        /\ UNCHANGED <<env, http_proxies, task, listener>>

(* Or it could not bind: the next pass tries again.                        *)
NotStarted ==
    LET t == manager.task
    IN  /\ manager.pc = "await" /\ task[t].pc = "ended" /\ task[t].port = NoPort
        /\ task' = [task EXCEPT ![t] = NoTask]
        /\ manager' = [manager EXCEPT !.pc = "start", !.key = None, !.task = 0]
        /\ UNCHANGED <<env, proxies, service_ports, http_proxies, listener>>

EndPass ==
    /\ manager.pc = "start" /\ manager.todo = {}
    /\ manager' = Resting
    /\ UNCHANGED <<env, proxies, service_ports, http_proxies, task, listener>>

Manage == \/ Tick \/ Stop \/ Snapshot \/ Unlist \/ RetainHttp \/ Started
          \/ NotStarted \/ EndPass
          \/ \E k \in Key : AbortProxy(k) \/ Refresh(k) \/ SkipTaken(k) \/ Spawn(k)

-----------------------------------------------------------------------------
(* run_proxy. *)

Bind(t) ==
    /\ task[t].pc = "bind"
    /\ \E p \in (IF task[t].want = NoPort THEN Ephemeral ELSE {task[t].want}) \ Held :
          task' = [task EXCEPT ![t] = [@ EXCEPT !.pc = "get", !.port = p]]
    /\ UNCHANGED <<env, manager, proxies, service_ports, http_proxies, listener>>

BindFails(t) ==
    /\ task[t].pc = "bind"
    /\ IF task[t].want = NoPort THEN Ephemeral \subseteq Held ELSE task[t].want \in Held
    /\ task' = [task EXCEPT ![t] = [@ EXCEPT !.pc = "ended"]]
    /\ UNCHANGED <<env, manager, proxies, service_ports, http_proxies, listener>>

(* An HttpProxy of n that nothing else uses.                               *)
Fresh(n) ==
    Min((1 .. MaxTasks + 1) \ {task[t].http : t \in {u \in Task : task[u].name = n}})

(* HttpProxies::get.                                                       *)
HttpProxy(n) == IF http_proxies[n] = 0 THEN Fresh(n) ELSE http_proxies[n]

(* Mutant: the port gets an HttpProxy of its own.                          *)
GetOwn(t) ==
    LET n == task[t].name
    IN  /\ task[t].pc = "get"
        /\ task' = [task EXCEPT ![t] = [@ EXCEPT !.pc = "accept", !.http = Fresh(n)]]
        /\ UNCHANGED <<env, manager, proxies, service_ports, http_proxies, listener>>

(* Between bind and accept the task does not yield: an abort waits.        *)
Get(t) ==
    LET n == task[t].name
    IN  /\ task[t].pc = "get"
        /\ http_proxies' = [http_proxies EXCEPT ![n] = HttpProxy(n)]
        /\ task' = [task EXCEPT ![t] = [@ EXCEPT !.pc = "accept", !.http = HttpProxy(n)]]
        /\ UNCHANGED <<env, manager, proxies, service_ports, listener>>

(* Someone still has the task's handle or waits for its port.              *)
Referenced(t) ==
    \/ \E k \in DOMAIN proxies : proxies[k].task = t
    \/ manager.pc = "await" /\ manager.task = t

(* The task ends and its listener is closed.                               *)
End(t) ==
    /\ task[t].pc = "accept" /\ (task[t].aborted \/ shutdown)
    /\ task' = [task EXCEPT ![t] = IF Referenced(t) THEN [@ EXCEPT !.pc = "ended"]
                                   ELSE NoTask]
    /\ UNCHANGED <<env, manager, proxies, service_ports, http_proxies, listener>>

(* accept returns an error, which ends the task.                           *)
AcceptFails(t) ==
    /\ task[t].pc = "accept" /\ changes < MaxChanges
    /\ changes' = changes + 1
    /\ task' = [task EXCEPT ![t] = IF Referenced(t) THEN [@ EXCEPT !.pc = "failed"]
                                   ELSE NoTask]
    /\ UNCHANGED <<dc, known, foreign, shutdown, manager, proxies, service_ports,
                   http_proxies, listener>>

RunProxy(t) == Bind(t) \/ BindFails(t) \/ Get(t) \/ End(t)

-----------------------------------------------------------------------------
(* The HTTP listener. *)

(* A request resolves to a service of the config ...                       *)
Resolve(n) ==
    /\ listener = None
    /\ \E i \in DOMAIN dc : dc[i].name = n /\ Allowed(dc[i])
    /\ listener' = n
    /\ UNCHANGED <<env, manager, proxies, service_ports, http_proxies, task>>

(* ... and is handed to its HttpProxy, or rejected if not all instances    *)
(* speak HTTP by now.                                                      *)
Dispatch ==
    /\ listener # None
    /\ \/ http_proxies' = [http_proxies EXCEPT ![listener] = HttpProxy(listener)]
       \/ UNCHANGED http_proxies
    /\ listener' = None
    /\ UNCHANGED <<env, manager, proxies, service_ports, task>>

-----------------------------------------------------------------------------
(* Around the manager the config and the nodes change, other processes     *)
(* take and release ports, and the daemon is told to stop.                 *)
ChangeConfig == dc' \in Configs \ {dc} /\ UNCHANGED <<known, foreign>>

ChangeNodes == known' \in (SUBSET Node) \ {known} /\ UNCHANGED <<dc, foreign>>

ForeignPorts ==
    /\ \/ \E p \in Port \ Held : foreign' = foreign \cup {p}
       \/ \E p \in foreign : foreign' = foreign \ {p}
    /\ UNCHANGED <<dc, known>>

Change ==
    /\ changes < MaxChanges
    /\ changes' = changes + 1
    /\ ChangeConfig \/ ChangeNodes \/ ForeignPorts
    /\ UNCHANGED <<shutdown, manager, proxies, service_ports, http_proxies, task, listener>>

Shutdown ==
    /\ ~shutdown
    /\ shutdown' = TRUE
    /\ UNCHANGED <<dc, known, foreign, changes, manager, proxies, service_ports,
                   http_proxies, task, listener>>

Next == \/ Manage
        \/ \E t \in Task : RunProxy(t) \/ AcceptFails(t)
        \/ \E n \in Name : Resolve(n)
        \/ Dispatch \/ Change \/ Shutdown

(* tokio runs ready tasks; the interval of manage_proxies keeps ticking.   *)
Fairness == WF_vars(Manage) /\ \A t \in Task : WF_vars(RunProxy(t))

Spec == Init /\ [][Next]_vars /\ Fairness

-----------------------------------------------------------------------------
(* What /services lists is served: each listed name has one handle, whose  *)
(* task is listening on the listed port for that service.  Not while its   *)
(* proxy is being removed, and not once the task died of an accept error,  *)
(* which manage_proxies does not notice, or of the shutdown.               *)
ListedIsServed ==
    \A n \in DOMAIN service_ports :
        \/ manager.pc = "unlist" /\ manager.key[2] = n
        \/ LET ks == {k \in DOMAIN proxies : k[2] = n}
           IN  /\ Cardinality(ks) = 1
               /\ \A k \in ks : LET t == task[proxies[k].task]
                                IN  /\ t.name = n /\ t.port = service_ports[n].port
                                    /\ t.want = proxies[k].port /\ ~t.aborted
                                    /\ \/ t.pc \in {"get", "accept", "failed"}
                                       \/ shutdown

(* No listener is left behind: a task that holds a port and was not        *)
(* aborted is one the manager has a handle of, or is waiting for.          *)
NoOrphan == \A t \in Task : Listening(t) /\ ~task[t].aborted => Referenced(t)

(* A local port that takes connections uses the HttpProxy, and so the      *)
(* balancer, that the HTTP listener uses for the service.                  *)
OneBalancer ==
    \A t \in Task : task[t].pc = "accept" /\ ~task[t].aborted =>
        task[t].http = http_proxies[task[t].name]

(* A desired service is proxied with its port and info, or its port is     *)
(* taken; others are not listed.                                           *)
Settled ==
    LET desired == Desired(dc, known)
    IN  \A n \in Name :
          LET ks == {k \in DOMAIN desired : k[2] = n}
              blocked(p) == IF p = NoPort THEN Ephemeral \subseteq Held
                            ELSE \/ p \in foreign
                                 \/ \E t \in Task : Listening(t) /\ task[t].port = p
                                                    /\ task[t].name # n
          IN  IF ks = {} THEN n \notin DOMAIN service_ports
              ELSE \/ \E k \in ks \cap DOMAIN proxies :
                        /\ proxies[k].port = desired[k].port
                        /\ n \in DOMAIN service_ports
                        /\ service_ports[n].info = desired[k].info
                   \/ n \notin DOMAIN service_ports /\ blocked(LocalPort(dc, n))

(* Once config, nodes and other processes leave off changing, the proxies  *)
(* settle, unless the daemon is stopped: ports are moved and even swapped, *)
(* names change hands between groups, and failed binds are made up for.    *)
Settles == <>[](Settled \/ shutdown)
=============================================================================
