------------------------ MODULE ProxyManager_proofs ------------------------
(***************************************************************************)
(* For any config, any number of services, tasks and changes: what is      *)
(* listed is served, no listener is left behind, and the ports and the     *)
(* shared HTTP listener use the same balancer.                             *)
(***************************************************************************)
EXTENDS ProxyManager, FiniteSetTheorems, TLAPS

(* A set of naturals has a smallest element.                               *)
LEMMA MinFacts ==
    ASSUME NEW S \in SUBSET Nat, S # {}
    PROVE  Min(S) \in S /\ \A x \in S : Min(S) =< x
<1> DEFINE R == OpToRel(<, Nat)
<1>1. \A y, z \in Nat : y < z => <<y, z>> \in R
  BY DEF OpToRel
<1>2. IsWellFoundedOn(R, Nat)
  BY NatLessThanWellFounded
<1> HIDE DEF R
<1>3. PICK x \in S : \A y \in S : <<y, x>> \notin R
  BY <1>2, WFMin
<1>4. ASSUME NEW y \in S
      PROVE  x =< y
  <2>1. x \in Nat /\ y \in Nat /\ ~(y < x)
    BY <1>1, <1>3
  <2> QED BY <2>1
<1>5. \E z \in S : \A y \in S : z =< y
  BY <1>4
<1> QED BY <1>5 DEF Min

(* The task u serves the name n, on the port that was wished for it.       *)
Serves(u, n, want, port, over) ==
    /\ u.name = n /\ u.want = want /\ u.port = port /\ ~u.aborted
    /\ u.pc \in {"get", "accept", "failed"} \/ (u.pc = "ended" /\ over)

(* A name has one handle.  The handle's task is the one that was started   *)
(* for it: it has the listed port and has not been aborted.                *)
Handles ==
    \A k \in DOMAIN proxies :
        /\ \A l \in DOMAIN proxies : l[2] = k[2] => l = k
        /\ k[2] \in DOMAIN service_ports
        /\ Serves(task[proxies[k].task], k[2], proxies[k].port, service_ports[k[2]].port,
                  shutdown)

(* A listed name has a handle, except while its proxy is being removed.    *)
Listed ==
    /\ \A n \in DOMAIN service_ports :
          \/ manager.pc = "unlist" /\ manager.key[2] = n
          \/ \E k \in DOMAIN proxies : k[2] = n
    /\ manager.pc = "unlist" =>
          /\ manager.key \in Key
          /\ \A k \in DOMAIN proxies : k[2] # manager.key[2]

(* What is left to do in a pass: until the removals are done, every proxy  *)
(* either is to be removed or is of a service the config has.              *)
Pass ==
    /\ manager.pc \in {"remove", "unlist"} =>
          /\ manager.todo \subseteq DOMAIN proxies
          /\ DOMAIN proxies \subseteq manager.todo \cup DOMAIN manager.desired
          /\ \A k \in DOMAIN manager.desired : k[2] \in manager.configured
    /\ manager.pc \in {"start", "await"} => manager.todo \subseteq DOMAIN manager.desired

(* The task that the manager waits for is of a name that is not listed.    *)
Awaited ==
    manager.pc = "await" =>
        /\ manager.key \in DOMAIN manager.desired /\ manager.task \in Task
        /\ manager.key[2] \notin DOMAIN service_ports
        /\ LET t == task[manager.task]
           IN  /\ t.name = manager.key[2] /\ t.want = manager.desired[manager.key].port
               /\ ~t.aborted /\ (t.pc = "bind" <=> t.port = NoPort /\ t.pc # "ended")
               /\ t.pc = "ended" => t.port = NoPort \/ shutdown

(* A task that binds is waited for, and one that has a listener without    *)
(* being aborted has a handle too or is waited for.                        *)
TasksAreKnown ==
    \A t \in Task :
        /\ task[t].pc \in {"bind", "get", "accept"} => task[t].name \in Name
        /\ task[t].pc = "bind" => manager.pc = "await" /\ manager.task = t
        /\ Listening(t) /\ ~task[t].aborted => Referenced(t)

(* The HttpProxy of a name stays as long as a port of the name uses it.    *)
SharedBalancer ==
    \A t \in Task : task[t].pc = "accept" /\ ~task[t].aborted =>
        task[t].http = http_proxies[task[t].name] /\ task[t].http # 0

(* The inductive invariant.                                                *)
ManagerInv ==
    /\ TypeOK /\ Handles /\ Listed /\ Pass /\ Awaited /\ TasksAreKnown /\ SharedBalancer
-----------------------------------------------------------------------------
(* Adding a key to a map, and taking one away.                             *)
LEMMA WithMap ==
    ASSUME NEW K, NEW V, NEW f, IsMap(f, K, V), NEW x \in K, NEW v \in V
    PROVE  IsMap(With(f, x, v), K, V)
BY DEF IsMap, With

(* Taking a key away.                                                      *)
LEMMA WithoutMap ==
    ASSUME NEW K, NEW V, NEW f, IsMap(f, K, V), NEW x
    PROVE  IsMap(Without(f, x), K, V)
BY DEF IsMap, Without, Restrict

(* A handle's task has a port.                                             *)
LEMMA HandleTypes ==
    ASSUME TypeOK, Handles, NEW k \in DOMAIN proxies
    PROVE  /\ proxies[k].task \in Task /\ k[2] \in DOMAIN service_ports
           /\ service_ports[k[2]].port # NoPort
           /\ task[proxies[k].task].port # NoPort
           /\ Serves(task[proxies[k].task], k[2], proxies[k].port, service_ports[k[2]].port,
                     shutdown)
<1>1. proxies[k].task \in Task
  BY DEF TypeOK, IsMap, Handle
<1>2. \A n \in DOMAIN service_ports : service_ports[n].port # NoPort
  BY ProxyManagerAssumption DEF TypeOK, IsMap, Listing
<1>3. /\ k[2] \in DOMAIN service_ports
      /\ Serves(task[proxies[k].task], k[2], proxies[k].port, service_ports[k[2]].port, shutdown)
  BY DEF Handles
<1>4. task[proxies[k].task].port = service_ports[k[2]].port
  BY <1>3 DEF Serves
<1> QED BY <1>1, <1>2, <1>3, <1>4

(* local_port_for gives a port or none.                                    *)
LEMMA LocalPortType ==
    ASSUME NEW c \in Seq(Instance), NEW n
    PROVE  LocalPort(c, n) \in Port \cup {NoPort}
<1> DEFINE ports == {c[i].port : i \in {j \in DOMAIN c : c[j].name = n}} \ {NoPort}
<1>1. \A i \in DOMAIN c : c[i] \in Instance
  OBVIOUS
<1>2. ports \subseteq Port
  BY <1>1 DEF Instance
<1>3. Cardinality(ports) = 1 => ports # {}
  BY FS_EmptySet
<1>4. LocalPort(c, n) = IF Cardinality(ports) = 1 THEN CHOOSE p \in ports : TRUE ELSE NoPort
  BY DEF LocalPort
<1> HIDE DEF ports
<1>5. ports # {} => (CHOOSE p \in ports : TRUE) \in ports
  OBVIOUS
<1> QED BY <1>2, <1>3, <1>4, <1>5

(* The desired services are services of the config.                        *)
LEMMA DesiredType ==
    ASSUME NEW c \in Seq(Instance), NEW nodes
    PROVE  /\ IsMap(Desired(c, nodes), Key, Wish)
           /\ \A k \in DOMAIN Desired(c, nodes) : k[2] \in NamesIn(c)
           /\ NamesIn(c) \subseteq Name
<1> DEFINE usable == {i \in DOMAIN c : c[i].node \in nodes /\ Allowed(c[i])}
           of(k) == {i \in usable : <<c[i].group, c[i].name>> = k}
           K == {l \in Key : of(l) # {}}
<1>1. \A i \in DOMAIN c : c[i] \in Instance
  OBVIOUS
<1>2. Desired(c, nodes) = [k \in K |-> [port |-> LocalPort(c, k[2]), info |-> c[Min(of(k))].info]]
  BY DEF Desired
<1>3. ASSUME NEW k \in K
      PROVE  /\ LocalPort(c, k[2]) \in Port \cup {NoPort}
             /\ c[Min(of(k))].info \in Info
             /\ k[2] \in NamesIn(c)
  <2>1. of(k) # {} /\ of(k) \subseteq DOMAIN c
    OBVIOUS
  <2>2. DOMAIN c \subseteq Nat
    OBVIOUS
  <2>3. of(k) \in SUBSET Nat
    BY <2>1, <2>2
  <2>4. PICK i \in DOMAIN c : <<c[i].group, c[i].name>> = k
    BY <2>1
  <2>5. k[2] \in NamesIn(c)
    BY <2>4 DEF NamesIn
  <2>6. Min(of(k)) \in DOMAIN c
    <3> HIDE DEF of
    <3> QED BY <2>1, <2>3, MinFacts
  <2> HIDE DEF of
  <2> QED BY <1>1, <2>5, <2>6, LocalPortType DEF Instance
<1>4. NamesIn(c) \subseteq Name
  BY <1>1 DEF NamesIn, Instance
<1>5. K \subseteq Key
  OBVIOUS
<1> HIDE DEF K, of
<1> QED BY <1>2, <1>3, <1>4, <1>5 DEF IsMap, Wish

(* There are more names for HttpProxies than tasks, so one is fresh.       *)
LEMMA FreshType ==
    ASSUME TypeOK, NEW n
    PROVE  Fresh(n) \in 1 .. MaxTasks + 1
<1> DEFINE users == {u \in Task : task[u].name = n}
           used == {task[t].http : t \in users}
           f == [t \in users |-> task[t].http]
           left == (1 .. MaxTasks + 1) \ used
<1>1. MaxTasks \in Nat /\ IsFiniteSet(Task) /\ Cardinality(Task) = MaxTasks
  BY ProxyManagerAssumption, FS_Interval DEF Task
<1>2. IsFiniteSet(users) /\ Cardinality(users) <= MaxTasks /\ Cardinality(users) \in Nat
  BY <1>1, FS_Subset, FS_CardinalityType
<1>3. f \in Surjection(users, used)
  BY DEF Surjection
<1>4. IsFiniteSet(used) /\ Cardinality(used) <= Cardinality(users) /\ Cardinality(used) \in Nat
  <2> HIDE DEF users, used, f
  <2> QED BY <1>2, <1>3, FS_Surjection, FS_CardinalityType
<1>5. IsFiniteSet(1 .. MaxTasks + 1) /\ Cardinality(1 .. MaxTasks + 1) = MaxTasks + 1
  BY <1>1, FS_Interval
<1>6. left # {}
  <2> HIDE DEF users, used
  <2> SUFFICES ASSUME left = {} PROVE FALSE
    OBVIOUS
  <2>1. 1 .. MaxTasks + 1 \subseteq used
    OBVIOUS
  <2>2. MaxTasks + 1 <= Cardinality(used)
    <3>1. Cardinality(1 .. MaxTasks + 1) <= Cardinality(used)
      BY <1>4, <2>1, FS_Subset
    <3> QED BY <1>5, <3>1
  <2> QED BY <1>1, <1>2, <1>4, <2>2
<1>7. left \in SUBSET Nat
  BY <1>1
<1>8. Fresh(n) = Min(left)
  BY DEF Fresh
<1>9. left \subseteq 1 .. MaxTasks + 1
  OBVIOUS
<1> HIDE DEF left
<1> QED BY <1>6, <1>7, <1>8, <1>9, MinFacts

(* A service's HttpProxy, old or new, is not 0.                            *)
LEMMA HttpProxyType ==
    ASSUME TypeOK, NEW n \in Name
    PROVE  HttpProxy(n) \in 1 .. MaxTasks + 1
BY FreshType, ProxyManagerAssumption DEF HttpProxy, TypeOK

(* A new task takes the place of one that has ended.                       *)
LEMMA FreeTask ==
    ASSUME Free # {}
    PROVE  Min(Free) \in Task /\ task[Min(Free)] = NoTask
<1>1. Task \subseteq Nat
  BY ProxyManagerAssumption DEF Task
<1>2. Free \subseteq Task
  BY DEF Free
<1>3. Min(Free) \in Free
  BY <1>1, <1>2, MinFacts
<1> QED BY <1>3 DEF Free
-----------------------------------------------------------------------------
(* A step that leaves proxies, ports and tasks alone and neither removes   *)
(* nor starts a proxy.                                                     *)
LEMMA QuietStep ==
    ASSUME ManagerInv, TypeOK', Pass', SharedBalancer',
           UNCHANGED <<proxies, service_ports, task>>, shutdown => shutdown',
           \/ manager' = manager
           \/ manager.pc \notin {"unlist", "await"} /\ manager'.pc \notin {"unlist", "await"}
    PROVE  ManagerInv'
<1> USE DEF ManagerInv
<1>1. Handles'
  BY DEF Handles, Serves
<1>2. Listed'
  BY DEF Listed
<1>3. Awaited'
  BY DEF Awaited
<1>4. TasksAreKnown'
  BY DEF TasksAreKnown, Listening, Referenced
<1> QED BY <1>1, <1>2, <1>3, <1>4

(* A pass begins or ends, or the manager stops.                            *)
LEMMA TickKeeps ==
    ASSUME ManagerInv, Tick \/ Stop \/ EndPass
    PROVE  ManagerInv'
<1> USE DEF ManagerInv
<1>1. /\ UNCHANGED <<env, proxies, service_ports, http_proxies, task, listener>>
      /\ manager.pc \in {"tick", "start"}
      /\ \/ manager' = [manager EXCEPT !.pc = "nodes", !.config = dc]
         \/ manager' = [manager EXCEPT !.pc = "done"]
         \/ manager' = Resting
  BY DEF Tick, Stop, EndPass
<1>2. /\ manager' \in Manager(manager'.desired) /\ IsMap(manager'.desired, Key, Wish)
      /\ manager'.pc \in {"nodes", "done", "tick"}
  <2>1. Resting \in Manager(Empty) /\ Resting.desired = Empty /\ Resting.pc = "tick"
    BY ProxyManagerAssumption DEF Manager, Resting
  <2>2. IsMap(Empty, Key, Wish)
    BY DEF IsMap, Empty
  <2>3. CASE manager' = Resting
    BY <2>1, <2>2, <2>3
  <2>4. CASE manager' = [manager EXCEPT !.pc = "nodes", !.config = dc]
    BY <2>4 DEF TypeOK, Manager
  <2>5. CASE manager' = [manager EXCEPT !.pc = "done"]
    BY <2>5 DEF TypeOK, Manager
  <2> QED BY <1>1, <2>3, <2>4, <2>5
<1>3. TypeOK' /\ Pass' /\ SharedBalancer' /\ shutdown' = shutdown
  BY <1>1, <1>2 DEF TypeOK, Pass, SharedBalancer, env
<1> QED BY <1>1, <1>2, <1>3, QuietStep

(* The pass computes what is desired.                                      *)
LEMMA SnapshotKeeps ==
    ASSUME ManagerInv, Snapshot
    PROVE  ManagerInv'
<1> USE DEF ManagerInv
<1> DEFINE desired == Desired(manager.config, known)
<1>1. /\ UNCHANGED <<env, proxies, service_ports, http_proxies, task, listener>>
      /\ manager.pc = "nodes"
      /\ manager' = [manager EXCEPT !.pc = "remove", !.config = <<>>, !.desired = desired,
                        !.configured = NamesIn(manager.config), !.todo = Removed(desired)]
  BY DEF Snapshot
<1>2. manager.config \in Seq(Instance)
  <2>1. manager.config \in Configs \cup {<<>>}
    BY DEF TypeOK, Manager
  <2>2. <<>> \in Seq(Instance)
    OBVIOUS
  <2> QED BY <2>1, <2>2, ProxyManagerAssumption
<1>3. /\ IsMap(desired, Key, Wish) /\ NamesIn(manager.config) \subseteq Name
      /\ \A k \in DOMAIN desired : k[2] \in NamesIn(manager.config)
  BY <1>2, DesiredType
<1> HIDE DEF desired
<1>4. /\ Removed(desired) \subseteq DOMAIN proxies /\ Removed(desired) \subseteq Key
      /\ DOMAIN proxies \subseteq Removed(desired) \cup DOMAIN desired
  BY DEF Removed, TypeOK, IsMap
<1>5. /\ manager' \in Manager(desired) /\ manager'.pc = "remove" /\ manager'.desired = desired
      /\ manager'.todo = Removed(desired) /\ manager'.configured = NamesIn(manager.config)
  BY <1>1, <1>3, <1>4 DEF TypeOK, Manager
<1>6. TypeOK' /\ SharedBalancer' /\ shutdown' = shutdown
  BY <1>1, <1>3, <1>5 DEF TypeOK, SharedBalancer, env
<1>7. Pass'
  BY <1>1, <1>3, <1>4, <1>5 DEF Pass
<1> QED BY <1>1, <1>5, <1>6, <1>7, QuietStep

(* retain drops the HttpProxies of names that the config no longer has.    *)
(* No port uses one of these: the proxies left are of desired services.    *)
LEMMA RetainKeeps ==
    ASSUME ManagerInv, RetainHttp
    PROVE  ManagerInv'
<1> USE DEF ManagerInv
<1>1. /\ UNCHANGED <<env, proxies, service_ports, task, listener>>
      /\ manager.pc = "remove" /\ manager.todo = {}
      /\ http_proxies' = [n \in Name |-> IF n \in manager.configured
                                         THEN http_proxies[n] ELSE 0]
      /\ manager' = [manager EXCEPT !.pc = "start", !.configured = {},
                                    !.todo = DOMAIN manager.desired]
  BY DEF RetainHttp
<1>2. /\ manager' \in Manager(manager.desired) /\ manager'.pc = "start"
      /\ manager'.desired = manager.desired /\ manager'.todo = DOMAIN manager.desired
  BY <1>1 DEF TypeOK, Manager, IsMap
<1>3. TypeOK' /\ Pass' /\ shutdown' = shutdown
  BY <1>1, <1>2, ProxyManagerAssumption DEF TypeOK, Pass, env
<1>4. ASSUME NEW t \in Task, task[t].pc = "accept", ~task[t].aborted
      PROVE  http_proxies'[task[t].name] = http_proxies[task[t].name]
  <2>1. Listening(t) /\ Referenced(t) /\ task[t].name \in Name
    BY <1>4 DEF Listening, TasksAreKnown
  <2>2. PICK k \in DOMAIN proxies : proxies[k].task = t
    BY <1>1, <2>1 DEF Referenced
  <2>3. task[t].name = k[2] /\ k \in DOMAIN manager.desired
    BY <1>1, <2>2 DEF Handles, Serves, Pass
  <2>4. k[2] \in manager.configured
    BY <1>1, <2>3 DEF Pass
  <2> QED BY <1>1, <2>1, <2>3, <2>4
<1>5. SharedBalancer'
  BY <1>1, <1>4 DEF SharedBalancer
<1> QED BY <1>1, <1>2, <1>3, <1>5, QuietStep

(* The name is proxied for another group: the key is skipped.              *)
LEMMA SkipKeeps ==
    ASSUME ManagerInv, NEW k \in Key, SkipTaken(k)
    PROVE  ManagerInv'
<1> USE DEF ManagerInv
<1>1. /\ UNCHANGED <<env, proxies, service_ports, http_proxies, task, listener>>
      /\ manager.pc = "start" /\ manager' = [manager EXCEPT !.todo = manager.todo \ {k}]
  BY DEF SkipTaken
<1>2. /\ manager' \in Manager(manager.desired) /\ manager'.pc = "start"
      /\ manager'.desired = manager.desired /\ manager'.todo \subseteq manager.todo
  BY <1>1 DEF TypeOK, Manager
<1>3. TypeOK' /\ Pass' /\ SharedBalancer' /\ shutdown' = shutdown
  BY <1>1, <1>2 DEF TypeOK, Pass, SharedBalancer, env
<1> QED BY <1>1, <1>2, <1>3, QuietStep

(* The HTTP listener, the changes around the manager and the shutdown.     *)
LEMMA OutsideKeeps ==
    ASSUME ManagerInv, Dispatch \/ Change \/ Shutdown \/ \E n \in Name : Resolve(n)
    PROVE  ManagerInv'
<1> USE DEF ManagerInv
<1>1. UNCHANGED <<manager, proxies, service_ports, task>>
  BY DEF Dispatch, Change, Shutdown, Resolve
<1>2. shutdown' \in BOOLEAN /\ (shutdown => shutdown')
  BY DEF Dispatch, Change, Shutdown, Resolve, env, TypeOK
<1>3. dc' \in Configs /\ known' \subseteq Node /\ foreign' \subseteq Port
      /\ changes' \in 0 .. MaxChanges
  BY ProxyManagerAssumption DEF Dispatch, Change, Shutdown, Resolve, env, TypeOK,
     ChangeConfig, ChangeNodes, ForeignPorts
<1>4. listener' \in Name \cup {None}
  BY DEF Dispatch, Change, Shutdown, Resolve, TypeOK
<1>5. \/ UNCHANGED http_proxies
      \/ /\ listener \in Name
         /\ http_proxies' = [http_proxies EXCEPT ![listener] = HttpProxy(listener)]
  BY DEF Dispatch, Change, Shutdown, Resolve, TypeOK
<1>6. /\ http_proxies' \in [Name -> 0 .. MaxTasks + 1]
      /\ \A n \in Name : http_proxies[n] # 0 => http_proxies'[n] = http_proxies[n]
  <2>1. CASE UNCHANGED http_proxies
    BY <2>1 DEF TypeOK
  <2>2. CASE /\ listener \in Name
             /\ http_proxies' = [http_proxies EXCEPT ![listener] = HttpProxy(listener)]
    <3>1. HttpProxy(listener) \in 0 .. MaxTasks + 1
      BY <2>2, HttpProxyType
    <3> QED BY <2>2, <3>1 DEF TypeOK, HttpProxy
  <2> QED BY <1>5, <2>1, <2>2
<1>7. TypeOK'
  BY <1>1, <1>2, <1>3, <1>4, <1>6 DEF TypeOK
<1>8. Pass' /\ SharedBalancer'
  BY <1>1, <1>6 DEF Pass, SharedBalancer, TasksAreKnown
<1> QED BY <1>1, <1>2, <1>7, <1>8, QuietStep
-----------------------------------------------------------------------------
(* A task that has ended and left nothing.                                 *)
LEMMA NoTaskType ==
    /\ NoTask \in ProxyTask /\ NoTask.pc = "ended" /\ NoTask.port = NoPort
    /\ NoTask.aborted = FALSE /\ 0 \in 0 .. MaxTasks
<1>1. 0 \in 0 .. MaxTasks + 1 /\ 0 \in 0 .. MaxTasks
  BY ProxyManagerAssumption
<1> QED BY <1>1 DEF NoTask, ProxyTask

(* Removing a proxy: its task is aborted, or has ended already.            *)
LEMMA AbortKeeps ==
    ASSUME ManagerInv, NEW k \in Key, AbortProxy(k)
    PROVE  ManagerInv'
<1> USE DEF ManagerInv
<1> DEFINE t == proxies[k].task
<1>1. /\ UNCHANGED <<env, service_ports, http_proxies, listener>>
      /\ manager.pc = "remove" /\ k \in manager.todo /\ k \in DOMAIN proxies
      /\ proxies' = Without(proxies, k)
      /\ task' = [task EXCEPT ![t] = IF Listening(t) THEN [task[t] EXCEPT !.aborted = TRUE]
                                     ELSE NoTask]
      /\ manager' = [manager EXCEPT !.pc = "unlist", !.key = k, !.todo = manager.todo \ {k}]
  BY DEF AbortProxy, Abort, Pass
<1>2. /\ manager' \in Manager(manager.desired) /\ manager'.pc = "unlist"
      /\ manager'.desired = manager.desired /\ manager'.todo = manager.todo \ {k}
      /\ manager'.key = k /\ manager'.configured = manager.configured
  BY <1>1 DEF TypeOK, Manager
<1>3. /\ IsMap(proxies', Key, Handle)
      /\ DOMAIN proxies' = DOMAIN proxies \ {k}
      /\ \A l \in DOMAIN proxies \ {k} : proxies'[l] = proxies[l]
  <2>1. IsMap(proxies, Key, Handle)
    BY DEF TypeOK
  <2>2. proxies' = Without(proxies, k)
    BY <1>1
  <2>3. IsMap(Without(proxies, k), Key, Handle)
    BY <2>1, WithoutMap
  <2> QED BY <2>2, <2>3 DEF Without, Restrict
<1>4. t \in Task /\ task[t] \in ProxyTask /\ task[t].name = k[2]
  BY <1>1 DEF TypeOK, IsMap, Handles, Serves, Handle
<1>5. /\ task' \in [Task -> ProxyTask] /\ \A u \in Task \ {t} : task'[u] = task[u]
      /\ Listening(t) => task'[t] = [task[t] EXCEPT !.aborted = TRUE]
      /\ Listening(t) => task'[t].aborted /\ task'[t].name = task[t].name
      /\ ~Listening(t) => task'[t] = NoTask
  <2>1. /\ [task[t] EXCEPT !.aborted = TRUE] \in ProxyTask
        /\ [task[t] EXCEPT !.aborted = TRUE].aborted
        /\ [task[t] EXCEPT !.aborted = TRUE].name = task[t].name
    BY <1>4 DEF ProxyTask
  <2> QED BY <1>1, <1>4, <2>1, NoTaskType DEF TypeOK
<1> HIDE DEF t
<1>6. TypeOK' /\ shutdown' = shutdown
  BY <1>1, <1>2, <1>3, <1>5 DEF TypeOK, env
<1>7. \A l \in DOMAIN proxies \ {k} : proxies[l].task \in Task \ {t} /\ l[2] # k[2]
  BY <1>1, <1>4 DEF Handles, Serves, TypeOK, IsMap, Handle
<1>8. Handles'
  BY <1>1, <1>3, <1>5, <1>6, <1>7 DEF Handles
<1>9. Listed'
  <2>1. ASSUME NEW n \in DOMAIN service_ports
        PROVE  k[2] = n \/ \E l \in DOMAIN proxies' : l[2] = n
    <3>1. PICK l \in DOMAIN proxies : l[2] = n
      BY <1>1, <2>1 DEF Listed
    <3> QED BY <1>3, <3>1
  <2> QED BY <1>1, <1>2, <1>3, <1>7, <2>1 DEF Listed
<1>10. Pass'
  BY <1>1, <1>2, <1>3 DEF Pass
<1>11. Awaited'
  BY <1>2 DEF Awaited
<1>12. \/ task'[t].pc = "ended"
       \/ task'[t].aborted /\ Listening(t) /\ task'[t].name = task[t].name
  <2>1. CASE Listening(t)
    BY <1>5, <2>1
  <2>2. CASE ~Listening(t)
    <3>1. task'[t] = NoTask
      BY <1>5, <2>2
    <3> QED BY <3>1, NoTaskType
  <2> QED BY <2>1, <2>2
<1>13. TasksAreKnown'
  <2>1. ASSUME NEW u \in Task
        PROVE  /\ task'[u].pc \in {"bind", "get", "accept"} => task'[u].name \in Name
               /\ task'[u].pc # "bind"
               /\ Listening(u)' /\ ~task'[u].aborted => Referenced(u)'
    <3>1. CASE u = t
      <4>1. k[2] \in Name
        BY DEF Key
      <4>2. task'[t].pc # "bind"
        BY <1>4, <1>5 DEF ProxyTask, NoTask, Listening
      <4> QED BY <1>4, <1>12, <3>1, <4>1, <4>2 DEF Listening
    <3>2. CASE u # t
      <4>1. task'[u] = task[u] /\ task[u].pc # "bind"
        BY <1>1, <1>5, <3>2 DEF TasksAreKnown
      <4>2. ASSUME Listening(u), ~task[u].aborted
            PROVE  Referenced(u)'
        <5>1. PICK l \in DOMAIN proxies : proxies[l].task = u
          BY <1>1, <4>2 DEF TasksAreKnown, Referenced
        <5>2. l # k
          BY <3>2, <5>1 DEF t
        <5> QED BY <1>3, <5>1, <5>2 DEF Referenced
      <4> QED BY <4>1, <4>2 DEF TasksAreKnown, Listening
    <3> QED BY <3>1, <3>2
  <2> QED BY <2>1 DEF TasksAreKnown
<1>14. SharedBalancer'
  BY <1>1, <1>5, <1>12 DEF SharedBalancer
<1> QED BY <1>6, <1>8, <1>9, <1>10, <1>11, <1>13, <1>14

(* The removed proxy's port is no longer listed.                           *)
LEMMA UnlistKeeps ==
    ASSUME ManagerInv, Unlist
    PROVE  ManagerInv'
<1> USE DEF ManagerInv
<1> DEFINE n == manager.key[2]
<1>1. /\ UNCHANGED <<env, proxies, http_proxies, task, listener>>
      /\ manager.pc = "unlist" /\ manager.key \in Key
      /\ service_ports' = Without(service_ports, n)
      /\ manager' = [manager EXCEPT !.pc = "remove", !.key = None]
  BY DEF Unlist, Listed
<1>2. /\ manager' \in Manager(manager.desired) /\ manager'.pc = "remove"
      /\ manager'.desired = manager.desired /\ manager'.todo = manager.todo
      /\ manager'.configured = manager.configured
  BY <1>1 DEF TypeOK, Manager
<1>3. /\ IsMap(service_ports', Name, Listing)
      /\ DOMAIN service_ports' = DOMAIN service_ports \ {n}
      /\ \A m \in DOMAIN service_ports \ {n} : service_ports'[m] = service_ports[m]
  <2>1. IsMap(service_ports, Name, Listing)
    BY DEF TypeOK
  <2> HIDE DEF n
  <2>2. service_ports' = Without(service_ports, n)
    BY <1>1
  <2>3. IsMap(Without(service_ports, n), Name, Listing)
    BY <2>1, WithoutMap
  <2> QED BY <2>2, <2>3 DEF Without, Restrict
<1>4. TypeOK' /\ shutdown' = shutdown
  BY <1>1, <1>2, <1>3 DEF TypeOK, env
<1>5. \A k \in DOMAIN proxies : k[2] # n
  BY <1>1 DEF Listed
<1> HIDE DEF n
<1>6. Handles'
  BY <1>1, <1>3, <1>4, <1>5 DEF Handles, Serves
<1>7. Listed'
  BY <1>1, <1>2, <1>3 DEF Listed, n
<1>8. Pass' /\ Awaited'
  BY <1>1, <1>2 DEF Pass, Awaited
<1>9. TasksAreKnown'
  BY <1>1, <1>2 DEF TasksAreKnown, Listening, Referenced
<1>10. SharedBalancer'
  BY <1>1 DEF SharedBalancer
<1> QED BY <1>4, <1>6, <1>7, <1>8, <1>9, <1>10

(* A proxy that stays gets new domains and meta.                           *)
LEMMA RefreshKeeps ==
    ASSUME ManagerInv, NEW k \in Key, Refresh(k)
    PROVE  ManagerInv'
<1> USE DEF ManagerInv
<1> DEFINE new == [service_ports[k[2]] EXCEPT !.info = manager.desired[k].info]
<1>1. /\ UNCHANGED <<env, proxies, http_proxies, task, listener>>
      /\ manager.pc = "start" /\ k \in manager.todo /\ k \in DOMAIN proxies
      /\ manager' = [manager EXCEPT !.todo = manager.todo \ {k}]
      /\ k[2] \in DOMAIN service_ports /\ service_ports' = [service_ports EXCEPT ![k[2]] = new]
  BY DEF Refresh, Handles, Serves
<1>2. /\ manager' \in Manager(manager.desired) /\ manager'.pc = "start"
      /\ manager'.desired = manager.desired /\ manager'.todo \subseteq manager.todo
  BY <1>1 DEF TypeOK, Manager
<1>3. k \in DOMAIN manager.desired /\ manager.desired[k] \in Wish
  BY <1>1 DEF Pass, TypeOK, IsMap
<1>4. new \in Listing /\ new.port = service_ports[k[2]].port
  <2>1. service_ports[k[2]] \in Listing
    BY <1>1 DEF TypeOK, IsMap
  <2> QED BY <1>3, <2>1 DEF Wish, Listing
<1> HIDE DEF new
<1>5. /\ IsMap(service_ports', Name, Listing)
      /\ DOMAIN service_ports' = DOMAIN service_ports
      /\ \A n \in DOMAIN service_ports : service_ports'[n].port = service_ports[n].port
  BY <1>1, <1>4 DEF TypeOK, IsMap
<1>6. TypeOK' /\ shutdown' = shutdown
  BY <1>1, <1>2, <1>5 DEF TypeOK, env
<1>7. Handles' /\ Listed'
  BY <1>1, <1>2, <1>5, <1>6 DEF Handles, Serves, Listed
<1>8. Pass' /\ Awaited'
  BY <1>1, <1>2 DEF Pass, Awaited
<1>9. TasksAreKnown'
  BY <1>1, <1>2 DEF TasksAreKnown, Listening, Referenced
<1>10. SharedBalancer'
  BY <1>1 DEF SharedBalancer
<1> QED BY <1>6, <1>7, <1>8, <1>9, <1>10

(* A task is started only for a name that is not listed.                   *)
LEMMA SpawnKeeps ==
    ASSUME ManagerInv, NEW k \in Key, Spawn(k)
    PROVE  ManagerInv'
<1> USE DEF ManagerInv
<1> DEFINE t == Min(Free)
           new == [NoTask EXCEPT !.pc = "bind", !.name = k[2],
                                 !.want = manager.desired[k].port]
<1>1. t \in Task /\ task[t] = NoTask
  BY FreeTask DEF Spawn
<1>2. /\ UNCHANGED <<env, proxies, service_ports, http_proxies, listener>>
      /\ manager.pc = "start" /\ k \in manager.todo /\ k \notin DOMAIN proxies
      /\ k[2] \notin DOMAIN service_ports
      /\ task' = [task EXCEPT ![t] = new]
      /\ manager' = [manager EXCEPT !.pc = "await", !.key = k, !.task = t,
                                    !.todo = manager.todo \ {k}]
  BY <1>1 DEF Spawn, TypeOK
<1>3. k \in DOMAIN manager.desired /\ manager.desired[k].port \in Port \cup {NoPort}
      /\ k[2] \in Name
  BY <1>2 DEF Pass, TypeOK, IsMap, Wish, Key
<1>4. /\ new \in ProxyTask /\ new.pc = "bind" /\ new.name = k[2] /\ ~new.aborted
      /\ new.want = manager.desired[k].port /\ new.port = NoPort
  <2>1. NoTask \in ProxyTask /\ NoTask.port = NoPort /\ NoTask.aborted = FALSE
    BY NoTaskType
  <2> QED BY <1>3, <2>1 DEF ProxyTask
<1> HIDE DEF t, new
<1>5. /\ manager' \in Manager(manager.desired) /\ manager'.pc = "await"
      /\ manager'.desired = manager.desired /\ manager'.todo \subseteq manager.todo
      /\ manager'.key = k /\ manager'.task = t
  <2>1. t \in 0 .. MaxTasks
    BY <1>1 DEF Task
  <2> QED BY <1>2, <2>1 DEF TypeOK, Manager
<1>6. task' \in [Task -> ProxyTask] /\ task'[t] = new /\ \A u \in Task \ {t} : task'[u] = task[u]
  BY <1>1, <1>2, <1>4 DEF TypeOK
<1>7. TypeOK' /\ shutdown' = shutdown
  BY <1>2, <1>5, <1>6 DEF TypeOK, env
<1>8. \A l \in DOMAIN proxies : proxies[l].task \in Task \ {t}
  <2>1. \A l \in DOMAIN proxies : proxies[l].task \in Task /\ task[proxies[l].task].port # NoPort
    BY HandleTypes
  <2> QED BY <1>1, <2>1 DEF NoTask
<1>9. Handles' /\ Listed'
  BY <1>2, <1>5, <1>6, <1>7, <1>8 DEF Handles, Serves, Listed
<1>10. Pass' /\ Awaited'
  BY <1>1, <1>2, <1>3, <1>4, <1>5, <1>6 DEF Pass, Awaited
<1>11. TasksAreKnown'
  <2>1. \A u \in Task \ {t} : Referenced(u) => Referenced(u)'
    BY <1>2 DEF Referenced
  <2> QED BY <1>2, <1>3, <1>4, <1>5, <1>6, <2>1 DEF TasksAreKnown, Listening
<1>12. SharedBalancer'
  BY <1>2, <1>4, <1>6 DEF SharedBalancer
<1> QED BY <1>7, <1>9, <1>10, <1>11, <1>12

(* The port is listed under the name, and the task gets its handle.        *)
LEMMA StartedKeeps ==
    ASSUME ManagerInv, Started
    PROVE  ManagerInv'
<1> USE DEF ManagerInv
<1> DEFINE k == manager.key
           t == manager.task
           d == manager.desired[k]
           listed == [port |-> task[t].port, info |-> d.info]
           handle == [task |-> t, port |-> d.port]
<1>1. /\ UNCHANGED <<env, http_proxies, task, listener>>
      /\ manager.pc = "await" /\ task[t].port # NoPort
      /\ service_ports' = With(service_ports, k[2], listed)
      /\ proxies' = With(proxies, k, handle)
      /\ manager' = [manager EXCEPT !.pc = "start", !.key = None, !.task = 0]
  BY DEF Started
<1>2. /\ k \in DOMAIN manager.desired /\ t \in Task /\ k[2] \notin DOMAIN service_ports
      /\ task[t].name = k[2] /\ task[t].want = d.port /\ ~task[t].aborted
      /\ task[t].pc \in {"get", "accept", "failed"} \/ (task[t].pc = "ended" /\ shutdown)
  <2>1. task[t] \in ProxyTask
    BY <1>1 DEF Awaited, TypeOK
  <2> QED BY <1>1, <2>1 DEF Awaited, ProxyTask
<1>3. k \in Key /\ k[2] \in Name /\ d \in Wish /\ task[t] \in ProxyTask
  BY <1>2 DEF TypeOK, IsMap, Key
<1>4. /\ listed \in Listing /\ listed.port = task[t].port
      /\ handle \in Handle
      /\ handle.task = t /\ handle.port = d.port
  BY <1>1, <1>2, <1>3 DEF Wish, ProxyTask, Handle, Listing
<1>5. /\ manager' \in Manager(manager.desired) /\ manager'.pc = "start"
      /\ manager'.desired = manager.desired /\ manager'.todo = manager.todo
  BY <1>1, NoTaskType DEF TypeOK, Manager
<1> HIDE DEF k, t, d, listed, handle
<1>6. /\ IsMap(service_ports', Name, Listing)
      /\ DOMAIN service_ports' = DOMAIN service_ports \cup {k[2]}
      /\ service_ports'[k[2]] = listed
      /\ \A n \in DOMAIN service_ports \ {k[2]} : service_ports'[n] = service_ports[n]
  <2>1. IsMap(service_ports, Name, Listing)
    BY DEF TypeOK
  <2>2. service_ports' = With(service_ports, k[2], listed)
    BY <1>1
  <2>3. IsMap(With(service_ports, k[2], listed), Name, Listing)
    BY <1>3, <1>4, <2>1, WithMap
  <2> QED BY <2>2, <2>3 DEF With
<1>7. /\ IsMap(proxies', Key, Handle)
      /\ DOMAIN proxies' = DOMAIN proxies \cup {k} /\ proxies'[k] = handle
      /\ \A l \in DOMAIN proxies \ {k} : proxies'[l] = proxies[l]
  <2>1. IsMap(proxies, Key, Handle)
    BY DEF TypeOK
  <2>2. proxies' = With(proxies, k, handle)
    BY <1>1
  <2>3. IsMap(With(proxies, k, handle), Key, Handle)
    BY <1>3, <1>4, <2>1, WithMap
  <2> QED BY <2>2, <2>3 DEF With
<1>8. TypeOK' /\ shutdown' = shutdown
  BY <1>1, <1>5, <1>6, <1>7 DEF TypeOK, env
<1>9. \A l \in DOMAIN proxies : l # k /\ l[2] # k[2] /\ l[2] \in DOMAIN service_ports
  BY <1>2 DEF Handles, Serves
<1>10. Handles'
  <2>1. ASSUME NEW l \in DOMAIN proxies
        PROVE  /\ \A m \in DOMAIN proxies' : m[2] = l[2] => m = l
               /\ l[2] \in DOMAIN service_ports'
               /\ Serves(task'[proxies'[l].task], l[2], proxies'[l].port,
                         service_ports'[l[2]].port, shutdown')
    BY <1>1, <1>6, <1>7, <1>8, <1>9 DEF Handles
  <2>2. /\ \A m \in DOMAIN proxies' : m[2] = k[2] => m = k
        /\ k[2] \in DOMAIN service_ports'
        /\ LET u == task'[proxies'[k].task]
           IN  /\ u.name = k[2] /\ u.want = proxies'[k].port
               /\ u.port = service_ports'[k[2]].port /\ ~u.aborted
               /\ \/ u.pc \in {"get", "accept", "failed"}
                  \/ u.pc = "ended" /\ shutdown'
    BY <1>1, <1>2, <1>4, <1>6, <1>7, <1>8, <1>9
  <2> QED BY <1>7, <2>1, <2>2 DEF Handles, Serves
<1>11. Listed'
  BY <1>1, <1>5, <1>6, <1>7 DEF Listed
<1>12. Pass' /\ Awaited'
  BY <1>1, <1>5 DEF Pass, Awaited
<1>13. TasksAreKnown'
  <2>1. ASSUME NEW u \in Task, Referenced(u)
        PROVE  Referenced(u)'
    <3>1. CASE u = t
      BY <1>4, <1>7, <3>1 DEF Referenced
    <3>2. CASE u # t
      <4>1. PICK l \in DOMAIN proxies : proxies[l].task = u
        BY <2>1, <3>2 DEF Referenced, t
      <4> QED BY <1>7, <1>9, <4>1 DEF Referenced
    <3> QED BY <3>1, <3>2
  <2>2. \A u \in Task : task[u].pc # "bind"
    BY <1>1, <1>2 DEF TasksAreKnown, t
  <2> QED BY <1>1, <2>1, <2>2 DEF TasksAreKnown, Listening
<1>14. SharedBalancer'
  BY <1>1 DEF SharedBalancer
<1> QED BY <1>8, <1>10, <1>11, <1>12, <1>13, <1>14

(* The task did not bind its port: nothing is listed.                      *)
LEMMA NotStartedKeeps ==
    ASSUME ManagerInv, NotStarted
    PROVE  ManagerInv'
<1> USE DEF ManagerInv
<1> DEFINE t == manager.task
<1>1. /\ UNCHANGED <<env, proxies, service_ports, http_proxies, listener>>
      /\ manager.pc = "await" /\ task[t].port = NoPort
      /\ task' = [task EXCEPT ![t] = NoTask]
      /\ manager' = [manager EXCEPT !.pc = "start", !.key = None, !.task = 0]
  BY DEF NotStarted
<1>2. t \in Task
  BY <1>1 DEF Awaited
<1>3. /\ manager' \in Manager(manager.desired) /\ manager'.pc = "start"
      /\ manager'.desired = manager.desired /\ manager'.todo = manager.todo
  BY <1>1, NoTaskType DEF TypeOK, Manager
<1> HIDE DEF t
<1>4. /\ task' \in [Task -> ProxyTask] /\ task'[t] = NoTask
      /\ \A u \in Task \ {t} : task'[u] = task[u]
  BY <1>1, <1>2, ProxyManagerAssumption DEF TypeOK, ProxyTask, NoTask
<1>5. TypeOK' /\ shutdown' = shutdown
  BY <1>1, <1>3, <1>4 DEF TypeOK, env
<1>6. \A l \in DOMAIN proxies : proxies[l].task \in Task \ {t}
  BY <1>1, HandleTypes
<1>7. Handles' /\ Listed'
  BY <1>1, <1>3, <1>4, <1>5, <1>6 DEF Handles, Serves, Listed
<1>8. Pass' /\ Awaited'
  BY <1>1, <1>3 DEF Pass, Awaited
<1>9. TasksAreKnown'
  <2>1. \A u \in Task \ {t} : Referenced(u) => Referenced(u)'
    BY <1>1 DEF Referenced, t
  <2>2. \A u \in Task \ {t} : task[u].pc # "bind"
    BY DEF TasksAreKnown, t
  <2> QED BY <1>1, <1>4, <2>1, <2>2 DEF TasksAreKnown, Listening, NoTask
<1>10. SharedBalancer'
  BY <1>1, <1>4 DEF SharedBalancer, NoTask
<1> QED BY <1>5, <1>7, <1>8, <1>9, <1>10
-----------------------------------------------------------------------------
(* The manager has a handle of t.                                          *)
HasHandle(t) == \E k \in DOMAIN proxies : proxies[k].task = t

(* The manager started t and awaits its port.                              *)
IsAwaited(t) == manager.pc = "await" /\ manager.task = t

(* A step of the task t, which becomes new.                                *)
LEMMA OneTask ==
    ASSUME ManagerInv, TypeOK', SharedBalancer', NEW t \in Task, NEW new \in ProxyTask,
           task' = [task EXCEPT ![t] = new],
           UNCHANGED <<manager, proxies, service_ports, shutdown>>,
           new.pc # "bind",
           new.pc \in {"get", "accept"} =>
               new.name \in Name /\ (new.aborted \/ Referenced(t)),
           Referenced(t) =>
               /\ new.name = task[t].name /\ new.want = task[t].want
               /\ new.aborted = task[t].aborted
               /\ new.port = NoPort <=> task[t].pc = "bind" /\ new.pc = "ended"
               /\ new.pc = "ended" => new.port = NoPort \/ shutdown,
           HasHandle(t) => new.port = task[t].port
    PROVE  ManagerInv'
<1> USE DEF ManagerInv
<1>1. task'[t] = new /\ \A u \in Task \ {t} : task'[u] = task[u]
  BY DEF TypeOK
<1>2. \A u \in Task : Referenced(u)' <=> Referenced(u)
  BY DEF Referenced
<1>3. Handles'
  <2> SUFFICES ASSUME NEW k \in DOMAIN proxies
               PROVE  Serves(task'[proxies[k].task], k[2], proxies[k].port,
                             service_ports[k[2]].port, shutdown)
    BY DEF Handles
  <2>1. /\ proxies[k].task \in Task /\ service_ports[k[2]].port # NoPort
        /\ Serves(task[proxies[k].task], k[2], proxies[k].port, service_ports[k[2]].port,
                  shutdown)
    BY HandleTypes
  <2>2. CASE proxies[k].task = t
    <3>1. Referenced(t) /\ HasHandle(t)
      BY <2>2 DEF Referenced, HasHandle
    <3>2. Serves(task[t], k[2], proxies[k].port, service_ports[k[2]].port, shutdown)
      BY <2>1, <2>2
    <3>3. /\ new.name = k[2] /\ new.want = proxies[k].port /\ ~new.aborted
          /\ new.port = service_ports[k[2]].port
      BY <3>1, <3>2 DEF Serves
    <3>4. new.pc \in {"get", "accept", "failed"} \/ (new.pc = "ended" /\ shutdown)
      BY <2>1, <3>1, <3>3 DEF ProxyTask
    <3>5. Serves(new, k[2], proxies[k].port, service_ports[k[2]].port, shutdown)
      BY <3>3, <3>4 DEF Serves
    <3> QED BY <1>1, <2>2, <3>5
  <2>3. CASE proxies[k].task # t
    BY <1>1, <2>1, <2>3
  <2> QED BY <2>2, <2>3
<1>4. Listed' /\ Pass'
  BY DEF Listed, Pass
<1>5. Awaited'
  <2> SUFFICES ASSUME manager.pc = "await"
               PROVE  LET u == task'[manager.task]
                      IN  /\ u.name = manager.key[2]
                          /\ u.want = manager.desired[manager.key].port
                          /\ ~u.aborted /\ (u.pc = "bind" <=> u.port = NoPort /\ u.pc # "ended")
                          /\ u.pc = "ended" => u.port = NoPort \/ shutdown
    BY DEF Awaited
  <2>1. CASE manager.task = t
    <3>1. Referenced(t)
      BY <2>1 DEF Referenced
    <3> QED BY <1>1, <2>1, <3>1 DEF Awaited
  <2>2. CASE manager.task # t
    BY <1>1, <2>2 DEF Awaited
  <2> QED BY <2>1, <2>2
<1>6. TasksAreKnown'
  <2>1. \A u \in Task \ {t} : Listening(u)' <=> Listening(u)
    BY <1>1 DEF Listening
  <2>2. Listening(t)' <=> new.pc \in {"get", "accept"}
    BY <1>1 DEF Listening
  <2>3. \A u \in Task \ {t} :
           /\ task'[u].pc \in {"bind", "get", "accept"} => task'[u].name \in Name
           /\ task'[u].pc = "bind" => manager'.pc = "await" /\ manager'.task = u
           /\ Listening(u)' /\ ~task'[u].aborted => Referenced(u)'
    BY <1>1, <1>2, <2>1 DEF TasksAreKnown
  <2> QED BY <1>1, <1>2, <2>2, <2>3 DEF TasksAreKnown
<1> QED BY <1>3, <1>4, <1>5, <1>6

(* What a task that is referenced looks like.                              *)
LEMMA ReferencedTask ==
    ASSUME ManagerInv, NEW t \in Task
    PROVE  /\ task[t] \in ProxyTask
           /\ Referenced(t) <=> HasHandle(t) \/ IsAwaited(t)
           /\ HasHandle(t) => task[t].port # NoPort /\ ~task[t].aborted
           /\ IsAwaited(t) => /\ ~task[t].aborted
                              /\ task[t].pc = "bind" <=>
                                    task[t].port = NoPort /\ task[t].pc # "ended"
           /\ task[t].pc = "bind" => IsAwaited(t) /\ ~HasHandle(t)
<1> USE DEF ManagerInv
<1>1. task[t] \in ProxyTask
  BY DEF TypeOK
<1>2. Referenced(t) <=> HasHandle(t) \/ IsAwaited(t)
  BY DEF Referenced, HasHandle, IsAwaited
<1>3. HasHandle(t) => task[t].port # NoPort /\ ~task[t].aborted /\ task[t].pc # "bind"
  BY HandleTypes DEF HasHandle, Serves
<1>4. IsAwaited(t) => /\ ~task[t].aborted
                      /\ task[t].pc = "bind" <=> task[t].port = NoPort /\ task[t].pc # "ended"
  BY DEF IsAwaited, Awaited
<1>5. task[t].pc = "bind" => IsAwaited(t)
  BY DEF TasksAreKnown, IsAwaited
<1> QED BY <1>1, <1>2, <1>3, <1>4, <1>5

(* run_proxy binds its port, or cannot.                                    *)
LEMMA BindKeeps ==
    ASSUME ManagerInv, NEW t \in Task, Bind(t) \/ BindFails(t)
    PROVE  ManagerInv'
<1>1. /\ UNCHANGED <<env, manager, proxies, service_ports, http_proxies, listener>>
      /\ task[t].pc = "bind"
  BY DEF Bind, BindFails
<1>2. /\ task[t] \in ProxyTask /\ task[t].name \in Name /\ Referenced(t) /\ ~HasHandle(t)
      /\ ~task[t].aborted /\ task[t].port = NoPort
  BY <1>1, ReferencedTask DEF ManagerInv, TasksAreKnown
<1>3. PICK new \in ProxyTask :
        /\ task' = [task EXCEPT ![t] = new]
        /\ new.name = task[t].name /\ new.want = task[t].want
        /\ new.aborted = task[t].aborted
        /\ \/ new.pc = "get" /\ new.port # NoPort
           \/ new.pc = "ended" /\ new.port = NoPort
  <2>1. CASE Bind(t)
    <3>1. PICK p \in (IF task[t].want = NoPort THEN Ephemeral ELSE {task[t].want}) \ Held :
            task' = [task EXCEPT ![t] = [task[t] EXCEPT !.pc = "get", !.port = p]]
      BY <2>1 DEF Bind, ManagerInv, TypeOK
    <3>2. p \in Port /\ p # NoPort
      BY <1>2, <3>1, ProxyManagerAssumption DEF ProxyTask
    <3>3. /\ [task[t] EXCEPT !.pc = "get", !.port = p] \in ProxyTask
          /\ [task[t] EXCEPT !.pc = "get", !.port = p].name = task[t].name
          /\ [task[t] EXCEPT !.pc = "get", !.port = p].want = task[t].want
          /\ [task[t] EXCEPT !.pc = "get", !.port = p].aborted = task[t].aborted
          /\ [task[t] EXCEPT !.pc = "get", !.port = p].pc = "get"
          /\ [task[t] EXCEPT !.pc = "get", !.port = p].port = p
      BY <1>2, <3>2 DEF ProxyTask
    <3> QED BY <3>1, <3>2, <3>3
  <2>2. CASE BindFails(t)
    <3>1. task' = [task EXCEPT ![t] = [task[t] EXCEPT !.pc = "ended"]]
      BY <2>2 DEF BindFails, ManagerInv, TypeOK
    <3>2. /\ [task[t] EXCEPT !.pc = "ended"] \in ProxyTask
          /\ [task[t] EXCEPT !.pc = "ended"].name = task[t].name
          /\ [task[t] EXCEPT !.pc = "ended"].want = task[t].want
          /\ [task[t] EXCEPT !.pc = "ended"].aborted = task[t].aborted
          /\ [task[t] EXCEPT !.pc = "ended"].pc = "ended"
          /\ [task[t] EXCEPT !.pc = "ended"].port = NoPort
      BY <1>2 DEF ProxyTask
    <3> QED BY <3>1, <3>2
  <2> QED BY <2>1, <2>2
<1>4. TypeOK' /\ shutdown' = shutdown
  BY <1>1, <1>3 DEF ManagerInv, TypeOK, env
<1>5. SharedBalancer'
  BY <1>1, <1>3 DEF ManagerInv, TypeOK, SharedBalancer
<1> QED BY <1>1, <1>2, <1>3, <1>4, <1>5, OneTask

(* The port joins the balancer that the name has, or brings one if no port *)
(* of the name uses any.                                                   *)
LEMMA GetKeeps ==
    ASSUME ManagerInv, NEW t \in Task, Get(t)
    PROVE  ManagerInv'
<1> USE DEF ManagerInv
<1> DEFINE n == task[t].name
           new == [task[t] EXCEPT !.pc = "accept", !.http = HttpProxy(n)]
<1>1. /\ UNCHANGED <<env, manager, proxies, service_ports, listener>>
      /\ task[t].pc = "get" /\ task' = [task EXCEPT ![t] = new]
      /\ http_proxies' = [http_proxies EXCEPT ![n] = HttpProxy(n)]
  BY DEF Get, TypeOK
<1>2. n \in Name /\ task[t] \in ProxyTask
  BY <1>1 DEF TasksAreKnown, TypeOK
<1>3. HttpProxy(n) \in 1 .. MaxTasks + 1 /\ HttpProxy(n) \in 0 .. MaxTasks + 1
      /\ HttpProxy(n) # 0
  BY <1>2, HttpProxyType
<1>4. /\ new \in ProxyTask /\ new.pc = "accept" /\ new.name = n /\ new.want = task[t].want
      /\ new.aborted = task[t].aborted /\ new.port = task[t].port /\ new.http = HttpProxy(n)
  BY <1>2, <1>3 DEF ProxyTask
<1> HIDE DEF n, new
<1>5. /\ http_proxies' \in [Name -> 0 .. MaxTasks + 1] /\ http_proxies'[n] = HttpProxy(n)
      /\ \A m \in Name : http_proxies[m] # 0 => http_proxies'[m] = http_proxies[m]
  BY <1>1, <1>2, <1>3 DEF TypeOK, HttpProxy
<1>6. task' \in [Task -> ProxyTask] /\ task'[t] = new /\ \A u \in Task \ {t} : task'[u] = task[u]
  BY <1>1, <1>4 DEF TypeOK
<1>7. TypeOK' /\ shutdown' = shutdown
  BY <1>1, <1>5, <1>6 DEF TypeOK, env
<1>8. SharedBalancer'
  <2>1. new.http = http_proxies'[new.name] /\ new.http # 0
    BY <1>3, <1>4, <1>5
  <2>2. ASSUME NEW u \in Task, task[u].pc = "accept", ~task[u].aborted
        PROVE  task[u].http = http_proxies'[task[u].name] /\ task[u].http # 0
    <3>1. task[u].name \in Name /\ task[u].http = http_proxies[task[u].name]
          /\ task[u].http # 0
      BY <2>2 DEF SharedBalancer, TasksAreKnown
    <3> QED BY <1>5, <3>1
  <2> QED BY <1>6, <2>1, <2>2 DEF SharedBalancer
<1>9. /\ task[t].aborted \/ Referenced(t)
      /\ Referenced(t) => task[t].port # NoPort
  BY <1>1, ReferencedTask DEF TasksAreKnown, Listening
<1> QED BY <1>1, <1>2, <1>4, <1>7, <1>8, <1>9, OneTask DEF n

(* A task that nobody refers to any more leaves nothing behind.            *)
LEMMA EndKeeps ==
    ASSUME ManagerInv, NEW t \in Task, End(t) \/ AcceptFails(t)
    PROVE  ManagerInv'
<1> USE DEF ManagerInv
<1>1. /\ UNCHANGED <<dc, known, foreign, shutdown, manager, proxies, service_ports,
                     http_proxies, listener>>
      /\ task[t].pc = "accept" /\ changes' \in 0 .. MaxChanges
  BY ProxyManagerAssumption DEF End, AcceptFails, env, TypeOK
<1>2. task[t] \in ProxyTask
  BY DEF TypeOK
<1>3. PICK new \in ProxyTask :
        /\ task' = [task EXCEPT ![t] = new]
        /\ new.pc \in {"failed", "ended"}
        /\ Referenced(t) => /\ new.name = task[t].name /\ new.want = task[t].want
                            /\ new.aborted = task[t].aborted /\ new.port = task[t].port
                            /\ new.pc = "ended" => shutdown
  <2>1. CASE ~Referenced(t)
    <3>1. task' = [task EXCEPT ![t] = NoTask]
      BY <2>1 DEF End, AcceptFails
    <3> QED BY <2>1, <3>1, NoTaskType
  <2>2. CASE Referenced(t) /\ End(t)
    <3>1. task' = [task EXCEPT ![t] = [task[t] EXCEPT !.pc = "ended"]]
      BY <2>2 DEF End, TypeOK
    <3>2. shutdown
      BY <2>2, ReferencedTask DEF End
    <3>3. /\ [task[t] EXCEPT !.pc = "ended"] \in ProxyTask
          /\ [task[t] EXCEPT !.pc = "ended"].name = task[t].name
          /\ [task[t] EXCEPT !.pc = "ended"].want = task[t].want
          /\ [task[t] EXCEPT !.pc = "ended"].aborted = task[t].aborted
          /\ [task[t] EXCEPT !.pc = "ended"].pc = "ended"
          /\ [task[t] EXCEPT !.pc = "ended"].port = task[t].port
      BY <1>2 DEF ProxyTask
    <3> QED BY <3>1, <3>2, <3>3
  <2>3. CASE Referenced(t) /\ AcceptFails(t)
    <3>1. task' = [task EXCEPT ![t] = [task[t] EXCEPT !.pc = "failed"]]
      BY <2>3 DEF AcceptFails, TypeOK
    <3>2. /\ [task[t] EXCEPT !.pc = "failed"] \in ProxyTask
          /\ [task[t] EXCEPT !.pc = "failed"].name = task[t].name
          /\ [task[t] EXCEPT !.pc = "failed"].want = task[t].want
          /\ [task[t] EXCEPT !.pc = "failed"].aborted = task[t].aborted
          /\ [task[t] EXCEPT !.pc = "failed"].pc = "failed"
          /\ [task[t] EXCEPT !.pc = "failed"].port = task[t].port
      BY <1>2 DEF ProxyTask
    <3> QED BY <3>1, <3>2
  <2> QED BY <2>1, <2>2, <2>3
<1>4. TypeOK'
  BY <1>1, <1>3 DEF TypeOK
<1>5. SharedBalancer'
  BY <1>1, <1>3 DEF TypeOK, SharedBalancer
<1>6. Referenced(t) => task[t].port # NoPort
  BY <1>1, ReferencedTask
<1>7. HasHandle(t) => Referenced(t)
  BY DEF HasHandle, Referenced
<1> QED BY <1>1, <1>3, <1>4, <1>5, <1>6, <1>7, OneTask
-----------------------------------------------------------------------------
(* Every step keeps the invariant, ...                                     *)
LEMMA ManagerInvStep ==
    ASSUME ManagerInv, [Next]_vars
    PROVE  ManagerInv'
<1>1. CASE UNCHANGED vars
  BY <1>1, QuietStep DEF vars, ManagerInv, TypeOK, Pass, SharedBalancer
<1>2. CASE Tick \/ Stop \/ EndPass \/ Snapshot \/ Unlist \/ RetainHttp \/ Started \/ NotStarted
  BY <1>2, TickKeeps, SnapshotKeeps, UnlistKeeps, RetainKeeps, StartedKeeps, NotStartedKeeps
<1>3. CASE \E k \in Key : AbortProxy(k) \/ Refresh(k) \/ SkipTaken(k) \/ Spawn(k)
  BY <1>3, AbortKeeps, RefreshKeeps, SkipKeeps, SpawnKeeps
<1>4. CASE \E t \in Task : RunProxy(t) \/ AcceptFails(t)
  BY <1>4, BindKeeps, GetKeeps, EndKeeps DEF RunProxy
<1>5. CASE (\E n \in Name : Resolve(n)) \/ Dispatch \/ Change \/ Shutdown
  BY <1>5, OutsideKeeps
<1> QED BY <1>1, <1>2, <1>3, <1>4, <1>5 DEF Next, Manage

(* ... which holds initially, ...                                          *)
LEMMA ManagerInitInv == Init => ManagerInv
<1> SUFFICES ASSUME Init PROVE ManagerInv
  OBVIOUS
<1>1. DOMAIN Empty = {} /\ IsMap(Empty, Key, Wish)
      /\ IsMap(Empty, Key, Handle) /\ IsMap(Empty, Name, Listing)
  BY DEF Empty, IsMap
<1>2. Resting \in Manager(Empty) /\ Resting.desired = Empty /\ Resting.pc = "tick"
  <2>1. 0 \in 0 .. MaxTasks
    BY ProxyManagerAssumption
  <2>2. Resting.desired = Empty /\ Resting.pc = "tick"
    BY DEF Resting
  <2>3. Resting \in Manager(Empty)
    BY <2>1 DEF Manager, Resting
  <2> QED BY <2>2, <2>3
<1>3. TypeOK
  <2>1. http_proxies \in [Name -> 0 .. MaxTasks + 1] /\ changes \in 0 .. MaxChanges
    BY ProxyManagerAssumption DEF Init
  <2>2. task \in [Task -> ProxyTask]
    BY NoTaskType DEF Init
  <2>3. manager \in Manager(manager.desired) /\ manager.desired = Empty
    BY <1>2 DEF Init
  <2>4. /\ dc \in Configs /\ known \subseteq Node /\ foreign \subseteq Port
        /\ proxies = Empty /\ service_ports = Empty
        /\ listener \in Name \cup {None} /\ shutdown \in BOOLEAN
    BY DEF Init
  <2> QED BY <1>1, <2>1, <2>2, <2>3, <2>4 DEF TypeOK
<1>4. Handles /\ Listed /\ Pass /\ Awaited
  BY <1>1, <1>2 DEF Init, Handles, Serves, Listed, Pass, Awaited
<1>5. TasksAreKnown /\ SharedBalancer
  BY NoTaskType DEF Init, TasksAreKnown, SharedBalancer, Listening
<1> QED BY <1>3, <1>4, <1>5 DEF ManagerInv

(* ... and so always.                                                      *)
LEMMA ManagerInvariant == Spec => []ManagerInv
BY ManagerInitInv, ManagerInvStep, PTL DEF Spec

(* GET /services names no port that nobody serves: what is listed has one  *)
(* handle, whose task listens on the listed port for that service          *)
(* (proxy_manager.rs: manage_proxies, run_proxy).                          *)
THEOREM ListingsAreServed == Spec => []ListedIsServed
<1>1. ASSUME ManagerInv, NEW n \in DOMAIN service_ports,
             ~(manager.pc = "unlist" /\ manager.key[2] = n)
      PROVE  LET ks == {k \in DOMAIN proxies : k[2] = n}
             IN  /\ Cardinality(ks) = 1
                 /\ \A k \in ks : LET t == task[proxies[k].task]
                                  IN  /\ t.name = n /\ t.port = service_ports[n].port
                                      /\ t.want = proxies[k].port /\ ~t.aborted
                                      /\ \/ t.pc \in {"get", "accept", "failed"}
                                         \/ shutdown
  <2>1. PICK k \in DOMAIN proxies : k[2] = n
    BY <1>1 DEF ManagerInv, Listed
  <2>2. {l \in DOMAIN proxies : l[2] = n} = {k}
    BY <1>1, <2>1 DEF ManagerInv, Handles, Serves
  <2>3. Cardinality({k}) = 1
    BY FS_Singleton
  <2> QED BY <1>1, <2>1, <2>2, <2>3 DEF ManagerInv, Handles, Serves
<1>2. ManagerInv => ListedIsServed
  BY <1>1 DEF ListedIsServed
<1> QED BY <1>2, ManagerInvariant, PTL

(* However the config, the nodes and other processes' ports change, a      *)
(* listener that was not aborted has a handle or is about to get one, so   *)
(* manage_proxies can stop it.                                             *)
THEOREM NoListenerIsLost == Spec => []NoOrphan
<1>1. ManagerInv => NoOrphan
  BY DEF ManagerInv, TasksAreKnown, NoOrphan
<1> QED BY <1>1, ManagerInvariant, PTL

(* HttpProxies::retain never drops the balancer of a port that is open:    *)
(* connections to the port and requests to the shared HTTP listener are    *)
(* balanced together.                                                      *)
THEOREM PortsShareTheBalancer == Spec => []OneBalancer
<1>1. ManagerInv => OneBalancer
  BY DEF ManagerInv, SharedBalancer, OneBalancer
<1> QED BY <1>1, ManagerInvariant, PTL
=============================================================================
