------------------------ MODULE ConfigGossip_proofs ------------------------
(***************************************************************************)
(* Proofs about ConfigGossip, for any set of daemons and any number of     *)
(* handlers, versions, messages and restarts.                              *)
(***************************************************************************)
EXTENDS ConfigGossip, TLAPS

(* The types of what a step writes.                                        *)
LEMMA BlankType == Blank \in Config /\ Idle \in Task
BY ConfigGossipAssumption DEF Blank, Idle, Config, Task, PC, Kind

LEMMA MutationsType ==
    ASSUME NEW c \in Config, NEW d \in Mutations(c)
    PROVE  d \in Config /\ d.version = c.version + 1
BY DEF Mutations, Config

LEMMA VersionType ==
    ASSUME NEW c \in Config, NEW v \in Nat
    PROVE  /\ [c EXCEPT !.version = v] \in Config
           /\ [c EXCEPT !.version = v].version = v
BY DEF Config

LEMMA AdoptType ==
    ASSUME TypeOK, NEW n \in Node, NEW c \in Config, Adopt(n, c)
    PROVE  dc' \in [Node -> Config] /\ file' \in [Node -> Config]
BY DEF TypeOK, Adopt

LEMMA BecomeType ==
    ASSUME TypeOK, NEW n \in Node, NEW p \in Proc, NEW where \in PC,
           NEW kind \in Kind, NEW c \in Config, NEW peer \in Node \cup {None},
           Become(n, p, where, kind, c, peer)
    PROVE  task' \in [Node -> [Proc -> Task]]
BY DEF TypeOK, Become, Task

LEMMA ResumeType ==
    ASSUME TypeOK, NEW n \in Node, NEW p \in Proc, NEW where \in PC,
           Resume(n, p, where) \/ Goto(n, p, where)
    PROVE  task' \in [Node -> [Proc -> Task]]
<1>1. CASE task' = [task EXCEPT ![n][p] = Idle]
  BY <1>1, BlankType DEF TypeOK
<1>2. CASE Goto(n, p, where)
  <2>a. ASSUME NEW t \in Task PROVE [t EXCEPT !.pc = where] \in Task
    BY DEF Task
  <2>1. [task[n][p] EXCEPT !.pc = where] \in Task
    BY <2>a DEF TypeOK
  <2>2. [task[n] EXCEPT ![p].pc = where] \in [Proc -> Task]
    BY <2>1 DEF TypeOK
  <2> QED BY <1>2, <2>2 DEF TypeOK, Goto
<1> QED BY <1>1, <1>2 DEF Resume

LEMMA AfterType ==
    ASSUME NEW t \in Task
    PROVE  AfterRebuild(t) \in PC /\ AfterMerge(t) \in PC
BY DEF AfterRebuild, AfterMerge, PC

LEMMA BroadcastType ==
    ASSUME TypeOK, NEW n \in Node, NEW c \in Config, Broadcast(n, c)
    PROVE  msgs' \in SUBSET Message
BY DEF TypeOK, Broadcast, Message

LEMMA ClosedType ==
    ASSUME TypeOK, NEW n \in Node
    PROVE  /\ Disconnected(n) \in SUBSET Message
           /\ Unpeered(n) \in [Node -> [Proc -> Task]]
<1>1. ASSUME NEW m \in Message, NEW x \in Node \cup {None}
      PROVE  [m EXCEPT !.from = x] \in Message
  BY DEF Message
<1>2. \A m \in msgs : (IF m.kind = "sync" /\ m.from = n THEN None ELSE m.from)
                          \in Node \cup {None}
  BY DEF TypeOK, Message
<1>3. Disconnected(n) \in SUBSET Message
  <2> SUFFICES ASSUME NEW m \in msgs
               PROVE  [m EXCEPT !.from = IF m.kind = "sync" /\ m.from = n
                                         THEN None ELSE @] \in Message
    BY DEF Disconnected
  <2> QED BY <1>1, <1>2 DEF TypeOK
<1>4. ASSUME NEW t \in Task PROVE [t EXCEPT !.peer = None] \in Task
  BY DEF Task
<1>5. Unpeered(n) \in [Node -> [Proc -> Task]]
  BY <1>4 DEF TypeOK, Unpeered
<1> QED BY <1>3, <1>5

LEMMA MergeType ==
    ASSUME TypeOK, NEW n \in Node, NEW p \in Proc, NEW c \in Config,
           NEW kind \in Kind, NEW peer \in Node \cup {None},
           MergeConfig(n, p, c, kind, peer)
    PROVE  /\ dc' \in [Node -> Config] /\ file' \in [Node -> Config]
           /\ task' \in [Node -> [Proc -> Task]]
<1>1. CASE Adopt(n, c) /\ Become(n, p, "services", kind, Blank, peer)
  BY <1>1, AdoptType, BecomeType, BlankType DEF PC
<1>2. CASE /\ Become(n, p, "members", kind, Blank, peer)
           /\ UNCHANGED <<dc, file>>
  BY <1>2, BecomeType, BlankType DEF PC, TypeOK
<1> QED BY <1>1, <1>2 DEF MergeConfig

LEMMA PolledType ==
    ASSUME TypeOK, NEW n \in Node
    PROVE  /\ PolledConfig(n) \in Config
           /\ PolledConfig(n).version > dc[n].version
<1> DEFINE v == IF file[n].version <= dc[n].version
                THEN dc[n].version + 1 ELSE file[n].version
<1>1. /\ v \in Nat /\ file[n] \in Config
      /\ v > dc[n].version
  BY DEF TypeOK, Config
<1>2. PolledConfig(n) = [file[n] EXCEPT !.version = v]
  BY DEF PolledConfig
<1> QED BY <1>1, <1>2, VersionType

-----------------------------------------------------------------------------
(* Every step keeps the types.                                             *)
LEMMA TypeStep == TypeOK /\ [Next]_vars => TypeOK'
<1> SUFFICES ASSUME TypeOK, [Next]_vars PROVE TypeOK'
  OBVIOUS
<1>p. /\ "poll" \in Proc /\ "sync" \in Proc /\ Handler \subseteq Proc
      /\ {"services", "members", "await", "routes", "persist", "idle"} \subseteq PC
      /\ {"change", "update", "inbound", "outbound"} \subseteq Kind
  BY DEF Proc, PC, Kind
<1>m. \A m \in msgs : m \in Message /\ m.config \in Config /\ m.from \in Node \cup {None}
  BY DEF TypeOK, Message
<1>1. ASSUME NEW n \in Node, NEW h \in Handler, AdminRequest(n, h)
      PROVE  TypeOK'
  <2>1. PICK c \in Mutations(dc[n]) :
          Adopt(n, c) /\ Become(n, h, "services", "change", c, None)
    BY <1>1 DEF AdminRequest
  <2>2. c \in Config
    BY MutationsType DEF TypeOK
  <2>3. dc' \in [Node -> Config] /\ file' \in [Node -> Config]
    BY <2>1, <2>2, AdoptType
  <2>4. task' \in [Node -> [Proc -> Task]]
    BY <2>1, <2>2, <1>p, BecomeType
  <2> QED BY <1>1, <2>3, <2>4 DEF TypeOK, AdminRequest
<1>2. ASSUME NEW n \in Node, PollConfig(n)
      PROVE  TypeOK'
  <2>1. dc' \in [Node -> Config] /\ file' \in [Node -> Config]
    BY <1>2, AdoptType, PolledType DEF PollConfig
  <2>2. task' \in [Node -> [Proc -> Task]]
    BY <1>2, <1>p, BecomeType, PolledType DEF PollConfig
  <2> QED BY <1>2, <2>1, <2>2 DEF TypeOK, PollConfig
<1>3. ASSUME NEW n \in Node, CliLoad(n) \/ CliFail(n)
      PROVE  TypeOK'
  <2>1. Loaded(n) \subseteq Config
    BY BlankType DEF TypeOK, Loaded
  <2>2. cli' \in [Node -> Config \cup {None}]
    BY <1>3, <2>1 DEF TypeOK, CliLoad, CliFail
  <2> QED BY <1>3, <2>2 DEF TypeOK, CliLoad, CliFail
<1>4. ASSUME NEW n \in Node, CliSave(n)
      PROVE  TypeOK'
  <2>1. PICK c \in Mutations(cli[n]) :
          file' = [file EXCEPT ![n] = c] /\ Broadcast(n, c)
    BY <1>4 DEF CliSave
  <2>2. c \in Config
    BY <1>4, MutationsType DEF TypeOK, CliSave
  <2>3. msgs' \in SUBSET Message
    BY <2>1, <2>2, BroadcastType
  <2> QED BY <1>4, <2>1, <2>2, <2>3 DEF TypeOK, CliSave
<1>5. ASSUME NEW n \in Node, HandEdit(n)
      PROVE  TypeOK'
  <2>1. PICK g \in Groups, r \in Routes :
          file' = [file EXCEPT ![n].groups = g, ![n].routes = r]
    BY <1>5 DEF HandEdit
  <2>2. ASSUME NEW c \in Config
        PROVE  [[c EXCEPT !.groups = g] EXCEPT !.routes = r] \in Config
    BY DEF Config
  <2>3. file' \in [Node -> Config]
    BY <2>1, <2>2 DEF TypeOK
  <2> QED BY <1>5, <2>3 DEF TypeOK, HandEdit
<1>6. ASSUME NEW n \in Node, NEW p \in Proc, Step(n, p)
      PROVE  TypeOK'
  <2>a. task[n][p] \in Task /\ task[n][p].config \in Config
    BY DEF TypeOK, Task
  <2>1. CASE RebuildServices(n, p)
    <3>1. task' \in [Node -> [Proc -> Task]]
      BY <2>1, <1>p, ResumeType DEF RebuildServices
    <3> QED BY <2>1, <3>1 DEF TypeOK, RebuildServices
  <2>2. CASE RebuildRoutes(n, p)
    <3>1. task' \in [Node -> [Proc -> Task]]
      BY <2>2, <2>a, ResumeType, AfterType DEF RebuildRoutes
    <3> QED BY <2>2, <3>1 DEF TypeOK, RebuildRoutes
  <2>3. CASE BroadcastChange(n, p)
    <3>1. task' \in [Node -> [Proc -> Task]]
      BY <2>3, <1>p, ResumeType DEF BroadcastChange
    <3>2. msgs' \in SUBSET Message
      BY <2>3, <2>a, BroadcastType DEF BroadcastChange
    <3> QED BY <2>3, <3>1, <3>2 DEF TypeOK, BroadcastChange
  <2>4. CASE MergeNodes(n, p)
    <3>1. task' \in [Node -> [Proc -> Task]]
      BY <2>4, <2>a, <1>p, ResumeType, AfterType DEF MergeNodes
    <3> QED BY <2>4, <3>1 DEF TypeOK, MergeNodes
  <2>5. CASE PersistState(n, p)
    <3>1. task' \in [Node -> [Proc -> Task]]
      BY <2>5, <2>a, ResumeType, AfterType DEF PersistState
    <3> QED BY <2>5, <3>1 DEF TypeOK, PersistState
  <2>6. CASE SendReply(n, p)
    <3>1. task' \in [Node -> [Proc -> Task]]
      BY <2>6, <1>p, ResumeType DEF SendReply
    <3>2. msgs' \in SUBSET Message
      BY <2>6 DEF SendReply, TypeOK, Message, Task
    <3> QED BY <2>6, <3>1, <3>2 DEF TypeOK, SendReply
  <2> QED BY <1>6, <2>1, <2>2, <2>3, <2>4, <2>5, <2>6 DEF Step
<1>7. ASSUME NEW n \in Node, NEW h \in Handler, NEW m \in msgs,
             ApplyConfigUpdate(n, h, m)
      PROVE  TypeOK'
  <2>1. CASE Adopt(n, m.config) /\ Become(n, h, "services", "update", Blank, None)
    <3>1. dc' \in [Node -> Config] /\ file' \in [Node -> Config]
      BY <2>1, <1>m, AdoptType
    <3>2. task' \in [Node -> [Proc -> Task]]
      BY <2>1, <1>p, BecomeType, BlankType
    <3> QED BY <1>7, <3>1, <3>2 DEF TypeOK, ApplyConfigUpdate
  <2>2. CASE UNCHANGED <<dc, file, task>>
    BY <1>7, <2>2 DEF TypeOK, ApplyConfigUpdate
  <2> QED BY <1>7, <2>1, <2>2 DEF ApplyConfigUpdate
<1>8. ASSUME NEW n \in Node, NEW h \in Handler, NEW m \in msgs, HandleSync(n, h, m)
      PROVE  TypeOK'
  <2>1. /\ dc' \in [Node -> Config] /\ file' \in [Node -> Config]
        /\ task' \in [Node -> [Proc -> Task]]
    BY <1>8, <1>m, <1>p, MergeType DEF HandleSync
  <2> QED BY <1>8, <2>1 DEF TypeOK, HandleSync
<1>9. ASSUME NEW n \in Node, NEW peer \in Node, SyncSend(n, peer)
      PROVE  TypeOK'
  <2>1. task' \in [Node -> [Proc -> Task]]
    BY <1>9, <1>p, BecomeType, BlankType DEF SyncSend
  <2>2. msgs' \in SUBSET Message
    BY <1>9 DEF SyncSend, TypeOK, Message
  <2> QED BY <1>9, <2>1, <2>2 DEF TypeOK, SyncSend
<1>10. ASSUME NEW n \in Node, NEW m \in msgs, SyncReceive(n, m)
       PROVE  TypeOK'
  <2>1. /\ dc' \in [Node -> Config] /\ file' \in [Node -> Config]
        /\ task' \in [Node -> [Proc -> Task]]
    BY <1>10, <1>m, <1>p, MergeType DEF SyncReceive
  <2> QED BY <1>10, <2>1 DEF TypeOK, SyncReceive
<1>11. ASSUME NEW n \in Node, SyncTimeout(n) \/ Restart(n)
       PROVE  TypeOK'
  <2>1. CASE SyncTimeout(n)
    <3>1. task' \in [Node -> [Proc -> Task]]
      BY <2>1, <1>p, ClosedType, BlankType DEF SyncTimeout
    <3> QED BY <2>1, <3>1, ClosedType DEF TypeOK, SyncTimeout, At
  <2>2. CASE Restart(n)
    <3>1. task' \in [Node -> [Proc -> Task]]
      BY <2>2, ClosedType, BlankType DEF Restart
    <3> QED BY <2>2, <3>1, ClosedType DEF TypeOK, Restart
  <2> QED BY <1>11, <2>1, <2>2
<1>12. ASSUME NEW m \in msgs, LoseMessage(m)
       PROVE  TypeOK'
  BY <1>12 DEF TypeOK, LoseMessage
<1>13. CASE UNCHANGED vars
  BY <1>13 DEF TypeOK, vars
<1> QED
  BY <1>1, <1>2, <1>3, <1>4, <1>5, <1>6, <1>7, <1>8, <1>9, <1>10, <1>11,
     <1>12, <1>13 DEF Next, Receive

(* The state of every daemon, file, message and handler keeps its type.    *)
THEOREM TypeCorrect == Spec => []TypeOK
<1>1. Init => TypeOK
  BY BlankType DEF Init, TypeOK
<1> QED BY <1>1, TypeStep, PTL DEF Spec

-----------------------------------------------------------------------------
(***************************************************************************)
(* What a step does to one daemon's config and indexes.  Every step of the *)
(* system is one of these for every daemon; the invariants about indexes   *)
(* then follow without looking at the handlers again.                      *)
(***************************************************************************)
Waiting(n) == {p \in Proc : At(n, p, "services")}

(* The processes between the two stores of rebuild_service_index.          *)
Storing(n) == {p \in Proc : At(n, p, "routes")}

(* What a step can do to a daemon's config and indexes: nothing, ...       *)
NoIndexStep(n) ==
    /\ dc'[n] = dc[n] /\ cut'[n] = cut[n]
    /\ service_index'[n] = service_index[n] /\ routes'[n] = routes[n]
    /\ Waiting(n)' = Waiting(n) /\ Storing(n)' = Storing(n)

(* ... change the config, with a rebuild to follow, ...                    *)
ChangeStep(n) ==
    /\ Storing(n) = {} /\ Storing(n)' = {} /\ Waiting(n)' # {}
    /\ dc'[n].version > dc[n].version /\ cut'[n] = cut[n]
    /\ service_index'[n] = service_index[n] /\ routes'[n] = routes[n]

(* ... store the service index, ...                                        *)
ServicesStep(n) ==
    /\ \E p \in Waiting(n) : Storing(n)' = Storing(n) \cup {p}
    /\ dc'[n] = dc[n] /\ cut'[n] = cut[n]
    /\ service_index'[n] = dc[n] /\ routes'[n] = routes[n]

(* ... store the routes, ...                                               *)
RoutesStep(n) ==
    /\ Storing(n) # {} /\ Storing(n)' \subseteq Storing(n)
    /\ dc'[n] = dc[n]
    /\ service_index'[n] = service_index[n] /\ routes'[n] = dc[n]

(* ... drop a rebuild, in a sync that timed out, ...                       *)
CutStep(n) ==
    /\ Storing(n)' = Storing(n)
    /\ dc'[n] = dc[n] /\ cut'[n] = TRUE
    /\ service_index'[n] = service_index[n] /\ routes'[n] = routes[n]

(* ... or restart the daemon from its file.                                *)
RestartStep(n) ==
    /\ boots'[n] # boots[n]
    /\ Storing(n)' = {} /\ Waiting(n)' = {}
    /\ dc'[n] = file[n] /\ service_index'[n] = file[n] /\ routes'[n] = file[n]

(* One of these.                                                           *)
IndexStep(n) ==
    \/ NoIndexStep(n) \/ ChangeStep(n) \/ ServicesStep(n)
    \/ RoutesStep(n) \/ CutStep(n) \/ RestartStep(n)

(* A change of dynamic_config in process p, followed by its rebuild.       *)
LEMMA AdoptIsChange ==
    ASSUME TypeOK, NEW n \in Node, NEW p \in Proc, NEW c \in Config,
           NEW kind, NEW d, NEW peer, c.version > dc[n].version, Adopt(n, c),
           Become(n, p, "services", kind, d, peer),
           UNCHANGED <<service_index, routes, cut>>, NEW k \in Node
    PROVE  IndexStep(k)
<1>1. CASE k = n
  <2>1. task'[n][p].pc = "services"
    BY DEF Become, TypeOK
  <2>2. \A q \in Proc : q # p => task'[n][q] = task[n][q]
    BY DEF Become, TypeOK
  <2>3. Storing(n) = {} /\ Storing(n)' = {} /\ Waiting(n)' # {}
    BY <2>1, <2>2 DEF Storing, Waiting, Adopt, CanWrite, At
  <2> QED BY <1>1, <2>3 DEF IndexStep, ChangeStep, Adopt, TypeOK
<1>2. CASE k # n
  <2>1. task'[k] = task[k] /\ dc'[k] = dc[k]
    BY <1>2 DEF Become, Adopt, TypeOK
  <2> QED BY <1>2, <2>1 DEF IndexStep, NoIndexStep, Waiting, Storing, At
<1> QED BY <1>1, <1>2

(* A step of process p that neither starts nor ends a rebuild.             *)
LEMMA ElsewhereIsNoIndexStep ==
    ASSUME TypeOK, NEW n \in Node, NEW p \in Proc, NEW k \in Node,
           task[n][p].pc \notin {"services", "routes"},
           task'[n][p].pc \notin {"services", "routes"},
           \A m \in Node, q \in Proc :
              <<m, q>> # <<n, p>> => task'[m][q].pc = task[m][q].pc,
           UNCHANGED <<dc, service_index, routes, cut>>
    PROVE  IndexStep(k)
BY DEF IndexStep, NoIndexStep, Waiting, Storing, At

(* A process moves on, the others do not.                                  *)
LEMMA TaskEffect ==
    ASSUME TypeOK, NEW n \in Node, NEW p \in Proc, NEW where \in PC,
           \/ Resume(n, p, where) \/ Goto(n, p, where)
           \/ \E kind, c, peer : Become(n, p, where, kind, c, peer)
    PROVE  /\ task'[n][p].pc = where
           /\ \A m \in Node, q \in Proc :
                 <<m, q>> # <<n, p>> => task'[m][q] = task[m][q]
<1>1. CASE where = "idle" /\ task' = [task EXCEPT ![n][p] = Idle]
  BY <1>1 DEF TypeOK, Idle
<1>2. CASE Goto(n, p, where)
  <2>1. task[n][p] \in Task
    BY DEF TypeOK
  <2>2. [task[n][p] EXCEPT !.pc = where].pc = where
    BY <2>1 DEF Task
  <2> QED BY <1>2, <2>2 DEF Goto, TypeOK
<1>3. CASE \E kind, c, peer : Become(n, p, where, kind, c, peer)
  BY <1>3 DEF Become, TypeOK
<1> QED BY <1>1, <1>2, <1>3 DEF Resume

(* Closing connections moves no process.                                   *)
LEMMA ClosedEffect ==
    ASSUME TypeOK, NEW n \in Node, NEW m \in Node, NEW q \in Proc
    PROVE  Unpeered(n)[m][q].pc = task[m][q].pc
<1>1. task[m][q] \in Task
  BY DEF TypeOK
<1>2. ASSUME NEW t \in Task PROVE [t EXCEPT !.peer = None].pc = t.pc
  BY DEF Task
<1> QED BY <1>1, <1>2 DEF Unpeered

(* A merge, a step of a process, and so every step is one of them.         *)
LEMMA MergeIsIndexStep ==
    ASSUME TypeOK, NEW n \in Node, NEW p \in Proc, NEW c \in Config,
           NEW kind, NEW peer, NEW k \in Node,
           task[n][p].pc \in {"idle", "await"},
           MergeConfig(n, p, c, kind, peer),
           UNCHANGED <<service_index, routes, cut>>
    PROVE  IndexStep(k)
<1>1. CASE Newer(c, n) /\ Adopt(n, c) /\ Become(n, p, "services", kind, Blank, peer)
  BY <1>1, AdoptIsChange DEF Newer
<1>2. CASE Become(n, p, "members", kind, Blank, peer) /\ UNCHANGED <<dc, file>>
  <2>1. /\ task'[n][p].pc = "members"
        /\ \A m \in Node, q \in Proc :
              <<m, q>> # <<n, p>> => task'[m][q] = task[m][q]
    BY <1>2, TaskEffect DEF PC
  <2> QED BY <1>2, <2>1, ElsewhereIsNoIndexStep
<1> QED BY <1>1, <1>2 DEF MergeConfig

LEMMA ProcIsIndexStep ==
    ASSUME TypeOK, NEW n \in Node, NEW p \in Proc, Step(n, p), NEW k \in Node
    PROVE  IndexStep(k)
<1>t. task[n][p] \in Task
  BY DEF TypeOK
<1>1. CASE RebuildServices(n, p)
  <2>1. /\ task'[n][p].pc = "routes"
        /\ \A m \in Node, q \in Proc :
              <<m, q>> # <<n, p>> => task'[m][q] = task[m][q]
    BY <1>1, TaskEffect DEF RebuildServices, PC
  <2>2. CASE k = n
    <3>1. p \in Waiting(n) /\ Storing(n)' = Storing(n) \cup {p}
      BY <1>1, <2>1 DEF RebuildServices, Waiting, Storing, At
    <3> QED BY <1>1, <2>2, <3>1 DEF IndexStep, ServicesStep, RebuildServices, TypeOK
  <2>3. CASE k # n
    BY <1>1, <2>1, <2>3 DEF IndexStep, NoIndexStep, RebuildServices, Waiting, Storing, At, TypeOK
  <2> QED BY <2>2, <2>3
<1>2. CASE RebuildRoutes(n, p)
  <2>1. /\ task'[n][p].pc = AfterRebuild(task[n][p])
        /\ \A m \in Node, q \in Proc :
              <<m, q>> # <<n, p>> => task'[m][q] = task[m][q]
    BY <1>2, <1>t, AfterType, TaskEffect DEF RebuildRoutes
  <2>2. AfterRebuild(task[n][p]) # "routes"
    BY DEF AfterRebuild
  <2>3. CASE k = n
    <3>1. Storing(n) # {} /\ Storing(n)' \subseteq Storing(n)
      BY <1>2, <2>1, <2>2 DEF RebuildRoutes, Storing, At
    <3> QED BY <1>2, <2>3, <3>1 DEF IndexStep, RoutesStep, RebuildRoutes, TypeOK
  <2>4. CASE k # n
    BY <1>2, <2>1, <2>4 DEF IndexStep, NoIndexStep, RebuildRoutes, Waiting, Storing, At, TypeOK
  <2> QED BY <2>3, <2>4
<1>3. CASE \/ BroadcastChange(n, p) \/ MergeNodes(n, p)
           \/ PersistState(n, p) \/ SendReply(n, p)
  <2>1. PICK where \in PC \ {"services", "routes"} :
          Resume(n, p, where) \/ Goto(n, p, where)
    BY <1>3 DEF BroadcastChange, MergeNodes, PersistState, SendReply, AfterMerge, PC
  <2>2. /\ task'[n][p].pc = where
        /\ \A m \in Node, q \in Proc :
              <<m, q>> # <<n, p>> => task'[m][q] = task[m][q]
    BY <2>1, TaskEffect
  <2>3. task[n][p].pc \notin {"services", "routes"}
    BY <1>3 DEF BroadcastChange, MergeNodes, PersistState, SendReply, At
  <2>4. UNCHANGED <<dc, service_index, routes, cut>>
    BY <1>3 DEF BroadcastChange, MergeNodes, PersistState, SendReply
  <2> QED BY <2>2, <2>3, <2>4, ElsewhereIsNoIndexStep
<1> QED BY <1>1, <1>2, <1>3 DEF Step

LEMMA EveryStepIsIndexStep ==
    ASSUME TypeOK, [Next]_vars, NEW k \in Node
    PROVE  IndexStep(k)
<1>p. /\ "poll" \in Proc /\ "sync" \in Proc /\ Handler \subseteq Proc
      /\ {"await"} \subseteq PC
  BY DEF Proc, PC
<1>m. \A m \in msgs : m.config \in Config
  BY DEF TypeOK, Message
<1>1. ASSUME NEW n \in Node, NEW h \in Handler, AdminRequest(n, h)
      PROVE  IndexStep(k)
  <2>1. PICK c \in Mutations(dc[n]) :
          Adopt(n, c) /\ Become(n, h, "services", "change", c, None)
    BY <1>1 DEF AdminRequest
  <2>2. c \in Config /\ c.version > dc[n].version
    <3>1. dc[n] \in Config /\ dc[n].version \in Nat
      BY DEF TypeOK, Config
    <3> QED BY <3>1, MutationsType
  <2> QED BY <1>1, <2>1, <2>2, <1>p, AdoptIsChange DEF AdminRequest
<1>2. ASSUME NEW n \in Node, PollConfig(n)
      PROVE  IndexStep(k)
  BY <1>2, <1>p, PolledType, AdoptIsChange DEF PollConfig
<1>3. ASSUME NEW n \in Node, NEW h \in Handler, NEW m \in msgs,
             ApplyConfigUpdate(n, h, m)
      PROVE  IndexStep(k)
  <2>1. CASE /\ Newer(m.config, n) /\ Adopt(n, m.config)
             /\ Become(n, h, "services", "update", Blank, None)
    BY <1>3, <2>1, <1>p, <1>m, AdoptIsChange DEF ApplyConfigUpdate, Newer
  <2>2. CASE UNCHANGED <<dc, file, task>>
    BY <1>3, <2>2 DEF ApplyConfigUpdate, IndexStep, NoIndexStep, Waiting, Storing, At
  <2> QED BY <1>3, <2>1, <2>2 DEF ApplyConfigUpdate
<1>4. ASSUME NEW n \in Node, NEW h \in Handler, NEW m \in msgs, HandleSync(n, h, m)
      PROVE  IndexStep(k)
  BY <1>4, <1>p, <1>m, MergeIsIndexStep DEF HandleSync, At
<1>5. ASSUME NEW n \in Node, NEW m \in msgs, SyncReceive(n, m)
      PROVE  IndexStep(k)
  BY <1>5, <1>p, <1>m, MergeIsIndexStep DEF SyncReceive, At
<1>6. ASSUME NEW n \in Node, NEW peer \in Node, SyncSend(n, peer)
      PROVE  IndexStep(k)
  <2>1. /\ task'[n]["sync"].pc = "await"
        /\ \A m \in Node, q \in Proc :
              <<m, q>> # <<n, "sync">> => task'[m][q] = task[m][q]
    BY <1>6, <1>p, TaskEffect DEF SyncSend
  <2>2. task[n]["sync"].pc \notin {"services", "routes"}
    BY <1>6 DEF SyncSend, At
  <2>3. UNCHANGED <<dc, service_index, routes, cut>>
    BY <1>6 DEF SyncSend
  <2> QED BY <1>p, <2>1, <2>2, <2>3, ElsewhereIsNoIndexStep
<1>7. ASSUME NEW n \in Node, SyncTimeout(n)
      PROVE  IndexStep(k)
  <2>1. /\ task'[n]["sync"].pc = "idle"
        /\ \A m \in Node, q \in Proc :
              <<m, q>> # <<n, "sync">> => task'[m][q].pc = task[m][q].pc
    <3>1. task' = [Unpeered(n) EXCEPT ![n]["sync"] = Idle]
      BY <1>7 DEF SyncTimeout
    <3>2. Unpeered(n) \in [Node -> [Proc -> Task]]
      BY ClosedType
    <3> QED BY <3>1, <3>2, <1>p, ClosedEffect DEF Idle
  <2>2. CASE k # n
    BY <1>7, <2>1, <2>2 DEF SyncTimeout, IndexStep, NoIndexStep, Waiting, Storing, At, TypeOK
  <2>3. CASE k = n /\ At(n, "sync", "services")
    <3>1. Storing(n)' = Storing(n)
      BY <2>1, <2>3 DEF Storing, At
    <3> QED BY <1>7, <2>3, <3>1 DEF SyncTimeout, IndexStep, CutStep, TypeOK
  <2>4. CASE k = n /\ ~At(n, "sync", "services")
    <3>1. task[n]["sync"].pc \notin {"services", "routes"}
      BY <1>7, <2>4 DEF SyncTimeout, At
    <3>2. cut' = cut
      BY <1>7, <2>4 DEF SyncTimeout, TypeOK
    <3> QED BY <1>7, <1>p, <2>1, <3>1, <3>2, ElsewhereIsNoIndexStep DEF SyncTimeout
  <2> QED BY <2>2, <2>3, <2>4
<1>8. ASSUME NEW n \in Node, Restart(n)
      PROVE  IndexStep(k)
  <2>0. Unpeered(n) \in [Node -> [Proc -> Task]]
    BY ClosedType
  <2>1. CASE k = n
    <3>1. \A q \in Proc : task'[n][q].pc = "idle"
      BY <1>8, <2>0 DEF Restart, Idle
    <3> QED BY <1>8, <2>1, <3>1 DEF Restart, IndexStep, RestartStep, Waiting, Storing, At, TypeOK
  <2>2. CASE k # n
    <3>1. \A q \in Proc : task'[k][q].pc = task[k][q].pc
      BY <1>8, <2>0, <2>2, ClosedEffect DEF Restart
    <3> QED BY <1>8, <2>2, <3>1 DEF Restart, IndexStep, NoIndexStep, Waiting, Storing, At, TypeOK
  <2> QED BY <2>1, <2>2
<1>9. ASSUME UNCHANGED <<dc, service_index, routes, task, cut>>
      PROVE  IndexStep(k)
  BY <1>9 DEF IndexStep, NoIndexStep, Waiting, Storing, At
<1>10. ASSUME NEW n \in Node, CliLoad(n) \/ CliSave(n) \/ CliFail(n) \/ HandEdit(n)
       PROVE  IndexStep(k)
  BY <1>10, <1>9 DEF CliLoad, CliSave, CliFail, HandEdit
<1>11. ASSUME NEW m \in msgs, LoseMessage(m)
       PROVE  IndexStep(k)
  BY <1>11, <1>9 DEF LoseMessage
<1>12. CASE UNCHANGED vars
  BY <1>12, <1>9 DEF vars
<1> QED
  BY <1>1, <1>2, <1>3, <1>4, <1>5, <1>6, <1>7, <1>8, <1>10, <1>11, <1>12,
     ProcIsIndexStep DEF Next, Receive

-----------------------------------------------------------------------------
(***************************************************************************)
(* The inductive invariant: a rebuild that stored the services has seen    *)
(* the config in memory, for its read guard keeps writers out; the two     *)
(* indexes differ only inside such a rebuild; with nothing left to rebuild *)
(* and nothing cut off they are those of the config; and neither is ever   *)
(* ahead of the config.                                                    *)
(***************************************************************************)
IndexInv ==
    \A n \in Node :
        /\ Storing(n) # {} => service_index[n] = dc[n]
        /\ Storing(n) = {} => service_index[n] = routes[n]
        /\ Waiting(n) = {} /\ Storing(n) = {} /\ ~cut[n] => routes[n] = dc[n]
        /\ NeverOlder(service_index[n], dc[n])
        /\ NeverOlder(routes[n], dc[n])

(* A config may stay, ...                                                  *)
LEMMA SameIsNotOlder ==
    ASSUME NEW c \in Config
    PROVE  NeverOlder(c, c)
<1>1. c.version \in Nat
  BY DEF Config
<1> QED BY <1>1 DEF NeverOlder

(* ... or be followed by one of a higher version.                          *)
LEMMA NewVersionIsNotOlder ==
    ASSUME NEW b \in Config, NEW c \in Config, NEW d \in Config,
           NeverOlder(b, c), d.version > c.version
    PROVE  NeverOlder(b, d)
<1>1. b.version \in Nat /\ c.version \in Nat /\ d.version \in Nat
  BY DEF Config
<1> QED BY <1>1 DEF NeverOlder

(* Every step keeps IndexInv.                                              *)
LEMMA IndexInvStep == TypeOK /\ IndexInv /\ [Next]_vars => IndexInv'
<1> SUFFICES ASSUME TypeOK, IndexInv, [Next]_vars, NEW n \in Node
             PROVE  /\ Storing(n)' # {} => service_index'[n] = dc'[n]
                    /\ Storing(n)' = {} => service_index'[n] = routes'[n]
                    /\ Waiting(n)' = {} /\ Storing(n)' = {} /\ ~cut'[n]
                          => routes'[n] = dc'[n]
                    /\ NeverOlder(service_index'[n], dc'[n])
                    /\ NeverOlder(routes'[n], dc'[n])
  BY DEF IndexInv
<1>0. TypeOK' /\ IndexStep(n)
  BY TypeStep, EveryStepIsIndexStep
<1>v. /\ dc[n] \in Config /\ service_index[n] \in Config
      /\ routes[n] \in Config /\ file[n] \in Config /\ dc'[n] \in Config
  BY <1>0 DEF TypeOK
<1>o. NeverOlder(service_index[n], dc[n]) /\ NeverOlder(routes[n], dc[n])
  BY DEF IndexInv
<1>1. CASE NoIndexStep(n)
  BY <1>1 DEF IndexInv, NoIndexStep
<1>2. CASE ChangeStep(n)
  <2>1. /\ NeverOlder(service_index[n], dc'[n])
        /\ NeverOlder(routes[n], dc'[n])
    BY <1>2, <1>v, <1>o, NewVersionIsNotOlder DEF ChangeStep
  <2> QED BY <1>2, <2>1 DEF IndexInv, ChangeStep
<1>3. CASE ServicesStep(n)
  BY <1>3, <1>v, <1>o, SameIsNotOlder DEF ServicesStep
<1>4. CASE RoutesStep(n)
  BY <1>4, <1>v, <1>o, SameIsNotOlder DEF IndexInv, RoutesStep
<1>5. CASE CutStep(n)
  BY <1>5 DEF IndexInv, CutStep
<1>6. CASE RestartStep(n)
  BY <1>6, <1>v, SameIsNotOlder DEF RestartStep
<1> QED BY <1>0, <1>1, <1>2, <1>3, <1>4, <1>5, <1>6 DEF IndexStep

(* IndexInv holds always.                                                  *)
LEMMA IndexInvHolds == Spec => [](TypeOK /\ IndexInv)
<1>1. Init => IndexInv
  BY DEF Init, IndexInv, Storing, Waiting, At, Idle, Blank, NeverOlder
<1> QED BY <1>1, IndexInvStep, TypeCorrect, PTL DEF Spec

(* Once no handler of a daemon has a rebuild_service_index to run, the     *)
(* indexes are those of dynamic_config, unless a sync timeout dropped a    *)
(* merge between the two.                                                  *)
THEOREM IndexesAreCurrent == Spec => []IndexCurrent
<1>1. IndexInv => IndexCurrent
  BY DEF IndexInv, IndexCurrent, Rebuilding, Waiting, Storing
<1> QED BY <1>1, IndexInvHolds, PTL

(* Services of one config and routes of another are visible only between   *)
(* the two stores of a rebuild_service_index.                              *)
THEOREM IndexesAreTornOnlyInRebuild == Spec => []IndexTornOnlyInRebuild
<1>1. IndexInv => IndexTornOnlyInRebuild
  BY DEF IndexInv, IndexTornOnlyInRebuild, Storing
<1> QED BY <1>1, IndexInvHolds, PTL

(* Between two restarts neither dynamic_config nor an index built from it  *)
(* goes back to an older version or changes within a version.              *)
THEOREM ConfigNeverGoesBack == Spec => NeverGoesBack
<1>1. TypeOK /\ IndexInv /\ [Next]_vars =>
        [\A n \in Node : boots'[n] = boots[n] =>
            /\ NeverOlder(dc[n], dc'[n])
            /\ NeverOlder(service_index[n], service_index'[n])
            /\ NeverOlder(routes[n], routes'[n])]_vars
  <2> SUFFICES ASSUME TypeOK, IndexInv, [Next]_vars, NEW n \in Node,
                      boots'[n] = boots[n]
               PROVE  /\ NeverOlder(dc[n], dc'[n])
                      /\ NeverOlder(service_index[n], service_index'[n])
                      /\ NeverOlder(routes[n], routes'[n])
    OBVIOUS
  <2>0. TypeOK' /\ IndexStep(n) /\ ~RestartStep(n)
    BY TypeStep, EveryStepIsIndexStep DEF RestartStep
  <2>v. dc[n] \in Config /\ dc'[n] \in Config
    BY <2>0 DEF TypeOK
  <2>o. NeverOlder(service_index[n], dc[n]) /\ NeverOlder(routes[n], dc[n])
    BY DEF IndexInv
  <2>r. /\ NeverOlder(dc[n], dc[n]) /\ NeverOlder(routes[n], routes[n])
        /\ NeverOlder(service_index[n], service_index[n])
    BY SameIsNotOlder DEF TypeOK
  <2>1. CASE NoIndexStep(n) \/ CutStep(n)
    BY <2>1, <2>r DEF NoIndexStep, CutStep
  <2>2. CASE ChangeStep(n)
    <3>1. NeverOlder(dc[n], dc'[n])
      BY <2>2, <2>v, <2>r, NewVersionIsNotOlder DEF ChangeStep
    <3> QED BY <2>2, <2>r, <3>1 DEF ChangeStep
  <2>3. CASE ServicesStep(n)
    <3>1. dc'[n] = dc[n] /\ service_index'[n] = dc[n] /\ routes'[n] = routes[n]
      BY <2>3 DEF ServicesStep
    <3> QED BY <3>1, <2>o, <2>r
  <2>4. CASE RoutesStep(n)
    <3>1. dc'[n] = dc[n] /\ service_index'[n] = service_index[n] /\ routes'[n] = dc[n]
      BY <2>4 DEF RoutesStep
    <3> QED BY <3>1, <2>o, <2>r
  <2> QED BY <2>0, <2>1, <2>2, <2>3, <2>4 DEF IndexStep
<1> QED BY <1>1, IndexInvHolds, PTL DEF Spec, NeverGoesBack

-----------------------------------------------------------------------------
(***************************************************************************)
(* One writer.  The daemons are managed through the admin RPCs of a single *)
(* daemon, nobody else writes the config files, and writing them succeeds. *)
(***************************************************************************)
OneWriter(w) ==
    /\ AdminNode \subseteq {w} /\ CliNode = {} /\ EditNode = {}
    /\ PersistFaults = FALSE

(* Memory and file change together.                                        *)
FileInv == file = dc /\ \A n \in Node : cli[n] = None

(* When writes succeed, a new config is in the file at once.               *)
LEMMA AdoptPersists ==
    ASSUME PersistFaults = FALSE, TypeOK, FileInv, NEW n \in Node, NEW c, Adopt(n, c)
    PROVE  file' = dc'
BY DEF Adopt, PersistOk, FileInv

(* Every step keeps the file and the memory equal.                         *)
LEMMA FileInvStep ==
    ASSUME NEW w, OneWriter(w), TypeOK, FileInv, [Next]_vars
    PROVE  FileInv'
<1> USE DEF FileInv
<1>1. ASSUME NEW n \in Node, NEW h \in Handler, AdminRequest(n, h)
      PROVE  FileInv'
  BY <1>1, AdoptPersists DEF AdminRequest, OneWriter
<1>2. ASSUME NEW n \in Node, PollConfig(n)
      PROVE  FileInv'
  BY <1>2, AdoptPersists DEF PollConfig, OneWriter
<1>3. ASSUME NEW n \in Node, CliLoad(n) \/ CliSave(n) \/ CliFail(n) \/ HandEdit(n)
      PROVE  FALSE
  BY <1>3 DEF CliLoad, CliSave, CliFail, HandEdit, OneWriter
<1>4. ASSUME NEW n \in Node, NEW p \in Proc, Step(n, p)
      PROVE  FileInv'
  <2>1. CASE PersistState(n, p)
    BY <2>1 DEF PersistState, PersistOk, OneWriter, TypeOK
  <2>2. CASE ~PersistState(n, p)
    BY <1>4, <2>2 DEF Step, RebuildServices, RebuildRoutes, BroadcastChange,
                      MergeNodes, SendReply
  <2> QED BY <2>1, <2>2
<1>5. ASSUME NEW n \in Node, NEW h \in Handler, NEW m \in msgs,
             ApplyConfigUpdate(n, h, m)
      PROVE  FileInv'
  BY <1>5, AdoptPersists DEF ApplyConfigUpdate, OneWriter
<1>6. ASSUME NEW n \in Node, NEW h \in Handler, NEW m \in msgs, HandleSync(n, h, m)
      PROVE  FileInv'
  BY <1>6, AdoptPersists DEF HandleSync, MergeConfig, OneWriter
<1>7. ASSUME NEW n \in Node, NEW m \in msgs, SyncReceive(n, m)
      PROVE  FileInv'
  BY <1>7, AdoptPersists DEF SyncReceive, MergeConfig, OneWriter
<1>8. ASSUME NEW n \in Node, Restart(n)
      PROVE  FileInv'
  BY <1>8 DEF Restart, TypeOK
<1>9. ASSUME NEW n \in Node, SyncTimeout(n) \/ \E peer \in Node : SyncSend(n, peer)
      PROVE  FileInv'
  BY <1>9 DEF SyncTimeout, SyncSend
<1>10. ASSUME NEW m \in msgs, LoseMessage(m)
       PROVE  FileInv'
  BY <1>10 DEF LoseMessage
<1>11. CASE UNCHANGED vars
  BY <1>11 DEF vars
<1> QED
  BY <1>1, <1>2, <1>3, <1>4, <1>5, <1>6, <1>7, <1>8, <1>9, <1>10, <1>11
     DEF Next, Receive

(* A daemon starts again by Restart only.                                  *)
LEMMA OnlyRestartBoots ==
    ASSUME [Next]_vars, boots' # boots
    PROVE  \E n \in Node : Restart(n)
<1>1. ASSUME NEW n \in Node, NEW p \in Proc, Step(n, p)
      PROVE  FALSE
  BY <1>1 DEF Step, RebuildServices, RebuildRoutes, BroadcastChange, MergeNodes,
              PersistState, SendReply
<1>2. ASSUME NEW n \in Node, NEW h \in Handler, AdminRequest(n, h) \/ Receive(n, h)
      PROVE  FALSE
  BY <1>2 DEF AdminRequest, Receive, ApplyConfigUpdate, HandleSync
<1>3. ASSUME NEW n \in Node, PollConfig(n) PROVE FALSE
  BY <1>3 DEF PollConfig
<1>4. ASSUME NEW n \in Node, CliLoad(n) \/ CliSave(n) \/ CliFail(n) \/ HandEdit(n)
      PROVE  FALSE
  BY <1>4 DEF CliLoad, CliSave, CliFail, HandEdit
<1>5. ASSUME NEW n \in Node, NEW peer \in Node, SyncSend(n, peer) PROVE FALSE
  BY <1>5 DEF SyncSend
<1>6. ASSUME NEW n \in Node, NEW m \in msgs, SyncReceive(n, m) PROVE FALSE
  BY <1>6 DEF SyncReceive
<1>7. ASSUME NEW n \in Node, SyncTimeout(n) PROVE FALSE
  BY <1>7 DEF SyncTimeout
<1>8. ASSUME NEW m \in msgs, LoseMessage(m) PROVE FALSE
  BY <1>8 DEF LoseMessage
<1>9. CASE UNCHANGED vars
  BY <1>9 DEF vars
<1> QED
  BY <1>1, <1>2, <1>3, <1>4, <1>5, <1>6, <1>7, <1>8, <1>9 DEF Next

(* A daemon killed at any point comes back with the config it had, when    *)
(* only the daemon writes its file and the writes succeed.                 *)
THEOREM RestartsKeepConfig ==
    ASSUME NEW w, OneWriter(w)
    PROVE  Spec => RestartKeepsConfig
<1>1. Init => FileInv
  BY DEF Init, FileInv
<1>2. TypeOK /\ FileInv /\ [Next]_vars => FileInv'
  BY FileInvStep
<1>3. TypeOK /\ FileInv /\ [Next]_vars =>
        [\A n \in Node : boots'[n] # boots[n] => dc'[n] = dc[n]]_vars
  <2> SUFFICES ASSUME TypeOK, FileInv, [Next]_vars, NEW n \in Node,
                      boots'[n] # boots[n]
               PROVE  dc'[n] = dc[n]
    OBVIOUS
  <2>1. PICK k \in Node : Restart(k)
    BY OnlyRestartBoots
  <2> QED BY <2>1 DEF Restart, FileInv, TypeOK
<1> QED BY <1>1, <1>2, <1>3, TypeCorrect, PTL DEF Spec, RestartKeepsConfig

-----------------------------------------------------------------------------
(* The configs somewhere in the system: in memory (and, with FileInv, in a *)
(* file), in a message, or in a handler that is about to broadcast it.     *)
Held(c) ==
    \/ c = Blank
    \/ \E n \in Node : c = dc[n]
    \/ \E m \in msgs : c = m.config
    \/ \E n \in Node, p \in Proc : c = task[n][p].config

(* Inductive: versions tell held configs apart, and none is newer than the *)
(* writer's, so the writer's next version is a fresh one.                  *)
OneWriterInv(w) ==
    /\ \A c, d : Held(c) /\ Held(d) /\ c.version = d.version => c = d
    /\ \A c : Held(c) => c.version <= dc[w].version

(* What is held anywhere is a config.                                      *)
LEMMA HeldType ==
    ASSUME TypeOK, NEW c, Held(c)
    PROVE  c \in Config /\ c.version \in Nat
<1>1. c \in Config
  <2>1. \A n \in Node, p \in Proc : task[n][p].config \in Config
    BY DEF TypeOK, Task
  <2>2. \A m \in msgs : m.config \in Config
    BY DEF TypeOK, Message
  <2> QED BY <2>1, <2>2, BlankType DEF Held, TypeOK
<1> QED BY <1>1 DEF Config

(* Only an admin RPC at the writer brings a new config into the system.    *)
HeldStep(w) ==
    \A c : Held(c)' => Held(c) \/ (c = dc'[w] /\ c.version > dc[w].version)

(* No step of a process, closed connection or merge makes a config up.     *)
LEMMA ResumeConfig ==
    ASSUME TypeOK, NEW n \in Node, NEW p \in Proc, NEW where,
           Resume(n, p, where) \/ Goto(n, p, where),
           NEW m \in Node, NEW q \in Proc
    PROVE  task'[m][q].config \in {Blank, task[m][q].config}
<1>t. ASSUME NEW t \in Task PROVE [t EXCEPT !.pc = where].config = t.config
  BY DEF Task
<1>u. task[m][q] \in Task
  BY DEF TypeOK
<1>1. CASE task' = [task EXCEPT ![n][p] = Idle]
  BY <1>1 DEF TypeOK, Idle
<1>2. CASE Goto(n, p, where)
  BY <1>2, <1>t, <1>u DEF Goto, TypeOK
<1> QED BY <1>1, <1>2 DEF Resume

LEMMA BecomeConfig ==
    ASSUME TypeOK, NEW n \in Node, NEW p \in Proc, NEW where, NEW kind, NEW c,
           NEW peer, Become(n, p, where, kind, c, peer),
           NEW m \in Node, NEW q \in Proc
    PROVE  task'[m][q].config \in {c, task[m][q].config}
BY DEF Become, TypeOK

LEMMA ClosedConfig ==
    ASSUME TypeOK, NEW n \in Node
    PROVE  /\ \A m \in Node, q \in Proc :
                Unpeered(n)[m][q].config = task[m][q].config
           /\ \A x \in Disconnected(n) : \E y \in msgs : x.config = y.config
<1>1. ASSUME NEW t \in Task PROVE [t EXCEPT !.peer = None].config = t.config
  BY DEF Task
<1>2. \A m \in Node, q \in Proc : Unpeered(n)[m][q].config = task[m][q].config
  BY <1>1 DEF TypeOK, Unpeered
<1>3. ASSUME NEW y \in Message, NEW f PROVE [y EXCEPT !.from = f].config = y.config
  BY DEF Message
<1>4. ASSUME NEW x \in Disconnected(n) PROVE \E y \in msgs : x.config = y.config
  <2>1. PICK y \in msgs :
          x = [y EXCEPT !.from = IF y.kind = "sync" /\ y.from = n THEN None ELSE @]
    BY DEF Disconnected
  <2> QED BY <2>1, <1>3 DEF TypeOK
<1> QED BY <1>2, <1>4

(* A step that puts held configs only into memory and messages.            *)
LEMMA NothingNew ==
    ASSUME NEW w, \A n \in Node : Held(dc'[n]), \A m \in msgs' : Held(m.config),
           \A n \in Node, p \in Proc : Held(task'[n][p].config)
    PROVE  HeldStep(w)
<1> SUFFICES ASSUME NEW c, Held(c)' PROVE Held(c)
  BY DEF HeldStep
<1>1. Held(Blank)
  BY DEF Held
<1>2. \/ c = Blank
      \/ \E n \in Node : c = dc'[n]
      \/ \E m \in msgs' : c = m.config
      \/ \E n \in Node, p \in Proc : c = task'[n][p].config
  BY DEF Held, Blank
<1> QED BY <1>1, <1>2

LEMMA MergeBringsNothingNew ==
    ASSUME TypeOK, NEW w, NEW n \in Node, NEW p \in Proc, NEW m \in msgs,
           NEW kind, NEW peer, MergeConfig(n, p, m.config, kind, peer),
           msgs' = msgs \ {m}
    PROVE  HeldStep(w)
<1>1. \A k \in Node : Held(dc'[k])
  BY DEF MergeConfig, Adopt, Held, TypeOK
<1>2. \A k \in Node, q \in Proc : Held(task'[k][q].config)
  <2>1. \A k \in Node, q \in Proc : task'[k][q].config \in {Blank, task[k][q].config}
    BY BecomeConfig DEF MergeConfig
  <2> QED BY <2>1 DEF Held
<1>3. \A x \in msgs' : Held(x.config)
  BY DEF Held
<1> QED BY <1>1, <1>2, <1>3, NothingNew

(* Only the writing daemon makes new configs, one version up.              *)
LEMMA HeldSteps ==
    ASSUME NEW w \in Node, OneWriter(w), TypeOK, FileInv, [Next]_vars
    PROVE  HeldStep(w)
<1>p. /\ "poll" \in Proc /\ "sync" \in Proc /\ Handler \subseteq Proc
  BY DEF Proc
<1>h. /\ Held(Blank) /\ \A n \in Node : Held(dc[n])
      /\ \A m \in msgs : Held(m.config)
      /\ \A n \in Node, p \in Proc : Held(task[n][p].config)
  BY DEF Held
<1>1. ASSUME NEW n \in Node, NEW h \in Handler, AdminRequest(n, h)
      PROVE  HeldStep(w)
  <2>1. n = w
    BY <1>1 DEF AdminRequest, OneWriter
  <2>2. PICK c \in Mutations(dc[n]) :
          Adopt(n, c) /\ Become(n, h, "services", "change", c, None)
    BY <1>1 DEF AdminRequest
  <2>3. c = dc'[w] /\ c.version > dc[w].version
    <3>1. dc[n] \in Config /\ dc[n].version \in Nat
      BY DEF TypeOK, Config
    <3> QED BY <2>1, <2>2, <3>1, MutationsType DEF Adopt, TypeOK
  <2>4. \A k \in Node : k # w => dc'[k] = dc[k]
    BY <2>1, <2>2 DEF Adopt, TypeOK
  <2>5. \A k \in Node, q \in Proc : task'[k][q].config \in {c, task[k][q].config}
    BY <2>2, <1>p, BecomeConfig
  <2>6. msgs' = msgs
    BY <1>1 DEF AdminRequest
  <2> SUFFICES ASSUME NEW d, Held(d)' PROVE Held(d) \/ d = c
    BY <2>3 DEF HeldStep
  <2>7. \/ d = Blank
        \/ \E k \in Node : d = dc'[k]
        \/ \E m \in msgs' : d = m.config
        \/ \E k \in Node, q \in Proc : d = task'[k][q].config
    BY DEF Held, Blank
  <2>8. CASE \E k \in Node : d = dc'[k]
    BY <2>8, <2>3, <2>4, <1>h
  <2>9. CASE \E k \in Node, q \in Proc : d = task'[k][q].config
    BY <2>9, <2>5, <1>h
  <2> QED BY <2>6, <2>7, <2>8, <2>9, <1>h
<1>2. ASSUME NEW n \in Node, PollConfig(n)
      PROVE  FALSE
  BY <1>2 DEF PollConfig, FileIsNewer, FileInv, TypeOK, Config
<1>3. ASSUME NEW n \in Node, CliLoad(n) \/ CliSave(n) \/ CliFail(n) \/ HandEdit(n)
      PROVE  FALSE
  BY <1>3 DEF CliLoad, CliSave, CliFail, HandEdit, OneWriter, FileInv
<1>4. ASSUME NEW n \in Node, NEW p \in Proc, Step(n, p)
      PROVE  HeldStep(w)
  <2>1. dc' = dc
    BY <1>4 DEF Step, RebuildServices, RebuildRoutes, BroadcastChange, MergeNodes,
                PersistState, SendReply
  <2>2. \E where : Resume(n, p, where) \/ Goto(n, p, where)
    BY <1>4 DEF Step, RebuildServices, RebuildRoutes, BroadcastChange, MergeNodes,
                PersistState, SendReply
  <2>3. \A k \in Node, q \in Proc : task'[k][q].config \in {Blank, task[k][q].config}
    BY <2>2, ResumeConfig
  <2>4. \A m \in msgs' : m \in msgs \/ m.config = dc[n] \/ m.config = task[n][p].config
    <3>1. CASE BroadcastChange(n, p)
      <4>1. PICK to \in SUBSET (Node \ {n}) :
              msgs' = msgs \cup {[kind |-> "update", to |-> x, from |-> None,
                                  config |-> task[n][p].config] : x \in to}
        BY <3>1 DEF BroadcastChange, Broadcast
      <4> TAKE m \in msgs'
      <4>2. CASE m \notin msgs
        <5>1. PICK x \in to : m = [kind |-> "update", to |-> x, from |-> None,
                                   config |-> task[n][p].config]
          BY <4>1, <4>2
        <5> QED BY ONLY <5>1
      <4> QED BY <4>2
    <3>2. CASE SendReply(n, p)
      <4>1. msgs' \subseteq msgs \cup {[kind |-> "reply", to |-> task[n][p].peer,
                                        from |-> n, config |-> dc[n]]}
        BY <3>2 DEF SendReply
      <4> TAKE m \in msgs'
      <4>2. CASE m \notin msgs
        <5>1. m = [kind |-> "reply", to |-> task[n][p].peer, from |-> n,
                   config |-> dc[n]]
          BY <4>1, <4>2
        <5> QED BY ONLY <5>1
      <4> QED BY <4>2
    <3>3. CASE \/ RebuildServices(n, p) \/ RebuildRoutes(n, p)
               \/ MergeNodes(n, p) \/ PersistState(n, p)
      BY <3>3 DEF RebuildServices, RebuildRoutes, MergeNodes, PersistState
    <3> QED BY <1>4, <3>1, <3>2, <3>3 DEF Step
  <2> QED BY <1>h, <2>1, <2>3, <2>4, NothingNew
<1>5. ASSUME NEW n \in Node, NEW h \in Handler, NEW m \in msgs,
             ApplyConfigUpdate(n, h, m)
      PROVE  HeldStep(w)
  <2>1. \A k \in Node : Held(dc'[k])
    BY <1>5, <1>h DEF ApplyConfigUpdate, Adopt, TypeOK
  <2>2. \A k \in Node, q \in Proc : task'[k][q].config \in {Blank, task[k][q].config}
    BY <1>5, <1>p, BecomeConfig DEF ApplyConfigUpdate
  <2>3. \A x \in msgs' : Held(x.config)
    BY <1>5, <1>h DEF ApplyConfigUpdate
  <2> QED BY <1>h, <2>1, <2>2, <2>3, NothingNew
<1>6. ASSUME NEW n \in Node, NEW h \in Handler, NEW m \in msgs, HandleSync(n, h, m)
      PROVE  HeldStep(w)
  BY <1>6, <1>p, MergeBringsNothingNew DEF HandleSync
<1>7. ASSUME NEW n \in Node, NEW m \in msgs, SyncReceive(n, m)
      PROVE  HeldStep(w)
  BY <1>7, <1>p, MergeBringsNothingNew DEF SyncReceive
<1>8. ASSUME NEW n \in Node, NEW peer \in Node, SyncSend(n, peer)
      PROVE  HeldStep(w)
  <2>1. \A k \in Node, q \in Proc : task'[k][q].config \in {Blank, task[k][q].config}
    BY <1>8, <1>p, BecomeConfig DEF SyncSend
  <2>2. dc' = dc /\ \A m \in msgs' : m \in msgs \/ m.config = dc[n]
    BY <1>8 DEF SyncSend
  <2> QED BY <1>h, <2>1, <2>2, NothingNew
<1>9. ASSUME NEW n \in Node, SyncTimeout(n) \/ Restart(n)
      PROVE  HeldStep(w)
  <2>0. Unpeered(n) \in [Node -> [Proc -> Task]]
    BY ClosedType
  <2>1. \A k \in Node : Held(dc'[k])
    BY <1>9, <1>h DEF SyncTimeout, Restart, FileInv, TypeOK
  <2>2. \A k \in Node, q \in Proc : Held(task'[k][q].config)
    <3>1. ASSUME NEW k \in Node, NEW q \in Proc
          PROVE  task'[k][q] \in {Idle, Unpeered(n)[k][q]}
      <4>1. \/ task' = [Unpeered(n) EXCEPT ![n]["sync"] = Idle]
            \/ task' = [Unpeered(n) EXCEPT ![n] = [r \in Proc |-> Idle]]
        BY <1>9 DEF SyncTimeout, Restart
      <4> QED BY <4>1, <1>p, <2>0
    <3>2. Idle.config = Blank
      BY DEF Idle
    <3>3. \A k \in Node, q \in Proc : Unpeered(n)[k][q].config = task[k][q].config
      BY ClosedConfig
    <3> TAKE k \in Node, q \in Proc
    <3>4. CASE task'[k][q] = Idle
      BY <3>4, <3>2, <1>h
    <3>5. CASE task'[k][q] = Unpeered(n)[k][q]
      BY <3>5, <3>3, <1>h
    <3> QED BY <3>1, <3>4, <3>5
  <2>3. \A x \in msgs' : Held(x.config)
    <3>1. msgs' = Disconnected(n)
      BY <1>9 DEF SyncTimeout, Restart
    <3> QED BY <3>1, <1>h, ClosedConfig
  <2> QED BY <2>1, <2>2, <2>3, NothingNew
<1>10. ASSUME NEW m \in msgs, LoseMessage(m)
       PROVE  HeldStep(w)
  BY <1>10, <1>h, NothingNew DEF LoseMessage
<1>11. CASE UNCHANGED vars
  BY <1>11, <1>h, NothingNew DEF vars
<1> QED
  BY <1>1, <1>2, <1>3, <1>4, <1>5, <1>6, <1>7, <1>8, <1>9, <1>10, <1>11
     DEF Next, Receive

(* Every step keeps OneWriterInv.                                          *)
LEMMA OneWriterStep ==
    ASSUME NEW w \in Node, OneWriter(w), TypeOK, FileInv, OneWriterInv(w), [Next]_vars
    PROVE  OneWriterInv(w)'
<1>1. HeldStep(w) /\ TypeOK'
  BY HeldSteps, TypeStep
<1>2. Held(dc[w]) /\ dc[w].version \in Nat
  BY HeldType DEF Held
<1>3. dc'[w].version \in Nat
  BY <1>1 DEF TypeOK, Config
<1>4. dc'[w].version >= dc[w].version
  <2>1. IndexStep(w)
    BY EveryStepIsIndexStep
  <2>2. dc'[w] = dc[w] \/ dc'[w].version > dc[w].version
    BY <2>1 DEF IndexStep, NoIndexStep, ChangeStep, ServicesStep, RoutesStep, CutStep,
                RestartStep, FileInv
  <2> QED BY <1>2, <1>3, <2>2
<1>5. \A c : Held(c) => c.version \in Nat /\ c.version <= dc[w].version
  BY HeldType DEF OneWriterInv
<1>6. ASSUME NEW c, Held(c)'
      PROVE  c.version \in Nat /\ c.version <= dc'[w].version
  <2>1. CASE Held(c)
    BY <2>1, <1>2, <1>3, <1>4, <1>5
  <2>2. CASE c = dc'[w]
    BY <2>2, <1>3
  <2> QED BY <1>1, <1>6, <2>1, <2>2 DEF HeldStep
<1>7. ASSUME NEW c, NEW d, Held(c)', Held(d)', c.version = d.version
      PROVE  c = d
  <2>1. /\ Held(c) \/ (c = dc'[w] /\ c.version > dc[w].version)
        /\ Held(d) \/ (d = dc'[w] /\ d.version > dc[w].version)
    BY <1>1, <1>7 DEF HeldStep
  <2>2. CASE Held(c) /\ Held(d)
    BY <2>2, <1>7 DEF OneWriterInv
  <2> QED BY <2>1, <2>2, <1>2, <1>5, <1>7
<1> QED BY <1>6, <1>7 DEF OneWriterInv

(* Two daemons at the same version have the same config, when one daemon   *)
(* takes the admin RPCs, nobody else writes the files and writing succeeds,*)
(* whatever is lost, delayed or restarted.                                 *)
THEOREM VersionsDetermineConfigs ==
    ASSUME NEW w \in Node, OneWriter(w)
    PROVE  Spec => []VersionDeterminesConfig
<1>1. Init => FileInv /\ OneWriterInv(w)
  <2> SUFFICES ASSUME Init PROVE FileInv /\ OneWriterInv(w)
    OBVIOUS
  <2>1. FileInv
    BY DEF Init, FileInv
  <2>2. ASSUME NEW n \in Node, NEW p \in Proc PROVE task[n][p].config = Blank
    BY DEF Init, Idle
  <2>3. msgs = {} /\ \A n \in Node : dc[n] = Blank
    BY DEF Init
  <2>4. \A c : Held(c) => c = Blank
    BY <2>2, <2>3 DEF Held
  <2>5. dc[w] = Blank /\ Blank.version = 0
    BY <2>3 DEF Blank
  <2> QED BY <2>1, <2>4, <2>5 DEF OneWriterInv
<1>2. TypeOK /\ FileInv /\ OneWriterInv(w) /\ [Next]_vars => FileInv' /\ OneWriterInv(w)'
  BY FileInvStep, OneWriterStep
<1>3. OneWriterInv(w) => VersionDeterminesConfig
  BY DEF OneWriterInv, Held, VersionDeterminesConfig
<1> QED BY <1>1, <1>2, <1>3, TypeCorrect, PTL DEF Spec
=============================================================================
