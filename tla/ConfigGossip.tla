---------------------------- MODULE ConfigGossip ----------------------------
(***************************************************************************)
(* Replication of the versioned dynamic config.                            *)
(*                                                                         *)
(* Each daemon keeps `dynamic_config` behind a read-write lock, a copy of  *)
(* it in the config file, and two lock-free indexes built from it.  A      *)
(* change starts as an admin RPC, a CLI command or a hand edit of the      *)
(* file, and spreads by ConfigUpdate broadcasts and by the sync loop.      *)
(*                                                                         *)
(* Every handler is split where it awaits: what the code does under the    *)
(* write lock is one step, and each later lock acquisition, send or reply  *)
(* is a step of its own, taken by the process (connection handler, poll    *)
(* loop or sync loop) whose program counter is in `task`.                  *)
(***************************************************************************)
EXTENDS Naturals, FiniteSets

CONSTANTS
    Node,           \* the daemons
    Handler,        \* connection handlers a daemon runs at once
    Groups,         \* values of service_groups
    Routes,         \* values of routes
    InitGroups,     \* no service_groups, as every config file starts
    InitRoutes,     \* no routes, as every config file starts
    AdminNode,      \* daemons that accept admin RPCs
    CliNode,        \* daemons whose file the CLI changes
    EditNode,       \* daemons whose file is edited by hand
    CrashNode,      \* daemons that may be killed and restarted
    PersistFaults,  \* TRUE if reading or writing the config file may fail
    LossyNet,       \* TRUE if messages get lost and exchanges time out
    MaxVersion,     \* bound: no change starts at this version or above
    MaxMsgs,        \* bound: messages in flight
    MaxBoots,       \* bound: restarts of each daemon
    None            \* no peer, no config

ASSUME ConfigGossipAssumption ==
    /\ InitGroups \in Groups /\ InitRoutes \in Routes
    /\ AdminNode \subseteq Node /\ CliNode \subseteq Node
    /\ EditNode \subseteq Node /\ CrashNode \subseteq Node
    /\ PersistFaults \in BOOLEAN /\ LossyNet \in BOOLEAN
    /\ MaxVersion \in Nat /\ MaxMsgs \in Nat /\ MaxBoots \in Nat
    /\ None \notin Node
    /\ {"poll", "sync"} \cap Handler = {}

VARIABLES
    dc,             \* dynamic_config in memory
    file,           \* dynamic_config in the config file
    service_index,  \* the config the service index was built from
    routes,         \* the config the route index was built from
    task,           \* program counter and locals of every process
    msgs,           \* messages in flight
    cli,            \* the config a running CLI command has loaded
    cut,            \* TRUE after a sync timeout cut off a pending rebuild
    boots           \* restarts so far

vars == <<dc, file, service_index, routes, task, msgs, cli, cut, boots>>

Config == [version : Nat, groups : Groups, routes : Routes]

Blank == [version |-> 0, groups |-> InitGroups, routes |-> InitRoutes]

Proc == Handler \cup {"poll", "sync"}

PC == {"idle", "await", "services", "routes", "members", "persist",
       "broadcast", "reply"}

Kind == {"none", "change", "update", "inbound", "outbound"}

Task == [pc : PC, kind : Kind, config : Config, peer : Node \cup {None}]

Idle == [pc |-> "idle", kind |-> "none", config |-> Blank, peer |-> None]

Message == [kind : {"update", "sync", "reply"}, to : Node,
            from : Node \cup {None}, config : Config]

TypeOK ==
    /\ dc \in [Node -> Config]
    /\ file \in [Node -> Config]
    /\ service_index \in [Node -> Config]
    /\ routes \in [Node -> Config]
    /\ task \in [Node -> [Proc -> Task]]
    /\ msgs \in SUBSET Message
    /\ cli \in [Node -> Config \cup {None}]
    /\ cut \in [Node -> BOOLEAN]
    /\ boots \in [Node -> Nat]

Init ==
    /\ dc = [n \in Node |-> Blank]
    /\ file = [n \in Node |-> Blank]
    /\ service_index = [n \in Node |-> Blank]
    /\ routes = [n \in Node |-> Blank]
    /\ task = [n \in Node |-> [p \in Proc |-> Idle]]
    /\ msgs = {}
    /\ cli = [n \in Node |-> None]
    /\ cut = [n \in Node |-> FALSE]
    /\ boots = [n \in Node |-> 0]

-----------------------------------------------------------------------------
(* Helpers. *)

At(n, p, where) == task[n][p].pc = where

(* Mutant: the guard is released between the two stores.                   *)
CanWriteUnlocked(n) == TRUE

(* rebuild_service_index keeps its read guard from the first store to the  *)
(* second, so no process may take the write lock in between.               *)
CanWrite(n) == \A p \in Proc : ~At(n, p, "routes")

(* persist_state_with only logs an unreadable or unwritable file.          *)
PersistOk == IF PersistFaults THEN BOOLEAN ELSE {TRUE}

(* Mutant: the config is replaced and not persisted.                       *)
AdoptInMemory(n, c) ==
    /\ CanWrite(n)
    /\ dc' = [dc EXCEPT ![n] = c]
    /\ UNCHANGED file

(* What happens under the write lock: replace the config, persist it.      *)
Adopt(n, c) ==
    /\ CanWrite(n)
    /\ dc' = [dc EXCEPT ![n] = c]
    /\ \E ok \in PersistOk : file' = IF ok THEN [file EXCEPT ![n] = c] ELSE file

Goto(n, p, where) == task' = [task EXCEPT ![n][p].pc = where]

Become(n, p, where, kind, c, peer) ==
    task' = [task EXCEPT ![n][p] =
                [pc |-> where, kind |-> kind, config |-> c, peer |-> peer]]

(* upsert_service, remove_service, rename_service and set_routes: each     *)
(* that succeeds changes the groups or the routes and adds 1 to version.   *)
Mutations(c) ==
    {[version |-> c.version + 1, groups |-> g, routes |-> c.routes] : g \in Groups}
        \cup {[version |-> c.version + 1, groups |-> c.groups, routes |-> r] :
                r \in Routes}

(* broadcast_message: one best-effort send per peer, any of which fails.   *)
Broadcast(n, c) ==
    \E to \in SUBSET (Node \ {n}) :
        /\ LossyNet \/ to = Node \ {n}
        /\ msgs' = msgs \cup {[kind |-> "update", to |-> m, from |-> None,
                               config |-> c] : m \in to}
        /\ Cardinality(msgs') <= MaxMsgs

(* The messages after n's outbound sync connection closed: its reply is    *)
(* gone, and nobody will read an answer to its request.                    *)
Disconnected(n) ==
    {[m EXCEPT !.from = IF m.kind = "sync" /\ m.from = n THEN None ELSE @] :
        m \in {x \in msgs : ~(x.kind = "reply" /\ x.to = n)}}

(* The processes after n's outbound sync connection closed.                *)
Unpeered(n) ==
    [m \in Node |-> [p \in Proc |->
        IF task[m][p].peer = n /\ task[m][p].kind = "inbound"
        THEN [task[m][p] EXCEPT !.peer = None] ELSE task[m][p]]]

-----------------------------------------------------------------------------
(* Changes. *)

(* handle_admin_request for a permitted client and a valid operation.  An  *)
(* operation that is refused changes nothing.                              *)
AdminRequest(n, h) ==
    /\ n \in AdminNode
    /\ At(n, h, "idle")
    /\ dc[n].version < MaxVersion
    /\ \E c \in Mutations(dc[n]) :
        /\ Adopt(n, c)
        /\ Become(n, h, "services", "change", c, None)
    /\ UNCHANGED <<service_index, routes, msgs, cli, cut, boots>>

(* The config in the file when the poll loop adopts it, with the version   *)
(* it then gets.  Routes are not compared.                                 *)
FileIsNewer(n) ==
    \/ file[n].version > dc[n].version
    \/ file[n].version = dc[n].version /\ file[n].groups # dc[n].groups

(* Mutant: a hand edit is adopted under the version it was made at.        *)
PolledAsIs(n) == file[n]

PolledConfig(n) ==
    [file[n] EXCEPT !.version = IF @ <= dc[n].version THEN dc[n].version + 1 ELSE @]

(* Mutant: the poll loop does not rebuild the indexes.                     *)
PollWithoutRebuild(n) ==
    /\ At(n, "poll", "idle")
    /\ FileIsNewer(n)
    /\ PolledConfig(n).version <= MaxVersion
    /\ Adopt(n, PolledConfig(n))
    /\ Become(n, "poll", "broadcast", "change", PolledConfig(n), None)
    /\ UNCHANGED <<service_index, routes, msgs, cli, cut, boots>>

(* run_config_poll_loop, one pass that adopts the file.                    *)
PollConfig(n) ==
    /\ At(n, "poll", "idle")
    /\ FileIsNewer(n)
    /\ PolledConfig(n).version <= MaxVersion
    /\ Adopt(n, PolledConfig(n))
    /\ Become(n, "poll", "services", "change", PolledConfig(n), None)
    /\ UNCHANGED <<service_index, routes, msgs, cli, cut, boots>>

(* What Config::load(..).unwrap_or_default() gives: an empty config if the *)
(* file cannot be read.                                                    *)
Loaded(n) == {file[n]} \cup (IF PersistFaults THEN {Blank} ELSE {})

(* A CLI command without --remote loads the file ...                       *)
CliLoad(n) ==
    /\ n \in CliNode
    /\ cli[n] = None
    /\ \E c \in Loaded(n) :
        /\ c.version < MaxVersion
        /\ cli' = [cli EXCEPT ![n] = c]
    /\ UNCHANGED <<dc, file, service_index, routes, task, msgs, cut, boots>>

(* ... saves what it made of it, whatever the file holds by now, and       *)
(* broadcasts it to the file's bootstrap peers, ...                        *)
CliSave(n) ==
    /\ cli[n] # None
    /\ \E c \in Mutations(cli[n]) :
        /\ file' = [file EXCEPT ![n] = c]
        /\ Broadcast(n, c)
    /\ cli' = [cli EXCEPT ![n] = None]
    /\ UNCHANGED <<dc, service_index, routes, task, cut, boots>>

(* ... or fails before saving.                                             *)
CliFail(n) ==
    /\ cli[n] # None
    /\ cli' = [cli EXCEPT ![n] = None]
    /\ UNCHANGED <<dc, file, service_index, routes, task, msgs, cut, boots>>

(* An operator edits the file and leaves its version alone.                *)
HandEdit(n) ==
    /\ n \in EditNode
    /\ file[n].version < MaxVersion
    /\ \E g \in Groups, r \in Routes :
          file' = [file EXCEPT ![n].groups = g, ![n].routes = r]
    /\ UNCHANGED <<dc, service_index, routes, task, msgs, cli, cut, boots>>

-----------------------------------------------------------------------------
(* The rest of a handler, after it released the write lock. *)

(* Where a process goes once rebuild_service_index returned: an admin RPC  *)
(* or a poll broadcasts, a ConfigUpdate is done, a merge does the nodes.   *)
AfterRebuild(t) ==
    CASE t.kind = "change" -> "broadcast"
      [] t.kind \in {"inbound", "outbound"} -> "members"
      [] OTHER -> "idle"

(* ... and once merge_sync returned: an inbound Sync is answered.          *)
AfterMerge(t) == IF t.kind = "inbound" THEN "reply" ELSE "idle"

Resume(n, p, where) ==
    IF where = "idle" THEN task' = [task EXCEPT ![n][p] = Idle]
    ELSE Goto(n, p, where)

RebuildServices(n, p) ==
    /\ At(n, p, "services")
    /\ service_index' = [service_index EXCEPT ![n] = dc[n]]
    /\ Goto(n, p, "routes")
    /\ UNCHANGED <<dc, file, routes, msgs, cli, cut, boots>>

RebuildRoutes(n, p) ==
    /\ At(n, p, "routes")
    /\ routes' = [routes EXCEPT ![n] = dc[n]]
    /\ cut' = [cut EXCEPT ![n] = FALSE]
    /\ Resume(n, p, AfterRebuild(task[n][p]))
    /\ UNCHANGED <<dc, file, service_index, msgs, cli, boots>>

BroadcastChange(n, p) ==
    /\ At(n, p, "broadcast")
    /\ Broadcast(n, task[n][p].config)
    /\ Resume(n, p, "idle")
    /\ UNCHANGED <<dc, file, service_index, routes, cli, cut, boots>>

(* merge_sync's second half: update_known_nodes, which either changed the  *)
(* table (then persist_state follows) or did not.                          *)
MergeNodes(n, p) ==
    /\ At(n, p, "members")
    /\ \/ Goto(n, p, "persist")
       \/ Resume(n, p, AfterMerge(task[n][p]))
    /\ UNCHANGED <<dc, file, service_index, routes, msgs, cli, cut, boots>>

(* persist_state writes the config in memory over whatever the file holds. *)
PersistState(n, p) ==
    /\ At(n, p, "persist")
    /\ \E ok \in PersistOk :
          file' = IF ok THEN [file EXCEPT ![n] = dc[n]] ELSE file
    /\ Resume(n, p, AfterMerge(task[n][p]))
    /\ UNCHANGED <<dc, service_index, routes, msgs, cli, cut, boots>>

(* Mutant: a Sync nobody waits on is answered too.                         *)
SendReplyToAny(n, h) ==
    /\ At(n, h, "reply")
    /\ msgs' = msgs \cup {[kind |-> "reply", to |-> task[n][h].peer,
                           from |-> n, config |-> dc[n]]}
    /\ Cardinality(msgs') <= MaxMsgs
    /\ Resume(n, h, "idle")
    /\ UNCHANGED <<dc, file, service_index, routes, cli, cut, boots>>

(* The reply to a Sync is built when it is sent.  Without a reader it is   *)
(* dropped.                                                                *)
SendReply(n, h) ==
    /\ At(n, h, "reply")
    /\ msgs' = IF task[n][h].peer = None THEN msgs
               ELSE msgs \cup {[kind |-> "reply", to |-> task[n][h].peer,
                                from |-> n, config |-> dc[n]]}
    /\ Cardinality(msgs') <= MaxMsgs
    /\ Resume(n, h, "idle")
    /\ UNCHANGED <<dc, file, service_index, routes, cli, cut, boots>>

-----------------------------------------------------------------------------
(* Receiving. *)

(* Mutant: the next version is not taken.                                  *)
NewerByTwo(c, n) == c.version > dc[n].version + 1

(* The version test of apply_message and merge_sync.                       *)
Newer(c, n) == c.version > dc[n].version

(* apply_message for a ConfigUpdate.                                       *)
ApplyConfigUpdate(n, h, m) ==
    /\ m.kind = "update" /\ m.to = n
    /\ At(n, h, "idle")
    /\ msgs' = msgs \ {m}
    /\ \/ /\ Newer(m.config, n)
          /\ Adopt(n, m.config)
          /\ Become(n, h, "services", "update", Blank, None)
       \/ /\ ~Newer(m.config, n)
          /\ UNCHANGED <<dc, file, task>>
    /\ UNCHANGED <<service_index, routes, cli, cut, boots>>

(* merge_sync up to the release of the write lock, in process p, for a     *)
(* Sync that carries config c.                                             *)
MergeConfig(n, p, c, kind, peer) ==
    \/ /\ Newer(c, n)
       /\ Adopt(n, c)
       /\ Become(n, p, "services", kind, Blank, peer)
    \/ /\ ~Newer(c, n)
       /\ Become(n, p, "members", kind, Blank, peer)
       /\ UNCHANGED <<dc, file>>

(* handle_gossip_message for an inbound Sync.                              *)
HandleSync(n, h, m) ==
    /\ m.kind = "sync" /\ m.to = n
    /\ At(n, h, "idle")
    /\ msgs' = msgs \ {m}
    /\ MergeConfig(n, h, m.config, "inbound", m.from)
    /\ UNCHANGED <<service_index, routes, cli, cut, boots>>

(* sync_with_peer sends our config ...                                     *)
SyncSend(n, peer) ==
    /\ At(n, "sync", "idle") /\ peer # n
    /\ msgs' = msgs \cup {[kind |-> "sync", to |-> peer, from |-> n, config |-> dc[n]]}
    /\ Cardinality(msgs') <= MaxMsgs
    /\ Become(n, "sync", "await", "outbound", Blank, peer)
    /\ UNCHANGED <<dc, file, service_index, routes, cli, cut, boots>>

(* ... and merges the reply.                                               *)
SyncReceive(n, m) ==
    /\ m.kind = "reply" /\ m.to = n
    /\ At(n, "sync", "await")
    /\ msgs' = msgs \ {m}
    /\ MergeConfig(n, "sync", m.config, "outbound", None)
    /\ UNCHANGED <<service_index, routes, cli, cut, boots>>

(* run_sync_loop's 10s timeout (or a failed exchange) drops sync_with_peer *)
(* wherever it awaits: on the reply, or on a lock inside merge_sync, even  *)
(* after the config was adopted and before the indexes were rebuilt.       *)
SyncTimeout(n) ==
    /\ LossyNet
    /\ task[n]["sync"].pc \in {"await", "services", "members", "persist"}
    /\ cut' = [cut EXCEPT ![n] = @ \/ At(n, "sync", "services")]
    /\ msgs' = Disconnected(n)
    /\ task' = [Unpeered(n) EXCEPT ![n]["sync"] = Idle]
    /\ UNCHANGED <<dc, file, service_index, routes, cli, boots>>

(* A connection fails before its message arrives.                          *)
LoseMessage(m) ==
    /\ LossyNet
    /\ msgs' = msgs \ {m}
    /\ UNCHANGED <<dc, file, service_index, routes, task, cli, cut, boots>>

(* The daemon is killed, and started again from its file.                  *)
Restart(n) ==
    /\ n \in CrashNode /\ boots[n] < MaxBoots
    /\ boots' = [boots EXCEPT ![n] = @ + 1]
    /\ dc' = [dc EXCEPT ![n] = file[n]]
    /\ service_index' = [service_index EXCEPT ![n] = file[n]]
    /\ routes' = [routes EXCEPT ![n] = file[n]]
    /\ msgs' = Disconnected(n)
    /\ task' = [Unpeered(n) EXCEPT ![n] = [p \in Proc |-> Idle]]
    /\ cut' = [cut EXCEPT ![n] = FALSE]
    /\ UNCHANGED <<file, cli>>

-----------------------------------------------------------------------------
Step(n, p) ==
    \/ RebuildServices(n, p)
    \/ RebuildRoutes(n, p)
    \/ BroadcastChange(n, p)
    \/ MergeNodes(n, p)
    \/ PersistState(n, p)
    \/ SendReply(n, p)

Receive(n, h) ==
    \E m \in msgs : ApplyConfigUpdate(n, h, m) \/ HandleSync(n, h, m)

Next ==
    \/ \E n \in Node, h \in Handler : AdminRequest(n, h) \/ Receive(n, h)
    \/ \E n \in Node, p \in Proc : Step(n, p)
    \/ \E n \in Node : \/ PollConfig(n)
                       \/ CliLoad(n) \/ CliSave(n) \/ CliFail(n)
                       \/ HandEdit(n)
                       \/ \E peer \in Node : SyncSend(n, peer)
                       \/ \E m \in msgs : SyncReceive(n, m)
                       \/ SyncTimeout(n)
                       \/ Restart(n)
    \/ \E m \in msgs : LoseMessage(m)

Spec == Init /\ [][Next]_vars

(* Every handler that is running gets on, the loops come round, and the    *)
(* sync loop visits every peer.                                            *)
Fairness ==
    /\ \A n \in Node, p \in Proc : WF_vars(Step(n, p))
    /\ \A n \in Node, h \in Handler : WF_vars(Receive(n, h))
    /\ \A n \in Node : WF_vars(PollConfig(n))
    /\ \A n \in Node : WF_vars(\E m \in msgs : SyncReceive(n, m))
    /\ \A n \in Node, peer \in Node : SF_vars(SyncSend(n, peer))

FairSpec == Spec /\ Fairness

-----------------------------------------------------------------------------
(* Properties. *)

Rebuilding(n) == \E p \in Proc : At(n, p, "services") \/ At(n, p, "routes")

(* Proxies look services up in the indexes, never in the config: once no   *)
(* handler of the daemon has a rebuild to do, both indexes are those of    *)
(* the config in memory - unless a sync timeout cut a rebuild off.         *)
IndexCurrent ==
    \A n \in Node :
        ~Rebuilding(n) /\ ~cut[n] =>
            service_index[n] = dc[n] /\ routes[n] = dc[n]

(* Services and routes of different configs are only ever visible during   *)
(* the two stores of one rebuild_service_index, and the newer of the two   *)
(* is the current config.                                                  *)
IndexTornOnlyInRebuild ==
    \A n \in Node :
        service_index[n] # routes[n] =>
            /\ \E p \in Proc : At(n, p, "routes")
            /\ service_index[n] = dc[n]

NeverOlder(old, new) ==
    new.version >= old.version /\ (new.version = old.version => new = old)

(* While a daemon runs, whatever mix of updates, syncs, polls, edits and   *)
(* RPCs it handles, its config and the indexes its proxies use never go    *)
(* back to an older version, nor change under the same version.            *)
NeverGoesBack ==
    [][\A n \in Node : boots'[n] = boots[n] =>
          /\ NeverOlder(dc[n], dc'[n])
          /\ NeverOlder(service_index[n], service_index'[n])
          /\ NeverOlder(routes[n], routes'[n])]_vars

(* With one writing daemon whose writes to the file succeed, two daemons   *)
(* at the same version have the same config: this is what lets merge_sync  *)
(* compare versions only.                                                  *)
VersionDeterminesConfig ==
    \A n, m \in Node : dc[n].version = dc[m].version => dc[n] = dc[m]

(* When nobody else writes the file and writes succeed, a daemon killed    *)
(* at any point comes back with the config it had: handlers persist before *)
(* they release the lock, so no peer or client saw a config it forgets.    *)
RestartKeepsConfig ==
    [][\A n \in Node : boots'[n] # boots[n] => dc'[n] = dc[n]]_vars

Converged ==
    \A n \in Node : /\ \A m \in Node : dc[n] = dc[m]
                    /\ service_index[n] = dc[n] /\ routes[n] = dc[n]

(* Once changes stop and the network works, the sync loops bring every     *)
(* daemon and its indexes to the same config.                              *)
Convergence == <>[]Converged

(* The comments on persist_state and persist_state_with: a write of the    *)
(* daemon never lands on top of a newer version in the file.               *)
FileInVersionOrder ==
    [][\A n \in Node : cli'[n] = cli[n] => file'[n].version >= file[n].version]_vars

(* Switching a service takes effect for new connections: with no rebuild   *)
(* left to do, the index they read is that of the config in memory.        *)
IndexAlwaysCurrent ==
    \A n \in Node : ~Rebuilding(n) => service_index[n] = dc[n]
=============================================================================
