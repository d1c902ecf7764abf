----------------------------- MODULE Membership -----------------------------
(***************************************************************************)
(* The peers table of every daemon and the health reports in it.           *)
(*                                                                         *)
(* A host probes its service and publishes a versioned report when the     *)
(* result changes.  Reports and table rows travel in Sync messages, which  *)
(* the sync loop exchanges and the health checker pushes; NodeLeave takes  *)
(* a row out again.  Daemons leave, are killed, and come back with an      *)
(* empty table.  Addresses are taken as fixed, and a daemon's row of       *)
(* itself is left out: nothing but its peers' copies is ever read.         *)
(***************************************************************************)
EXTENDS Naturals, FiniteSetsExt

CONSTANTS
    Node,            \* the daemons
    Host,            \* those that host the service
    LeaveNode,       \* those that may leave
    KillNode,        \* those that may be killed
    UnhealthyAfter,  \* UNHEALTHY_AFTER
    ClockSteps,      \* TRUE if wall clocks may be set back
    LateClock,       \* TRUE if also before a daemon's first report
    Aging,           \* those whose liveness marker may go stale
    Bootstrap,       \* Bootstrap[n]: the bootstrap_peers of n
    LossyNet,        \* TRUE if messages get lost and exchanges time out
    SyncNode,        \* bound: daemons whose sync loop comes round
    MaxFlips,        \* bound: changes of each host's backend
    MaxBoots,        \* bound: restarts of each daemon
    MaxMsgs,         \* bound: messages in flight
    None             \* no row, no peer

ASSUME MembershipAssumption ==
    /\ IsFiniteSet(Node) /\ Host \subseteq Node /\ Aging \subseteq Node
    /\ LeaveNode \subseteq Node /\ KillNode \subseteq Node /\ SyncNode \subseteq Node
    /\ None \notin Node
    /\ UnhealthyAfter \in Nat \ {0}
    /\ Bootstrap \in [Node -> SUBSET Node]
    /\ ClockSteps \in BOOLEAN /\ LateClock \in BOOLEAN /\ LossyNet \in BOOLEAN
    /\ MaxFlips \in Nat /\ MaxBoots \in Nat /\ MaxMsgs \in Nat

VARIABLES
    backend,         \* the state of each node's own backend
    failures,        \* consecutive_failures, up to UNHEALTHY_AFTER
    first_round,     \* TRUE until the first round of checks is done
    clock,           \* wall clock of each node
    local_health,    \* each node's own report
    known_nodes,     \* known_nodes[n][m]: n's row for m
    push,            \* TRUE if a broadcast_sync is to run
    waiting,         \* the peer whose reply the sync loop awaits
    owed,            \* <<n, m>>: a handler of n is to answer m's Sync
    msgs,            \* messages in flight
    running,         \* the daemons that run
    draining,        \* the daemons that are shutting down
    left,            \* left[n]: nodes that left, with n told
    flips, boots     \* counts for the bounds

vars == <<backend, failures, first_round, clock, local_health, known_nodes, push,
          waiting, owed, msgs, running, draining, left, flips, boots>>

checker == <<failures, first_round, clock, local_health>>
environment == <<backend, running, draining, flips, boots>>

alive == running \cup draining

Report == [version : Nat, down : BOOLEAN]

Unset == [version |-> 0, down |-> FALSE]

Row == [health : Report, fresh : BOOLEAN]

Snapshots == [Node -> Report \cup {None}]

Message == [kind : {"sync", "push", "reply", "leave"}, to : Node, from : Node,
            nodes : Snapshots]

TypeOK ==
    /\ backend \in [Host -> {"up", "down", "none"}]
    /\ failures \in [Host -> 0 .. UnhealthyAfter]
    /\ first_round \in [Host -> BOOLEAN]
    /\ clock \in [Host -> Nat]
    /\ local_health \in [Node -> Report]
    /\ known_nodes \in [Node -> [Node -> Row \cup {None}]]
    /\ push \in [Node -> BOOLEAN]
    /\ waiting \in [Node -> Node \cup {None}]
    /\ owed \subseteq Node \X Node
    /\ msgs \in SUBSET Message
    /\ running \subseteq Node /\ draining \subseteq Node \ running
    /\ left \in [Node -> SUBSET Node]
    /\ flips \in [Host -> Nat] /\ boots \in [Node -> Nat]

Nobody == [m \in Node |-> None]

Init ==
    /\ backend = [h \in Host |-> "up"]
    /\ failures = [h \in Host |-> 0]
    /\ first_round = [h \in Host |-> TRUE]
    /\ clock = [h \in Host |-> 0]
    /\ local_health = [n \in Node |-> Unset]
    /\ known_nodes = [n \in Node |-> Nobody]
    /\ push = [n \in Node |-> FALSE]
    /\ waiting = Nobody
    /\ owed = {} /\ msgs = {}
    /\ running = Node /\ draining = {}
    /\ left = [n \in Node |-> {}]
    /\ flips = [h \in Host |-> 0]
    /\ boots = [n \in Node |-> 0]

-----------------------------------------------------------------------------
(* Health checks. *)

(* The backend comes up, goes down, or is moved off the node.              *)
Flip(h) ==
    /\ flips[h] < MaxFlips
    /\ flips' = [flips EXCEPT ![h] = @ + 1]
    /\ \E b \in {"up", "down", "none"} \ {backend[h]} : backend' = [backend EXCEPT ![h] = b]
    /\ UNCHANGED <<checker, known_nodes, push, waiting, owed, msgs, running, draining, left, boots>>

ClockBack(h) ==
    /\ ClockSteps /\ (LateClock \/ ~first_round[h])
    /\ \E t \in 0 .. clock[h] : clock' = [clock EXCEPT ![h] = t]
    /\ UNCHANGED <<failures, first_round, local_health, known_nodes, push, waiting,
                   owed, msgs, left, environment>>

(* retain and record for the one service: its failures after a round.      *)
Recorded(h) ==
    IF backend[h] = "down" THEN Min({failures[h] + 1, UnhealthyAfter}) ELSE 0

Unhealthy(f) == f >= UnhealthyAfter

(* Mutant: the version is just the time.                                   *)
TimeAsVersion(prev, now) == now

NextVersion(prev, now) == Max({now, prev + 1})

Changed(h) == first_round[h] \/ Unhealthy(failures[h]) # Unhealthy(Recorded(h))

(* One round of run_health_checks.  Rounds are seconds apart, so the clock *)
(* has advanced since the last report.                                     *)
Round(h) ==
    /\ h \in running
    /\ failures' = [failures EXCEPT ![h] = Recorded(h)]
    /\ first_round' = [first_round EXCEPT ![h] = FALSE]
    /\ \/ /\ Changed(h)
          /\ clock' = [clock EXCEPT ![h] = @ + 1]
          /\ local_health' = [local_health EXCEPT ![h] =
                [version |-> NextVersion(@.version, clock[h] + 1),
                 down |-> Unhealthy(Recorded(h))]]
          /\ push' = [push EXCEPT ![h] = TRUE]
       \/ /\ ~Changed(h)
          /\ UNCHANGED <<clock, local_health, push>>
    /\ UNCHANGED <<known_nodes, waiting, owed, msgs, left, environment>>

-----------------------------------------------------------------------------
(* Gossip. *)

(* snapshot_nodes: the table, with an up-to-date row for ourselves.        *)
Snapshot(n) ==
    [m \in Node |-> IF m = n THEN local_health[n]
                    ELSE IF known_nodes[n][m] = None THEN None
                    ELSE known_nodes[n][m].health]

Msg(kind, n, m, nodes) == [kind |-> kind, to |-> m, from |-> n, nodes |-> nodes]

(* Mutants: a relayed report always replaces the one held, or only if it   *)
(* is older.                                                               *)
NewestAny(mine, theirs) == theirs

OldestKept(mine, theirs) == IF theirs.version < mine.version THEN theirs ELSE mine

(* merge_health.                                                           *)
Newest(mine, theirs) == IF theirs.version > mine.version THEN theirs ELSE mine

(* Mutant: a row that is relayed counts as a sign of life.                 *)
MergedFresh(n, nodes, contact) ==
    [m \in Node |->
        LET row == known_nodes[n][m]
        IN  IF m = n \/ nodes[m] = None THEN row
            ELSE IF row = None THEN [health |-> nodes[m], fresh |-> TRUE]
            ELSE [health |-> Newest(row.health, nodes[m]), fresh |-> TRUE]]

(* The rows of n after merge_sync; `contact` is the peer an outbound sync  *)
(* reached.  A new row starts fresh.                                       *)
Merged(n, nodes, contact) ==
    [m \in Node |->
        LET row == known_nodes[n][m]
        IN  IF m = n \/ nodes[m] = None THEN row
            ELSE IF row = None THEN [health |-> nodes[m], fresh |-> TRUE]
            ELSE [health |-> Newest(row.health, nodes[m]),
                  fresh |-> row.fresh \/ m = contact]]

(* peer_addrs: the bootstrap peers and the rows of the table.  A pass of   *)
(* the sync loop reads it once; here it is read for each exchange.         *)
Peers(n) == (Bootstrap[n] \cup {m \in Node : known_nodes[n][m] # None}) \ {n}

(* broadcast_sync, after a new report: best effort, replies unread.        *)
Broadcast(n) ==
    /\ n \in alive /\ push[n]
    /\ push' = [push EXCEPT ![n] = FALSE]
    /\ \E to \in SUBSET (Peers(n) \cap running) :
        /\ LossyNet \/ to = Peers(n) \cap running
        /\ msgs' = msgs \cup {Msg("push", n, m, Snapshot(n)) : m \in to}
    /\ Cardinality(msgs') <= MaxMsgs
    /\ UNCHANGED <<checker, known_nodes, waiting, owed, left, environment>>

(* sync_with_peer sends (a pass that has begun goes on during a drain) ... *)
SyncSend(n, m) ==
    /\ n \in alive \cap SyncNode /\ m \in Peers(n) \cap running /\ waiting[n] = None
    /\ msgs' = msgs \cup {Msg("sync", n, m, Snapshot(n))}
    /\ Cardinality(msgs') <= MaxMsgs
    /\ waiting' = [waiting EXCEPT ![n] = m]
    /\ UNCHANGED <<checker, known_nodes, push, owed, left, environment>>

(* ... the peer merges, and a "sync" is to be answered, ...                *)
HandleSync(n, msg) ==
    /\ msg.kind \in {"sync", "push"} /\ msg.to = n /\ n \in running
    /\ msgs' = msgs \ {msg}
    /\ known_nodes' = [known_nodes EXCEPT ![n] = Merged(n, msg.nodes, None)]
    /\ owed' = IF msg.kind = "sync" /\ waiting[msg.from] = n
               THEN owed \cup {<<n, msg.from>>} ELSE owed
    /\ UNCHANGED <<checker, push, waiting, left, environment>>

(* ... with the rows it has by then, also while the daemon drains, ...     *)
Reply(n, m) ==
    /\ <<n, m>> \in owed
    /\ owed' = owed \ {<<n, m>>}
    /\ msgs' = msgs \cup {Msg("reply", n, m, Snapshot(n))}
    /\ Cardinality(msgs') <= MaxMsgs
    /\ UNCHANGED <<checker, known_nodes, push, waiting, left, environment>>

(* ... and the reply is merged.                                            *)
HandleReply(n, msg) ==
    /\ msg.kind = "reply" /\ msg.to = n /\ waiting[n] = msg.from
    /\ msgs' = msgs \ {msg}
    /\ known_nodes' = [known_nodes EXCEPT ![n] = Merged(n, msg.nodes, msg.from)]
    /\ waiting' = [waiting EXCEPT ![n] = None]
    /\ UNCHANGED <<checker, push, owed, left, environment>>

(* The messages of n's current exchange.                                   *)
Exchange(n) == {m \in msgs : \/ m.kind = "reply" /\ m.to = n
                             \/ m.kind = "sync" /\ m.from = n}

(* The exchange times out, or the peer is gone.  A request that was sent   *)
(* still arrives; no one waits for its answer.                             *)
SyncTimeout(n) ==
    /\ waiting[n] # None
    /\ LossyNet \/ (Exchange(n) = {} /\ <<waiting[n], n>> \notin owed)
    /\ waiting' = [waiting EXCEPT ![n] = None]
    /\ owed' = {o \in owed : o[2] # n}
    /\ msgs' = {IF m.kind = "sync" /\ m.from = n THEN [m EXCEPT !.kind = "push"] ELSE m :
                  m \in {x \in msgs : ~(x.kind = "reply" /\ x.to = n)}}
    /\ UNCHANGED <<checker, known_nodes, push, left, environment>>

LoseMessage(m) ==
    /\ LossyNet
    /\ msgs' = msgs \ {m}
    /\ UNCHANGED <<checker, known_nodes, push, waiting, owed, left, environment>>

(* apply_message for a NodeLeave.                                          *)
HandleLeave(n, msg) ==
    /\ msg.kind = "leave" /\ msg.to = n /\ n \in running
    /\ msgs' = msgs \ {msg}
    /\ known_nodes' = [known_nodes EXCEPT ![n][msg.from] = None]
    /\ left' = [left EXCEPT ![n] = IF msg.from \in running THEN @ ELSE @ \cup {msg.from}]
    /\ UNCHANGED <<checker, push, waiting, owed, environment>>

(* NODE_STALE_AFTER has passed since m was last reached.                   *)
GoStale(n, m) ==
    /\ n \in running /\ m \in Aging /\ known_nodes[n][m] # None
    /\ known_nodes[n][m].fresh
    /\ known_nodes' = [known_nodes EXCEPT ![n][m].fresh = FALSE]
    /\ UNCHANGED <<checker, push, waiting, owed, msgs, left, environment>>

-----------------------------------------------------------------------------
(* Daemons. *)

(* graceful_drain: no new connections, and peers are told.                 *)
Leave(n) ==
    /\ n \in running \cap LeaveNode
    /\ running' = running \ {n} /\ draining' = draining \cup {n}
    /\ \E to \in SUBSET (Peers(n) \cap running) :
        /\ LossyNet \/ to = Peers(n) \cap running
        /\ msgs' = {m \in msgs : m.to # n \/ m.kind = "reply"}
                      \cup {Msg("leave", n, m, Nobody) : m \in to}
    /\ Cardinality(msgs') <= MaxMsgs
    /\ UNCHANGED <<checker, backend, known_nodes, push, waiting, owed, left, flips, boots>>

(* The process ends, killed or after its drain.                            *)
Kill(n) ==
    /\ n \in draining \cup (running \cap KillNode)
    /\ running' = running \ {n} /\ draining' = draining \ {n}
    /\ msgs' = {m \in msgs : m.to # n}
    /\ waiting' = [waiting EXCEPT ![n] = None]
    /\ owed' = {o \in owed : n \notin {o[1], o[2]}}
    /\ UNCHANGED <<checker, backend, known_nodes, push, left, flips, boots>>

(* The reports of h that peers hold or messages carry.                     *)
Copies(h) ==
    {known_nodes[n][h].health : n \in {x \in Node : known_nodes[x][h] # None}}
        \cup {m.nodes[h] : m \in {x \in msgs : x.nodes[h] # None}}

(* SharedState::new: everything but the clock starts afresh.  Unless       *)
(* LateClock, the clock has passed every report made before.               *)
Boot(n) ==
    /\ n \notin alive /\ boots[n] < MaxBoots
    /\ running' = running \cup {n}
    /\ boots' = [boots EXCEPT ![n] = @ + 1]
    /\ known_nodes' = [known_nodes EXCEPT ![n] = Nobody]
    /\ local_health' = [local_health EXCEPT ![n] = Unset]
    /\ failures' = [h \in Host |-> IF h = n THEN 0 ELSE failures[h]]
    /\ first_round' = [h \in Host |-> h = n \/ first_round[h]]
    /\ push' = [push EXCEPT ![n] = FALSE]
    /\ left' = [m \in Node |-> IF m = n THEN {} ELSE left[m] \ {n}]
    /\ clock' = [h \in Host |->
                   IF h = n /\ ~LateClock
                   THEN Max({clock[h]} \cup {r.version : r \in Copies(h)}) ELSE clock[h]]
    /\ UNCHANGED <<backend, waiting, owed, msgs, draining, flips>>

Next ==
    \/ \E h \in Host : Flip(h) \/ ClockBack(h) \/ Round(h)
    \/ \E n \in Node : \/ Broadcast(n) \/ SyncTimeout(n)
                       \/ Leave(n) \/ Kill(n) \/ Boot(n)
                       \/ \E m \in Node : SyncSend(n, m) \/ Reply(n, m) \/ GoStale(n, m)
                       \/ \E msg \in msgs : \/ HandleSync(n, msg) \/ HandleReply(n, msg)
                                            \/ HandleLeave(n, msg)
    \/ \E m \in msgs : LoseMessage(m)

Spec == Init /\ [][Next]_vars

(* Checks, handlers and loops get on; every peer is synced with.           *)
Fairness ==
    /\ \A h \in Host : WF_vars(Round(h))
    /\ \A h \in Host : WF_vars(Broadcast(h))
    /\ \A n \in LeaveNode : WF_vars(n \in draining /\ Kill(n))
    /\ \A n \in LeaveNode \cup KillNode : WF_vars(Boot(n))
    /\ \A n \in Node :
        /\ WF_vars(\E msg \in msgs : HandleSync(n, msg) \/ HandleReply(n, msg)
                                        \/ HandleLeave(n, msg))
        /\ WF_vars(\E m \in Node : Reply(n, m))
        /\ WF_vars(\E m \in Node \ running : GoStale(n, m))
    /\ \A n \in SyncNode :
        /\ WF_vars(SyncTimeout(n))
        /\ \A m \in Node \ {n} : SF_vars(SyncSend(n, m))

FairSpec == Spec /\ Fairness

-----------------------------------------------------------------------------
(* "A relayed copy never overwrites a fresher one": the version a daemon   *)
(* holds for a host never falls while it keeps the row, and a version      *)
(* stands for one report.                                                  *)
HealthNeverGoesBack ==
    [][\A n, h \in Node :
          known_nodes[n][h] # None /\ known_nodes'[n][h] # None /\ boots'[n] = boots[n] =>
              LET old == known_nodes[n][h].health
                  new == known_nodes'[n][h].health
              IN  /\ new.version >= old.version
                  /\ new.version = old.version => new = old]_vars

(* A host's own report, once the daemon has made one since it started, is  *)
(* newer than every copy of another report of its, in tables and messages, *)
(* those from before a restart included: a first report replaces anything  *)
(* peers held.                                                             *)
OwnReportIsNewest ==
    \A h \in Host : h \in running /\ ~first_round[h] =>
        \A r \in Copies(h) : r.version < local_health[h].version \/ r = local_health[h]

(* Once backends and daemons settle, every daemon has the right health of  *)
(* every host that runs, whatever it held from before a restart.           *)
HealthConverges ==
    <>[](\A n \in running, h \in running \cap Host : n # h =>
            /\ known_nodes[n][h] # None
            /\ known_nodes[n][h].health.down <=> backend[h] = "down")

(* A daemon that stopped for good, told or not, loses its liveness marker  *)
(* everywhere: rows that are relayed or re-added do not keep it alive.     *)
StoppedGoStale ==
    <>[](\A n \in running, m \in Node \ running :
            known_nodes[n][m] # None => ~known_nodes[n][m].fresh)

(* NodeLeave makes peers stop routing: a daemon that was told keeps no row *)
(* for the node that left until it is back.                                *)
LeaversStayAway == \A n \in running : \A m \in left[n] : known_nodes[n][m] = None
=============================================================================
