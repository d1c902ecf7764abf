----------------------------- MODULE ServiceMove ------------------------------
(***************************************************************************)
(* `stouter service move`: one command that reads a service from a         *)
(* cluster, adds it to another and removes it from the first, and rolls    *)
(* the add back if the removal fails.  Each step is an RPC to a daemon of  *)
(* the cluster; other admins change both clusters meanwhile with the       *)
(* service and route commands.                                             *)
(*                                                                         *)
(* A cluster is the config of the one daemon the command talks to.         *)
(***************************************************************************)
EXTENDS Catalog

CONSTANTS
    Cluster, Group, Name, Node,
    Specs,          \* what an admin may add, valid or not
    RouteLists,     \* what an admin may set, valid or not
    Configs,        \* what a cluster may start with
    Sources,        \* what a move may be from: [cluster, group, node, name]
    Targets,        \* and to: [cluster, group, node]
    MaxOps          \* bound: operations of other admins

Service == [name : Name, node : Node, spec : Specs]

Route == UNION ({Range(dc.routes) : dc \in Configs} \cup {Range(list) : list \in RouteLists})

Config == [version : Nat, groups : Seq([name : Group, services : Seq(Service)]),
           routes : Seq(Route)]

ASSUME ConfigsAssumption ==
    /\ Configs \subseteq Config /\ RouteLists \subseteq Seq(Route)
    /\ \A dc \in Configs : ValidateGroups(dc) /\ ValidateRoutes(dc)
    /\ Sources \subseteq [cluster : Cluster, group : Group, node : Node, name : Name]
    /\ Targets \subseteq [cluster : Cluster, group : Group, node : Node]
    /\ Unset \notin Service

VARIABLES
    dc,             \* the config of each cluster
    allowed,        \* the clusters whose daemons accept the admin's requests
    move,           \* the move's arguments: [from, to]
    pc,             \* where the move is: "fetch", "add", "remove", "rollback",
                    \* or how it ended: "moved", "failed", "died"
    fetched,        \* the service it read, or Unset
    orphans,        \* requests whose connection broke: [at, cluster, op]
    before,         \* history: the configs when the service was read
    broken,         \* history: the steps of the move whose connection broke
    disturbed,      \* history: another admin's operation since the service was read
    ops             \* operations of other admins so far

vars == <<dc, allowed, move, pc, fetched, orphans, before, broken, disturbed, ops>>

(* A move that stays in the cluster changes the group or the node: one     *)
(* that changes nothing would remove what it has just put in place.        *)
Moves ==
    {m \in [from : Sources, to : Targets] :
        <<m.to.cluster, m.to.group, m.to.node>> # <<m.from.cluster, m.from.group, m.from.node>>}

Init ==
    /\ dc \in [Cluster -> Configs]
    /\ allowed \in SUBSET Cluster
    /\ move \in Moves
    /\ pc = "fetch" /\ fetched = Unset
    /\ orphans = {} /\ before = dc /\ broken = {} /\ disturbed = FALSE /\ ops = 0

-----------------------------------------------------------------------------
(* The requests of the move. *)

AddOp ==
    [kind |-> "add", group |-> move.to.group, service |-> [fetched EXCEPT !.node = move.to.node]]

RemoveOp ==
    [kind |-> "remove", group |-> move.from.group, node |-> move.from.node,
     name |-> move.from.name]

UndoOp ==
    [kind |-> "remove", group |-> move.to.group, node |-> move.to.node, name |-> move.from.name]

Handle(c, op) == HandleAdminRequest(dc[c], c \in allowed, op)

(* try_admin_rpc.  The daemon handles the request and its answer arrives;  *)
(* the command goes on at `then` or, after an error, at `else`.            *)
Answered(c, op, then, else) ==
    /\ dc' = [dc EXCEPT ![c] = Handle(c, op).dc]
    /\ pc' = IF Handle(c, op).ok THEN then ELSE else
    /\ UNCHANGED <<orphans, broken>>

(* The connection breaks.  The request may still reach the daemon, now or  *)
(* later; the command does not learn of it.                                *)
Broken(c, op, else) ==
    /\ orphans' = orphans \cup {[at |-> pc, cluster |-> c, op |-> op]}
    /\ broken' = broken \cup {pc}
    /\ pc' = else
    /\ UNCHANGED dc

(* fetch_remote_dynamic_config, and the search for the service in it.      *)
FetchSource ==
    /\ pc = "fetch"
    /\ LET found == Find(dc[move.from.cluster], move.from.group, move.from.node, move.from.name)
       IN  \/ /\ found = {} /\ pc' = "failed" /\ UNCHANGED fetched
           \/ /\ found # {} /\ pc' = "add" /\ fetched' \in found
    /\ before' = dc /\ disturbed' = FALSE
    /\ UNCHANGED <<dc, allowed, move, orphans, broken, ops>>

(* Mutant: an error of the add is taken for success.                       *)
AddToTargetBlindly ==
    /\ pc = "add"
    /\ \/ Answered(move.to.cluster, AddOp, "remove", "remove")
       \/ Broken(move.to.cluster, AddOp, "failed")
    /\ UNCHANGED <<allowed, move, fetched, before, disturbed, ops>>

AddToTarget ==
    /\ pc = "add"
    /\ \/ Answered(move.to.cluster, AddOp, "remove", "failed")
       \/ Broken(move.to.cluster, AddOp, "failed")
    /\ UNCHANGED <<allowed, move, fetched, before, disturbed, ops>>

(* Mutant: a refused removal is not rolled back.                           *)
RemoveWithoutRollback ==
    /\ pc = "remove"
    /\ \/ Answered(move.from.cluster, RemoveOp, "moved", "failed")
       \/ Broken(move.from.cluster, RemoveOp, "rollback")
    /\ UNCHANGED <<allowed, move, fetched, before, disturbed, ops>>

RemoveFromSource ==
    /\ pc = "remove"
    /\ \/ Answered(move.from.cluster, RemoveOp, "moved", "rollback")
       \/ Broken(move.from.cluster, RemoveOp, "rollback")
    /\ UNCHANGED <<allowed, move, fetched, before, disturbed, ops>>

Rollback ==
    /\ pc = "rollback"
    /\ \/ Answered(move.to.cluster, UndoOp, "failed", "failed")
       \/ Broken(move.to.cluster, UndoOp, "failed")
    /\ UNCHANGED <<allowed, move, fetched, before, disturbed, ops>>

(* The command is interrupted.                                             *)
Die ==
    /\ pc \in {"fetch", "add", "remove", "rollback"}
    /\ pc' = "died"
    /\ UNCHANGED <<dc, allowed, move, fetched, orphans, before, broken, disturbed, ops>>

(* A daemon reads a request from a connection that has broken since.       *)
HandleOrphan(o) ==
    /\ o \in orphans
    /\ dc' = [dc EXCEPT ![o.cluster] = Handle(o.cluster, o.op).dc]
    /\ orphans' = orphans \ {o}
    /\ UNCHANGED <<allowed, move, pc, fetched, before, broken, disturbed, ops>>

-----------------------------------------------------------------------------
(* The commands of other admins, on cluster c. *)

RunAdminRpc(c, op) ==
    /\ ops < MaxOps
    /\ Handle(c, op).ok
    /\ dc' = [dc EXCEPT ![c] = Handle(c, op).dc]
    /\ ops' = ops + 1
    /\ disturbed' = TRUE
    /\ UNCHANGED <<allowed, move, pc, fetched, orphans, before, broken>>

AddService(c) ==
    \E group \in Group, name \in Name, node \in Node, spec \in Specs :
        RunAdminRpc(c, [kind |-> "add", group |-> group,
                        service |-> [name |-> name, node |-> node, spec |-> spec]])

RenameAService(c) ==
    \E group \in Group, node \in Node, from, to \in Name :
        RunAdminRpc(c, [kind |-> "rename", group |-> group, node |-> node,
                        from |-> from, to |-> to])

RemoveAService(c) ==
    \E group \in Group, node \in Node, name \in Name :
        RunAdminRpc(c, [kind |-> "remove", group |-> group, node |-> node, name |-> name])

SetOrClearRoutes(c) ==
    \E service \in Name, list \in RouteLists :
        RunAdminRpc(c, [kind |-> "routes", service |-> service, routes |-> list])

OtherAdmin(c) == AddService(c) \/ RenameAService(c) \/ RemoveAService(c) \/ SetOrClearRoutes(c)

Next ==
    \/ FetchSource \/ AddToTarget \/ RemoveFromSource \/ Rollback \/ Die
    \/ \E o \in orphans : HandleOrphan(o)
    \/ \E c \in Cluster : OtherAdmin(c)

Spec == Init /\ [][Next]_vars

-----------------------------------------------------------------------------
At(configs, c, group, node) == Find(configs[c], group, node, move.from.name)

InSource == At(dc, move.from.cluster, move.from.group, move.from.node)

InTarget == At(dc, move.to.cluster, move.to.group, move.to.node)

TargetBefore == At(before, move.to.cluster, move.to.group, move.to.node)

(* The services of a config, with the groups they are in.                  *)
Entries(config) ==
    UNION {{<<config.groups[i].name, s>> : s \in Range(config.groups[i].services)}
              : i \in DOMAIN config.groups}

(* What all clusters hold.                                                 *)
Holdings(configs) == UNION {{c} \X Entries(configs[c]) : c \in Cluster}

(* No sequence of admin operations, of one admin or of several, and none   *)
(* that a move interleaves with them, leaves a config that the structural  *)
(* checks of Config::validate reject: group names stay unique, no node has *)
(* a service twice in a group, health paths and route lists stay valid.    *)
CatalogWellFormed == \A c \in Cluster : ValidateGroups(dc[c]) /\ ValidateRoutes(dc[c])

(* A move happens whole or not at all when every request is answered and   *)
(* nobody else changes the clusters.  If it reports success, the service   *)
(* is in the target as it was in the source, is gone from the source, and  *)
(* nothing else has changed; if it fails, the clusters hold what they held *)
(* before, unless the target had a service of that name already, which the *)
(* add replaces and the rollback removes.                                  *)
MoveAllOrNothing ==
    ~disturbed /\ broken = {} /\ pc \in {"moved", "failed"} =>
        LET s == move.from.cluster
            t == move.to.cluster
            added == {<<move.to.group, x>> : x \in InTarget}
            replaced == {<<move.to.group, x>> : x \in TargetBefore}
            removed == {<<move.from.group, fetched>>}
        IN  /\ pc = "moved" =>
                 /\ InSource = {}
                 /\ InTarget = {[fetched EXCEPT !.node = move.to.node]}
                 /\ Holdings(dc) =
                      (Holdings(before) \ (({s} \X removed) \cup ({t} \X replaced)))
                        \cup ({t} \X added)
            /\ pc = "failed" /\ TargetBefore = {} =>
                 \A c \in Cluster : Entries(dc[c]) = Entries(before[c])

(* The service is never in neither cluster: at every moment of a move,     *)
(* wherever it is interrupted and whatever becomes of an unanswered add or *)
(* rollback, the source or the target holds it, as long as nobody else     *)
(* changes the clusters and the removal is answered.  The add comes first  *)
(* for this, and only an add that was confirmed is followed by a removal.  *)
ServiceKept ==
    ~disturbed /\ fetched # Unset /\ "remove" \notin broken => InSource \cup InTarget # {}
=============================================================================
