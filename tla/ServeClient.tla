----------------------------- MODULE ServeClient -----------------------------
(***************************************************************************)
(* The local TCP proxy of one service: every client connection reads the   *)
(* backends once, then tries up to MaxAttempts of them until a tunnel is   *)
(* up, while other connections do the same, the config changes, and        *)
(* ejections run out.                                                      *)
(***************************************************************************)
EXTENDS Balancer

CONSTANT MaxChanges    \* bound: changes of the service's instances

ASSUME ServeClientAssumption == MaxChanges \in Nat

VARIABLES
    hosts,         \* the service's instances: node |-> Backend
    client,        \* the state of each connection
    changes        \* changes of hosts so far

vars == <<current, active, outlier, slots, hosts, client, changes>>

Gone == [pc |-> "gone", cand |-> NoBackends, tried |-> {}, node |-> 0]

Connection == [pc : {"gone", "retain", "pick", "connect", "failed", "proxy"},
               cand : Instances, tried : SUBSET Node, node : Node \cup {0}]

TypeOK ==
    /\ BalancerTypeOK
    /\ hosts \in Instances
    /\ client \in [Client -> Connection]
    /\ changes \in 0 .. MaxChanges

Init ==
    /\ BalancerInit
    /\ hosts \in [Node -> Backend]
    /\ client = [c \in Client |-> Gone]
    /\ changes = 0

(* An instance is added, removed, or gets another weight or limit.         *)
ChangeHosts ==
    /\ changes < MaxChanges
    /\ hosts' \in Instances
    /\ \E n \in Node : \A m \in Node \ {n} :
          /\ m \in DOMAIN hosts <=> m \in DOMAIN hosts'
          /\ m \in DOMAIN hosts => hosts'[m] = hosts[m]
    /\ changes' = changes + 1
    /\ UNCHANGED <<balancer, client>>

(* A connection is accepted and reads service_backends, ...                *)
Accept(c) ==
    /\ client[c].pc = "gone"
    /\ client' = [client EXCEPT ![c].pc = "retain", ![c].cand = hosts]
    /\ UNCHANGED <<balancer, hosts, changes>>

(* ... and goes on to retain_nodes and prefer_healthy with what it read,   *)
(* on a thread of its own.  With no backend at all it is closed.           *)
Retain(c) ==
    LET all == client[c].cand
    IN  /\ client[c].pc = "retain"
        /\ RetainNodes(DOMAIN all)
        /\ \E backends \in Preferred(DOMAIN all) :
              client' = [client EXCEPT ![c] =
                  IF backends = {} THEN Gone
                  ELSE [@ EXCEPT !.pc = "pick", !.cand = [n \in backends |-> all[n]]]]
        /\ UNCHANGED <<hosts, changes>>

(* One turn of the retry loop up to the start of establish_tunnel.         *)
PickNode(c) ==
    LET k == client[c]
    IN  /\ k.pc = "pick"
        /\ Cardinality(k.tried) < Attempts(k.cand)
        /\ \E n \in Node :
            /\ Choose(c, k.cand, k.tried, n)
            /\ client' = [client EXCEPT ![c] = [k EXCEPT !.pc = "connect", !.node = n,
                                                         !.tried = @ \cup {n}]]
        /\ UNCHANGED <<hosts, changes>>

(* The loop ends without a tunnel: attempts used up, or every untried node *)
(* at its limit.                                                           *)
GiveUp(c) ==
    LET k == client[c]
    IN  /\ k.pc = "pick"
        /\ Cardinality(k.tried) >= Attempts(k.cand) \/ Open(k.cand, k.tried) = {}
        /\ client' = [client EXCEPT ![c] = Gone]
        /\ UNCHANGED <<balancer, hosts, changes>>

TunnelUp(c) ==
    /\ client[c].pc = "connect"
    /\ RecordSuccess(client[c].node)
    /\ client' = [client EXCEPT ![c].pc = "proxy"]
    /\ UNCHANGED <<hosts, changes>>

(* note_tunnel_failure; the slot is dropped when the turn ends.            *)
TunnelFails(c) ==
    /\ client[c].pc = "connect"
    /\ RecordFailure(client[c].node)
    /\ client' = [client EXCEPT ![c].pc = "failed"]
    /\ UNCHANGED <<hosts, changes>>

SlotOf(c) == CHOOSE s \in slots : s.client = c

NextTurn(c) ==
    /\ client[c].pc = "failed"
    /\ DropSlot(SlotOf(c))
    /\ client' = [client EXCEPT ![c] = [@ EXCEPT !.pc = "pick", !.node = 0]]
    /\ UNCHANGED <<hosts, changes>>

(* proxy_bidirectional returns.                                            *)
Finish(c) ==
    /\ client[c].pc = "proxy"
    /\ DropSlot(SlotOf(c))
    /\ client' = [client EXCEPT ![c] = Gone]
    /\ UNCHANGED <<hosts, changes>>

Step(c) == \/ Accept(c) \/ Retain(c) \/ PickNode(c) \/ GiveUp(c)
           \/ TunnelUp(c) \/ TunnelFails(c) \/ NextTurn(c) \/ Finish(c)

Next == \/ \E c \in Client : Step(c)
        \/ ChangeHosts
        \/ Tick /\ UNCHANGED <<hosts, client, changes>>

Spec == Init /\ [][Next]_vars

-----------------------------------------------------------------------------
(* A tunnel to n comes up, or a connection that read the instances when n  *)
(* was not among them calls retain_nodes.                                  *)
Pardons(n) ==
    \E c \in Client :
        \/ client[c].pc = "connect" /\ client'[c].pc = "proxy" /\ client[c].node = n
        \/ /\ client[c].pc = "retain" /\ client'[c].pc # "retain"
           /\ n \notin DOMAIN client[c].cand

(* An ejection is never extended by failures during it, and ends early     *)
(* only by a tunnel that came up or by the node leaving the service.       *)
EjectionRunsItsTime ==
    [][\A n \in Node : Ejected(n) =>
          \/ outlier'[n].left <= outlier[n].left /\ outlier'[n].left >= outlier[n].left - 1
          \/ outlier'[n] = NotOutlier /\ Pardons(n)]_vars

(* A node is not picked while it is ejected if an untried candidate below  *)
(* its limit is neither drained nor ejected.                               *)
PicksAvoidEjected ==
    [][\A c \in Client : client[c].pc = "pick" /\ client'[c].pc = "connect" =>
          LET k == client[c]
              good == {m \in DOMAIN k.cand \ k.tried :
                         /\ k.cand[m].weight > 0 /\ ~Ejected(m)
                         /\ CL!Below(Cardinality(CL!On(m)), k.cand[m].limit)}
          IN  good # {} => client'[c].node \in good]_vars

(* While the service's instances stay the same, the running weights sum to *)
(* zero, whatever is tried, full, drained or ejected: no node is owed more *)
(* than the others owe.                                                    *)
WeightsBalance == changes = 0 => SumFunction(current) = 0
=============================================================================
