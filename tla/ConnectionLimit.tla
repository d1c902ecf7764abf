--------------------------- MODULE ConnectionLimit ---------------------------
(***************************************************************************)
(* What the balancer promises about connection limits: slots on a node are *)
(* reserved one at a time, each under the limit its client goes by, and    *)
(* given back.  Clients may go by different limits, for each reads the     *)
(* config once and the config changes.                                     *)
(***************************************************************************)
EXTENDS Naturals, FiniteSets

CONSTANTS
    Client,     \* connections or requests that hold slots
    Node,       \* nodes that host the service
    NoLimit,    \* maxConnections is not set
    Limits      \* the values of maxConnections, NoLimit among them or not

VARIABLE slots  \* the slots held

Slot == [client : Client, node : Node, limit : Limits]

On(n) == {s \in slots : s.node = n}

Below(k, limit) == limit = NoLimit \/ k < limit

Within(k, limit) == limit = NoLimit \/ k <= limit

LimitTypeOK == slots \in SUBSET Slot

LimitInit == slots = {}

Acquire(s) ==
    /\ \A t \in On(s.node) : t.client # s.client
    /\ Below(Cardinality(On(s.node)), s.limit)
    /\ slots' = slots \cup {s}

Release(S) == slots' = slots \ S

LimitNext == \/ \E s \in Slot : Acquire(s)
             \/ \E S \in SUBSET slots : Release(S)

LimitSpec == LimitInit /\ [][LimitNext]_slots

(* maxConnections is a hard cap, also while it is being changed: however   *)
(* many slots of a node are held, some holder's limit allows that many.    *)
HardCap ==
    \A n \in Node :
        On(n) # {} => \E s \in On(n) : Within(Cardinality(On(n)), s.limit)
=============================================================================
