---------------------------- MODULE Proxies_proofs ----------------------------
(***************************************************************************)
(* The local TCP proxy (ServeClient) and the HTTP proxy (HttpAttempt) for  *)
(* any number of nodes and clients: their slots, what they pick, their     *)
(* retries and what reaches a backend.                                     *)
(***************************************************************************)
EXTENDS ServeClient, HttpAttempt, Balancer_proofs

(* The states of a connection that holds a slot.                           *)
InUse == {"connect", "failed", "proxy"}

(* A connection has the slot of the node it is trying or using, and no     *)
(* other one.                                                              *)
SlotsMatch ==
    /\ \A s \in slots : client[s.client].pc \in InUse /\ client[s.client].node = s.node
    /\ \A s, t \in slots : s.client = t.client => s = t
    /\ \A c \in Client : client[c].pc \in InUse => \E s \in slots : s.client = c

(* As long as the instances stay the same, no node is forgotten.           *)
BalanceInv ==
    changes = 0 =>
        /\ DOMAIN hosts = Node
        /\ \A c \in Client : client[c].pc = "retain" => DOMAIN client[c].cand = Node
        /\ SumFunctionOnSet(current, Node) = 0

(* The inductive invariant.                                                *)
ServeInv == TypeOK /\ Counted /\ SlotsMatch /\ BalanceInv
-----------------------------------------------------------------------------
(* It holds when the proxy starts.                                         *)
LEMMA ServeInit == Init => ServeInv
<1> SUFFICES ASSUME Init PROVE ServeInv
  OBVIOUS
<1>1. hosts \in Instances /\ DOMAIN hosts = Node
  <2>1. hosts \in [Node -> Backend] /\ Node \in SUBSET Node
    BY DEF Init
  <2> QED BY <2>1 DEF Instances
<1>2. BalancerTypeOK
  BY DEF Init, BalancerInit, BalancerTypeOK, Outlier, NotOutlier
<1>3. TypeOK
  BY <1>1, <1>2, NoBackendsInstances, ServeClientAssumption DEF Init, TypeOK, Connection, Gone
<1>4. Counted
  <2>1. \A n : CL!On(n) = {}
    BY DEF Init, BalancerInit, CL!On
  <2> QED BY <2>1, FS_EmptySet DEF Init, BalancerInit, Counted
<1>5. SlotsMatch
  BY DEF Init, BalancerInit, SlotsMatch, InUse, Gone
<1>6. SumFunctionOnSet(current, Node) = 0
  BY NodeFinite, SumZero DEF Init, BalancerInit
<1>7. BalanceInv
  BY <1>1, <1>6 DEF BalanceInv, Init, Gone
<1> QED BY <1>3, <1>4, <1>5, <1>7 DEF ServeInv

(* A connection that holds a slot has it on a node.                        *)
LEMMA SlotOfFacts ==
    ASSUME ServeInv, NEW c \in Client, client[c].pc \in InUse
    PROVE  /\ SlotOf(c) \in slots /\ SlotOf(c).client = c
           /\ SlotOf(c).node = client[c].node /\ client[c].node \in Node
<1>1. SlotOf(c) \in slots /\ SlotOf(c).client = c
  BY DEF SlotOf, ServeInv, SlotsMatch
<1> QED BY <1>1 DEF ServeInv, SlotsMatch, TypeOK, BalancerTypeOK, CL!Slot

(* A change of the config or of the known nodes.                           *)
LEMMA ChangeHostsKeeps ==
    ASSUME ServeInv, ChangeHosts
    PROVE  ServeInv'
<1> USE DEF ServeInv, ChangeHosts, balancer
<1>1. TypeOK'
  BY ServeClientAssumption DEF TypeOK, BalancerTypeOK
<1>2. Counted'
  BY CountedUnchanged
<1>3. SlotsMatch'
  BY DEF SlotsMatch
<1>4. BalanceInv'
  BY DEF BalanceInv, TypeOK
<1> QED BY <1>1, <1>2, <1>3, <1>4

(* A slot belongs to a connection and a node.                              *)
LEMMA SlotsTyped ==
    ASSUME ServeInv
    PROVE  \A s \in slots : s.client \in Client /\ s.node \in Node
BY DEF ServeInv, TypeOK, BalancerTypeOK, CL!Slot

(* The invariant after a step that concerns connection c only, in terms of *)
(* its new state k.                                                        *)
LEMMA ConnectionStep ==
    ASSUME ServeInv, NEW c \in Client, NEW k \in Connection,
           client' = [client EXCEPT ![c] = k], UNCHANGED <<hosts, changes>>,
           BalancerTypeOK', Counted',
           SumFunctionOnSet(current', Node) = SumFunctionOnSet(current, Node) \/ changes # 0,
           k.pc = "retain" => k.cand = hosts
    PROVE  TypeOK' /\ Counted' /\ BalanceInv'
<1> USE DEF ServeInv
<1>1. TypeOK'
  BY DEF TypeOK
<1>2. BalanceInv'
  BY DEF BalanceInv, TypeOK
<1> QED BY <1>1, <1>2

(* The slots still match if they are as before and c needs what it needed. *)
LEMMA SameSlotsMatch ==
    ASSUME ServeInv, NEW c \in Client, NEW k,
           client' = [client EXCEPT ![c] = k], slots' = slots,
           k.pc \in InUse <=> client[c].pc \in InUse,
           k.pc \in InUse => k.node = client[c].node
    PROVE  SlotsMatch'
BY SlotsTyped DEF ServeInv, SlotsMatch, TypeOK

(* A connection arrives and reads the instances.                           *)
LEMMA AcceptKeeps ==
    ASSUME ServeInv, NEW c \in Client, Accept(c)
    PROVE  ServeInv'
<1> USE DEF ServeInv, Accept, balancer
<1> DEFINE k == [client[c] EXCEPT !.pc = "retain", !.cand = hosts]
<1>1. client' = [client EXCEPT ![c] = k]
  BY DEF TypeOK
<1>2. k \in Connection /\ k.pc = "retain" /\ k.cand = hosts
  BY DEF TypeOK, Connection
<1> HIDE DEF k
<1>3. BalancerTypeOK' /\ Counted'
  BY CountedUnchanged DEF TypeOK, BalancerTypeOK
<1>4. TypeOK' /\ BalanceInv'
  BY <1>1, <1>2, <1>3, ConnectionStep
<1>5. SlotsMatch'
  BY <1>1, <1>2, SameSlotsMatch DEF InUse
<1> QED BY <1>3, <1>4, <1>5

(* retain_nodes forgets only nodes that are not instances any more.        *)
LEMMA RetainKeeps ==
    ASSUME ServeInv, NEW c \in Client, Retain(c)
    PROVE  ServeInv'
<1> USE DEF ServeInv
<1> DEFINE all == client[c].cand
<1>1. client[c] \in Connection /\ all \in Instances /\ DOMAIN all \in SUBSET Node
  BY InstanceFacts DEF TypeOK, Connection
<1>2. PICK b \in Preferred(DOMAIN all) :
        client' = [client EXCEPT ![c] =
               IF b = {} THEN Gone
               ELSE [@ EXCEPT !.pc = "pick", !.cand = [n \in b |-> all[n]]]]
  BY DEF Retain
<1> DEFINE k == IF b = {} THEN Gone
                ELSE [client[c] EXCEPT !.pc = "pick", !.cand = [n \in b |-> all[n]]]
<1>3. /\ client' = [client EXCEPT ![c] = k]
      /\ RetainNodes(DOMAIN all) /\ client[c].pc = "retain"
      /\ UNCHANGED <<hosts, changes>>
  BY <1>2 DEF Retain, TypeOK
<1>4. k \in Connection /\ k.pc \in {"gone", "pick"}
  <2>1. b \in SUBSET DOMAIN all
    BY PreferredSubset
  <2>2. [n \in b |-> all[n]] \in Instances
    BY <1>1, <2>1, InstanceFacts
  <2>3. Gone \in Connection
    BY NoBackendsInstances DEF Gone, Connection
  <2> QED BY <1>1, <2>2, <2>3 DEF Connection, Gone
<1> HIDE DEF k
<1>5. BalancerTypeOK' /\ Counted'
  BY <1>1, <1>3, OperationTypes, CountedUnchanged DEF TypeOK, RetainNodes
<1>6. changes = 0 => current' = current
  BY <1>3 DEF BalanceInv, RetainNodes, TypeOK, BalancerTypeOK
<1>7. TypeOK' /\ BalanceInv'
  BY <1>3, <1>4, <1>5, <1>6, ConnectionStep
<1>8. SlotsMatch'
  BY <1>3, <1>4, SameSlotsMatch DEF InUse, RetainNodes
<1> QED BY <1>5, <1>7, <1>8

(* A pick gives the connection the slot it had not.                        *)
LEMMA PickKeeps ==
    ASSUME ServeInv, NEW c \in Client, PickNode(c)
    PROVE  ServeInv' /\ \E s \in CL!Slot : CL!Acquire(s)
<1> USE DEF ServeInv
<1>1. PICK n \in Node : /\ Choose(c, client[c].cand, client[c].tried, n)
                        /\ client' = [client EXCEPT ![c] =
                             [client[c] EXCEPT !.pc = "connect", !.node = n,
                                               !.tried = client[c].tried \cup {n}]]
  BY DEF PickNode
<1> DEFINE k == [client[c] EXCEPT !.pc = "connect", !.node = n, !.tried = @ \cup {n}]
           s == [client |-> c, node |-> n, limit |-> client[c].cand[n].limit]
<1>2. /\ client' = [client EXCEPT ![c] = k] /\ client[c].pc = "pick"
      /\ UNCHANGED <<hosts, changes>>
  <2>1. client' = [client EXCEPT ![c] = k]
    BY <1>1
  <2>2. client[c].pc = "pick" /\ UNCHANGED <<hosts, changes>>
    BY DEF PickNode
  <2> QED BY <2>1, <2>2
<1>3. client[c] \in Connection /\ client[c].cand \in Instances
  BY DEF TypeOK, Connection
<1>4. k \in Connection /\ k.pc = "connect" /\ k.node = n
  BY <1>3 DEF Connection
<1>5. \A t \in slots : t.client # c
  BY <1>2 DEF SlotsMatch, InUse
<1>6. slots' = slots \cup {s} /\ s.client = c /\ s.node = n
  BY <1>1 DEF Choose
<1> HIDE DEF k, s
<1>7. Counted' /\ \E t \in CL!Slot : CL!Acquire(t)
  <2>1. \A t \in CL!On(n) : t.client # c
    BY <1>5 DEF CL!On
  <2> QED BY <1>1, <1>3, <2>1, ChooseAcquires DEF TypeOK
<1>8. BalancerTypeOK' /\ SumFunctionOnSet(current', Node) = SumFunctionOnSet(current, Node)
  BY <1>1, <1>3, ChooseFacts DEF TypeOK
<1>9. TypeOK' /\ BalanceInv'
  BY <1>2, <1>4, <1>7, <1>8, ConnectionStep
<1>10. SlotsMatch'
  BY <1>2, <1>4, <1>5, <1>6, SlotsTyped DEF SlotsMatch, InUse, TypeOK
<1> QED BY <1>7, <1>9, <1>10

(* No node is left to try.                                                 *)
LEMMA GiveUpKeeps ==
    ASSUME ServeInv, NEW c \in Client, GiveUp(c)
    PROVE  ServeInv'
<1> USE DEF ServeInv, GiveUp, balancer
<1>1. Gone \in Connection /\ Gone.pc = "gone"
  BY NoBackendsInstances DEF Gone, Connection
<1>2. BalancerTypeOK' /\ Counted'
  BY CountedUnchanged DEF TypeOK, BalancerTypeOK
<1>3. TypeOK' /\ BalanceInv'
  BY <1>1, <1>2, ConnectionStep
<1>4. SlotsMatch'
  BY <1>1, SameSlotsMatch DEF InUse
<1> QED BY <1>2, <1>3, <1>4

(* A tunnel that comes up or fails changes what is known of the node, and  *)
(* nothing about slots.                                                    *)
LEMMA OutcomeKeeps ==
    ASSUME ServeInv, NEW c \in Client, TunnelUp(c) \/ TunnelFails(c)
    PROVE  ServeInv'
<1> USE DEF ServeInv
<1> DEFINE k(where) == [client[c] EXCEPT !.pc = where]
<1>1. PICK where \in {"proxy", "failed"} : client' = [client EXCEPT ![c] = k(where)]
  BY DEF TunnelUp, TunnelFails, TypeOK
<1>2. client[c].pc = "connect" /\ UNCHANGED <<hosts, changes, current, active, slots>>
  BY DEF TunnelUp, TunnelFails, RecordSuccess, RecordFailure
<1>3. client[c] \in Connection /\ k(where) \in Connection
      /\ k(where).pc = where /\ k(where).node = client[c].node
  BY DEF TypeOK, Connection
<1> HIDE DEF k
<1>4. client[c].node \in Node
  BY <1>2, SlotOfFacts DEF InUse
<1>5. BalancerTypeOK' /\ Counted'
  BY <1>2, <1>4, OperationTypes, CountedUnchanged DEF TypeOK, TunnelUp, TunnelFails
<1>6. TypeOK' /\ BalanceInv'
  BY <1>1, <1>2, <1>3, <1>5, ConnectionStep
<1>7. SlotsMatch'
  BY <1>1, <1>2, <1>3, SameSlotsMatch DEF InUse
<1> QED BY <1>5, <1>6, <1>7

(* The slot of an attempt that failed, or of a tunnel that ended, is given *)
(* back.                                                                   *)
LEMMA DropKeeps ==
    ASSUME ServeInv, NEW c \in Client, NextTurn(c) \/ Finish(c)
    PROVE  ServeInv' /\ \E S \in SUBSET slots : CL!Release(S)
<1> USE DEF ServeInv
<1>1. PICK k \in Connection : /\ k.pc \in {"pick", "gone"}
                              /\ client' = [client EXCEPT ![c] = k]
  <2>1. CASE NextTurn(c)
    <3> DEFINE k == [client[c] EXCEPT !.pc = "pick", !.node = 0]
    <3>1. k \in Connection /\ k.pc = "pick"
      BY DEF TypeOK, Connection
    <3>2. client' = [client EXCEPT ![c] = k]
      BY <2>1 DEF NextTurn, TypeOK
    <3> QED BY <3>1, <3>2
  <2>2. CASE Finish(c)
    <3>1. Gone \in Connection /\ Gone.pc = "gone"
      BY NoBackendsInstances DEF Gone, Connection
    <3> QED BY <2>2, <3>1 DEF Finish
  <2> QED BY <2>1, <2>2
<1>2. DropSlot(SlotOf(c)) /\ client[c].pc \in InUse /\ UNCHANGED <<hosts, changes>>
  BY DEF NextTurn, Finish, InUse
<1>3. SlotOf(c) \in slots /\ SlotOf(c).client = c /\ slots' = slots \ {SlotOf(c)}
      /\ current' = current
  BY <1>2, SlotOfFacts DEF DropSlot
<1>4. Counted' /\ \E S \in SUBSET slots : CL!Release(S)
  BY <1>2, DropReleases DEF TypeOK
<1>5. BalancerTypeOK'
  BY <1>2, OperationTypes DEF TypeOK
<1>6. TypeOK' /\ BalanceInv'
  BY <1>1, <1>2, <1>3, <1>4, <1>5, ConnectionStep
<1>7. SlotsMatch'
  <2>1. \A s \in slots' : s \in slots /\ s.client # c /\ s.client \in Client
    BY <1>3, SlotsTyped DEF SlotsMatch
  <2>2. \A d \in Client : d # c /\ client[d].pc \in InUse => \E s \in slots' : s.client = d
    BY <1>3 DEF SlotsMatch
  <2>3. \A d \in Client : client'[d] = IF d = c THEN k ELSE client[d]
    BY <1>1 DEF TypeOK
  <2> QED BY <1>1, <2>1, <2>2, <2>3 DEF SlotsMatch, InUse
<1> QED BY <1>4, <1>6, <1>7

(* Time passes.                                                            *)
LEMMA TickKeeps ==
    ASSUME ServeInv, Tick, UNCHANGED <<hosts, client, changes>>
    PROVE  ServeInv'
<1> USE DEF ServeInv
<1>1. BalancerTypeOK' /\ Counted'
  BY OperationTypes, CountedUnchanged DEF TypeOK, Tick
<1>2. SlotsMatch' /\ BalanceInv'
  BY DEF Tick, SlotsMatch, BalanceInv
<1> QED BY <1>1, <1>2 DEF TypeOK
-----------------------------------------------------------------------------
(* What every step does: it keeps the invariant, and is to the slots a     *)
(* step of ConnectionLimit or no step at all.                              *)
LEMMA ServeStep ==
    ASSUME ServeInv, [Next]_vars
    PROVE  ServeInv' /\ [CL!LimitNext]_slots
<1>1. CASE UNCHANGED vars
  <2>1. UNCHANGED <<current, active, outlier, slots, hosts, client, changes>>
    BY <1>1 DEF vars
  <2>2. TypeOK' /\ Counted'
    BY <2>1, CountedUnchanged DEF ServeInv, TypeOK, BalancerTypeOK
  <2>3. SlotsMatch' /\ BalanceInv'
    BY <2>1 DEF ServeInv, SlotsMatch, BalanceInv
  <2> QED BY <2>1, <2>2, <2>3 DEF ServeInv
<1>2. CASE ChangeHosts
  BY <1>2, ChangeHostsKeeps DEF ChangeHosts, balancer
<1>3. CASE Tick /\ UNCHANGED <<hosts, client, changes>>
  BY <1>3, TickKeeps DEF Tick
<1>4. ASSUME NEW c \in Client, Accept(c)
      PROVE  ServeInv' /\ UNCHANGED slots
  BY <1>4, AcceptKeeps DEF Accept, balancer
<1>5. ASSUME NEW c \in Client, Retain(c)
      PROVE  ServeInv' /\ UNCHANGED slots
  BY <1>5, RetainKeeps DEF Retain, RetainNodes
<1>6. ASSUME NEW c \in Client, PickNode(c)
      PROVE  ServeInv' /\ CL!LimitNext
  BY <1>6, PickKeeps DEF CL!LimitNext
<1>7. ASSUME NEW c \in Client, GiveUp(c)
      PROVE  ServeInv' /\ UNCHANGED slots
  BY <1>7, GiveUpKeeps DEF GiveUp, balancer
<1>8. ASSUME NEW c \in Client, TunnelUp(c) \/ TunnelFails(c)
      PROVE  ServeInv' /\ UNCHANGED slots
  BY <1>8, OutcomeKeeps DEF TunnelUp, TunnelFails, RecordSuccess, RecordFailure
<1>9. ASSUME NEW c \in Client, NextTurn(c) \/ Finish(c)
      PROVE  ServeInv' /\ CL!LimitNext
  BY <1>9, DropKeeps DEF CL!LimitNext
<1> QED
  BY <1>1, <1>2, <1>3, <1>4, <1>5, <1>6, <1>7, <1>8, <1>9 DEF Next, Step

(* It holds always.                                                        *)
LEMMA ServeInvariant == Spec => []ServeInv
BY ServeInit, ServeStep, PTL DEF Spec

(* Whatever is retried, fails, or is removed from the config: the count    *)
(* that pick compares with maxConnections is the number of Slot guards     *)
(* alive on the node, for any number of nodes and connections.             *)
THEOREM CountsAreExact == Spec => []ActiveCountsSlots
<1>1. ServeInv => ActiveCountsSlots
  BY DEF ServeInv, Counted, ActiveCountsSlots
<1> QED BY <1>1, ServeInvariant, PTL

(* The slots of the TCP proxy are reserved and given back as               *)
(* ConnectionLimit says: pick reserves one at a time, below the limit the  *)
(* connection read, for a connection that has none.                        *)
THEOREM ServeKeepsLimits == Spec => KeepsLimits
<1>1. Init => CL!LimitInit
  BY DEF Init, BalancerInit, CL!LimitInit
<1> QED
  BY <1>1, ServeInvariant, ServeStep, PTL DEF Spec, KeepsLimits, CL!LimitSpec

(* maxConnections is a hard cap of the TCP proxy.                          *)
THEOREM ServeHardCap == Spec => []HardCap
BY ServeKeepsLimits, LimitsAreHardCaps, PTL DEF KeepsLimits, HardCap

(* While the service's instances stay the same, the running weights sum to *)
(* zero after every pick, for any weights.                                 *)
THEOREM RunningWeightsBalance == Spec => []WeightsBalance
<1>1. ServeInv => WeightsBalance
  <2> SUFFICES ASSUME ServeInv, changes = 0
               PROVE  SumFunction(current) = 0
    BY DEF WeightsBalance
  <2>1. DOMAIN current = Node /\ SumFunctionOnSet(current, Node) = 0
    BY DEF ServeInv, BalanceInv, TypeOK, BalancerTypeOK
  <2>2. SumFunction(current) = SumFunctionOnSet(current, DOMAIN current)
    BY DEF SumFunction
  <2> QED BY <2>1, <2>2
<1> QED BY <1>1, ServeInvariant, PTL

(* No operation but the passing of time shortens an ejection without       *)
(* ending it, only a pardon ends it, and none lengthens it.                *)
LEMMA OutlierSteps ==
    ASSUME TypeOK, NEW n \in Node, Ejected(n), [Next]_vars,
           \A c \in Client : client[c].pc = "connect" => client[c].node \in Node
    PROVE  \/ outlier'[n] = outlier[n]
           \/ outlier'[n] = NotOutlier /\ Pardons(n)
           \/ outlier'[n].left = outlier[n].left - 1
<1>1. CASE UNCHANGED outlier
  BY <1>1
<1>2. ASSUME NEW c \in Client, Retain(c)
      PROVE  outlier'[n] = outlier[n] \/ (outlier'[n] = NotOutlier /\ Pardons(n))
  <2>1. client \in [Client -> Connection] /\ client[c].pc = "retain"
    BY <1>2 DEF Retain, TypeOK
  <2>2. client'[c].pc # "retain"
    BY <1>2, <2>1 DEF Retain, Gone, Connection
  <2>3. IF n \in DOMAIN client[c].cand THEN outlier'[n] = outlier[n]
        ELSE outlier'[n] = NotOutlier
    BY <1>2 DEF Retain, RetainNodes
  <2> QED BY <2>1, <2>2, <2>3 DEF Pardons
<1>3. ASSUME NEW c \in Client, TunnelUp(c)
      PROVE  outlier'[n] = outlier[n] \/ (outlier'[n] = NotOutlier /\ Pardons(n))
  <2>1. client \in [Client -> Connection] /\ client[c].pc = "connect"
    BY <1>3 DEF TunnelUp, TypeOK
  <2>2. client'[c].pc = "proxy"
    BY <1>3, <2>1 DEF TunnelUp, Connection
  <2>3. IF n = client[c].node THEN outlier'[n] = NotOutlier ELSE outlier'[n] = outlier[n]
    BY <1>3 DEF TunnelUp, RecordSuccess, TypeOK, BalancerTypeOK
  <2> QED BY <2>1, <2>2, <2>3 DEF Pardons
<1>4. ASSUME NEW c \in Client, TunnelFails(c)
      PROVE  outlier'[n] = outlier[n]
  BY <1>4 DEF TunnelFails, RecordFailure, AfterFailure, Ejected, TypeOK, BalancerTypeOK
<1>5. CASE Tick
  <2>1. outlier[n] \in Outlier /\ outlier'[n] =
            [outlier[n] EXCEPT !.left = IF outlier[n].left = 0 THEN 0 ELSE outlier[n].left - 1]
    BY <1>5 DEF Tick, TypeOK, BalancerTypeOK
  <2> QED BY <2>1 DEF Outlier, Ejected
<1>6. ASSUME NEW c \in Client,
             \/ Accept(c) \/ PickNode(c) \/ GiveUp(c) \/ NextTurn(c) \/ Finish(c)
      PROVE  UNCHANGED outlier
  BY <1>6 DEF Accept, PickNode, GiveUp, NextTurn, Finish, Choose, DropSlot, balancer
<1>7. CASE ChangeHosts \/ UNCHANGED vars
  BY <1>1, <1>7 DEF ChangeHosts, balancer, vars
<1> QED
  BY <1>1, <1>2, <1>3, <1>4, <1>5, <1>6, <1>7 DEF Next, Step

(* An ejection runs its time: record_failure during it changes nothing,    *)
(* and only record_success for the node, or retain_nodes without it, ends  *)
(* it early.                                                               *)
THEOREM EjectionsRunTheirTime == Spec => EjectionRunsItsTime
<1>1. ASSUME ServeInv, [Next]_vars, NEW n \in Node, Ejected(n)
      PROVE  \/ outlier'[n].left <= outlier[n].left /\ outlier'[n].left >= outlier[n].left - 1
             \/ outlier'[n] = NotOutlier /\ Pardons(n)
  <2>1. outlier[n].left \in Nat /\ TypeOK
    BY <1>1 DEF ServeInv, TypeOK, BalancerTypeOK, Outlier
  <2>2. \A c \in Client : client[c].pc = "connect" => client[c].node \in Node
    BY <1>1, SlotOfFacts DEF InUse
  <2>3. \/ outlier'[n] = outlier[n]
        \/ outlier'[n] = NotOutlier /\ Pardons(n)
        \/ outlier'[n].left = outlier[n].left - 1
    BY <1>1, <2>1, <2>2, OutlierSteps
  <2> QED BY <2>1, <2>3
<1>2. ServeInv /\ [Next]_vars =>
        [\A n \in Node : Ejected(n) =>
          \/ outlier'[n].left <= outlier[n].left /\ outlier'[n].left >= outlier[n].left - 1
          \/ outlier'[n] = NotOutlier /\ Pardons(n)]_vars
  BY <1>1
<1> QED BY <1>2, ServeInvariant, PTL DEF Spec, EjectionRunsItsTime

(* The untried candidates below their limit that are neither drained nor   *)
(* ejected.                                                                *)
Good(k) == {m \in DOMAIN k.cand \ k.tried :
              /\ k.cand[m].weight > 0 /\ ~Ejected(m)
              /\ CL!Below(Cardinality(CL!On(m)), k.cand[m].limit)}

LEMMA GoodAreEligible ==
    ASSUME Counted, NEW k \in Connection, Good(k) # {}
    PROVE  Eligible(k.cand, k.tried) = Good(k)
<1>1. k.cand \in Instances /\ DOMAIN k.cand \subseteq Node
  BY InstanceFacts DEF Connection
<1> DEFINE undrained == {m \in Open(k.cand, k.tried) : k.cand[m].weight > 0}
<1>2. Good(k) = {m \in undrained : ~Ejected(m)}
  BY <1>1 DEF Good, Counted, Open, Untried
<1>3. FailOpen(Open(k.cand, k.tried), {m \in DOMAIN k.cand : k.cand[m].weight > 0}) = undrained
  BY <1>2 DEF FailOpen, Open, Untried
<1>4. FailOpen(undrained, {m \in DOMAIN k.cand : ~Ejected(m)}) = Good(k)
  BY <1>2 DEF FailOpen, Open, Untried
<1> QED BY <1>3, <1>4 DEF Eligible

(* pick passes over an ejected or drained node as long as an untried       *)
(* candidate below its limit is neither.                                   *)
THEOREM EjectedAreAvoided == Spec => PicksAvoidEjected
<1>1. ASSUME ServeInv, [Next]_vars, NEW c \in Client,
             client[c].pc = "pick", client'[c].pc = "connect", Good(client[c]) # {}
      PROVE  client'[c].node \in Good(client[c])
  <2> USE DEF TypeOK
  <2>1. PickNode(c)
    <3>1. \A d \in Client : Step(d) => d = c
      BY <1>1 DEF ServeInv, Step, Accept, Retain, PickNode, GiveUp, TunnelUp, TunnelFails,
                  NextTurn, Finish
    <3>2. Step(c)
      BY <1>1, <3>1 DEF Next, ChangeHosts, vars
    <3>3. client \in [Client -> Connection] /\ Gone.pc = "gone"
      BY <1>1 DEF ServeInv, Gone
    <3> QED BY <1>1, <3>2, <3>3 DEF Step, Accept, Retain, GiveUp, TunnelUp, TunnelFails,
                                    NextTurn, Finish
  <2>2. PICK n \in Node : /\ Choose(c, client[c].cand, client[c].tried, n)
                          /\ client'[c].node = n
    BY <1>1, <2>1 DEF PickNode, ServeInv, Connection
  <2>3. client[c] \in Connection /\ client[c].cand \in Instances
    BY <1>1 DEF ServeInv, Connection
  <2>4. n \in Eligible(client[c].cand, client[c].tried)
    BY <1>1, <2>2, <2>3, ChooseFacts DEF ServeInv
  <2> QED BY <1>1, <2>2, <2>3, <2>4, GoodAreEligible DEF ServeInv
<1>2. ServeInv /\ [Next]_vars =>
        [\A c \in Client : client[c].pc = "pick" /\ client'[c].pc = "connect" =>
          LET k == client[c]
              good == {m \in DOMAIN k.cand \ k.tried :
                         /\ k.cand[m].weight > 0 /\ ~Ejected(m)
                         /\ CL!Below(Cardinality(CL!On(m)), k.cand[m].limit)}
          IN  good # {} => client'[c].node \in good]_vars
  BY <1>1 DEF Good
<1> QED BY <1>2, ServeInvariant, PTL DEF Spec, PicksAvoidEjected

-----------------------------------------------------------------------------
(* The HTTP proxy. *)

(* A request's slots are those of the backend in use and of the fallback,  *)
(* and it has tried both.                                                  *)
RequestSlots ==
    \A s \in slots : /\ s.node \in {req[s.client].node, req[s.client].fallback}
                     /\ s.node \in req[s.client].tried

(* What the state of a request says of its other fields.                   *)
NothingReached == {"gone", "prepare", "pick", "sent", "failed"}

RequestOK(q) ==
    /\ q.pc = "gone" => q = NoRequest
    /\ q.pc \in {"prepare", "pick"} => q.node = 0
    /\ q.pc \in {"sent", "failed", "retry", "response"} => q.node # 0
    /\ q.answered => q.fallback # 0 \/ q.pc \in {"retry", "response", "body"}
    /\ q.pc = "refused" => q.fallback = 0
    /\ ~(q.idempotent /\ q.replayable) =>
          /\ q.pc # "retry"
          /\ q.pc \in NothingReached => q.reached = {}
          /\ Cardinality(q.reached) <= 1

(* What was spent and what is left was earned.                             *)
BudgetInv == RetryCost * retries + tokens <= BudgetMax + requests

(* The inductive invariant.                                                *)
HttpInv ==
    /\ HttpTypeOK /\ Counted /\ RequestSlots /\ BudgetInv
    /\ \A r \in Client : RequestOK(req[r])
-----------------------------------------------------------------------------
(* A request that has not come, or has ended, holds nothing.               *)
LEMMA NoRequestFacts ==
    /\ NoRequest \in Request /\ RequestOK(NoRequest)
    /\ NoRequest.pc = "gone" /\ NoRequest.node = 0 /\ NoRequest.fallback = 0
    /\ NoRequest.reached = {} /\ ~NoRequest.answered /\ NoRequest.tried = {}
<1>1. /\ NoRequest.pc = "gone" /\ NoRequest.node = 0 /\ NoRequest.fallback = 0
      /\ NoRequest.reached = {} /\ ~NoRequest.answered /\ NoRequest.tried = {}
  BY DEF NoRequest
<1>2. NoRequest \in Request
  BY NoBackendsInstances DEF NoRequest, Request
<1>3. Cardinality(NoRequest.reached) <= 1
  BY <1>1, FS_EmptySet
<1> QED BY <1>1, <1>2, <1>3 DEF RequestOK

(* The invariant holds when the proxy starts.                              *)
LEMMA HttpStarts == HttpInit => HttpInv
<1> SUFFICES ASSUME HttpInit PROVE HttpInv
  OBVIOUS
<1>1. BalancerTypeOK
  BY DEF HttpInit, BalancerInit, BalancerTypeOK, Outlier, NotOutlier
<1>2. HttpTypeOK
  BY <1>1, NoRequestFacts, HttpAttemptAssumption DEF HttpInit, HttpTypeOK
<1>3. Counted
  <2>1. \A n : CL!On(n) = {}
    BY DEF HttpInit, BalancerInit, CL!On
  <2> QED BY <2>1, FS_EmptySet DEF HttpInit, BalancerInit, Counted
<1>4. RequestSlots
  BY DEF HttpInit, BalancerInit, RequestSlots
<1>5. BudgetInv
  BY HttpAttemptAssumption DEF HttpInit, BudgetInv
<1>6. \A r \in Client : RequestOK(req[r])
  BY NoRequestFacts DEF HttpInit
<1> QED BY <1>2, <1>3, <1>4, <1>5, <1>6 DEF HttpInv

(* Slots dropped together are given back, and no longer counted.           *)
LEMMA DropSlotsReleases ==
    ASSUME BalancerTypeOK, Counted, NEW S \in SUBSET slots, DropSlots(S)
    PROVE  BalancerTypeOK' /\ Counted' /\ CL!Release(S)
<1>1. slots' = slots \ S /\ UNCHANGED <<current, outlier>>
  BY DEF DropSlots
<1>2. ASSUME NEW n \in Node
      PROVE  active'[n] = Cardinality(CL!On(n)') /\ active'[n] \in Nat
  <2> DEFINE T == {s \in S : s.node = n}
  <2>1. CL!On(n)' = CL!On(n) \ T /\ CL!On(n) \cap T = T
    BY <1>1 DEF CL!On
  <2>2. active'[n] = active[n] - Cardinality(T) /\ active[n] = Cardinality(CL!On(n))
    BY DEF DropSlots, Counted
  <2> HIDE DEF T
  <2>3. /\ IsFiniteSet(CL!On(n) \ T)
        /\ Cardinality(CL!On(n) \ T) = Cardinality(CL!On(n)) - Cardinality(CL!On(n) \cap T)
    BY OnFinite, FS_Difference
  <2>4. Cardinality(CL!On(n) \ T) \in Nat
    BY <2>3, FS_CardinalityType
  <2> QED BY <2>1, <2>2, <2>3, <2>4
<1>3. IsFiniteSet(slots')
  BY <1>1, FS_Subset DEF Counted
<1>4. Counted'
  BY <1>2, <1>3 DEF Counted
<1>5. active' \in [Node -> Nat]
  BY <1>2 DEF DropSlots
<1> QED BY <1>1, <1>4, <1>5 DEF BalancerTypeOK, CL!Release

(* What is left to show of a step of request r that makes it k.            *)
LEMMA RequestStep ==
    ASSUME HttpInv, NEW r \in Client, NEW k \in Request, RequestOK(k),
           req' = [req EXCEPT ![r] = k], BalancerTypeOK', Counted',
           \/ UNCHANGED <<tokens, requests, retries>>
           \/ /\ tokens' \in 0 .. BudgetMax /\ requests' \in 0 .. MaxRequests
              /\ retries' \in Nat /\ BudgetInv',
           \A s \in slots' :
              \/ s.client # r /\ s \in slots
              \/ s.client = r /\ s.node \in {k.node, k.fallback} /\ s.node \in k.tried
    PROVE  HttpInv'
<1>1. req' \in [Client -> Request] /\ \A q \in Client : req'[q] = IF q = r THEN k ELSE req[q]
  BY DEF HttpInv, HttpTypeOK
<1>2. HttpTypeOK' /\ BudgetInv'
  BY <1>1 DEF HttpInv, HttpTypeOK, BudgetInv
<1>3. RequestSlots'
  <2>1. \A s \in slots' : s.client \in Client
    BY DEF BalancerTypeOK, CL!Slot
  <2> QED BY <1>1, <2>1 DEF HttpInv, RequestSlots
<1>4. \A q \in Client : RequestOK(req'[q])
  BY <1>1 DEF HttpInv
<1> QED BY <1>2, <1>3, <1>4 DEF HttpInv

(* The slots of a request, before its step.                                *)
LEMMA SlotFacts ==
    ASSUME HttpInv
    PROVE  \A s \in slots : /\ s.client \in Client /\ s.node \in Node
                            /\ s.node \in {req[s.client].node, req[s.client].fallback}
                            /\ s.node \in req[s.client].tried
                            /\ s.node # 0
<1>1. 0 \notin Node
  BY BalancerAssumption DEF Node
<1> QED BY <1>1 DEF HttpInv, RequestSlots, HttpTypeOK, BalancerTypeOK, CL!Slot

(* A token earned with a request, and RetryCost of them spent on a retry,  *)
(* keep what was spent and is left within what was earned.                 *)
LEMMA Earn ==
    ASSUME NEW cost \in Nat, NEW n \in Nat, NEW have \in Nat, NEW next \in Nat,
           NEW most \in Nat, NEW q \in Nat,
           cost * n + have <= most + q, next <= have + 1
    PROVE  cost * n + next <= most + (q + 1)
<1>1. cost * n \in Nat
  OBVIOUS
<1> DEFINE spent == cost * n
<1> HIDE DEF spent
<1>2. spent \in Nat /\ spent + have <= most + q
  BY <1>1 DEF spent
<1>3. spent + next <= most + (q + 1)
  BY <1>2
<1> QED BY <1>3 DEF spent

(* Taking the cost of one more retry out of the bucket.                    *)
LEMMA Spend ==
    ASSUME NEW cost \in Nat, NEW n \in Nat, NEW have \in Nat, NEW most \in Nat,
           cost * n + have <= most, cost <= have
    PROVE  cost * (n + 1) + (have - cost) <= most
<1>1. cost * (n + 1) = cost * n + cost /\ cost * n \in Nat
  OBVIOUS
<1> QED BY <1>1

(* Handling a request credits the budget.                                  *)
LEMMA HandleKeeps ==
    ASSUME HttpInv, NEW r \in Client, Handle(r)
    PROVE  HttpInv'
<1>1. PICK idempotent, replayable \in BOOLEAN :
        req' = [req EXCEPT ![r] = [NoRequest EXCEPT !.pc = "prepare",
                   !.idempotent = idempotent, !.replayable = replayable]]
  BY DEF Handle
<1> DEFINE k == [NoRequest EXCEPT !.pc = "prepare",
                   !.idempotent = idempotent, !.replayable = replayable]
<1>2. /\ k \in Request /\ k.pc = "prepare" /\ k.node = 0
      /\ k.reached = {} /\ ~k.answered
  BY NoBackendsInstances DEF NoRequest, Request
<1>3. RequestOK(k)
  BY <1>2, FS_EmptySet DEF RequestOK
<1>4. /\ tokens' \in 0 .. BudgetMax /\ tokens' <= tokens + 1
      /\ requests' = requests + 1 /\ requests' \in 0 .. MaxRequests /\ retries' = retries
  <2>1. tokens \in 0 .. BudgetMax /\ BudgetMax \in Nat
    BY HttpAttemptAssumption DEF HttpInv, HttpTypeOK
  <2>2. Deposit = IF tokens + 1 <= BudgetMax THEN tokens + 1 ELSE BudgetMax
    BY <2>1 DEF Deposit, Min
  <2> QED BY <2>1, <2>2, HttpAttemptAssumption DEF Handle, HttpInv, HttpTypeOK
<1>5. BudgetInv'
  <2>1. /\ tokens \in Nat /\ tokens' \in Nat /\ requests \in Nat /\ retries \in Nat
        /\ RetryCost \in Nat /\ BudgetMax \in Nat
        /\ RetryCost * retries + tokens <= BudgetMax + requests
    BY <1>4, HttpAttemptAssumption DEF HttpInv, HttpTypeOK, BudgetInv
  <2>2. RetryCost * retries + tokens' <= BudgetMax + (requests + 1)
    BY <1>4, <2>1, Earn
  <2> QED BY <1>4, <2>2 DEF BudgetInv
<1>6. BalancerTypeOK' /\ Counted'
  BY CountedUnchanged DEF HttpInv, HttpTypeOK, BalancerTypeOK, Handle, balancer
<1>7. \A s \in slots' : s.client # r /\ s \in slots
  <2>1. req[r] = NoRequest
    BY DEF Handle, At, HttpInv, RequestOK
  <2> QED BY <2>1, SlotFacts, NoRequestFacts DEF Handle, balancer
<1>8. req' = [req EXCEPT ![r] = k] /\ retries' \in Nat
  BY <1>1, <1>4 DEF HttpInv, HttpTypeOK
<1> HIDE DEF k
<1> QED BY <1>2, <1>3, <1>4, <1>5, <1>6, <1>7, <1>8, RequestStep

(* A turn of attempt reads the candidates.                                 *)
LEMMA StartAttemptKeeps ==
    ASSUME HttpInv, NEW r \in Client, StartAttempt(r)
    PROVE  HttpInv'
<1>1. PICK all \in Instances : /\ RetainNodes(DOMAIN all)
        /\ \E subset \in SUBSET Node : \E healthy \in Preferred(DOMAIN all \cap subset) :
              req' = [req EXCEPT ![r] =
                        [req[r] EXCEPT !.pc = IF healthy = {} THEN "error" ELSE "pick",
                                       !.cand = [n \in healthy |-> all[n]]]]
  BY DEF StartAttempt
<1>2. PICK subset \in SUBSET Node : \E healthy \in Preferred(DOMAIN all \cap subset) :
              req' = [req EXCEPT ![r] =
                        [req[r] EXCEPT !.pc = IF healthy = {} THEN "error" ELSE "pick",
                                       !.cand = [n \in healthy |-> all[n]]]]
  BY <1>1
<1>b. PICK healthy \in Preferred(DOMAIN all \cap subset) :
              req' = [req EXCEPT ![r] =
                        [req[r] EXCEPT !.pc = IF healthy = {} THEN "error" ELSE "pick",
                                       !.cand = [n \in healthy |-> all[n]]]]
  BY <1>2
<1> DEFINE cand == [n \in healthy |-> all[n]]
           k == [req[r] EXCEPT !.pc = IF healthy = {} THEN "error" ELSE "pick", !.cand = cand]
<1>3. req[r] \in Request /\ RequestOK(req[r]) /\ req[r].pc = "prepare"
  BY DEF HttpInv, HttpTypeOK, StartAttempt, At
<1>4. cand \in Instances
  <2>1. healthy \in SUBSET DOMAIN all
    BY PreferredSubset
  <2> QED BY <2>1, InstanceFacts
<1> HIDE DEF cand
<1>5. /\ k \in Request /\ k.pc \in {"error", "pick"}
      /\ k.node = req[r].node /\ k.fallback = req[r].fallback /\ k.tried = req[r].tried
      /\ k.idempotent = req[r].idempotent /\ k.replayable = req[r].replayable
      /\ k.reached = req[r].reached /\ k.answered = req[r].answered
  BY <1>3, <1>4 DEF Request
<1>6. req' = [req EXCEPT ![r] = k]
  BY <1>b DEF cand
<1> HIDE DEF k
<1>7. RequestOK(k)
  BY <1>3, <1>5 DEF RequestOK, NothingReached
<1>8. BalancerTypeOK' /\ Counted'
  BY <1>1, OperationTypes, CountedUnchanged, InstanceFacts DEF HttpInv, HttpTypeOK, RetainNodes
<1>9. slots' = slots /\ UNCHANGED <<tokens, requests, retries>>
  BY <1>1 DEF StartAttempt, RetainNodes
<1>10. \A s \in slots' : \/ s.client # r /\ s \in slots
                         \/ s.client = r /\ s.node \in {k.node, k.fallback} /\ s.node \in k.tried
  BY <1>5, <1>9, SlotFacts
<1> QED BY <1>5, <1>6, <1>7, <1>8, <1>9, <1>10, RequestStep

(* A pick reserves a slot on a backend the request had none on.            *)
LEMMA PickBackendKeeps ==
    ASSUME HttpInv, NEW r \in Client, PickBackend(r)
    PROVE  HttpInv' /\ \E s \in CL!Slot : CL!Acquire(s)
<1>1. PICK n \in Node :
        /\ Choose(r, req[r].cand, req[r].tried, n)
        /\ req' = [req EXCEPT ![r] =
                     [req[r] EXCEPT !.pc = IF HasBody(r) THEN "sent" ELSE "error",
                                    !.node = n, !.tried = req[r].tried \cup {n}]]
  BY DEF PickBackend
<1> DEFINE k == [req[r] EXCEPT !.pc = IF HasBody(r) THEN "sent" ELSE "error",
                               !.node = n, !.tried = req[r].tried \cup {n}]
           s == [client |-> r, node |-> n, limit |-> req[r].cand[n].limit]
<1>2. req' = [req EXCEPT ![r] = k] /\ UNCHANGED <<tokens, requests, retries>>
  BY <1>1 DEF PickBackend
<1>3. /\ req[r] \in Request /\ req[r].cand \in Instances
      /\ RequestOK(req[r]) /\ req[r].pc = "pick"
  BY DEF HttpInv, HttpTypeOK, Request, PickBackend, At
<1>4. /\ k \in Request /\ k.pc \in {"sent", "error"} /\ k.node = n
      /\ k.fallback = req[r].fallback /\ k.tried = req[r].tried \cup {n}
      /\ k.idempotent = req[r].idempotent /\ k.replayable = req[r].replayable
      /\ k.reached = req[r].reached /\ k.answered = req[r].answered
  BY <1>3 DEF Request
<1>5. slots' = slots \cup {s} /\ s.client = r /\ s.node = n
  BY <1>1 DEF Choose
<1> HIDE DEF k, s
<1>6. BalancerTypeOK' /\ n \notin req[r].tried
  BY <1>1, <1>3, ChooseFacts DEF HttpInv, HttpTypeOK, Open, Untried
<1>7. Counted' /\ \E t \in CL!Slot : CL!Acquire(t)
  <2>1. \A t \in CL!On(n) : t.client # r
    BY <1>6, SlotFacts DEF CL!On
  <2> QED BY <1>1, <1>3, <2>1, ChooseAcquires DEF HttpInv, HttpTypeOK
<1>8. n # 0
  BY BalancerAssumption DEF Node
<1>9. RequestOK(k)
  BY <1>3, <1>4, <1>8 DEF RequestOK, NothingReached
<1>10. \A t \in slots' : \/ t.client # r /\ t \in slots
                         \/ t.client = r /\ t.node \in {k.node, k.fallback} /\ t.node \in k.tried
  BY <1>3, <1>4, <1>5, SlotFacts DEF RequestOK
<1> QED BY <1>2, <1>4, <1>6, <1>7, <1>9, <1>10, RequestStep

(* A backend answers: its status is worth a retry or is final.             *)
LEMMA RespondKeeps ==
    ASSUME HttpInv, NEW r \in Client, Respond(r)
    PROVE  HttpInv'
<1>1. PICK bad \in BOOLEAN :
        req' = [req EXCEPT ![r] =
                  [req[r] EXCEPT !.pc = IF WorthRetrying(r, bad) THEN "retry" ELSE "response",
                            !.reached = req[r].reached \cup {req[r].node}, !.answered = TRUE]]
  BY DEF Respond
<1> DEFINE k == [req[r] EXCEPT !.pc = IF WorthRetrying(r, bad) THEN "retry" ELSE "response",
                            !.reached = req[r].reached \cup {req[r].node}, !.answered = TRUE]
<1>2. req[r] \in Request /\ RequestOK(req[r]) /\ req[r].pc = "sent"
  BY DEF HttpInv, HttpTypeOK, Respond, At
<1>3. req[r].node \in Node
  BY <1>2 DEF Request, RequestOK
<1>4. /\ k \in Request /\ k.pc \in {"retry", "response"}
      /\ k.pc = "retry" => req[r].idempotent /\ req[r].replayable
      /\ k.node = req[r].node /\ k.fallback = req[r].fallback /\ k.tried = req[r].tried
      /\ k.idempotent = req[r].idempotent /\ k.replayable = req[r].replayable
      /\ k.reached = req[r].reached \cup {req[r].node}
  BY <1>2, <1>3 DEF Request, WorthRetrying
<1>5. req' = [req EXCEPT ![r] = k]
  BY <1>1
<1> HIDE DEF k
<1>6. RequestOK(k)
  <2>1. ~(k.idempotent /\ k.replayable) => k.reached = {k.node}
    BY <1>2, <1>4 DEF RequestOK, NothingReached
  <2>2. Cardinality({k.node}) = 1
    BY FS_Singleton
  <2> QED BY <1>2, <1>4, <2>1, <2>2 DEF RequestOK, NothingReached
<1>7. BalancerTypeOK' /\ Counted'
  BY <1>3, OperationTypes, CountedUnchanged DEF HttpInv, HttpTypeOK, Respond, RecordSuccess
<1>8. slots' = slots /\ UNCHANGED <<tokens, requests, retries>>
  BY DEF Respond, RecordSuccess
<1>9. \A s \in slots' : \/ s.client # r /\ s \in slots
                        \/ s.client = r /\ s.node \in {k.node, k.fallback} /\ s.node \in k.tried
  BY <1>4, <1>8, SlotFacts
<1> QED BY <1>4, <1>5, <1>6, <1>7, <1>8, <1>9, RequestStep

(* A retry costs RetryCost tokens, and the earlier fallback its slot.      *)
LEMMA WithdrawKeeps ==
    ASSUME HttpInv, NEW r \in Client, Withdraw(r)
    PROVE  HttpInv' /\ (UNCHANGED slots \/ \E S \in SUBSET slots : CL!Release(S))
<1>1. req[r] \in Request /\ RequestOK(req[r]) /\ req[r].pc = "retry"
  BY DEF HttpInv, HttpTypeOK, Withdraw, At
<1>2. req[r].idempotent /\ req[r].replayable /\ req[r].node # 0
  BY <1>1 DEF RequestOK
<1>3. CASE CanWithdraw
  <2> DEFINE k == [req[r] EXCEPT !.pc = "pick", !.node = 0, !.fallback = req[r].node]
             S == HeldOn(r, req[r].fallback)
  <2>1. /\ req' = [req EXCEPT ![r] = k] /\ DropSlots(S)
        /\ tokens' = tokens - RetryCost /\ retries' = retries + 1 /\ requests' = requests
    BY <1>3 DEF Withdraw
  <2>2. /\ k \in Request /\ k.pc = "pick" /\ k.node = 0 /\ k.fallback = req[r].node
        /\ k.tried = req[r].tried /\ k.idempotent /\ k.replayable
    BY <1>1, <1>2 DEF Request
  <2>3. S \in SUBSET slots /\ \A s \in slots \ S : s.client = r => s.node # req[r].fallback
    BY DEF HeldOn, Held
  <2> HIDE DEF k, S
  <2>4. RequestOK(k)
    BY <1>2, <2>2 DEF RequestOK
  <2>5. BalancerTypeOK' /\ Counted' /\ CL!Release(S)
    BY <2>1, <2>3, DropSlotsReleases DEF HttpInv, HttpTypeOK
  <2>6. tokens' \in 0 .. BudgetMax /\ requests' \in 0 .. MaxRequests /\ retries' \in Nat
    BY <1>3, <2>1, HttpAttemptAssumption DEF HttpInv, HttpTypeOK, CanWithdraw
  <2>7. BudgetInv'
    <3>1. /\ tokens \in Nat /\ requests \in Nat /\ retries \in Nat /\ RetryCost \in Nat
          /\ BudgetMax + requests \in Nat /\ RetryCost <= tokens
          /\ RetryCost * retries + tokens <= BudgetMax + requests
      BY <1>3, HttpAttemptAssumption DEF HttpInv, HttpTypeOK, CanWithdraw, BudgetInv
    <3>2. RetryCost * (retries + 1) + (tokens - RetryCost) <= BudgetMax + requests
      BY <3>1, Spend
    <3> QED BY <2>1, <3>2 DEF BudgetInv
  <2>8. \A s \in slots' : \/ s.client # r /\ s \in slots
                          \/ s.client = r /\ s.node \in {k.node, k.fallback} /\ s.node \in k.tried
    BY <2>2, <2>3, <2>5, SlotFacts DEF CL!Release
  <2>9. HttpInv'
    BY <2>1, <2>2, <2>4, <2>5, <2>6, <2>7, <2>8, RequestStep
  <2> QED BY <2>3, <2>5, <2>9
<1>4. CASE ~CanWithdraw
  <2> DEFINE k == [req[r] EXCEPT !.pc = "response"]
  <2>1. /\ req' = [req EXCEPT ![r] = k]
        /\ UNCHANGED <<current, active, outlier, slots, tokens, requests, retries>>
    BY <1>1, <1>4 DEF Withdraw, balancer, HttpInv, HttpTypeOK
  <2>2. /\ k \in Request /\ k.pc = "response" /\ k.node = req[r].node
        /\ k.fallback = req[r].fallback /\ k.tried = req[r].tried
        /\ k.idempotent /\ k.replayable
    BY <1>1, <1>2 DEF Request
  <2> HIDE DEF k
  <2>3. RequestOK(k)
    BY <1>2, <2>2 DEF RequestOK
  <2>4. BalancerTypeOK' /\ Counted'
    BY <2>1, CountedUnchanged DEF HttpInv, HttpTypeOK, BalancerTypeOK
  <2>5. \A s \in slots' : \/ s.client # r /\ s \in slots
                          \/ s.client = r /\ s.node \in {k.node, k.fallback} /\ s.node \in k.tried
    BY <2>1, <2>2, SlotFacts
  <2> QED BY <2>1, <2>2, <2>3, <2>4, <2>5, RequestStep
<1> QED BY <1>3, <1>4

(* A request ends its turn without an answer: no backend is left, the      *)
(* connection fails, or breaks once the request was sent.                  *)
LEMMA NoAnswerKeeps ==
    ASSUME HttpInv, NEW r \in Client, NoBackendLeft(r) \/ ConnectFails(r) \/ SentFails(r)
    PROVE  HttpInv' /\ UNCHANGED slots
<1>1. req[r] \in Request /\ RequestOK(req[r]) /\ req[r].pc \in {"pick", "sent"}
  BY DEF HttpInv, HttpTypeOK, NoBackendLeft, ConnectFails, SentFails, At
<1>2. PICK k \in Request :
        /\ req' = [req EXCEPT ![r] = k] /\ RequestOK(k)
        /\ k.node = req[r].node /\ k.fallback = req[r].fallback /\ k.tried = req[r].tried
  <2>1. CASE NoBackendLeft(r)
    <3> DEFINE k == [req[r] EXCEPT !.pc = "error", !.node = 0]
    <3>1. /\ k \in Request /\ k.pc = "error" /\ k.node = req[r].node
          /\ k.fallback = req[r].fallback /\ k.tried = req[r].tried
          /\ k.idempotent = req[r].idempotent /\ k.replayable = req[r].replayable
          /\ k.reached = req[r].reached /\ k.answered = req[r].answered
      BY <1>1, <2>1 DEF Request, RequestOK, NoBackendLeft, At
    <3>2. req' = [req EXCEPT ![r] = k]
      BY <2>1 DEF NoBackendLeft
    <3> HIDE DEF k
    <3>3. RequestOK(k)
      BY <1>1, <3>1 DEF RequestOK, NothingReached
    <3> QED BY <3>1, <3>2, <3>3
  <2>2. CASE ConnectFails(r)
    <3> DEFINE k == [req[r] EXCEPT !.pc = "failed"]
    <3>1. /\ k \in Request /\ k.pc = "failed" /\ k.node = req[r].node
          /\ k.fallback = req[r].fallback /\ k.tried = req[r].tried
          /\ k.idempotent = req[r].idempotent /\ k.replayable = req[r].replayable
          /\ k.reached = req[r].reached /\ k.answered = req[r].answered
      BY <1>1 DEF Request
    <3>2. req' = [req EXCEPT ![r] = k] /\ req[r].pc = "sent"
      BY <2>2 DEF ConnectFails, At, HttpInv, HttpTypeOK
    <3> HIDE DEF k
    <3>3. RequestOK(k)
      BY <1>1, <3>1, <3>2 DEF RequestOK, NothingReached
    <3> QED BY <3>1, <3>2, <3>3
  <2>3. CASE SentFails(r)
    <3> DEFINE k == [req[r] EXCEPT !.pc = "error",
                                   !.reached = req[r].reached \cup {req[r].node}]
    <3>1. req' = [req EXCEPT ![r] = k] /\ req[r].pc = "sent"
      BY <2>3 DEF SentFails, At
    <3>2. req[r].node \in Node
      BY <1>1, <3>1 DEF Request, RequestOK
    <3>3. /\ k \in Request /\ k.pc = "error" /\ k.node = req[r].node
          /\ k.fallback = req[r].fallback /\ k.tried = req[r].tried
          /\ k.idempotent = req[r].idempotent /\ k.replayable = req[r].replayable
          /\ k.reached = req[r].reached \cup {req[r].node} /\ k.answered = req[r].answered
      BY <1>1, <3>2 DEF Request
    <3> HIDE DEF k
    <3>4. ~(k.idempotent /\ k.replayable) => k.reached = {k.node}
      BY <1>1, <3>1, <3>3 DEF RequestOK, NothingReached
    <3>5. Cardinality({k.node}) = 1
      BY FS_Singleton
    <3>6. RequestOK(k)
      BY <1>1, <3>1, <3>3, <3>4, <3>5 DEF RequestOK, NothingReached
    <3> QED BY <3>1, <3>3, <3>6
  <2> QED BY <2>1, <2>2, <2>3
<1>3. UNCHANGED <<slots, active, tokens, requests, retries>>
  BY DEF NoBackendLeft, ConnectFails, SentFails, RecordFailure, balancer
<1>4. BalancerTypeOK'
  <2>1. CASE ConnectFails(r)
    <3>1. req[r].node \in Node
      BY <1>1, <2>1 DEF Request, RequestOK, ConnectFails, At
    <3> QED BY <2>1, <3>1, OperationTypes DEF HttpInv, HttpTypeOK, ConnectFails
  <2>2. CASE NoBackendLeft(r) \/ SentFails(r)
    BY <2>2 DEF HttpInv, HttpTypeOK, BalancerTypeOK, NoBackendLeft, SentFails, balancer
  <2> QED BY <2>1, <2>2
<1>5. Counted'
  BY <1>3, CountedUnchanged DEF HttpInv
<1>6. \A s \in slots' : \/ s.client # r /\ s \in slots
                        \/ s.client = r /\ s.node \in {k.node, k.fallback} /\ s.node \in k.tried
  BY <1>2, <1>3, SlotFacts
<1> QED BY <1>2, <1>3, <1>4, <1>5, <1>6, RequestStep

(* Slots are given back: that of a failed attempt, those of what is not    *)
(* answered with, or all of them when the request is over.                 *)
LEMMA HttpDropKeeps ==
    ASSUME HttpInv, NEW r \in Client, NEW S \in SUBSET slots, DropSlots(S),
           NEW k \in Request, RequestOK(k), req' = [req EXCEPT ![r] = k],
           UNCHANGED <<tokens, requests, retries>>,
           \A s \in slots \ S : s.client = r => /\ s.node \in {k.node, k.fallback}
                                                /\ s.node \in k.tried
    PROVE  HttpInv' /\ \E T \in SUBSET slots : CL!Release(T)
<1>1. BalancerTypeOK' /\ Counted' /\ CL!Release(S)
  BY DropSlotsReleases DEF HttpInv, HttpTypeOK
<1>2. \A s \in slots' : \/ s.client # r /\ s \in slots
                        \/ s.client = r /\ s.node \in {k.node, k.fallback} /\ s.node \in k.tried
  BY DEF DropSlots
<1> QED BY <1>1, <1>2, RequestStep

(* A failed turn drops its slot, and the next one begins or the error is   *)
(* returned.                                                               *)
LEMMA NextAttemptKeeps ==
    ASSUME HttpInv, NEW r \in Client, NextAttempt(r)
    PROVE  HttpInv' /\ \E T \in SUBSET slots : CL!Release(T)
<1> DEFINE k == [req[r] EXCEPT !.pc = IF req[r].replayable THEN "pick" ELSE "error", !.node = 0]
           S == HeldOn(r, req[r].node)
<1>1. req[r] \in Request /\ RequestOK(req[r]) /\ req[r].pc = "failed"
  BY DEF HttpInv, HttpTypeOK, NextAttempt, At
<1>2. /\ k \in Request /\ k.pc \in {"pick", "error"} /\ k.node = 0
      /\ k.fallback = req[r].fallback /\ k.tried = req[r].tried
      /\ k.idempotent = req[r].idempotent /\ k.replayable = req[r].replayable
      /\ k.reached = req[r].reached /\ k.answered = req[r].answered
  BY <1>1 DEF Request
<1>3. /\ req' = [req EXCEPT ![r] = k] /\ DropSlots(S)
      /\ UNCHANGED <<tokens, requests, retries>>
  BY DEF NextAttempt
<1>4. S \in SUBSET slots /\ \A s \in slots \ S : s.client = r => s.node # req[r].node
  BY DEF HeldOn, Held
<1> HIDE DEF k, S
<1>5. RequestOK(k)
  BY <1>1, <1>2 DEF RequestOK, NothingReached
<1>6. \A s \in slots \ S : s.client = r => s.node \in {k.node, k.fallback} /\ s.node \in k.tried
  BY <1>2, <1>4, SlotFacts
<1> QED BY <1>2, <1>3, <1>4, <1>5, <1>6, HttpDropKeeps

(* An answer is kept if there is one.                                      *)
LEMMA ConcludeKeeps ==
    ASSUME HttpInv, NEW r \in Client, Conclude(r)
    PROVE  HttpInv' /\ \E T \in SUBSET slots : CL!Release(T)
<1> DEFINE k == [req[r] EXCEPT !.pc = IF Kept(r) = 0 THEN "refused" ELSE "body",
                               !.node = Kept(r), !.fallback = 0]
<1>1. req[r] \in Request /\ RequestOK(req[r]) /\ req[r].pc \in {"error", "response"}
  BY DEF HttpInv, HttpTypeOK, Conclude
<1>2. /\ Kept(r) \in Node \cup {0}
      /\ Kept(r) = 0 => ~req[r].answered
  BY <1>1 DEF Kept, At, Request, RequestOK
<1>3. /\ k \in Request /\ k.pc = IF Kept(r) = 0 THEN "refused" ELSE "body"
      /\ k.node = Kept(r) /\ k.fallback = 0 /\ k.tried = req[r].tried
      /\ k.idempotent = req[r].idempotent /\ k.replayable = req[r].replayable
      /\ k.reached = req[r].reached /\ k.answered = req[r].answered
  BY <1>1, <1>2 DEF Request
<1>4. /\ req' = [req EXCEPT ![r] = k] /\ DropSlots(Spare(r))
      /\ UNCHANGED <<tokens, requests, retries>>
  BY DEF Conclude
<1>5. Spare(r) \in SUBSET slots /\ \A s \in slots \ Spare(r) : s.client = r => s.node = Kept(r)
  BY DEF Spare, HeldOn, Held
<1> HIDE DEF k
<1>6. RequestOK(k)
  BY <1>1, <1>2, <1>3 DEF RequestOK, NothingReached
<1>7. \A s \in slots \ Spare(r) :
         s.client = r => s.node \in {k.node, k.fallback} /\ s.node \in k.tried
  BY <1>3, <1>5, SlotFacts
<1> QED BY <1>3, <1>4, <1>5, <1>6, <1>7, HttpDropKeeps

(* The client leaves: every slot of its request is dropped.                *)
LEMMA LeaveKeeps ==
    ASSUME HttpInv, NEW r \in Client, Leave(r)
    PROVE  HttpInv' /\ \E T \in SUBSET slots : CL!Release(T)
<1>1. /\ req' = [req EXCEPT ![r] = NoRequest] /\ DropSlots(Held(r))
      /\ UNCHANGED <<tokens, requests, retries>>
  BY DEF Leave
<1>2. Held(r) \in SUBSET slots /\ \A s \in slots \ Held(r) : s.client # r
  BY DEF Held
<1> QED BY <1>1, <1>2, NoRequestFacts, HttpDropKeeps

(* Time passes.                                                            *)
LEMMA HttpTickKeeps ==
    ASSUME HttpInv, Tick, UNCHANGED <<tokens, req, requests, retries>>
    PROVE  HttpInv'
<1>1. BalancerTypeOK' /\ Counted'
  BY OperationTypes, CountedUnchanged DEF HttpInv, HttpTypeOK, Tick
<1>2. HttpTypeOK' /\ BudgetInv' /\ RequestSlots'
  BY <1>1 DEF HttpInv, HttpTypeOK, BudgetInv, RequestSlots, Tick
<1> QED BY <1>1, <1>2 DEF HttpInv
-----------------------------------------------------------------------------
(* What every step does: it keeps the invariant, and is to the slots a     *)
(* step of ConnectionLimit or no step at all.                              *)
LEMMA HttpStep ==
    ASSUME HttpInv, [HttpNext]_http
    PROVE  HttpInv' /\ [CL!LimitNext]_slots
<1>1. CASE UNCHANGED http
  <2>1. UNCHANGED <<current, active, outlier, slots, tokens, req, requests, retries>>
    BY <1>1 DEF http
  <2>2. HttpTypeOK' /\ Counted'
    BY <2>1, CountedUnchanged DEF HttpInv, HttpTypeOK, BalancerTypeOK
  <2>3. RequestSlots' /\ BudgetInv'
    BY <2>1 DEF HttpInv, RequestSlots, BudgetInv
  <2> QED BY <2>1, <2>2, <2>3 DEF HttpInv
<1>2. CASE Tick /\ UNCHANGED <<tokens, req, requests, retries>>
  BY <1>2, HttpTickKeeps DEF Tick
<1>3. ASSUME NEW r \in Client, Handle(r)
      PROVE  HttpInv' /\ UNCHANGED slots
  BY <1>3, HandleKeeps DEF Handle, balancer
<1>4. ASSUME NEW r \in Client, StartAttempt(r)
      PROVE  HttpInv' /\ UNCHANGED slots
  BY <1>4, StartAttemptKeeps DEF StartAttempt, RetainNodes
<1>5. ASSUME NEW r \in Client, PickBackend(r)
      PROVE  HttpInv' /\ CL!LimitNext
  BY <1>5, PickBackendKeeps DEF CL!LimitNext
<1>6. ASSUME NEW r \in Client, Respond(r)
      PROVE  HttpInv' /\ UNCHANGED slots
  BY <1>6, RespondKeeps DEF Respond, RecordSuccess
<1>7. ASSUME NEW r \in Client, Withdraw(r)
      PROVE  HttpInv' /\ (UNCHANGED slots \/ CL!LimitNext)
  BY <1>7, WithdrawKeeps DEF CL!LimitNext
<1>8. ASSUME NEW r \in Client, NoBackendLeft(r) \/ ConnectFails(r) \/ SentFails(r)
      PROVE  HttpInv' /\ UNCHANGED slots
  BY <1>8, NoAnswerKeeps
<1>9. ASSUME NEW r \in Client, NextAttempt(r) \/ Conclude(r) \/ Leave(r)
      PROVE  HttpInv' /\ CL!LimitNext
  BY <1>9, NextAttemptKeeps, ConcludeKeeps, LeaveKeeps DEF CL!LimitNext
<1> QED
  BY <1>1, <1>2, <1>3, <1>4, <1>5, <1>6, <1>7, <1>8, <1>9 DEF HttpNext, Advance

(* The invariant holds always.                                             *)
LEMMA HttpInvariant == HttpSpec => []HttpInv
BY HttpStarts, HttpStep, PTL DEF HttpSpec

(* Whatever fails, is retried, kept as a fallback or abandoned by its      *)
(* client: the count pick compares with maxConnections is the number of    *)
(* Slot guards alive on the node.                                          *)
THEOREM HttpCountsAreExact == HttpSpec => []ActiveCountsSlots
<1>1. HttpInv => ActiveCountsSlots
  BY DEF HttpInv, Counted, ActiveCountsSlots
<1> QED BY <1>1, HttpInvariant, PTL

(* The requests' slots are reserved and given back as ConnectionLimit      *)
(* says, the slot of a kept fallback included.                             *)
THEOREM HttpKeepsLimits == HttpSpec => KeepsLimits
<1>1. HttpInit => CL!LimitInit
  BY DEF HttpInit, BalancerInit, CL!LimitInit
<1> QED
  BY <1>1, HttpInvariant, HttpStep, PTL DEF HttpSpec, KeepsLimits, CL!LimitSpec

(* maxConnections is a hard cap of the HTTP proxy too.                     *)
THEOREM HttpHardCap == HttpSpec => []HardCap
BY HttpKeepsLimits, LimitsAreHardCaps, PTL DEF KeepsLimits, HardCap

(* attempt holds at most the slot of the backend in use and that of the    *)
(* fallback, and a request that is over holds none.                        *)
THEOREM AtMostTwoSlots == HttpSpec => []TwoSlotsAtMost
<1>1. HttpInv => TwoSlotsAtMost
  BY DEF HttpInv, RequestSlots, TwoSlotsAtMost, Held
<1> QED BY <1>1, HttpInvariant, PTL

(* A request that is not idempotent, or whose body is streamed, is acted   *)
(* on by one backend at most, for any number of backends and attempts.     *)
THEOREM NoUnsafeRetry == HttpSpec => []ActedOnOnce
<1>1. HttpInv => ActedOnOnce
  BY DEF HttpInv, RequestOK, ActedOnOnce
<1> QED BY <1>1, HttpInvariant, PTL

(* A request that some backend answered is not refused by the proxy.       *)
THEOREM AnswersBeatErrors == HttpSpec => []AnswerBeatsError
<1>1. HttpInv => AnswerBeatsError
  <2> SUFFICES ASSUME HttpInv, NEW r \in Client, req[r].pc = "refused", req[r].answered
               PROVE  FALSE
    BY DEF AnswerBeatsError, At
  <2>1. req[r].fallback # 0
    BY DEF HttpInv, RequestOK
  <2> QED BY <2>1 DEF HttpInv, RequestOK
<1> QED BY <1>1, HttpInvariant, PTL

(* try_withdraw keeps the retries of all requests together within one per  *)
(* RetryCost requests and the burst the budget starts with.                *)
THEOREM RetriesAreEarned == HttpSpec => []RetriesWithinBudget
<1>1. HttpInv => RetriesWithinBudget
  <2> SUFFICES ASSUME HttpInv PROVE RetriesWithinBudget
    OBVIOUS
  <2>1. /\ tokens \in Nat /\ requests \in Nat /\ BudgetMax \in Nat
        /\ RetryCost \in Nat /\ retries \in Nat
    BY HttpAttemptAssumption DEF HttpInv, HttpTypeOK
  <2>2. RetryCost * retries \in Nat
    BY <2>1
  <2> DEFINE spent == RetryCost * retries
  <2>3. spent \in Nat /\ spent + tokens <= BudgetMax + requests
    BY <2>2 DEF HttpInv, BudgetInv
  <2> HIDE DEF spent
  <2>4. spent <= BudgetMax + requests
    BY <2>1, <2>3
  <2> QED BY <2>4 DEF spent, RetriesWithinBudget
<1> QED BY <1>1, HttpInvariant, PTL
=============================================================================
