-------------------------- MODULE Membership_proofs --------------------------
(***************************************************************************)
(* The versions of health reports, for any number of daemons, messages,    *)
(* restarts and clock steps.                                               *)
(***************************************************************************)
EXTENDS Membership, FiniteSetTheorems, TLAPS

(* A finite set of naturals has a largest element: one above which there   *)
(* are the fewest.                                                         *)
LEMMA MaxFacts ==
    ASSUME NEW S \in SUBSET Nat, IsFiniteSet(S), S # {}
    PROVE  Max(S) \in S /\ \A x \in S : Max(S) >= x
<1> DEFINE Above(y) == {x \in S : x > y}
           F == {Above(y) : y \in S}
<1>1. IsWellFoundedOn(StrictSubsetOrdering(S), SUBSET S)
  BY FS_FiniteSubsetsOfFinite, FS_StrictSubsetOrderingWellFounded
<1>2. F \subseteq SUBSET S /\ F # {}
  OBVIOUS
<1>3. PICK A \in F : \A B \in F : <<B, A>> \notin StrictSubsetOrdering(S)
  <2> HIDE DEF F
  <2> QED BY <1>1, <1>2, WFMin
<1>4. PICK y \in S : A = Above(y)
  OBVIOUS
<1>5. ASSUME NEW z \in S, z > y
      PROVE  FALSE
  <2>1. y \in Nat /\ z \in Nat /\ z \in A /\ z \notin Above(z)
    <3>1. y \in Nat /\ z \in Nat /\ ~(z > z)
      OBVIOUS
    <3> QED BY <1>4, <1>5, <3>1
  <2>2. Above(z) \subseteq A
    <3>1. ASSUME NEW x \in Above(z)
          PROVE  x \in S /\ x > y
      BY <1>5, <2>1
    <3> QED BY <1>4, <3>1
  <2>3. A \in SUBSET S /\ Above(z) \in SUBSET S /\ Above(z) \in F /\ Above(z) # A
    BY <1>4, <2>1, <2>2
  <2> HIDE DEF Above, F
  <2>4. <<Above(z), A>> \in StrictSubsetOrdering(S)
    BY <2>2, <2>3 DEF StrictSubsetOrdering
  <2> QED BY <1>3, <2>3, <2>4
<1>6. \A x \in S : y >= x
  BY <1>5
<1>7. \E z \in S : \A x \in S : z >= x
  BY <1>6
<1> QED BY <1>7 DEF Max

(* A function takes finitely many values on a finite set.                  *)
LEMMA ImageFinite ==
    ASSUME NEW S, IsFiniteSet(S), NEW f
    PROVE  IsFiniteSet({f[x] : x \in S})
<1> DEFINE T == {f[x] : x \in S}
           g == [x \in S |-> f[x]]
<1>1. g \in Surjection(S, T)
  BY DEF Surjection
<1> HIDE DEF g, T
<1>2. IsFiniteSet(T)
  BY <1>1, FS_Surjection
<1> QED BY <1>2 DEF T

(* The types, with messages in flight finite in number.                    *)
HealthInv == TypeOK /\ IsFiniteSet(msgs)

(* A host that has reported since it started has no newer report of its    *)
(* anywhere.  One that has not sends none out, and its clock has passed    *)
(* every report made before, so that the first one will be the newest.     *)
NewestInv ==
    \A h \in Host :
        /\ first_round[h] => /\ local_health[h] = Unset
                             /\ \A r \in Copies(h) : r.version <= clock[h]
        /\ ~first_round[h] => \A r \in Copies(h) : \/ r.version < local_health[h].version
                                                   \/ r = local_health[h]
-----------------------------------------------------------------------------
(* The types of what a step writes: a merged report, ...                   *)
LEMMA NewestType ==
    ASSUME NEW mine \in Report, NEW theirs \in Report
    PROVE  Newest(mine, theirs) \in Report
BY DEF Newest

(* ... a node_list_snapshot, ...                                           *)
LEMMA SnapshotType ==
    ASSUME TypeOK, NEW n \in Node
    PROVE  Snapshot(n) \in Snapshots
<1>1. ASSUME NEW m \in Node, known_nodes[n][m] # None
      PROVE  known_nodes[n][m].health \in Report
  BY <1>1 DEF TypeOK, Row
<1> QED BY <1>1 DEF TypeOK, Snapshot, Snapshots

(* ... an empty one, ...                                                   *)
LEMMA NobodyType == Nobody \in Snapshots /\ Nobody \in [Node -> Row \cup {None}]
BY DEF Nobody, Snapshots

(* ... a message, ...                                                      *)
LEMMA MsgType ==
    ASSUME NEW kind \in {"sync", "push", "reply", "leave"}, NEW n \in Node, NEW m \in Node,
           NEW nodes \in Snapshots
    PROVE  /\ Msg(kind, n, m, nodes) \in Message
           /\ Msg(kind, n, m, nodes).nodes = nodes
BY DEF Msg, Message

(* ... and the rows after merge_nodes.                                     *)
LEMMA MergedType ==
    ASSUME TypeOK, NEW n \in Node, NEW nodes \in Snapshots, NEW contact
    PROVE  Merged(n, nodes, contact) \in [Node -> Row \cup {None}]
<1>1. ASSUME NEW m \in Node
      PROVE  Merged(n, nodes, contact)[m] \in Row \cup {None}
  <2> DEFINE row == known_nodes[n][m]
  <2>1. row \in Row \cup {None}
    BY DEF TypeOK
  <2>2. CASE m = n \/ nodes[m] = None
    BY <2>1, <2>2 DEF Merged
  <2>3. CASE ~(m = n \/ nodes[m] = None) /\ row = None
    <3>1. nodes[m] \in Report
      BY <2>3 DEF Snapshots
    <3>2. Merged(n, nodes, contact)[m] = [health |-> nodes[m], fresh |-> TRUE]
      BY <2>3 DEF Merged
    <3> QED BY <3>1, <3>2 DEF Row
  <2>4. CASE ~(m = n \/ nodes[m] = None) /\ row # None
    <3>1. nodes[m] \in Report /\ row.health \in Report /\ row.fresh \in BOOLEAN
      BY <2>1, <2>4 DEF Snapshots, Row
    <3>2. Merged(n, nodes, contact)[m] = [health |-> Newest(row.health, nodes[m]),
                                          fresh |-> row.fresh \/ m = contact]
      BY <2>4 DEF Merged
    <3>3. Newest(row.health, nodes[m]) \in Report
      BY <3>1, NewestType
    <3> QED BY <3>1, <3>2, <3>3 DEF Row
  <2> QED BY <2>2, <2>3, <2>4
<1> QED BY <1>1 DEF Merged

(* What is left of a type once one of its parts changes.                   *)
LEMMA GossipTypes ==
    ASSUME HealthInv, UNCHANGED <<checker, environment>>,
           known_nodes' \in [Node -> [Node -> Row \cup {None}]],
           push' \in [Node -> BOOLEAN], waiting' \in [Node -> Node \cup {None}],
           owed' \subseteq Node \X Node, msgs' \in SUBSET Message, IsFiniteSet(msgs'),
           left' \in [Node -> SUBSET Node]
    PROVE  HealthInv'
BY DEF HealthInv, TypeOK, checker, environment

(* What n sends to each of some nodes.                                     *)
Sent(kind, n, to, nodes) == {Msg(kind, n, m, nodes) : m \in to}

(* Messages taken away, or sent to some of the nodes, keep their type.     *)
LEMMA MessageTypes ==
    ASSUME HealthInv, NEW kind \in {"sync", "push", "reply", "leave"}, NEW n \in Node,
           NEW to \in SUBSET Node, NEW nodes \in Snapshots, NEW kept \in SUBSET msgs,
           msgs' = kept \cup Sent(kind, n, to, nodes)
    PROVE  msgs' \in SUBSET Message /\ IsFiniteSet(msgs')
<1> DEFINE sent == {Msg(kind, n, m, nodes) : m \in to}
<1>1. sent \in SUBSET Message
  BY MsgType
<1>2. IsFiniteSet(sent)
  <2>1. IsFiniteSet(to)
    BY MembershipAssumption, FS_Subset
  <2> DEFINE f == [m \in to |-> Msg(kind, n, m, nodes)]
  <2>2. sent = {f[m] : m \in to}
    OBVIOUS
  <2>3. IsFiniteSet({f[m] : m \in to})
    <3> HIDE DEF f
    <3> QED BY <2>1, ImageFinite
  <2> QED BY <2>2, <2>3
<1>3. IsFiniteSet(kept)
  BY FS_Subset DEF HealthInv
<1> HIDE DEF sent
<1>4. IsFiniteSet(kept \cup sent)
  BY <1>2, <1>3, FS_Union
<1> QED BY <1>1, <1>4 DEF HealthInv, TypeOK, sent, Sent
-----------------------------------------------------------------------------
(* What a step may do to the reports held: a row that stays keeps its      *)
(* report or gets one of a higher version, ...                             *)
KeepsRows ==
    \A n, h \in Node :
        known_nodes[n][h] # None /\ known_nodes'[n][h] # None =>
            LET old == known_nodes[n][h].health
                new == known_nodes'[n][h].health
            IN  new = old \/ new.version > old.version

(* ... and every copy is one of an earlier copy or of the host's report.   *)
OnlyRelays == \A h \in Node : Copies(h)' \subseteq Copies(h) \cup {local_health[h]}

(* A row and a message hold copies of the host's report.                   *)
LEMMA CopyMembers ==
    ASSUME NEW h \in Node
    PROVE  /\ \A n \in Node : known_nodes[n][h] # None => known_nodes[n][h].health \in Copies(h)
           /\ \A m \in msgs : m.nodes[h] # None => m.nodes[h] \in Copies(h)
BY DEF Copies

(* Copies come only from rows and messages.                                *)
LEMMA CopiesFrom ==
    ASSUME \A n, h \in Node : known_nodes'[n][h] # None =>
                                 known_nodes'[n][h].health \in Copies(h) \cup {local_health[h]},
           \A m \in msgs' : \A h \in Node :
               m.nodes[h] # None => m.nodes[h] \in Copies(h) \cup {local_health[h]}
    PROVE  OnlyRelays
<1> SUFFICES ASSUME NEW h \in Node, NEW r \in Copies(h)'
             PROVE  r \in Copies(h) \cup {local_health[h]}
  BY DEF OnlyRelays
<1>1. \/ \E n \in Node : known_nodes'[n][h] # None /\ r = known_nodes'[n][h].health
      \/ \E m \in msgs' : m.nodes[h] # None /\ r = m.nodes[h]
  BY DEF Copies
<1> QED BY <1>1

(* A step that leaves the rows alone.                                      *)
LEMMA SameRows ==
    ASSUME UNCHANGED known_nodes
    PROVE  KeepsRows
BY DEF KeepsRows

(* A message carries what its sender holds.                                *)
LEMMA SendRelays ==
    ASSUME TypeOK, NEW kind \in {"sync", "push", "reply", "leave"}, NEW n \in Node,
           NEW to \in SUBSET Node, NEW nodes \in {Snapshot(n), Nobody},
           NEW kept \in SUBSET msgs, UNCHANGED known_nodes,
           msgs' = kept \cup Sent(kind, n, to, nodes)
    PROVE  OnlyRelays
<1>1. nodes \in Snapshots
  BY SnapshotType, NobodyType
<1>2. ASSUME NEW h \in Node, nodes[h] # None
      PROVE  nodes[h] \in Copies(h) \cup {local_health[h]}
  BY <1>2, CopyMembers DEF Snapshot, Nobody
<1>3. ASSUME NEW m \in msgs', NEW h \in Node, m.nodes[h] # None
      PROVE  m.nodes[h] \in Copies(h) \cup {local_health[h]}
  <2>1. CASE m \in kept
    BY <1>3, <2>1, CopyMembers
  <2>2. CASE m.nodes = nodes
    BY <1>2, <1>3, <2>2
  <2>3. m \in kept \/ m.nodes = nodes
    BY <1>1, MsgType DEF Sent
  <2> QED BY <2>1, <2>2, <2>3
<1>4. \A p, h \in Node : known_nodes'[p][h] # None =>
         known_nodes'[p][h].health \in Copies(h) \cup {local_health[h]}
  BY CopyMembers
<1> QED BY <1>3, <1>4, CopiesFrom

(* merge_sync takes a report over only if it is newer, and only from the   *)
(* message.                                                                *)
LEMMA MergeRelays ==
    ASSUME TypeOK, NEW n \in Node, NEW msg \in msgs, NEW contact, msgs' \subseteq msgs,
           known_nodes' = [known_nodes EXCEPT ![n] = Merged(n, msg.nodes, contact)]
    PROVE  KeepsRows /\ OnlyRelays
<1>1. msg.nodes \in Snapshots
  BY DEF TypeOK, Message
<1>2. \A p \in Node \ {n} : known_nodes'[p] = known_nodes[p]
  BY DEF TypeOK
<1>3. ASSUME NEW h \in Node
      PROVE  \/ known_nodes'[n][h] = known_nodes[n][h]
             \/ /\ known_nodes[n][h] = None /\ msg.nodes[h] # None
                /\ known_nodes'[n][h].health = msg.nodes[h]
             \/ /\ known_nodes[n][h] # None /\ msg.nodes[h] # None
                /\ known_nodes'[n][h].health = Newest(known_nodes[n][h].health, msg.nodes[h])
  <2>1. known_nodes'[n][h] = Merged(n, msg.nodes, contact)[h]
    BY DEF TypeOK
  <2> QED BY <2>1 DEF Merged
<1>4. KeepsRows
  BY <1>2, <1>3 DEF KeepsRows, Newest
<1>5. \A p, h \in Node : known_nodes'[p][h] # None =>
         known_nodes'[p][h].health \in Copies(h) \cup {local_health[h]}
  BY <1>2, <1>3, CopyMembers DEF Newest
<1>6. \A m \in msgs' : \A h \in Node :
         m.nodes[h] # None => m.nodes[h] \in Copies(h) \cup {local_health[h]}
  BY CopyMembers
<1> QED BY <1>4, <1>5, <1>6, CopiesFrom

(* The steps of gossip.                                                    *)
LEMMA BroadcastKeeps ==
    ASSUME HealthInv, NEW n \in Node, Broadcast(n)
    PROVE  HealthInv' /\ KeepsRows /\ OnlyRelays
<1>1. PICK to \in SUBSET (Peers(n) \cap running) :
         msgs' = msgs \cup Sent("push", n, to, Snapshot(n))
  BY DEF Broadcast, Sent
<1>2. /\ push' = [push EXCEPT ![n] = FALSE]
      /\ UNCHANGED <<checker, known_nodes, waiting, owed, left, environment>>
  BY DEF Broadcast
<1>3. to \in SUBSET Node /\ Snapshot(n) \in Snapshots /\ TypeOK /\ msgs \in SUBSET msgs
  BY SnapshotType DEF HealthInv, TypeOK
<1>4. msgs' \in SUBSET Message /\ IsFiniteSet(msgs')
  BY <1>1, <1>3, MessageTypes
<1>5. push' \in [Node -> BOOLEAN]
  BY <1>2 DEF HealthInv, TypeOK
<1>6. HealthInv'
  BY <1>2, <1>4, <1>5, GossipTypes DEF HealthInv, TypeOK
<1>7. KeepsRows /\ OnlyRelays
  BY <1>1, <1>2, <1>3, SameRows, SendRelays
<1> QED BY <1>6, <1>7

(* Gossip starts a sync.                                                   *)
LEMMA SyncSendKeeps ==
    ASSUME HealthInv, NEW n \in Node, NEW m \in Node, SyncSend(n, m)
    PROVE  HealthInv' /\ KeepsRows /\ OnlyRelays
<1>1. /\ msgs' = msgs \cup {Msg("sync", n, m, Snapshot(n))}
      /\ waiting' = [waiting EXCEPT ![n] = m]
      /\ UNCHANGED <<checker, known_nodes, push, owed, left, environment>>
  BY DEF SyncSend
<1>2. msgs' = msgs \cup Sent("sync", n, {m}, Snapshot(n))
  BY <1>1 DEF Sent
<1>3. {m} \in SUBSET Node /\ Snapshot(n) \in Snapshots /\ TypeOK /\ msgs \in SUBSET msgs
  BY SnapshotType DEF HealthInv
<1>4. msgs' \in SUBSET Message /\ IsFiniteSet(msgs')
  BY <1>2, <1>3, MessageTypes
<1>5. waiting' \in [Node -> Node \cup {None}]
  BY <1>1 DEF HealthInv, TypeOK
<1>6. HealthInv'
  BY <1>1, <1>4, <1>5, GossipTypes DEF HealthInv, TypeOK
<1>7. KeepsRows /\ OnlyRelays
  BY <1>1, <1>2, <1>3, SameRows, SendRelays
<1> QED BY <1>6, <1>7

(* A daemon answers a sync.                                                *)
LEMMA ReplyKeeps ==
    ASSUME HealthInv, NEW n \in Node, NEW m \in Node, Reply(n, m)
    PROVE  HealthInv' /\ KeepsRows /\ OnlyRelays
<1>1. /\ msgs' = msgs \cup {Msg("reply", n, m, Snapshot(n))}
      /\ owed' = owed \ {<<n, m>>}
      /\ UNCHANGED <<checker, known_nodes, push, waiting, left, environment>>
  BY DEF Reply
<1>2. msgs' = msgs \cup Sent("reply", n, {m}, Snapshot(n))
  BY <1>1 DEF Sent
<1>3. {m} \in SUBSET Node /\ Snapshot(n) \in Snapshots /\ TypeOK /\ msgs \in SUBSET msgs
  BY SnapshotType DEF HealthInv
<1>4. msgs' \in SUBSET Message /\ IsFiniteSet(msgs')
  BY <1>2, <1>3, MessageTypes
<1>5. HealthInv'
  BY <1>1, <1>4, GossipTypes DEF HealthInv, TypeOK
<1>6. KeepsRows /\ OnlyRelays
  BY <1>1, <1>2, <1>3, SameRows, SendRelays
<1> QED BY <1>5, <1>6

(* A message is lost.                                                      *)
LEMMA LoseKeeps ==
    ASSUME HealthInv, NEW m \in msgs, LoseMessage(m)
    PROVE  HealthInv' /\ KeepsRows /\ OnlyRelays
<1>1. /\ msgs' = msgs \ {m}
      /\ UNCHANGED <<checker, known_nodes, push, waiting, owed, left, environment>>
  BY DEF LoseMessage
<1>2. msgs' \in SUBSET Message /\ IsFiniteSet(msgs')
  BY <1>1, FS_Subset DEF HealthInv, TypeOK
<1>3. HealthInv'
  BY <1>1, <1>2, GossipTypes DEF HealthInv, TypeOK
<1>4. OnlyRelays
  BY <1>1, CopyMembers, CopiesFrom
<1> QED BY <1>1, <1>3, <1>4, SameRows

(* A sync, a push or a reply is merged.                                    *)
LEMMA HandleKeeps ==
    ASSUME HealthInv, NEW n \in Node, NEW msg \in msgs,
           HandleSync(n, msg) \/ HandleReply(n, msg)
    PROVE  HealthInv' /\ KeepsRows /\ OnlyRelays
<1>1. msg \in Message /\ msg.nodes \in Snapshots /\ msg.from \in Node /\ TypeOK
  BY DEF HealthInv, TypeOK, Message
<1>2. PICK contact \in {None, msg.from} :
         known_nodes' = [known_nodes EXCEPT ![n] = Merged(n, msg.nodes, contact)]
  BY DEF HandleSync, HandleReply
<1>3. /\ msgs' = msgs \ {msg}
      /\ UNCHANGED <<checker, push, left, environment>>
  BY DEF HandleSync, HandleReply
<1>4. owed' \subseteq Node \X Node /\ waiting' \in [Node -> Node \cup {None}]
  <2>1. owed \subseteq Node \X Node /\ waiting \in [Node -> Node \cup {None}]
    BY <1>1 DEF TypeOK
  <2>2. owed' = owed \cup {<<n, msg.from>>} \/ owed' = owed
    BY DEF HandleSync, HandleReply
  <2>3. waiting' = waiting \/ waiting' = [waiting EXCEPT ![n] = None]
    BY DEF HandleSync, HandleReply
  <2>4. owed' \subseteq Node \X Node
    BY <1>1, <2>1, <2>2
  <2> QED BY <2>1, <2>3, <2>4
<1>5. msgs' \in SUBSET Message /\ IsFiniteSet(msgs')
  BY <1>3, FS_Subset DEF HealthInv, TypeOK
<1>6. known_nodes' \in [Node -> [Node -> Row \cup {None}]]
  BY <1>1, <1>2, MergedType DEF TypeOK
<1>7. HealthInv'
  BY <1>3, <1>4, <1>5, <1>6, GossipTypes DEF HealthInv, TypeOK
<1>8. KeepsRows /\ OnlyRelays
  BY <1>1, <1>2, <1>3, MergeRelays
<1> QED BY <1>7, <1>8

(* A sync times out: its answer is lost, and the request may still arrive. *)
LEMMA TimeoutKeeps ==
    ASSUME HealthInv, NEW n \in Node, SyncTimeout(n)
    PROVE  HealthInv' /\ KeepsRows /\ OnlyRelays
<1> DEFINE Late(m) == IF m.kind = "sync" /\ m.from = n THEN [m EXCEPT !.kind = "push"] ELSE m
           kept == {x \in msgs : ~(x.kind = "reply" /\ x.to = n)}
           f == [m \in kept |-> Late(m)]
<1>1. /\ msgs' = {Late(m) : m \in kept}
      /\ waiting' = [waiting EXCEPT ![n] = None] /\ owed' \subseteq owed
      /\ UNCHANGED <<checker, known_nodes, push, left, environment>>
  BY DEF SyncTimeout
<1>2. ASSUME NEW m \in kept
      PROVE  Late(m) \in Message /\ Late(m).nodes = m.nodes
  <2>1. m \in Message
    BY DEF HealthInv, TypeOK
  <2>2. [m EXCEPT !.kind = "push"] \in Message /\ [m EXCEPT !.kind = "push"].nodes = m.nodes
    BY <2>1 DEF Message
  <2> QED BY <2>1, <2>2
<1>3. msgs' = {f[m] : m \in kept}
  BY <1>1
<1>4. IsFiniteSet(kept)
  BY FS_Subset DEF HealthInv
<1>5. kept \subseteq msgs
  OBVIOUS
<1>6. \A m \in msgs' : \E x \in msgs : m \in Message /\ m.nodes = x.nodes
  BY <1>1, <1>2, <1>5
<1> HIDE DEF Late, kept, f
<1>7. IsFiniteSet(msgs')
  BY <1>3, <1>4, ImageFinite
<1>8. waiting' \in [Node -> Node \cup {None}] /\ owed' \subseteq Node \X Node
  BY <1>1 DEF HealthInv, TypeOK
<1>9. HealthInv'
  BY <1>1, <1>6, <1>7, <1>8, GossipTypes DEF HealthInv, TypeOK
<1>10. OnlyRelays
  <2>1. \A m \in msgs' : \A h \in Node :
           m.nodes[h] # None => m.nodes[h] \in Copies(h) \cup {local_health[h]}
    BY <1>6, CopyMembers
  <2> QED BY <1>1, <2>1, CopyMembers, CopiesFrom
<1> QED BY <1>1, <1>9, <1>10, SameRows

(* A NodeLeave marks the sender.                                           *)
LEMMA HandleLeaveKeeps ==
    ASSUME HealthInv, NEW n \in Node, NEW msg \in msgs, HandleLeave(n, msg)
    PROVE  HealthInv' /\ KeepsRows /\ OnlyRelays
<1>1. msg.from \in Node /\ TypeOK
  BY DEF HealthInv, TypeOK, Message
<1>2. /\ msgs' = msgs \ {msg}
      /\ known_nodes' = [known_nodes EXCEPT ![n][msg.from] = None]
      /\ left' \in [Node -> SUBSET Node]
      /\ UNCHANGED <<checker, push, waiting, owed, environment>>
  BY <1>1 DEF HandleLeave, TypeOK
<1>3. /\ known_nodes' \in [Node -> [Node -> Row \cup {None}]]
      /\ \A p, h \in Node : known_nodes'[p][h] \in {known_nodes[p][h], None}
  BY <1>1, <1>2 DEF TypeOK
<1>4. msgs' \in SUBSET Message /\ IsFiniteSet(msgs')
  BY <1>2, FS_Subset DEF HealthInv, TypeOK
<1>5. HealthInv'
  BY <1>2, <1>3, <1>4, GossipTypes DEF HealthInv, TypeOK
<1>6. KeepsRows
  BY <1>3 DEF KeepsRows
<1>7. OnlyRelays
  BY <1>2, <1>3, CopyMembers, CopiesFrom
<1> QED BY <1>5, <1>6, <1>7

(* Nothing was heard from a node for too long.                             *)
LEMMA GoStaleKeeps ==
    ASSUME HealthInv, NEW n \in Node, NEW m \in Node, GoStale(n, m)
    PROVE  HealthInv' /\ KeepsRows /\ OnlyRelays
<1> DEFINE row == [known_nodes[n][m] EXCEPT !.fresh = FALSE]
<1>1. /\ known_nodes[n][m] \in Row /\ known_nodes[n][m] # None /\ TypeOK
      /\ UNCHANGED <<checker, push, waiting, owed, msgs, left, environment>>
  BY DEF HealthInv, TypeOK, GoStale
<1>2. known_nodes' = [known_nodes EXCEPT ![n][m] = row]
  BY DEF GoStale
<1>3. row \in Row /\ row.health = known_nodes[n][m].health
  BY <1>1 DEF Row
<1> HIDE DEF row
<1>4. /\ known_nodes' \in [Node -> [Node -> Row \cup {None}]]
      /\ \A p, h \in Node : \/ known_nodes'[p][h] = known_nodes[p][h]
                            \/ /\ known_nodes[p][h] # None
                               /\ known_nodes'[p][h].health = known_nodes[p][h].health
  BY <1>1, <1>2, <1>3 DEF TypeOK
<1>5. HealthInv'
  BY <1>1, <1>4, GossipTypes DEF HealthInv, TypeOK
<1>6. KeepsRows
  BY <1>4 DEF KeepsRows
<1>7. OnlyRelays
  BY <1>1, <1>4, CopyMembers, CopiesFrom
<1> QED BY <1>5, <1>6, <1>7

(* The steps of daemons and their environment.                             *)
LEMMA FlipKeeps ==
    ASSUME HealthInv, NEW h \in Host, Flip(h) \/ ClockBack(h)
    PROVE  /\ HealthInv' /\ KeepsRows /\ OnlyRelays
           /\ UNCHANGED <<first_round, local_health>>
           /\ ~LateClock => \A g \in Host : first_round[g] => clock'[g] = clock[g]
<1>1. UNCHANGED <<failures, first_round, local_health, known_nodes, push, waiting, owed, msgs,
                  running, draining, left, boots>>
  BY DEF Flip, ClockBack, checker, environment
<1>2. backend' \in [Host -> {"up", "down", "none"}] /\ flips' \in [Host -> Nat]
  <2>1. CASE Flip(h)
    <3>1. PICK b \in {"up", "down", "none"} : backend' = [backend EXCEPT ![h] = b]
      BY <2>1 DEF Flip
    <3>2. flips' = [flips EXCEPT ![h] = flips[h] + 1]
      BY <2>1 DEF Flip
    <3> QED BY <3>1, <3>2 DEF HealthInv, TypeOK
  <2>2. CASE ClockBack(h)
    BY <2>2 DEF ClockBack, environment, HealthInv, TypeOK
  <2> QED BY <2>1, <2>2
<1>3. /\ clock' \in [Host -> Nat]
      /\ ~LateClock => \A g \in Host : first_round[g] => clock'[g] = clock[g]
  BY DEF Flip, ClockBack, checker, HealthInv, TypeOK
<1>4. HealthInv'
  BY <1>1, <1>2, <1>3 DEF HealthInv, TypeOK
<1>5. KeepsRows /\ OnlyRelays
  BY <1>1, SameRows, CopyMembers, CopiesFrom
<1> QED BY <1>1, <1>3, <1>4, <1>5

(* A drain announces itself and closes connections.                        *)
LEMMA LeaveKeeps ==
    ASSUME HealthInv, NEW n \in Node, Leave(n)
    PROVE  /\ HealthInv' /\ KeepsRows /\ OnlyRelays
           /\ UNCHANGED <<first_round, local_health, clock>>
<1> DEFINE kept == {m \in msgs : m.to # n \/ m.kind = "reply"}
<1>1. PICK to \in SUBSET (Peers(n) \cap running) : msgs' = kept \cup Sent("leave", n, to, Nobody)
  BY DEF Leave, Sent
<1>2. /\ running' = running \ {n} /\ draining' = draining \cup {n}
      /\ UNCHANGED <<checker, backend, known_nodes, push, waiting, owed, left, flips, boots>>
  BY DEF Leave
<1>3. to \in SUBSET Node /\ Nobody \in Snapshots /\ TypeOK /\ kept \in SUBSET msgs
  BY NobodyType DEF HealthInv, TypeOK
<1> HIDE DEF kept
<1>4. msgs' \in SUBSET Message /\ IsFiniteSet(msgs')
  BY <1>1, <1>3, MessageTypes
<1>5. HealthInv'
  BY <1>2, <1>4 DEF HealthInv, TypeOK, checker
<1>6. KeepsRows /\ OnlyRelays
  BY <1>1, <1>2, <1>3, SameRows, SendRelays
<1> QED BY <1>2, <1>5, <1>6 DEF checker

(* A daemon ends.                                                          *)
LEMMA KillKeeps ==
    ASSUME HealthInv, NEW n \in Node, Kill(n)
    PROVE  /\ HealthInv' /\ KeepsRows /\ OnlyRelays
           /\ UNCHANGED <<first_round, local_health, clock>>
<1>1. /\ running' = running \ {n} /\ draining' = draining \ {n}
      /\ msgs' \subseteq msgs /\ owed' \subseteq owed
      /\ waiting' = [waiting EXCEPT ![n] = None]
      /\ UNCHANGED <<checker, backend, known_nodes, push, left, flips, boots>>
  BY DEF Kill
<1>2. IsFiniteSet(msgs')
  BY <1>1, FS_Subset DEF HealthInv
<1>3. waiting' \in [Node -> Node \cup {None}]
  BY <1>1 DEF HealthInv, TypeOK
<1>4. HealthInv'
  BY <1>1, <1>2, <1>3 DEF HealthInv, TypeOK, checker
<1>5. KeepsRows /\ OnlyRelays
  BY <1>1, SameRows, CopyMembers, CopiesFrom
<1> QED BY <1>1, <1>4, <1>5 DEF checker

(* The reports of a host that peers hold or messages carry are finitely    *)
(* many, and so their versions have a highest one.                         *)
LEMMA VersionsFinite ==
    ASSUME HealthInv, NEW h \in Host
    PROVE  /\ \A r \in Copies(h) : r \in Report /\ r.version \in Nat
           /\ IsFiniteSet({r.version : r \in Copies(h)})
<1> DEFINE holders == {x \in Node : known_nodes[x][h] # None}
           carriers == {x \in msgs : x.nodes[h] # None}
           held == [n \in holders |-> known_nodes[n][h].health]
           carried == [m \in carriers |-> m.nodes[h]]
           version == [r \in Report |-> r.version]
<1>1. Copies(h) = {held[n] : n \in holders} \cup {carried[m] : m \in carriers}
  BY DEF Copies
<1>2. IsFiniteSet(holders) /\ IsFiniteSet(carriers)
  BY MembershipAssumption, FS_Subset DEF HealthInv
<1>3. ASSUME NEW r \in Copies(h)
      PROVE  r \in Report
  <2>1. h \in Node
    BY MembershipAssumption
  <2>2. \/ \E n \in Node : known_nodes[n][h] # None /\ r = known_nodes[n][h].health
        \/ \E m \in msgs : m.nodes[h] # None /\ r = m.nodes[h]
    BY DEF Copies
  <2> QED BY <2>1, <2>2 DEF HealthInv, TypeOK, Row, Message, Snapshots
<1>4. \A r \in Report : version[r] = r.version /\ r.version \in Nat
  BY DEF Report
<1> HIDE DEF holders, carriers, held, carried, version
<1>5. IsFiniteSet(Copies(h))
  <2>1. IsFiniteSet({held[n] : n \in holders}) /\ IsFiniteSet({carried[m] : m \in carriers})
    BY <1>2, ImageFinite
  <2> QED BY <1>1, <2>1, FS_Union
<1>6. {r.version : r \in Copies(h)} = {version[r] : r \in Copies(h)}
  BY <1>3, <1>4
<1>7. IsFiniteSet({version[r] : r \in Copies(h)})
  BY <1>5, ImageFinite
<1> QED BY <1>3, <1>4, <1>6, <1>7

(* A daemon that starts has passed all reports of its that are around.     *)
LEMMA BootClock ==
    ASSUME HealthInv, NEW n \in Node, Boot(n)
    PROVE  /\ clock' \in [Host -> Nat]
           /\ \A h \in Host \ {n} : clock'[h] = clock[h]
           /\ ~LateClock /\ n \in Host => \A r \in Copies(n) : r.version <= clock'[n]
<1> DEFINE Seen(h) == {clock[h]} \cup {r.version : r \in Copies(h)}
<1>1. clock' = [h \in Host |-> IF h = n /\ ~LateClock THEN Max(Seen(h)) ELSE clock[h]]
  BY DEF Boot
<1>2. ASSUME NEW h \in Host
      PROVE  /\ Max(Seen(h)) \in Nat
             /\ \A r \in Copies(h) : r.version <= Max(Seen(h))
  <2>1. clock[h] \in Nat
    BY DEF HealthInv, TypeOK
  <2>2. /\ \A r \in Copies(h) : r.version \in Seen(h)
        /\ Seen(h) \in SUBSET Int /\ Seen(h) \in SUBSET Nat /\ Seen(h) # {}
    <3>1. \A r \in Copies(h) : r.version \in Nat
      BY VersionsFinite
    <3>2. {r.version : r \in Copies(h)} \in SUBSET Nat
      BY <3>1
    <3>3. Seen(h) \in SUBSET Nat
      BY <2>1, <3>2
    <3> QED BY <3>3
  <2>3. IsFiniteSet(Seen(h))
    <3> DEFINE V == {r.version : r \in Copies(h)}
    <3>1. IsFiniteSet(V) /\ IsFiniteSet({clock[h]})
      BY VersionsFinite, FS_Singleton
    <3> HIDE DEF V
    <3>2. IsFiniteSet({clock[h]} \cup V)
      BY <3>1, FS_Union
    <3> QED BY <3>2 DEF V
  <2> HIDE DEF Seen
  <2>4. Max(Seen(h)) \in Seen(h) /\ \A x \in Seen(h) : Max(Seen(h)) >= x
    BY <2>2, <2>3, MaxFacts
  <2> QED BY <2>2, <2>4
<1>3. clock \in [Host -> Nat]
  BY DEF HealthInv, TypeOK
<1> HIDE DEF Seen
<1> QED BY <1>1, <1>2, <1>3

(* A daemon starts, with an empty table and an unset report.               *)
LEMMA BootKeeps ==
    ASSUME HealthInv, NEW n \in Node, Boot(n)
    PROVE  /\ HealthInv' /\ KeepsRows
           /\ \A h \in Node : Copies(h)' \subseteq Copies(h)
           /\ \A h \in Host : IF h = n THEN first_round'[h] /\ local_health'[h] = Unset
                              ELSE /\ first_round'[h] = first_round[h]
                                   /\ local_health'[h] = local_health[h]
<1>1. /\ running' = running \cup {n} /\ n \notin draining
      /\ boots' = [boots EXCEPT ![n] = @ + 1]
      /\ known_nodes' = [known_nodes EXCEPT ![n] = Nobody]
      /\ local_health' = [local_health EXCEPT ![n] = Unset]
      /\ failures' = [h \in Host |-> IF h = n THEN 0 ELSE failures[h]]
      /\ first_round' = [h \in Host |-> h = n \/ first_round[h]]
      /\ push' = [push EXCEPT ![n] = FALSE]
      /\ left' = [m \in Node |-> IF m = n THEN {} ELSE left[m] \ {n}]
      /\ UNCHANGED <<backend, waiting, owed, msgs, draining, flips>>
  BY DEF Boot, alive
<1>2. Unset \in Report
  BY DEF Unset, Report
<1>3. /\ known_nodes' \in [Node -> [Node -> Row \cup {None}]]
      /\ \A p, h \in Node : known_nodes'[p][h] \in {known_nodes[p][h], None}
  BY <1>1, NobodyType DEF HealthInv, TypeOK, Nobody
<1>4. /\ failures' \in [Host -> 0 .. UnhealthyAfter]
      /\ local_health' \in [Node -> Report] /\ push' \in [Node -> BOOLEAN]
      /\ left' \in [Node -> SUBSET Node] /\ boots' \in [Node -> Nat]
  <2>1. TypeOK /\ UnhealthyAfter \in Nat /\ 0 \in 0 .. UnhealthyAfter
    BY MembershipAssumption DEF HealthInv
  <2>2. failures' \in [Host -> 0 .. UnhealthyAfter]
    BY <1>1, <2>1 DEF TypeOK
  <2>3. local_health' \in [Node -> Report] /\ push' \in [Node -> BOOLEAN]
    BY <1>1, <1>2, <2>1 DEF TypeOK
  <2>4. left' \in [Node -> SUBSET Node]
    BY <1>1, <2>1 DEF TypeOK
  <2>5. boots' \in [Node -> Nat]
    <3>1. boots \in [Node -> Nat] /\ boots[n] + 1 \in Nat
      BY <2>1 DEF TypeOK
    <3> QED BY <1>1, <3>1
  <2> QED BY <2>2, <2>3, <2>4, <2>5
<1>5. first_round' \in [Host -> BOOLEAN]
  BY <1>1 DEF HealthInv, TypeOK
<1>6. HealthInv'
  BY <1>1, <1>3, <1>4, <1>5, BootClock DEF HealthInv, TypeOK
<1>7. KeepsRows
  BY <1>3 DEF KeepsRows
<1>8. ASSUME NEW h \in Node, NEW r \in Copies(h)'
      PROVE  r \in Copies(h)
  <2>1. \/ \E p \in Node : known_nodes'[p][h] # None /\ r = known_nodes'[p][h].health
        \/ \E m \in msgs : m.nodes[h] # None /\ r = m.nodes[h]
    BY <1>1 DEF Copies
  <2> QED BY <1>3, <2>1, CopyMembers
<1>9. \A h \in Host : IF h = n THEN first_round'[h] /\ local_health'[h] = Unset
                      ELSE /\ first_round'[h] = first_round[h]
                           /\ local_health'[h] = local_health[h]
  BY <1>1, MembershipAssumption DEF HealthInv, TypeOK
<1> QED BY <1>6, <1>7, <1>8, <1>9

(* The version of a new report is past the clock and the last version.     *)
LEMMA NextVersionFacts ==
    ASSUME NEW prev \in Nat, NEW now \in Nat
    PROVE  /\ NextVersion(prev, now) \in Nat
           /\ NextVersion(prev, now) >= now /\ NextVersion(prev, now) > prev
<1>1. NextVersion(prev, now) = IF now >= prev + 1 THEN now ELSE prev + 1
  BY DEF NextVersion, Max
<1> QED BY <1>1

(* The type of a count of failed probes.                                   *)
LEMMA RecordedType ==
    ASSUME HealthInv, NEW h \in Host
    PROVE  Recorded(h) \in 0 .. UnhealthyAfter
<1>1. failures[h] \in 0 .. UnhealthyAfter /\ UnhealthyAfter \in Nat
  BY MembershipAssumption DEF HealthInv, TypeOK
<1>2. Min({failures[h] + 1, UnhealthyAfter}) =
        IF failures[h] + 1 <= UnhealthyAfter THEN failures[h] + 1 ELSE UnhealthyAfter
  BY <1>1 DEF Min
<1> QED BY <1>1, <1>2 DEF Recorded

(* A round publishes a report of a version past the last one's and the     *)
(* clock's, or, unless it is the first, leaves the one it has.             *)
LEMMA RoundKeeps ==
    ASSUME HealthInv, NEW h \in Host, Round(h)
    PROVE  /\ HealthInv' /\ KeepsRows
           /\ \A g \in Node : Copies(g)' = Copies(g)
           /\ first_round' = [first_round EXCEPT ![h] = FALSE]
           /\ \/ /\ local_health'[h].version > local_health[h].version
                 /\ local_health'[h].version > clock[h]
              \/ ~first_round[h] /\ local_health' = local_health
           /\ \A g \in Host \ {h} : local_health'[g] = local_health[g] /\ clock'[g] = clock[g]
<1> DEFINE new == [version |-> NextVersion(local_health[h].version, clock[h] + 1),
                   down |-> Unhealthy(Recorded(h))]
<1>1. /\ failures' = [failures EXCEPT ![h] = Recorded(h)]
      /\ first_round' = [first_round EXCEPT ![h] = FALSE]
      /\ UNCHANGED <<known_nodes, waiting, owed, msgs, left, environment>>
  BY DEF Round
<1>2. \/ /\ clock' = [clock EXCEPT ![h] = clock[h] + 1]
         /\ local_health' = [local_health EXCEPT ![h] = new]
         /\ push' = [push EXCEPT ![h] = TRUE]
      \/ ~first_round[h] /\ UNCHANGED <<clock, local_health, push>>
  BY DEF Round, Changed
<1>3. h \in Node /\ local_health[h] \in Report /\ local_health[h].version \in Nat /\ clock[h] \in Nat
  BY MembershipAssumption DEF HealthInv, TypeOK, Report
<1>4. /\ new \in Report /\ new.version > local_health[h].version /\ new.version > clock[h]
  <2>1. /\ NextVersion(local_health[h].version, clock[h] + 1) \in Nat
        /\ NextVersion(local_health[h].version, clock[h] + 1) > clock[h]
        /\ NextVersion(local_health[h].version, clock[h] + 1) > local_health[h].version
    <3>1. clock[h] + 1 \in Nat
      BY <1>3
    <3>2. /\ NextVersion(local_health[h].version, clock[h] + 1) \in Nat
          /\ NextVersion(local_health[h].version, clock[h] + 1) >= clock[h] + 1
          /\ NextVersion(local_health[h].version, clock[h] + 1) > local_health[h].version
      BY <1>3, <3>1, NextVersionFacts
    <3> QED BY <1>3, <3>2
  <2>2. Unhealthy(Recorded(h)) \in BOOLEAN
    BY DEF Unhealthy
  <2>3. new \in Report
    BY <2>1, <2>2 DEF Report
  <2>4. new.version = NextVersion(local_health[h].version, clock[h] + 1)
    OBVIOUS
  <2> HIDE DEF new
  <2> QED BY <2>1, <2>3, <2>4
<1> HIDE DEF new
<1>5. /\ clock' \in [Host -> Nat] /\ local_health' \in [Node -> Report]
      /\ push' \in [Node -> BOOLEAN]
  <2>1. clock \in [Host -> Nat] /\ local_health \in [Node -> Report]
        /\ push \in [Node -> BOOLEAN]
    BY DEF HealthInv, TypeOK
  <2>2. clock[h] + 1 \in Nat
    BY <1>3
  <2>3. clock' = clock \/ clock' = [clock EXCEPT ![h] = clock[h] + 1]
    BY <1>2
  <2>4. local_health' = local_health \/ local_health' = [local_health EXCEPT ![h] = new]
    BY <1>2
  <2>5. push' = push \/ push' = [push EXCEPT ![h] = TRUE]
    BY <1>2
  <2>6. clock' \in [Host -> Nat]
    BY <2>1, <2>2, <2>3
  <2>7. local_health' \in [Node -> Report]
    BY <1>4, <2>1, <2>4
  <2>8. push' \in [Node -> BOOLEAN]
    BY <2>1, <2>5
  <2> QED BY <2>6, <2>7, <2>8
<1>6. failures' \in [Host -> 0 .. UnhealthyAfter] /\ first_round' \in [Host -> BOOLEAN]
  BY <1>1, RecordedType DEF HealthInv, TypeOK
<1>7. HealthInv'
  BY <1>1, <1>5, <1>6 DEF HealthInv, TypeOK, environment
<1>8. KeepsRows /\ \A g \in Node : Copies(g)' = Copies(g)
  BY <1>1, SameRows DEF Copies
<1>9. \A g \in Host \ {h} : local_health'[g] = local_health[g] /\ clock'[g] = clock[g]
  BY <1>2, MembershipAssumption DEF HealthInv, TypeOK
<1>10. \/ local_health'[h] = new
       \/ ~first_round[h] /\ local_health' = local_health
  BY <1>2, <1>3 DEF HealthInv, TypeOK
<1> QED BY <1>1, <1>4, <1>7, <1>8, <1>9, <1>10

-----------------------------------------------------------------------------
(* Every step keeps the types, and no row gets an older report.            *)
LEMMA HealthStep ==
    ASSUME HealthInv, [Next]_vars
    PROVE  HealthInv' /\ KeepsRows
<1>1. CASE UNCHANGED vars
  BY <1>1, SameRows DEF vars, HealthInv, TypeOK
<1>2. ASSUME NEW h \in Host, Flip(h) \/ ClockBack(h) \/ Round(h)
      PROVE  HealthInv' /\ KeepsRows
  BY <1>2, FlipKeeps, RoundKeeps
<1>3. ASSUME NEW n \in Node, Broadcast(n) \/ SyncTimeout(n) \/ Leave(n) \/ Kill(n) \/ Boot(n)
      PROVE  HealthInv' /\ KeepsRows
  BY <1>3, BroadcastKeeps, TimeoutKeeps, LeaveKeeps, KillKeeps, BootKeeps
<1>4. ASSUME NEW n \in Node, NEW m \in Node, SyncSend(n, m) \/ Reply(n, m) \/ GoStale(n, m)
      PROVE  HealthInv' /\ KeepsRows
  BY <1>4, SyncSendKeeps, ReplyKeeps, GoStaleKeeps
<1>5. ASSUME NEW n \in Node, NEW msg \in msgs,
             HandleSync(n, msg) \/ HandleReply(n, msg) \/ HandleLeave(n, msg)
      PROVE  HealthInv' /\ KeepsRows
  BY <1>5, HandleKeeps, HandleLeaveKeeps
<1>6. ASSUME NEW m \in msgs, LoseMessage(m)
      PROVE  HealthInv' /\ KeepsRows
  BY <1>6, LoseKeeps
<1> QED BY <1>1, <1>2, <1>3, <1>4, <1>5, <1>6 DEF Next

(* A step that relays reports and makes none keeps the hosts' own ones the *)
(* newest.                                                                 *)
LEMMA RelayNewest ==
    ASSUME HealthInv, NewestInv, OnlyRelays, UNCHANGED <<first_round, local_health>>,
           \A h \in Host : first_round[h] => clock'[h] = clock[h]
    PROVE  NewestInv'
<1> SUFFICES ASSUME NEW h \in Host, NEW r \in Copies(h)'
             PROVE  /\ first_round[h] => r.version <= clock[h]
                    /\ ~first_round[h] => \/ r.version < local_health[h].version
                                          \/ r = local_health[h]
  BY DEF NewestInv
<1>1. r \in Copies(h) \cup {local_health[h]}
  BY MembershipAssumption DEF OnlyRelays
<1>2. CASE r \in Copies(h)
  BY <1>2 DEF NewestInv
<1>3. CASE r = local_health[h]
  <2>1. clock[h] \in Nat
    BY DEF HealthInv, TypeOK
  <2>2. first_round[h] => local_health[h].version = 0
    BY DEF NewestInv, Unset
  <2> QED BY <1>3, <2>1, <2>2
<1> QED BY <1>1, <1>2, <1>3

(* So a new report is newer than every copy of an earlier one.             *)
LEMMA RoundNewest ==
    ASSUME HealthInv, NewestInv, NEW h \in Host, Round(h)
    PROVE  NewestInv'
<1>1. \A g \in Host : Copies(g)' = Copies(g)
  BY RoundKeeps, MembershipAssumption
<1>2. /\ first_round' = [first_round EXCEPT ![h] = FALSE]
      /\ \/ /\ local_health'[h].version > local_health[h].version
            /\ local_health'[h].version > clock[h]
         \/ ~first_round[h] /\ local_health' = local_health
      /\ \A g \in Host \ {h} : local_health'[g] = local_health[g] /\ clock'[g] = clock[g]
  BY RoundKeeps
<1>3. /\ ~first_round'[h] /\ \A g \in Host \ {h} : first_round'[g] = first_round[g]
  BY <1>2 DEF HealthInv, TypeOK
<1>4. ASSUME NEW r \in Copies(h)
      PROVE  r.version < local_health'[h].version \/ r = local_health'[h]
  <2>1. /\ r.version \in Nat /\ clock[h] \in Nat /\ local_health[h].version \in Nat
        /\ local_health'[h].version \in Nat
    BY VersionsFinite, RoundKeeps, MembershipAssumption DEF HealthInv, TypeOK, Report
  <2>2. \/ r.version <= clock[h] /\ first_round[h]
        \/ ~first_round[h] /\ (r.version < local_health[h].version \/ r = local_health[h])
    BY DEF NewestInv
  <2> QED BY <1>2, <2>1, <2>2
<1> QED BY <1>1, <1>2, <1>3, <1>4 DEF NewestInv

(* With a clock that has passed what was published, a start keeps this so. *)
LEMMA BootNewest ==
    ASSUME HealthInv, NewestInv, ~LateClock, NEW n \in Node, Boot(n)
    PROVE  NewestInv'
<1> SUFFICES ASSUME NEW h \in Host
             PROVE  /\ first_round'[h] => /\ local_health'[h] = Unset
                                          /\ \A r \in Copies(h)' : r.version <= clock'[h]
                    /\ ~first_round'[h] =>
                          \A r \in Copies(h)' : \/ r.version < local_health'[h].version
                                                \/ r = local_health'[h]
  BY DEF NewestInv
<1>1. Copies(h)' \subseteq Copies(h)
  BY BootKeeps, MembershipAssumption
<1>2. CASE h = n
  BY <1>1, <1>2, BootKeeps, BootClock
<1>3. CASE h # n
  <2>1. /\ first_round'[h] = first_round[h] /\ local_health'[h] = local_health[h]
        /\ clock'[h] = clock[h]
    BY <1>3, BootKeeps, BootClock
  <2> QED BY <1>1, <2>1 DEF NewestInv
<1> QED BY <1>2, <1>3

(* Every step keeps NewestInv.                                             *)
LEMMA NewestStep ==
    ASSUME HealthInv, NewestInv, ~LateClock, [Next]_vars
    PROVE  NewestInv'
<1>1. CASE UNCHANGED vars
  BY <1>1 DEF vars, NewestInv, Copies
<1>2. ASSUME NEW h \in Host, Flip(h) \/ ClockBack(h)
      PROVE  NewestInv'
  BY <1>2, FlipKeeps, RelayNewest
<1>3. ASSUME NEW h \in Host, Round(h)
      PROVE  NewestInv'
  BY <1>3, RoundNewest
<1>4. ASSUME NEW n \in Node, Boot(n)
      PROVE  NewestInv'
  BY <1>4, BootNewest
<1>5. ASSUME NEW n \in Node, Broadcast(n) \/ SyncTimeout(n)
      PROVE  NewestInv'
  BY <1>5, BroadcastKeeps, TimeoutKeeps, RelayNewest DEF Broadcast, SyncTimeout, checker
<1>6. ASSUME NEW n \in Node, Leave(n) \/ Kill(n)
      PROVE  NewestInv'
  BY <1>6, LeaveKeeps, KillKeeps, RelayNewest
<1>7. ASSUME NEW n \in Node, NEW m \in Node, SyncSend(n, m) \/ Reply(n, m) \/ GoStale(n, m)
      PROVE  NewestInv'
  <2>1. UNCHANGED checker
    BY <1>7 DEF SyncSend, Reply, GoStale
  <2> QED BY <1>7, <2>1, SyncSendKeeps, ReplyKeeps, GoStaleKeeps, RelayNewest DEF checker
<1>8. ASSUME NEW n \in Node, NEW msg \in msgs,
             HandleSync(n, msg) \/ HandleReply(n, msg) \/ HandleLeave(n, msg)
      PROVE  NewestInv'
  <2>1. UNCHANGED checker
    BY <1>8 DEF HandleSync, HandleReply, HandleLeave
  <2> QED BY <1>8, <2>1, HandleKeeps, HandleLeaveKeeps, RelayNewest DEF checker
<1>9. ASSUME NEW m \in msgs, LoseMessage(m)
      PROVE  NewestInv'
  BY <1>9, LoseKeeps, RelayNewest DEF LoseMessage, checker
<1> QED BY <1>1, <1>2, <1>3, <1>4, <1>5, <1>6, <1>7, <1>8, <1>9 DEF Next

(* Both invariants hold initially.                                         *)
LEMMA HealthInit == Init => HealthInv /\ NewestInv
<1> SUFFICES ASSUME Init PROVE HealthInv /\ NewestInv
  OBVIOUS
<1>1. Unset \in Report /\ waiting \in [Node -> Node \cup {None}]
  BY DEF Unset, Report, Init, Nobody
<1>2. known_nodes \in [Node -> [Node -> Row \cup {None}]] /\ local_health \in [Node -> Report]
  BY <1>1, NobodyType DEF Init
<1>3. HealthInv
  BY <1>1, <1>2, MembershipAssumption, FS_EmptySet DEF Init, HealthInv, TypeOK
<1>4. \A h \in Host : Copies(h) = {}
  BY MembershipAssumption DEF Copies, Init, Nobody
<1>5. NewestInv
  BY <1>4, MembershipAssumption DEF Init, NewestInv
<1> QED BY <1>3, <1>5

(* HealthInv holds always.                                                 *)
LEMMA HealthInvariant == Spec => []HealthInv
BY HealthInit, HealthStep, PTL DEF Spec

(* "A relayed copy never overwrites a fresher one", for any number of      *)
(* daemons, messages, losses, restarts and clock steps: merge_health keeps *)
(* the report it has or takes one of a higher version.                     *)
THEOREM RelayedCopiesAreNotOlder == Spec => HealthNeverGoesBack
<1>1. ASSUME HealthInv, HealthInv', KeepsRows, NEW n \in Node, NEW h \in Node,
             known_nodes[n][h] # None, known_nodes'[n][h] # None
      PROVE  LET old == known_nodes[n][h].health
                 new == known_nodes'[n][h].health
             IN  /\ new.version >= old.version
                 /\ new.version = old.version => new = old
  <2>1. known_nodes[n][h] \in Row /\ known_nodes'[n][h] \in Row
    BY <1>1 DEF HealthInv, TypeOK
  <2>2. known_nodes[n][h].health.version \in Nat /\ known_nodes'[n][h].health.version \in Nat
    <3>1. \A r \in Row : r.health.version \in Nat
      BY DEF Row, Report
    <3> QED BY <2>1, <3>1
  <2>3. \/ known_nodes'[n][h].health = known_nodes[n][h].health
        \/ known_nodes'[n][h].health.version > known_nodes[n][h].health.version
    BY <1>1 DEF KeepsRows
  <2> QED BY <2>2, <2>3
<1>2. HealthInv /\ HealthInv' /\ KeepsRows =>
        [\A n, h \in Node :
          known_nodes[n][h] # None /\ known_nodes'[n][h] # None /\ boots'[n] = boots[n] =>
              LET old == known_nodes[n][h].health
                  new == known_nodes'[n][h].health
              IN  /\ new.version >= old.version
                  /\ new.version = old.version => new = old]_vars
  BY <1>1
<1> QED BY <1>2, HealthInvariant, HealthStep, PTL DEF Spec, HealthNeverGoesBack

(* A host's first report after a restart is newer than everything its      *)
(* peers hold or relay, and so is every later one, although the clock may  *)
(* be set back in between: next_version takes the larger of the time and   *)
(* the last version plus one.  The clock must not be behind the reports of *)
(* an earlier run when the daemon starts.                                  *)
THEOREM FirstReportReplaces ==
    ASSUME ~LateClock
    PROVE  Spec => []OwnReportIsNewest
<1>1. NewestInv => OwnReportIsNewest
  BY DEF NewestInv, OwnReportIsNewest
<1>2. HealthInv /\ NewestInv /\ [Next]_vars => HealthInv' /\ NewestInv'
  BY HealthStep, NewestStep
<1>3. Spec => [](HealthInv /\ NewestInv)
  BY <1>2, HealthInit, PTL DEF Spec
<1> QED BY <1>1, <1>3, PTL
=============================================================================
