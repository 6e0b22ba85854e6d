-------------------------- MODULE DispatcherProofs --------------------------
(***************************************************************************)
(* Proofs about the topology refresher, for every value of the constants   *)
(* that satisfies DispatcherAssumption: its state stays well typed, and    *)
(* every SlotInfo a reload publishes reads from some node and from no      *)
(* replica the cluster flagged failed (ReadClosure).                       *)
(*                                                                         *)
(* ReadClosure needs no invariant: a step into "publish" is a reload,      *)
(* whose SlotInfos doReload builds from the cluster as it is, and the read *)
(* set of each is either the master alone or replicas that the aliveNodes  *)
(* filter matched.  An endpoint of CLUSTER SLOTS ("ip:port") equals the    *)
(* address field of a CLUSTER NODES line only for the same node and only   *)
(* when that field carries no bus port, so a kept replica is never a       *)
(* failed node.                                                            *)
(***************************************************************************)
EXTENDS Dispatcher, TLAPS

-----------------------------------------------------------------------------
(* Lemmas on doReload *)

\* A replica kept by the read-preference rewrite was in aliveNodes: it is
\* not flagged failed.
LEMMA AliveNotFailed ==
    ASSUME NEW fl, NEW n, Endpoint(n) \in AliveNodes(fl)
    PROVE  n \notin fl
<1>1. PICK m \in Nodes \ fl : NodesField(m) = Endpoint(n)
  BY DEF AliveNodes
<1>2. m = n
  BY <1>1 DEF NodesField, Endpoint
<1>3. QED
  BY <1>1, <1>2

\* The reads of a SlotInfo: never empty, and beyond the master only nodes
\* outside fl.
LEMMA ReadNodesClosed ==
    ASSUME NEW r, NEW fl
    PROVE  /\ ReadNodes(r, fl) # {}
           /\ (ReadNodes(r, fl) \ {r.write}) \cap fl = {}
<1> DEFINE kept == {n \in r.replicas :
                       /\ Endpoint(n) \in AliveNodes(fl)
                       /\ ReadPrefer = "SLAVE_IDC" => n \in LocalNodes}
<1>1. \A n \in kept : n \notin fl
  BY AliveNotFailed
<1>2. CASE ReadPrefer = "MASTER" \/ kept = {}
  BY <1>2 DEF ReadNodes
<1>3. CASE ~(ReadPrefer = "MASTER" \/ kept = {})
  BY <1>1, <1>3 DEF ReadNodes
<1>4. QED
  BY <1>2, <1>3

\* doReload yields a SlotInfo for every range of a well-typed cluster.
LEMMA DoReloadType ==
    ASSUME NEW tp \in [Slots -> SlotRange], NEW fl
    PROVE  DoReload(tp, fl) \in [Slots -> SlotInfo]
<1>1. \A s \in Slots : ReadNodes(tp[s], fl) \subseteq Nodes
  BY DEF ReadNodes, SlotRange
<1>2. QED
  BY <1>1 DEF DoReload, SlotInfo, SlotRange

-----------------------------------------------------------------------------
(* The theorems *)

LEMMA InitType ==
    Init => TypeOK
<1> SUFFICES ASSUME Init PROVE TypeOK
  OBVIOUS
<1>1. InitTopo \in [Slots -> SlotRange]
  BY DispatcherAssumption
<1>2. DoReload(InitTopo, {}) \in [Slots -> SlotInfo]
  BY <1>1, DoReloadType
<1>3. table \in [Slots -> SlotInfo] /\ fetched \in [Slots -> SlotInfo]
  BY <1>2 DEF Init
<1>4. changes \in 0..MaxChanges /\ triggers \in 0..MaxTriggers
  BY DispatcherAssumption DEF Init
<1>5. QED
  BY <1>1, <1>3, <1>4 DEF Init, TypeOK

\* A fail-over makes a replica the master and the old master a replica.
LEMMA FailoverType ==
    ASSUME TypeOK, NEW s \in Slots, NEW r \in Nodes, Failover(s, r)
    PROVE  TypeOK'
<1>1. topo' \in [Slots -> SlotRange]
  BY DEF Failover, TypeOK, SlotRange
<1>2. QED
  BY <1>1, DispatcherAssumption DEF Failover, TypeOK

\* A reload, by either case of the select, publishes well-typed SlotInfos
\* or goes round the loop again.
LEMMA ReloadType ==
    ASSUME TypeOK, ReloadTopology
    PROVE  /\ fetched' \in [Slots -> SlotInfo]
           /\ loop' \in {"range", "select", "publish"}
<1>1. DoReload(topo, failed) \in [Slots -> SlotInfo]
  BY DoReloadType DEF TypeOK
<1>2. QED
  BY <1>1 DEF ReloadTopology, TypeOK

LEMMA NextType ==
    TypeOK /\ [Next]_vars => TypeOK'
<1> SUFFICES ASSUME TypeOK, [Next]_vars PROVE TypeOK'
  OBVIOUS
<1>1. CASE \E s \in Slots, r \in Nodes : Failover(s, r)
  BY <1>1, FailoverType
<1>2. CASE \E n \in Nodes : NodeFlip(n)
  BY <1>2, DispatcherAssumption DEF NodeFlip, TypeOK
<1>3. CASE TriggerReloadSlots
  BY <1>3, DispatcherAssumption DEF TriggerReloadSlots, TypeOK
<1>4. CASE LoopTick \/ Install
  BY <1>4 DEF LoopTick, Install, TypeOK
<1>5. CASE SelectSignal \/ SelectPeriodic
  BY <1>5, ReloadType DEF SelectSignal, SelectPeriodic, TypeOK
<1>6. CASE UNCHANGED vars
  BY <1>6 DEF vars, TypeOK
<1>7. QED
  BY <1>1, <1>2, <1>3, <1>4, <1>5, <1>6 DEF Next

\* The refresher's state stays well typed: the table Run installs is a
\* SlotInfo for every slot range, and the bounded counters stay in range.
THEOREM TypeCorrect ==
    Spec => []TypeOK
BY InitType, NextType, PTL DEF Spec

\* Read-preference closure (doReload, section 8 of the specification): every
\* step of slotsReloadLoop that publishes a reload hands Run, for each slot
\* range, a SlotInfo that reads from at least one node and from no replica
\* that CLUSTER NODES flagged failed.
THEOREM ReadsClosed ==
    Spec => ReadClosure
<1>1. ASSUME [Next]_vars, loop # "publish", loop' = "publish"
      PROVE  \A s \in Slots :
                /\ fetched'[s].read # {}
                /\ (fetched'[s].read \ {fetched'[s].write}) \cap failed = {}
  <2>1. fetched' = DoReload(topo, failed)
    BY <1>1 DEF Next, Failover, NodeFlip, TriggerReloadSlots, LoopTick,
                SelectSignal, SelectPeriodic, ReloadTopology, Install, vars
  <2>2. QED
    BY <2>1, ReadNodesClosed DEF DoReload
<1>2. QED
  BY <1>1, PTL DEF Spec, ReadClosure
====
