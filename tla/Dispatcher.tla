----------------------------- MODULE Dispatcher -----------------------------
(***************************************************************************)
(* The topology refresher of the proxy (src/proxy/dispatcher.go): sessions *)
(* call TriggerReloadSlots, the goroutine slotsReloadLoop waits on         *)
(* slotReloadChan or a periodic timer, reloads the topology from a startup *)
(* node (reloadTopology, doReload), and hands it over the unbuffered       *)
(* slotInfoChan to Run, which installs it under the dispatcher lock        *)
(* (handleSlotInfoChanged).  The cluster is a map from slot ranges to a    *)
(* master and its replicas, with a set of failed nodes; the environment    *)
(* fails nodes over, fails them and brings them back.  A request routed by *)
(* a table that names a wrong master or a failed node gets -MOVED or a     *)
(* transport error, and the session then calls TriggerReloadSlots.         *)
(***************************************************************************)
EXTENDS Naturals

CONSTANTS
    Nodes,         \* the cluster's nodes, by endpoint
    Slots,         \* slot ranges, each served by one master
    StartupNodes,  \* the startup nodes reloadTopology asks
    ReadPrefer,    \* d.readPrefer: "MASTER", "SLAVE" or "SLAVE_IDC"
    LocalNodes,    \* nodes whose endpoint starts with the proxy's first two
                   \* IPv4 octets (strings.HasPrefix(node, localIPPrefix))
    NodesBusPort,  \* TRUE iff CLUSTER NODES prints ip:port@cport, as every
                   \* Valkey and Redis >= 4.0 server does
    InitTopo,      \* the topology when the proxy starts
    MaxChanges,    \* topology changes of the cluster (bound)
    MaxTriggers,   \* calls of TriggerReloadSlots (bound)
    ReloadCanFail  \* TRUE iff a reload may fail on I/O with a node up

\* What CLUSTER SLOTS says of a slot range: its master and its replicas.
SlotRange == [write : Nodes, replicas : SUBSET Nodes]

\* A SlotInfo after doReload: the write endpoint and the read endpoints.
SlotInfo == [write : Nodes, read : SUBSET Nodes]

ASSUME DispatcherAssumption ==
    /\ StartupNodes \subseteq Nodes
    /\ ReadPrefer \in {"MASTER", "SLAVE", "SLAVE_IDC"}
    /\ LocalNodes \subseteq Nodes
    /\ NodesBusPort \in BOOLEAN
    /\ InitTopo \in [Slots -> SlotRange]
    /\ \A s \in Slots : InitTopo[s].write \notin InitTopo[s].replicas
    /\ MaxChanges \in Nat
    /\ MaxTriggers \in Nat
    /\ ReloadCanFail \in BOOLEAN

VARIABLES
    topo,        \* the cluster's slot ranges
    failed,      \* nodes the cluster flags "fail"
    changes,     \* topology changes so far
    table,       \* d.slotTable: [Slots -> SlotInfo]
    signal,      \* slotReloadChan (capacity 1) holds a value
    tickFired,   \* the one value of time.After(slotReloadInterval) was taken
    loop,        \* slotsReloadLoop: "range", "select", "publish"
    fetched,     \* the SlotInfos a reload fetched, waiting on slotInfoChan
    triggers     \* calls of TriggerReloadSlots so far

vars == <<topo, failed, changes, table, signal, tickFired, loop, fetched,
          triggers>>

-----------------------------------------------------------------------------
(* doReload *)

\* How a node is named in si.read: "ip:port", from CLUSTER SLOTS.
Endpoint(n) == [host |-> n, busPort |-> FALSE]

\* elements[1] of n's CLUSTER NODES line: "ip:port", or "ip:port@cport".
NodesField(n) == [host |-> n, busPort |-> NodesBusPort]

\* aliveNodes: the address field of every line whose flags lack "fail".
AliveNodes(fl) == {NodesField(n) : n \in Nodes \ fl}

\* Mutant of ReadNodes: the aliveNodes test is left out.
ReadNodesNoAlive(r, fl) ==
    LET kept == {n \in r.replicas :
                   ReadPrefer = "SLAVE_IDC" => n \in LocalNodes}
    IN  IF ReadPrefer = "MASTER" \/ kept = {} THEN {r.write} ELSE kept

\* The read-preference rewrite of one SlotInfo: the master alone, or the
\* replicas found in aliveNodes (and, for SLAVE_IDC, with the local
\* prefix), falling back to the master when none is left.
ReadNodes(r, fl) ==
    LET kept == {n \in r.replicas :
                   /\ Endpoint(n) \in AliveNodes(fl)
                   /\ ReadPrefer = "SLAVE_IDC" => n \in LocalNodes}
    IN  IF ReadPrefer = "MASTER" \/ kept = {} THEN {r.write} ELSE kept

\* doReload against a reachable node: NewSlotInfo for every range of
\* CLUSTER SLOTS (read = its replicas), filtered with CLUSTER NODES.
DoReload(tp, fl) ==
    [s \in Slots |-> [write |-> tp[s].write, read |-> ReadNodes(tp[s], fl)]]

-----------------------------------------------------------------------------

\* The cluster fails slot range s over to its replica r.
Failover(s, r) ==
    /\ changes < MaxChanges
    /\ r \in topo[s].replicas \ failed
    /\ topo' = [topo EXCEPT ![s] = [write |-> r,
                                   replicas |-> (@.replicas \ {r})
                                                \cup {@.write}]]
    /\ changes' = changes + 1
    /\ UNCHANGED <<failed, table, signal, tickFired, loop, fetched, triggers>>

\* A node is flagged "fail", or comes back.
NodeFlip(n) ==
    /\ changes < MaxChanges
    /\ failed' = IF n \in failed THEN failed \ {n} ELSE failed \cup {n}
    /\ changes' = changes + 1
    /\ UNCHANGED <<topo, table, signal, tickFired, loop, fetched, triggers>>

\* The table sends some request to a node that is no longer the master of
\* its slot (-MOVED) or that is down (a transport error).
Stale ==
    \E s \in Slots :
        \/ table[s].write # topo[s].write
        \/ (table[s].read \cup {table[s].write}) \cap failed # {}

\* handleResp calls TriggerReloadSlots, which never blocks: with a signal
\* already pending, the call is dropped.
TriggerReloadSlots ==
    /\ Stale
    /\ triggers < MaxTriggers
    /\ triggers' = triggers + 1
    /\ signal' = TRUE
    /\ UNCHANGED <<topo, failed, changes, table, tickFired, loop, fetched>>

\* for range time.After(d.slotReloadInterval): the channel yields one value,
\* once; afterwards the range waits forever.
LoopTick ==
    /\ loop = "range"
    /\ ~tickFired
    /\ tickFired' = TRUE
    /\ loop' = "select"
    /\ UNCHANGED <<topo, failed, changes, table, signal, fetched, triggers>>

\* reloadTopology: tries the startup nodes in random order and keeps the
\* first doReload that succeeds; a failed node cannot be dialed.  When
\* every node fails, the error is logged and the loop goes round again.
ReloadTopology ==
    \/ /\ \E n \in StartupNodes : n \notin failed
       /\ fetched' = DoReload(topo, failed)
       /\ loop' = "publish"
    \/ /\ StartupNodes \subseteq failed \/ ReloadCanFail
       /\ loop' = "range"
       /\ UNCHANGED fetched

\* The select of slotsReloadLoop: a pending signal, or the periodic timer
\* (60 s) when no signal came meanwhile.
SelectSignal ==
    /\ loop = "select"
    /\ signal
    /\ signal' = FALSE
    /\ ReloadTopology
    /\ UNCHANGED <<topo, failed, changes, table, tickFired, triggers>>

SelectPeriodic ==
    /\ loop = "select"
    /\ ~signal
    /\ ReloadTopology
    /\ UNCHANGED <<topo, failed, changes, table, signal, tickFired, triggers>>

\* d.slotInfoChan <- slotInfos, received by Run, which calls
\* handleSlotInfoChanged: SetSlotInfo for every SlotInfo and
\* backendServerPool.Reload, under d.lock.
Install ==
    /\ loop = "publish"
    /\ table' = fetched
    /\ loop' = "range"
    /\ UNCHANGED <<topo, failed, changes, signal, tickFired, fetched,
                   triggers>>

-----------------------------------------------------------------------------

\* InitSlotTable has installed the topology of the healthy cluster.
Init ==
    /\ topo = InitTopo
    /\ failed = {}
    /\ changes = 0
    /\ table = DoReload(InitTopo, {})
    /\ signal = FALSE
    /\ tickFired = FALSE
    /\ loop = "range"
    /\ fetched = table
    /\ triggers = 0

Next ==
    \/ \E s \in Slots, r \in Nodes : Failover(s, r)
    \/ \E n \in Nodes : NodeFlip(n)
    \/ TriggerReloadSlots
    \/ LoopTick
    \/ SelectSignal
    \/ SelectPeriodic
    \/ Install

\* The refresher goroutine, its timers and Run are scheduled fairly.
Fairness ==
    /\ WF_vars(LoopTick)
    /\ WF_vars(SelectSignal)
    /\ WF_vars(SelectPeriodic)
    /\ WF_vars(Install)

Spec == Init /\ [][Next]_vars
FairSpec == Spec /\ Fairness

-----------------------------------------------------------------------------
(* Properties *)

TypeOK ==
    /\ topo \in [Slots -> SlotRange]
    /\ failed \subseteq Nodes
    /\ changes \in 0..MaxChanges
    /\ table \in [Slots -> SlotInfo]
    /\ signal \in BOOLEAN
    /\ tickFired \in BOOLEAN
    /\ loop \in {"range", "select", "publish"}
    /\ fetched \in [Slots -> SlotInfo]
    /\ triggers \in 0..MaxTriggers

ReadClosure ==
    [][loop # "publish" /\ loop' = "publish" =>
         \A s \in Slots :
             /\ fetched'[s].read # {}
             /\ (fetched'[s].read \ {fetched'[s].write}) \cap failed = {}]_vars

\* Section 4.1, read-preference rewrite: with PreferSlave (SameIdc) a
\* reload keeps the alive replicas of a range (with the local prefix), and
\* only a range with none left reads from its master.
PreferredReads(r, fl) ==
    LET eligible == {n \in r.replicas \ fl :
                       ReadPrefer = "SLAVE_IDC" => n \in LocalNodes}
    IN  IF ReadPrefer = "MASTER" \/ eligible = {} THEN {r.write}
        ELSE eligible

ReadsPreferReplicas ==
    [][loop # "publish" /\ loop' = "publish" =>
         \A s \in Slots : fetched'[s].read = PreferredReads(topo[s], failed)]_vars

=============================================================================
