-------------------------- MODULE NodeTableProofs --------------------------
(***************************************************************************)
(* The node table keeps its types, for any nodes, addresses and bounds:    *)
(* a probe's answer is always written to an entry of the table, a stale    *)
(* one too.                                                                *)
(***************************************************************************)
EXTENDS NodeTable, TLAPS

LEMMA TableInitTypes == ASSUME TableInit PROVE TableTypeOK
BY NodesAssumption, NodeTableAssumption
   DEF TableInit, TableTypeOK, NodeInfo, Unknown, Down, Phases

\* The steps of edge nodes and of the health checker keep the table's types.
LEMMA TableTypes ==
  ASSUME TableTypeOK, TableNext PROVE TableTypeOK'
<1> USE NodesAssumption, NodeTableAssumption DEF TableTypeOK, Phases
<1>1. ASSUME NEW n \in Nodes, NEW a \in Addrs, StartNode(n, a) PROVE TableTypeOK'
  BY <1>1 DEF StartNode
<1>2. ASSUME NEW n \in Nodes, NEW a \in Addrs, LoseRegistration(n, a) PROVE TableTypeOK'
  BY <1>2 DEF LoseRegistration
<1>3. ASSUME NEW n \in Nodes, Listen(n) \/ Drain(n) PROVE TableTypeOK'
  BY <1>3 DEF Listen, Drain
<1>4. ASSUME NEW n \in Nodes, StopNode(n) PROVE TableTypeOK'
  BY <1>4 DEF StopNode, Down
<1>5. ASSUME NEW n \in Nodes, NEW a \in Addrs, RegisterNode(n, a) PROVE TableTypeOK'
  BY <1>5 DEF RegisterNode, NodeInfo
<1>6. ASSUME NEW n \in Nodes, NEW a \in Addrs, Probe(n, a) PROVE TableTypeOK'
  <2>1. probe' \in ProbeAnswer
    <3>1. ASSUME NEW load \in 0 .. MaxLoad,
                 probe' = [node |-> n, address |-> a, ok |-> TRUE, active_tasks |-> load]
          PROVE  probe' \in ProbeAnswer
      <4>1. load \in Nat
        BY NodeTableAssumption
      <4>2. QED
        BY <3>1, <4>1 DEF ProbeAnswer
    <3>2. CASE probe' = [node |-> n, address |-> a, ok |-> FALSE, active_tasks |-> 0]
      BY <3>2 DEF ProbeAnswer
    <3>3. QED
      BY <1>6, <3>1, <3>2 DEF Probe
  <2>2. QED
    BY <1>6, <2>1 DEF Probe
<1>7. CASE StartRound
  BY <1>7 DEF StartRound, Registered, NodeInfo
<1>8. CASE ApplyProbe
  BY <1>8 DEF ApplyProbe, NodeInfo, ProbeAnswer
<1>9. CASE RestartControlPlane
  BY <1>9 DEF RestartControlPlane, Unknown, NodeInfo
<1>10. QED
  BY <1>1, <1>2, <1>3, <1>4, <1>5, <1>6, <1>7, <1>8, <1>9 DEF TableNext, EdgeNext

\* The type invariant holds in every reachable state.
THEOREM TableSafety == TableSpec => []TableTypeOK
<1>1. TableInit => TableTypeOK
  BY TableInitTypes
<1>2. TableTypeOK /\ [TableNext]_tableVars => TableTypeOK'
  <2>1. TableTypeOK /\ TableNext => TableTypeOK'
    BY TableTypes
  <2>2. TableTypeOK /\ UNCHANGED tableVars => TableTypeOK'
    BY DEF tableVars, TableTypeOK
  <2> QED
    BY <2>1, <2>2
<1> QED
  BY <1>1, <1>2, PTL DEF TableSpec

-----------------------------------------------------------------------------
(* Stale answers *)

\* Every node of the snapshot and the node of the answer in hand have an
\* entry, and an id without an entry has no health and no load.
ProbesFindEntries ==
    /\ \A p \in round : p[1] \in Registered(nodes)
    /\ probe # NoProbe => probe.node \in Registered(nodes)
    /\ \A n \in Nodes \ Registered(nodes) : nodes[n] = Unknown

LEMMA ProbesStep ==
  ASSUME TableTypeOK, ProbesFindEntries, TableNext PROVE ProbesFindEntries'
<1> USE NodesAssumption DEF TableTypeOK, ProbesFindEntries, Registered
<1>1. ASSUME NEW n \in Nodes, NEW a \in Addrs, StartNode(n, a) \/ LoseRegistration(n, a)
      PROVE  ProbesFindEntries'
  BY <1>1 DEF StartNode, LoseRegistration
<1>2. ASSUME NEW n \in Nodes, Listen(n) \/ Drain(n) \/ StopNode(n)
      PROVE  ProbesFindEntries'
  BY <1>2 DEF Listen, Drain, StopNode
<1>3. ASSUME NEW n \in Nodes, NEW a \in Addrs, RegisterNode(n, a) PROVE ProbesFindEntries'
  <2>1. /\ nodes'[n].address = a /\ a # None
        /\ \A m \in Nodes \ {n} : nodes'[m] = nodes[m]
    BY <1>3 DEF RegisterNode
  <2>2. Registered(nodes) \subseteq Registered(nodes')
    BY <2>1
  <2> QED
    BY <1>3, <2>1, <2>2 DEF RegisterNode
<1>4. ASSUME NEW n \in Nodes, NEW a \in Addrs, Probe(n, a) PROVE ProbesFindEntries'
  <2>1. probe'.node = n /\ round' \subseteq round /\ <<n, a>> \in round /\ nodes' = nodes
    BY <1>4 DEF Probe
  <2> QED
    BY <2>1
<1>5. CASE StartRound
  BY <1>5 DEF StartRound
<1>6. CASE ApplyProbe
  <2>1. probe.node \in Registered(nodes)
    BY <1>6 DEF ApplyProbe
  <2>2. \A m \in Nodes : nodes'[m].address = nodes[m].address
    BY <1>6 DEF ApplyProbe, NodeInfo
  <2>3. \A m \in Nodes \ {probe.node} : nodes'[m] = nodes[m]
    BY <1>6 DEF ApplyProbe
  <2> QED
    BY <1>6, <2>1, <2>2, <2>3 DEF ApplyProbe
<1>7. CASE RestartControlPlane
  BY <1>7 DEF RestartControlPlane, Unknown
<1> QED
  BY <1>1, <1>2, <1>3, <1>4, <1>5, <1>6, <1>7 DEF TableNext, EdgeNext

\* get_mut in check_all_nodes never misses: however old an answer is, the
\* node it is about still has an entry, registrations, failed nodes and
\* restarts of the control plane notwithstanding, and no answer makes an
\* entry up.
THEOREM TableProbesFindEntries == TableSpec => []ProbesFindEntries
<1>1. TableInit => TableTypeOK /\ ProbesFindEntries
  <2> SUFFICES ASSUME TableInit PROVE ProbesFindEntries
    BY TableInitTypes
  <2>1. \A n \in Nodes : n \in Running \/ nodes[n] = Unknown
    BY DEF TableInit
  <2>2. \A n \in Running : nodes[n].address = Home[n] /\ Home[n] # None
    BY NodesAssumption, NodeTableAssumption DEF TableInit
  <2> QED
    BY <2>1, <2>2, NodeTableAssumption DEF TableInit, ProbesFindEntries, Registered
<1>2. TableTypeOK /\ ProbesFindEntries /\ [TableNext]_tableVars
      => (TableTypeOK /\ ProbesFindEntries)'
  <2>1. CASE TableNext
    BY <2>1, TableTypes, ProbesStep
  <2>2. CASE UNCHANGED tableVars
    BY <2>2 DEF tableVars, TableTypeOK, ProbesFindEntries, Registered
  <2> QED
    BY <2>1, <2>2
<1> QED
  BY <1>1, <1>2, PTL DEF TableSpec

=============================================================================
