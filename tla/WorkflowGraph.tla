---------------------------- MODULE WorkflowGraph ----------------------------
(***************************************************************************)
(* The static graph of a workflow: crates/adk-agents/src/workflow_graph.rs *)
(* and workflow_graph_validation.rs.  The graph is a constant of the       *)
(* engine: it is built and validated once, in Workflow::new, and never     *)
(* changes afterwards.  Edges are a sequence because their order decides   *)
(* the order in which triggers are buffered.                               *)
(***************************************************************************)
EXTENDS Naturals, FiniteSets, Sequences

CONSTANTS
    Nodes,       \* names of the nodes other than START
    START,       \* the sentinel entry node, never executed
    DEFAULT,     \* the "__DEFAULT__" route tag
    RouteTags,   \* the other route tags that occur in the graph
    Edges        \* sequence of [from, to, tags], tags = {} for an untagged edge

AllNodes == Nodes \cup {START}

Edge == [from : AllNodes, to : AllNodes, tags : SUBSET (RouteTags \cup {DEFAULT})]

ASSUME GraphShape ==
    /\ START \notin Nodes
    /\ DEFAULT \notin RouteTags
    /\ IsFiniteSet(Nodes)
    /\ Edges \in Seq(Edge)

EdgeSet == {Edges[i] : i \in 1 .. Len(Edges)}

OutEdges(n) == {e \in EdgeSet : e.from = n}

Predecessors(n) == {e.from : e \in {d \in EdgeSet : d.to = n}}

(* Nodes with no outgoing edge (compute_terminal_nodes).                   *)
TerminalNodes == {n \in Nodes : OutEdges(n) = {}}

IsDefault(e) == e.tags = {DEFAULT}

(* An edge is followed when it carries no tag, or carries one of the       *)
(* emitted routes; a DEFAULT edge is never matched directly.               *)
Matches(e, routes) == ~IsDefault(e) /\ e.tags \cap routes # {}

Follows(e, routes) == e.tags = {} \/ Matches(e, routes)

(* Graph::get_next_pending_nodes, as the indices of the edges followed:    *)
(* every followed edge, and the DEFAULT edge when no tagged edge matched.  *)
NextEdges(n, routes) ==
    {i \in DOMAIN Edges :
        /\ Edges[i].from = n
        /\ \/ Follows(Edges[i], routes)
           \/ /\ IsDefault(Edges[i])
              /\ ~\E e \in OutEdges(n) : Matches(e, routes)}

NextPendingNodes(n, routes) == {Edges[i].to : i \in NextEdges(n, routes)}

(* The place of target m in the list the code returns: edge order, with    *)
(* the DEFAULT target appended last.                                       *)
Place(n, m) ==
    LET i == CHOOSE j \in DOMAIN Edges : Edges[j].from = n /\ Edges[j].to = m
    IN  IF IsDefault(Edges[i]) THEN Len(Edges) + 1 ELSE i

-----------------------------------------------------------------------------
(* validate_graph.  A graph that fails one of these is rejected before a   *)
(* workflow exists, so every run of the engine assumes ValidGraph.  Two    *)
(* checks are vacuous here: node names are unique because Nodes is a set,  *)
(* and an edge carries no schema.                                          *)

(* validate_start_node and the last check of validate_connectivity: START  *)
(* occurs in the graph, and only as the source of edges.                   *)
StartIsEntry == OutEdges(START) # {} /\ \A e \in EdgeSet : e.to # START

(* validate_start_edges.                                                   *)
StartIsUnconditional == \A e \in OutEdges(START) : e.tags = {}

Step(S) == S \cup {e.to : e \in {d \in EdgeSet : d.from \in S}}

(* validate_connectivity: what |Nodes| + 1 rounds of the search reach.     *)
Reachable ==
    LET reach[k \in Nat] == IF k = 0 THEN {START} ELSE Step(reach[k - 1])
    IN  reach[Cardinality(Nodes) + 1]

(* validate_duplicate_edges: one edge at most from one node to another.    *)
EdgesAreUnique ==
    \A i, j \in 1 .. Len(Edges) :
        Edges[i].from = Edges[j].from /\ Edges[i].to = Edges[j].to => i = j

(* validate_default_routes: DEFAULT stands alone on its edge, and a node   *)
(* has one DEFAULT edge at most.                                           *)
DefaultIsExclusive ==
    /\ \A e \in EdgeSet : DEFAULT \in e.tags => IsDefault(e)
    /\ \A n \in AllNodes : Cardinality({e \in OutEdges(n) : IsDefault(e)}) <= 1

(* detect_unconditional_cycles: no cycle made of untagged edges only.  The *)
(* peeling keeps the nodes that still have an untagged edge into the rest; *)
(* what survives |Nodes| + 1 rounds lies on, or leads into, a cycle.       *)
HasUnconditionalCycle ==
    LET leadsInto(S) == {n \in S : \E e \in OutEdges(n) : e.tags = {} /\ e.to \in S}
        peel[k \in Nat] == IF k = 0 THEN AllNodes ELSE leadsInto(peel[k - 1])
    IN  peel[Cardinality(Nodes) + 1] # {}

ValidGraph ==
    /\ StartIsEntry /\ StartIsUnconditional
    /\ Reachable = AllNodes
    /\ EdgesAreUnique /\ DefaultIsExclusive
    /\ ~HasUnconditionalCycle
=============================================================================
