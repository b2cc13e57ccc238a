-------------------------- MODULE TuringDBAdapter --------------------------
(* The driver is synchronous: a method never yields to the event loop, and  *)
(* only the engines of other processes run between its requests.  Writes of *)
(* a method go into one change, which takes effect when it is submitted.    *)
(* The constructor of the first engine leaves a node of its own, "seed", in *)
(* a new graph: one of the nodes of the graph the calls start from.         *)
EXTENDS GraphStore

RunInChange(c, effect) == server' = effect /\ Ends(c, "ok") /\ UNCHANGED memo

Grown(new) == [server EXCEPT !.nodes = @ \cup new]

\* A node that exists is left as it is.
AddNode(c) ==
    \/ /\ At(c, "add_node", "start")
       /\ IF call[c].ids \subseteq NodeIds THEN Ends(c, "ok") ELSE GoOnTo(c, "create", call[c].ids)
       /\ UNCHANGED <<server, memo>>
    \/ At(c, "add_node", "create") /\ RunInChange(c, Grown(NewNodes(c, call[c].todo)))

\* The look-ups of a batch, a query for each node, are one step.
AddNodes(c) ==
    \/ /\ At(c, "add_nodes", "start")
       /\ IF call[c].ids \subseteq NodeIds THEN Ends(c, "ok")
          ELSE GoOnTo(c, "create", call[c].ids \ NodeIds)
       /\ UNCHANGED <<server, memo>>
    \/ At(c, "add_nodes", "create") /\ RunInChange(c, Grown(NewNodes(c, call[c].todo)))

DeleteNode(c) == At(c, "delete_node", "start") /\ RunInChange(c, WithoutNodes(call[c].ids))

DeleteNodes(c) == At(c, "delete_nodes", "start") /\ RunInChange(c, WithoutNodes(call[c].ids))

\* CREATE, whether or not there is such an edge.
AddEdge(c) ==
    /\ At(c, "add_edge", "start")
    /\ RunInChange(c, WithEdges({Further(t) : t \in Linkable(call[c].ids)}))

AddEdges(c) ==
    /\ At(c, "add_edges", "start")
    /\ RunInChange(c, WithEdges({Further(t) : t \in Linkable(call[c].ids)}))

IsEmpty == server.nodes = {}

DeleteGraph(c) ==
    \/ /\ At(c, "delete_graph", "start")
       /\ IF IsEmpty THEN Ends(c, "ok") ELSE GoOnTo(c, "delete", {})
       /\ UNCHANGED <<server, memo>>
    \/ At(c, "delete_graph", "delete") /\ RunInChange(c, EmptyGraph)

Next(c) ==
    \/ AddNode(c) \/ AddNodes(c) \/ DeleteNode(c) \/ DeleteNodes(c) \/ AddEdge(c) \/ AddEdges(c)
    \/ DeleteGraph(c)

\* A change that is not submitted has no effect.
Fails(c) == Raises(c)

GetNodes(ids) == ids \cap NodeIds

HasEdge(t) == t \in Triples

HasEdges(ts) == IF server.edges = {} THEN {} ELSE {t \in ts : HasEdge(t)}

GetEdges(i) == {Triple(e) : e \in Incident({i})}

GetNeighbors(i) == Adjacent(i)

\* Breadth first, with get_edges of every node of the frontier
GetNeighborhood(ids, depth, types) ==
    LET visited == Reached(ids, depth, OfTypes(types, server.edges))
    IN  IF IsEmpty THEN NoGraph
        ELSE [nodes |-> GetNodes(visited),
              edges |-> {t \in UNION {GetEdges(i) : i \in visited} :
                           {t[1], t[3]} \subseteq visited /\ (types = {} \/ t[2] \in types)}]

\* Ignores the operator.  MATCH (a)-[r]-(b) finds an edge from both ends,
\* and the answer has it in both directions.
GetNodesetSubgraph(names, op) ==
    LET primary == SetNodes(names)
        found == UNION {{i} \cup Adjacent(i) : i \in {j \in primary : Adjacent(j) # {}}}
        graph == UnlessUnrelated(Subgraph(found))
    IN  [graph EXCEPT !.edges = @ \cup {<<t[3], t[2], t[1]>> : t \in @}]

\* The node asked for comes first, also where the edge leads to it.
GetConnections(i) == {Seen(i, e) : e \in Incident({i})}

GetFilteredGraphData(ids) == Subgraph(ids)

GetGraphData == Subgraph(NodeIds)

\* Depth first from every node not yet visited
GetGraphMetrics == [counts |-> Counts, components |-> Sizes({Component(i) : i \in NodeIds})]

Reads == Answers(GetNodes, HasEdges, GetEdges, GetNeighbors, GetConnections, GetNeighborhood,
                 GetGraphData, GetNodesetSubgraph, GetFilteredGraphData, GetGraphMetrics, IsEmpty)
=============================================================================
