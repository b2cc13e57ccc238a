----------------------- MODULE ArcadeDBGraphAdapter ------------------------
(* The graph package for ArcadeDB over Bolt: one query per method, in a     *)
(* session of its own.  As with Memgraph, relationships of add_edges carry  *)
(* their ends as properties ("ends"), those of add_edge do not ("bare").    *)
EXTENDS GraphStore

AddNode(c) == Request(c, "add_node", WithNodes(NewNodes(c, call[c].ids)))

AddNodes(c) == Request(c, "add_nodes", WithNodes(NewNodes(c, call[c].ids)))

DeleteNode(c) == Request(c, "delete_node", WithoutNodes(call[c].ids))

DeleteNodes(c) == Request(c, "delete_nodes", WithoutNodes(call[c].ids))

AddEdge(c) ==
    Request(c, "add_edge", WithEdges({Edge(t, "bare") : t \in Linkable(call[c].ids) \ Triples}))

AddEdges(c) ==
    \/ /\ At(c, "add_edges", "start")
       /\ GotoWith(c, "group", {t[2] : t \in call[c].ids})
       /\ UNCHANGED <<server, memo>>
    \/ /\ At(c, "add_edges", "group")
       /\ \E label \in call[c].todo :
            /\ server' = WithEdges({Edge(t, "ends") : t \in {x \in Linkable(call[c].ids) : x[2] = label}})
            /\ IF call[c].todo = {label} THEN Ends(c, "ok") ELSE GotoWith(c, "group", call[c].todo \ {label})
       /\ UNCHANGED memo

Without(gone) == [server EXCEPT !.edges = @ \ gone]

\* The arrows of the two queries point away from predecessors and successors.
RemoveConnectionToPredecessorsOf(c) ==
    Request(c, "cut_predecessors", Without({e \in server.edges : e.from \in call[c].ids /\ e.label = call[c].coll}))

RemoveConnectionToSuccessorsOf(c) ==
    Request(c, "cut_successors", Without({e \in server.edges : e.to \in call[c].ids /\ e.label = call[c].coll}))

DeleteGraph(c) == Request(c, "delete_graph", EmptyGraph)

Next(c) ==
    \/ AddNode(c) \/ AddNodes(c) \/ DeleteNode(c) \/ DeleteNodes(c) \/ AddEdge(c) \/ AddEdges(c)
    \/ RemoveConnectionToPredecessorsOf(c) \/ RemoveConnectionToSuccessorsOf(c) \/ DeleteGraph(c)

Fails(c) == Raises(c)

HasNode(i) == i \in NodeIds

ExtractNodes(ids) == ids \cap NodeIds

GetNodes(ids) == {n.id : n \in Named(ids)}

HasEdge(t) == t \in Triples

\* Only rows of edges that exist, each with the answer TRUE alone.
HasEdges(ts) == {HasEdge(t) : t \in ts \cap Triples}

GetEdges(i) == {Seen(i, e) : e \in Incident({i})}

GetDisconnectedNodes == {i \in NodeIds : Incident({i}) = {}}

GetPredecessors(i, types) == {e.from : e \in {x \in OfTypes(types, server.edges) : x.to = i}}

GetSuccessors(i, types) == {e.to : e \in {x \in OfTypes(types, server.edges) : x.from = i}}

GetNeighbors(i) == GetPredecessors(i, {}) \cup GetSuccessors(i, {})

GetConnections(i) == {Triple(e) : e \in Incident({i})}

GetGraphData == Subgraph(NodeIds)

\* A bare relationship has no source_node_id: KeyError.
GetNeighborhood(ids, depth, types) ==
    LET edges == OfTypes(types, server.edges)
        all == ids \cup Reached(ids \cap NodeIds, depth, edges)
    IN  IF \E e \in Among(all, edges) : e.copy = "bare" THEN Raised
        ELSE [nodes |-> GetNodes(all), edges |-> {Triple(e) : e \in Among(all, edges)}]

\* MATCH by a label no MERGE of this adapter gives a node
GetNodesetSubgraph(names, op) == NoGraph

GetFilteredGraphData(ids) == Subgraph(ids)

\* All the nodes count as one component.
GetGraphMetrics == [counts |-> Counts, components |-> Sizes({NodeIds} \ {{}})]

IsEmpty == server.nodes = {}

Reads == Answers(GetNodes, HasEdges, GetEdges, GetNeighbors, GetConnections, GetNeighborhood,
                 GetGraphData, GetNodesetSubgraph, GetFilteredGraphData, GetGraphMetrics, IsEmpty)
=============================================================================
