-------------------------- MODULE MemgraphAdapter --------------------------
(* One Cypher query per method, in a session of its own.  Relationships of  *)
(* add_edges carry their ends as properties ("ends"), those of add_edge do  *)
(* not ("bare").                                                            *)
EXTENDS GraphStore

AddNode(c) == Request(c, "add_node", WithNodes(NewNodes(c, call[c].ids)))

AddNodes(c) == Request(c, "add_nodes", WithNodes(NewNodes(c, call[c].ids)))

\* {{id: $node_id}} stands in a string that is no f-string: not Cypher.
DeleteNode(c) == At(c, "delete_node", "start") /\ Ends(c, "error") /\ UNCHANGED <<server, memo>>

DeleteNodes(c) == Request(c, "delete_nodes", WithoutNodes(call[c].ids))

\* MERGE finds any relationship of the type.
AddEdge(c) ==
    Request(c, "add_edge", WithEdges({Edge(t, "bare") : t \in Linkable(call[c].ids) \ Triples}))

\* MERGE finds only a relationship with the ends among its properties.  A
\* query for each type, awaited one after the other.
AddEdges(c) ==
    \/ /\ At(c, "add_edges", "start")
       /\ GotoWith(c, "group", {t[2] : t \in call[c].ids})
       /\ UNCHANGED <<server, memo>>
    \/ /\ At(c, "add_edges", "group")
       /\ \E label \in call[c].todo :
            /\ server' = WithEdges({Edge(t, "ends") : t \in {x \in Linkable(call[c].ids) : x[2] = label}})
            /\ IF call[c].todo = {label} THEN Ends(c, "ok") ELSE GotoWith(c, "group", call[c].todo \ {label})
       /\ UNCHANGED memo

\* The braces of an f-string around id: nid: Python raises before any query.
RemoveConnectionToPredecessorsOf(c) ==
    At(c, "cut_predecessors", "start") /\ Ends(c, "error") /\ UNCHANGED <<server, memo>>

\* Looks for nodes whose label is the text of Python's function id.
RemoveConnectionToSuccessorsOf(c) == Request(c, "cut_successors", server)

DeleteGraph(c) == Request(c, "delete_graph", EmptyGraph)

Next(c) ==
    \/ AddNode(c) \/ AddNodes(c) \/ DeleteNode(c) \/ DeleteNodes(c) \/ AddEdge(c) \/ AddEdges(c)
    \/ RemoveConnectionToPredecessorsOf(c) \/ RemoveConnectionToSuccessorsOf(c) \/ DeleteGraph(c)

Fails(c) == Raises(c)

HasNode(i) == i \in NodeIds

ExtractNodes(ids) == ids \cap NodeIds

GetNodes(ids) == {n.id : n \in Named(ids)}

HasEdge(t) == t \in Triples

\* id(a) is the number the database gave the node, never the id of a data
\* point: no row.
HasEdges(ts) == {}

GetEdges(i) == {Seen(i, e) : e \in Incident({i})}

LargestComponent ==
    CHOOSE l \in {Component(i) : i \in NodeIds} :
        \A i \in NodeIds : Cardinality(Component(i)) <= Cardinality(l)

GetDisconnectedNodes == IF NodeIds = {} THEN {} ELSE NodeIds \ LargestComponent

GetPredecessors(i, types) == {e.from : e \in {x \in OfTypes(types, server.edges) : x.to = i}}

GetSuccessors(i, types) == {e.to : e \in {x \in OfTypes(types, server.edges) : x.from = i}}

GetNeighbors(i) == GetPredecessors(i, {}) \cup GetSuccessors(i, {})

\* MATCH path = (seed)-[*0..depth]-(n)
GetNeighborhood(ids, depth, types) ==
    LET edges == OfTypes(types, server.edges)
        reached == Reached(ids \cap NodeIds, depth, edges)
    IN  [nodes |-> reached, edges |-> {Triple(e) : e \in Among(reached, edges)}]

GetConnections(i) == {Triple(e) : e \in Incident({i})}

GetGraphData == Subgraph(NodeIds)

\* A bare relationship has no source_node_id: KeyError.
GetNodesetSubgraph(names, op) ==
    LET primary == SetNodes(names)
        found == primary \cup SetNeighbours(primary, op)
        graph == UnlessUnrelated(Subgraph(found))
    IN  IF op = "AND" /\ SetNeighbours(primary, op) = {} THEN NoGraph
        ELSE IF \E e \in Among(found, server.edges) : e.copy = "bare" THEN Raised
        ELSE graph

GetFilteredGraphData(ids) == Subgraph(ids)

\* Without MAGE: union-find over the edges, here one merge of two sets per edge.
Merge(partition, e) ==
    LET two == {p \in partition : e.from \in p \/ e.to \in p}
    IN  (partition \ two) \cup {UNION two}

ConnectedComponents ==
    LET merged[edges \in SUBSET server.edges] ==
          IF edges = {} THEN {{i} : i \in NodeIds}
          ELSE LET e == CHOOSE x \in edges : TRUE IN Merge(merged[edges \ {e}], e)
    IN  merged[server.edges]

GetGraphMetrics == [counts |-> Counts, components |-> Sizes(ConnectedComponents)]

IsEmpty == server.nodes = {}

Reads == Answers(GetNodes, HasEdges, GetEdges, GetNeighbors, GetConnections, GetNeighborhood,
                 GetGraphData, GetNodesetSubgraph, GetFilteredGraphData, GetGraphMetrics, IsEmpty)
=============================================================================
