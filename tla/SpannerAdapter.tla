--------------------------- MODULE SpannerAdapter ---------------------------
(* Two tables; every write is a transaction that runs in a thread.  The key *)
(* of an edge is a new uuid, and nothing ties its ends to rows of the nodes. *)
EXTENDS GraphStore

\* Inserts, and updates in a second transaction if the node exists: by then
\* it may be gone, and the update finds nothing.
AddNode(c) ==
    \/ /\ At(c, "add_node", "start")
       /\ IF call[c].ids \cap NodeIds = {}
          THEN server' = WithNodes(NewNodes(c, call[c].ids)) /\ Ends(c, "ok")
          ELSE UNCHANGED server /\ Goto(c, "update")
       /\ UNCHANGED memo
    \/ /\ At(c, "add_node", "update")
       /\ server' = WithNodes(NewNodes(c, call[c].ids \cap NodeIds))
       /\ Ends(c, "ok")
       /\ UNCHANGED memo

\* Inserts only: one node that exists fails the whole batch.
AddNodes(c) ==
    /\ At(c, "add_nodes", "start")
    /\ IF call[c].ids \cap NodeIds = {}
       THEN server' = WithNodes(NewNodes(c, call[c].ids)) /\ Ends(c, "ok")
       ELSE UNCHANGED server /\ Ends(c, "exists")
    /\ UNCHANGED memo

DeleteNode(c) == Request(c, "delete_node", WithoutNodes(call[c].ids))

\* A transaction for each node
DeleteNodes(c) ==
    \/ /\ At(c, "delete_nodes", "start")
       /\ GotoWith(c, "node", call[c].ids)
       /\ UNCHANGED <<server, memo>>
    \/ /\ At(c, "delete_nodes", "node")
       /\ \E i \in call[c].todo :
            /\ server' = WithoutNodes({i})
            /\ IF call[c].todo = {i} THEN Ends(c, "ok") ELSE GotoWith(c, "node", call[c].todo \ {i})
       /\ UNCHANGED memo

AddEdge(c) == Request(c, "add_edge", WithEdges({Further(t) : t \in call[c].ids}))

AddEdges(c) == Request(c, "add_edges", WithEdges({Further(t) : t \in call[c].ids}))

DeleteGraph(c) == Request(c, "delete_graph", EmptyGraph)

Next(c) ==
    \/ AddNode(c) \/ AddNodes(c) \/ DeleteNode(c) \/ DeleteNodes(c) \/ AddEdge(c) \/ AddEdges(c)
    \/ DeleteGraph(c)

Fails(c) == Raises(c)

GetNode(i) == Named({i})

GetNodes(ids) == {n.id : n \in UNION {GetNode(i) : i \in ids}}

HasEdge(t) == t \in Triples

HasEdges(ts) == {t \in ts : HasEdge(t)}

GetEdges(i) == {Triple(e) : e \in Incident({i})}

GetNeighbors(i) == GetNodes({IF t[1] = i THEN t[3] ELSE t[1] : t \in GetEdges(i)})

\* Breadth first, with get_edges of every node of the frontier
GetNeighborhood(ids, depth, types) ==
    LET reachable == Reached(ids, depth, OfTypes(types, server.edges))
    IN  [nodes |-> GetNodes(reachable),
         edges |-> {t \in UNION {GetEdges(i) : i \in reachable} :
                      {t[1], t[3]} \subseteq reachable /\ (types = {} \/ t[2] \in types)}]

GetGraphData == [nodes |-> NodeIds, edges |-> Triples]

IsEmpty == server.nodes = {}

GetFilteredGraphData(ids) == Subgraph(ids)

\* Depth first; the missing end of an edge is in a component, too.
GetGraphMetrics ==
    LET ends == UNION {{e.from, e.to} : e \in server.edges}
    IN  [counts |-> Counts, components |-> Sizes({Component(i) : i \in NodeIds \cup ends})]

\* The neighbours of the named sets are those outside them.
GetNodesetSubgraph(names, op) ==
    LET primary == SetNodes(names)
        links(i) == {p \in primary : \E e \in server.edges : {e.from, e.to} = {i, p}}
        ends == UNION {{e.from, e.to} : e \in server.edges}
        neighbours == {i \in ends \ primary : IF op = "AND" THEN links(i) = primary ELSE links(i) # {}}
        all == primary \cup neighbours
    IN  IF primary = {} THEN NoGraph
        ELSE [nodes |-> all \cap NodeIds, edges |-> {Triple(e) : e \in Among(all, server.edges)}]

GetConnections(i) ==
    {x \in {Seen(i, e) : e \in Incident({i})} : {x[1], x[3]} \subseteq NodeIds}

Reads == Answers(GetNodes, HasEdges, GetEdges, GetNeighbors, GetConnections, GetNeighborhood,
                 GetGraphData, GetNodesetSubgraph, GetFilteredGraphData, GetGraphMetrics, IsEmpty)
=============================================================================
