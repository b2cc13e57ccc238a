---------------------- MODULE TurbopufferGraphAdapter ----------------------
(* Two namespaces, one of nodes and one of edges, with no transaction over  *)
(* both.  The id of an edge is a uuid5 of its ends and label.               *)
EXTENDS GraphStore

IsEmpty == server.nodes = {}

\* Nodes, then edges; an error of either is logged, and the call returns.
DeleteGraph(c) ==
    \/ /\ At(c, "delete_graph", "start")
       /\ server' = [server EXCEPT !.nodes = {}]
       /\ Goto(c, "edges")
       /\ UNCHANGED memo
    \/ /\ At(c, "delete_graph", "edges")
       /\ server' = [server EXCEPT !.edges = {}]
       /\ Ends(c, "ok")
       /\ UNCHANGED memo

AddNode(c) == Request(c, "add_node", WithNodes(NewNodes(c, call[c].ids)))

AddNodes(c) == Request(c, "add_nodes", WithNodes(NewNodes(c, call[c].ids)))

\* Reads the names of the ends for the rows of the edges.  An end that is no
\* node has none, and the edge is written all the same.
AddEdges(c, op) ==
    \/ At(c, op, "start") /\ Goto(c, "write") /\ UNCHANGED <<server, memo>>
    \/ /\ At(c, op, "write")
       /\ server' = WithEdges({Edge(t, 1) : t \in call[c].ids})
       /\ Ends(c, "ok")
       /\ UNCHANGED memo

\* Nodes first; then the edges found to touch them.
DeleteNodes(c, op) ==
    \/ /\ At(c, op, "start")
       /\ server' = [server EXCEPT !.nodes = @ \ Named(call[c].ids)]
       /\ Goto(c, "find")
       /\ UNCHANGED memo
    \/ /\ At(c, op, "find")
       /\ IF Incident(call[c].ids) = {} THEN Ends(c, "ok")
          ELSE GotoWith(c, "edges", Incident(call[c].ids))
       /\ UNCHANGED <<server, memo>>
    \/ /\ At(c, op, "edges")
       /\ server' = [server EXCEPT !.edges = @ \ call[c].todo]
       /\ Ends(c, "ok")
       /\ UNCHANGED memo

\* Writes back the rows it has read without the tag: a row written or deleted
\* in between is as it was again.  coll is the tag; no ids stand for all.
RemoveBelongsToSetTags(c) ==
    LET tag == call[c].coll
        scope == IF call[c].ids = {} THEN NodeIds ELSE call[c].ids
        tagged == {n \in Named(scope) : tag \in n.sets}
        stale == {n.id : n \in {x \in call[c].todo : \A m \in server.nodes : [m EXCEPT !.sets = @ \ {tag}] # x}}
    IN  \/ /\ At(c, "remove_tags", "start")
           /\ GotoWith(c, "write", {[n EXCEPT !.sets = @ \ {tag}] : n \in tagged})
           /\ UNCHANGED <<server, memo>>
        \/ /\ At(c, "remove_tags", "write")
           /\ server' = WithNodes(call[c].todo)
           /\ call' = [call EXCEPT ![c].pc = "sets"]
           /\ untold' = untold \cup {NodeMark(i, rev) : i \in stale, rev \in {0} \cup Revisions}
                                  \cup {TagMark(i, x) : i \in stale, x \in Sets \ {tag}}
           /\ UNCHANGED <<memo, lock, busy, due>>
        \/ /\ At(c, "remove_tags", "sets")   \* the NodeSet nodes of the tag
           /\ IF SetNodes({tag}) = {} THEN Ends(c, "ok") ELSE GotoWith(c, "find", SetNodes({tag}))
           /\ UNCHANGED <<server, memo>>
        \/ /\ At(c, "remove_tags", "find")
           /\ GotoWith(c, "edges", {e \in server.edges : /\ e.label = SetLabel
                                                         /\ e.to \in call[c].todo
                                                         /\ e.from \in scope \/ call[c].ids = {}})
           /\ UNCHANGED <<server, memo>>
        \/ /\ At(c, "remove_tags", "edges")
           /\ server' = [server EXCEPT !.edges = @ \ call[c].todo]
           /\ Ends(c, "ok")
           /\ UNCHANGED memo

Next(c) ==
    \/ AddNode(c) \/ AddNodes(c) \/ AddEdges(c, "add_edge") \/ AddEdges(c, "add_edges")
    \/ DeleteNodes(c, "delete_node") \/ DeleteNodes(c, "delete_nodes")
    \/ RemoveBelongsToSetTags(c) \/ DeleteGraph(c)

Fails(c) ==
    \/ call[c].op # "delete_graph" /\ Raises(c)
    \/ /\ At(c, "delete_graph", "start")
       /\ call' = [call EXCEPT ![c].pc = "edges"]
       /\ untold' = untold \cup FoundIn(c, "node")
       /\ UNCHANGED <<server, memo, lock, busy, due>>
    \/ At(c, "delete_graph", "edges") /\ EndsUntold(c, FoundIn(c, "edge")) /\ UNCHANGED <<server, memo>>

GetNodes(ids) == {n.id : n \in Named(ids)}

HasEdges(ts) == ts \cap Triples

EdgesTouching(ids) == {Triple(e) : e \in Incident(ids)}

GetEdges(i) == EdgesTouching({i})

\* Ends that are no nodes have an answer, too, from the row of the edge.
GetNeighbors(i) == {IF t[1] = i THEN t[3] ELSE t[1] : t \in EdgesTouching({i})}

GetConnections(i) == EdgesTouching({i})

\* One hop, and only edges that touch the nodes asked for
GetNeighborhood(ids, depth, types) ==
    LET edges == {t \in EdgesTouching(ids) : types = {} \/ t[2] \in types}
        ends == UNION {{t[1], t[3]} : t \in edges}
    IN  IF depth # 1 THEN Raised ELSE [nodes |-> ends \cup GetNodes(ids), edges |-> edges]

\* Without nodes, no edges
GetGraphData == IF IsEmpty THEN NoGraph ELSE [nodes |-> NodeIds, edges |-> Triples]

GetFilteredGraphData(ids) == Subgraph(ids)

GetNodesetSubgraph(names, op) ==
    LET primary == SetNodes(names)
        ends == UNION {{t[1], t[3]} : t \in EdgesTouching(primary)}
        links(i) == {p \in primary : i \in Adjacent(p)}
        neighbours == {i \in ends \ primary :
                         op = "AND" => Cardinality(links(i)) = Cardinality(primary)}
        all == primary \cup neighbours
    IN  IF primary = {} THEN NoGraph
        ELSE [nodes |-> GetNodes(all),
              edges |-> {t \in EdgesTouching(all) : {t[1], t[3]} \subseteq all}]

\* num_connected_components is -1, the sizes an empty list.
GetGraphMetrics ==
    [counts |-> [nodes |-> Cardinality(NodeIds),
                 edges |-> IF IsEmpty THEN 0 ELSE Cardinality(server.edges)],
     components |-> {}]

Reads == Answers(GetNodes, HasEdges, GetEdges, GetNeighbors, GetConnections, GetNeighborhood,
                 GetGraphData, GetNodesetSubgraph, GetFilteredGraphData, GetGraphMetrics, IsEmpty)
=============================================================================
