--------------------------- MODULE FalkorAdapter ---------------------------
(* Graph and vectors in one graph of FalkorDB.  The client is synchronous:  *)
(* only the embedding of data points is awaited.  A vector is a property    *)
(* of its node; create is create_vector_index, for a node type and field.   *)
(* Nodes that the MERGE of an edge makes have no label and revision 0;      *)
(* relationships have their ends as properties if the caller gives them,    *)
(* as cognee does for add_edges ("ends") and not for add_edge ("bare").     *)
EXTENDS GraphStore

Labelled == {n \in server.nodes : n.rev # 0}

\* MERGE (node:Label {id: ...}) finds no node without the label.
Merged(c, i) ==
    [server EXCEPT !.nodes = {n \in @ : n.id # i \/ n.rev = 0} \cup NewNodes(c, {i})]

\* MERGE of both ends, whatever their labels, and of the relationship
MergedEdges(triples, copy) ==
    LET bare == {i \in UNION {{t[1], t[3]} : t \in triples} : i \notin NodeIds}
    IN  [server EXCEPT
            !.nodes = @ \cup {[id |-> i, rev |-> 0, sets |-> {}] : i \in bare},
            !.edges = IF copy = "bare" THEN @ \cup {Edge(t, "bare") : t \in triples \ Triples}
                      ELSE {e \in @ : Triple(e) \notin triples} \cup {Edge(t, copy) : t \in triples}]

\* Looks for the index, then makes it: the later of two engines raises.
CreateVectorIndex(c) ==
    \/ /\ At(c, "create", "start")
       /\ IF call[c].coll \in server.ready THEN Ends(c, "ok") ELSE GoOnTo(c, "make", {})
       /\ UNCHANGED <<server, memo>>
    \/ /\ At(c, "create", "make")
       /\ server' = WithColl(call[c].coll)
       /\ Ends(c, IF call[c].coll \in server.ready THEN "exists" ELSE "ok")
       /\ UNCHANGED memo

\* create_data_point_query indexes the dictionary of the vectors by position:
\* KeyError, before the first query, for points with a field to embed.
CreateDataPoints(c) ==
    \/ At(c, "put", "start") /\ Goto(c, "query") /\ UNCHANGED <<server, memo>>
    \/ At(c, "put", "query") /\ Ends(c, "error") /\ UNCHANGED <<server, memo>>

AddNode(c) ==
    /\ At(c, "add_node", "start")
    /\ \E i \in call[c].ids : server' = Merged(c, i)
    /\ Ends(c, "ok")
    /\ UNCHANGED memo

\* Embeds all the nodes, then writes one after the other.
AddNodes(c) ==
    \/ At(c, "add_nodes", "start") /\ GotoWith(c, "node", call[c].ids) /\ UNCHANGED <<server, memo>>
    \/ /\ At(c, "add_nodes", "node")
       /\ \E i \in call[c].todo :
            /\ server' = Merged(c, i)
            /\ IF call[c].todo = {i} THEN Ends(c, "ok") ELSE GoOnTo(c, "node", call[c].todo \ {i})
       /\ UNCHANGED memo

AddEdge(c) == Request(c, "add_edge", MergedEdges(call[c].ids, "bare"))

\* A query for each type.
AddEdges(c) ==
    \/ /\ At(c, "add_edges", "start")
       /\ GoOnTo(c, "group", {t[2] : t \in call[c].ids})
       /\ UNCHANGED <<server, memo>>
    \/ /\ At(c, "add_edges", "group")
       /\ \E label \in call[c].todo :
            /\ server' = MergedEdges({t \in call[c].ids : t[2] = label}, "ends")
            /\ IF call[c].todo = {label} THEN Ends(c, "ok") ELSE GoOnTo(c, "group", call[c].todo \ {label})
       /\ UNCHANGED memo

\* The collection is not looked at.
DeleteDataPoints(c) == Request(c, "delete", WithoutNodes(call[c].ids))

DeleteNode(c) == Request(c, "delete_node", WithoutNodes(call[c].ids))

DeleteNodes(c) ==
    \/ At(c, "delete_nodes", "start") /\ GoOnTo(c, "node", call[c].ids) /\ UNCHANGED <<server, memo>>
    \/ /\ At(c, "delete_nodes", "node")
       /\ \E i \in call[c].todo :
            /\ server' = WithoutNodes({i})
            /\ IF call[c].todo = {i} THEN Ends(c, "ok") ELSE GoOnTo(c, "node", call[c].todo \ {i})
       /\ UNCHANGED memo

\* Drops the indexes, then the graph.  An index another engine has dropped
\* ends the call, which returns as if the graph were gone.
DeleteGraph(c) ==
    \/ /\ call[c].op \in {"delete_graph", "prune"} /\ call[c].pc = "start"
       /\ GoOnTo(c, "drop", server.ready)
       /\ UNCHANGED <<server, memo>>
    \/ /\ call[c].pc = "drop" /\ call[c].todo = {}
       /\ server' = [EmptyGraph EXCEPT !.colls = {}, !.ready = {}]
       /\ Ends(c, "ok")
       /\ UNCHANGED memo
    \/ /\ call[c].pc = "drop"
       /\ \E k \in call[c].todo :
            IF k \in server.ready THEN server' = Dropped(k) /\ GoOnTo(c, "drop", call[c].todo \ {k})
            ELSE UNCHANGED server /\ EndsUntold(c, call[c].found)
       /\ UNCHANGED memo

Next(c) ==
    \/ CreateVectorIndex(c) \/ CreateDataPoints(c) \/ DeleteDataPoints(c)
    \/ AddNode(c) \/ AddNodes(c) \/ AddEdge(c) \/ AddEdges(c)
    \/ DeleteNode(c) \/ DeleteNodes(c) \/ DeleteGraph(c)

\* delete_graph prints what its requests raise, and returns.
Fails(c) ==
    \/ call[c].pc # "drop" /\ Raises(c)
    \/ call[c].pc = "drop" /\ EndsUntold(c, call[c].found) /\ UNCHANGED <<server, memo>>

----------------------------------------------------------------------------
\* Asks for a graph of the collection's name: there is none.
HasCollection(e, k) == FALSE

\* Whatever the collection, and nodes without a label, too.
Retrieve(e, k, ids) == Hits(AsPoints(e, Named(ids)))

\* The node sets are looked at after the nearest have been found.
Search(e, k, names, op) ==
    LET labelled == {p \in AsPoints(e, Labelled) : p.coll = k}
        nearest == Nearest(Cardinality(labelled), labelled)
    IN  IF k \notin server.ready THEN Raised
        ELSE Hits(CASE names = {} -> nearest
                    [] op = "AND" -> AllOf(names, nearest)
                    [] OTHER -> AnyOf(names, nearest))

BatchSearch(e, k, names, op) == Search(e, k, names, op)

VectorReads(e) ==
    VectorAnswers(e, {k \in Collections : HasCollection(e, k)}, Retrieve, Search, BatchSearch)

GetNodes(ids) == {n.id : n \in Named(ids)}

HasEdge(t) == t \in Triples

HasEdges(ts) == {t \in ts : HasEdge(t)}

GetEdges(i) == {Seen(i, e) : e \in Incident({i})}

GetNeighbors(i) == Adjacent(i)

GetConnections(i) ==
    {Triple(e) : e \in {x \in server.edges : x.to = i}} \cup {Triple(e) : e \in {x \in server.edges : x.from = i}}

\* A bare relationship has no source_node_id: KeyError.
GetGraphData == IF \E e \in server.edges : e.copy = "bare" THEN Raised ELSE Subgraph(NodeIds)

GetNodesetSubgraph(names, op) ==
    LET primary == {n.id : n \in {x \in Labelled : NameOf[x.id] \in names}}
    IN  IF primary = {} THEN NoGraph ELSE Subgraph(primary \cup SetNeighbours(primary, op))

\* A filter without values counts as none.
GetFilteredGraphData(ids) == IF ids = {} THEN GetGraphData ELSE Subgraph(ids)

\* The relationships between the nodes are not filtered by type.
GetNeighborhood(ids, depth, types) ==
    Subgraph(ids \cup Reached(ids \cap NodeIds, depth, OfTypes(types, server.edges)))

\* All the nodes count as one component.
GetGraphMetrics == [counts |-> Counts, components |-> Sizes({NodeIds} \ {{}})]

GetDegreeOneNodes(type) ==
    {n.id : n \in {x \in Labelled : TypeOf[x.id] = type /\ Cardinality(Incident({x.id})) = 1}}

IsEmpty == server.nodes = {}

GraphReads ==
    Answers(GetNodes, HasEdges, GetEdges, GetNeighbors, GetConnections, GetNeighborhood,
            GetGraphData, GetNodesetSubgraph, GetFilteredGraphData, GetGraphMetrics, IsEmpty)
=============================================================================
