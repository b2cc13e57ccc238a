-------------------------- MODULE ArcadeDBAdapter --------------------------
(* Graph and vectors in one database.  Cypher goes over Bolt, and over HTTP *)
(* once Bolt has failed; SQL over HTTP.  A vector is a property of its      *)
(* node, written after it: here a point.  The vectors of all types that     *)
(* have a field of one name share one index, "vector".                      *)
EXTENDS GraphStore

PointOf(c, i) == [coll |-> TypeOf[i], id |-> i, db |-> Db(c), rev |-> call[c].rev]

\* MERGE (node {id: ...}): the vector the node has stays.
UpsertNode(c, i) == WithNodes(NewNodes(c, {i}))

\* UPDATE ... WHERE id = ... AND type = ...
WithVector(c, i) == IF i \in NodeIds THEN Upserted({PointOf(c, i)}) ELSE server

Deleted(ids) == [WithoutNodes(ids) EXCEPT !.points = {p \in @ : p.id \notin ids}]

Emptied == [EmptyGraph EXCEPT !.points = {}]

\* MATCH of both ends, MERGE of a relationship of the type
MergedEdge(t) == WithEdges({Edge(x, 1) : x \in Linkable({t}) \ Triples})

\* The nodes of a call in the caller's order; one order stands for all.
Head(todo) == CHOOSE i \in todo : TRUE

----------------------------------------------------------------------------
\* CREATE VERTEX TYPE ... IF NOT EXISTS
CreateCollection(c) == Request(c, "create", WithColl(call[c].coll))

\* For each node: the node, its embedding, the index unless the engine knows
\* of it, the vector.  create_data_points embeds all the points first and
\* creates their types.
Writing(c) == call[c].op \in {"add_node", "add_nodes", "put"}

StartWriting(c) ==
    /\ Writing(c) /\ call[c].pc = "start"
    /\ GotoWith(c, IF call[c].op = "put" THEN "type" ELSE "node", call[c].ids)
    /\ UNCHANGED <<server, memo>>

CreateType(c) ==
    /\ Writing(c) /\ call[c].pc = "type"
    /\ server' = WithColl(TypeOf[Head(call[c].todo)])
    /\ Goto(c, "node")
    /\ UNCHANGED memo

WriteNode(c) ==
    /\ Writing(c) /\ call[c].pc = "node"
    /\ server' = UpsertNode(c, Head(call[c].todo))
    /\ Goto(c, "index")
    /\ UNCHANGED memo

CreateVectorIndex(c) ==
    /\ Writing(c) /\ call[c].pc = "index"
    /\ server' = IF "vector" \in memo[engine[c]] THEN server
                 ELSE [server EXCEPT !.colls = @ \cup {TypeOf[Head(call[c].todo)]}, !.ready = @ \cup {"vector"}]
    /\ memo' = [memo EXCEPT ![engine[c]] = {"vector"}]
    /\ Goto(c, "vector")

StoreVector(c) ==
    /\ Writing(c) /\ call[c].pc = "vector"
    /\ LET i == Head(call[c].todo)
       IN  /\ server' = WithVector(c, i)
           /\ IF call[c].todo = {i} THEN Ends(c, "ok")
              ELSE GotoWith(c, IF call[c].op = "put" THEN "type" ELSE "node", call[c].todo \ {i})
    /\ UNCHANGED memo

AddEdge(c) == \E t \in call[c].ids : Request(c, "add_edge", MergedEdge(t))

\* add_edge for each
AddEdges(c) ==
    \/ At(c, "add_edges", "start") /\ GotoWith(c, "edge", call[c].ids) /\ UNCHANGED <<server, memo>>
    \/ /\ At(c, "add_edges", "edge")
       /\ \E t \in call[c].todo :
            /\ server' = MergedEdge(t)
            /\ IF call[c].todo = {t} THEN Ends(c, "ok") ELSE GotoWith(c, "edge", call[c].todo \ {t})
       /\ UNCHANGED memo

\* The collection is not looked at.
DeleteDataPoints(c) == Request(c, "delete", Deleted(call[c].ids))

\* Mutant: DELETE without DETACH.
DeleteNodeOnly(c) == Request(c, "delete_node", [Deleted(call[c].ids) EXCEPT !.edges = server.edges])

DeleteNode(c) == Request(c, "delete_node", Deleted(call[c].ids))

DeleteNodes(c) == Request(c, "delete_nodes", Deleted(call[c].ids))

Without(gone) == [server EXCEPT !.edges = @ \ gone]

\* The arrows of the two queries point away from predecessors and successors.
RemoveConnectionToPredecessorsOf(c) ==
    Request(c, "cut_predecessors", Without({e \in server.edges : e.from \in call[c].ids /\ e.label = call[c].coll}))

RemoveConnectionToSuccessorsOf(c) ==
    Request(c, "cut_successors", Without({e \in server.edges : e.to \in call[c].ids /\ e.label = call[c].coll}))

DeleteGraph(c) == Request(c, "delete_graph", Emptied)

Prune(c) == Request(c, "prune", Emptied)

Next(c) ==
    \/ CreateCollection(c) \/ StartWriting(c) \/ CreateType(c) \/ WriteNode(c)
    \/ CreateVectorIndex(c) \/ StoreVector(c) \/ AddEdge(c) \/ AddEdges(c)
    \/ DeleteDataPoints(c) \/ DeleteNode(c) \/ DeleteNodes(c)
    \/ RemoveConnectionToPredecessorsOf(c) \/ RemoveConnectionToSuccessorsOf(c)
    \/ DeleteGraph(c) \/ Prune(c)

\* What the Cypher request a call makes next does to the server.
CypherEffects(c) ==
    CASE Writing(c) /\ call[c].pc = "node" -> {UpsertNode(c, Head(call[c].todo))}
      [] At(c, "add_edge", "start") -> {MergedEdge(t) : t \in call[c].ids}
      [] At(c, "add_edges", "edge") -> {MergedEdge(t) : t \in call[c].todo}
      [] call[c].op \in {"delete", "delete_node", "delete_nodes"} -> {Deleted(call[c].ids)}
      [] call[c].op \in {"delete_graph", "prune"} -> {Emptied}
      [] OTHER -> {}

\* Bolt loses the answer of a request the server has carried out: the request
\* is made again, over HTTP, after whatever happens in between.
RepeatsOverHttp(c) ==
    \E effect \in CypherEffects(c) : server' = effect /\ UNCHANGED <<call, lock, busy, memo, due, untold>>

\* A failure to create a type is ignored.
Fails(c) ==
    \/ ~At(c, "create", "start") /\ call[c].pc # "type" /\ Raises(c)
    \/ At(c, "create", "start") /\ Ends(c, "ok") /\ UNCHANGED <<server, memo>>
    \/ Writing(c) /\ call[c].pc = "type" /\ Goto(c, "node") /\ UNCHANGED <<server, memo>>
    \/ RepeatsOverHttp(c)

----------------------------------------------------------------------------
HasCollection(e, k) == k \in server.colls

\* Whatever the collection.
Retrieve(e, k, ids) == Hits(AsPoints(e, Named(ids)))

\* The neighbours among the vectors of all types, cut to the type and to the
\* limit, and only then to the node sets.
Search(e, k, names, op) ==
    LET limit == 10
        found == Nearest(limit, {p \in Nearest(limit * 10, server.points) : p.coll = k})
    IN  IF "vector" \notin server.ready THEN Raised
        ELSE Hits(CASE names = {} -> found
                    [] op = "AND" -> AllOf(names, found)
                    [] OTHER -> AnyOf(names, found))

BatchSearch(e, k, names, op) == Search(e, k, names, op)

VectorReads(e) ==
    VectorAnswers(e, {k \in Collections : HasCollection(e, k)}, Retrieve, Search, BatchSearch)

HasNode(i) == i \in NodeIds

GetNodes(ids) == {n.id : n \in Named(ids)}

HasEdge(t) == t \in Triples

HasEdges(ts) == {t \in ts : HasEdge(t)}

GetEdges(i) == {Seen(i, e) : e \in Incident({i})}

GetDisconnectedNodes == {i \in NodeIds : Incident({i}) = {}}

GetPredecessors(i, types) == {e.from : e \in {x \in OfTypes(types, server.edges) : x.to = i}}

GetSuccessors(i, types) == {e.to : e \in {x \in OfTypes(types, server.edges) : x.from = i}}

GetNeighbors(i) == GetPredecessors(i, {}) \cup GetSuccessors(i, {})

GetConnections(i) ==
    {Triple(e) : e \in {x \in server.edges : x.to = i}} \cup {Triple(e) : e \in {x \in server.edges : x.from = i}}

GetGraphData == Subgraph(NodeIds)

\* MATCH by a label no MERGE of this adapter gives a node
GetNodesetSubgraph(names, op) == NoGraph

\* A filter without values counts as none.
GetFilteredGraphData(ids) == IF ids = {} THEN GetGraphData ELSE Subgraph(ids)

\* The relationships between the nodes are not filtered by type.
GetNeighborhood(ids, depth, types) ==
    Subgraph(ids \cup Reached(ids \cap NodeIds, depth, OfTypes(types, server.edges)))

\* All the nodes count as one component.
GetGraphMetrics == [counts |-> Counts, components |-> Sizes({NodeIds} \ {{}})]

IsEmpty == server.nodes = {}

GraphReads ==
    Answers(GetNodes, HasEdges, GetEdges, GetNeighbors, GetConnections, GetNeighborhood,
            GetGraphData, GetNodesetSubgraph, GetFilteredGraphData, GetGraphMetrics, IsEmpty)
=============================================================================
