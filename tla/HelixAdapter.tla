---------------------------- MODULE HelixAdapter ----------------------------
(* One request for each node, edge or vector.  Vectors (here points) are    *)
(* stored beside the nodes and nothing deletes one.  The engine remembers   *)
(* the collections it has met.                                              *)
EXTENDS GraphStore

Meet(c, colls) == memo' = [memo EXCEPT ![engine[c]] = @ \cup colls]

UpsertNode(c, i) == WithNodes(NewNodes(c, {i}))

\* AddE adds a relationship whether or not there is one.
AddE(triples) == WithEdges({Further(t) : t \in Linkable(triples)})

\* AddV: the collection is named for the point's type, whatever the caller says.
AddV(c, i) ==
    With(server.points \cup {[coll |-> TypeOf[i], id |-> i, db |-> Db(c), rev |-> call[c].rev]})

\* The points of a call in the caller's order; one order stands for all.
Head(todo) == CHOOSE i \in todo : TRUE

\* A method that makes one request for each of its items.
Loop(c, op, effect) ==
    \/ At(c, op, "start") /\ GotoWith(c, "each", call[c].ids) /\ UNCHANGED <<server, memo>>
    \/ /\ At(c, op, "each")
       /\ \E x \in call[c].todo :
            /\ server' = effect[x]
            /\ IF call[c].todo = {x} THEN Ends(c, "ok") ELSE GotoWith(c, "each", call[c].todo \ {x})
       /\ UNCHANGED memo

CreateCollection(c) ==
    At(c, "create", "start") /\ Meet(c, {call[c].coll}) /\ Ends(c, "ok") /\ UNCHANGED server

\* Embeds all the points; for each writes the node, then adds a vector.
CreateDataPoints(c) ==
    \/ /\ At(c, "put", "start")
       /\ Meet(c, {call[c].coll})
       /\ GotoWith(c, "node", call[c].ids)
       /\ UNCHANGED server
    \/ /\ At(c, "put", "node")
       /\ server' = UpsertNode(c, Head(call[c].todo))
       /\ Goto(c, "vector")
       /\ UNCHANGED memo
    \/ /\ At(c, "put", "vector")
       /\ LET i == Head(call[c].todo)
          IN  /\ server' = AddV(c, i)
              /\ Meet(c, {TypeOf[i]})
              /\ IF call[c].todo = {i} THEN Ends(c, "ok") ELSE GotoWith(c, "node", call[c].todo \ {i})

\* Deletes the nodes, whatever the collection; their vectors stay.
DeleteDataPoints(c) == Loop(c, "delete", [i \in call[c].ids |-> WithoutNodes({i})])

AddNode(c) == \E i \in call[c].ids : Request(c, "add_node", UpsertNode(c, i))

\* The embeddings go into the properties of the nodes: no vector is added.
AddNodes(c) == Loop(c, "add_nodes", [i \in call[c].ids |-> UpsertNode(c, i)])

AddEdge(c) == Request(c, "add_edge", AddE(call[c].ids))

AddEdges(c) == Loop(c, "add_edges", [t \in call[c].ids |-> AddE({t})])

DeleteNode(c) == Request(c, "delete_node", WithoutNodes(call[c].ids))

DeleteNodes(c) == Loop(c, "delete_nodes", [i \in call[c].ids |-> WithoutNodes({i})])

\* Deletes the nodes there are when it begins, one by one.
DeleteGraph(c) ==
    \/ /\ call[c].op \in {"delete_graph", "prune"} /\ call[c].pc = "start"
       /\ GotoWith(c, "each", NodeIds)
       /\ UNCHANGED <<server, memo>>
    \/ /\ call[c].op \in {"delete_graph", "prune"} /\ call[c].pc = "each"
       /\ IF call[c].todo = {} THEN UNCHANGED server /\ Ends(c, "ok")
          ELSE \E i \in call[c].todo :
                 server' = WithoutNodes({i}) /\ GotoWith(c, "each", call[c].todo \ {i})
       /\ UNCHANGED memo

Next(c) ==
    \/ CreateCollection(c) \/ CreateDataPoints(c) \/ DeleteDataPoints(c)
    \/ AddNode(c) \/ AddNodes(c) \/ AddEdge(c) \/ AddEdges(c)
    \/ DeleteNode(c) \/ DeleteNodes(c) \/ DeleteGraph(c)

Fails(c) == Raises(c)

----------------------------------------------------------------------------
HasCollection(e, k) == k \in memo[e]

Retrieve(e, k, ids) == Hits({p \in AsPoints(e, Named(ids)) : p.coll = k})

\* Five times the limit of all vectors, cut to the collection.  A vector has
\* no belongs_to_set: no node set matches.
Search(e, k, names, op) ==
    LET limit == 10
        found == {p \in Nearest(limit * 5, server.points) : p.coll = k}
    IN  Hits(IF names = {} THEN found ELSE {})

BatchSearch(e, k, names, op) == Search(e, k, names, "OR")

VectorReads(e) ==
    VectorAnswers(e, {k \in Collections : HasCollection(e, k)}, Retrieve, Search, BatchSearch)

GetNodes(ids) == {n.id : n \in Named(ids)}

HasEdge(t) == t \in {Triple(e) : e \in {x \in server.edges : x.from = t[1]}}

HasEdges(ts) == {t \in ts : HasEdge(t)}

\* The relationships from a node, then those to it.
GetEdges(i) ==
    {Triple(e) : e \in {x \in server.edges : x.from = i}} \cup {Triple(e) : e \in {x \in server.edges : x.to = i}}

GetNeighbors(i) == Adjacent(i)

GetConnections(i) == IF i \in NodeIds THEN GetEdges(i) ELSE {}

GetGraphData == Subgraph(NodeIds)

\* A frontier at a time, by get_edges of each node in it.
GetNeighborhood(ids, depth, types) ==
    LET edgesOf(seen) == OfTypes(types, UNION {Incident({i}) : i \in seen})
        next(seen) == seen \cup UNION {{e.from, e.to} : e \in edgesOf(seen)}
        visited[d \in 0 .. depth] == IF d = 0 THEN ids ELSE next(visited[d - 1])
        all == visited[depth]
    IN  [nodes |-> GetNodes(all), edges |-> {Triple(e) : e \in Among(all, edgesOf(all))}]

\* All the nodes count as one component.
GetGraphMetrics == [counts |-> Counts, components |-> Sizes({NodeIds} \ {{}})]

\* AND: the NodeSet nodes that themselves belong to all the sets.
GetNodesetSubgraph(names, op) ==
    LET sets == {i \in NodeIds : NameOf[i] # None}
        primary == IF op = "AND" THEN {i \in sets : names \subseteq BelongsTo[i]}
                   ELSE {i \in sets : NameOf[i] \in names}
    IN  IF primary = {} THEN NoGraph ELSE Subgraph(primary \cup UNION {GetNeighbors(i) : i \in primary})

GetFilteredGraphData(ids) == Subgraph(ids)

IsEmpty == server.nodes = {}

GraphReads ==
    Answers(GetNodes, HasEdges, GetEdges, GetNeighbors, GetConnections, GetNeighborhood,
            GetGraphData, GetNodesetSubgraph, GetFilteredGraphData, GetGraphMetrics, IsEmpty)
=============================================================================
