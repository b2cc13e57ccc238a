-------------------------- MODULE NetworkXAdapter --------------------------
(* One instance per process, with the graph in memory, and one file.  Every  *)
(* write changes the memory and saves it: the file is opened for writing,    *)
(* which truncates it, and written after an await.  Some readings load the   *)
(* file first.  server.nodes and server.edges are what the file holds;       *)
(* server.file is "none", "truncated", "graph" or "garbled".                 *)
(*                                                                          *)
(* Ids of data points are UUIDs; add_edges makes strings of them.  An edge   *)
(* it adds is loose: it hangs between nodes of its own, until a load makes   *)
(* UUIDs of all ids.                                                         *)
EXTENDS GraphStore

\* The constructor: no graph, whatever there is in the file.  loaded tells
\* whether the memory has what the file has.
NewGraph == [nodes |-> {}, edges |-> {}, loose |-> {}, loaded |-> FALSE]

Memory(c) == memo[engine[c]]

\* What a save writes: an end that is no node becomes one without properties.
Content(g) ==
    LET edges == g.edges \cup g.loose
        known == {n.id : n \in g.nodes}
        ends == UNION {{e.from, e.to} : e \in edges}
    IN  [nodes |-> g.nodes \cup {[id |-> i, rev |-> 0, sets |-> {}] : i \in ends \ known},
         edges |-> edges]

\* Marks of what the file holds, when its content is replaced or garbled.
Lost == {p \in due : p.rev # 0}

Writing(c, g, lost) ==
    /\ memo' = [memo EXCEPT ![engine[c]] = [g EXCEPT !.loaded = TRUE]]
    /\ call' = [call EXCEPT ![c].pc = "open", ![c].todo = Content(g)]
    /\ untold' = untold \cup lost
    /\ UNCHANGED <<server, lock, busy, due>>

\* A graph that has not been loaded goes over the one in the file.
Saves(c, g) == Writing(c, g, IF g.loaded \/ server.file = "none" THEN {} ELSE Lost)

Size == Cardinality(server.nodes) + Cardinality(server.edges)

Holds(file, content) ==
    [server EXCEPT !.nodes = content.nodes, !.edges = content.edges, !.file = file]

Nothing == [nodes |-> {}, edges |-> {}]

\* The file may be gone by the time of the write, or have got longer content
\* from another save, of which the rest stays.
SaveGraphToFile(c) ==
    \/ /\ Running(c) /\ call[c].pc = "open"
       /\ server' = Holds("truncated", Nothing)
       /\ Goto(c, "write")
       /\ UNCHANGED memo
    \/ /\ Running(c) /\ call[c].pc = "write"
       /\ LET content == call[c].todo
              shorter == Cardinality(content.nodes) + Cardinality(content.edges) < Size
          IN  IF server.file = "garbled" \/ (server.file = "graph" /\ shorter)
              THEN server' = Holds("garbled", Nothing) /\ EndsUntold(c, Lost)
              ELSE /\ server' = IF server.file = "none" THEN server ELSE Holds("graph", content)
                   /\ Ends(c, "ok")
       /\ UNCHANGED memo

Put(c, ids) ==
    [Memory(c) EXCEPT !.nodes = {n \in @ : n.id \notin ids} \cup NewNodes(c, ids)]

AddNode(c) == At(c, "add_node", "start") /\ Saves(c, Put(c, call[c].ids))

AddNodes(c) == At(c, "add_nodes", "start") /\ Saves(c, Put(c, call[c].ids))

\* The key is the label: an edge is added once.
AddEdge(c) ==
    /\ At(c, "add_edge", "start")
    /\ Saves(c, [Memory(c) EXCEPT !.edges = @ \cup {Edge(t, 1) : t \in call[c].ids}])

AddEdges(c) ==
    /\ At(c, "add_edges", "start")
    /\ Saves(c, [Memory(c) EXCEPT !.loose = @ \cup {Edge(t, 1) : t \in call[c].ids}])

Without(c, ids) ==
    [Memory(c) EXCEPT !.nodes = {n \in @ : n.id \notin ids},
                      !.edges = {e \in @ : ~Touches(Triple(e), ids)}]

\* Edges of add_edge can bring in nodes that have only an id.
HasNode(e, i) ==
    \/ \E n \in memo[e].nodes : n.id = i
    \/ \E x \in memo[e].edges : i \in {x.from, x.to}

DeleteNode(c) ==
    /\ At(c, "delete_node", "start")
    /\ IF \E i \in call[c].ids : HasNode(engine[c], i)
       THEN Saves(c, Without(c, call[c].ids))
       ELSE Ends(c, "ok") /\ UNCHANGED <<server, memo>>

DeleteNodes(c) == At(c, "delete_nodes", "start") /\ Saves(c, Without(c, call[c].ids))

RemoveConnectionToPredecessorsOf(c) ==
    /\ At(c, "cut_predecessors", "start")
    /\ Saves(c, [Memory(c) EXCEPT !.edges = {e \in @ : ~(e.to \in call[c].ids /\ e.label = call[c].coll)}])

RemoveConnectionToSuccessorsOf(c) ==
    /\ At(c, "cut_successors", "start")
    /\ Saves(c, [Memory(c) EXCEPT !.edges = {e \in @ : ~(e.from \in call[c].ids /\ e.label = call[c].coll)}])

CreateEmptyGraph(c, lost) == Writing(c, NewGraph, lost)

\* What get_graph_data, get_neighborhood and get_nodeset_subgraph do first.  A
\* file they cannot parse is replaced by an empty one.
LoadGraphFromFile(c) ==
    \/ /\ At(c, "load", "start")
       /\ IF server.file = "none" THEN CreateEmptyGraph(c, {})
          ELSE Goto(c, "read") /\ UNCHANGED <<server, memo>>
    \/ /\ At(c, "load", "read")
       /\ IF server.file = "graph"
          THEN /\ memo' = [memo EXCEPT ![engine[c]] =
                             [nodes |-> server.nodes, edges |-> server.edges,
                              loose |-> {}, loaded |-> TRUE]]
               /\ Ends(c, "ok")
               /\ UNCHANGED server
          ELSE CreateEmptyGraph(c, Lost)

\* Only the file: the graph in memory is there until the next load.
DeleteGraph(c) ==
    \/ /\ At(c, "delete_graph", "start")
       /\ IF server.file = "none" THEN Ends(c, "ok") ELSE Goto(c, "remove")
       /\ UNCHANGED <<server, memo>>
    \/ /\ At(c, "delete_graph", "remove")
       /\ server' = Holds("none", Nothing)
       /\ Ends(c, IF server.file = "none" THEN "error" ELSE "ok")
       /\ UNCHANGED memo

\* NetworkXAdapter(...) again: the one instance forgets its graph.
Construct(c) ==
    /\ At(c, "construct", "start")
    /\ memo' = [memo EXCEPT ![engine[c]] = NewGraph]
    /\ Ends(c, "ok")
    /\ UNCHANGED server

Next(c) ==
    \/ AddNode(c) \/ AddNodes(c) \/ AddEdge(c) \/ AddEdges(c) \/ DeleteNode(c) \/ DeleteNodes(c)
    \/ RemoveConnectionToPredecessorsOf(c) \/ RemoveConnectionToSuccessorsOf(c)
    \/ LoadGraphFromFile(c) \/ DeleteGraph(c) \/ Construct(c) \/ SaveGraphToFile(c)

Truncated(e) == \E c \in Clients : engine[c] = e /\ Running(c) /\ call[c].pc = "write"

\* A write fails, or the process ends and starts again.  What the file held is
\* lost if it was truncated; if a load fails, for any reason, the empty graph
\* is saved in its place.
Fails(c) ==
    \/ /\ Running(c) /\ call[c].pc \in {"open", "write"}
       /\ call' = [call EXCEPT ![c] = Idle("error")]
       /\ untold' = IF call[c].pc = "write" THEN untold \cup Lost ELSE untold
       /\ UNCHANGED <<server, memo, lock, busy, due>>
    \/ /\ call' = [d \in Clients |-> IF engine[d] = engine[c] THEN Idle("closed") ELSE call[d]]
       /\ memo' = [memo EXCEPT ![engine[c]] = NewGraph]
       /\ untold' = IF Truncated(engine[c]) THEN untold \cup Lost ELSE untold
       /\ UNCHANGED <<server, lock, busy, due>>
    \/ /\ At(c, "load", "read")
       /\ memo' = [memo EXCEPT ![engine[c]] = [NewGraph EXCEPT !.loaded = TRUE]]
       /\ call' = [call EXCEPT ![c].pc = "open", ![c].todo = Nothing]
       /\ untold' = untold \cup Lost
       /\ UNCHANGED <<server, lock, busy, due>>

----------------------------------------------------------------------------
(* Readings of the memory, after a load where the method loads. *)

M(e) == memo[e]

GetNodes(e, ids) == {i \in ids : HasNode(e, i)}

HasEdges(e, ts) == {t \in ts : \E x \in M(e).edges : Triple(x) = t}

Touching(e, i) == {x \in M(e).edges : Touches(Triple(x), {i})}

\* in_edges and out_edges, without their keys
GetEdges(e, i) == {<<x.from, x.to>> : x \in Touching(e, i)}

GetPredecessors(e, i, types) == {x.from : x \in {y \in OfTypes(types, M(e).edges) : y.to = i}}

GetSuccessors(e, i, types) == {x.to : x \in {y \in OfTypes(types, M(e).edges) : y.from = i}}

GetNeighbors(e, i) == GetPredecessors(e, i, {}) \cup GetSuccessors(e, i, {})

GetConnections(e, i) == {Triple(x) : x \in Touching(e, i)}

All(e) == {i \in Ids : HasNode(e, i)}

Part(e, ids) == [nodes |-> ids \cap All(e), edges |-> {Triple(x) : x \in Among(ids, M(e).edges)}]

GetGraphData(e) == Part(e, Ids)

\* Breadth first over out_edges and in_edges
GetNeighborhood(e, ids, depth, types) ==
    LET edges == OfTypes(types, M(e).edges)
        visited == Reached(ids \cap All(e), depth, edges)
    IN  [nodes |-> visited, edges |-> {Triple(x) : x \in Among(visited, edges)}]

\* With AND, the nodes of the type that belong to all the sets, by whatever
\* name; their neighbours always with OR.
GetNodesetSubgraph(e, names, op) ==
    LET matches(n) == /\ NameOf[n.id] # None
                      /\ IF op = "AND" THEN names \subseteq n.sets
                         ELSE NameOf[n.id] \in names \/ names \cap n.sets # {}
        primary == {n.id : n \in {m \in M(e).nodes : matches(m)}}
    IN  Part(e, primary \cup UNION {GetNeighbors(e, i) : i \in primary})

GetFilteredGraphData(e, ids) == Part(e, ids)

GetDisconnectedNodes(e) ==
    LET of(i) == Reached({i}, Cardinality(Ids), M(e).edges)
        biggest == CHOOSE l \in {of(i) : i \in All(e)} :
                     \A i \in All(e) : Cardinality(of(i)) <= Cardinality(l)
    IN  All(e) \ biggest   \* raises when there are no nodes

GetGraphMetrics(e) ==
    [counts |-> [nodes |-> Cardinality(All(e)), edges |-> Cardinality(M(e).edges)],
     components |-> Sizes({Reached({i}, Cardinality(Ids), M(e).edges) : i \in All(e)})]

GetDegreeOneNodes(e) ==
    {i \in All(e) : Cardinality({x \in M(e).edges : x.from = i}) + Cardinality({x \in M(e).edges : x.to = i}) = 1}

\* The chunks of a document, the entities only they contain (by some label),
\* the types only those have, and what was made from the chunks.
GetDocumentSubgraph(e, document, partOf, contains, isA, madeFrom) ==
    LET chunks == GetPredecessors(e, document, {partOf})
        entities == UNION {GetSuccessors(e, i, {contains}) : i \in chunks}
        orphans == {i \in entities : GetPredecessors(e, i, {contains}) \subseteq chunks}
        types == UNION {GetSuccessors(e, i, {isA}) : i \in orphans}
    IN  [chunks |-> chunks, orphan_entities |-> orphans,
         orphan_types |-> {i \in types : GetPredecessors(e, i, {isA}) \subseteq orphans},
         made_from_nodes |-> UNION {GetPredecessors(e, i, {madeFrom}) : i \in chunks}]

IsEmpty(e) == All(e) = {} /\ M(e).edges = {}

InStep(e) ==
    /\ server.file = "graph" /\ M(e).loose = {}
    /\ Content(M(e)) = [nodes |-> server.nodes, edges |-> server.edges]

Reads(e) ==
    Answers(LAMBDA ids : GetNodes(e, ids), LAMBDA ts : HasEdges(e, ts), LAMBDA i : GetEdges(e, i),
            LAMBDA i : GetNeighbors(e, i), LAMBDA i : GetConnections(e, i),
            LAMBDA ids, depth, types : GetNeighborhood(e, ids, depth, types), GetGraphData(e),
            LAMBDA names, op : GetNodesetSubgraph(e, names, op),
            LAMBDA ids : GetFilteredGraphData(e, ids), GetGraphMetrics(e), IsEmpty(e))
=============================================================================
