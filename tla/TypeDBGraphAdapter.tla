------------------------- MODULE TypeDBGraphAdapter -------------------------
(* The graph methods of TypeDBAdapter, without provenance: a read is one     *)
(* READ transaction, a write one WRITE transaction, retried when its commit  *)
(* conflicts (TypeDBProvenance and TypeDBBatch say how); add_nodes and       *)
(* add_edges use one for each chunk, here of one row.  Tags and weights are  *)
(* in the payload of a node or edge, which is read, changed and written      *)
(* back as a whole.                                                          *)
EXTENDS GraphStore

NewNode(c, i) == [id |-> i, rev |-> call[c].rev, sets |-> BelongsTo[i], weight |-> 0, truth |-> 0]

NewEdge(t) == [from |-> t[1], label |-> t[2], to |-> t[3], copy |-> 1, weight |-> 0]

\* put of a key; the payload is replaced, whatever it held.
WithNewEdges(triples) ==
    [server EXCEPT !.edges = {e \in @ : Triple(e) \notin triples} \cup {NewEdge(t) : t \in triples}]

AddNode(c) == Request(c, "add_node", WithNodes({NewNode(c, i) : i \in call[c].ids}))

\* The chunks of a batch commit in any order.
WriteRows(c, op, effect) ==
    \/ At(c, op, "start") /\ GotoWith(c, "chunk", call[c].ids) /\ UNCHANGED <<server, memo>>
    \/ /\ At(c, op, "chunk")
       /\ \E row \in call[c].todo :
            /\ server' = effect[row]
            /\ IF call[c].todo = {row} THEN Ends(c, "ok") ELSE GotoWith(c, "chunk", call[c].todo \ {row})
       /\ UNCHANGED memo

AddNodes(c) == WriteRows(c, "add_nodes", [i \in call[c].ids |-> WithNodes({NewNode(c, i)})])

\* An edge whose ends are missing is skipped.
AddEdges(c) ==
    \E op \in {"add_edge", "add_edges"} :
        WriteRows(c, op, [t \in call[c].ids |-> WithNewEdges(Linkable({t}))])

DeleteNodes(c) == \E op \in {"delete_node", "delete_nodes"} : Request(c, op, WithoutNodes(call[c].ids))

DeleteGraph(c) == Request(c, "delete_graph", EmptyGraph)

\* coll: the label.  The edges in which the nodes play the given role
RemoveLabeledEdges(c, op, role) ==
    Request(c, op, [server EXCEPT !.edges =
                      {e \in @ : ~(role[e] \in call[c].ids /\ e.label = call[c].coll)}])

RemoveConnections(c) ==
    \/ RemoveLabeledEdges(c, "cut_predecessors", [e \in server.edges |-> e.to])
    \/ RemoveLabeledEdges(c, "cut_successors", [e \in server.edges |-> e.from])

----------------------------------------------------------------------------
(* Changes of payloads.                                                      *)

\* The WRITE transaction reads the payloads, and commits if nobody has changed
\* them since; otherwise it runs again.
MutateProperties(c, found, mutate, ids) ==
    \/ /\ call[c].pc = "open"
       /\ IF found = {} THEN Ends(c, "ok") ELSE GotoWith(c, "commit", found)
       /\ UNCHANGED <<server, memo>>
    \/ /\ call[c].pc = "commit" /\ call[c].todo \subseteq server.nodes \cup server.edges
       /\ LET changed(all) == {IF x \in call[c].todo THEN mutate[x] ELSE x : x \in all}
          IN  server' = [server EXCEPT !.nodes = changed(@), !.edges = changed(@)]
       /\ Ends(c, "ok")
       /\ UNCHANGED memo
    \/ /\ call[c].pc = "commit" /\ ~(call[c].todo \subseteq server.nodes \cup server.edges)
       /\ GotoWith(c, "open", ids)
       /\ UNCHANGED <<server, memo>>

Tagged(tag) == {n \in server.nodes : tag \in n.sets}

\* coll: the tag.  Without ids a READ transaction finds the candidates.
RemoveBelongsToSetTags(c) ==
    LET tag == call[c].coll
        candidates == IF call[c].ids = {} THEN {n.id : n \in Tagged(tag)} ELSE call[c].ids
    IN  /\ call[c].op = "remove_tags"
        /\ \/ /\ call[c].pc = "start"
              /\ IF candidates = {} THEN Ends(c, "ok") ELSE GotoWith(c, "open", candidates)
              /\ UNCHANGED <<server, memo>>
           \/ MutateProperties(c, {n \in Tagged(tag) : n.id \in call[c].todo},
                               [n \in call[c].todo |-> [n EXCEPT !.sets = @ \ {tag}]],
                               {n.id : n \in call[c].todo})

\* rev: the value of the key
SetKey(c, op, changed) ==
    \/ At(c, op, "start") /\ GotoWith(c, "open", call[c].ids) /\ UNCHANGED <<server, memo>>
    \/ /\ call[c].op = op
       /\ MutateProperties(c, Named(call[c].todo), changed, {n.id : n \in call[c].todo})

SetNodeFeedbackWeights(c) ==
    SetKey(c, "weigh_nodes", [n \in call[c].todo |-> [n EXCEPT !.weight = call[c].rev]])

SetNodeTruthState(c) ==
    SetKey(c, "judge_nodes", [n \in call[c].todo |-> [n EXCEPT !.truth = call[c].rev]])

\* The edges are found by their object id, which their key determines unless
\* the caller gives one.
SetEdgeFeedbackWeights(c) ==
    /\ call[c].op = "weigh_edges"
    /\ \/ /\ At(c, "weigh_edges", "start")
          /\ IF call[c].ids \cap Triples = {} THEN Ends(c, "ok")
             ELSE GotoWith(c, "open", call[c].ids \cap Triples)
          /\ UNCHANGED <<server, memo>>
       \/ MutateProperties(c, {e \in server.edges : Triple(e) \in call[c].todo},
                           [e \in call[c].todo |-> [e EXCEPT !.weight = call[c].rev]],
                           {Triple(e) : e \in call[c].todo})

Next(c) ==
    \/ AddNode(c) \/ AddNodes(c) \/ AddEdges(c) \/ DeleteNodes(c) \/ DeleteGraph(c)
    \/ RemoveConnections(c) \/ RemoveBelongsToSetTags(c) \/ SetNodeFeedbackWeights(c)
    \/ SetNodeTruthState(c) \/ SetEdgeFeedbackWeights(c)

Fails(c) == Raises(c)

----------------------------------------------------------------------------
GetNodes(ids) == ids \cap NodeIds

HasEdges(ts) == ts \cap Triples

GetEdges(i) == {Seen(i, e) : e \in Incident({i})}

GetPredecessors(i) == IF i \in NodeIds THEN Predecessors(i) ELSE {}

GetSuccessors(i) == IF i \in NodeIds THEN Successors(i) ELSE {}

GetNeighbors(i) == GetPredecessors(i) \cup (GetSuccessors(i) \ {i})

GetConnections(i) ==
    {Triple(e) : e \in {x \in server.edges : x.to = i}}
      \cup {Triple(e) : e \in {x \in server.edges : x.from = i /\ x.to # i}}

EdgesWithinNodeSet(edges, selected, types) == {Triple(e) : e \in OfTypes(types, Among(selected, edges))}

AddUnknownEndpoints(edges, nodes, types) ==
    nodes \cup UNION {{e.from, e.to} : e \in OfTypes(types, edges)}

\* Sweeps the edges of the seeds and of each frontier, then those of the last.
GetNeighborhood(ids, depth, types) ==
    LET known[d \in 0 .. depth] ==
            IF d = 0 THEN GetNodes(ids) ELSE AddUnknownEndpoints(Incident(known[d - 1]), known[d - 1], types)
    IN  [nodes |-> known[depth], edges |-> EdgesWithinNodeSet(Incident(known[depth]), known[depth], types)]

GetGraphData == [nodes |-> NodeIds, edges |-> Triples]

\* Seeds, their neighbours (AND: those linked to every seed) and all edges
\* between them
GetNodesetSubgraph(names, op) ==
    LET seeds == SetNodes(names)
        linked(i) == {p \in seeds : \E e \in Incident({p}) : i \in {e.from, e.to}}
        wanted == {i \in NodeIds \ seeds : IF op = "AND" THEN linked(i) = seeds ELSE linked(i) # {}}
        all == seeds \cup wanted
    IN  IF seeds = {} THEN NoGraph
        ELSE [nodes |-> all, edges |-> EdgesWithinNodeSet(Incident(seeds) \cup Incident(wanted), all, {})]

GetFilteredGraphData(ids) ==
    [nodes |-> GetNodes(ids), edges |-> EdgesWithinNodeSet(Incident(GetNodes(ids)), GetNodes(ids), {})]

GetGraphMetrics == [counts |-> Counts, components |-> Sizes({Component(i) : i \in NodeIds})]

IsEmpty == NodeIds = {}

Reads == Answers(GetNodes, HasEdges, GetEdges, GetNeighbors, GetConnections, GetNeighborhood,
                 GetGraphData, GetNodesetSubgraph, GetFilteredGraphData, GetGraphMetrics, IsEmpty)
=============================================================================
