----------------------------- MODULE GraphStore -----------------------------
(* What the models of the graph adapters share: the graph in the server,    *)
(* the queries the databases answer, and what the readings of a graph mean. *)
(* The engines of a graph address one database.                             *)
EXTENDS Store

CONSTANTS
    Labels,   \* names of relationships
    SetLabel, \* that of belongs_to_set
    NameOf    \* [Ids -> Sets \cup {None}]: the set a NodeSet node stands for

ASSUME GraphAssumption == SetLabel \in Labels /\ NameOf \in [Ids -> Sets \cup {None}]

\* A node has the revision of its last write and its belongs_to_set; copy
\* tells apart relationships with the same ends and label.
Node == [id : Ids, rev : Revisions, sets : SUBSET Sets]

MaxCopies == 2   \* bound: relationships with the same ends and label

----------------------------------------------------------------------------
(* The server.  External: what the queries of the adapters do.              *)

NodeIds == {n.id : n \in server.nodes}

Named(ids) == {n \in server.nodes : n.id \in ids}

NewNodes(c, ids) == {[id |-> i, rev |-> call[c].rev, sets |-> BelongsTo[i]] : i \in ids}

Triple(e) == <<e.from, e.label, e.to>>

Triples == {Triple(e) : e \in server.edges}

Edge(t, copy) == [from |-> t[1], label |-> t[2], to |-> t[3], copy |-> copy]

\* An edge as a query that starts from one of its ends returns it.
Seen(i, e) == <<i, e.label, IF e.from = i THEN e.to ELSE e.from>>

Incident(ids) == {e \in server.edges : Touches(Triple(e), ids)}

\* MERGE of nodes, or an upsert by id
WithNodes(new) ==
    [server EXCEPT !.nodes = {n \in @ : \A m \in new : m.id # n.id} \cup new]

\* MATCH of both ends
Linkable(triples) == {t \in triples : {t[1], t[3]} \subseteq NodeIds}

WithEdges(new) == [server EXCEPT !.edges = @ \cup new]

\* A relationship more, whether or not there is one.
Further(t) == Edge(t, IF Edge(t, 1) \in server.edges THEN MaxCopies ELSE 1)

\* DETACH DELETE
WithoutNodes(ids) ==
    [server EXCEPT !.nodes = @ \ Named(ids), !.edges = @ \ Incident(ids)]

EmptyGraph == [server EXCEPT !.nodes = {}, !.edges = {}]

\* One request of a method that makes only one.
Request(c, op, effect) ==
    At(c, op, "start") /\ server' = effect /\ Ends(c, "ok") /\ UNCHANGED memo

\* Nodes as the points of the collections named for their types.
AsPoints(e, nodes) ==
    {[coll |-> TypeOf[n.id], id |-> n.id, db |-> database[e], rev |-> n.rev] : n \in nodes}

----------------------------------------------------------------------------
(* Readings. *)

Predecessors(i) == {e.from : e \in {x \in server.edges : x.to = i}}

Successors(i) == {e.to : e \in {x \in server.edges : x.from = i}}

Adjacent(i) == Predecessors(i) \cup Successors(i)

\* edge_types, where none means all
OfTypes(types, edges) == {e \in edges : types = {} \/ e.label \in types}

Among(ids, edges) == {e \in edges : e.from \in ids /\ e.to \in ids}

\* Reached from some nodes over at most depth of some edges, in frontiers.
Reached(from, depth, edges) ==
    LET next(seen) == seen \cup {e.to : e \in {x \in edges : x.from \in seen}}
                           \cup {e.from : e \in {x \in edges : x.to \in seen}}
        seen[d \in 0 .. depth] == IF d = 0 THEN from ELSE next(seen[d - 1])
    IN  seen[depth]

Component(i) == Reached({i}, Cardinality(Ids), server.edges)

\* How many sets of a partition have each size.
Sizes(partition) == [n \in 1 .. Cardinality(Ids) |-> Cardinality({p \in partition : Cardinality(p) = n})]

Subgraph(ids) ==
    [nodes |-> ids \cap NodeIds, edges |-> {Triple(e) : e \in Among(ids \cap NodeIds, server.edges)}]

NoGraph == [nodes |-> {}, edges |-> {}]

\* The NodeSet nodes of some names, and their neighbours under an operator.
SetNodes(names) == {i \in NodeIds : NameOf[i] \in names}

SetNeighbours(primary, op) ==
    {i \in NodeIds : IF op = "AND" THEN primary \subseteq Adjacent(i) ELSE primary \cap Adjacent(i) # {}}

\* MATCH (a)-[r]-(b) finds no row without a relationship, and the nodes go
\* with it.
UnlessUnrelated(graph) == IF graph.edges = {} THEN NoGraph ELSE graph

\* Questions for node sets that have members.
Asked == {q \in (SUBSET Sets) \X {"OR", "AND"} :
            LET primary == SetNodes(q[1])
            IN  primary # {} /\ SetNeighbours(primary, q[2]) \ primary # {}}

\* The answers of an adapter to every question about its graph.
Answers(getNodes(_), hasEdges(_), getEdges(_), getNeighbors(_), getConnections(_),
        getNeighborhood(_, _, _), graphData, nodesetSubgraph(_, _), filteredGraphData(_),
        metrics, empty) ==
    [get_nodes |-> [ids \in SUBSET Ids |-> getNodes(ids)],
     has_edges |-> hasEdges(Ids \X Labels \X Ids),
     get_edges |-> [i \in Ids |-> getEdges(i)],
     get_neighbors |-> [i \in Ids |-> getNeighbors(i)],
     get_connections |-> [i \in Ids |-> getConnections(i)],
     get_neighborhood |-> [i \in Ids, depth \in 1 .. 2, types \in {{}} \cup {{l} : l \in Labels} |->
                             getNeighborhood({i}, depth, types)],
     get_graph_data |-> graphData,
     get_nodeset_subgraph |-> [q \in Asked |-> nodesetSubgraph(q[1], q[2])],
     get_filtered_graph_data |-> [ids \in (SUBSET Ids) \ {{}} |-> filteredGraphData(ids)],
     get_graph_metrics |-> metrics,
     is_empty |-> empty]

Counts == [nodes |-> Cardinality(server.nodes), edges |-> Cardinality(server.edges)]
=============================================================================
