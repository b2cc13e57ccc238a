------------------------------ MODULE MCStores ------------------------------
(* Two clients, one engine between them or one for each, of the same        *)
(* database or of two.                                                      *)
EXTENDS Stores, TLC

CONSTANTS a, b,             \* clients
          e1, e2,           \* engines
          d1, d2,           \* databases
          people, groups,   \* collections
          ann, bob,         \* ids
          clubNode, firmNode, \* ids of the nodes that stand for the sets
          firm, club,       \* node sets
          knows, belongs    \* labels

MCBelongsTo == ann :> {firm} @@ bob :> {firm, club} @@ clubNode :> {} @@ firmNode :> {}

MCNameOf == ann :> None @@ bob :> None @@ clubNode :> club @@ firmNode :> firm

MCTypeOf == ann :> people @@ bob :> people @@ clubNode :> groups @@ firmNode :> groups

Job(op, coll, ids, rev) == [op |-> op, coll |-> coll, ids |-> ids, rev |-> rev]

CollectionJobs ==
    {Job("create", people, {}, 1), Job("put", people, {ann}, 1), Job("put", people, {ann, bob}, 2),
     Job("delete", people, {ann}, 1), Job("prune", None, {}, 1)}

Links1 == {<<ann, knows, bob>>}
Links2 == {<<ann, knows, bob>>, <<bob, belongs, firmNode>>}
Links3 == Links2 \cup {<<ann, belongs, firmNode>>, <<bob, belongs, clubNode>>}

GraphJobs ==
    {Job("add_node", None, {ann}, 2), Job("add_nodes", None, {ann, bob}, 1),
     Job("add_edge", None, Links1, 1), Job("add_edges", None, Links2, 1),
     Job("delete_node", None, {bob}, 1), Job("delete_nodes", None, {ann, bob}, 1),
     Job("delete_graph", None, {}, 1)}

CutJobs == {Job("cut_predecessors", knows, {bob}, 1), Job("cut_successors", knows, {bob}, 1)}

VectorProviders == {"qdrant", "singlestore", "weaviate", "milvus", "opengauss", "redis", "valkey",
                    "turbopuffer", "pinecone", "azure", "opensearch", "moss", "duckdb"}

GraphProviders == {"typedb", "memgraph", "turingdb", "arcadedb_graph", "spanner", "turbopuffer_graph",
                   "networkx", "pggraph"}

JobsOf(p) ==
    CASE p \in {"opensearch", "moss"} -> CollectionJobs \cup {Job("search", people, {}, 1)}
      [] p = "duckdb" -> CollectionJobs \cup {Job("add_node", None, {ann}, 2)}
      [] p \in VectorProviders -> CollectionJobs
      [] p \in {"memgraph", "arcadedb_graph"} -> GraphJobs \cup CutJobs
      [] p = "typedb" -> GraphJobs \cup CutJobs \cup {Job("remove_tags", firm, {}, 1),
                                                       Job("remove_tags", club, {ann, bob}, 1),
                                                       Job("weigh_nodes", None, {ann, bob}, 1),
                                                       Job("judge_nodes", None, {ann}, 1),
                                                       Job("weigh_edges", None, Links1, 1)}
      [] p = "networkx" -> GraphJobs \cup CutJobs \cup {Job("load", None, {}, 1), Job("construct", None, {}, 1)}
      [] p = "turbopuffer_graph" -> GraphJobs \cup {Job("remove_tags", firm, {}, 1),
                                                        Job("remove_tags", club, {ann, bob}, 1)}
      [] p = "pggraph" -> {x \in GraphJobs : x.op \in {"add_nodes", "add_edges", "delete_nodes", "delete_graph"}}
                            \cup {Job(op, None, {}, 1) : op \in {"initialize", "build", "traverse"}}
      [] p \in PointsAreNodes ->
           {Job("create", people, {}, 1), Job("put", people, {ann}, 2), Job("delete", people, {ann}, 1),
            Job("prune", None, {}, 1)}
             \cup GraphJobs \cup (IF p = "arcadedb" THEN CutJobs ELSE {})
      [] OTHER -> GraphJobs

Point1(coll, id, db) == [coll |-> coll, id |-> id, db |-> db, rev |-> 1]

NewServer == [colls |-> {}, ready |-> {}, points |-> {}, nodes |-> {}, edges |-> {}]

Stocked(colls, points) == [NewServer EXCEPT !.colls = colls, !.ready = colls, !.points = points]

Points1 == {Point1(people, ann, d1), Point1(groups, bob, d2)}

InIndex(x) == {[coll |-> p.coll, id |-> p.id, db |-> p.db, rev |-> p.rev, index |-> x] : p \in Points1}

Graph(triples, copy) ==
    [NewServer EXCEPT !.nodes = {[id |-> x, rev |-> 1, sets |-> BelongsTo[x]] : x \in Ids},
                      !.edges = {Edge(x, copy) : x \in triples}]

Weighed(graph) == [graph EXCEPT !.nodes = {x @@ [weight |-> 0, truth |-> 0] : x \in @},
                                !.edges = {x @@ [weight |-> 0] : x \in @}]

More(server1, name, value) == server1 @@ (name :> value)

ServersOf(p) ==
    CASE p = "turbopuffer" -> {NewServer, Stocked({<<d1, people>>, <<d2, groups>>}, Points1)}
      [] p = "moss" -> {NewServer, Stocked({e1}, InIndex(e1))}
      [] p \in VectorProviders -> {NewServer, Stocked({people, groups}, Points1)}
      [] p = "networkx" -> {More(NewServer, "file", "none"), More(Graph(Links3, 1), "file", "graph")}
      [] p = "pggraph" -> {More(More(More(Graph(Links3, 1), "index", {}), "tables", {}), "available", yes)
                             : yes \in BOOLEAN}
      [] p = "typedb" -> {NewServer, Weighed(Graph(Links3, 1))}
      [] p \in {"memgraph", "arcadedb_graph"} -> {NewServer, Graph(Links3, "ends"), Graph(Links1, "bare")}
      [] p = "falkor" -> {NewServer, Graph(Links1, "bare"),
                          [Graph(Links3, "ends") EXCEPT !.colls = {people}, !.ready = {people}]}
      [] p = "arcadedb" -> {[Graph(Links3, 1) EXCEPT !.colls = {people}, !.ready = {"vector"},
                                                   !.points = {Point1(people, ann, d1)}]}
      [] p = "helix" -> {[Graph(Links3, 1) EXCEPT !.points = {Point1(people, ann, d1)}]}
      [] OTHER -> {NewServer, Graph(Links3, 1)}

One(x, y) == [engine |-> a :> x @@ b :> y, database |-> e1 :> d1 @@ e2 :> d1]

\* What two clients of one engine do, two engines can do, too, unless an
\* engine remembers something of it or holds a lock.  Databases matter to the
\* adapters that name them in their requests.
HomesOf(p) ==
    CASE p = "networkx" -> {One(e1, e1)}
      [] p \in {"turbopuffer_graph", "pggraph"} -> {One(e1, e1), One(e1, e2)}
      [] p \in GraphProviders \cup PointsAreNodes -> {One(e1, e2)}
      [] p \in {"weaviate", "milvus", "opengauss", "redis", "valkey", "azure", "opensearch", "duckdb"} ->
           {One(e1, e1), One(e1, e2)}
      [] OTHER -> {One(e1, e1), One(e1, e2), [One(e1, e2) EXCEPT !.database = e1 :> d1 @@ e2 :> d2]}

CONSTANT InUse   \* the providers

\* Nothing but the first states tells clients or engines apart.
Symmetry == Permutations(Clients) \cup Permutations(Engines)

MCJobs == [p \in InUse |-> JobsOf(p)]
MCServers == [p \in InUse |-> ServersOf(p)]
MCHomes == [p \in InUse |-> HomesOf(p)]
=============================================================================
