------------------------------- MODULE Stores -------------------------------
(* The database adapters, one of them in use for a whole behaviour, with    *)
(* the engines that share its server, and what they owe their callers.      *)
EXTENDS VectorStores

Moss == INSTANCE MossAdapter
Memgraph == INSTANCE MemgraphAdapter
TuringDB == INSTANCE TuringDBAdapter
ArcadeDBGraph == INSTANCE ArcadeDBGraphAdapter
Spanner == INSTANCE SpannerAdapter
TypeDB == INSTANCE TypeDBGraphAdapter
TurbopufferGraph == INSTANCE TurbopufferGraphAdapter
NetworkX == INSTANCE NetworkXAdapter
PgGraph == INSTANCE PgGraphAdapter
Falkor == INSTANCE FalkorAdapter
ArcadeDB == INSTANCE ArcadeDBAdapter
Helix == INSTANCE HelixAdapter

\* Of one file or one graph; the others have vector collections.
Graphs == {"typedb", "memgraph", "turingdb", "arcadedb_graph", "spanner", "turbopuffer_graph", "networkx",
           "pggraph"}
          \cup PointsAreNodes

\* What an engine remembers when it is made.
NewMemo(e, mode) ==
    CASE provider = "moss" -> Moss!Memo(e)
      [] provider = "networkx" -> NetworkX!NewGraph
      [] provider = "pggraph" -> PgGraph!Memo(mode)
      [] OTHER -> {}

\* What the server holds before the calls has been written by earlier ones.
Found ==
    {p \in [coll : Collections, id : Ids, db : Databases, rev : {1}] :
       /\ provider # "falkor"
       /\ \E q \in server.points : <<p.coll, p.id, p.db>> = <<q.coll, q.id, q.db>>}
    \cup {NodeMark(i, 1) : i \in NodeIds} \cup {EdgeMark(t, 1) : t \in Triples}

Init ==
    /\ provider \in Providers
    /\ \E home \in Homes[provider] : engine = home.engine /\ database = home.database
    /\ server \in Servers[provider]
    /\ call = [c \in Clients |-> Idle("none")]
    /\ lock = [e \in Engines |-> None]
    /\ busy = [e \in Engines |-> None]
    /\ \E mode \in IF provider = "pggraph" THEN PgGraph!Modes ELSE {"none"} :
         memo = [e \in Engines |-> NewMemo(e, mode)]
    /\ calls = 0 /\ faults = 0 /\ untold = {}
    /\ due = Found \cup (IF provider \in LazyCollections THEN {}
                         ELSE {Created(p.coll, p.db) : p \in server.points})

Step(c) ==
    /\ MayRun(c)
    /\ \/ VectorNext(c)
       \/ provider = "moss" /\ Moss!Next(c)
       \/ provider = "memgraph" /\ Memgraph!Next(c)
       \/ provider = "turingdb" /\ TuringDB!Next(c)
       \/ provider = "arcadedb_graph" /\ ArcadeDBGraph!Next(c)
       \/ provider = "spanner" /\ Spanner!Next(c)
       \/ provider = "typedb" /\ TypeDB!Next(c)
       \/ provider = "turbopuffer_graph" /\ TurbopufferGraph!Next(c)
       \/ provider = "networkx" /\ NetworkX!Next(c)
       \/ provider = "pggraph" /\ PgGraph!Next(c)
       \/ provider = "falkor" /\ Falkor!Next(c)
       \/ provider = "arcadedb" /\ ArcadeDB!Next(c)
       \/ provider = "helix" /\ Helix!Next(c)
    /\ UNCHANGED <<provider, engine, database, calls, faults>>

Fault(c) ==
    /\ MayRun(c)
    /\ faults < MaxFaults
    /\ faults' = faults + 1
    /\ \/ VectorFails(c)
       \/ provider = "moss" /\ Moss!Fails(c)
       \/ provider = "memgraph" /\ Memgraph!Fails(c)
       \/ provider = "turingdb" /\ TuringDB!Fails(c)
       \/ provider = "arcadedb_graph" /\ ArcadeDBGraph!Fails(c)
       \/ provider = "spanner" /\ Spanner!Fails(c)
       \/ provider = "typedb" /\ TypeDB!Fails(c)
       \/ provider = "turbopuffer_graph" /\ TurbopufferGraph!Fails(c)
       \/ provider = "networkx" /\ NetworkX!Fails(c)
       \/ provider = "pggraph" /\ PgGraph!Fails(c)
       \/ provider = "falkor" /\ Falkor!Fails(c)
       \/ provider = "arcadedb" /\ ArcadeDB!Fails(c)
       \/ provider = "helix" /\ Helix!Fails(c)
    /\ UNCHANGED <<provider, engine, database, calls>>

Next ==
    \/ \E c \in Clients : (\E job \in Jobs[provider] : Begin(c, job)) \/ Step(c) \/ Fault(c)
    \/ \E e \in Engines : Background(e)

Spec == Init /\ [][Next]_vars

VectorReads(e) ==
    CASE provider = "qdrant" -> Qdrant!Reads(e)
      [] provider = "singlestore" -> SingleStore!Reads(e)
      [] provider = "weaviate" -> Weaviate!Reads(e)
      [] provider = "milvus" -> Milvus!Reads(e)
      [] provider = "opengauss" -> OpenGauss!Reads(e)
      [] provider = "redis" -> Redis!Reads(e)
      [] provider = "valkey" -> Valkey!Reads(e)
      [] provider = "turbopuffer" -> Turbopuffer!Reads(e)
      [] provider = "pinecone" -> Pinecone!Reads(e)
      [] provider = "azure" -> Azure!Reads(e)
      [] provider = "opensearch" -> OpenSearch!Reads(e)
      [] provider = "moss" -> Moss!Reads(e)
      [] provider = "duckdb" -> DuckDB!Reads(e)
      [] provider = "falkor" -> Falkor!VectorReads(e)
      [] provider = "arcadedb" -> ArcadeDB!VectorReads(e)
      [] provider = "helix" -> Helix!VectorReads(e)

GraphReads(e) ==
    CASE provider = "memgraph" -> Memgraph!Reads
      [] provider = "turingdb" -> TuringDB!Reads
      [] provider = "arcadedb_graph" -> ArcadeDBGraph!Reads
      [] provider = "spanner" -> Spanner!Reads
      [] provider = "typedb" -> TypeDB!Reads
      [] provider = "turbopuffer_graph" -> TurbopufferGraph!Reads
      [] provider = "networkx" -> NetworkX!Reads(e)
      [] provider = "pggraph" -> PgGraph!Reads(e)
      [] provider = "falkor" -> Falkor!GraphReads
      [] provider = "arcadedb" -> ArcadeDB!GraphReads
      [] provider = "helix" -> Helix!GraphReads
----------------------------------------------------------------------------
(* Properties. *)

\* What a call of create_collection, create_data_points, add_node(s),
\* add_edge(s) or a setter of weights or truth states has written when it
\* returns is in the server as it wrote it until a call that may replace or
\* remove it begins, the vectors ArcadeDB and HelixDB store for nodes with it:
\* no check made before an await, no step of another call, no failed request, no
\* retry and no update of another key undoes it, but for the losses the steps in
\* the code that cause them record in untold, and for the late writes of Valkey.
\* A call is owed nothing if one that may replace or remove what it writes
\* (Disturbs) runs at the same time.
AcknowledgedIsStored == \A p \in {q \in due : q.rev # 0 \/ q.id = None} : Stored(p)

\* What delete_data_points, delete_node(s) or remove_belongs_to_set_tags has
\* removed when it returns is gone, with the edges of a node and its vector, and
\* stays so until a call that may write it anew begins: no later step of another
\* call, no repeated request and no stale copy in an engine brings it back, but
\* for the late writes of Valkey, a delete whose look has failed, the rows
\* remove_belongs_to_set_tags of turbopuffer writes back (all in untold) and a
\* second index of Moss.  HelixDB keeps the vectors of deleted nodes.
DeletedIsGone == \A p \in {q \in due : q.rev = 0 /\ q.id # None} : Gone(p)

\* When a prune or delete_graph returns, nothing is left of what there was for it
\* to remove when it began and no call that ran with it may have written anew:
\* neither the list it has read at first, gone stale under other calls, nor
\* another prune or delete makes it leave something out.  A failed drop that is
\* only logged is in untold.
PruneEmpties == [][\A c \in Clients : Swept(c) => Emptied(c)]_vars

\* No edge has lost an end, no id has two nodes, and every node has been
\* written as one.
Whole ==
    /\ \A n \in server.nodes : n.rev # 0
    /\ \A e \in server.edges : {e.from, e.to} \subseteq NodeIds
    /\ Cardinality(NodeIds) = Cardinality(server.nodes)

Joined(x, y, types) == \E e \in OfTypes(types, server.edges) : {e.from, e.to} = {x, y}

Around(x, depth, types) ==
    {y \in NodeIds : \/ y = x
                     \/ Joined(x, y, types)
                     \/ depth = 2 /\ \E z \in NodeIds : Joined(x, z, types) /\ Joined(z, y, types)}

Meant ==
    LET touching(x) == {t \in Triples : Touches(t, {x})}
        others(x) == {y \in NodeIds \ {x} : Joined(x, y, {})}
        within(ids, types) == {t \in Triples : {t[1], t[3]} \subseteq ids /\ (types = {} \/ t[2] \in types)}
        part(ids) == [nodes |-> ids, edges |-> within(ids, {})]
        members(names, op) ==
            LET named == {x \in NodeIds : NameOf[x] \in names}
            IN  named \cup {y \in NodeIds : IF op = "AND" THEN \A x \in named : Joined(x, y, {})
                                            ELSE \E x \in named : Joined(x, y, {})}
        closed(ids) == \A t \in Triples : t[1] \in ids <=> t[3] \in ids
        piece(x) == CHOOSE p \in SUBSET NodeIds :
                      /\ x \in p /\ closed(p)
                      /\ \A q \in SUBSET p : x \in q /\ closed(q) => q = p
    IN  Answers(LAMBDA ids : ids \cap NodeIds, LAMBDA ts : ts \cap Triples, touching, others, touching,
                LAMBDA ids, depth, types :
                    LET near == UNION {Around(x, depth, types) : x \in ids \cap NodeIds}
                    IN  [nodes |-> near, edges |-> within(near, types)],
                part(NodeIds), LAMBDA names, op : part(members(names, op)),
                LAMBDA ids : part(ids \cap NodeIds),
                [counts |-> [nodes |-> Cardinality(NodeIds), edges |-> Cardinality(server.edges)],
                 components |-> Sizes({piece(x) : x \in NodeIds})],
                NodeIds = {})

\* Answers that have nothing to do with the question.
Differs == {<<"arcadedb_graph", "has_edges">>, <<"redis", "get_collection_names">>,
            <<"falkor", "get_collection_names">>, <<"helix", "get_collection_names">>}

\* The answer may leave something out: it tells of nothing that is not there.
Partial ==
    {<<"arcadedb_graph", "get_nodeset_subgraph">>, <<"turingdb", "get_nodeset_subgraph">>,
     <<"networkx", "get_nodeset_subgraph">>, <<"arcadedb", "get_nodeset_subgraph">>,
     <<"helix", "get_nodeset_subgraph">>, <<"turbopuffer_graph", "get_neighborhood">>}

\* The numbers of nodes and edges are right; those of components are not there,
\* or count the graph as one.
Coarse == {<<p, "get_graph_metrics">> :
             p \in {"arcadedb_graph", "turbopuffer_graph", "falkor", "arcadedb", "helix"}}

\* The answer has edges from the node asked for, whichever end it is.
Unoriented == {<<"memgraph", "get_edges">>, <<"arcadedb_graph", "get_edges">>,
               <<"typedb", "get_edges">>,
               <<"turingdb", "get_connections">>, <<"spanner", "get_connections">>,
               <<"falkor", "get_edges">>, <<"arcadedb", "get_edges">>}

MayRaise == {<<"memgraph", "get_nodeset_subgraph">>, <<"arcadedb_graph", "get_neighborhood">>}

\* The answer can have edges of other types between the nodes it reaches.
Untyped == {<<"pggraph", "get_neighborhood">>, <<"falkor", "get_neighborhood">>,
            <<"arcadedb", "get_neighborhood">>}

Undirected(triples) == {<<{t[1], t[3]}, t[2]>> : t \in triples}

Agrees(question, answer, meant) ==
    CASE <<provider, question>> \in Differs -> TRUE
      [] <<provider, question>> = <<"memgraph", "has_edges">> -> answer \subseteq meant
      [] <<provider, question>> = <<"networkx", "get_edges">> ->
           \A x \in DOMAIN meant : answer[x] = {<<t[1], t[3]>> : t \in meant[x]}
      [] <<provider, question>> \in Coarse -> answer.counts = meant.counts
      [] <<provider, question>> \in Partial ->
           \A x \in DOMAIN meant :
             answer[x] = Raised \/ /\ answer[x].nodes \subseteq NodeIds
                                   /\ Undirected(answer[x].edges) \subseteq Undirected(Triples)
      [] <<provider, question>> \in Unoriented ->
           \A x \in DOMAIN meant : Undirected(answer[x]) = Undirected(meant[x])
      [] <<provider, question>> \in MayRaise -> \A x \in DOMAIN meant : answer[x] \in {meant[x], Raised}
      [] <<provider, question>> = <<"falkor", "get_graph_data">> -> answer \in {meant, Raised}
      [] <<provider, question>> \in Untyped ->
           \A x \in DOMAIN meant : /\ answer[x].nodes = meant[x].nodes
                                  /\ meant[x].edges \subseteq answer[x].edges
      [] OTHER -> answer = meant

GraphReadsAgree(e) ==
    LET answers == GraphReads(e)
        meant == Meant
    IN  \A question \in DOMAIN answers : Agrees(question, answers[question], meant[question])

\* Adapters whose searches see the points of their engine's database only.
Tenants == {"qdrant", "singlestore", "turbopuffer", "moss"}

Own(e) == IF provider = "falkor" THEN AsPoints(e, server.nodes)
          ELSE {p \in server.points : provider \in Tenants => p.db = database[e]}

\* Questions about a collection that is there, and for Milvus has its index.
Answerable(e, k) ==
    /\ \E p \in Own(e) : p.coll = k
    /\ provider \in LazyCollections \/ Exists(k)
    /\ provider = "milvus" => k \in server.ready

\* The filter of a search as the adapter hears it: batch_search has no operator
\* there, and searches with OR; openGauss does not look at the node sets at all.
Heard(f, names, op) ==
    CASE provider \in {"weaviate", "azure", "opensearch", "duckdb", "milvus", "valkey"} /\ f = "batch_search" ->
           <<names, "OR">>
      [] provider = "opengauss" -> <<{}, "OR">>
      [] OTHER -> <<names, op>>

\* What a search is to find.
Near(e, k, filter) ==
    {p \in Own(e) : p.coll = k /\ IF filter[2] = "AND" THEN filter[1] \subseteq BelongsTo[p.id]
                                  ELSE filter[1] = {} \/ BelongsTo[p.id] \cap filter[1] # {}}

\* No vector of HelixDB has a node set, and batch_search of Qdrant finds nothing.
FindsNone(f, names) == (provider = "helix" /\ names # {}) \/ (provider = "qdrant" /\ f = "batch_search")

\* retrieve of Qdrant and Moss has the points of every database, and that of
\* the hybrids the nodes, of other collections, too.
Retrieved(e, k, ids, hits) ==
    LET meant == {p \in Own(e) : p.coll = k /\ p.id \in ids}
    IN  \/ /\ provider \in {"qdrant", "moss"}
           /\ meant \subseteq hits /\ \A p \in hits : p.coll = k /\ p.id \in ids
        \/ provider \in PointsAreNodes /\ {p.id : p \in hits} \subseteq ids \cap NodeIds
        \/ provider \notin {"qdrant", "moss"} \cup PointsAreNodes /\ hits = meant

VectorReadsAgree(e) ==
    LET answers == VectorReads(e)
    IN  /\ \/ <<provider, "get_collection_names">> \in Differs
           \/ {p.coll : p \in Own(e)} \cap server.colls \subseteq answers.get_collection_names
        /\ \A q \in DOMAIN answers.retrieve :
             Answerable(e, q[1]) => /\ answers.retrieve[q].ok
                                    /\ Retrieved(e, q[1], q[2], answers.retrieve[q].hits)
        /\ \A f \in {"search", "batch_search"} : \A q \in DOMAIN answers[f] :
             Answerable(e, q[1]) =>
               answers[f][q] = Hits(IF FindsNone(f, q[2]) THEN {} ELSE Near(e, q[1], Heard(f, q[2], q[3])))

InStep(e) ==
    CASE provider = "networkx" -> NetworkX!InStep(e)
      [] provider = "pggraph" -> PgGraph!InStep(e)
      [] provider = "moss" -> Moss!InStep(e)
      [] OTHER -> TRUE

\* When no call is under way, all the reading methods of an engine tell one
\* story, the one the stored points, nodes and edges tell: retrieve, search and
\* batch_search with each node set filter, the neighbourhoods, subgraphs and
\* connections.  Of a graph this is asked while it is whole, and of networkx,
\* pggraph and Moss while the engine's copy, index or choice of an index is that
\* of the server: the duplicates, dangling edges and stale copies some adapters
\* leave are told as they are, each method in its way.  The methods that answer
\* less, or something else, are named above with what they do answer.
ReadsAgree ==
    Quiet => \A e \in {x \in {engine[c] : c \in Clients} : InStep(x)} :
        /\ provider \in Graphs /\ Whole => GraphReadsAgree(e)
        /\ provider \notin Graphs \/ (provider \in PointsAreNodes /\ Whole) => VectorReadsAgree(e)

\* No call waits for a lock, or for an event loop, that nobody will release:
\* as long as calls run, one of them can make its next request.
SomeCallGoesOn == Quiet \/ \E c \in Clients : Running(c) /\ ENABLED Step(c)
=============================================================================
