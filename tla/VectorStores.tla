---------------------------- MODULE VectorStores ----------------------------
(* The adapters for vector databases, the calls clients make to an adapter   *)
(* of any kind and the servers they start from, and what it takes to honour  *)
(* what a returned call is owed.                                             *)
EXTENDS GraphStore

CONSTANTS
    Jobs,      \* [providers -> the calls clients make]
    Servers,   \* [providers -> the servers they start from]
    Homes      \* [providers -> who uses which engine and database]

Qdrant == INSTANCE QdrantAdapter
SingleStore == INSTANCE SingleStoreAdapter
Weaviate == INSTANCE WeaviateAdapter
Milvus == INSTANCE MilvusAdapter
OpenGauss == INSTANCE OpenGaussAdapter
Redis == INSTANCE RedisAdapter
Valkey == INSTANCE ValkeyAdapter
Turbopuffer == INSTANCE TurbopufferAdapter
Pinecone == INSTANCE PineconeAdapter
Azure == INSTANCE AzureAdapter
OpenSearch == INSTANCE OpenSearchAdapter
DuckDB == INSTANCE DuckDBAdapter

Providers == DOMAIN Jobs

\* Those that keep vectors only.
Vector == {"qdrant", "singlestore", "weaviate", "milvus", "opengauss", "redis", "valkey", "turbopuffer",
           "pinecone", "azure", "opensearch", "duckdb"}

\* The arguments of a call to provider p.
IsJob(p, job) ==
    /\ job.op # "none"
    /\ job.op \in {"create", "put", "delete"} => job.coll \in Collections /\ job.ids \subseteq Ids
    /\ job.op \in {"add_node", "add_nodes"} => job.ids \subseteq Ids
    /\ job.op = "put" => IsFiniteSet(job.ids)
    /\ job.op \in {"put", "add_node", "add_nodes"} => job.rev \in Revisions
    /\ job.op \in {"weigh_nodes", "judge_nodes", "weigh_edges"} => p = "typedb"

\* What provider p has written before: each point in its collection.
IsServer(p, s) ==
    /\ {"colls", "ready", "points", "nodes", "edges"} \subseteq DOMAIN s
    /\ IsFiniteSet(s.points)
    /\ \A q \in s.points :
         /\ q.coll \in Collections /\ q.rev = 1
         /\ IF p = "turbopuffer" THEN <<q.db, q.coll>> \in s.colls
            ELSE p \in LazyCollections \/ q.coll \in s.colls
    /\ \A n \in s.nodes : n.rev = 1
    /\ p \in Vector => s.nodes = {} /\ s.edges = {}

ASSUME StoresAssumption ==
    /\ Collections \cap {"node", "edge", "weight", "truth", "tag"} = {}
    /\ (Ids \cup {None}) \cap (Ids \X Labels \X Ids) = {}
    /\ \A p \in Providers :
         /\ \A job \in Jobs[p] : IsJob(p, job)
         /\ \A s \in Servers[p] : IsServer(p, s)
         /\ \A home \in Homes[p] :
              home.engine \in [Clients -> Engines] /\ home.database \in [Engines -> Databases]

\* The next request of c's method, or its return.
VectorNext(c) ==
    \/ provider = "qdrant" /\ Qdrant!Next(c)
    \/ provider = "singlestore" /\ SingleStore!Next(c)
    \/ provider = "weaviate" /\ Weaviate!Next(c)
    \/ provider = "milvus" /\ Milvus!Next(c)
    \/ provider = "opengauss" /\ OpenGauss!Next(c)
    \/ provider = "redis" /\ Redis!Next(c)
    \/ provider = "valkey" /\ Valkey!Next(c)
    \/ provider = "turbopuffer" /\ Turbopuffer!Next(c)
    \/ provider = "pinecone" /\ Pinecone!Next(c)
    \/ provider = "azure" /\ Azure!Next(c)
    \/ provider = "opensearch" /\ OpenSearch!Next(c)
    \/ provider = "duckdb" /\ DuckDB!Next(c)

\* A request that fails.
VectorFails(c) ==
    \/ provider = "qdrant" /\ Qdrant!Fails(c)
    \/ provider = "singlestore" /\ SingleStore!Fails(c)
    \/ provider = "weaviate" /\ Weaviate!Fails(c)
    \/ provider = "milvus" /\ Milvus!Fails(c)
    \/ provider = "opengauss" /\ OpenGauss!Fails(c)
    \/ provider = "redis" /\ Redis!Fails(c)
    \/ provider = "valkey" /\ Valkey!Fails(c)
    \/ provider = "turbopuffer" /\ Turbopuffer!Fails(c)
    \/ provider = "pinecone" /\ Pinecone!Fails(c)
    \/ provider = "azure" /\ Azure!Fails(c)
    \/ provider = "opensearch" /\ OpenSearch!Fails(c)
    \/ provider = "duckdb" /\ DuckDB!Fails(c)

\* Tasks that outlive their call.
Background(e) ==
    /\ provider = "valkey" /\ Valkey!LeftBehind(e)
    /\ UNCHANGED <<provider, engine, database, calls, faults>>
----------------------------------------------------------------------------
(* What is owed. *)

Quiet == \A c \in Clients : ~Running(c)

HasPoint(p) == \E q \in server.points : <<q.coll, q.id, q.db, q.rev>> = <<p.coll, p.id, p.db, p.rev>>

HasCollectionOf(p) ==
    CASE provider = "turbopuffer" -> Exists(<<p.db, p.coll>>)
      [] provider \in {"moss", "arcadedb", "helix"} -> TRUE
      [] OTHER -> Exists(p.coll)

\* A node that exists is not written again by the adapter of TuringDB.
HasNodeOf(p) ==
    \E n \in server.nodes : n.id = p.id /\ (provider # "turingdb" => n.rev = p.rev)

HasTruth(p) == \E n \in server.nodes : n.id = p.id /\ n.truth = p.rev

HasWeight(p) ==
    \/ \E n \in server.nodes : n.id = p.id /\ n.weight = p.rev
    \/ \E e \in server.edges : Triple(e) = p.id /\ e.weight = p.rev

\* What is there for the key of p is a document whose call has failed and that
\* has been written later, by the tasks the call has left behind.
Late(p) ==
    /\ provider = "valkey" /\ ~IsMark(p) /\ p.id # None
    /\ \E q \in server.points \cap untold : <<q.coll, q.id>> = <<p.coll, p.id>>

\* p has been lost, and whoever was told of it has not been told of that.  The
\* file of networkx is compared when it is not being written.
Excused(p) == p \in untold \/ Late(p) \/ (provider = "networkx" /\ server.file = "truncated")

\* p: what is owed after a write.
Stored(p) ==
    \/ Excused(p)
    \/ p.coll = "node" /\ HasNodeOf(p)
    \/ p.coll = "edge" /\ p.id \in Triples
    \/ p.coll = "weight" /\ HasWeight(p)
    \/ p.coll = "truth" /\ HasTruth(p)
    \/ ~IsMark(p) /\ HasCollectionOf(p) /\ (p.id # None => HasPoint(p))

\* p: a tombstone.  With two indexes of Moss an engine deletes from one.
\* ArcadeDB has the vector of a node in a vertex of its own.
Gone(p) ==
    \/ Excused(p)
    \/ provider = "moss" /\ Cardinality(server.colls) > 1
    \/ /\ p.coll = "node" /\ p.id \notin NodeIds /\ Incident({p.id}) = {}
       /\ provider = "arcadedb" => \A q \in server.points : q.id # p.id
    \/ p.coll = "tag" /\ \A n \in server.nodes : n.id = p.id[1] => p.id[2] \notin n.sets
    \/ ~IsMark(p) /\ \A q \in server.points :
         <<q.coll, q.id>> = <<p.coll, p.id>> => provider \in SeparateIds /\ q.db # p.db

\* p: what there was when a sweeping call began.
Absent(p) ==
    CASE p.coll = "node" -> p.id \notin NodeIds
      [] p.coll = "edge" -> p.id \notin Triples
      [] p.id = None -> IF provider = "turbopuffer" THEN ~Exists(<<p.db, p.coll>>) ELSE ~Exists(p.coll)
      [] OTHER -> \A q \in server.points : <<q.coll, q.id, q.db>> # <<p.coll, p.id, p.db>>

Swept(c) == call[c].op \in Sweeping /\ call'[c].op = "none" /\ call'[c].result = "ok"

Emptied(c) == \A p \in call[c].found : (p \in untold \/ Absent(p))'
=============================================================================
