---------------------------- MODULE StoresProofs ----------------------------
(* Theorems about Stores: that the adapters for vectors keep their promises   *)
(* when composed with everything else a store may do.  The invariants, and    *)
(* what each step of each of them does to these, are in VectorStoresProofs.   *)
EXTENDS Stores, VectorStoresProofs, FiniteSetTheorems

\* What the server holds at first is due, and no call runs.
LEMMA InitIsSafe ==
  ASSUME Init, provider \in Vector
  PROVE VectorInv
<1>1. PICK home \in Homes[provider] : engine = home.engine /\ database = home.database
  BY DEF Init
<1>2. /\ provider \in Providers /\ server \in Servers[provider] /\ IsServer(provider, server)
      /\ engine \in [Clients -> Engines] /\ database \in [Engines -> Databases]
  BY <1>1, StoresAssumption DEF Init
<1>3. \A c \in Clients : IsIdle(c) /\ ~Running(c) /\ DOMAIN call[c] = CallFields
  BY DEF Init, Idle, IsIdle, Running, CallFields
<1>4. TypeInv
  BY <1>2, <1>3 DEF Init, TypeInv, IsServer, ServerFields
<1>5. Housed
  BY <1>2 DEF Housed, IsServer, LazyCollections, Vector
<1>6. DueIsSettled
  <2> SUFFICES ASSUME NEW p \in due
               PROVE Settled(p)
    BY DEF DueIsSettled
  <2>1. CASE p \in Found /\ p.coll \in Collections /\ p.id \in Ids
    <3>1. /\ ~IsMark(p) /\ p.rev = 1
          /\ \E q \in server.points : <<p.coll, p.id, p.db>> = <<q.coll, q.id, q.db>>
      BY <2>1, StoresAssumption DEF Found, IsMark, NodeMark, EdgeMark
    <3>2. PICK q \in server.points : q.coll = p.coll /\ q.id = p.id /\ q.db = p.db
      BY <3>1
    <3>3. q.rev = 1 /\ (IF provider = "turbopuffer" THEN <<q.db, q.coll>> \in server.colls
                          ELSE q.coll \in server.colls)
      BY <1>2 DEF IsServer, Vector, LazyCollections
    <3>4. HasPoint(p)
      BY <3>1, <3>2, <3>3 DEF HasPoint
    <3>5. HasCollectionOf(p)
      BY <3>2, <3>3 DEF HasCollectionOf, Exists, Vector
    <3> QED BY <3>1, <3>4, <3>5 DEF Settled, Stored
  <2>2. ASSUME NEW i \in NodeIds, p = NodeMark(i, 1)
        PROVE Settled(p)
    <3>1. HasNodeOf(p)
      BY <1>2, <2>2 DEF HasNodeOf, NodeIds, IsServer, NodeMark
    <3> QED BY <2>2, <3>1 DEF Settled, Stored, NodeMark
  <2>3. ASSUME NEW t \in Triples, p = EdgeMark(t, 1)
        PROVE Settled(p)
    BY <2>3 DEF Settled, Stored, EdgeMark
  <2>4. ASSUME NEW q \in server.points, p = Created(q.coll, q.db), provider \notin LazyCollections
        PROVE Settled(p)
    <3>1. q.coll \in server.colls /\ q.coll \in Collections
      BY <1>2, <2>4 DEF IsServer, LazyCollections
    <3> QED BY <2>4, <3>1, StoresAssumption DEF Settled, Stored, Created, IsMark, HasCollectionOf, Exists,
         LazyCollections, Vector
  <2>5. CASE p \in Found
    BY <2>1, <2>2, <2>3, <2>5 DEF Found
  <2> QED BY <2>4, <2>5 DEF Init
<1> QED BY <1>3, <1>4, <1>5, <1>6 DEF VectorInv, SafeInv, DueIsFree, CleanIsFree

\* A step changes a vector adapter's stores in one of four ways.
LEMMA NextOfVector ==
  ASSUME VectorInv, provider \in Vector, Next
  PROVE /\ provider' = provider
        /\ \/ \E c \in Clients, job \in Jobs[provider] : Begin(c, job)
           \/ Same /\ \E c \in Clients : VectorNext(c) \/ (VectorFails(c) /\ faults' > 0)
           \/ \E e \in Engines : Background(e)
<1>1. ASSUME NEW c \in Clients, Step(c) \/ Fault(c)
      PROVE Same /\ (VectorNext(c) \/ (VectorFails(c) /\ faults' > 0))
  <2>1. Same /\ (Fault(c) => faults' > 0)
    BY <1>1 DEF Same, Step, Fault, VectorInv, SafeInv, TypeInv
  <2> QED BY <1>1, <2>1 DEF Step, Fault, Vector
<1> QED BY <1>1 DEF Next, Begin, Background, Same

\* The invariant of the twelve adapters for vectors, whatever the other clients and
\* engines do and whichever requests fail: what is due is free of running calls, and
\* is there or gone as it should be or recorded as lost without a word (untold).
THEOREM VectorCallsAreSafe == Spec => [](provider \in Vector => VectorInv)
<1>1. Init => (provider \in Vector => VectorInv)
  BY InitIsSafe
<1>2. (provider \in Vector => VectorInv) /\ [Next]_vars => (provider \in Vector => VectorInv)'
  <2> SUFFICES ASSUME provider \in Vector => VectorInv, [Next]_vars, (provider \in Vector)'
               PROVE VectorInv'
    OBVIOUS
  <2>1. CASE UNCHANGED vars
    BY <2>1, NothingIsSafe DEF vars
  <2>2. CASE Next
    <3>1. provider' = provider /\ provider \in Vector /\ VectorInv
      BY <2>2 DEF Next, Begin, Step, Fault, Background
    <3> QED BY <2>2, <3>1, NextOfVector, BeginIsSafe, StepIsSafe, BackgroundIsSafe
  <2> QED BY <2>1, <2>2
<1> QED BY <1>1, <1>2, PTL DEF Spec

\* Of the twelve adapters for vectors: what a call that no other disturbed has
\* written when it returns stays in the server as it wrote it until a call that may
\* replace or remove it begins, but for what untold records: documents that
\* Weaviate, Azure or OpenSearch refuse while the call returns, rows of another
\* database in a collection a prune of Qdrant or SingleStore drops, and keys on
\* which a document lands that a failed call of Valkey has left to write.
THEOREM VectorsAreStored == Spec => [](provider \in Vector => AcknowledgedIsStored)
<1>1. VectorInv => AcknowledgedIsStored
  BY DEF VectorInv, SafeInv, DueIsSettled, Settled, AcknowledgedIsStored
<1> QED BY <1>1, VectorCallsAreSafe, PTL

\* Of the same: what a call that no other disturbed has removed when it returns
\* stays away until a call that may write it anew begins, but for what untold
\* records: deletes of Turbopuffer and DuckDB whose look for the collection has
\* failed, and documents a failed call of Valkey has left to write.
THEOREM VectorsAreGone == Spec => [](provider \in Vector => DeletedIsGone)
<1>1. VectorInv => DeletedIsGone
  BY DEF VectorInv, SafeInv, DueIsSettled, Settled, DeletedIsGone
<1> QED BY <1>1, VectorCallsAreSafe, PTL

----------------------------------------------------------------------------
(* What searches find.                                                       *)

\* Searches that are given no limit have one where the service or the adapter sets
\* one: batch_search of Pinecone and Azure AI Search asks for 15, turbopuffer for
\* 100, and OpenSearch returns no more than 10000.
Limits == [pinecone |-> 15, azure |-> 15, turbopuffer |-> 100, opensearch |-> 10000]

\* What a collection holds for engine e.
InOwn(e, k) == {p \in Own(e) : p.coll = k}

\* No collection has outgrown the limit of a search.
WithinLimits ==
    provider \in DOMAIN Limits =>
      \A e \in Engines, k \in Collections : Cardinality(InOwn(e, k)) <= Limits[provider]

\* What makes the answers of searches well-defined: the points are finitely many,
\* and each lies in a collection, also those that a failed call of Valkey has left
\* to write.
PointsInv ==
    /\ VectorInv
    /\ IsFiniteSet(server.points)
    /\ \A p \in server.points : p.coll \in Collections
    /\ provider = "valkey" => \A e \in Engines : \A p \in memo[e] : p.coll \in Collections

\* What a search is asked: a collection, node sets and the operator between them.
Questions == Collections \X (SUBSET Sets) \X {"OR", "AND"}

\* What it is to find.
Sought(e, q) == Near(e, q[1], <<q[2], q[3]>>)

\* The same question without an operator.
AsOr(q) == <<q[1], q[2], "OR">>

\* What a collection that has points holds.
LEMMA OwnPoints ==
  ASSUME PointsInv, provider \in Vector, NEW e \in Engines, NEW k
  PROVE /\ InOwn(e, k) \subseteq InColl(k)
        /\ IsFiniteSet(InColl(k)) /\ Cardinality(InColl(k)) \in Nat
        /\ IsFiniteSet(InOwn(e, k)) /\ Cardinality(InOwn(e, k)) \in Nat
        /\ Cardinality(InOwn(e, k)) <= Cardinality(InColl(k))
        /\ Answerable(e, k) => InOwn(e, k) # {} /\ Cardinality(InOwn(e, k)) # 0 /\ Cardinality(InColl(k)) # 0
<1>1. InOwn(e, k) \subseteq InColl(k) /\ InColl(k) \subseteq server.points
  <2>1. provider = "falkor" => FALSE
    BY DEF Vector
  <2> QED BY <2>1 DEF InOwn, Own, InColl
<1>2. IsFiniteSet(InColl(k)) /\ IsFiniteSet(InOwn(e, k))
  BY <1>1, FS_Subset DEF PointsInv
<1> QED BY <1>1, <1>2, FS_Subset, FS_CardinalityType, FS_EmptySet DEF Answerable, InOwn

\* What a search with a filter starts from.
Filtered(e, q) ==
    IF q[2] = {} THEN InOwn(e, q[1])
    ELSE IF q[3] = "AND" THEN {p \in InOwn(e, q[1]) : q[2] \subseteq BelongsTo[p.id]}
    ELSE {p \in InOwn(e, q[1]) : BelongsTo[p.id] \cap q[2] # {}}

\* A search with room for what the collection holds finds all that its filter lets
\* through.
LEMMA AllAreNearest ==
  ASSUME PointsInv, provider \in Vector, NEW e \in Engines, NEW q \in Questions
  PROVE /\ Filtered(e, q) = Sought(e, q)
        /\ Cardinality(Filtered(e, q)) <= Cardinality(InOwn(e, q[1]))
        /\ Cardinality(Filtered(e, q)) <= Cardinality(InColl(q[1]))
        /\ Cardinality(Filtered(e, q)) \in Nat
<1>1. Filtered(e, q) \in SUBSET InOwn(e, q[1])
  BY DEF Filtered
<1>2. q[3] \in {"OR", "AND"}
  BY DEF Questions
<1>3. Filtered(e, q) = Sought(e, q)
  BY <1>2 DEF Filtered, Sought, Near, InOwn
<1>4. IsFiniteSet(Filtered(e, q)) /\ Cardinality(Filtered(e, q)) <= Cardinality(InOwn(e, q[1]))
  BY <1>1, OwnPoints, FS_Subset
<1>5. Cardinality(Filtered(e, q)) \in Nat
  BY <1>4, FS_CardinalityType
<1> QED BY <1>3, <1>4, <1>5, OwnPoints

\* What a retrieve is to find.
Held(e, q) == {p \in Own(e) : p.coll = q[1] /\ p.id \in q[2]}

\* A retrieve has it, and more only where the adapter does not look at the database.
RetrievesAll(e, q) ==
    VectorReads(e).retrieve[q].ok /\ Retrieved(e, q[1], q[2], VectorReads(e).retrieve[q].hits)

\* A retrieve that has just that is right for every adapter.
LEMMA HeldAreRetrieved ==
  ASSUME provider \in Vector, NEW e \in Engines, NEW q \in Collections \X SUBSET Ids,
         VectorReads(e).retrieve[q] = Hits(Held(e, q))
  PROVE RetrievesAll(e, q)
<1>1. VectorReads(e).retrieve[q].ok /\ VectorReads(e).retrieve[q].hits = Held(e, q)
  BY DEF Hits
<1>2. \A p \in Held(e, q) : p.coll = q[1] /\ p.id \in q[2]
  BY DEF Held
<1>3. provider \notin PointsAreNodes
  BY DEF Vector, PointsAreNodes
<1> QED BY <1>1, <1>2, <1>3 DEF RetrievesAll, Retrieved, Held

\* What the answers of a vector adapter have to be.
LEMMA AnswersAgree ==
  ASSUME provider \in Vector, NEW e \in Engines,
         DOMAIN VectorReads(e).retrieve = Collections \X SUBSET Ids,
         DOMAIN VectorReads(e).search = Questions, DOMAIN VectorReads(e).batch_search = Questions,
         \/ <<provider, "get_collection_names">> \in Differs
         \/ \A k \in server.colls : InOwn(e, k) # {} => k \in VectorReads(e).get_collection_names,
         \A q \in Collections \X SUBSET Ids : Answerable(e, q[1]) => RetrievesAll(e, q),
         \A q \in Questions : Answerable(e, q[1]) =>
           VectorReads(e).search[q]
             = Hits(IF FindsNone("search", q[2]) THEN {} ELSE Near(e, q[1], Heard("search", q[2], q[3]))),
         \A q \in Questions : Answerable(e, q[1]) =>
           VectorReads(e).batch_search[q]
             = Hits(IF FindsNone("batch_search", q[2]) THEN {}
                    ELSE Near(e, q[1], Heard("batch_search", q[2], q[3])))
  PROVE VectorReadsAgree(e)
<1>1. \/ <<provider, "get_collection_names">> \in Differs
      \/ {p.coll : p \in Own(e)} \cap server.colls \subseteq VectorReads(e).get_collection_names
  BY DEF InOwn
<1>2. \A q \in DOMAIN VectorReads(e).retrieve :
        Answerable(e, q[1]) => /\ VectorReads(e).retrieve[q].ok
                               /\ Retrieved(e, q[1], q[2], VectorReads(e).retrieve[q].hits)
  BY DEF RetrievesAll
<1>3. \A f \in {"search", "batch_search"} : \A q \in DOMAIN VectorReads(e)[f] :
        Answerable(e, q[1]) =>
          VectorReads(e)[f][q] = Hits(IF FindsNone(f, q[2]) THEN {} ELSE Near(e, q[1], Heard(f, q[2], q[3])))
  OBVIOUS
<1> QED BY <1>1, <1>2, <1>3, Zenon DEF VectorReadsAgree

\* Those whose batch_search has no operator.
OrOnly == {"weaviate", "azure", "opensearch", "duckdb", "milvus", "valkey"}

\* What the answers of most of them have to be: those that look at the filter.
LEMMA SoughtAgree ==
  ASSUME provider \in Vector \ {"qdrant", "opengauss"}, NEW e \in Engines,
         DOMAIN VectorReads(e).retrieve = Collections \X SUBSET Ids,
         DOMAIN VectorReads(e).search = Questions, DOMAIN VectorReads(e).batch_search = Questions,
         \/ <<provider, "get_collection_names">> \in Differs
         \/ \A k \in server.colls : InOwn(e, k) # {} => k \in VectorReads(e).get_collection_names,
         \A q \in Collections \X SUBSET Ids : Answerable(e, q[1]) => VectorReads(e).retrieve[q] = Hits(Held(e, q)),
         \A q \in Questions : Answerable(e, q[1]) => VectorReads(e).search[q] = Hits(Sought(e, q)),
         \A q \in Questions : Answerable(e, q[1]) =>
           VectorReads(e).batch_search[q] = Hits(Sought(e, IF provider \in OrOnly THEN AsOr(q) ELSE q))
  PROVE VectorReadsAgree(e)
<1>1. \A q \in Collections \X SUBSET Ids : Answerable(e, q[1]) => RetrievesAll(e, q)
  BY HeldAreRetrieved
<1>2. \A f, names : ~FindsNone(f, names)
  BY DEF FindsNone, Vector
<1>3. \A q : /\ Sought(e, q) = Near(e, q[1], Heard("search", q[2], q[3]))
             /\ Sought(e, IF provider \in OrOnly THEN AsOr(q) ELSE q)
                  = Near(e, q[1], Heard("batch_search", q[2], q[3]))
  BY DEF Sought, AsOr, Heard, OrOnly
<1> QED BY <1>1, <1>2, <1>3, AnswersAgree

\* Qdrant answers by the points of its database.
LEMMA QdrantReads ==
  ASSUME PointsInv, provider = "qdrant", NEW e \in Engines
  PROVE VectorReadsAgree(e)
<1>1. /\ VectorReads(e).get_collection_names = Qdrant!GetCollectionNames(e)
      /\ DOMAIN VectorReads(e).retrieve = Collections \X SUBSET Ids
      /\ DOMAIN VectorReads(e).search = Questions /\ DOMAIN VectorReads(e).batch_search = Questions
      /\ \A q \in Collections \X SUBSET Ids : VectorReads(e).retrieve[q] = Qdrant!Retrieve(e, q[1], q[2])
      /\ \A q \in Questions : VectorReads(e).search[q] = Qdrant!Search(e, q[1], q[2], q[3])
      /\ \A q \in Questions : VectorReads(e).batch_search[q] = Qdrant!BatchSearch(e, q[1], q[2], q[3])
  <2>1. VectorReads(e) = Qdrant!Reads(e)
    BY DEF VectorReads
  <2> QED BY <2>1 DEF Qdrant!Reads, Qdrant!VectorAnswers, Questions
<1>2. \A k : InOwn(e, k) = Qdrant!InColl(k) \cap Qdrant!OfDb(database[e]) /\ InColl(k) = Qdrant!InColl(k)
  BY DEF InOwn, Own, Tenants, InColl, Qdrant!InColl, Qdrant!OfDb
<1>3. \A k \in server.colls : InOwn(e, k) # {} => k \in VectorReads(e).get_collection_names
  BY <1>1, <1>2 DEF Qdrant!GetCollectionNames
<1>4. ASSUME NEW q \in Questions, Answerable(e, q[1])
      PROVE VectorReads(e).search[q] = Hits(Sought(e, q))
  <2>1. Qdrant!Exists(q[1]) /\ Cardinality(InColl(q[1])) # 0
    BY <1>4, OwnPoints DEF Answerable, LazyCollections, Qdrant!Exists, Exists, Vector
  <2>2. /\ Qdrant!Cardinality(Qdrant!InColl(q[1])) = Cardinality(InColl(q[1]))
        /\ Qdrant!Cardinality(Filtered(e, q)) = Cardinality(Filtered(e, q))
    BY <1>2, Zenon DEF Qdrant!Cardinality, Cardinality
  <2>3. q[3] \in {"OR", "AND"}
    BY DEF Questions
  <2>4. Qdrant!Search(e, q[1], q[2], q[3])
          = Qdrant!Hits(Qdrant!Nearest(Qdrant!Cardinality(Qdrant!InColl(q[1])), Filtered(e, q)))
    BY <1>2, <2>1, <2>2, <2>3 DEF Qdrant!Search, Filtered, Qdrant!AllOf, Qdrant!AnyOf
  <2>5. Qdrant!Nearest(Qdrant!Cardinality(Qdrant!InColl(q[1])), Filtered(e, q)) = Sought(e, q)
    BY <2>2, AllAreNearest DEF Qdrant!Nearest, Vector
  <2> QED BY <1>1, <2>4, <2>5 DEF Qdrant!Hits, Hits
<1>5. ASSUME NEW q \in Collections \X SUBSET Ids, Answerable(e, q[1])
      PROVE RetrievesAll(e, q)
  <2>1. Qdrant!Exists(q[1])
    BY <1>5 DEF Answerable, LazyCollections, Qdrant!Exists, Exists
  <2>2. VectorReads(e).retrieve[q] = Hits(Qdrant!Matching(q[1], q[2]))
    BY <1>1, <2>1 DEF Qdrant!Retrieve, Qdrant!Hits, Hits
  <2>3. \A p : p \in Qdrant!Matching(q[1], q[2]) <=> p \in server.points /\ p.coll = q[1] /\ p.id \in q[2]
    BY DEF Qdrant!Matching, Qdrant!InColl
  <2>4. {p \in Own(e) : p.coll = q[1] /\ p.id \in q[2]} \subseteq Qdrant!Matching(q[1], q[2])
    BY <2>3 DEF Own
  <2>5. VectorReads(e).retrieve[q].ok /\ VectorReads(e).retrieve[q].hits = Qdrant!Matching(q[1], q[2])
    BY <2>2 DEF Hits
  <2>6. Retrieved(e, q[1], q[2], Qdrant!Matching(q[1], q[2]))
    BY <2>3, <2>4 DEF Retrieved
  <2> QED BY <2>5, <2>6 DEF RetrievesAll
<1>6. ASSUME NEW q \in Questions, Answerable(e, q[1])
      PROVE VectorReads(e).batch_search[q] = Hits({})
  BY <1>1, <1>6 DEF Qdrant!BatchSearch, Qdrant!Exists, Qdrant!Hits, Hits, Answerable, LazyCollections, Exists
<1>7. \A names, op : /\ FindsNone("batch_search", names) /\ ~FindsNone("search", names)
                     /\ Heard("search", names, op) = <<names, op>>
  BY DEF FindsNone, Heard
<1> QED BY <1>1, <1>3, <1>4, <1>5, <1>6, <1>7, AnswersAgree DEF Vector, Sought

\* SingleStore answers by the points of its database.
LEMMA SingleStoreReads ==
  ASSUME PointsInv, provider = "singlestore", NEW e \in Engines
  PROVE VectorReadsAgree(e)
<1>1. /\ VectorReads(e).get_collection_names = SingleStore!GetCollectionNames(e)
      /\ DOMAIN VectorReads(e).retrieve = Collections \X SUBSET Ids
      /\ DOMAIN VectorReads(e).search = Questions /\ DOMAIN VectorReads(e).batch_search = Questions
      /\ \A q \in Collections \X SUBSET Ids : VectorReads(e).retrieve[q] = SingleStore!Retrieve(e, q[1], q[2])
      /\ \A q \in Questions : VectorReads(e).search[q] = SingleStore!Search(e, q[1], q[2], q[3])
      /\ \A q \in Questions : VectorReads(e).batch_search[q] = SingleStore!BatchSearch(e, q[1], q[2], q[3])
  <2>1. VectorReads(e) = SingleStore!Reads(e)
    BY DEF VectorReads
  <2> QED BY <2>1 DEF SingleStore!Reads, SingleStore!VectorAnswers, Questions
<1>2. \A k : /\ InOwn(e, k) = SingleStore!InColl(k) \cap SingleStore!OfDb(database[e])
             /\ InColl(k) = SingleStore!InColl(k)
  BY DEF InOwn, Own, Tenants, InColl, SingleStore!InColl, SingleStore!OfDb
<1>3. \A k : Answerable(e, k) => SingleStore!Exists(k)
  BY DEF Answerable, LazyCollections, Exists, SingleStore!Exists
<1>4. \A k \in server.colls : InOwn(e, k) # {} => k \in VectorReads(e).get_collection_names
  BY <1>1, <1>2 DEF SingleStore!GetCollectionNames
<1>5. ASSUME NEW q \in Collections \X SUBSET Ids, Answerable(e, q[1])
      PROVE VectorReads(e).retrieve[q] = Hits(Held(e, q))
  BY <1>1, <1>2, <1>3, <1>5 DEF SingleStore!Retrieve, SingleStore!Matching, SingleStore!Hits, Hits, Held,
     InOwn
<1>6. \A points : SingleStore!Hits(points) = Hits(points)
  BY DEF SingleStore!Hits, Hits
<1>7. ASSUME NEW q \in Questions
      PROVE /\ SingleStore!Cardinality(SingleStore!InColl(q[1])) = Cardinality(InColl(q[1]))
            /\ SingleStore!Cardinality(InOwn(e, q[1])) = Cardinality(InOwn(e, q[1]))
            /\ SingleStore!Cardinality(Filtered(e, q)) = Cardinality(Filtered(e, q))
  BY <1>2, Zenon DEF SingleStore!Cardinality, Cardinality
<1>8. \A k : Answerable(e, k) => Cardinality(InColl(k)) # 0 /\ Cardinality(InOwn(e, k)) # 0
  BY OwnPoints DEF Vector
<1>9. ASSUME NEW q \in Questions, Answerable(e, q[1])
      PROVE VectorReads(e).search[q] = Hits(Sought(e, q))
  <2>1. q[3] \in {"OR", "AND"}
    BY DEF Questions
  <2>2. SingleStore!Search(e, q[1], q[2], q[3])
          = SingleStore!Hits(SingleStore!Nearest(SingleStore!Cardinality(InOwn(e, q[1])), Filtered(e, q)))
    BY <1>2, <1>3, <1>7, <1>8, <1>9, <2>1 DEF SingleStore!Search, Filtered, SingleStore!AllOf,
       SingleStore!AnyOf, SingleStore!Filtered
  <2>3. SingleStore!Nearest(SingleStore!Cardinality(InOwn(e, q[1])), Filtered(e, q)) = Sought(e, q)
    BY <1>7, AllAreNearest DEF SingleStore!Nearest, Vector
  <2> QED BY <1>1, <2>2, <2>3, <1>6, Zenon
<1>10. \A q \in Questions : VectorReads(e).batch_search[q] = VectorReads(e).search[q]
  BY <1>1 DEF SingleStore!BatchSearch
<1> QED BY <1>1, <1>4, <1>5, <1>9, <1>10, SoughtAgree DEF Vector, OrOnly

\* Weaviate answers by the points in the server.
LEMMA WeaviateReads ==
  ASSUME PointsInv, provider = "weaviate", NEW e \in Engines
  PROVE VectorReadsAgree(e)
<1>1. /\ VectorReads(e).get_collection_names = Weaviate!GetCollectionNames(e)
      /\ DOMAIN VectorReads(e).retrieve = Collections \X SUBSET Ids
      /\ DOMAIN VectorReads(e).search = Questions /\ DOMAIN VectorReads(e).batch_search = Questions
      /\ \A q \in Collections \X SUBSET Ids : VectorReads(e).retrieve[q] = Weaviate!Retrieve(e, q[1], q[2])
      /\ \A q \in Questions : VectorReads(e).search[q] = Weaviate!Search(e, q[1], q[2], q[3])
      /\ \A q \in Questions : VectorReads(e).batch_search[q] = Weaviate!BatchSearch(e, q[1], q[2], q[3])
  <2>1. VectorReads(e) = Weaviate!Reads(e)
    BY DEF VectorReads
  <2> QED BY <2>1 DEF Weaviate!Reads, Weaviate!VectorAnswers, Questions
<1>2. \A k : InOwn(e, k) = Weaviate!InColl(k) /\ InColl(k) = Weaviate!InColl(k)
  BY DEF InOwn, Own, Tenants, InColl, Weaviate!InColl
<1>3. \A k : Answerable(e, k) => Weaviate!Exists(k)
  BY DEF Answerable, LazyCollections, Exists, Weaviate!Exists
<1>4. \A k \in server.colls : InOwn(e, k) # {} => k \in VectorReads(e).get_collection_names
  BY <1>1, <1>2 DEF Weaviate!GetCollectionNames
<1>5. ASSUME NEW q \in Collections \X SUBSET Ids, Answerable(e, q[1])
      PROVE VectorReads(e).retrieve[q] = Hits(Held(e, q))
  BY <1>1, <1>2, <1>3, <1>5 DEF Weaviate!Retrieve, Weaviate!Matching, Weaviate!Hits, Hits, Held, InOwn
<1>6. \A points : Weaviate!Hits(points) = Hits(points)
  BY DEF Weaviate!Hits, Hits
<1>7. ASSUME NEW q \in Questions
      PROVE /\ Weaviate!Cardinality(Weaviate!InColl(q[1])) = Cardinality(InColl(q[1]))
            /\ Weaviate!Cardinality(InOwn(e, q[1])) = Cardinality(InOwn(e, q[1]))
            /\ Weaviate!Cardinality(Filtered(e, q)) = Cardinality(Filtered(e, q))
  BY <1>2, Zenon DEF Weaviate!Cardinality, Cardinality
<1>8. \A k : Answerable(e, k) => Cardinality(InColl(k)) # 0 /\ Cardinality(InOwn(e, k)) # 0
  BY OwnPoints DEF Vector
<1>9. ASSUME NEW q \in Questions
      PROVE /\ Weaviate!AllOf(q[2], Weaviate!InColl(q[1])) =
             {p \in InOwn(e, q[1]) : q[2] \subseteq BelongsTo[p.id]}
            /\ Weaviate!AnyOf(q[2], Weaviate!InColl(q[1])) =
                   {p \in InOwn(e, q[1]) : BelongsTo[p.id] \cap q[2] # {}}
            /\ Weaviate!InColl(q[1]) = InOwn(e, q[1])
  BY <1>2 DEF Weaviate!AllOf, Weaviate!AnyOf
<1>10. ASSUME NEW q \in Questions, Answerable(e, q[1])
      PROVE VectorReads(e).search[q] = Hits(Sought(e, q))
  <2>1. q[3] \in {"OR", "AND"}
    BY DEF Questions
  <2>2. Weaviate!Search(e, q[1], q[2], q[3])
          = Weaviate!Hits(Weaviate!Nearest(Weaviate!Cardinality(Weaviate!InColl(q[1])), Filtered(e, q)))
    BY <1>9, <1>3, <1>7, <1>8, <1>10, <2>1 DEF Weaviate!Search, Filtered
  <2>3. Weaviate!Nearest(Weaviate!Cardinality(Weaviate!InColl(q[1])), Filtered(e, q)) = Sought(e, q)
    BY <1>7, AllAreNearest DEF Weaviate!Nearest, Vector
  <2> QED BY <1>1, <2>2, <2>3, <1>6, Zenon
<1>11. ASSUME NEW q \in Questions, Answerable(e, q[1])
      PROVE VectorReads(e).batch_search[q] = Hits(Sought(e, AsOr(q)))
  <2>1. AsOr(q) \in Questions /\ AsOr(q)[1] = q[1] /\ AsOr(q)[2] = q[2] /\ AsOr(q)[3] = "OR"
    BY DEF Questions, AsOr
  <2>2. VectorReads(e).batch_search[q] = VectorReads(e).search[AsOr(q)]
    BY <1>1, <2>1 DEF Weaviate!BatchSearch
  <2> QED BY <1>10, <1>11, <2>1, <2>2
<1> QED BY <1>1, <1>4, <1>5, <1>10, <1>11, SoughtAgree DEF Vector, OrOnly

\* Milvus answers by the points in the server.
LEMMA MilvusReads ==
  ASSUME PointsInv, provider = "milvus", NEW e \in Engines
  PROVE VectorReadsAgree(e)
<1>1. /\ VectorReads(e).get_collection_names = Milvus!GetCollectionNames(e)
      /\ DOMAIN VectorReads(e).retrieve = Collections \X SUBSET Ids
      /\ DOMAIN VectorReads(e).search = Questions /\ DOMAIN VectorReads(e).batch_search = Questions
      /\ \A q \in Collections \X SUBSET Ids : VectorReads(e).retrieve[q] = Milvus!Retrieve(e, q[1], q[2])
      /\ \A q \in Questions : VectorReads(e).search[q] = Milvus!Search(e, q[1], q[2], q[3])
      /\ \A q \in Questions : VectorReads(e).batch_search[q] = Milvus!BatchSearch(e, q[1], q[2], q[3])
  <2>1. VectorReads(e) = Milvus!Reads(e)
    BY DEF VectorReads
  <2> QED BY <2>1 DEF Milvus!Reads, Milvus!VectorAnswers, Questions
<1>2. \A k : InOwn(e, k) = Milvus!InColl(k) /\ InColl(k) = Milvus!InColl(k)
  BY DEF InOwn, Own, Tenants, InColl, Milvus!InColl
<1>3. \A k : Answerable(e, k) => Milvus!Exists(k) /\ k \in server.ready
  BY DEF Answerable, LazyCollections, Exists, Milvus!Exists
<1>4. \A k \in server.colls : InOwn(e, k) # {} => k \in VectorReads(e).get_collection_names
  BY <1>1, <1>2 DEF Milvus!GetCollectionNames
<1>5. ASSUME NEW q \in Collections \X SUBSET Ids, Answerable(e, q[1])
      PROVE VectorReads(e).retrieve[q] = Hits(Held(e, q))
  BY <1>1, <1>2, <1>3, <1>5 DEF Milvus!Retrieve, Milvus!Matching, Milvus!Hits, Hits, Held, InOwn
<1>6. \A points : Milvus!Hits(points) = Hits(points)
  BY DEF Milvus!Hits, Hits
<1>7. ASSUME NEW q \in Questions
      PROVE /\ Milvus!Cardinality(Milvus!InColl(q[1])) = Cardinality(InColl(q[1]))
            /\ Milvus!Cardinality(InOwn(e, q[1])) = Cardinality(InOwn(e, q[1]))
            /\ Milvus!Cardinality(Filtered(e, q)) = Cardinality(Filtered(e, q))
  BY <1>2, Zenon DEF Milvus!Cardinality, Cardinality
<1>8. \A k : Answerable(e, k) => Cardinality(InColl(k)) # 0 /\ Cardinality(InOwn(e, k)) # 0
  BY OwnPoints DEF Vector
<1>9. ASSUME NEW q \in Questions
      PROVE /\ Milvus!AllOf(q[2], Milvus!InColl(q[1])) =
             {p \in InOwn(e, q[1]) : q[2] \subseteq BelongsTo[p.id]}
            /\ Milvus!AnyOf(q[2], Milvus!InColl(q[1])) =
                   {p \in InOwn(e, q[1]) : BelongsTo[p.id] \cap q[2] # {}}
            /\ Milvus!InColl(q[1]) = InOwn(e, q[1])
  BY <1>2 DEF Milvus!AllOf, Milvus!AnyOf
<1>10. ASSUME NEW q \in Questions, Answerable(e, q[1])
      PROVE VectorReads(e).search[q] = Hits(Sought(e, q))
  <2>1. q[3] \in {"OR", "AND"}
    BY DEF Questions
  <2>2. Milvus!Search(e, q[1], q[2], q[3])
          = Milvus!Hits(Milvus!Nearest(Milvus!Cardinality(Milvus!InColl(q[1])), Filtered(e, q)))
    BY <1>9, <1>3, <1>7, <1>8, <1>10, <2>1 DEF Milvus!Search, Filtered
  <2>3. Milvus!Nearest(Milvus!Cardinality(Milvus!InColl(q[1])), Filtered(e, q)) = Sought(e, q)
    BY <1>7, AllAreNearest DEF Milvus!Nearest, Vector
  <2> QED BY <1>1, <2>2, <2>3, <1>6, Zenon
<1>11. ASSUME NEW q \in Questions, Answerable(e, q[1])
      PROVE VectorReads(e).batch_search[q] = Hits(Sought(e, AsOr(q)))
  <2>1. AsOr(q) \in Questions /\ AsOr(q)[1] = q[1] /\ AsOr(q)[2] = q[2] /\ AsOr(q)[3] = "OR"
    BY DEF Questions, AsOr
  <2>2. VectorReads(e).batch_search[q] = VectorReads(e).search[AsOr(q)]
    BY <1>1, <2>1 DEF Milvus!BatchSearch
  <2> QED BY <1>10, <1>11, <2>1, <2>2
<1> QED BY <1>1, <1>4, <1>5, <1>10, <1>11, SoughtAgree DEF Vector, OrOnly

\* openGauss answers by the points in the server.
LEMMA OpenGaussReads ==
  ASSUME PointsInv, provider = "opengauss", NEW e \in Engines
  PROVE VectorReadsAgree(e)
<1>1. /\ VectorReads(e).get_collection_names = OpenGauss!GetCollectionNames(e)
      /\ DOMAIN VectorReads(e).retrieve = Collections \X SUBSET Ids
      /\ DOMAIN VectorReads(e).search = Questions /\ DOMAIN VectorReads(e).batch_search = Questions
      /\ \A q \in Collections \X SUBSET Ids : VectorReads(e).retrieve[q] = OpenGauss!Retrieve(e, q[1], q[2])
      /\ \A q \in Questions : VectorReads(e).search[q] = OpenGauss!Search(e, q[1], q[2], q[3])
      /\ \A q \in Questions : VectorReads(e).batch_search[q] = OpenGauss!BatchSearch(e, q[1], q[2], q[3])
  <2>1. VectorReads(e) = OpenGauss!Reads(e)
    BY DEF VectorReads
  <2> QED BY <2>1 DEF OpenGauss!Reads, OpenGauss!VectorAnswers, Questions
<1>2. \A k : InOwn(e, k) = OpenGauss!InColl(k) /\ InColl(k) = OpenGauss!InColl(k)
  BY DEF InOwn, Own, Tenants, InColl, OpenGauss!InColl
<1>3. \A k : Answerable(e, k) => OpenGauss!Exists(k)
  BY DEF Answerable, LazyCollections, Exists, OpenGauss!Exists
<1>4. \A k \in server.colls : InOwn(e, k) # {} => k \in VectorReads(e).get_collection_names
  BY <1>1, <1>2 DEF OpenGauss!GetCollectionNames
<1>5. ASSUME NEW q \in Collections \X SUBSET Ids, Answerable(e, q[1])
      PROVE VectorReads(e).retrieve[q] = Hits(Held(e, q))
  BY <1>1, <1>2, <1>3, <1>5 DEF OpenGauss!Retrieve, OpenGauss!Matching, OpenGauss!Hits, Hits, Held, InOwn
<1>6. ASSUME NEW q \in Questions, Answerable(e, q[1])
      PROVE /\ VectorReads(e).search[q] = Hits(InOwn(e, q[1]))
            /\ VectorReads(e).batch_search[q] = Hits(InOwn(e, q[1]))
  BY <1>1, <1>2, <1>3, <1>6 DEF OpenGauss!Search, OpenGauss!BatchSearch, OpenGauss!Hits, Hits
<1>7. \A k : InOwn(e, k) = Near(e, k, <<{}, "OR">>)
  BY DEF InOwn, Near
<1>8. \A q \in Collections \X SUBSET Ids : Answerable(e, q[1]) => RetrievesAll(e, q)
  BY <1>5, HeldAreRetrieved DEF Vector
<1>9. ASSUME NEW f, NEW names, NEW op, NEW k
      PROVE InOwn(e, k) = IF FindsNone(f, names) THEN {} ELSE Near(e, k, Heard(f, names, op))
  BY <1>7 DEF FindsNone, Heard
<1>10. ASSUME NEW q \in Questions, Answerable(e, q[1])
       PROVE /\ VectorReads(e).search[q]
                  = Hits(IF FindsNone("search", q[2]) THEN {} ELSE Near(e, q[1], Heard("search", q[2], q[3])))
             /\ VectorReads(e).batch_search[q]
                  = Hits(IF FindsNone("batch_search", q[2]) THEN {}
                         ELSE Near(e, q[1], Heard("batch_search", q[2], q[3])))
  BY <1>6, <1>9, <1>10
<1> QED BY <1>1, <1>4, <1>8, <1>10, AnswersAgree DEF Vector

\* Redis answers by the points in the server.
LEMMA RedisReads ==
  ASSUME PointsInv, provider = "redis", NEW e \in Engines
  PROVE VectorReadsAgree(e)
<1>1. /\ DOMAIN VectorReads(e).retrieve = Collections \X SUBSET Ids
      /\ DOMAIN VectorReads(e).search = Questions /\ DOMAIN VectorReads(e).batch_search = Questions
      /\ \A q \in Collections \X SUBSET Ids : VectorReads(e).retrieve[q] = Redis!Retrieve(e, q[1], q[2])
      /\ \A q \in Questions : VectorReads(e).search[q] = Redis!Search(e, q[1], q[2], q[3])
      /\ \A q \in Questions : VectorReads(e).batch_search[q] = Redis!BatchSearch(e, q[1], q[2], q[3])
  <2>1. VectorReads(e) = Redis!Reads(e)
    BY DEF VectorReads
  <2> QED BY <2>1 DEF Redis!Reads, Redis!VectorAnswers, Questions
<1>2. \A k : InOwn(e, k) = Redis!InColl(k) /\ InColl(k) = Redis!InColl(k)
  BY DEF InOwn, Own, Tenants, InColl, Redis!InColl
<1>3. \A k : Answerable(e, k) => Redis!Exists(k)
  BY DEF Answerable, LazyCollections, Exists, Redis!Exists
<1>4. ASSUME NEW q \in Collections \X SUBSET Ids, Answerable(e, q[1])
      PROVE VectorReads(e).retrieve[q] = Hits(Held(e, q))
  BY <1>1, <1>2, <1>4 DEF Redis!Retrieve, Redis!Matching, Redis!Hits, Hits, Held, InOwn
<1>5. \A points : Redis!Hits(points) = Hits(points)
  BY DEF Redis!Hits, Hits
<1>6. ASSUME NEW q \in Questions
      PROVE /\ Redis!Cardinality(Redis!InColl(q[1])) = Cardinality(InColl(q[1]))
            /\ Redis!Cardinality(InOwn(e, q[1])) = Cardinality(InOwn(e, q[1]))
            /\ Redis!Cardinality(Filtered(e, q)) = Cardinality(Filtered(e, q))
  BY <1>2, Zenon DEF Redis!Cardinality, Cardinality
<1>7. \A k : Answerable(e, k) => Cardinality(InColl(k)) # 0 /\ Cardinality(InOwn(e, k)) # 0
  BY OwnPoints DEF Vector
<1>8. ASSUME NEW q \in Questions
      PROVE /\ Redis!AllOf(q[2], Redis!InColl(q[1])) = {p \in InOwn(e, q[1]) : q[2] \subseteq BelongsTo[p.id]}
            /\ Redis!AnyOf(q[2], Redis!InColl(q[1])) = {p \in InOwn(e, q[1]) : BelongsTo[p.id] \cap q[2] # {}}
            /\ Redis!InColl(q[1]) = InOwn(e, q[1])
  BY <1>2 DEF Redis!AllOf, Redis!AnyOf
<1>9. ASSUME NEW q \in Questions, Answerable(e, q[1])
      PROVE VectorReads(e).search[q] = Hits(Sought(e, q))
  <2>1. q[3] \in {"OR", "AND"}
    BY DEF Questions
  <2>2. Redis!Search(e, q[1], q[2], q[3])
          = Redis!Hits(Redis!Nearest(Redis!Cardinality(Redis!InColl(q[1])), Filtered(e, q)))
    BY <1>8, <1>3, <1>6, <1>7, <1>9, <2>1 DEF Redis!Search, Filtered
  <2>3. Redis!Nearest(Redis!Cardinality(Redis!InColl(q[1])), Filtered(e, q)) = Sought(e, q)
    BY <1>6, AllAreNearest DEF Redis!Nearest, Vector
  <2> QED BY <1>1, <2>2, <2>3, <1>5, Zenon
<1>10. \A q \in Questions : VectorReads(e).batch_search[q] = VectorReads(e).search[q]
  BY <1>1 DEF Redis!BatchSearch
<1> QED BY <1>1, <1>4, <1>9, <1>10, SoughtAgree DEF Vector, OrOnly, Differs

\* Valkey answers by the points in the server.
LEMMA ValkeyReads ==
  ASSUME PointsInv, provider = "valkey", NEW e \in Engines
  PROVE VectorReadsAgree(e)
<1>1. /\ VectorReads(e).get_collection_names = {k \in Collections : Valkey!HasCollection(e, k)}
      /\ DOMAIN VectorReads(e).retrieve = Collections \X SUBSET Ids
      /\ DOMAIN VectorReads(e).search = Questions /\ DOMAIN VectorReads(e).batch_search = Questions
      /\ \A q \in Collections \X SUBSET Ids : VectorReads(e).retrieve[q] = Valkey!Retrieve(e, q[1], q[2])
      /\ \A q \in Questions : VectorReads(e).search[q] = Valkey!Search(e, q[1], q[2], q[3])
      /\ \A q \in Questions : VectorReads(e).batch_search[q] = Valkey!BatchSearch(e, q[1], q[2], q[3])
  <2>1. VectorReads(e) = Valkey!Reads(e)
    BY DEF VectorReads
  <2> QED BY <2>1 DEF Valkey!Reads, Valkey!VectorAnswers, Questions
<1>2. \A k : InOwn(e, k) = Valkey!InColl(k) /\ InColl(k) = Valkey!InColl(k)
  BY DEF InOwn, Own, Tenants, InColl, Valkey!InColl
<1>3. \A k : Answerable(e, k) => Valkey!Exists(k)
  BY DEF Answerable, LazyCollections, Exists, Valkey!Exists
<1>4. \A k \in server.colls : InOwn(e, k) # {} => k \in VectorReads(e).get_collection_names
  BY <1>1, <1>2 DEF PointsInv, InOwn, Own, Tenants, Valkey!HasCollection, Valkey!Exists
<1>5. ASSUME NEW q \in Collections \X SUBSET Ids, Answerable(e, q[1])
      PROVE VectorReads(e).retrieve[q] = Hits(Held(e, q))
  BY <1>1, <1>2, <1>5 DEF Valkey!Retrieve, Valkey!Matching, Valkey!Hits, Hits, Held, InOwn
<1>6. \A points : Valkey!Hits(points) = Hits(points)
  BY DEF Valkey!Hits, Hits
<1>7. ASSUME NEW q \in Questions
      PROVE /\ Valkey!Cardinality(Valkey!InColl(q[1])) = Cardinality(InColl(q[1]))
            /\ Valkey!Cardinality(InOwn(e, q[1])) = Cardinality(InOwn(e, q[1]))
            /\ Valkey!Cardinality(Filtered(e, q)) = Cardinality(Filtered(e, q))
  BY <1>2, Zenon DEF Valkey!Cardinality, Cardinality
<1>8. \A k : Answerable(e, k) => Cardinality(InColl(k)) # 0 /\ Cardinality(InOwn(e, k)) # 0
  BY OwnPoints DEF Vector
<1>9. ASSUME NEW q \in Questions
      PROVE /\ Valkey!AllOf(q[2], Valkey!InColl(q[1])) =
             {p \in InOwn(e, q[1]) : q[2] \subseteq BelongsTo[p.id]}
            /\ Valkey!AnyOf(q[2], Valkey!InColl(q[1])) =
                   {p \in InOwn(e, q[1]) : BelongsTo[p.id] \cap q[2] # {}}
            /\ Valkey!InColl(q[1]) = InOwn(e, q[1])
  BY <1>2 DEF Valkey!AllOf, Valkey!AnyOf
<1>10. ASSUME NEW q \in Questions, Answerable(e, q[1])
      PROVE VectorReads(e).search[q] = Hits(Sought(e, q))
  <2>1. q[3] \in {"OR", "AND"}
    BY DEF Questions
  <2>2. Valkey!Search(e, q[1], q[2], q[3])
          = Valkey!Hits(Valkey!Nearest(Valkey!Cardinality(Valkey!InColl(q[1])), Filtered(e, q)))
    BY <1>9, <1>3, <1>7, <1>8, <1>10, <2>1 DEF Valkey!Search, Filtered
  <2>3. Valkey!Nearest(Valkey!Cardinality(Valkey!InColl(q[1])), Filtered(e, q)) = Sought(e, q)
    BY <1>7, AllAreNearest DEF Valkey!Nearest, Vector
  <2> QED BY <1>1, <2>2, <2>3, <1>6, Zenon
<1>11. ASSUME NEW q \in Questions, Answerable(e, q[1])
      PROVE VectorReads(e).batch_search[q] = Hits(Sought(e, AsOr(q)))
  <2>1. AsOr(q) \in Questions /\ AsOr(q)[1] = q[1] /\ AsOr(q)[2] = q[2] /\ AsOr(q)[3] = "OR"
    BY DEF Questions, AsOr
  <2>2. VectorReads(e).batch_search[q] = VectorReads(e).search[AsOr(q)]
    BY <1>1, <1>3, <1>11, <2>1 DEF Valkey!BatchSearch
  <2> QED BY <1>10, <1>11, <2>1, <2>2
<1> QED BY <1>1, <1>4, <1>5, <1>10, <1>11, SoughtAgree DEF Vector, OrOnly

\* turbopuffer answers by the points of its database.
LEMMA TurbopufferReads ==
  ASSUME PointsInv, WithinLimits, provider = "turbopuffer", NEW e \in Engines
  PROVE VectorReadsAgree(e)
<1>1. /\ VectorReads(e).get_collection_names = Turbopuffer!GetCollectionNames(e)
      /\ DOMAIN VectorReads(e).retrieve = Collections \X SUBSET Ids
      /\ DOMAIN VectorReads(e).search = Questions /\ DOMAIN VectorReads(e).batch_search = Questions
      /\ \A q \in Collections \X SUBSET Ids : VectorReads(e).retrieve[q] = Turbopuffer!Retrieve(e, q[1], q[2])
      /\ \A q \in Questions : VectorReads(e).search[q] = Turbopuffer!Search(e, q[1], q[2], q[3])
      /\ \A q \in Questions : VectorReads(e).batch_search[q] = Turbopuffer!BatchSearch(e, q[1], q[2], q[3])
  <2>1. VectorReads(e) = Turbopuffer!Reads(e)
    BY DEF VectorReads
  <2> QED BY <2>1 DEF Turbopuffer!Reads, Turbopuffer!VectorAnswers, Questions
<1>2. \A k : /\ InOwn(e, k) = Turbopuffer!InColl(k) \cap Turbopuffer!OfDb(database[e])
             /\ InColl(k) = Turbopuffer!InColl(k)
  BY DEF InOwn, Own, Tenants, InColl, Turbopuffer!InColl, Turbopuffer!OfDb
<1>3. \A k : InOwn(e, k) # {} => Turbopuffer!HasCollection(e, k)
  <2>1. Housed
    BY DEF PointsInv, VectorInv
  <2> QED BY <2>1 DEF Housed, InOwn, Own, Tenants, Turbopuffer!HasCollection, Turbopuffer!NamespaceName,
     Turbopuffer!Exists
<1>4. \A k : Answerable(e, k) => InOwn(e, k) # {} /\ Turbopuffer!HasCollection(e, k)
  BY <1>3, OwnPoints DEF Vector
<1>5. \A k \in server.colls : InOwn(e, k) # {} => k \in VectorReads(e).get_collection_names
  <2> SUFFICES ASSUME NEW k \in server.colls, InOwn(e, k) # {}
               PROVE k \in VectorReads(e).get_collection_names
    OBVIOUS
  <2>1. <<database[e], k>> \in server.colls
    BY <1>3 DEF Turbopuffer!HasCollection, Turbopuffer!NamespaceName, Turbopuffer!Exists
  <2> QED BY <1>1, <2>1 DEF Turbopuffer!GetCollectionNames, Turbopuffer!ListNamespacesWithPrefix
<1>6. ASSUME NEW q \in Collections \X SUBSET Ids, Answerable(e, q[1])
      PROVE VectorReads(e).retrieve[q] = Hits(Held(e, q))
  BY <1>1, <1>2, <1>4, <1>6 DEF Turbopuffer!Retrieve, Turbopuffer!Matching, Turbopuffer!Hits, Hits, Held,
     InOwn
<1>7. \A points : Turbopuffer!Hits(points) = Hits(points)
  BY DEF Turbopuffer!Hits, Hits
<1>8. ASSUME NEW q \in Questions
      PROVE /\ Turbopuffer!Cardinality(Turbopuffer!InColl(q[1])) = Cardinality(InColl(q[1]))
            /\ Turbopuffer!Cardinality(InOwn(e, q[1])) = Cardinality(InOwn(e, q[1]))
            /\ Turbopuffer!Cardinality(Filtered(e, q)) = Cardinality(Filtered(e, q))
  BY <1>2, Zenon DEF Turbopuffer!Cardinality, Cardinality
<1>9. \A k : Answerable(e, k) => Cardinality(InColl(k)) # 0 /\ Cardinality(InOwn(e, k)) # 0
  BY OwnPoints DEF Vector
<1>10. ASSUME NEW q \in Questions, Answerable(e, q[1])
      PROVE VectorReads(e).search[q] = Hits(Sought(e, q))
  <2>1. q[3] \in {"OR", "AND"}
    BY DEF Questions
  <2>2. PICK limit \in Nat : limit = 100
    OBVIOUS
  <2>3. Turbopuffer!Search(e, q[1], q[2], q[3])
          = Turbopuffer!Hits(Turbopuffer!Nearest(limit, Filtered(e, q)))
    BY <1>2, <1>4, <1>8, <1>9, <1>10, <2>2, <2>1 DEF Turbopuffer!Search, Filtered, Turbopuffer!AllOf,
       Turbopuffer!AnyOf, Turbopuffer!Own
  <2>4. Cardinality(InOwn(e, q[1])) <= limit
    <3>1. q[1] \in Collections
      BY DEF Questions
    <3> QED BY <2>2, <3>1, OwnPoints DEF WithinLimits, Limits, Vector
  <2>5. Turbopuffer!Nearest(limit, Filtered(e, q)) = Sought(e, q)
    BY <1>8, <2>4, OwnPoints, AllAreNearest DEF Turbopuffer!Nearest, Vector
  <2> QED BY <1>1, <2>3, <2>5, <1>7, Zenon
<1>11. \A q \in Questions : VectorReads(e).batch_search[q] = VectorReads(e).search[q]
  BY <1>1 DEF Turbopuffer!BatchSearch
<1> QED BY <1>1, <1>5, <1>6, <1>10, <1>11, SoughtAgree DEF Vector, OrOnly

\* Pinecone answers by the points in the server.
LEMMA PineconeReads ==
  ASSUME PointsInv, WithinLimits, provider = "pinecone", NEW e \in Engines
  PROVE VectorReadsAgree(e)
<1>1. /\ VectorReads(e).get_collection_names = {k \in Collections : Pinecone!HasCollection(e, k)}
      /\ DOMAIN VectorReads(e).retrieve = Collections \X SUBSET Ids
      /\ DOMAIN VectorReads(e).search = Questions /\ DOMAIN VectorReads(e).batch_search = Questions
      /\ \A q \in Collections \X SUBSET Ids : VectorReads(e).retrieve[q] = Pinecone!Retrieve(e, q[1], q[2])
      /\ \A q \in Questions : VectorReads(e).search[q] = Pinecone!Search(e, q[1], q[2], q[3])
      /\ \A q \in Questions : VectorReads(e).batch_search[q] = Pinecone!BatchSearch(e, q[1], q[2], q[3])
  <2>1. VectorReads(e) = Pinecone!Reads(e)
    BY DEF VectorReads
  <2> QED BY <2>1 DEF Pinecone!Reads, Pinecone!VectorAnswers, Questions
<1>2. \A k : InOwn(e, k) = Pinecone!InColl(k) /\ InColl(k) = Pinecone!InColl(k)
  BY DEF InOwn, Own, Tenants, InColl, Pinecone!InColl
<1>3. \A k : Answerable(e, k) => Pinecone!Exists(k)
  BY DEF Answerable, LazyCollections, Exists, Pinecone!Exists
<1>4. \A k \in server.colls : InOwn(e, k) # {} => k \in VectorReads(e).get_collection_names
  BY <1>1, <1>2 DEF PointsInv, InOwn, Own, Tenants, Pinecone!HasCollection, Pinecone!Exists
<1>5. ASSUME NEW q \in Collections \X SUBSET Ids, Answerable(e, q[1])
      PROVE VectorReads(e).retrieve[q] = Hits(Held(e, q))
  BY <1>1, <1>2, <1>3, <1>5 DEF Pinecone!Retrieve, Pinecone!Matching, Pinecone!Hits, Hits, Held, InOwn
<1>6. \A points : Pinecone!Hits(points) = Hits(points)
  BY DEF Pinecone!Hits, Hits
<1>7. ASSUME NEW q \in Questions
      PROVE /\ Pinecone!Cardinality(Pinecone!InColl(q[1])) = Cardinality(InColl(q[1]))
            /\ Pinecone!Cardinality(InOwn(e, q[1])) = Cardinality(InOwn(e, q[1]))
            /\ Pinecone!Cardinality(Filtered(e, q)) = Cardinality(Filtered(e, q))
  BY <1>2, Zenon DEF Pinecone!Cardinality, Cardinality
<1>8. \A k : Answerable(e, k) => Cardinality(InColl(k)) # 0 /\ Cardinality(InOwn(e, k)) # 0
  BY OwnPoints DEF Vector
<1>9. ASSUME NEW q \in Questions
      PROVE /\ Pinecone!AllOf(q[2], Pinecone!InColl(q[1])) =
             {p \in InOwn(e, q[1]) : q[2] \subseteq BelongsTo[p.id]}
            /\ Pinecone!AnyOf(q[2], Pinecone!InColl(q[1])) =
                   {p \in InOwn(e, q[1]) : BelongsTo[p.id] \cap q[2] # {}}
            /\ Pinecone!InColl(q[1]) = InOwn(e, q[1])
  BY <1>2 DEF Pinecone!AllOf, Pinecone!AnyOf
<1>10. ASSUME NEW q \in Questions, Answerable(e, q[1])
      PROVE VectorReads(e).search[q] = Hits(Sought(e, q))
  <2>1. q[3] \in {"OR", "AND"}
    BY DEF Questions
  <2>2. Pinecone!Search(e, q[1], q[2], q[3])
          = Pinecone!Hits(Pinecone!Nearest(Pinecone!Cardinality(Pinecone!InColl(q[1])), Filtered(e, q)))
    BY <1>9, <1>3, <1>7, <1>8, <1>10, <2>1 DEF Pinecone!Search, Filtered, Pinecone!Filtered
  <2>3. Pinecone!Nearest(Pinecone!Cardinality(Pinecone!InColl(q[1])), Filtered(e, q)) = Sought(e, q)
    BY <1>7, AllAreNearest DEF Pinecone!Nearest, Vector
  <2> QED BY <1>1, <2>2, <2>3, <1>6, Zenon
<1>11. ASSUME NEW q \in Questions, Answerable(e, q[1])
      PROVE VectorReads(e).batch_search[q] = Hits(Sought(e, q))
  <2>1. q[3] \in {"OR", "AND"}
    BY DEF Questions
  <2>2. PICK limit \in Nat : limit = 15
    OBVIOUS
  <2>3. Pinecone!BatchSearch(e, q[1], q[2], q[3])
          = Pinecone!Hits(Pinecone!Nearest(limit, Filtered(e, q)))
    BY <1>9, <1>3, <1>7, <1>8, <1>11, <2>2, <2>1 DEF Pinecone!BatchSearch, Filtered, Pinecone!Filtered
  <2>4. Cardinality(InOwn(e, q[1])) <= limit
    <3>1. q[1] \in Collections
      BY DEF Questions
    <3> QED BY <2>2, <3>1, OwnPoints DEF WithinLimits, Limits, Vector
  <2>5. Pinecone!Nearest(limit, Filtered(e, q)) = Sought(e, q)
    BY <1>7, <2>4, OwnPoints, AllAreNearest DEF Pinecone!Nearest, Vector
  <2> QED BY <1>1, <2>3, <2>5, <1>6, Zenon
<1> QED BY <1>1, <1>4, <1>5, <1>10, <1>11, SoughtAgree DEF Vector, OrOnly

\* Azure AI Search answers by the points in the server.
LEMMA AzureReads ==
  ASSUME PointsInv, WithinLimits, provider = "azure", NEW e \in Engines
  PROVE VectorReadsAgree(e)
<1>1. /\ VectorReads(e).get_collection_names = {k \in Collections : Azure!HasCollection(e, k)}
      /\ DOMAIN VectorReads(e).retrieve = Collections \X SUBSET Ids
      /\ DOMAIN VectorReads(e).search = Questions /\ DOMAIN VectorReads(e).batch_search = Questions
      /\ \A q \in Collections \X SUBSET Ids : VectorReads(e).retrieve[q] = Azure!Retrieve(e, q[1], q[2])
      /\ \A q \in Questions : VectorReads(e).search[q] = Azure!Search(e, q[1], q[2], q[3])
      /\ \A q \in Questions : VectorReads(e).batch_search[q] = Azure!BatchSearch(e, q[1], q[2], q[3])
  <2>1. VectorReads(e) = Azure!Reads(e)
    BY DEF VectorReads
  <2> QED BY <2>1 DEF Azure!Reads, Azure!VectorAnswers, Questions
<1>2. \A k : InOwn(e, k) = Azure!InColl(k) /\ InColl(k) = Azure!InColl(k)
  BY DEF InOwn, Own, Tenants, InColl, Azure!InColl
<1>3. \A k : Answerable(e, k) => Azure!Exists(k)
  BY DEF Answerable, LazyCollections, Exists, Azure!Exists
<1>4. \A k \in server.colls : InOwn(e, k) # {} => k \in VectorReads(e).get_collection_names
  BY <1>1, <1>2 DEF PointsInv, InOwn, Own, Tenants, Azure!HasCollection, Azure!Exists
<1>5. ASSUME NEW q \in Collections \X SUBSET Ids, Answerable(e, q[1])
      PROVE VectorReads(e).retrieve[q] = Hits(Held(e, q))
  BY <1>1, <1>2, <1>3, <1>5 DEF Azure!Retrieve, Azure!Matching, Azure!Hits, Hits, Held, InOwn
<1>6. \A points : Azure!Hits(points) = Hits(points)
  BY DEF Azure!Hits, Hits
<1>7. ASSUME NEW q \in Questions
      PROVE /\ Azure!Cardinality(Azure!InColl(q[1])) = Cardinality(InColl(q[1]))
            /\ Azure!Cardinality(InOwn(e, q[1])) = Cardinality(InOwn(e, q[1]))
            /\ Azure!Cardinality(Filtered(e, q)) = Cardinality(Filtered(e, q))
  BY <1>2, Zenon DEF Azure!Cardinality, Cardinality
<1>8. \A k : Answerable(e, k) => Cardinality(InColl(k)) # 0 /\ Cardinality(InOwn(e, k)) # 0
  BY OwnPoints DEF Vector
<1>9. ASSUME NEW q \in Questions
      PROVE /\ Azure!AllOf(q[2], Azure!InColl(q[1])) = {p \in InOwn(e, q[1]) : q[2] \subseteq BelongsTo[p.id]}
            /\ Azure!AnyOf(q[2], Azure!InColl(q[1])) = {p \in InOwn(e, q[1]) : BelongsTo[p.id] \cap q[2] # {}}
            /\ Azure!InColl(q[1]) = InOwn(e, q[1])
  BY <1>2 DEF Azure!AllOf, Azure!AnyOf
<1>10. ASSUME NEW q \in Questions, Answerable(e, q[1])
      PROVE VectorReads(e).search[q] = Hits(Sought(e, q))
  <2>1. q[3] \in {"OR", "AND"}
    BY DEF Questions
  <2>2. PICK limit \in Nat : limit = 10000
    OBVIOUS
  <2>3. /\ Azure!Exists(q[1]) /\ Azure!InColl(q[1]) = InOwn(e, q[1])
        /\ Azure!AllOf(q[2], Azure!InColl(q[1])) = {p \in InOwn(e, q[1]) : q[2] \subseteq BelongsTo[p.id]}
        /\ Azure!AnyOf(q[2], Azure!InColl(q[1])) = {p \in InOwn(e, q[1]) : BelongsTo[p.id] \cap q[2] # {}}
    BY <1>9, <1>3, <1>10
  <2>4. Azure!Search(e, q[1], q[2], q[3])
          = Azure!Hits(Azure!Nearest(limit, Filtered(e, q)))
    BY <2>2, <2>1, <2>3 DEF Azure!Search, Filtered
  <2>5. Cardinality(InOwn(e, q[1])) <= limit
    <3>1. q[1] \in Collections
      BY DEF Questions
    <3> QED BY <2>2, <3>1, OwnPoints DEF WithinLimits, Limits, Vector
  <2>6. Azure!Nearest(limit, Filtered(e, q)) = Sought(e, q)
    BY <1>7, <2>5, OwnPoints, AllAreNearest DEF Azure!Nearest, Vector
  <2> QED BY <1>1, <2>4, <2>6, <1>6, Zenon
<1>11. ASSUME NEW q \in Questions, Answerable(e, q[1])
      PROVE VectorReads(e).batch_search[q] = Hits(Sought(e, AsOr(q)))
  <2>1. AsOr(q) \in Questions /\ AsOr(q)[1] = q[1] /\ AsOr(q)[2] = q[2] /\ AsOr(q)[3] = "OR"
    BY DEF Questions, AsOr
  <2>2. PICK limit \in Nat : limit = 15
    OBVIOUS
  <2>3. Azure!BatchSearch(e, q[1], q[2], q[3])
          = Azure!Hits(Azure!Nearest(limit, Filtered(e, AsOr(q))))
    BY <1>9, <1>3, <1>7, <1>8, <1>11, <2>2, <2>1 DEF Azure!BatchSearch, Filtered
  <2>4. Cardinality(InOwn(e, q[1])) <= limit
    <3>1. q[1] \in Collections
      BY DEF Questions
    <3> QED BY <2>2, <3>1, OwnPoints DEF WithinLimits, Limits, Vector
  <2>5. Azure!Nearest(limit, Filtered(e, AsOr(q))) = Sought(e, AsOr(q))
    BY <1>7, <2>1, <2>4, OwnPoints, AllAreNearest DEF Azure!Nearest, Vector
  <2> QED BY <1>1, <2>3, <2>5, <1>6, Zenon
<1> QED BY <1>1, <1>4, <1>5, <1>10, <1>11, SoughtAgree DEF Vector, OrOnly

\* OpenSearch answers by the points in the server.
LEMMA OpenSearchReads ==
  ASSUME PointsInv, WithinLimits, provider = "opensearch", NEW e \in Engines
  PROVE VectorReadsAgree(e)
<1>1. /\ VectorReads(e).get_collection_names = OpenSearch!GetCollectionNames(e)
      /\ DOMAIN VectorReads(e).retrieve = Collections \X SUBSET Ids
      /\ DOMAIN VectorReads(e).search = Questions /\ DOMAIN VectorReads(e).batch_search = Questions
      /\ \A q \in Collections \X SUBSET Ids : VectorReads(e).retrieve[q] = OpenSearch!Retrieve(e, q[1], q[2])
      /\ \A q \in Questions : VectorReads(e).search[q] = OpenSearch!Search(e, q[1], q[2], q[3])
      /\ \A q \in Questions : VectorReads(e).batch_search[q] = OpenSearch!BatchSearch(e, q[1], q[2], q[3])
  <2>1. VectorReads(e) = OpenSearch!Reads(e)
    BY DEF VectorReads
  <2> QED BY <2>1 DEF OpenSearch!Reads, OpenSearch!VectorAnswers, Questions
<1>2. \A k : InOwn(e, k) = OpenSearch!InColl(k) /\ InColl(k) = OpenSearch!InColl(k)
  BY DEF InOwn, Own, Tenants, InColl, OpenSearch!InColl
<1>3. \A k : Answerable(e, k) => OpenSearch!Exists(k)
  BY DEF Answerable, LazyCollections, Exists, OpenSearch!Exists
<1>4. \A k \in server.colls : InOwn(e, k) # {} => k \in VectorReads(e).get_collection_names
  BY <1>1, <1>2 DEF OpenSearch!GetCollectionNames
<1>5. ASSUME NEW q \in Collections \X SUBSET Ids, Answerable(e, q[1])
      PROVE VectorReads(e).retrieve[q] = Hits(Held(e, q))
  BY <1>1, <1>2, <1>5 DEF OpenSearch!Retrieve, OpenSearch!Matching, OpenSearch!Hits, Hits, Held, InOwn
<1>6. \A points : OpenSearch!Hits(points) = Hits(points)
  BY DEF OpenSearch!Hits, Hits
<1>7. ASSUME NEW q \in Questions
      PROVE /\ OpenSearch!Cardinality(OpenSearch!InColl(q[1])) = Cardinality(InColl(q[1]))
            /\ OpenSearch!Cardinality(InOwn(e, q[1])) = Cardinality(InOwn(e, q[1]))
            /\ OpenSearch!Cardinality(Filtered(e, q)) = Cardinality(Filtered(e, q))
  BY <1>2, Zenon DEF OpenSearch!Cardinality, Cardinality
<1>8. \A k : Answerable(e, k) => Cardinality(InColl(k)) # 0 /\ Cardinality(InOwn(e, k)) # 0
  BY OwnPoints DEF Vector
<1>9. ASSUME NEW q \in Questions
      PROVE /\ OpenSearch!AllOf(q[2], OpenSearch!InColl(q[1])) =
             {p \in InOwn(e, q[1]) : q[2] \subseteq BelongsTo[p.id]}
            /\ OpenSearch!AnyOf(q[2], OpenSearch!InColl(q[1])) =
                   {p \in InOwn(e, q[1]) : BelongsTo[p.id] \cap q[2] # {}}
            /\ OpenSearch!InColl(q[1]) = InOwn(e, q[1])
  BY <1>2 DEF OpenSearch!AllOf, OpenSearch!AnyOf
<1>10. ASSUME NEW q \in Questions, Answerable(e, q[1])
      PROVE VectorReads(e).search[q] = Hits(Sought(e, q))
  <2>1. q[3] \in {"OR", "AND"}
    BY DEF Questions
  <2>2. PICK limit \in Nat : limit = 10000
    OBVIOUS
  <2>3. /\ OpenSearch!Exists(q[1]) /\ OpenSearch!InColl(q[1]) = InOwn(e, q[1])
        /\ OpenSearch!AllOf(q[2], OpenSearch!InColl(q[1])) =
               {p \in InOwn(e, q[1]) : q[2] \subseteq BelongsTo[p.id]}
        /\ OpenSearch!AnyOf(q[2], OpenSearch!InColl(q[1])) =
               {p \in InOwn(e, q[1]) : BelongsTo[p.id] \cap q[2] # {}}
    BY <1>9, <1>3, <1>10
  <2>4. OpenSearch!Search(e, q[1], q[2], q[3])
          = OpenSearch!Hits(OpenSearch!Nearest(limit, Filtered(e, q)))
    BY <2>2, <2>1, <2>3 DEF OpenSearch!Search, Filtered
  <2>5. Cardinality(InOwn(e, q[1])) <= limit
    <3>1. q[1] \in Collections
      BY DEF Questions
    <3> QED BY <2>2, <3>1, OwnPoints DEF WithinLimits, Limits, Vector
  <2>6. OpenSearch!Nearest(limit, Filtered(e, q)) = Sought(e, q)
    BY <1>7, <2>5, OwnPoints, AllAreNearest DEF OpenSearch!Nearest, Vector
  <2> QED BY <1>1, <2>4, <2>6, <1>6, Zenon
<1>11. ASSUME NEW q \in Questions, Answerable(e, q[1])
      PROVE VectorReads(e).batch_search[q] = Hits(Sought(e, AsOr(q)))
  <2>1. AsOr(q) \in Questions /\ AsOr(q)[1] = q[1] /\ AsOr(q)[2] = q[2] /\ AsOr(q)[3] = "OR"
    BY DEF Questions, AsOr
  <2>2. VectorReads(e).batch_search[q] = VectorReads(e).search[AsOr(q)]
    BY <1>1, <2>1 DEF OpenSearch!BatchSearch
  <2> QED BY <1>10, <1>11, <2>1, <2>2
<1> QED BY <1>1, <1>4, <1>5, <1>10, <1>11, SoughtAgree DEF Vector, OrOnly

\* DuckDB answers by the points in the server.
LEMMA DuckDBReads ==
  ASSUME PointsInv, provider = "duckdb", NEW e \in Engines
  PROVE VectorReadsAgree(e)
<1>1. /\ VectorReads(e).get_collection_names = DuckDB!GetCollectionNames
      /\ DOMAIN VectorReads(e).retrieve = Collections \X SUBSET Ids
      /\ DOMAIN VectorReads(e).search = Questions /\ DOMAIN VectorReads(e).batch_search = Questions
      /\ \A q \in Collections \X SUBSET Ids : VectorReads(e).retrieve[q] = DuckDB!Retrieve(e, q[1], q[2])
      /\ \A q \in Questions : VectorReads(e).search[q] = DuckDB!Search(e, q[1], q[2], q[3])
      /\ \A q \in Questions : VectorReads(e).batch_search[q] = DuckDB!BatchSearch(e, q[1], q[2], q[3])
  <2>1. VectorReads(e) = DuckDB!Reads(e)
    BY DEF VectorReads
  <2> QED BY <2>1 DEF DuckDB!Reads, DuckDB!VectorAnswers, Questions
<1>2. \A k : InOwn(e, k) = DuckDB!InColl(k) /\ InColl(k) = DuckDB!InColl(k)
  BY DEF InOwn, Own, Tenants, InColl, DuckDB!InColl
<1>3. \A k : Answerable(e, k) => DuckDB!Exists(k)
  BY DEF Answerable, LazyCollections, Exists, DuckDB!Exists
<1>4. \A k \in server.colls : InOwn(e, k) # {} => k \in VectorReads(e).get_collection_names
  BY <1>1, <1>2 DEF DuckDB!GetCollectionNames
<1>5. ASSUME NEW q \in Collections \X SUBSET Ids, Answerable(e, q[1])
      PROVE VectorReads(e).retrieve[q] = Hits(Held(e, q))
  BY <1>1, <1>2, <1>5 DEF DuckDB!Retrieve, DuckDB!Matching, DuckDB!Hits, Hits, Held, InOwn
<1>6. \A points : DuckDB!Hits(points) = Hits(points)
  BY DEF DuckDB!Hits, Hits
<1>7. ASSUME NEW q \in Questions
      PROVE /\ DuckDB!Cardinality(DuckDB!InColl(q[1])) = Cardinality(InColl(q[1]))
            /\ DuckDB!Cardinality(InOwn(e, q[1])) = Cardinality(InOwn(e, q[1]))
            /\ DuckDB!Cardinality(Filtered(e, q)) = Cardinality(Filtered(e, q))
  BY <1>2, Zenon DEF DuckDB!Cardinality, Cardinality
<1>8. \A k : Answerable(e, k) => Cardinality(InColl(k)) # 0 /\ Cardinality(InOwn(e, k)) # 0
  BY OwnPoints DEF Vector
<1>9. ASSUME NEW q \in Questions
      PROVE /\ DuckDB!AllOf(q[2], DuckDB!InColl(q[1])) =
             {p \in InOwn(e, q[1]) : q[2] \subseteq BelongsTo[p.id]}
            /\ DuckDB!AnyOf(q[2], DuckDB!InColl(q[1])) =
                   {p \in InOwn(e, q[1]) : BelongsTo[p.id] \cap q[2] # {}}
            /\ DuckDB!InColl(q[1]) = InOwn(e, q[1])
  BY <1>2 DEF DuckDB!AllOf, DuckDB!AnyOf
<1>10. ASSUME NEW q \in Questions, Answerable(e, q[1])
      PROVE VectorReads(e).search[q] = Hits(Sought(e, q))
  <2>1. q[3] \in {"OR", "AND"}
    BY DEF Questions
  <2>2. DuckDB!Search(e, q[1], q[2], q[3])
          = DuckDB!Hits(DuckDB!Nearest(DuckDB!Cardinality(DuckDB!InColl(q[1])), Filtered(e, q)))
    BY <1>9, <1>3, <1>7, <1>8, <1>10, <2>1 DEF DuckDB!Search, Filtered
  <2>3. DuckDB!Nearest(DuckDB!Cardinality(DuckDB!InColl(q[1])), Filtered(e, q)) = Sought(e, q)
    BY <1>7, AllAreNearest DEF DuckDB!Nearest, Vector
  <2> QED BY <1>1, <2>2, <2>3, <1>6, Zenon
<1>11. ASSUME NEW q \in Questions, Answerable(e, q[1])
      PROVE VectorReads(e).batch_search[q] = Hits(Sought(e, AsOr(q)))
  <2>1. AsOr(q) \in Questions /\ AsOr(q)[1] = q[1] /\ AsOr(q)[2] = q[2] /\ AsOr(q)[3] = "OR"
    BY DEF Questions, AsOr
  <2>2. VectorReads(e).batch_search[q] = VectorReads(e).search[AsOr(q)]
    BY <1>1, <2>1 DEF DuckDB!BatchSearch
  <2> QED BY <1>10, <1>11, <2>1, <2>2
<1> QED BY <1>1, <1>4, <1>5, <1>10, <1>11, SoughtAgree DEF Vector, OrOnly

\* A step writes nothing, what its call brings, or one more of it.
Adds(c) ==
    \/ server'.points \subseteq server.points
    \/ /\ call[c].op = "put"
       /\ \/ server'.points \subseteq server.points \cup Written(c, call[c].ids)
          \/ \E i : server'.points \subseteq server.points \cup Written(c, {i})

\* What a request of Qdrant adds.
LEMMA QdrantAdds ==
  ASSUME TypeInv, NEW c \in Clients, Qdrant!Next(c) \/ Qdrant!Fails(c)
  PROVE Adds(c)
<1> USE DEF Adds, Qdrant!At
<1>1. ServerFields \subseteq DOMAIN server
  BY DEF TypeInv
<1>2. CASE Qdrant!CreateCollection(c)
  BY <1>1, <1>2 DEF Qdrant!CreateCollection, ServerFields, Qdrant!WithColl, Qdrant!Locks
<1>3. CASE Qdrant!CreateDataPoints(c)
  BY <1>1, <1>3 DEF Qdrant!CreateDataPoints, ServerFields, Qdrant!With, Qdrant!Upserted, Qdrant!Written,
     Qdrant!Db, Written, Db
<1>4. CASE Qdrant!DeleteDataPoints(c)
  BY <1>1, <1>4 DEF Qdrant!DeleteDataPoints, ServerFields, Qdrant!With
<1>5. CASE Qdrant!Prune(c)
  BY <1>1, <1>5 DEF Qdrant!Prune, ServerFields, Qdrant!With, Qdrant!Dropped
<1>6. CASE server' = server
  BY <1>6
<1> QED BY <1>2, <1>3, <1>4, <1>5, <1>6 DEF Qdrant!Next, Qdrant!Fails, Qdrant!Raises

\* What a request of SingleStore adds.
LEMMA SingleStoreAdds ==
  ASSUME TypeInv, NEW c \in Clients, SingleStore!Next(c) \/ SingleStore!Fails(c)
  PROVE Adds(c)
<1> USE DEF Adds, SingleStore!At
<1>1. ServerFields \subseteq DOMAIN server
  BY DEF TypeInv
<1>2. CASE SingleStore!CreateCollection(c, "start", "done")
  BY <1>1, <1>2 DEF SingleStore!CreateCollection, ServerFields, SingleStore!WithColl, SingleStore!Locks
<1>3. CASE SingleStore!CreateDataPoints(c)
  BY <1>1, <1>3 DEF SingleStore!CreateDataPoints, SingleStore!CreateCollection, SingleStore!Own,
     ServerFields, SingleStore!With, SingleStore!Upserted, SingleStore!Written, SingleStore!Db, Written, Db,
     SingleStore!WithColl, SingleStore!Locks
<1>4. CASE SingleStore!DeleteDataPoints(c)
  BY <1>1, <1>4 DEF SingleStore!DeleteDataPoints, SingleStore!Own, ServerFields, SingleStore!With
<1>5. CASE SingleStore!Prune(c)
  BY <1>1, <1>5 DEF SingleStore!Prune, SingleStore!Own, ServerFields, SingleStore!With, SingleStore!Dropped
<1>6. CASE server' = server
  BY <1>6
<1> QED BY <1>2, <1>3, <1>4, <1>5, <1>6 DEF SingleStore!Next, SingleStore!Fails, SingleStore!Raises

\* What a request of Weaviate adds.
LEMMA WeaviateAdds ==
  ASSUME TypeInv, NEW c \in Clients, Weaviate!Next(c) \/ Weaviate!Fails(c)
  PROVE Adds(c)
<1> USE DEF Adds, Weaviate!At
<1>1. ServerFields \subseteq DOMAIN server
  BY DEF TypeInv
<1>2. CASE Weaviate!CreateCollection(c)
  BY <1>1, <1>2 DEF Weaviate!CreateCollection, ServerFields, Weaviate!WithColl, Weaviate!Locks
<1>3. CASE Weaviate!CreateDataPoints(c)
  BY <1>1, <1>3 DEF Weaviate!CreateDataPoints, Weaviate!GetCollection, ServerFields, Weaviate!With,
     Weaviate!Upserted, Weaviate!Written, Weaviate!Db, Written, Db
<1>4. CASE Weaviate!DeleteDataPoints(c)
  BY <1>1, <1>4 DEF Weaviate!DeleteDataPoints, Weaviate!GetCollection, ServerFields, Weaviate!With
<1>5. CASE Weaviate!Prune(c)
  BY <1>1, <1>5 DEF Weaviate!Prune, ServerFields, Weaviate!With, Weaviate!Dropped
<1>6. CASE Weaviate!InsertsSome(c)
  BY <1>1, <1>6 DEF Weaviate!InsertsSome, ServerFields, Weaviate!With, Weaviate!Upserted, Weaviate!Written,
     Weaviate!Db, Written, Db
<1>7. CASE server' = server
  BY <1>7
<1> QED BY <1>2, <1>3, <1>4, <1>5, <1>6, <1>7 DEF Weaviate!Next, Weaviate!Fails, Weaviate!Raises

\* What a request of Milvus adds.
LEMMA MilvusAdds ==
  ASSUME TypeInv, NEW c \in Clients, Milvus!Next(c) \/ Milvus!Fails(c)
  PROVE Adds(c)
<1> USE DEF Adds, Milvus!At
<1>1. ServerFields \subseteq DOMAIN server
  BY DEF TypeInv
<1>2. CASE Milvus!CreateVectorIndex(c)
  BY <1>1, <1>2 DEF Milvus!CreateVectorIndex, Milvus!CreateCollection, ServerFields, Milvus!WithColl,
     Milvus!Locks
<1>3. CASE Milvus!CreateDataPoints(c)
  BY <1>1, <1>3 DEF Milvus!CreateDataPoints, ServerFields, Milvus!With, Milvus!Upserted, Milvus!Written,
     Milvus!Db, Written, Db
<1>4. CASE Milvus!DeleteDataPoints(c)
  BY <1>1, <1>4 DEF Milvus!DeleteDataPoints, ServerFields, Milvus!With
<1>5. CASE Milvus!Prune(c)
  BY <1>1, <1>5 DEF Milvus!Prune, ServerFields, Milvus!With, Milvus!Dropped
<1>6. CASE server' = server
  BY <1>6
<1> QED BY <1>2, <1>3, <1>4, <1>5, <1>6 DEF Milvus!Next, Milvus!Fails, Milvus!Raises

\* What a request of openGauss adds.
LEMMA OpenGaussAdds ==
  ASSUME TypeInv, NEW c \in Clients, OpenGauss!Next(c) \/ OpenGauss!Fails(c)
  PROVE Adds(c)
<1> USE DEF Adds, OpenGauss!At
<1>1. ServerFields \subseteq DOMAIN server
  BY DEF TypeInv
<1>2. CASE OpenGauss!CreateCollection(c)
  BY <1>1, <1>2 DEF OpenGauss!CreateCollection, ServerFields, OpenGauss!WithColl, OpenGauss!Locks
<1>3. CASE OpenGauss!CreateDataPoints(c)
  BY <1>1, <1>3 DEF OpenGauss!CreateDataPoints, OpenGauss!Locks, ServerFields, OpenGauss!With,
     OpenGauss!Upserted, OpenGauss!Written, OpenGauss!Db, Written, Db
<1>4. CASE OpenGauss!DeleteDataPoints(c)
  BY <1>1, <1>4 DEF OpenGauss!DeleteDataPoints, OpenGauss!Locks, ServerFields, OpenGauss!With
<1>5. CASE OpenGauss!Prune(c)
  BY <1>1, <1>5 DEF OpenGauss!Prune, ServerFields, OpenGauss!With, OpenGauss!Dropped
<1>6. CASE server' = server
  BY <1>6
<1> QED BY <1>2, <1>3, <1>4, <1>5, <1>6 DEF OpenGauss!Next, OpenGauss!Fails, OpenGauss!Raises

\* What a request of Redis adds.
LEMMA RedisAdds ==
  ASSUME TypeInv, NEW c \in Clients, Redis!Next(c) \/ Redis!Fails(c)
  PROVE Adds(c)
<1> USE DEF Adds, Redis!At
<1>1. ServerFields \subseteq DOMAIN server
  BY DEF TypeInv
<1>2. CASE Redis!CreateCollection(c)
  BY <1>1, <1>2 DEF Redis!CreateCollection, ServerFields, Redis!WithColl, Redis!Locks
<1>3. CASE Redis!CreateDataPoints(c)
  BY <1>1, <1>3 DEF Redis!CreateDataPoints, ServerFields, Redis!With, Redis!Upserted, Redis!Written,
     Redis!Db, Written, Db
<1>4. CASE Redis!DeleteDataPoints(c)
  BY <1>1, <1>4 DEF Redis!DeleteDataPoints, ServerFields, Redis!With
<1>5. CASE Redis!Prune(c)
  BY <1>1, <1>5 DEF Redis!Prune, ServerFields, Redis!With, Redis!Dropped
<1>6. CASE server' = server
  BY <1>6
<1> QED BY <1>2, <1>3, <1>4, <1>5, <1>6 DEF Redis!Next, Redis!Fails, Redis!Raises

\* What a request of Valkey adds.
LEMMA ValkeyAdds ==
  ASSUME TypeInv, NEW c \in Clients, Valkey!Next(c) \/ Valkey!Fails(c)
  PROVE Adds(c)
<1> USE DEF Adds, Valkey!At
<1>1. ServerFields \subseteq DOMAIN server
  BY DEF TypeInv
<1>2. CASE Valkey!CreateCollection(c)
  BY <1>1, <1>2 DEF Valkey!CreateCollection, ServerFields, Valkey!WithColl, Valkey!Locks
<1>3. CASE Valkey!CreateDataPoints(c)
  BY <1>1, <1>3 DEF Valkey!CreateDataPoints, ServerFields, Valkey!With, Valkey!Upserted, Valkey!Written,
     Valkey!Db, Written, Db
<1>4. CASE Valkey!DeleteDataPoints(c)
  BY <1>1, <1>4 DEF Valkey!DeleteDataPoints, ServerFields, Valkey!With
<1>5. CASE Valkey!Prune(c)
  BY <1>1, <1>5 DEF Valkey!Prune, ServerFields, Valkey!With, Valkey!Dropped
<1>6. CASE server' = server
  BY <1>6
<1> QED BY <1>2, <1>3, <1>4, <1>5, <1>6 DEF Valkey!Next, Valkey!Fails, Valkey!Raises

\* What a request of turbopuffer adds.
LEMMA TurbopufferAdds ==
  ASSUME TypeInv, NEW c \in Clients, Turbopuffer!Next(c) \/ Turbopuffer!Fails(c)
  PROVE Adds(c)
<1> USE DEF Adds, Turbopuffer!At
<1>1. ServerFields \subseteq DOMAIN server
  BY DEF TypeInv
<1>2. CASE Turbopuffer!CreateCollection(c)
  BY <1>1, <1>2 DEF Turbopuffer!CreateCollection, ServerFields, Turbopuffer!WithColl, Turbopuffer!Locks
<1>3. CASE Turbopuffer!CreateDataPoints(c)
  BY <1>1, <1>3 DEF Turbopuffer!CreateDataPoints, Turbopuffer!Own, ServerFields, Turbopuffer!With,
     Turbopuffer!Upserted, Turbopuffer!Written, Turbopuffer!Db, Written, Db
<1>4. CASE Turbopuffer!DeleteDataPoints(c)
  BY <1>1, <1>4 DEF Turbopuffer!DeleteDataPoints, Turbopuffer!Own, ServerFields, Turbopuffer!With
<1>5. CASE Turbopuffer!Prune(c)
  BY <1>1, <1>5 DEF Turbopuffer!Prune, ServerFields, Turbopuffer!With, Turbopuffer!Dropped
<1>6. CASE server' = server
  BY <1>6
<1> QED BY <1>2, <1>3, <1>4, <1>5, <1>6 DEF Turbopuffer!Next, Turbopuffer!Fails, Turbopuffer!Raises

\* What a request of Pinecone adds.
LEMMA PineconeAdds ==
  ASSUME TypeInv, NEW c \in Clients, Pinecone!Next(c) \/ Pinecone!Fails(c)
  PROVE Adds(c)
<1> USE DEF Adds, Pinecone!At
<1>1. ServerFields \subseteq DOMAIN server
  BY DEF TypeInv
<1>2. CASE Pinecone!CreateCollection(c)
  BY <1>1, <1>2 DEF Pinecone!CreateCollection, ServerFields, Pinecone!WithColl, Pinecone!Locks
<1>3. CASE Pinecone!CreateDataPoints(c)
  BY <1>1, <1>3 DEF Pinecone!CreateDataPoints, ServerFields, Pinecone!With, Pinecone!Upserted,
     Pinecone!Written, Pinecone!Db, Written, Db
<1>4. CASE Pinecone!DeleteDataPoints(c)
  BY <1>1, <1>4 DEF Pinecone!DeleteDataPoints, ServerFields, Pinecone!With
<1>5. CASE Pinecone!Prune(c)
  BY <1>1, <1>5 DEF Pinecone!Prune, ServerFields, Pinecone!With, Pinecone!Dropped
<1>6. CASE server' = server
  BY <1>6
<1> QED BY <1>2, <1>3, <1>4, <1>5, <1>6 DEF Pinecone!Next, Pinecone!Fails, Pinecone!Raises

\* What a request of Azure AI Search adds.
LEMMA AzureAdds ==
  ASSUME TypeInv, NEW c \in Clients, Azure!Next(c) \/ Azure!Fails(c)
  PROVE Adds(c)
<1> USE DEF Adds, Azure!At
<1>1. ServerFields \subseteq DOMAIN server
  BY DEF TypeInv
<1>2. CASE Azure!CreateCollection(c, "start", "done")
  BY <1>1, <1>2 DEF Azure!CreateCollection, ServerFields, Azure!WithColl, Azure!Locks
<1>3. CASE Azure!CreateDataPoints(c)
  BY <1>1, <1>3 DEF Azure!CreateDataPoints, Azure!CreateCollection, ServerFields, Azure!With, Azure!Upserted,
     Azure!Written, Azure!Db, Written, Db, Azure!WithColl, Azure!Locks
<1>4. CASE Azure!DeleteDataPoints(c)
  BY <1>1, <1>4 DEF Azure!DeleteDataPoints, ServerFields, Azure!With
<1>5. CASE Azure!Prune(c)
  BY <1>1, <1>5 DEF Azure!Prune, ServerFields, Azure!With, Azure!Dropped
<1>6. CASE Azure!UploadsSome(c)
  BY <1>1, <1>6 DEF Azure!UploadsSome, ServerFields, Azure!With, Azure!Upserted, Azure!Written, Azure!Db,
     Written, Db
<1>7. CASE server' = server
  BY <1>7
<1> QED BY <1>2, <1>3, <1>4, <1>5, <1>6, <1>7 DEF Azure!Next, Azure!Fails, Azure!Raises

\* What a request of OpenSearch adds.
LEMMA OpenSearchAdds ==
  ASSUME TypeInv, NEW c \in Clients, OpenSearch!Next(c) \/ OpenSearch!Fails(c)
  PROVE Adds(c)
<1> USE DEF Adds, OpenSearch!At
<1>1. ServerFields \subseteq DOMAIN server
  BY DEF TypeInv
<1>2. CASE OpenSearch!CreateCollection(c, "start", "done")
  BY <1>1, <1>2 DEF OpenSearch!CreateCollection, ServerFields, OpenSearch!WithColl, OpenSearch!Locks
<1>3. CASE OpenSearch!CreateDataPoints(c)
  BY <1>1, <1>3 DEF OpenSearch!CreateDataPoints, OpenSearch!CreateCollection, ServerFields, OpenSearch!With,
     OpenSearch!Upserted, OpenSearch!Written, OpenSearch!Db, Written, Db, OpenSearch!WithColl,
     OpenSearch!Locks
<1>4. CASE OpenSearch!DeleteDataPoints(c)
  BY <1>1, <1>4 DEF OpenSearch!DeleteDataPoints, ServerFields, OpenSearch!With
<1>5. CASE OpenSearch!Prune(c)
  BY <1>1, <1>5 DEF OpenSearch!Prune, ServerFields, OpenSearch!With, OpenSearch!Dropped
<1>6. CASE OpenSearch!Searching(c)
  BY <1>1, <1>6 DEF OpenSearch!Searching
<1>7. CASE OpenSearch!BulkTakesSome(c)
  BY <1>1, <1>7 DEF OpenSearch!BulkTakesSome, ServerFields, OpenSearch!With, OpenSearch!Upserted,
     OpenSearch!Written, OpenSearch!Db, Written, Db
<1>8. CASE server' = server
  BY <1>8
<1> QED BY <1>2, <1>3, <1>4, <1>5, <1>6, <1>7, <1>8 DEF OpenSearch!Next, OpenSearch!Fails, OpenSearch!Raises

\* What a request of DuckDB adds.
LEMMA DuckDBAdds ==
  ASSUME TypeInv, NEW c \in Clients, DuckDB!Next(c) \/ DuckDB!Fails(c)
  PROVE Adds(c)
<1> USE DEF Adds, DuckDB!At
<1>1. ServerFields \subseteq DOMAIN server
  BY DEF TypeInv
<1>2. CASE DuckDB!CreateCollection(c)
  BY <1>1, <1>2 DEF DuckDB!CreateCollection, ServerFields, DuckDB!WithColl, DuckDB!Locks
<1>3. CASE DuckDB!CreateDataPoints(c)
  BY <1>1, <1>3 DEF DuckDB!CreateDataPoints, ServerFields, DuckDB!With, DuckDB!Upserted, DuckDB!Written,
     DuckDB!Db, Written, Db
<1>4. CASE DuckDB!DeleteDataPoints(c)
  BY <1>1, <1>4 DEF DuckDB!DeleteDataPoints, ServerFields, DuckDB!With
<1>5. CASE DuckDB!Prune(c)
  BY <1>1, <1>5 DEF DuckDB!Prune, ServerFields, DuckDB!With, DuckDB!Dropped
<1>6. CASE DuckDB!NotImplemented(c)
  BY <1>1, <1>6 DEF DuckDB!NotImplemented
<1>7. CASE server' = server
  BY <1>7
<1> QED BY <1>2, <1>3, <1>4, <1>5, <1>6, <1>7 DEF DuckDB!Next, DuckDB!Fails, DuckDB!Raises

\* What a call writes are finitely many points.
LEMMA WrittenAreFinite ==
  ASSUME NEW c, NEW ids, IsFiniteSet(ids)
  PROVE IsFiniteSet(Written(c, ids))
<1> DEFINE f == [i \in ids |-> [coll |-> call[c].coll, id |-> i, db |-> Db(c), rev |-> call[c].rev]]
<1>1. f \in Surjection(ids, Written(c, ids))
  BY DEF Surjection, Written
<1> QED BY <1>1, FS_Surjection

\* A step of a call adds finitely many points, in collections.
LEMMA AddsPoints ==
  ASSUME PointsInv, NEW c \in Clients, Adds(c)
  PROVE IsFiniteSet(server'.points) /\ \A p \in server'.points : p.coll \in Collections
<1>1. ASSUME NEW ids, IsFiniteSet(ids), call[c].op = "put",
             server'.points \subseteq server.points \cup Written(c, ids)
      PROVE IsFiniteSet(server'.points) /\ \A p \in server'.points : p.coll \in Collections
  <2>1. IsFiniteSet(server.points \cup Written(c, ids))
    BY <1>1, WrittenAreFinite, FS_Union DEF PointsInv
  <2>2. call[c].coll \in Collections
    BY <1>1 DEF PointsInv, VectorInv, SafeInv, TypeInv, Running, IsJob
  <2> QED BY <1>1, <2>1, <2>2, FS_Subset DEF PointsInv, Written
<1>2. CASE server'.points \subseteq server.points
  BY <1>2, FS_Subset DEF PointsInv
<1>3. call[c].op = "put" => IsFiniteSet(call[c].ids)
  BY DEF PointsInv, VectorInv, SafeInv, TypeInv, Running, IsJob
<1>4. \A i : IsFiniteSet({i})
  BY FS_Singleton
<1> QED BY <1>1, <1>2, <1>3, <1>4 DEF Adds

\* A step of a vector adapter.
LEMMA StepAdds ==
  ASSUME TypeInv, provider \in Vector, NEW c \in Clients, VectorNext(c) \/ VectorFails(c)
  PROVE Adds(c)
BY QdrantAdds, SingleStoreAdds, WeaviateAdds, MilvusAdds, OpenGaussAdds, RedisAdds, ValkeyAdds,
   TurbopufferAdds,
   PineconeAdds, AzureAdds, OpenSearchAdds, DuckDBAdds DEF VectorNext, VectorFails

\* What a failed call of Valkey leaves behind are documents it was to write.
LEMMA StepLeaves ==
  ASSUME PointsInv, provider = "valkey", NEW c \in Clients, VectorNext(c) \/ VectorFails(c), NEW e \in Engines
  PROVE \A p \in memo'[e] : p.coll \in Collections
<1>1. CASE memo' = memo
  BY <1>1 DEF PointsInv
<1>2. ASSUME NEW i, call[c].op = "put",
             memo' = [memo EXCEPT ![engine[c]] = @ \cup Valkey!Written(c, call[c].todo \ {i})]
      PROVE \A p \in memo'[e] : p.coll \in Collections
  <2>1. call[c].coll \in Collections /\ DOMAIN memo = Engines
    BY <1>2 DEF PointsInv, VectorInv, SafeInv, TypeInv, Running, IsJob
  <2>2. memo'[e] \subseteq memo[e] \cup Valkey!Written(c, call[c].todo \ {i})
    BY <1>2, <2>1
  <2> QED BY <2>1, <2>2 DEF PointsInv, Valkey!Written
<1>3. Valkey!Next(c) \/ Valkey!Fails(c)
  BY DEF VectorNext, VectorFails
<1>4. CASE Valkey!Next(c)
  BY <1>1, <1>4 DEF Valkey!Next, Valkey!CreateCollection, Valkey!CreateDataPoints, Valkey!DeleteDataPoints,
     Valkey!Prune, Valkey!Locks
<1>5. CASE Valkey!Fails(c)
  BY <1>1, <1>2, <1>5 DEF Valkey!Fails, Valkey!Raises, Valkey!At
<1> QED BY <1>3, <1>4, <1>5

\* A step of a call keeps the points in their collections.
LEMMA StepKeepsPoints ==
  ASSUME PointsInv, Same, provider \in Vector, NEW c \in Clients,
         VectorNext(c) \/ (VectorFails(c) /\ faults' > 0)
  PROVE PointsInv'
<1>1. VectorInv' /\ provider' = provider
  BY StepIsSafe DEF PointsInv, Same
<1>2. IsFiniteSet(server'.points) /\ \A p \in server'.points : p.coll \in Collections
  BY StepAdds, AddsPoints DEF PointsInv, VectorInv, SafeInv
<1>3. provider = "valkey" => \A e \in Engines : \A p \in memo'[e] : p.coll \in Collections
  BY StepLeaves
<1> QED BY <1>1, <1>2, <1>3 DEF PointsInv

\* So does the beginning of one.
LEMMA BeginKeepsPoints ==
  ASSUME PointsInv, provider \in Vector, NEW c \in Clients, NEW job \in Jobs[provider], Begin(c, job)
  PROVE PointsInv'
BY BeginIsSafe DEF PointsInv, Begin

\* And a write that a failed call has left behind.
LEMMA BackgroundKeepsPoints ==
  ASSUME PointsInv, provider \in Vector, NEW e \in Engines, Background(e)
  PROVE PointsInv'
<1>1. PICK p \in memo[e] : server' = Valkey!Upserted({p}) /\ memo' = [memo EXCEPT ![e] = @ \ {p}]
  BY DEF Background, Valkey!LeftBehind
<1>2. provider = "valkey" /\ provider' = provider /\ VectorInv'
  BY BackgroundIsSafe DEF PointsInv, Background
<1>3. p.coll \in Collections /\ DOMAIN memo = Engines /\ ServerFields \subseteq DOMAIN server
  BY <1>1, <1>2 DEF PointsInv, VectorInv, SafeInv, TypeInv
<1>4. server'.points \subseteq server.points \cup {p}
  BY <1>1, <1>3 DEF Valkey!Upserted, Valkey!With, ServerFields
<1>5. IsFiniteSet(server.points \cup {p})
  BY FS_Singleton, FS_Union DEF PointsInv
<1>6. IsFiniteSet(server'.points) /\ \A q \in server'.points : q.coll \in Collections
  BY <1>3, <1>4, <1>5, FS_Subset DEF PointsInv
<1>7. \A x \in Engines : \A q \in memo'[x] : q.coll \in Collections
  BY <1>1, <1>2, <1>3 DEF PointsInv
<1> QED BY <1>2, <1>6, <1>7 DEF PointsInv

\* Earlier calls have left finitely many points in collections, and nothing to write.
LEMMA InitHasPoints ==
  ASSUME Init, provider \in Vector
  PROVE PointsInv
<1>1. IsServer(provider, server)
  BY StoresAssumption DEF Init
<1>2. provider = "valkey" => memo = [e \in Engines |-> {}]
  <2>1. provider = "valkey" => \E mode : memo = [e \in Engines |-> NewMemo(e, mode)]
    BY DEF Init
  <2> QED BY <2>1 DEF NewMemo
<1> QED BY <1>1, <1>2, InitIsSafe DEF PointsInv, IsServer

\* The vector adapters answer by what the server has for their engine.
LEMMA PointsAreRead ==
  ASSUME PointsInv, WithinLimits, provider \in Vector
  PROVE ReadsAgree
<1>1. \A c \in Clients : engine[c] \in Engines
  BY DEF PointsInv, VectorInv, SafeInv, TypeInv
<1>2. ASSUME NEW e \in Engines
      PROVE VectorReadsAgree(e)
  BY QdrantReads, SingleStoreReads, WeaviateReads, MilvusReads, OpenGaussReads, RedisReads, ValkeyReads,
     TurbopufferReads, PineconeReads, AzureReads, OpenSearchReads, DuckDBReads DEF Vector
<1>3. provider \notin Graphs
  BY DEF Vector, Graphs, PointsAreNodes
<1> QED BY <1>1, <1>2, <1>3 DEF ReadsAgree

\* Of the same adapters, as long as no collection outgrows the limit a search has:
\* whatever calls, failures and half-done writes have led to what the server holds,
\* retrieve, search and batch_search answer with the points of the engine that the
\* filter lets through, taken as the method hears it (Heard: six batch searches
\* have no operator, openGauss does not look at the node sets).  batch_search of
\* Qdrant finds nothing, and its retrieve has the points of every database.
THEOREM VectorsAreRead == Spec => [](provider \in Vector /\ WithinLimits => ReadsAgree)
<1>1. Init /\ provider \in Vector => PointsInv
  BY InitHasPoints
<1>2. (provider \in Vector => PointsInv) /\ [Next]_vars => (provider \in Vector => PointsInv)'
  <2> SUFFICES ASSUME provider \in Vector => PointsInv, [Next]_vars, (provider \in Vector)'
               PROVE PointsInv'
    OBVIOUS
  <2>1. CASE UNCHANGED vars
    BY <2>1, NothingIsSafe DEF vars, PointsInv
  <2>2. CASE Next
    <3>1. provider' = provider /\ provider \in Vector /\ PointsInv
      BY <2>2 DEF Next, Begin, Step, Fault, Background
    <3> QED BY <2>2, <3>1, NextOfVector, BeginKeepsPoints, StepKeepsPoints, BackgroundKeepsPoints
       DEF PointsInv
  <2> QED BY <2>1, <2>2
<1>3. (provider \in Vector => PointsInv) => (provider \in Vector /\ WithinLimits => ReadsAgree)
  BY PointsAreRead
<1> QED BY <1>1, <1>2, <1>3, PTL DEF Spec
=============================================================================
