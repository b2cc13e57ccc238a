------------------------------- MODULE Store -------------------------------
(***************************************************************************)
(* What the models of the database adapters share.  An adapter package     *)
(* registers one class under a provider name; cognee makes instances of it *)
(* (engines) and calls their methods from asyncio tasks (clients).  The    *)
(* engines of several processes, datasets and users share one server.      *)
(*                                                                         *)
(* A method is a sequence of requests.  Between two of them other clients  *)
(* run: those of the same engine where the method awaits, those of other   *)
(* engines always.  call[c].pc names the request client c makes next.      *)
(***************************************************************************)
EXTENDS Naturals, FiniteSets

CONSTANTS
    Clients,      \* asyncio tasks
    Engines,      \* adapter instances
    Databases,    \* values of database_name
    Collections,  \* vector collections
    Ids,          \* ids of data points and of nodes
    Sets,         \* node sets
    BelongsTo,    \* [Ids -> SUBSET Sets], the belongs_to_set of a data point
    TypeOf,       \* [Ids -> Collections]: the collection named for a node's type and field
    None,         \* no value
    MaxCalls,     \* bound: calls in a behaviour
    MaxFaults     \* bound: requests that fail

ASSUME StoreAssumption ==
    /\ None \notin Clients \cup Databases \cup Collections \cup Ids
    /\ BelongsTo \in [Ids -> SUBSET Sets] /\ TypeOf \in [Ids -> Collections]
    /\ MaxCalls \in Nat /\ MaxFaults \in Nat

VARIABLES
    provider,       \* the adapter in use, one for a whole behaviour
    engine,         \* [Clients -> Engines], whose methods a client calls
    database,       \* [Engines -> Databases]
    server,         \* the server's data
    call,           \* [Clients -> the running method, or how the last one ended]
    lock,           \* [Engines -> holder of VECTOR_DB_LOCK or None]
    busy,           \* [Engines -> client that blocks the event loop or None]
    memo,           \* [Engines -> what the instance remembers between calls]
    calls, faults,  \* counters for the bounds
    due,            \* history: what returned calls entitle clients to find
    untold          \* history: what has been lost or left undone without a client being told

vars == <<provider, engine, database, server, call, lock, busy, memo, calls, faults, due, untold>>

Db(c) == database[engine[c]]

Revisions == 1 .. 2

\* A point carries the database_name of its writer whether or not the adapter
\* stores it, and the revision of the text it was made from.
Point == [coll : Collections, id : Ids, db : Databases, rev : Revisions]

\* The mark a created collection leaves in due.
Created(k, d) == [coll |-> k, id |-> None, db |-> d, rev |-> 0]

----------------------------------------------------------------------------
(* Calls. *)

Idle(result) == [op |-> "none", coll |-> None, ids |-> {}, rev |-> 1, pc |-> "idle",
                 todo |-> {}, tries |-> 0, clean |-> FALSE, found |-> {}, result |-> result]

Running(c) == call[c].op # "none"

\* What a write of call c leaves in the server if nothing else happens.
Written(c, ids) == {[coll |-> call[c].coll, id |-> i, db |-> Db(c), rev |-> call[c].rev] : i \in ids}

----------------------------------------------------------------------------
(* History.  due holds what returned calls entitle clients to find: points, *)
(* marks of created collections, nodes, edges, and tombstones (rev 0) of    *)
(* what has been deleted.  For a graph, ids holds the ids of nodes or the   *)
(* edges <<from, label, to>> a call is about.                               *)
(* untold holds the marks of what the code loses, or leaves undone, and     *)
(* answers with success or with nothing at all: each step that does so adds *)
(* them, and the next call that writes or removes the same takes them away, *)
(* unless a sweep that has left them is still running.                      *)

\* Adapters that name the database of their engine in the requests for points
\* by id, and in those of prune.
SeparateIds == {"singlestore", "turbopuffer"}
SeparatePrunes == SeparateIds \cup {"qdrant"}

\* Their create_collection leaves nothing in the server.
LazyCollections == {"turbopuffer", "moss", "arcadedb", "helix"}

\* Adapters that keep data points as the nodes of their graph, whatever the
\* collection, so that calls for points do what those for nodes do.
PointsAreNodes == {"falkor", "arcadedb", "helix"}

Deed(op) ==
    IF provider \notin PointsAreNodes THEN op
    ELSE CASE op = "put" -> "add_nodes"
           [] op = "delete" -> "delete_nodes"
           [] op = "prune" -> "delete_graph"
           [] OTHER -> op

NodeMark(i, rev) == [coll |-> "node", id |-> i, db |-> None, rev |-> rev]

EdgeMark(t, rev) == [coll |-> "edge", id |-> t, db |-> None, rev |-> rev]

WeightMark(x, weight) == [coll |-> "weight", id |-> x, db |-> None, rev |-> weight]

TruthMark(i, truth) == [coll |-> "truth", id |-> i, db |-> None, rev |-> truth]

TagMark(i, tag) == [coll |-> "tag", id |-> <<i, tag>>, db |-> None, rev |-> 0]

Touches(t, ids) == t[1] \in ids \/ t[3] \in ids

IsMark(p) == p.coll \in {"node", "edge", "weight", "truth", "tag"}

\* An edge or its weight
IsEdge(p) == p.coll = "edge" \/ (p.coll = "weight" /\ p.id \notin Ids)

\* What a job of client c may rightly replace or remove: p is a mark.
Claimed(c, job, p) ==
    LET op == Deed(job.op) IN
    CASE op \in {"put", "delete"} ->
           /\ p.id # None /\ ~IsMark(p)
           /\ p.coll = job.coll \/ provider = "moss"
           /\ p.id \in job.ids
           /\ provider \in SeparateIds => p.db = Db(c)
      [] op = "create" -> p = Created(job.coll, Db(c))
      [] op = "prune" ->
           ~IsMark(p) /\ (provider \in SeparatePrunes => p.id = None \/ p.db = Db(c))
      [] op \in {"add_node", "add_nodes"} ->
           \/ p.coll \in {"node", "weight", "truth"} /\ p.id \in job.ids
           \/ p.coll = "tag" /\ p.id[1] \in job.ids
           \/ provider \in PointsAreNodes /\ ~IsMark(p) /\ p.id \in job.ids
      [] op \in {"weigh_nodes", "weigh_edges"} -> p.coll = "weight" /\ p.id \in job.ids
      [] op = "judge_nodes" -> p.coll = "truth" /\ p.id \in job.ids
      [] op \in {"cut_predecessors", "cut_successors"} ->   \* coll: the label
           IsEdge(p) /\ p.id[2] = job.coll /\ Touches(p.id, job.ids)
      [] op \in {"add_edge", "add_edges"} ->
           \/ p.coll \in {"edge", "weight"} /\ p.id \in job.ids
           \/ p.coll = "node" /\ p.rev = 0 /\ \E t \in job.ids : Touches(t, {p.id})
      [] op \in {"delete_node", "delete_nodes"} ->
           \/ p.coll \in {"node", "weight", "truth"} /\ p.id \in job.ids
           \/ IsEdge(p) /\ Touches(p.id, job.ids)
           \/ provider \in PointsAreNodes /\ ~IsMark(p) /\ p.id \in job.ids
      [] op = "remove_tags" -> p.coll = "edge" /\ provider = "turbopuffer_graph"
      [] op = "delete_graph" -> IsMark(p) \/ p.id = None \/ provider \in PointsAreNodes
      [] OTHER -> FALSE

HasEdgeMark(t) == \E p \in due : p.coll = "edge" /\ p.id = t

HasMark(i) == \E p \in due : p.coll = "node" /\ p.id = i /\ p.rev # 0

\* What a call that writes nodes also stores for them as points: ArcadeDB the
\* vector of each, HelixDB those of create_data_points.  FalkorDB has the vector
\* in the node, from the same query.
Vectors(c, job) ==
    {[coll |-> TypeOf[i], id |-> i, db |-> Db(c), rev |-> job.rev] :
       i \in IF provider = "arcadedb" \/ (provider = "helix" /\ job.op = "put") THEN job.ids ELSE {}}

\* The marks a call sets out to leave.  The queries for edges link nodes that
\* exist.  networkx holds edges of add_edges apart from the nodes, and a delete
\* that finds no node in its memory saves nothing.
Aims(c, job) ==
    LET op == Deed(job.op) IN
    CASE op = "put" -> {[coll |-> job.coll, id |-> i, db |-> Db(c), rev |-> job.rev] : i \in job.ids}
      [] op = "delete" -> {[coll |-> job.coll, id |-> i, db |-> Db(c), rev |-> 0] : i \in job.ids}
      [] op = "create" -> IF provider \in LazyCollections THEN {} ELSE {Created(job.coll, Db(c))}
      [] op \in {"add_node", "add_nodes"} -> {NodeMark(i, job.rev) : i \in job.ids} \cup Vectors(c, job)
      [] op \in {"add_edge", "add_edges"} ->
           {EdgeMark(t, 1) : t \in {x \in job.ids : HasMark(x[1]) /\ HasMark(x[3])}}
      [] op \in {"delete_node", "delete_nodes"} ->
           IF provider = "networkx" /\ (memo[engine[c]].loose # {} \/ call[c].pc = "start") THEN {}
           ELSE {NodeMark(i, 0) : i \in job.ids}
      [] op = "weigh_nodes" -> {WeightMark(i, job.rev) : i \in {x \in job.ids : HasMark(x)}}
      [] op = "judge_nodes" -> {TruthMark(i, job.rev) : i \in {x \in job.ids : HasMark(x)}}
      [] op = "weigh_edges" -> {WeightMark(t, job.rev) : t \in {x \in job.ids : HasEdgeMark(x)}}
      [] op = "remove_tags" -> {TagMark(i, job.coll) : i \in IF job.ids = {} THEN Ids ELSE job.ids}
      [] OTHER -> {}

Links(job, other) ==
    /\ job.op \in {"add_edge", "add_edges"} /\ Deed(other.op) \in {"add_node", "add_nodes"}
    /\ \E t \in job.ids : Touches(t, other.ids)

\* What is written anew while its payload is changed may have been too late for it.
Misses(job, other) ==
    /\ job.op \in {"weigh_nodes", "judge_nodes", "weigh_edges"} /\ job.ids \cap other.ids # {}
    /\ other.op \in {"add_node", "add_nodes", "add_edge", "add_edges"}

\* A call disturbs another one that runs with it if it may remove or replace
\* what the other writes.
Disturbs(d, other, c, job) ==
    \/ provider = "networkx"
    \/ \E p \in Aims(c, job) : Claimed(d, other, p)
    \/ Links(job, other) \/ Links(other, job) \/ Misses(job, other)

\* The calls that remove all there is, or all of a database.
Sweeping == {"prune", "delete_graph"}

\* The points and collections a prune of client c goes through.  Redis goes by
\* the names its engine remembers, with their indexes; the prune of Valkey
\* leaves the documents, and nothing deletes a vector of HelixDB.  A collection
\* several databases share goes only when it is empty.
Sweeps(c, q) ==
    CASE provider \in SeparatePrunes -> q.db = Db(c)
      [] provider = "redis" -> q.coll \in memo[engine[c]] \cap server.colls
      [] OTHER -> provider \notin {"valkey", "helix"}

SweptCollections(c) ==
    CASE provider \in {"qdrant", "singlestore"} \cup PointsAreNodes -> {}
      [] provider = "turbopuffer" -> {Created(k[2], k[1]) : k \in {x \in server.colls : x[1] = Db(c)}}
      [] provider = "redis" -> {Created(k, None) : k \in memo[engine[c]] \cap server.colls}
      [] OTHER -> {Created(k, None) : k \in server.colls}

\* The marks of what there is for a prune or delete_graph to remove.
ToSweep(c) ==
    {[coll |-> q.coll, id |-> q.id, db |-> q.db, rev |-> q.rev] : q \in {x \in server.points : Sweeps(c, x)}}
    \cup SweptCollections(c)
    \cup {NodeMark(n.id, 1) : n \in server.nodes}
    \cup {EdgeMark(<<e.from, e.label, e.to>>, 1) : e \in server.edges}

\* What a job of client c may write anew while client d sweeps.  The file of
\* networkx comes back whole.  Of two prunes of one engine of Redis the one
\* that ends forgets the names the other goes by.
Restores(c, job, d, p) ==
    LET op == Deed(job.op) IN
    \/ provider = "networkx"
    \/ /\ op = "put" /\ p.coll = job.coll /\ p.id \in job.ids \cup {None}
       /\ provider \in SeparateIds => p.db = Db(c)
    \/ op = "put" /\ provider = "moss" /\ p.id = None
    \/ op = "create" /\ p.coll = job.coll /\ p.id = None
    \/ op \in {"add_node", "add_nodes"} /\ p.id \in job.ids
    \/ op \in {"add_edge", "add_edges"} /\ (p.id \in job.ids \/ \E t \in job.ids : Touches(t, {p.id}))
    \/ op = "remove_tags" /\ p.coll = "node"
    \/ op = "prune" /\ provider = "redis" /\ engine[c] = engine[d]

\* found: what there is for a sweeping call to remove when it begins, but for what
\* calls that run with it may write anew.
FoundBy(c, job) ==
    {p \in IF job.op \in Sweeping THEN ToSweep(c) ELSE {} :
       \A d \in Clients \ {c} : Running(d) => ~Restores(d, call[d], c, p)}

\* What client d has found is less when c begins a job that may write it anew.
StillFound(c, job, d) == {p \in call[d].found : ~Restores(c, job, d, p)}

\* The call of client d when c begins a job.
Beside(c, job, d) ==
    [call[d] EXCEPT !.clean = @ /\ ~Disturbs(c, job, d, call[d]), !.found = StillFound(c, job, d)]

\* What was lost is written or removed anew, and no sweep that has left it runs.
Renews(c, job, p) == Claimed(c, job, p) /\ \A d \in Clients \ {c} : p \notin StillFound(c, job, d)

Begin(c, job) ==
    /\ ~Running(c)
    /\ calls < MaxCalls
    /\ calls' = calls + 1
    /\ call' = [d \in Clients |->
                  IF d = c
                  THEN [op |-> job.op, coll |-> job.coll, ids |-> job.ids, rev |-> job.rev,
                        pc |-> "start", todo |-> {}, tries |-> 0, result |-> "none",
                        clean |-> \A o \in Clients \ {c} : Running(o) => ~Disturbs(o, call[o], c, job),
                        found |-> FoundBy(c, job)]
                  ELSE Beside(c, job, d)]
    /\ due' = {p \in due : ~Claimed(c, job, p)}
    /\ untold' = {p \in untold : ~Renews(c, job, p)}
    /\ UNCHANGED <<provider, engine, database, server, lock, busy, memo, faults>>

At(c, op, pc) == call[c].op = op /\ call[c].pc = pc

\* The method awaits its next request.
Goto(c, pc) == /\ call' = [call EXCEPT ![c].pc = pc]
               /\ UNCHANGED <<lock, busy, due, untold>>

\* The same with the items a loop has left.
GotoWith(c, pc, todo) == /\ call' = [call EXCEPT ![c].pc = pc, ![c].todo = todo]
                         /\ UNCHANGED <<lock, busy, due, untold>>

\* The method makes its next request without an await in between.
GoOnTo(c, pc, todo) == /\ call' = [call EXCEPT ![c].pc = pc, ![c].todo = todo]
                       /\ busy' = [busy EXCEPT ![engine[c]] = c]
                       /\ UNCHANGED <<lock, due, untold>>

\* The same when one of them has failed and nobody is told.
GoOnUntold(c, pc, todo, marks) ==
    /\ call' = [call EXCEPT ![c].pc = pc, ![c].todo = todo]
    /\ busy' = [busy EXCEPT ![engine[c]] = c]
    /\ untold' = untold \cup marks
    /\ UNCHANGED <<lock, due>>

\* async with self.VECTOR_DB_LOCK
Locks(c, pc) == /\ lock[engine[c]] = None
                /\ lock' = [lock EXCEPT ![engine[c]] = c]
                /\ call' = [call EXCEPT ![c].pc = pc]
                /\ UNCHANGED <<server, memo, busy, due, untold>>

\* The method returns ("ok") or raises; leaving the block releases the lock.
\* Of a sweeping call the client keeps the result.
Leaves(c, result) ==
    /\ call' = [call EXCEPT ![c] = Idle(IF @.op \in Sweeping THEN result ELSE "none")]
    /\ lock' = [e \in Engines |-> IF lock[e] = c THEN None ELSE lock[e]]
    /\ busy' = [e \in Engines |-> IF busy[e] = c THEN None ELSE busy[e]]
    /\ due' = IF result = "ok" /\ call[c].clean THEN due \cup Aims(c, call[c]) ELSE due

Ends(c, result) == Leaves(c, result) /\ UNCHANGED untold

\* The method returns although some of what it is for has not been done.
EndsUntold(c, marks) == Leaves(c, "ok") /\ untold' = untold \cup marks

\* What is owed of collection k
OwedIn(k) == {p \in due : p.coll = k /\ (p.rev # 0 \/ p.id = None)}

\* What a sweeping call has found in collection k
FoundIn(c, k) == {p \in call[c].found : p.coll = k}

\* The event loop of c's engine is free to run c.
MayRun(c) == busy[engine[c]] \in {None, c}

\* A request fails and the method lets the exception through.
Raises(c) == Running(c) /\ Ends(c, "error") /\ UNCHANGED <<server, memo>>

----------------------------------------------------------------------------
(* The server's answers.  External: what the databases do. *)

Exists(k) == k \in server.colls

InColl(k) == {p \in server.points : p.coll = k}

Matching(k, ids) == {p \in InColl(k) : p.id \in ids}

OfDb(d) == {p \in server.points : p.db = d}

With(points) == [server EXCEPT !.points = points]

\* Points with the keys of new points are replaced.
Upserted(new) == With({p \in server.points : \A q \in new : <<p.coll, p.id>> # <<q.coll, q.id>>} \cup new)

WithColl(k) == [server EXCEPT !.colls = @ \cup {k}, !.ready = @ \cup {k}]

\* A collection goes with its points.
Dropped(k) == [server EXCEPT !.colls = @ \ {k}, !.ready = @ \ {k},
                             !.points = {p \in @ : p.coll # k}]

----------------------------------------------------------------------------
(* Answers of read-only methods: what they return, or that they raise. *)

Hits(points) == [ok |-> TRUE, hits |-> points]

Raised == [ok |-> FALSE, hits |-> {}]

\* The n nearest of some points; which ones depends on the vectors.
Nearest(n, points) ==
    IF Cardinality(points) <= n THEN points
    ELSE CHOOSE some \in SUBSET points : Cardinality(some) = n

\* node_name with node_name_filter_operator
AnyOf(names, points) == {p \in points : BelongsTo[p.id] \cap names # {}}

AllOf(names, points) == {p \in points : names \subseteq BelongsTo[p.id]}

\* The answers of an adapter to every question about its collections.
VectorAnswers(e, names, retrieve(_, _, _), search(_, _, _, _), batchSearch(_, _, _, _)) ==
    LET questions == Collections \X (SUBSET Sets) \X {"OR", "AND"}
    IN  [get_collection_names |-> names,
         retrieve |-> [q \in Collections \X SUBSET Ids |-> retrieve(e, q[1], q[2])],
         search |-> [q \in questions |-> search(e, q[1], q[2], q[3])],
         batch_search |-> [q \in questions |-> batchSearch(e, q[1], q[2], q[3])]]
=============================================================================
