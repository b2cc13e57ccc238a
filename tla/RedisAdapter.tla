---------------------------- MODULE RedisAdapter ----------------------------
(* A collection is a search index over the keys with its prefix.  An engine *)
(* remembers the indices it has touched in self._indices (memo).            *)
EXTENDS Store

\* _get_index
Remembers(c) == memo' = [memo EXCEPT ![engine[c]] = @ \cup {call[c].coll}]

\* create(overwrite=False) leaves an index that exists alone.
CreateCollection(c) ==
    \/ /\ At(c, "create", "start") /\ lock[engine[c]] = None
       /\ lock' = [lock EXCEPT ![engine[c]] = c]
       /\ call' = [call EXCEPT ![c].pc = "look"]
       /\ Remembers(c)
       /\ UNCHANGED <<server, busy, due, untold>>
    \/ /\ At(c, "create", "look")
       /\ IF Exists(call[c].coll) THEN Ends(c, "ok") ELSE Goto(c, "make")
       /\ Remembers(c) /\ UNCHANGED server
    \/ /\ At(c, "create", "make")
       /\ server' = WithColl(call[c].coll)
       /\ Ends(c, "ok")
       /\ UNCHANGED memo

CreateDataPoints(c) ==
    \/ /\ At(c, "put", "start")
       /\ IF Exists(call[c].coll) THEN Goto(c, "load") ELSE Ends(c, "notfound")
       /\ Remembers(c) /\ UNCHANGED server
    \/ /\ At(c, "put", "load")   \* the keys are written whether or not the index is still there
       /\ server' = Upserted(Written(c, call[c].ids))
       /\ Ends(c, "ok")
       /\ UNCHANGED memo

DeleteDataPoints(c) ==
    /\ At(c, "delete", "start")
    /\ server' = With(server.points \ Matching(call[c].coll, call[c].ids))
    /\ Ends(c, "ok")
    /\ Remembers(c)

\* Iterates over self._indices, and clears it at the end.  tries keeps the
\* size the iteration began with: a dict that has grown or shrunk raises.
Prune(c) ==
    \/ /\ At(c, "prune", "start")
       /\ call' = [call EXCEPT ![c].pc = "next", ![c].todo = memo[engine[c]],
                               ![c].tries = Cardinality(memo[engine[c]])]
       /\ UNCHANGED <<server, memo, lock, busy, due, untold>>
    \/ /\ At(c, "prune", "next") /\ Cardinality(memo[engine[c]]) # call[c].tries
       /\ Ends(c, "error") /\ UNCHANGED <<server, memo>>
    \/ /\ At(c, "prune", "next") /\ Cardinality(memo[engine[c]]) = call[c].tries
       /\ \E k \in call[c].todo :
            IF Exists(k)
            THEN /\ call' = [call EXCEPT ![c].pc = "delete", ![c].coll = k, ![c].todo = @ \ {k}]
                 /\ UNCHANGED <<lock, busy, due, untold>>
            ELSE GotoWith(c, "next", call[c].todo \ {k})
       /\ UNCHANGED <<server, memo>>
    \/ /\ At(c, "prune", "delete")   \* delete(drop=True): the index and its keys
       /\ server' = IF Exists(call[c].coll) THEN Dropped(call[c].coll) ELSE server
       /\ Goto(c, "next")
       /\ UNCHANGED memo
    \/ /\ At(c, "prune", "next") /\ call[c].todo = {}
       /\ Cardinality(memo[engine[c]]) = call[c].tries
       /\ memo' = [memo EXCEPT ![engine[c]] = {}]
       /\ Ends(c, "ok")
       /\ UNCHANGED server

Next(c) == CreateCollection(c) \/ CreateDataPoints(c) \/ DeleteDataPoints(c) \/ Prune(c)

\* has_collection answers no when its request fails; prune goes on with the
\* next index.
Fails(c) ==
    \/ call[c].op # "prune" /\ Raises(c)
    \/ At(c, "create", "look") /\ Goto(c, "make") /\ Remembers(c) /\ UNCHANGED server
    \/ At(c, "put", "start") /\ Ends(c, "notfound") /\ Remembers(c) /\ UNCHANGED server
    \/ /\ At(c, "prune", "delete")
       /\ call' = [call EXCEPT ![c].pc = "next"]
       /\ untold' = untold \cup FoundIn(c, call[c].coll)
       /\ UNCHANGED <<server, memo, lock, busy, due>>

HasCollection(e, k) == Exists(k)

\* fetch by key
Retrieve(e, k, ids) == Hits(Matching(k, ids))

\* limit is None: num_docs
Search(e, k, names, op) ==
    LET limit == Cardinality(InColl(k))
        filtered == CASE names = {} -> InColl(k)
                      [] op = "AND" -> AllOf(names, InColl(k))
                      [] OTHER -> AnyOf(names, InColl(k))
    IN  IF ~Exists(k) \/ limit = 0 THEN Hits({}) ELSE Hits(Nearest(limit, filtered))

\* Only results with a score under 0.1: for a query as near to every point.
BatchSearch(e, k, names, op) == Search(e, k, names, op)

\* The names the engine remembers, not the server's.
GetCollectionNames(e) == memo[e]

Reads(e) == VectorAnswers(e, GetCollectionNames(e), Retrieve, Search, BatchSearch)
=============================================================================
