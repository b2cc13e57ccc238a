--------------------------- MODULE MilvusAdapter ---------------------------
(* The client is synchronous: a method holds the event loop of its engine   *)
(* between the requests it makes without an await.                          *)
EXTENDS Store

\* has_collection answers no when its request fails.
CreateCollection(c) ==
    \/ /\ At(c, "create", "look")
       /\ GoOnTo(c, IF Exists(call[c].coll) THEN "index" ELSE "make", {})
       /\ UNCHANGED <<server, memo>>
    \/ /\ At(c, "create", "make")
       /\ IF Exists(call[c].coll) THEN UNCHANGED server /\ Ends(c, "exists")
          ELSE /\ server' = [server EXCEPT !.colls = @ \cup {call[c].coll}]
               /\ GoOnTo(c, "index", {})
       /\ UNCHANGED memo

\* The collection if it is missing, and its index always.
CreateVectorIndex(c) ==
    \/ /\ At(c, "create", "start")
       /\ IF Exists(call[c].coll) THEN GoOnTo(c, "index", {}) /\ UNCHANGED <<server, memo>>
          ELSE Locks(c, "look")
    \/ CreateCollection(c)
    \/ /\ At(c, "create", "index")
       /\ IF Exists(call[c].coll)
          THEN server' = [server EXCEPT !.ready = @ \cup {call[c].coll}] /\ Ends(c, "ok")
          ELSE UNCHANGED server /\ Ends(c, "error")
       /\ UNCHANGED memo

\* One insert per point, which does not replace, and a flush.
CreateDataPoints(c) ==
    \/ /\ At(c, "put", "start")
       /\ GoOnTo(c, "insert", call[c].ids)
       /\ UNCHANGED <<server, memo>>
    \/ /\ At(c, "put", "insert")
       /\ \E i \in call[c].todo :
            IF Exists(call[c].coll)
            THEN server' = With(server.points \cup Written(c, {i})) /\ GoOnTo(c, "insert", call[c].todo \ {i})
            ELSE UNCHANGED server /\ Ends(c, "error")
       /\ UNCHANGED memo
    \/ /\ At(c, "put", "insert") /\ call[c].todo = {}
       /\ Ends(c, IF Exists(call[c].coll) THEN "ok" ELSE "error")
       /\ UNCHANGED <<server, memo>>

DeleteDataPoints(c) ==
    /\ At(c, "delete", "start")
    /\ server' = With(server.points \ Matching(call[c].coll, call[c].ids))
    /\ Ends(c, IF Exists(call[c].coll) THEN "ok" ELSE "error")
    /\ UNCHANGED memo

Prune(c) ==
    \/ At(c, "prune", "start") /\ GoOnTo(c, "drop", server.colls) /\ UNCHANGED <<server, memo>>
    \/ /\ At(c, "prune", "drop")
       /\ \E k \in call[c].todo : server' = Dropped(k) /\ GoOnTo(c, "drop", call[c].todo \ {k})
       /\ UNCHANGED memo
    \/ At(c, "prune", "drop") /\ call[c].todo = {} /\ Ends(c, "ok") /\ UNCHANGED <<server, memo>>

Next(c) == CreateVectorIndex(c) \/ CreateDataPoints(c) \/ DeleteDataPoints(c) \/ Prune(c)

\* A failed look counts as "does not exist".
Fails(c) ==
    \/ Raises(c)
    \/ At(c, "create", "look") /\ GoOnTo(c, "make", {}) /\ UNCHANGED <<server, memo>>

HasCollection(e, k) == Exists(k)

Retrieve(e, k, ids) == IF Exists(k) THEN Hits(Matching(k, ids)) ELSE Raised

\* load_collection needs the index; ARRAY_CONTAINS_ALL, ARRAY_CONTAINS_ANY;
\* limit is None: row_count
Search(e, k, names, op) ==
    LET limit == Cardinality(InColl(k))
        filtered == CASE names = {} -> InColl(k)
                      [] op = "AND" -> AllOf(names, InColl(k))
                      [] OTHER -> AnyOf(names, InColl(k))
    IN  CASE ~Exists(k) -> Hits({})
          [] k \notin server.ready -> Raised
          [] limit = 0 -> Hits({})
          [] OTHER -> Hits(Nearest(limit, filtered))

\* An operator is taken among the **kwargs and dropped.
BatchSearch(e, k, names, op) == Search(e, k, names, "OR")

GetCollectionNames(e) == server.colls

Reads(e) == VectorAnswers(e, GetCollectionNames(e), Retrieve, Search, BatchSearch)
=============================================================================
