--------------------------- MODULE DuckDBAdapter ---------------------------
(* A table for each collection, in one file.  The connection is synchronous *)
(* and the lock held around each statement is free whenever it is taken:    *)
(* only the embedding is awaited.  database_name is not used.               *)
EXTENDS Store

CreateCollection(c) ==
    /\ At(c, "create", "start")
    /\ server' = WithColl(call[c].coll)   \* CREATE TABLE IF NOT EXISTS
    /\ Ends(c, "ok")
    /\ UNCHANGED memo

\* The table is looked for, the points are embedded and written in one
\* transaction: INSERT OR REPLACE by id.
CreateDataPoints(c) ==
    \/ /\ At(c, "put", "start")
       /\ IF Exists(call[c].coll) THEN Goto(c, "insert") ELSE Ends(c, "notfound")
       /\ UNCHANGED <<server, memo>>
    \/ /\ At(c, "put", "insert")
       /\ IF Exists(call[c].coll)
          THEN server' = Upserted(Written(c, call[c].ids)) /\ Ends(c, "ok")
          ELSE UNCHANGED server /\ Ends(c, "error")
       /\ UNCHANGED memo

DeleteDataPoints(c) ==
    \/ /\ At(c, "delete", "start")
       /\ IF Exists(call[c].coll) THEN GoOnTo(c, "rows", {}) ELSE Ends(c, "ok")
       /\ UNCHANGED <<server, memo>>
    \/ /\ At(c, "delete", "rows")
       /\ server' = With(server.points \ Matching(call[c].coll, call[c].ids))
       /\ Ends(c, IF Exists(call[c].coll) THEN "ok" ELSE "error")
       /\ UNCHANGED memo

\* Every table: DROP TABLE IF EXISTS.
Prune(c) ==
    \/ At(c, "prune", "start") /\ GoOnTo(c, "drop", server.colls) /\ UNCHANGED <<server, memo>>
    \/ /\ At(c, "prune", "drop")
       /\ \E k \in call[c].todo : server' = Dropped(k) /\ GoOnTo(c, "drop", call[c].todo \ {k})
       /\ UNCHANGED memo
    \/ At(c, "prune", "drop") /\ call[c].todo = {} /\ Ends(c, "ok") /\ UNCHANGED <<server, memo>>

\* The methods of the graph interface.
NotImplemented(c) ==
    /\ call[c].op \notin {"create", "put", "delete", "prune"} /\ Running(c)
    /\ Ends(c, "error")
    /\ UNCHANGED <<server, memo>>

Next(c) ==
    CreateCollection(c) \/ CreateDataPoints(c) \/ DeleteDataPoints(c) \/ Prune(c) \/ NotImplemented(c)

\* has_collection answers no when its statement fails: a delete returns.  A
\* table that cannot be dropped is logged.
Fails(c) ==
    \/ ~At(c, "prune", "drop") /\ Raises(c)
    \/ At(c, "put", "start") /\ Ends(c, "notfound") /\ UNCHANGED <<server, memo>>
    \/ At(c, "delete", "start") /\ EndsUntold(c, Aims(c, call[c])) /\ UNCHANGED <<server, memo>>
    \/ /\ At(c, "prune", "drop")
       /\ \E k \in call[c].todo : GoOnUntold(c, "drop", call[c].todo \ {k}, FoundIn(c, k))
       /\ UNCHANGED <<server, memo>>

HasCollection(e, k) == Exists(k)

Retrieve(e, k, ids) == Hits(Matching(k, ids))

\* limit is None: the count of the table; the node sets in the WHERE clause
Search(e, k, names, op) ==
    LET limit == Cardinality(InColl(k))
        filtered == CASE names = {} -> InColl(k)
                      [] op = "AND" -> AllOf(names, InColl(k))
                      [] OTHER -> AnyOf(names, InColl(k))
    IN  Hits(IF Exists(k) THEN Nearest(limit, filtered) ELSE {})

BatchSearch(e, k, names, op) == Search(e, k, names, "OR")

GetCollectionNames == server.colls

Reads(e) == VectorAnswers(e, GetCollectionNames, Retrieve, Search, BatchSearch)
=============================================================================
