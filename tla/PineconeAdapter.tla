-------------------------- MODULE PineconeAdapter --------------------------
(* An index per collection, whatever the database.  The client is            *)
(* synchronous: only the embedding of the data points is awaited.            *)
EXTENDS Store

\* Two engines can both miss the index; the loser's create_index fails.
CreateCollection(c) ==
    \/ At(c, "create", "start") /\ Locks(c, "look")
    \/ /\ At(c, "create", "look")
       /\ IF Exists(call[c].coll) THEN Ends(c, "ok") ELSE GoOnTo(c, "make", {})
       /\ UNCHANGED <<server, memo>>
    \/ /\ At(c, "create", "make")
       /\ IF Exists(call[c].coll) THEN UNCHANGED server /\ Ends(c, "exists")
          ELSE server' = WithColl(call[c].coll) /\ Ends(c, "ok")
       /\ UNCHANGED memo

\* Mutant: does not raise without the index.
CreateDataPointsUnraised(c) ==
    /\ At(c, "put", "start")
    /\ IF Exists(call[c].coll) THEN server' = Upserted(Written(c, call[c].ids)) ELSE UNCHANGED server
    /\ Ends(c, "ok")
    /\ UNCHANGED memo

CreateDataPoints(c) ==
    \/ /\ At(c, "put", "start")
       /\ IF Exists(call[c].coll) THEN Goto(c, "upsert") ELSE Ends(c, "notfound")
       /\ UNCHANGED <<server, memo>>
    \/ /\ At(c, "put", "upsert")
       /\ IF Exists(call[c].coll)
          THEN server' = Upserted(Written(c, call[c].ids)) /\ Ends(c, "ok")
          ELSE UNCHANGED server /\ Ends(c, "error")
       /\ UNCHANGED memo

DeleteDataPoints(c) ==
    \/ /\ At(c, "delete", "start")
       /\ IF Exists(call[c].coll) THEN GoOnTo(c, "rows", {}) ELSE Ends(c, "notfound")
       /\ UNCHANGED <<server, memo>>
    \/ /\ At(c, "delete", "rows")
       /\ server' = With(server.points \ Matching(call[c].coll, call[c].ids))
       /\ Ends(c, IF Exists(call[c].coll) THEN "ok" ELSE "error")
       /\ UNCHANGED memo

\* Mutant: returns inside the loop.
PruneFirst(c) ==
    \/ At(c, "prune", "start") /\ GoOnTo(c, "drop", server.colls) /\ UNCHANGED <<server, memo>>
    \/ /\ At(c, "prune", "drop")
       /\ \E k \in call[c].todo : server' = Dropped(k)
       /\ Ends(c, "ok")
       /\ UNCHANGED memo

\* Every index of the project.  One that another engine has dropped since the
\* list was read makes it raise, and leaves the rest.
Prune(c) ==
    \/ At(c, "prune", "start") /\ GoOnTo(c, "drop", server.colls) /\ UNCHANGED <<server, memo>>
    \/ /\ At(c, "prune", "drop")
       /\ \E k \in call[c].todo :
            IF Exists(k) THEN server' = Dropped(k) /\ GoOnTo(c, "drop", call[c].todo \ {k})
            ELSE UNCHANGED server /\ Ends(c, "error")
       /\ UNCHANGED memo
    \/ At(c, "prune", "drop") /\ call[c].todo = {} /\ Ends(c, "ok") /\ UNCHANGED <<server, memo>>

Next(c) == CreateCollection(c) \/ CreateDataPoints(c) \/ DeleteDataPoints(c) \/ Prune(c)

\* has_collection answers no when its request fails.
Fails(c) ==
    \/ Raises(c)
    \/ At(c, "create", "look") /\ GoOnTo(c, "make", {}) /\ UNCHANGED <<server, memo>>
    \/ call[c].op \in {"put", "delete"} /\ call[c].pc = "start"
       /\ Ends(c, "notfound") /\ UNCHANGED <<server, memo>>

HasCollection(e, k) == Exists(k)

Retrieve(e, k, ids) == IF Exists(k) THEN Hits(Matching(k, ids)) ELSE Raised

\* Mutant: AND searches with OR.
FilteredByAny(k, names, op) == IF names = {} THEN InColl(k) ELSE AnyOf(names, InColl(k))

Filtered(k, names, op) ==
    CASE names = {} -> InColl(k)
      [] op = "AND" -> AllOf(names, InColl(k))
      [] OTHER -> AnyOf(names, InColl(k))

\* no limit: total_vector_count
Search(e, k, names, op) ==
    LET limit == Cardinality(InColl(k))
    IN  IF ~Exists(k) \/ limit = 0 THEN Hits({}) ELSE Hits(Nearest(limit, Filtered(k, names, op)))

\* no limit: 15
BatchSearch(e, k, names, op) == Hits(IF Exists(k) THEN Nearest(15, Filtered(k, names, op)) ELSE {})

Reads(e) == VectorAnswers(e, {k \in Collections : HasCollection(e, k)}, Retrieve, Search, BatchSearch)
=============================================================================
