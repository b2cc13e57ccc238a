--------------------------- MODULE QdrantAdapter ---------------------------
(* Databases share collections; points carry database_name in the payload. *)
EXTENDS Store

\* Mutant: has_collection takes the lock that its caller holds.
CreateCollectionNested(c) ==
    \/ At(c, "create", "start") /\ Locks(c, "look")
    \/ At(c, "create", "look") /\ Locks(c, "make")

CreateCollection(c) ==
    \/ At(c, "create", "start") /\ Locks(c, "look")
    \/ /\ At(c, "create", "look")
       /\ IF Exists(call[c].coll) THEN Ends(c, "ok") ELSE Goto(c, "make")
       /\ UNCHANGED <<server, memo>>
    \/ /\ At(c, "create", "make")
       /\ IF Exists(call[c].coll) THEN Ends(c, "exists") /\ UNCHANGED server
          ELSE /\ server' = [server EXCEPT !.colls = @ \cup {call[c].coll}]
               /\ Goto(c, "index")
       /\ UNCHANGED memo
    \/ /\ At(c, "create", "index")   \* create_payload_index
       /\ IF Exists(call[c].coll)
          THEN server' = WithColl(call[c].coll) /\ Ends(c, "ok")
          ELSE UNCHANGED server /\ Ends(c, "error")
       /\ UNCHANGED memo

\* The id alone is the key: a point of another database is replaced, too.
CreateDataPoints(c) ==
    /\ At(c, "put", "start")
    /\ IF Exists(call[c].coll)
       THEN server' = Upserted(Written(c, call[c].ids)) /\ Ends(c, "ok")
       ELSE UNCHANGED server /\ Ends(c, "notfound")
    /\ UNCHANGED memo

DeleteDataPoints(c) ==
    /\ At(c, "delete", "start")
    /\ IF Exists(call[c].coll)
       THEN /\ server' = With(server.points \ Matching(call[c].coll, call[c].ids))
            /\ Ends(c, "ok")
       ELSE UNCHANGED server /\ Ends(c, "error")
    /\ UNCHANGED memo

\* Deletes the database's points of every collection, and the collections
\* nobody has points in: what another database writes there between the count
\* and the drop goes with the collection.
Prune(c) ==
    \/ At(c, "prune", "start") /\ GotoWith(c, "next", server.colls) /\ UNCHANGED <<server, memo>>
    \/ /\ At(c, "prune", "next") /\ call[c].todo = {}
       /\ Ends(c, "ok") /\ UNCHANGED <<server, memo>>
    \/ /\ At(c, "prune", "next")
       /\ \E k \in call[c].todo :
            IF Exists(k)
            THEN /\ server' = With(server.points \ (InColl(k) \cap OfDb(Db(c))))
                 /\ call' = [call EXCEPT ![c].pc = "count", ![c].coll = k, ![c].todo = @ \ {k}]
                 /\ UNCHANGED <<lock, busy, due, untold>>
            ELSE UNCHANGED server /\ Ends(c, "error")
       /\ UNCHANGED memo
    \/ /\ At(c, "prune", "count")
       /\ IF ~Exists(call[c].coll) THEN Ends(c, "error")
          ELSE Goto(c, IF InColl(call[c].coll) = {} THEN "drop" ELSE "next")
       /\ UNCHANGED <<server, memo>>
    \/ /\ At(c, "prune", "drop")
       /\ server' = Dropped(call[c].coll)
       /\ call' = [call EXCEPT ![c].pc = "next"]
       /\ untold' = untold \cup OwedIn(call[c].coll)
       /\ UNCHANGED <<memo, lock, busy, due>>

Next(c) == CreateCollection(c) \/ CreateDataPoints(c) \/ DeleteDataPoints(c) \/ Prune(c)

Fails(c) == Raises(c)

HasCollection(e, k) == Exists(k)

Retrieve(e, k, ids) == IF Exists(k) THEN Hits(Matching(k, ids)) ELSE Raised

\* limit is None: the count of the collection, whoever has points in it.
Search(e, k, names, op) ==
    LET limit == Cardinality(InColl(k))
        own == InColl(k) \cap OfDb(database[e])
        filtered == CASE names = {} -> own
                      [] op = "AND" -> AllOf(names, own)
                      [] OTHER -> AnyOf(names, own)
    IN  IF ~Exists(k) \/ limit = 0 THEN Hits({}) ELSE Hits(Nearest(limit, filtered))

\* The count raises without a collection.  The filter is a list where the
\* client wants a Filter: what it raises is caught.
BatchSearch(e, k, names, op) == IF Exists(k) THEN Hits({}) ELSE Raised

GetCollectionNames(e) == {k \in server.colls : InColl(k) \cap OfDb(database[e]) # {}}

Reads(e) == VectorAnswers(e, GetCollectionNames(e), Retrieve, Search, BatchSearch)
=============================================================================
