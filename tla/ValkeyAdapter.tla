--------------------------- MODULE ValkeyAdapter ---------------------------
(* A collection is a search index over JSON documents with its key prefix.  *)
(* memo holds writes that a failed create_data_points has left running:     *)
(* gather raises at the first failure and does not stop the other tasks.    *)
EXTENDS Store

CreateCollection(c) ==
    \/ At(c, "create", "start") /\ Locks(c, "look")
    \/ /\ At(c, "create", "look")
       /\ IF Exists(call[c].coll) THEN Ends(c, "ok") ELSE Goto(c, "make")
       /\ UNCHANGED <<server, memo>>
    \/ /\ At(c, "create", "make")
       /\ IF Exists(call[c].coll) THEN UNCHANGED server /\ Ends(c, "exists")
          ELSE server' = WithColl(call[c].coll) /\ Ends(c, "ok")
       /\ UNCHANGED memo

\* One JSON.SET per document, one at a time.  A document is written whether
\* or not the index is still there.
CreateDataPoints(c) ==
    \/ /\ At(c, "put", "start")
       /\ IF Exists(call[c].coll) THEN GotoWith(c, "set", call[c].ids) ELSE Ends(c, "notfound")
       /\ UNCHANGED <<server, memo>>
    \/ /\ At(c, "put", "set")
       /\ \E i \in call[c].todo :
            /\ server' = Upserted(Written(c, {i}))
            /\ IF call[c].todo = {i} THEN Ends(c, "ok") ELSE GotoWith(c, "set", call[c].todo \ {i})
       /\ UNCHANGED memo

\* A document whose call has failed is written all the same, over what has
\* been written or deleted since.
LeftBehind(e) ==
    \E p \in memo[e] :
        /\ server' = Upserted({p})
        /\ memo' = [memo EXCEPT ![e] = @ \ {p}]
        /\ untold' = untold \cup {p}
        /\ UNCHANGED <<call, lock, busy, due>>

DeleteDataPoints(c) ==
    /\ At(c, "delete", "start")
    /\ server' = With(server.points \ Matching(call[c].coll, call[c].ids))
    /\ Ends(c, "ok")
    /\ UNCHANGED memo

\* Drops every index of the server; the documents stay.
Prune(c) ==
    \/ At(c, "prune", "start") /\ GotoWith(c, "drop", server.colls) /\ UNCHANGED <<server, memo>>
    \/ /\ At(c, "prune", "drop")
       /\ \E k \in call[c].todo :
            IF Exists(k)
            THEN /\ server' = [server EXCEPT !.colls = @ \ {k}, !.ready = @ \ {k}]
                 /\ GotoWith(c, "drop", call[c].todo \ {k})
            ELSE UNCHANGED server /\ Ends(c, "error")
       /\ UNCHANGED memo
    \/ At(c, "prune", "drop") /\ call[c].todo = {} /\ Ends(c, "ok") /\ UNCHANGED <<server, memo>>

Next(c) == CreateCollection(c) \/ CreateDataPoints(c) \/ DeleteDataPoints(c) \/ Prune(c)

\* has_collection answers no when its request fails.  A document is tried
\* four times: a failure that outlasts them ends the call, and the tasks of the
\* other documents go on.
Fails(c) ==
    \/ call[c].pc # "set" /\ Raises(c)
    \/ At(c, "create", "look") /\ Goto(c, "make") /\ UNCHANGED <<server, memo>>
    \/ At(c, "put", "start") /\ Ends(c, "notfound") /\ UNCHANGED <<server, memo>>
    \/ /\ At(c, "put", "set")
       /\ \E i \in call[c].todo :
            memo' = [memo EXCEPT ![engine[c]] = @ \cup Written(c, call[c].todo \ {i})]
       /\ Ends(c, "error")
       /\ UNCHANGED server

HasCollection(e, k) == Exists(k)

\* JSON.GET by key
Retrieve(e, k, ids) == Hits(Matching(k, ids))

\* limit is None: num_docs
Search(e, k, names, op) ==
    LET limit == Cardinality(InColl(k))
        filtered == CASE names = {} -> InColl(k)
                      [] op = "AND" -> AllOf(names, InColl(k))
                      [] OTHER -> AnyOf(names, InColl(k))
    IN  IF ~Exists(k) \/ limit = 0 THEN Hits({}) ELSE Hits(Nearest(limit, filtered))

\* Without an operator argument: its searches filter with OR.
BatchSearch(e, k, names, op) == IF Exists(k) THEN Search(e, k, names, "OR") ELSE Hits({})

Reads(e) == VectorAnswers(e, {k \in Collections : HasCollection(e, k)}, Retrieve, Search, BatchSearch)
=============================================================================
