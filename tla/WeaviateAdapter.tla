-------------------------- MODULE WeaviateAdapter --------------------------
(* A cluster per adapter configuration; database_name is not used.          *)
EXTENDS Store

\* create_collection and create_data_points are retried from the start.
Attempts == 3

CreateCollection(c) ==
    \/ At(c, "create", "start") /\ Locks(c, "look")
    \/ /\ At(c, "create", "look")
       /\ Goto(c, IF Exists(call[c].coll) THEN "get" ELSE "make")
       /\ UNCHANGED <<server, memo>>
    \/ /\ At(c, "create", "make")
       /\ IF Exists(call[c].coll) THEN UNCHANGED server /\ Ends(c, "exists")
          ELSE server' = WithColl(call[c].coll) /\ Ends(c, "ok")
       /\ UNCHANGED memo
    \/ /\ At(c, "create", "get")   \* get_collection looks again
       /\ Ends(c, IF Exists(call[c].coll) THEN "ok" ELSE "notfound")
       /\ UNCHANGED <<server, memo>>

GetCollection(c, op, pc, next) ==
    /\ At(c, op, pc)
    /\ IF Exists(call[c].coll) THEN Goto(c, next) ELSE Ends(c, "notfound")
    /\ UNCHANGED <<server, memo>>

\* Several points go in one insert_many; a single one is updated or inserted
\* after a look whether it exists.
CreateDataPoints(c) ==
    \/ GetCollection(c, "put", "start", IF Cardinality(call[c].ids) > 1 THEN "many" ELSE "exists")
    \/ /\ At(c, "put", "many")
       /\ IF Exists(call[c].coll)
          THEN server' = Upserted(Written(c, call[c].ids)) /\ Ends(c, "ok")
          ELSE UNCHANGED server /\ Ends(c, "error")
       /\ UNCHANGED memo
    \/ /\ At(c, "put", "exists")
       /\ Goto(c, IF Matching(call[c].coll, call[c].ids) = {} THEN "insert" ELSE "update")
       /\ UNCHANGED <<server, memo>>
    \/ /\ call[c].op = "put" /\ call[c].pc \in {"insert", "update"}
       /\ IF /\ Exists(call[c].coll)
             /\ call[c].pc = "insert" <=> Matching(call[c].coll, call[c].ids) = {}
          THEN server' = Upserted(Written(c, call[c].ids)) /\ Ends(c, "ok")
          ELSE UNCHANGED server /\ Ends(c, "error")
       /\ UNCHANGED memo

DeleteDataPoints(c) ==
    \/ GetCollection(c, "delete", "start", "many")
    \/ /\ At(c, "delete", "many")
       /\ server' = With(server.points \ Matching(call[c].coll, call[c].ids))
       /\ Ends(c, IF Exists(call[c].coll) THEN "ok" ELSE "error")
       /\ UNCHANGED memo

\* delete_all
Prune(c) ==
    /\ At(c, "prune", "start")
    /\ server' = [server EXCEPT !.colls = {}, !.ready = {}, !.points = {}]
    /\ Ends(c, "ok")
    /\ UNCHANGED memo

Next(c) == CreateCollection(c) \/ CreateDataPoints(c) \/ DeleteDataPoints(c) \/ Prune(c)

\* insert_many raises when the request fails, not for the objects its answer
\* lists as failed.
InsertsSome(c) ==
    /\ At(c, "put", "many") /\ Exists(call[c].coll)
    /\ \E some \in SUBSET call[c].ids :
         /\ some # call[c].ids
         /\ server' = Upserted(Written(c, some))
         /\ EndsUntold(c, Written(c, call[c].ids \ some))
    /\ UNCHANGED memo

\* is_retryable_request, stop_after_attempt(3)
Fails(c) ==
    \/ Raises(c) \/ InsertsSome(c)
    \/ /\ call[c].op \in {"create", "put"}
       /\ call[c].tries + 1 < Attempts
       /\ call' = [call EXCEPT ![c].pc = "start", ![c].tries = @ + 1]
       /\ lock' = [e \in Engines |-> IF lock[e] = c THEN None ELSE lock[e]]
       /\ UNCHANGED <<server, memo, busy, due, untold>>

HasCollection(e, k) == Exists(k)

Retrieve(e, k, ids) == IF Exists(k) THEN Hits(Matching(k, ids)) ELSE Raised

\* contains_all, contains_any; limit is None: the aggregate count
Search(e, k, names, op) ==
    LET limit == Cardinality(InColl(k))
        filtered == CASE names = {} -> InColl(k)
                      [] op = "AND" -> AllOf(names, InColl(k))
                      [] OTHER -> AnyOf(names, InColl(k))
    IN  CASE ~Exists(k) -> Raised
          [] limit = 0 -> Hits({})
          [] OTHER -> Hits(Nearest(limit, filtered))

\* batch_search has no operator argument: its searches filter with OR.
BatchSearch(e, k, names, op) == Search(e, k, names, "OR")

GetCollectionNames(e) == server.colls

Reads(e) == VectorAnswers(e, GetCollectionNames(e), Retrieve, Search, BatchSearch)
=============================================================================
