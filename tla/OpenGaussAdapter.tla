-------------------------- MODULE OpenGaussAdapter --------------------------
(* One synchronous connection per engine and a transaction per method: no   *)
(* method awaits between its statements, and another engine sees all of its *)
(* changes or none.                                                         *)
EXTENDS Store

\* Two engines can both find no table; the loser's CREATE TABLE fails.
CreateCollection(c) ==
    \/ At(c, "create", "start") /\ Locks(c, "look")
    \/ /\ At(c, "create", "look")
       /\ IF Exists(call[c].coll) THEN Ends(c, "ok") ELSE GoOnTo(c, "table", {})
       /\ UNCHANGED <<server, memo>>
    \/ /\ At(c, "create", "table")
       /\ IF Exists(call[c].coll) THEN UNCHANGED server /\ Ends(c, "exists")
          ELSE server' = WithColl(call[c].coll) /\ Ends(c, "ok")
       /\ UNCHANGED memo

\* DELETE of the ids and INSERT, committed together.
CreateDataPoints(c) ==
    \/ At(c, "put", "start") /\ Locks(c, "rows")
    \/ /\ At(c, "put", "rows")
       /\ IF Exists(call[c].coll)
          THEN server' = Upserted(Written(c, call[c].ids)) /\ Ends(c, "ok")
          ELSE UNCHANGED server /\ Ends(c, "error")
       /\ UNCHANGED memo

DeleteDataPoints(c) ==
    \/ At(c, "delete", "start") /\ Locks(c, "rows")
    \/ /\ At(c, "delete", "rows")
       /\ server' = With(server.points \ Matching(call[c].coll, call[c].ids))
       /\ Ends(c, IF Exists(call[c].coll) THEN "ok" ELSE "error")
       /\ UNCHANGED memo

\* Every table with a vector column, without the lock, in one transaction.
Prune(c) ==
    /\ At(c, "prune", "start")
    /\ server' = [server EXCEPT !.colls = {}, !.ready = {}, !.points = {}]
    /\ Ends(c, "ok")
    /\ UNCHANGED memo

Next(c) == CreateCollection(c) \/ CreateDataPoints(c) \/ DeleteDataPoints(c) \/ Prune(c)

\* has_collection answers no when its statement fails; anything else is
\* rolled back and raised.
Fails(c) ==
    \/ Raises(c)
    \/ At(c, "create", "look") /\ GoOnTo(c, "table", {}) /\ UNCHANGED <<server, memo>>

HasCollection(e, k) == Exists(k)

Retrieve(e, k, ids) == IF ids = {} THEN Hits({}) ELSE IF Exists(k) THEN Hits(Matching(k, ids)) ELSE Raised

\* node_name and its operator are taken and not used.
Search(e, k, names, op) == Hits(IF Exists(k) THEN InColl(k) ELSE {})

BatchSearch(e, k, names, op) == Search(e, k, names, "OR")

GetCollectionNames(e) == server.colls

Reads(e) == VectorAnswers(e, GetCollectionNames(e), Retrieve, Search, BatchSearch)
=============================================================================
