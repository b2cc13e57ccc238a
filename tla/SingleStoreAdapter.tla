------------------------- MODULE SingleStoreAdapter -------------------------
(* Databases share tables; database_name is part of the primary key.  Each *)
(* statement is a transaction of its own, run in a thread.                  *)
EXTENDS Store

Own(c, k) == InColl(k) \cap OfDb(Db(c))

\* create_collection returns to its caller, or to the method that called it and
\* goes on at pc: the lock is free again.
Unlocks(c, pc) ==
    \/ pc = "done" /\ Ends(c, "ok")
    \/ /\ pc # "done"
       /\ call' = [call EXCEPT ![c].pc = pc]
       /\ lock' = [lock EXCEPT ![engine[c]] = None]
       /\ UNCHANGED <<busy, due, untold>>

\* CREATE TABLE IF NOT EXISTS
CreateCollection(c, pc, next) ==
    \/ At(c, call[c].op, pc) /\ Locks(c, "table")
    \/ /\ At(c, call[c].op, "table")
       /\ server' = WithColl(call[c].coll)
       /\ Unlocks(c, next)
       /\ UNCHANGED memo

CreateDataPoints(c) ==
    \/ /\ At(c, "put", "start")
       /\ Goto(c, IF Exists(call[c].coll) THEN "insert" ELSE "create")
       /\ UNCHANGED <<server, memo>>
    \/ call[c].op = "put" /\ CreateCollection(c, "create", "insert")
    \/ /\ At(c, "put", "insert")   \* ON DUPLICATE KEY UPDATE
       /\ LET new == Written(c, call[c].ids)
              old == {p \in Own(c, call[c].coll) : p.id \in call[c].ids}
          IN  IF Exists(call[c].coll)
              THEN server' = With((server.points \ old) \cup new) /\ Ends(c, "ok")
              ELSE UNCHANGED server /\ Ends(c, "error")
       /\ UNCHANGED memo

DeleteDataPoints(c) ==
    \/ /\ At(c, "delete", "start")
       /\ IF Exists(call[c].coll) THEN Goto(c, "rows") ELSE Ends(c, "ok")
       /\ UNCHANGED <<server, memo>>
    \/ /\ At(c, "delete", "rows")
       /\ IF Exists(call[c].coll)
          THEN /\ server' = With({p \in server.points : ~(p \in Own(c, call[c].coll) /\ p.id \in call[c].ids)})
               /\ Ends(c, "ok")
          ELSE UNCHANGED server /\ Ends(c, "error")
       /\ UNCHANGED memo

\* What another database writes between the count and the drop goes with the
\* table.
Prune(c) ==
    \/ At(c, "prune", "start") /\ GotoWith(c, "next", server.colls) /\ UNCHANGED <<server, memo>>
    \/ /\ At(c, "prune", "next") /\ call[c].todo = {}
       /\ Ends(c, "ok") /\ UNCHANGED <<server, memo>>
    \/ /\ At(c, "prune", "next")
       /\ \E k \in call[c].todo :
            IF Exists(k)
            THEN /\ server' = With(server.points \ Own(c, k))
                 /\ call' = [call EXCEPT ![c].pc = "count", ![c].coll = k, ![c].todo = @ \ {k}]
                 /\ UNCHANGED <<lock, busy, due, untold>>
            ELSE UNCHANGED server /\ Ends(c, "error")
       /\ UNCHANGED memo
    \/ /\ At(c, "prune", "count")
       /\ IF ~Exists(call[c].coll) THEN Ends(c, "error")
          ELSE Goto(c, IF InColl(call[c].coll) = {} THEN "drop" ELSE "next")
       /\ UNCHANGED <<server, memo>>
    \/ /\ At(c, "prune", "drop")   \* DROP TABLE IF EXISTS
       /\ server' = Dropped(call[c].coll)
       /\ call' = [call EXCEPT ![c].pc = "next"]
       /\ untold' = untold \cup OwedIn(call[c].coll)
       /\ UNCHANGED <<memo, lock, busy, due>>

Next(c) ==
    \/ call[c].op = "create" /\ CreateCollection(c, "start", "done")
    \/ CreateDataPoints(c) \/ DeleteDataPoints(c) \/ Prune(c)

Fails(c) == Raises(c)

HasCollection(e, k) == Exists(k)

Retrieve(e, k, ids) == Hits(IF Exists(k) THEN Matching(k, ids) \cap OfDb(database[e]) ELSE {})

\* The predicates of _build_filter, joined by AND or OR.
Filtered(names, op, points) ==
    CASE names = {} -> points
      [] op = "AND" -> AllOf(names, points)
      [] OTHER -> AnyOf(names, points)

\* limit is None: _collection_size counts the database's rows.
Search(e, k, names, op) ==
    LET own == InColl(k) \cap OfDb(database[e])
        limit == Cardinality(own)
    IN  IF ~Exists(k) \/ limit = 0 THEN Hits({}) ELSE Hits(Nearest(limit, Filtered(names, op, own)))

BatchSearch(e, k, names, op) == Search(e, k, names, op)

GetCollectionNames(e) == {k \in server.colls : InColl(k) \cap OfDb(database[e]) # {}}

Reads(e) == VectorAnswers(e, GetCollectionNames(e), Retrieve, Search, BatchSearch)
=============================================================================
