---------------------------- MODULE AzureAdapter ----------------------------
(* An index per collection, whatever the database.  Requests about indexes  *)
(* are synchronous, those about documents are awaited.                      *)
EXTENDS Store

\* create_collection returns to its caller, or to the method that called it and
\* goes on at pc: the lock is free again.
Unlocks(c, pc) ==
    \/ pc = "done" /\ Ends(c, "ok")
    \/ /\ pc # "done"
       /\ call' = [call EXCEPT ![c].pc = pc]
       /\ lock' = [lock EXCEPT ![engine[c]] = None]
       /\ busy' = [busy EXCEPT ![engine[c]] = None]
       /\ UNCHANGED <<due, untold>>

\* create_or_update_index does not mind an index that exists.
CreateCollection(c, pc, next) ==
    \/ At(c, call[c].op, pc) /\ Locks(c, "look")
    \/ /\ At(c, call[c].op, "look")
       /\ IF Exists(call[c].coll) THEN Unlocks(c, next) ELSE GoOnTo(c, "make", {})
       /\ UNCHANGED <<server, memo>>
    \/ /\ At(c, call[c].op, "make")
       /\ server' = WithColl(call[c].coll)
       /\ Unlocks(c, next)
       /\ UNCHANGED memo

CreateDataPoints(c) ==
    \/ /\ At(c, "put", "start")
       /\ Goto(c, IF Exists(call[c].coll) THEN "upload" ELSE "create")
       /\ UNCHANGED <<server, memo>>
    \/ call[c].op = "put" /\ CreateCollection(c, "create", "upload")
    \/ /\ At(c, "put", "upload")
       /\ IF Exists(call[c].coll)
          THEN server' = Upserted(Written(c, call[c].ids)) /\ Ends(c, "ok")
          ELSE UNCHANGED server /\ Ends(c, "error")
       /\ UNCHANGED memo

\* The result lists the documents that failed; they are logged.
UploadsSome(c) ==
    /\ At(c, "put", "upload") /\ Exists(call[c].coll)
    /\ \E some \in SUBSET call[c].ids :
         /\ some # call[c].ids
         /\ server' = Upserted(Written(c, some))
         /\ EndsUntold(c, Written(c, call[c].ids \ some))
    /\ UNCHANGED memo

DeleteDataPoints(c) ==
    \/ /\ At(c, "delete", "start")
       /\ IF Exists(call[c].coll) THEN Goto(c, "documents") ELSE Ends(c, "notfound")
       /\ UNCHANGED <<server, memo>>
    \/ /\ At(c, "delete", "documents")
       /\ server' = With(server.points \ Matching(call[c].coll, call[c].ids))
       /\ Ends(c, IF Exists(call[c].coll) THEN "ok" ELSE "error")
       /\ UNCHANGED memo

Prune(c) ==
    \/ At(c, "prune", "start") /\ GoOnTo(c, "drop", server.colls) /\ UNCHANGED <<server, memo>>
    \/ /\ At(c, "prune", "drop")
       /\ \E k \in call[c].todo : server' = Dropped(k) /\ GoOnTo(c, "drop", call[c].todo \ {k})
       /\ UNCHANGED memo
    \/ At(c, "prune", "drop") /\ call[c].todo = {} /\ Ends(c, "ok") /\ UNCHANGED <<server, memo>>

Next(c) ==
    \/ call[c].op = "create" /\ CreateCollection(c, "start", "done")
    \/ CreateDataPoints(c) \/ DeleteDataPoints(c) \/ Prune(c)

\* prune logs an index it cannot drop and takes the next.
Fails(c) ==
    \/ ~At(c, "prune", "drop") /\ Raises(c)
    \/ UploadsSome(c)
    \/ /\ At(c, "prune", "drop")
       /\ \E k \in call[c].todo : GoOnUntold(c, "drop", call[c].todo \ {k}, FoundIn(c, k))
       /\ UNCHANGED <<server, memo>>

HasCollection(e, k) == Exists(k)

Retrieve(e, k, ids) == IF Exists(k) THEN Hits(Matching(k, ids)) ELSE Raised

\* no limit: 10000
Search(e, k, names, op) ==
    Hits(IF ~Exists(k) THEN {}
         ELSE Nearest(10000, CASE names = {} -> InColl(k)
                               [] op = "AND" -> AllOf(names, InColl(k))
                               [] OTHER -> AnyOf(names, InColl(k))))

\* Without an operator argument: its searches filter with OR.  No limit: 15.
BatchSearch(e, k, names, op) ==
    Hits(IF ~Exists(k) THEN {} ELSE Nearest(15, IF names = {} THEN InColl(k) ELSE AnyOf(names, InColl(k))))

Reads(e) == VectorAnswers(e, {k \in Collections : HasCollection(e, k)}, Retrieve, Search, BatchSearch)
=============================================================================
