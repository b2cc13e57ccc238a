------------------------- MODULE OpenSearchAdapter -------------------------
(* An index per collection, whatever the database.  Searches count the      *)
(* users of the engine's client (memo); the one that brings the count to    *)
(* zero closes the session, under the requests of the other methods.        *)
EXTENDS Store

\* create_collection returns to its caller, or to the method that called it and
\* goes on at pc: the lock is free again.
Unlocks(c, pc) ==
    \/ pc = "done" /\ Ends(c, "ok")
    \/ /\ pc # "done"
       /\ call' = [call EXCEPT ![c].pc = pc]
       /\ lock' = [lock EXCEPT ![engine[c]] = None]
       /\ UNCHANGED <<busy, due, untold>>

CreateCollection(c, pc, next) ==
    \/ At(c, call[c].op, pc) /\ Locks(c, "look")
    \/ /\ At(c, call[c].op, "look")
       /\ IF Exists(call[c].coll) THEN Unlocks(c, next) ELSE Goto(c, "make")
       /\ UNCHANGED <<server, memo>>
    \/ /\ At(c, call[c].op, "make")
       /\ IF Exists(call[c].coll) THEN UNCHANGED server /\ Ends(c, "exists")
          ELSE server' = WithColl(call[c].coll) /\ Unlocks(c, next)
       /\ UNCHANGED memo

\* A bulk request makes the index if it is gone.
CreateDataPoints(c) ==
    \/ /\ At(c, "put", "start")
       /\ Goto(c, IF Exists(call[c].coll) THEN "bulk" ELSE "create")
       /\ UNCHANGED <<server, memo>>
    \/ call[c].op = "put" /\ CreateCollection(c, "create", "bulk")
    \/ /\ At(c, "put", "bulk")
       /\ server' = [Upserted(Written(c, call[c].ids)) EXCEPT !.colls = @ \cup {call[c].coll}]
       /\ Ends(c, "ok")
       /\ UNCHANGED memo

\* Nobody reads the errors of single documents in the bulk response.
BulkTakesSome(c) ==
    /\ At(c, "put", "bulk")
    /\ \E some \in SUBSET call[c].ids :
         /\ some # call[c].ids
         /\ server' = [Upserted(Written(c, some)) EXCEPT !.colls = @ \cup {call[c].coll}]
         /\ EndsUntold(c, Written(c, call[c].ids \ some))
    /\ UNCHANGED memo

DeleteDataPoints(c) ==
    /\ At(c, "delete", "start")
    /\ server' = With(server.points \ Matching(call[c].coll, call[c].ids))
    /\ Ends(c, "ok")
    /\ UNCHANGED memo

Prune(c) ==
    \/ At(c, "prune", "start") /\ GotoWith(c, "drop", server.colls) /\ UNCHANGED <<server, memo>>
    \/ /\ At(c, "prune", "drop")
       /\ \E k \in call[c].todo :
            IF Exists(k) THEN server' = Dropped(k) /\ GotoWith(c, "drop", call[c].todo \ {k})
            ELSE UNCHANGED server /\ Ends(c, "error")
       /\ UNCHANGED memo
    \/ At(c, "prune", "drop") /\ call[c].todo = {} /\ Ends(c, "ok") /\ UNCHANGED <<server, memo>>

Outcome(c) == IF call[c].todo = {} THEN "ok" ELSE CHOOSE o \in call[c].todo : TRUE

\* _acquire, the search, and _release in the finally block
Searching(c) ==
    \/ /\ At(c, "search", "start")
       /\ memo' = [memo EXCEPT ![engine[c]] = @ \cup {c}]
       /\ Goto(c, "query") /\ UNCHANGED server
    \/ /\ At(c, "search", "query")
       /\ GotoWith(c, "release", IF Exists(call[c].coll) THEN {} ELSE {"notfound"})
       /\ UNCHANGED <<server, memo>>
    \/ /\ At(c, "search", "release")
       /\ memo' = [memo EXCEPT ![engine[c]] = @ \ {c}]
       /\ UNCHANGED server
       /\ \/ Ends(c, Outcome(c))
          \/ /\ memo[engine[c]] = {c}   \* the session closes under a request of another client
             /\ \E d \in Clients \ {c} :
                  /\ Running(d) /\ engine[d] = engine[c]
                  /\ call' = [call EXCEPT ![c] = Idle(Outcome(c)),
                                          ![d] = Idle("closed")]
                  /\ lock' = [lock EXCEPT ![engine[c]] = IF @ = d THEN None ELSE @]
                  /\ UNCHANGED <<busy, due, untold>>

Next(c) ==
    \/ call[c].op = "create" /\ CreateCollection(c, "start", "done")
    \/ CreateDataPoints(c) \/ DeleteDataPoints(c) \/ Prune(c) \/ Searching(c)

\* has_collection answers no when its request fails.
Fails(c) ==
    \/ call[c].op # "search" /\ Raises(c)
    \/ At(c, "search", "query") /\ GotoWith(c, "release", {"error"}) /\ UNCHANGED <<server, memo>>
    \/ BulkTakesSome(c)
    \/ At(c, "put", "start") /\ Goto(c, "create") /\ UNCHANGED <<server, memo>>
    \/ call[c].pc = "look" /\ Goto(c, "make") /\ UNCHANGED <<server, memo>>

HasCollection(e, k) == Exists(k)

Retrieve(e, k, ids) == Hits(Matching(k, ids))

\* no limit: 10000
Search(e, k, names, op) ==
    IF ~Exists(k) THEN Raised
    ELSE Hits(Nearest(10000, CASE names = {} -> InColl(k)
                               [] op = "AND" -> AllOf(names, InColl(k))
                               [] OTHER -> AnyOf(names, InColl(k))))

\* Without an operator argument: its searches filter with OR.
BatchSearch(e, k, names, op) == Search(e, k, names, "OR")

GetCollectionNames(e) == server.colls

Reads(e) == VectorAnswers(e, GetCollectionNames(e), Retrieve, Search, BatchSearch)
=============================================================================
