------------------------- MODULE TurbopufferAdapter -------------------------
(* A namespace per collection and database, named <database>_<collection>:  *)
(* server.colls holds pairs.  Dataset ids serve as database names, so that  *)
(* none is a prefix of another.                                             *)
EXTENDS Store

NamespaceName(e, k) == <<database[e], k>>

Own(e, k) == InColl(k) \cap OfDb(database[e])

HasCollection(e, k) == Exists(NamespaceName(e, k))

\* Nothing to do: a namespace comes with its first write.
CreateCollection(c) ==
    At(c, "create", "start") /\ Ends(c, "ok") /\ UNCHANGED <<server, memo>>

CreateDataPoints(c) ==
    LET k == call[c].coll
        old == {p \in Own(engine[c], k) : p.id \in call[c].ids}
    IN  /\ At(c, "put", "start")
        /\ server' = [server EXCEPT !.colls = @ \cup {NamespaceName(engine[c], k)},
                                    !.points = (@ \ old) \cup Written(c, call[c].ids)]
        /\ Ends(c, "ok")
        /\ UNCHANGED memo

\* A namespace that is gone has nothing to delete.
DeleteDataPoints(c) ==
    \/ /\ At(c, "delete", "start")
       /\ IF HasCollection(engine[c], call[c].coll) THEN Goto(c, "rows") ELSE Ends(c, "ok")
       /\ UNCHANGED <<server, memo>>
    \/ /\ At(c, "delete", "rows")
       /\ server' = With({p \in server.points :
                            ~(p \in Own(engine[c], call[c].coll) /\ p.id \in call[c].ids)})
       /\ Ends(c, "ok")
       /\ UNCHANGED memo

ListNamespacesWithPrefix(e) == {n \in server.colls : n[1] = database[e]}

\* delete_all of a namespace that is gone raises.
Prune(c) ==
    \/ /\ At(c, "prune", "start")
       /\ GotoWith(c, "next", ListNamespacesWithPrefix(engine[c]))
       /\ UNCHANGED <<server, memo>>
    \/ /\ At(c, "prune", "next")
       /\ \E n \in call[c].todo :
            IF Exists(n)
            THEN /\ server' = [server EXCEPT !.colls = @ \ {n},
                                             !.points = @ \ (InColl(n[2]) \cap OfDb(n[1]))]
                 /\ GotoWith(c, "next", call[c].todo \ {n})
            ELSE UNCHANGED server /\ Ends(c, "error")
       /\ UNCHANGED memo
    \/ At(c, "prune", "next") /\ call[c].todo = {} /\ Ends(c, "ok") /\ UNCHANGED <<server, memo>>

Next(c) == CreateCollection(c) \/ CreateDataPoints(c) \/ DeleteDataPoints(c) \/ Prune(c)

\* has_collection answers no when its request fails, and a delete that
\* believes it returns as if it had deleted.
Fails(c) ==
    \/ call[c].op # "create" /\ Raises(c)
    \/ At(c, "delete", "start") /\ EndsUntold(c, Aims(c, call[c])) /\ UNCHANGED <<server, memo>>

Retrieve(e, k, ids) ==
    Hits(IF HasCollection(e, k) THEN Matching(k, ids) \cap OfDb(database[e]) ELSE {})

\* ContainsAny one name after the other, or of all of them
Search(e, k, names, op) ==
    Hits(IF ~HasCollection(e, k) THEN {}
         ELSE Nearest(100, CASE names = {} -> Own(e, k)
                             [] op = "AND" -> AllOf(names, Own(e, k))
                             [] OTHER -> AnyOf(names, Own(e, k))))

BatchSearch(e, k, names, op) == Search(e, k, names, op)

GetCollectionNames(e) == {n[2] : n \in ListNamespacesWithPrefix(e)}

Reads(e) == VectorAnswers(e, GetCollectionNames(e), Retrieve, Search, BatchSearch)
=============================================================================
