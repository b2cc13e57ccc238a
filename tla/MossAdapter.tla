----------------------------- MODULE MossAdapter -----------------------------
(* One index for all collections.  The engine picks its name at start, or   *)
(* takes over the first index it finds; memo is what it remembers of it.    *)
(* The documents of the server also tell their index.                       *)
EXTENDS Store

\* __init__ names the index after the time; engines start at different times.
Memo(e) == [index |-> e, ready |-> FALSE, loaded |-> FALSE, colls |-> {}]

Mine(c) == memo[engine[c]]

Documents(c) == {[coll |-> p.coll, id |-> p.id, db |-> p.db, rev |-> p.rev, index |-> Mine(c).index]
                   : p \in Written(c, call[c].ids)}

\* The id alone is the key, also between collections.
Replaced(c, ids) == {p \in server.points : p.index = Mine(c).index /\ p.id \in ids}

\* _find_existing_index: the first index listed
FindExistingIndex(c) ==
    IF Mine(c).ready \/ server.colls = {} THEN UNCHANGED memo
    ELSE \E x \in server.colls :
           memo' = [memo EXCEPT ![engine[c]] = [@ EXCEPT !.index = x, !.ready = TRUE]]

CreateCollection(c) ==
    /\ At(c, "create", "start")
    /\ memo' = [memo EXCEPT ![engine[c]].colls = @ \cup {call[c].coll}]
    /\ Ends(c, "ok")
    /\ UNCHANGED server

\* Under _create_lock; who finds the index ready when it gets the lock
\* returns without having added its documents.
CreateIndexWithDocs(c) ==
    \/ At(c, "put", "create") /\ ~Mine(c).ready /\ Locks(c, "index")
    \/ /\ At(c, "put", "create") /\ Mine(c).ready /\ lock[engine[c]] = None
       /\ EndsUntold(c, Aims(c, call[c]))
       /\ UNCHANGED <<server, memo>>
    \/ /\ At(c, "put", "index")
       /\ IF Exists(Mine(c).index) THEN Ends(c, "exists") /\ UNCHANGED server
          ELSE /\ server' = [server EXCEPT !.colls = @ \cup {Mine(c).index},
                                           !.points = @ \cup Documents(c)]
               /\ Goto(c, "created")
       /\ UNCHANGED memo
    \/ /\ At(c, "put", "created")   \* _wait_for_job
       /\ memo' = [memo EXCEPT ![engine[c]].ready = TRUE]
       /\ Ends(c, "ok")
       /\ UNCHANGED server

CreateDataPoints(c) ==
    \/ /\ At(c, "put", "start")
       /\ memo' = [memo EXCEPT ![engine[c]].colls = @ \cup {call[c].coll}]
       /\ Goto(c, "find") /\ UNCHANGED server
    \/ /\ At(c, "put", "find")
       /\ FindExistingIndex(c)
       /\ Goto(c, IF memo'[engine[c]].ready THEN "add" ELSE "create")
       /\ UNCHANGED server
    \/ CreateIndexWithDocs(c)
    \/ /\ At(c, "put", "add")   \* add_docs with upsert
       /\ IF Exists(Mine(c).index)
          THEN /\ server' = With((server.points \ Replaced(c, call[c].ids)) \cup Documents(c))
               /\ Goto(c, "added")
          ELSE UNCHANGED server /\ Ends(c, "error")
       /\ UNCHANGED memo
    \/ /\ At(c, "put", "added")   \* _wait_for_job
       /\ memo' = [memo EXCEPT ![engine[c]].loaded = FALSE]
       /\ Ends(c, "ok")
       /\ UNCHANGED server

\* _load_index: what search and retrieve do before they ask.
Searching(c) ==
    \/ /\ At(c, "search", "start")
       /\ FindExistingIndex(c)
       /\ IF memo'[engine[c]].ready THEN Goto(c, "load") ELSE Ends(c, "ok")
       /\ UNCHANGED server
    \/ /\ At(c, "search", "load")
       /\ IF Mine(c).loaded \/ Exists(Mine(c).index)
          THEN memo' = [memo EXCEPT ![engine[c]].loaded = TRUE] /\ Ends(c, "ok")
          ELSE UNCHANGED memo /\ Ends(c, "error")
       /\ UNCHANGED server

DeleteDataPoints(c) ==
    \/ /\ At(c, "delete", "start")
       /\ FindExistingIndex(c)
       /\ IF memo'[engine[c]].ready THEN Goto(c, "docs") ELSE Ends(c, "ok")
       /\ UNCHANGED server
    \/ /\ At(c, "delete", "docs")
       /\ server' = With(server.points \ Replaced(c, call[c].ids))
       /\ Ends(c, IF Exists(Mine(c).index) THEN "ok" ELSE "error")
       /\ UNCHANGED memo

\* Unloads and deletes every cognee index, one after the other.
Prune(c) ==
    \/ At(c, "prune", "start") /\ GotoWith(c, "next", server.colls) /\ UNCHANGED <<server, memo>>
    \/ /\ At(c, "prune", "next")
       /\ \E x \in call[c].todo :
            IF Exists(x)
            THEN /\ server' = [server EXCEPT !.colls = @ \ {x},
                                             !.points = {p \in @ : p.index # x}]
                 /\ GotoWith(c, "next", call[c].todo \ {x})
            ELSE UNCHANGED server /\ Ends(c, "error")
       /\ UNCHANGED memo
    \/ /\ At(c, "prune", "next") /\ call[c].todo = {}
       /\ memo' = [memo EXCEPT ![engine[c]] = [@ EXCEPT !.ready = FALSE, !.loaded = FALSE, !.colls = {}]]
       /\ Ends(c, "ok")
       /\ UNCHANGED server

Next(c) ==
    CreateCollection(c) \/ CreateDataPoints(c) \/ DeleteDataPoints(c) \/ Searching(c) \/ Prune(c)

\* _find_existing_index swallows the error of list_indexes; prune that of a
\* server that refuses the key.
Fails(c) ==
    \/ call[c].op # "create" /\ call[c].pc \notin {"start", "find", "create"} /\ Raises(c)
    \/ At(c, "put", "find") /\ ~Mine(c).ready /\ Goto(c, "create") /\ UNCHANGED <<server, memo>>
    \/ /\ call[c].op \in {"delete", "search"} /\ call[c].pc = "start" /\ ~Mine(c).ready
       /\ EndsUntold(c, Aims(c, call[c])) /\ UNCHANGED <<server, memo>>
    \/ /\ call[c].op = "prune" /\ call[c].pc \in {"start", "next"}
       /\ EndsUntold(c, call[c].found) \/ Ends(c, "error")
       /\ UNCHANGED <<server, memo>>

HasCollection(e, k) == k \in memo[e].colls \/ memo[e].ready \/ server.colls # {}

\* The index an engine reads; any of the server's if it has none yet.
Read(e) == IF memo[e].ready THEN memo[e].index ELSE CHOOSE x \in server.colls : TRUE

Found(e) == IF memo[e].ready \/ server.colls # {}
            THEN {p \in server.points : p.index = Read(e)} ELSE {}

\* database_name does not count here.
Retrieve(e, k, ids) == Hits({p \in Found(e) : p.coll = k /\ p.id \in ids})

\* The filter on node sets comes after the search, which asks for five times
\* as many.
Search(e, k, names, op) ==
    LET limit == 15
        own == {p \in Found(e) : p.coll = k /\ p.db = database[e]}
        found == Nearest(IF names = {} THEN limit ELSE 5 * limit, own)
    IN  Hits(Nearest(limit, CASE names = {} -> found
                              [] op = "AND" -> AllOf(names, found)
                              [] OTHER -> AnyOf(names, found)))

BatchSearch(e, k, names, op) == Search(e, k, names, op)

\* One index, which is the engine's.
InStep(e) == Cardinality(server.colls) <= 1 /\ (memo[e].ready => server.colls = {memo[e].index})

Reads(e) == VectorAnswers(e, {k \in Collections : HasCollection(e, k)}, Retrieve, Search, BatchSearch)
=============================================================================
