--------------------------- MODULE PgGraphAdapter ---------------------------
(* Tables of nodes and edges, kept by a PostgresAdapter that is not in this  *)
(* repository, and the pgGraph extension, which traverses an index of them   *)
(* as they were at its last build.  server.index holds the indexed edges,    *)
(* server.tables what is registered, server.available whether the extension  *)
(* is installed.  memo is the build mode and _pggraph_ready.                 *)
EXTENDS GraphStore

\* __init__ with each value of PGGRAPH_BUILD_MODE
Modes == {"manual", "on_write", "scheduled"}

Memo(mode) == [mode |-> mode, ready |-> FALSE]

Mine(c) == memo[engine[c]]

Ready(c, yes) == memo' = [memo EXCEPT ![engine[c]].ready = yes]

Answer(c, effect) == server' = effect /\ Ends(c, "ok") /\ UNCHANGED memo

Built == [server EXCEPT !.index = Triples]

Initialize(c) ==
    \/ /\ At(c, "initialize", "start")
       /\ Ready(c, FALSE)
       /\ Goto(c, "install")
       /\ UNCHANGED server
    \/ /\ At(c, "initialize", "install")
       /\ Ready(c, server.available)
       /\ IF server.available THEN Goto(c, "register") ELSE Ends(c, "ok")
       /\ UNCHANGED server

\* Both tables, if they are not registered; then a build, but for a scheduled
\* one.  delete_graph builds in any case.
RegisterPggraphTables(c) ==
    /\ Running(c) /\ call[c].pc = "register"
    /\ server' = [server EXCEPT !.tables = {"graph_node", "cognee_edge"}]
    /\ IF call[c].op = "delete_graph" \/ Mine(c).mode # "scheduled" THEN Goto(c, "build") ELSE Ends(c, "ok")
    /\ UNCHANGED memo

BuildGraph(c) ==
    \/ /\ At(c, "build", "start")
       /\ IF Mine(c).ready THEN Goto(c, "build") ELSE Ends(c, "ok")
       /\ UNCHANGED <<server, memo>>
    \/ Running(c) /\ call[c].pc = "build" /\ Answer(c, Built)

\* The rows, and in mode on_write the index.
Writes(c, op, effect) ==
    /\ At(c, op, "start")
    /\ server' = effect
    /\ IF Mine(c).ready /\ Mine(c).mode = "on_write" THEN Goto(c, "build") ELSE Ends(c, "ok")
    /\ UNCHANGED memo

AddNodes(c) == Writes(c, "add_nodes", WithNodes(NewNodes(c, call[c].ids)))

AddEdges(c) == Writes(c, "add_edges", WithEdges({Edge(t, 1) : t \in Linkable(call[c].ids)}))

\* Inherited: the index stays as it is, in every mode.
DeleteNodes(c) == At(c, "delete_nodes", "start") /\ Answer(c, WithoutNodes(call[c].ids))

DeleteGraph(c) ==
    \/ /\ At(c, "delete_graph", "start")
       /\ server' = EmptyGraph
       /\ IF Mine(c).ready THEN Goto(c, "reset") ELSE Ends(c, "ok")
       /\ UNCHANGED memo
    \/ /\ At(c, "delete_graph", "reset")
       /\ server' = [server EXCEPT !.index = {}, !.tables = {}]
       /\ Goto(c, "register")
       /\ UNCHANGED memo

\* get_neighbors, get_neighborhood: the extension if it is ready.
Traverse(c) == At(c, "traverse", "start") /\ Answer(c, server)

Next(c) ==
    \/ Initialize(c) \/ RegisterPggraphTables(c) \/ BuildGraph(c) \/ AddNodes(c) \/ AddEdges(c)
    \/ DeleteNodes(c) \/ DeleteGraph(c) \/ Traverse(c)

\* A failed traversal turns the extension off, and Postgres answers.  A failed
\* installation or reset is logged.  A failed build raises after the rows are
\* committed.
Fails(c) ==
    \/ /\ At(c, "traverse", "start") /\ Mine(c).ready
       /\ Ready(c, FALSE)
       /\ Ends(c, "ok")
       /\ UNCHANGED server
    \/ At(c, "initialize", "install") /\ Ends(c, "ok") /\ UNCHANGED <<server, memo>>
    \/ /\ call[c].op = "delete_graph" /\ call[c].pc # "start"
       /\ Ends(c, "ok")
       /\ UNCHANGED <<server, memo>>
    \/ /\ call[c].op \notin {"traverse", "delete_graph"} /\ call[c].pc # "install"
       /\ Raises(c)
    \/ At(c, "delete_graph", "start") /\ Raises(c)

----------------------------------------------------------------------------
(* Readings. *)

Next1(ids, edges) ==
    {t[3] : t \in {x \in edges : x[1] \in ids}} \cup {t[1] : t \in {x \in edges : x[3] \in ids}}

\* A node of the index that is deleted still has an answer, its id.
PggraphGetNeighbors(i) == Next1({i}, server.index) \ {i}

GetNeighbors(e, i) == IF memo[e].ready THEN PggraphGetNeighbors(i) ELSE Adjacent(i)

Traversed(ids, depth, types) ==
    LET edges == {t \in server.index : types = {} \/ t[2] \in types}
        seen[d \in 0 .. depth] == IF d = 0 THEN ids ELSE seen[d - 1] \cup Next1(seen[d - 1], edges)
    IN  seen[depth]

\* The tables have the last word on what has been reached.
FetchSubgraphForIds(ids, types) ==
    [nodes |-> ids \cap NodeIds, edges |-> {Triple(x) : x \in OfTypes(types, Among(ids, server.edges))}]

\* WITH RECURSIVE follows edges of the types; the answer has edges of any.
PostgresGetNeighborhood(ids, depth, types) ==
    LET reached == Reached(ids, depth, OfTypes(types, server.edges))
    IN  [nodes |-> reached \cap NodeIds, edges |-> {Triple(x) : x \in Among(reached, server.edges)}]

GetNeighborhood(e, ids, depth, types) ==
    IF memo[e].ready
    THEN FetchSubgraphForIds(ids \cup Traversed(ids, depth, types), types)
    ELSE PostgresGetNeighborhood(ids, depth, types)

InStep(e) == memo[e].ready => server.index = Triples

Reads(e) ==
    [get_neighbors |-> [i \in Ids |-> GetNeighbors(e, i)],
     get_neighborhood |-> [i \in Ids, depth \in 1 .. 2, types \in {{}} \cup {{l} : l \in Labels} |->
                             GetNeighborhood(e, {i}, depth, types)]]
=============================================================================
