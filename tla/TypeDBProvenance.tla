--------------------------- MODULE TypeDBProvenance ---------------------------
(***************************************************************************)
(* Graph-native provenance of the TypeDB adapter: which source refs (and   *)
(* pipeline runs) own which nodes and edges.                               *)
(*                                                                         *)
(* Storage is relational.  One entity per source ref key and one per run   *)
(* ref; a link <<artifact, ref, position>> per ownership.  Every write is  *)
(* a server transaction that reads a snapshot, decides what to change, and *)
(* either commits or loses a conflict ([STC2]) and starts again from a new *)
(* snapshot.  Writers below are chunk tasks of concurrent calls, in one    *)
(* process or in several, on one database.                                 *)
(*                                                                         *)
(* The server's snapshot isolation and cognee's provenance transitions are *)
(* not in this repository; they are modelled from how the adapter and its  *)
(* tests use them.                                                         *)
(***************************************************************************)
EXTENDS Integers, Sequences, FiniteSets

CONSTANTS
  Nodes,      \* node ids
  Edges,      \* edge keys: <<source id, target id, relationship name>>
  Rels,       \* relationship names
  Keys,       \* source ref keys
  Runs,       \* pipeline run ids
  NoRun,      \* an attach without a pipeline run id
  Writers,    \* concurrent chunk tasks
  Jobs,       \* the write calls the writers may make
  MaxCalls    \* bound: write calls in one behaviour

Artifacts == Nodes \cup Edges
RunRefs == Runs \X Keys
Refs == Keys \cup RunRefs

Ops == {"add", "attach", "remove", "deleteNodes", "deleteEdges",
        "removeIncoming", "removeOutgoing", "deleteGraph"}

\* One chunk of a write call.  keys is the list the call attaches or removes,
\* without repetitions; add attaches at most one.
Job == [op : Ops, arts : SUBSET Artifacts, keys : Seq(Keys),
        run : Runs \cup {NoRun}, rel : Rels]

ASSUME EdgesAreTriples == Edges \subseteq Nodes \X Nodes \X Rels
ASSUME KindsDisjoint ==
  /\ Nodes \cap Edges = {}
  /\ Keys \cap RunRefs = {}
  /\ Artifacts \cap Refs = {}
ASSUME NoRunIsNoRun == NoRun \notin Runs
ASSUME JobsAreCalls ==
  /\ Jobs \subseteq Job
  /\ \A j \in Jobs :
       /\ \A h, i \in DOMAIN j.keys : j.keys[h] = j.keys[i] => h = i
       /\ j.op = "attach" => j.keys # << >>
       /\ j.op = "deleteNodes" => j.arts \subseteq Nodes
       /\ j.op \in {"add", "attach", "remove"} =>
            (j.arts \subseteq Nodes) \/ (j.arts \subseteq Edges)
       /\ j.op = "deleteEdges" => j.arts \subseteq Edges
ASSUME MaxCallsIsNat == MaxCalls \in Nat

VARIABLES
  db,      \* the committed database: artifacts, ref entities, links
  pc,      \* where each writer is in its call
  job,     \* the call each writer is making
  snap,    \* the database as the writer's open transaction sees it
  doomed,  \* the open transaction will lose a conflict at commit
  calls    \* calls started so far

vars == <<db, pc, job, snap, doomed, calls>>

Link == Artifacts \X Refs \X Nat
Database == [art : SUBSET Artifacts, refs : SUBSET Refs, links : SUBSET Link]
EmptyDb == [art |-> {}, refs |-> {}, links |-> {}]
NoJob == [op |-> "none", arts |-> {}, keys |-> << >>, run |-> NoRun,
          rel |-> "none"]
Phases == {"idle", "ensure", "ready", "open", "done", "failed"}
Resting == {"idle", "done", "failed"}

-----------------------------------------------------------------------------
(* What one transaction, reading snapshot s, does for job j.               *)

LinksOf(s, a, R) == {l \in s.links : l[1] = a /\ l[2] \in R}
Held(s, a, R) == {l[2] : l \in LinksOf(s, a, R)}

MaxOf(S) == CHOOSE x \in S : \A y \in S : y <= x

\* Mutant: the position is not incremented.
NextPositionSame(s, a, R) == MaxOf({-1} \cup {l[3] : l \in LinksOf(s, a, R)})

\* Mutant: the number of links instead of the highest position.
NextPositionCount(s, a, R) == Cardinality(LinksOf(s, a, R))

\* max(positions, default=-1) + 1
NextPosition(s, a, R) ==
  MaxOf({-1} \cup {l[3] : l \in LinksOf(s, a, R)}) + 1

\* The links that append the listed refs the artifact does not hold yet.
Appended(s, a, R, list) ==
  LET new == {i \in DOMAIN list : list[i] \notin Held(s, a, R)}
  IN  {<<a, list[i],
         NextPosition(s, a, R) + Cardinality({h \in new : h < i})>> : i \in new}

\* provenance_after_attach: a key the artifact holds already is left alone,
\* and so is the run it was first attached under.
NewRunRefs(s, a, j) ==
  [i \in {i \in DOMAIN j.keys : /\ j.run # NoRun
                                /\ j.keys[i] \notin Held(s, a, Keys)}
     |-> <<j.run, j.keys[i]>>]

\* The links the transition adds to artifact a.
InsertsFor(s, a, j) ==
  IF j.op \in {"add", "attach"}
  THEN Appended(s, a, Keys, j.keys)
         \cup Appended(s, a, RunRefs, NewRunRefs(s, a, j))
  ELSE {}

KeysIn(j) == {j.keys[i] : i \in DOMAIN j.keys}

\* Mutant: the run refs of the removed keys stay.
UnlinksForKeysOnly(s, a, j) ==
  {l \in s.links : /\ j.op = "remove"
                   /\ l[1] = a
                   /\ l[2] \in s.refs \cap KeysIn(j)}

\* provenance_after_remove: the keys go, and with each its run refs.
\* Nothing is unlinked from a ref entity that does not exist.
UnlinksFor(s, a, j) ==
  IF j.op = "remove"
  THEN {l \in s.links : /\ l[1] = a
                        /\ l[2] \in s.refs
                        /\ \/ l[2] \in KeysIn(j)
                           \/ l[2] \in RunRefs /\ l[2][2] \in KeysIn(j)}
  ELSE {}

\* A chunk's upserts; an edge with a missing endpoint is skipped.
Upserted(s, j) ==
  {a \in j.arts : /\ j.op = "add"
                  /\ a \in Edges => {a[1], a[2]} \subseteq s.art}

\* The artifacts the transaction sees once its upserts have run.
Present(s, j) == s.art \cup Upserted(s, j)

\* A row whose artifact or ref entity is absent matches nothing.
Inserts(s, j) ==
  {l \in UNION {InsertsFor(s, a, j) : a \in j.arts \cap Present(s, j)} :
     l[2] \in s.refs}

\* Every ref the change wants to link to, absent artifacts included.
WantedRefs(s, j) == {l[2] : l \in UNION {InsertsFor(s, a, j) : a \in j.arts}}

Incident(e, S) == e[1] \in S \/ e[2] \in S

\* Mutant: deleting a node forgets its incident edges.
DeletedWithoutIncident(s, j) ==
  {a \in s.art : \/ j.op = "deleteGraph"
                 \/ j.op \in {"deleteNodes", "deleteEdges"} /\ a \in j.arts}

Deleted(s, j) ==
  {a \in s.art :
     \/ j.op = "deleteGraph"
     \/ j.op = "deleteNodes" /\ a \in j.arts
     \/ j.op = "deleteNodes" /\ a \in Edges /\ Incident(a, j.arts)
     \/ j.op = "deleteEdges" /\ a \in j.arts
     \/ j.op = "removeIncoming" /\ a \in Edges /\ a[2] \in j.arts /\ a[3] = j.rel
     \/ j.op = "removeOutgoing" /\ a \in Edges /\ a[1] \in j.arts /\ a[3] = j.rel}

\* Mutant: the links of incident edges are forgotten.
UnlinkedWithoutIncident(s, j) == {l \in s.links : l[1] \in Deleted(s, j) \cap j.arts}

\* Links are deleted by queries of their own: the server keeps a relation
\* whose role player is deleted.
Unlinked(s, j) ==
  {l \in s.links : l[1] \in Deleted(s, j)}
    \cup UNION {UnlinksFor(s, a, j) : a \in j.arts}

\* delete_graph sweeps the ref entities it leaves without a link.
SweptRefs(s, j) ==
  IF j.op = "deleteGraph"
  THEN {r \in s.refs : \A l \in s.links \ Unlinked(s, j) : l[2] # r}
  ELSE {}

\* Mutant: the provenance change does not touch its artifacts.
TouchedNone(s, j) == {}

\* Artifacts whose updated-at the provenance change sets.
Touched(s, j) ==
  {a \in j.arts \cap Present(s, j) :
     InsertsFor(s, a, j) # {} \/ UnlinksFor(s, a, j) # {}}

-----------------------------------------------------------------------------
(* The server: snapshot isolation, first committer wins.  Two transactions *)
(* conflict when they write one artifact, or when one deletes what the     *)
(* other writes, deletes or gives a role in a relation.                    *)

Writes(s, j) == Upserted(s, j) \cup Touched(s, j)
Deletes(s, j) == Deleted(s, j) \cup SweptRefs(s, j)
Players(s, j) ==
  (UNION {{e[1], e[2]} : e \in Upserted(s, j) \cap Edges})
    \cup {l[1] : l \in Inserts(s, j)} \cup {l[2] : l \in Inserts(s, j)}
Uses(s, j) == Writes(s, j) \cup Deletes(s, j) \cup Players(s, j)

Conflict(s, j, t, k) ==
  \/ Writes(s, j) \cap Writes(t, k) # {}
  \/ Deletes(s, j) \cap Uses(t, k) # {}
  \/ Uses(s, j) \cap Deletes(t, k) # {}

Applied(d, s, j) ==
  [art |-> (d.art \cup Upserted(s, j)) \ Deleted(s, j),
   refs |-> d.refs \ SweptRefs(s, j),
   links |-> (d.links \ Unlinked(s, j)) \cup Inserts(s, j)]

\* The ref entities a call puts before its chunks run.
RefsToPut(j) ==
  IF j.op \in {"add", "attach"}
  THEN KeysIn(j) \cup (IF j.run = NoRun THEN {} ELSE {j.run} \X KeysIn(j))
  ELSE {}

-----------------------------------------------------------------------------
Init ==
  /\ db = EmptyDb
  /\ pc = [w \in Writers |-> "idle"]
  /\ job = [w \in Writers |-> NoJob]
  /\ snap = [w \in Writers |-> EmptyDb]
  /\ doomed = [w \in Writers |-> FALSE]
  /\ calls = 0

\* The call ends: its transaction, if any, is over.
End(w, outcome) ==
  /\ pc' = [pc EXCEPT ![w] = outcome]
  /\ job' = [job EXCEPT ![w] = NoJob]
  /\ snap' = [snap EXCEPT ![w] = EmptyDb]

Call(w, j) ==
  /\ pc[w] \in Resting
  /\ calls < MaxCalls
  /\ pc' = [pc EXCEPT ![w] = IF RefsToPut(j) = {} THEN "ready" ELSE "ensure"]
  /\ job' = [job EXCEPT ![w] = j]
  /\ calls' = calls + 1
  /\ UNCHANGED <<db, snap, doomed>>

\* The refs are put in a transaction of their own, retried until it commits.
\* It writes the entities, so an open transaction deleting one loses.
EnsureRefs(w) ==
  /\ pc[w] = "ensure"
  /\ db' = [db EXCEPT !.refs = @ \cup RefsToPut(job[w])]
  /\ doomed' = [v \in Writers |->
       doomed[v] \/ (pc[v] = "open" /\
                     SweptRefs(snap[v], job[v]) \cap RefsToPut(job[w]) # {})]
  /\ pc' = [pc EXCEPT ![w] = "ready"]
  /\ UNCHANGED <<job, snap, calls>>

Open(w) ==
  /\ pc[w] = "ready"
  /\ pc' = [pc EXCEPT ![w] = "open"]
  /\ snap' = [snap EXCEPT ![w] = db]
  /\ doomed' = [doomed EXCEPT ![w] = FALSE]
  /\ UNCHANGED <<db, job, calls>>

\* Mutant: no check for missing ref entities.
RefsFoundUnchecked(w) == TRUE

\* A link to a missing ref entity is an error raised before the commit.
RefsFound(w) == WantedRefs(snap[w], job[w]) \subseteq snap[w].refs

Commit(w) ==
  /\ pc[w] = "open"
  /\ ~doomed[w]
  /\ RefsFound(w)
  /\ db' = Applied(db, snap[w], job[w])
  /\ doomed' = [v \in Writers |->
       /\ v # w
       /\ \/ doomed[v]
          \/ pc[v] = "open" /\ Conflict(snap[w], job[w], snap[v], job[v])]
  /\ End(w, "done")
  /\ UNCHANGED calls

RefsMissing(w) ==
  /\ pc[w] = "open"
  /\ ~RefsFound(w)
  /\ End(w, "failed")
  /\ doomed' = [doomed EXCEPT ![w] = FALSE]
  /\ UNCHANGED <<db, calls>>

\* Mutant: the retry decides on what the first attempt read.
CommitConflictSameReads(w) ==
  /\ pc[w] = "open"
  /\ doomed[w]
  /\ doomed' = [doomed EXCEPT ![w] = FALSE]
  /\ UNCHANGED <<db, pc, job, snap, calls>>

\* Mutant: the retry commits the lost transaction again.
CommitConflictSameTransaction(w) ==
  /\ pc[w] = "open"
  /\ doomed[w]
  /\ UNCHANGED vars

\* The commit raises [STC2]; the attempt runs again after a backoff.
CommitConflict(w) ==
  /\ pc[w] = "open"
  /\ doomed[w]
  /\ RefsFound(w)
  /\ pc' = [pc EXCEPT ![w] = "ready"]
  /\ snap' = [snap EXCEPT ![w] = EmptyDb]
  /\ doomed' = [doomed EXCEPT ![w] = FALSE]
  /\ UNCHANGED <<db, job, calls>>

\* Any other error, a lost connection, a dead process, a cancellation before
\* the transaction, or a conflict after the retry budget: nothing of an open
\* transaction is committed.
Abort(w) ==
  /\ pc[w] \in {"ensure", "ready", "open"}
  /\ End(w, "failed")
  /\ doomed' = [doomed EXCEPT ![w] = FALSE]
  /\ UNCHANGED <<db, calls>>

Next ==
  \E w \in Writers :
    \/ \E j \in Jobs : Call(w, j)
    \/ EnsureRefs(w)
    \/ Open(w)
    \/ Commit(w)
    \/ RefsMissing(w)
    \/ CommitConflict(w)
    \/ Abort(w)

Spec == Init /\ [][Next]_vars

\* A started call is driven by its event loop; calls themselves are not owed.
Progress(w) ==
  EnsureRefs(w) \/ Open(w) \/ Commit(w) \/ RefsMissing(w) \/ CommitConflict(w)

FairSpec == Spec /\ \A w \in Writers : WF_vars(Progress(w))

-----------------------------------------------------------------------------
(* Properties.                                                             *)

\* Every variable stays in its set; an open transaction's snapshot is a
\* database.
TypeOK ==
  /\ db \in Database
  /\ pc \in [Writers -> Phases]
  /\ job \in [Writers -> Jobs \cup {NoJob}]
  /\ snap \in [Writers -> Database]
  /\ doomed \in [Writers -> BOOLEAN]
  /\ calls \in Nat

\* No delete, of any kind and however interleaved with attaches, leaves a
\* link whose artifact or ref entity is gone: "deleting a player leaves a
\* dangling relation" (delete_nodes).
NoDanglingLinks == \A l \in db.links : l[1] \in db.art /\ l[2] \in db.refs

\* The same for edges, which are relations as well: both endpoints of every
\* edge exist, although add_edges only looks for them in its own snapshot.
NoDanglingEdges ==
  \A e \in db.art \cap Edges : {e[1], e[2]} \subseteq db.art

SameList(l, m) == l[1] = m[1] /\ (l[2] \in Keys <=> m[2] \in Keys)

\* An artifact's refs of one kind form a list: no ref twice and no two at
\* one position.  Links are inserted, not put, so only the conflict on the
\* touched artifact keeps concurrent attaches apart.
LinksAreLists ==
  \A l, m \in db.links :
    SameList(l, m) /\ (l[2] = m[2] \/ l[3] = m[3]) => l = m

\* A run ref on an artifact names a key the artifact holds, and one key was
\* contributed by at most one run: rolling a run back removes exactly the
\* keys it brought (find_*_source_refs_by_pipeline_run).
RunRefsFollowKeys ==
  \A l \in db.links : l[2] \in RunRefs =>
    /\ l[2][2] \in Held(db, l[1], Keys)
    /\ \A m \in db.links :
         /\ m[1] = l[1]
         /\ m[2] \in RunRefs
         /\ m[2][2] = l[2][2]
         => m = l

\* Attach order survives removals: a new link of an artifact comes after
\* every link of its list that stays.
AttachOrderKept ==
  [][\A l \in db'.links \ db.links, m \in db'.links \cap db.links :
       SameList(l, m) => m[3] < l[3]]_vars

\* When a provenance write commits, every artifact it wrote carries every key
\* of the call in the same commit: no artifact becomes visible unowned, even
\* when delete_graph swept the refs the call had put.  (An artifact that held
\* the keys already is not written, and may change hands meanwhile.)
OwnedOnCommit ==
  [][\A w \in Writers :
       pc[w] = "open" /\ pc'[w] = "done" /\ job[w].op \in {"add", "attach"} =>
         \A a \in Writes(snap[w], job[w]) :
           a \in db'.art /\ KeysIn(job[w]) \subseteq Held(db', a, Keys)]_vars

\* Contention does not starve: a started call ends even if the conflict
\* budget never runs out, since every lost round is another call's commit.
CallsEnd == \A w \in Writers : pc[w] \notin Resting ~> pc[w] \in Resting

\* What transaction s, j uses is in database d as in its snapshot s.
Agrees(s, j, d) ==
  /\ Uses(s, j) \cap s.art \subseteq d.art
  /\ Uses(s, j) \cap s.refs \subseteq d.refs
  /\ Writes(s, j) \cap d.art \subseteq s.art
  /\ \A l \in s.links \cup d.links :
       l[1] \in Writes(s, j) => (l \in s.links <=> l \in d.links)
  /\ \A l \in d.links :
       l[1] \in Deletes(s, j) \/ l[2] \in Deletes(s, j) => l \in s.links
  /\ \A e \in d.art \cap Edges : Incident(e, Deletes(s, j)) => e \in s.art

\* Why the invariants survive a commit decided on an old snapshot: while a
\* transaction is open and not doomed, nothing it uses has changed.
SnapshotCurrent ==
  \A w \in Writers : pc[w] = "open" /\ ~doomed[w] => Agrees(snap[w], job[w], db)

-----------------------------------------------------------------------------
(* What readers see, and the promise it keeps.                             *)

\* The list that links of one kind are decoded to, by position
\* (_ordered_links): the pairs of refs of which the first is not behind.
Order(links) ==
  {<<p[1][2], p[2][2]>> : p \in {q \in links \X links : q[1][3] <= q[2][3]}}

Decoded ==
  [a \in db.art |-> [keys |-> Order(LinksOf(db, a, Keys)),
                     runs |-> Order(LinksOf(db, a, RunRefs))]]

Promise == INSTANCE ProvenanceSpec
  WITH prov <- Decoded, KeyLists <- {j.keys : j \in Jobs}

\* Readers cannot tell the linked, transactional store from one that applies
\* every call's transition to its artifacts in one step.
ImplementsPromise == Promise!Spec
=============================================================================
