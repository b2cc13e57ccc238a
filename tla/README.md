# TLA+ models of cognee-community

The repository is a collection of packages that plug into cognee: graph, vector
and hybrid database adapters, data connectors, tasks, retrievers, an
observability hook. The models are about the packages that change state: the
TypeDB adapter in depth, since it has transactions, threads and a life cycle of
its own; its graph methods and the other 23 adapters request by request over one
model of an engine and its server; the five connectors. Everything here is translated from the
Python source under `src/packages`; servers, APIs, asyncio, dlt and cognee itself
are not in the repository and are modelled from how the code uses them.

## Inventory

### TypeDB graph adapter (`packages/graph/typedb`)

The largest and the most concurrent package. `TypeDBAdapter` keeps, per handle, a
driver, a thread pool of `WRITE_CONCURRENCY + 1` workers, a semaphore of
`WRITE_CONCURRENCY` slots, an `asyncio.Lock` for life-cycle changes, a state
lock, the flag `_closing` and what it knows of its database
(`_database_exists`, `_schema_initialized`).

* *Provenance* (`provenance.py`, `queries.py`, `schema.tql`): which source ref
  keys and pipeline runs own which nodes and edges, stored as ref entities and
  links with positions. Operations: `add_nodes`/`add_edges` with owning keys,
  `attach_*`, `remove_*`, `delete_nodes`, `delete_edge_triples`,
  `remove_connection_to_*`, `delete_graph`. They interact through the server's
  transactions only. Correct when: nothing dangles, an artifact that becomes
  visible is owned, the keys and run refs of an artifact form ordered lists that
  agree with each other, rollback by run removes what the run brought, whatever
  runs concurrently in this and other processes.
* *Batch writes* (`_write_rows`, `_write_chunk`, `_write_batch`,
  `_retry_commit_conflicts`, `_run_sync_shielded`, `_provenance_change`): a call
  puts its refs, then runs one task per chunk, each under a slot, in a worker
  thread, retried on commit conflicts. Correct when a call that has ended has no
  chunk that may still commit, a returned call has committed everything, a
  failure stops the chunks not yet started, and every call ends.
* *Life cycle* (`_get_driver`, `_get_executor`, `_provision_database`,
  `_database_available`, `close`, and the dataset handler's `delete_dataset`):
  clients, worker threads and a closing coroutine share the handle; several
  handles share a database. Correct when no driver is lost or closed under a
  worker, no worker opens one behind a close, and a write finds its schema
  whoever created the database.
* *Property updates* (`_mutate_properties`): candidates are picked in a READ
  transaction and changed in a later WRITE transaction, which reads the payload,
  changes one key of it and writes it back as a whole. Correct when no update is
  lost to one of another key, and no removed tag comes back.

### Connectors (`packages/connector`)

Generators run by dlt, which commits the rows and the resource state of a
successful run together and nothing of a failed one.

* *Confluence* (`sync_pages`): state `known_ids` and `last_when`. A run lists the
  tracked spaces request by request, fetches the pages that are new or newer
  than the cursor, and deletes those it no longer sees. The wiki changes
  meanwhile.
* *Gmail* (`full_backfill`, `incremental_fetch`): state `last_history_id`. A run
  lists the mailbox or reads its history since the cursor, then fetches
  messages one by one. The mailbox changes meanwhile and its history expires.
* *Google Drive* (`_iter_rows`): state `page_token`. A first run takes a start
  token, walks the folder and downloads its files; a later one reads the feed
  of changes page by page, then the folders in scope, then the metadata and the
  content of each changed file. Files, and the folders they are in, move, go to
  the trash and come back meanwhile.
* *Notion*, *Slack*: no cursor; each run yields all the rows it finds and they
  replace the table. The listing takes several requests, files or renderings,
  each of which can fail or be overtaken by a change.

They are correct when the table converges to what the service shows, and when
the cursor never passes over a change the table has not got.

### Vector adapters (`packages/vector`, `hybrid/duckdb`)

Qdrant, SingleStore, Weaviate, Milvus, openGauss, Redis, Valkey, Turbopuffer,
Pinecone, Azure AI Search, OpenSearch, Moss and DuckDB. An *engine* (an instance
of the class) keeps a lock and little else: Redis the indexes it has touched,
Moss what it believes of its index, OpenSearch the number of searches that use
its client. Operations: `create_collection`, `create_data_points`,
`delete_data_points`, `prune`, `retrieve`, `search`, `batch_search`,
`get_collection_names`. Each is a sequence of requests, and other calls of this
engine and of others (processes, users, datasets) run between two of them. They
are correct when what a call that returned has written stays until somebody may
replace it, what it deleted stays deleted, `prune` leaves nothing of its
database, nobody waits forever for the lock, and the reading methods agree with
what is stored.

### Graph and hybrid adapters (`packages/graph`, `packages/hybrid`)

Memgraph, ArcadeDB, Spanner and TuringDB send statements to a server. Turbopuffer
keeps nodes and edges as rows of two namespaces. NetworkX keeps the graph in
memory, in one instance for all callers, and saves it to a file after every
write. PGGraph extends cognee's Postgres adapter with an index that is built
from the tables. FalkorDB, ArcadeDB and HelixDB are graph and vector store at
once: a data point is a node, with a vector. Operations: `add_node(s)`,
`add_edge(s)`, `delete_node(s)`, `delete_graph`, the removals of connections and
of tags, and a dozen ways to read the graph. Correct when writes and deletes are
as durable as above, an edge goes with its ends, and every way to read tells the
same graph.

### The rest

* Dataset database handlers: `delete_dataset` is a prune or `delete_graph` through
  an engine of its own.
* Registration of the adapters; helpers for options, schemas, serialization.
* Tasks (codify, exa, scrapegraph), the codify pipeline, the code retriever, the
  Keywords AI observability hook, the contract test suite, `experimental`.

`PROJECT.json` lists each of them with what is modelled or why it is not.

## Plan

Done, in this order:

1. `TypeDBProvenance`: transactions on the link store; its abstract
   specification `ProvenanceSpec` and the refinement.
2. `TypeDBBatch`: event loop, worker threads, slots, retries, cancellation.
3. `TypeDBLifecycle`: drivers, pools, provisioning, close, drop.
4. `ConfluenceSync` and `GmailSync`.
5. `Store`, `GraphStore` and the adapters over them, composed by `Stores`.
6. `Source` and the three connectors over it, composed by `Sources`.

7. Proofs of every safety property of the TypeDB models and of the connectors,
   and of the refinement of `ProvenanceSpec`.
8. Proofs that twelve of the vector adapters keep what they acknowledge, and that
   what they answer is what they hold.

Left, most important first:

9. The same proofs for Moss and for the graph and hybrid adapters.
10. The chunks and payload updates of `TypeDBGraphAdapter` composed with the links
    of `TypeDBProvenance`, which are now two views of one database.

## Modules

| Module | Models | Extended by |
|---|---|---|
| `TypeDBProvenance` | the link store and its transactions | `MCTypeDBProvenance`, `TypeDBProvenanceProofs` |
| `ProvenanceSpec` | what readers are promised: two lists per artifact | instantiated by `TypeDBProvenance` |
| `TypeDBBatch` | one adapter's batch calls | `TypeDBBatchProofs` |
| `TypeDBLifecycle` | handles on one database | `TypeDBLifecycleProofs` |
| `ConfluenceSync` | the page sync and the wiki | `ConfluenceSyncProofs` |
| `GmailSync` | the message sync and the mailbox | `GmailSyncProofs` |
| `Store` | engines, clients, calls, locks, a server of collections | `GraphStore`, the vector adapters |
| `QdrantAdapter`, `SingleStoreAdapter`, `WeaviateAdapter`, `MilvusAdapter`, `OpenGaussAdapter`, `RedisAdapter`, `ValkeyAdapter`, `TurbopufferAdapter`, `PineconeAdapter`, `AzureAdapter`, `OpenSearchAdapter`, `DuckDBAdapter` | one vector adapter each | instantiated by `VectorStores` |
| `MossAdapter` | the vector adapter of Moss | instantiated by `Stores` |
| `GraphStore` | a server with a graph, what readings of it mean | the graph and hybrid adapters |
| `TypeDBGraphAdapter`, `MemgraphAdapter`, `TuringDBAdapter`, `ArcadeDBGraphAdapter`, `SpannerAdapter`, `TurbopufferGraphAdapter`, `NetworkXAdapter`, `PgGraphAdapter` | one graph adapter each | instantiated by `Stores` |
| `FalkorAdapter`, `ArcadeDBAdapter`, `HelixAdapter` | one hybrid adapter each | instantiated by `Stores` |
| `VectorStores` | twelve of the vector adapters, the calls made to any adapter, the servers they start from, what is owed | `Stores`, `VectorStoresProofs` |
| `Stores` | one of the 24 adapters, its engines and clients; what it owes its callers | `MCStores`, `StoresProofs` |
| `Source` | a remote collection, the table dlt keeps of it, a run | `Sources` |
| `Sources` | the requests of the Drive, Notion and Slack connectors, one of them in use; what the table owes the collection | `SourcesProofs` |

Definitions whose comment begins with "Mutant:" are not part of a model. Each is
what a plausible mistake in the code would make of the definition after it, and
is used to see that the property named in `PROJECT.json` notices.

### TypeDBProvenance

`db` is the committed database: artifacts (nodes, and edges as relations between
them), ref entities, and links `<<artifact, ref, position>>`. Each writer is one
chunk of one call: `Call` starts it, `EnsureRefs` is
`_ensure_provenance_refs` (a committed transaction of its own), `Open` takes a
snapshot, `Commit` applies what `_provenance_change_sync` and the delete
functions compute from it, `CommitConflict` is the `[STC2]` error that
`_retry_commit_conflicts` answers with a new attempt, `RefsMissing` is the error
raised when a ref entity is gone, `Abort` every other end. `InsertsFor`,
`UnlinksFor`, `Deleted`, `Unlinked`, `SweptRefs` and `Touched` are the pure parts
of the code, one operator each.

The server's isolation is external: snapshot reads, first committer wins,
conflict when two transactions write one artifact or one deletes what the other
writes, deletes or uses as a role player (`Conflict`). The code relies on this:
it updates `updated_at` of every artifact whose links it changes (`Touched`) so
that two appends conflict, and it deletes links with queries of their own since
the server keeps a relation whose player goes. cognee's
`provenance_after_attach` and `provenance_after_remove` are external, too.

`ProvenanceSpec` knows no transactions, links or positions: a function from the
existing artifacts to two lists. A list has no repetitions, so it is given by its
order, the pairs of which the first element is not behind the second; that needs no
recursion, and so the refinement can be proved. `Decoded` maps the link store to
it as readers decode it (`_ordered_links`, sorted by position), and
`ImplementsPromise` states the refinement.

### TypeDBBatch

A unit is a chunk, or the transaction that puts a call's refs. `task` is its
coroutine, `tx` its transaction in a thread; `TxEnds` happens whatever the event
loop does. `Cancelled` is a cancellation delivered at the unit's await: waiting
and backing off end at once, an attempt goes to `draining`
(`_run_sync_shielded`), and a second cancellation of one that drains ends the
wait, as `contextlib.suppress(BaseException)` makes it. `GatherRaises` cancels
the call's other tasks and goes on to `rejoin`, the second `gather`.

### TypeDBLifecycle

`adapter[h]` is the handle's attributes; `open` and `dying` are the drivers on
the server side. A client is an asyncio task, `pc` names the await it is at;
`job` is what it has in a worker pool. `Start` is a worker that takes a job and
calls `_get_driver`; `LookUp`, `Create`, `Recheck`, `Define` are the steps of
`_provision_database_sync`, between which other handles run. `Acquire`,
`Finish`, `CloseReturns` are the three stretches of `close()` between its
awaits. `Cancel` cancels a task: a queued job is withdrawn, a running one is
left behind. The dataset handler uses an adapter of its own for a drop, which is
another handle here; the eviction it asks cognee's cache for is a `Close` that
may or may not come.

### ConfluenceSync and GmailSync

One run is one pass of the generator, `Commit` its load by dlt, `Fail` any
exception, after which rows and state are as before the run. What the service
does (`Edit`, `Move`; `Label`, `Delete`, `Expire`) interleaves with every
request. A version is the time of an edit, strictly increasing; a history id is a
position in the history. Comments, bodies, labels other than the scope, the
`max_results` cap and the label prefilter of `history.list` are left out: the
models follow which version the table has, and whether it has the message.
Variables marked "history" record what happened and are read by properties only.

### Store, GraphStore and the adapters

`call[c]` is the method client `c` is in, its arguments, the request it makes
next (`pc`) and what a loop has left (`todo`); `engine[c]` and `database[e]` say
who uses which instance and which `database_name`. `server` is the data of the
server, `memo[e]` what an instance keeps between calls, `lock[e]` who holds
`VECTOR_DB_LOCK`. Between two requests with an `await` any client runs; between
two synchronous ones no client of the same engine does (`busy`), those of other
engines do. Each method of an adapter is one definition of its module with a
disjunct per request: `Goto` awaits the next one, `GoOnTo` makes it without an
await, `Locks` is `async with`, `Ends` returns or raises and releases what the
`async with` held. `Fails` of a module says what a failed request does there:
raises, is logged and skipped, counts as "there is no such collection", is
repeated, or has been carried out before its answer was lost.

The reading methods are operators on the server and the engine's memory,
gathered by `Reads`; `VectorAnswers` and `Answers` list the questions. Vectors and
distances are left out: a search returns the points its filters let through, as
many as its limit allows. A data point has an id, a collection, a database and
the revision of its text; a node an id, a revision and its node sets; an edge
its ends, its label and, where an adapter can make a second one, a copy. For
TypeDB the payload is followed too: a node has its tags, weight and truth state,
an edge its weight. `MutateProperties` commits only if what it has read is still
there as it was, and else reads again; `WriteRows` commits the chunks of a batch,
one row each, in any order.

`Stores` picks a provider, its server and its engines at `Init` and dispatches to
its module, for the vector adapters by way of `VectorStores`, which the proofs can
extend without the others. Four pieces of history say what is owed:

* `due`: what the calls that returned entitle their callers to find, points, nodes,
  edges, weights and truth states, created collections, the vectors that ArcadeDB and
  HelixDB store with nodes and, as revision 0, deletions and removed tags (`Aims`).
  A call that begins takes away what it may replace (`Claimed`); nothing else does.
* `call[c].clean`: no call that runs with `c` might disturb it (`Disturbs`: it may
  remove what `c` writes, or write anew what `c` changes). Only such a call is owed
  what it aims at. Two updates of different keys of one payload do not disturb each
  other.
* `call[c].found`: what there was for a prune or `delete_graph` to remove when it
  began (`ToSweep`), but for what calls that run with it may write anew (`Restores`).
* `untold`: what the code loses, or leaves undone, without anybody being told. The
  step that does so records it, and it alone; the next call that writes or removes
  the same takes it away. The table "What the adapters lose" below names every one of
  these steps.

### Source and the connectors

`place`, `rev` and `feed` are the collection: where an item is, which change made
its content, and the changes in order. `run` is the generator at its next
request, `table` what dlt has loaded, `cursor` Drive's token (for the snapshots
the length of `feed` when the last loaded run began, read by properties only).
`Raises` is an exception, after which rows and state are as before the run.
`Loads` merges or replaces. All are in `Source`; the requests of the three
connectors are definitions of `Sources`. Of Drive, `ListFilesInFolder` is the walk of a
first run, `ListChangedFileIds` a page of the feed, `GetScopeFolderIds` the folders
in scope, `LookUp` a file's metadata and `FileToRow` its content; of Notion,
`Paginate` takes two responses and `PageToRow` renders the pages
one by one; of Slack, `ReadMessageFile` reads one file of messages.

## Runs

Bounds are the constants named "bound" in each module; they appear only in
guards of actions the environment or a caller owes to nobody.

| Run | Question | Instance |
|---|---|---|
| `provenance_deletes` | Do owning writes and every kind of delete leave anything dangling or unowned, and does every call end? | two nodes, one edge, two keys, two runs, two writers, 5 calls of 9 kinds |
| `provenance_lists` | Are keys and run refs consistent lists, and is the store indistinguishable from atomic transitions? | the same artifacts, 11 kinds of call, 4 calls |
| `batch_failure` | Does a failed call stop, drain and release its slots? | a call of two chunks and a cancellable one of a single chunk, one slot, two attempts each |
| `batch_cancelled` | The same for a cancelled call of two chunks (violated) | one call, two chunks |
| `lifecycle_workers` | Are drivers neither lost nor closed under a worker, do writes find the schema? | two clients, two handles, one worker each, 4 calls, one drop, one cancellation |
| `lifecycle_close_cancelled` | The same when `close()` is cancelled (violated) | one handle, two clients, two calls |
| `confluence_sync` | Does the table converge to the wiki, and is it safe against failed runs, empty sweeps and moving pages? | two pages, two listing requests, 2 edits, 2 moves, 1 error, any number of runs |
| `confluence_skips` | Is every page that is skipped ingested? (violated) | two pages, two edits |
| `gmail_sync` | Is every change in the table or ahead of the cursor? | two messages, pages of one, 4 changes, 1 expiry, 1 error, any number of runs |
| `stores` | Is what a call acknowledged stored and what it deleted gone, do prunes empty, do readings agree, does no call wait forever? | each of 24 adapters; two clients, 3 calls, 1 failed request, up to 4 servers and 3 ways to share engines and databases |
| `sources` | Is the table true up to the cursor, is nothing forgotten that is there, does what is gone go? | each of 3 connectors; two items, 3 changes (2 for the snapshots), 1 failed request, any number of runs |
| `gmail_expiry` | Does the backfill after an expiry reconcile deletions? (violated) | one message, three changes |

Why the bounds are enough. Two writers suffice for the conflicts of snapshot
isolation, which are between pairs; five calls let both writers act after a third
call has changed what they read, and let `delete_graph` sweep refs between the
two transactions of an attach. Two chunks and one slot are the least with a
chunk in flight, one waiting and one backing off. Two clients and two handles
give a close, a queued worker and a foreign creator or dropper; the pool of one
makes the second job queue. Two listing requests are the least for an edit
behind the listing and one ahead of it. Pages of one history record are the
least that let a change or an expiry fall between two pages.

`stores`: the hazards of the adapters are between two calls, of which one may
start from what a third has left; so two clients and three calls. They share one
engine (the lock, the memory and the event loop matter), have one each on one
database, or one each on two; where an engine keeps nothing, two engines do all
that one can, and the first case is left out, and the last one where no request
names a database. Nothing but the first states tells clients or engines apart,
so they are interchangeable (`Symmetry`). The servers are empty or hold two
points, or a graph of four nodes and four edges with two node sets. The calls
are a creation, a write of one point, of two with another text, a delete and a
prune, or the seven writes and deletes of a graph; TypeDB, NetworkX,
PGGraph, Turbopuffer, OpenSearch and Moss have their own on top. One failed request lets
a half-done call be followed by another client's and by its own repetition.

`sources`: two items and two containers give an item listed before, and one
after, any change; three changes of a Drive let a file go and come back across
two pages of the feed while another one moves. Runs go on without bound, so one
failed request meets every step.

`CHECK_DEADLOCK FALSE` is set where the callers may stop calling: all calls of a
bounded behaviour are over. The connector models never stop, since runs repeat.

### Fairness

`TypeDBProvenance`, `TypeDBBatch`, `TypeDBLifecycle`: weak fairness of a started
call's own steps, of the worker threads and of the closing of some driver as long as one is to be closed. The event loop
and the threads are scheduled by the runtime, the server answers or the
connection fails, and the lock and the pool queues are first-in first-out. No
fairness for starting calls, for cancellations or for conflicts: a writer that
loses a round does so to a commit, of which there are as many as calls. The
connectors, `Sources` among them: weak fairness of the run's next step, which
includes starting the next one; the sync is meant to be run again and again.
`Stores` has no fairness: that a call ends depends on the server alone, and what
could stop it in the code, the lock and the loop, is the invariant
`SomeCallGoesOn`. Nothing makes the service
change, fail or expire, or stop doing so except the bounds.

### What the runs show

The passing runs hold for every interleaving of their instances. Four
disagreements between the code and what it says of itself came up:

* `batch_cancelled`: the second cancellation of a chunk that is waiting for its
  thread is swallowed together with the wait (`typedb_adapter.py:431`), so a
  cancelled call of two chunks can raise while one of them may still commit.
  The docstring of `_run_sync_shielded` promises the opposite. A failed call is
  not affected: `batch_failure` checks the same property, also for a cancelled
  call of a single chunk.
* `lifecycle_close_cancelled`: `close()` cancelled while the pool drains runs
  `_finish_closing` and skips `driver.close()` (`typedb_adapter.py:267`); a
  queued worker opens a new driver and the old one stays open.
* `confluence_skips`: a page edited behind the listing, before a page ahead of it
  is edited too, is older than the cursor the run ends with. Every later run
  skips it (`confluence.py:246`). `StaleIsAhead` shows that only edits made
  during a run can be lost so.
* `gmail_expiry`: the backfill that replaces an expired cursor emits no
  tombstones and the rows are merged, so what was deleted in the lost window
  stays (`gmail.py:361`), against the module documentation.
  `ForgottenByHistory` shows that nothing but a backfill loses a deletion.

One more is visible in `TypeDBLifecycle` without a run of its own: the TypeDB
README says that reads on a dropped database see an empty graph; a handle whose
flags are cached (`typedb_adapter.py:330`) skips the existence check, and its
read ends as `gone`, an error. `KnowledgeGoesWithDriver` states the part that
does hold: the flags never outlive the driver.

### What `stores` and `sources` show, and where they look away

The five properties of `Stores` hold for all 24 adapters, except where the code loses
something, answers something else, or leaves it open what a caller may expect. All
these places are listed here; the properties look away from nothing else.

**What the adapters lose.** Some steps lose what has been acknowledged, or leave it
undone, and the call returns "ok", or the step belongs to no call. Each records the
marks of what it loses in `untold`; `AcknowledgedIsStored`, `DeletedIsGone` and
`PruneEmpties` judge all other marks.

| Step | What the code does | Recorded |
|---|---|---|
| `UploadsSome` of `AzureAdapter` | refused documents are logged (`azureaisearch_adapter.py:245`) | the documents refused |
| `InsertsSome` of `WeaviateAdapter`, `BulkTakesSome` of `OpenSearchAdapter` | the list of refused documents is not read (`weaviate_adapter.py:295`, `opensearch_adapter.py:257`) | the documents refused |
| `Fails` of `TurbopufferAdapter` and `DuckDBAdapter` | a failed look for the collection counts as its absence, and the delete returns (`turbopuffer_adapter.py:235`, `duckdb_adapter.py:159`) | what it was to delete |
| `Fails` of `MossAdapter` | `_find_existing_index` swallows a failed listing, and the delete returns (`moss_adapter.py:81`); `prune` takes a refused key for a skip (`:399`) | what it was to delete; what the prune was to remove |
| `CreateIndexWithDocs` of `MossAdapter` | the second of two first writes of an engine finds the index made when it gets the lock, and returns without writing (`moss_adapter.py:87`) | its documents |
| `Prune` of `QdrantAdapter` and `SingleStoreAdapter`, the drop | another database can write between the count and the drop (`qdrant_adapter.py:423`, `singlestore_adapter.py:304`) | what is due of the collection |
| `LeftBehind` of `ValkeyAdapter` | `gather` raises with the first document that fails, and the others are written after the call has ended, over whatever has been written or deleted since (`valkey_adapter.py:392`) | the document written; `Late` excuses the key only while this document is what the server has for it |
| `Fails` of `RedisAdapter`, `AzureAdapter`, `DuckDBAdapter` in `prune` | a failed drop is logged (`redis_adapter.py:535`, `azureaisearch_adapter.py:512`, `duckdb_adapter.py:475`) | what the prune had found in that collection |
| `DeleteGraph` and `Fails` of `FalkorAdapter` | `delete_graph` prints what its requests raise, and returns (`falkor_adapter.py:1318`) | what it had found |
| `Fails` of `TurbopufferGraphAdapter` | `delete_graph` ignores what `delete_all` raises (`turbopuffer_graph_adapter.py:247`) | what it had found in that namespace |
| `RemoveBelongsToSetTags` of `TurbopufferGraphAdapter` | whole rows are written back that were read before an await (`turbopuffer_graph_adapter.py:451`) | the nodes that have changed meanwhile |
| `Fails` of `NetworkXAdapter` | a write fails, or the process ends, on the truncated file (`networkx_adapter.py:614`); a load that fails saves the empty graph (`:695`) | what the file holds (`Lost`) |
| `Saves` of `NetworkXAdapter` | a write of an instance that has not loaded the file, new or emptied by a construction (`:62`), replaces it | `Lost` |
| `LoadGraphFromFile` of `NetworkXAdapter` | a load finds the file another call has truncated (`:614`), takes it for unreadable and saves the empty graph (`:695`) | `Lost` |
| `SaveGraphToFile` of `NetworkXAdapter` | of two saves that overlap, the shorter is written into the longer, which leaves no JSON (`:614`) | `Lost` |

**What is not owed.**

* A call that another one may have disturbed (`Disturbs`) is owed nothing; for NetworkX
  any two calls disturb each other: a load takes back what a save has not written yet,
  and of two saves the older content can be the last. Besides calls that claim the same key, these are an
  `add_edge(s)` and an `add_node(s)` of its ends (`Links`), and a setter of weights or
  truth states and a write of what it changes (`Misses`): which one the other saw is
  open. So what a repeated statement of ArcadeDB undoes (`arcadedb_adapter.py:374`) is
  judged by no property: only calls that overlap with the repetition are undone.
* The file of NetworkX is compared when it is not truncated: between the `open` of a save
  and its write it holds nothing.
* `DeletedIsGone` of Moss is asked while there is one index: two engines that see none
  make two, and each deletes from its own. HelixDB deletes no vector (`helixdb_adapter.py:962`),
  so of a deleted node only the node and its edges must be gone; of ArcadeDB the vector, too.
* A prune or `delete_graph` answers for what there was when it began, without what a
  call that runs with it may write anew (`Restores`): the points and the collection of a
  `put`, the collection of a `create`, the nodes and edges of an `add`, the nodes
  `remove_belongs_to_set_tags` of Turbopuffer writes back. Moss writes to whatever
  index it finds; the file of NetworkX comes back whole. Of two prunes of one
  engine of Redis the one that ends first clears the names the other goes by. What other
  calls do at the same time is covered: deletes, prunes, writes of other
  collections and of other databases, and calls that were over before the
  prune was, of which it has read a list gone stale.
* What is a prune's to remove (`Sweeps`): of Qdrant, SingleStore and Turbopuffer the points
  of its engine's database, and a shared collection is dropped only when it is
  empty; of Redis the indexes its engine has touched, and of Valkey the indexes without
  their documents, which are found again when an index of that name is made (the
  docstrings, `redis_adapter.py:520` and `valkey_adapter.py:686`, say "Remove all collections
  and data"); of HelixDB the nodes, not the vectors.

**What the readings answer.** `ReadsAgree` compares every reading method with what is
stored, whatever has led there, when no call is under way. It is asked

* of a graph that is whole (`Whole`): `add_node` of TuringDB can make two nodes of one
  id (`turingdb_adapter.py:284`), `MERGE` of an edge in FalkorDB makes ends without a label
  (`falkor_adapter.py:457`), an edge of Turbopuffer's graph can be left without its
  end, and each method tells of those in its own way;
* of engines whose copy is the server's (`InStep`): NetworkX, whose memory can be older or
  newer than its file; pgGraph, whose index is as of its last build (`pggraph_adapter.py:124`),
  unless Postgres answers instead; Moss, with one index that the engine knows of;
* of a collection that is there and has points (`Answerable`), for Milvus with its index.

Methods that answer something else are held to what they do answer, all named in `Stores`:

| Name | Methods | Held to |
|---|---|---|
| `Differs` | `get_collection_names` of Redis, FalkorDB and HelixDB; `has_edges` of ArcadeDB's graph package, which says yes of any edge it finds | nothing |
| `Heard` | `batch_search` of Weaviate, Azure, OpenSearch, DuckDB, Milvus and Valkey, which has no operator; all searches of openGauss, which do not look at the node sets | the answer to a search with OR; with no filter |
| `FindsNone` | `batch_search` of Qdrant; searches of HelixDB with node sets, which no vector has | no hit |
| `Retrieved` | `retrieve` of Qdrant and Moss, which looks at no database; of the hybrids, which looks at no collection, or at nodes | at least the points meant, and only of the ids and collection asked for; only ids of nodes that are there |
| `Partial` | node set subgraphs that are always empty, or know no AND; neighbourhoods of depth one | nothing that is not stored |
| `Coarse` | metrics without components, or with one | the counts of nodes and edges |
| `Unoriented` | edges told from the node asked for | the edges without their direction |
| `MayRaise`, `get_graph_data` of FalkorDB | a `KeyError` on an edge made by `add_edge`; an end without a label | the answer meant, or an exception |
| `Untyped` | neighbourhoods of pgGraph's fallback (`pggraph_adapter.py:286`), FalkorDB, ArcadeDB | the nodes meant, and at least their edges |
| in `Agrees` | `has_edges` of Memgraph, which finds none; `get_edges` of NetworkX, without the labels | no edge that is not there; the ends |

More that the modules show and no property judges: in `MemgraphAdapter` `delete_node`
always raises (`memgraph_adapter.py:279`), and what a failed call of any adapter has half
done stays.

`sources` holds for every item but those `excused`: a file trashed and restored
within one window of changes is lost (`google_drive.py:422`), the files of a
folder that moves are not noticed (`:274`), nor is a file that is looked up in a folder
which has come into scope since the folders were read, a failed extraction leaves the old
content and the token moves on (`:210`); a page that slips between two
responses is forgotten until the next run (`notion.py:201`), and so are the
messages of a file that cannot be read (`slack_export.py:183`). `ForgottenWasOut` says that
nothing else is ever forgotten, and `GoneAreForgotten` that what is deleted goes.
The second of these cases came out of a proof attempt. It takes four changes of a
Drive, one more than the run makes: the folder is detached, a file elsewhere is edited,
the run reads the folders in scope, the folder is attached again and the file moved
into it. The look-up then finds the file in a folder that was not in scope, and its
row goes, although it is in scope; it comes back with the next run, since the
change that moved it is behind the token.

## Proofs

Eight modules of theorems, each for any values of the constants that satisfy the
named assumptions of the module it extends: any number of writers, clients,
handles, calls, chunks, pages, messages, items and folders, and of changes,
errors and cancellations.
`TypeCorrect` is the type invariant; `Sources` has its own as the part `Typed` of
its invariant, the stores have theirs as `TypeInv`.

`TypeDBProvenanceProofs` proves every safety property of the link store.
`NoDanglingLinks` is not inductive: a commit decides on a snapshot, so one must
know that the snapshot agrees with the database wherever the transaction uses it.
That is `SnapshotCurrent`, and the invariant `Inv` adds that snapshots are whole
databases (`Sound`) with no dangling link or edge. The argument is in
`CommitKeepsAgreement` (a commit that does not doom a transaction leaves what
that transaction uses alone), `AppliedIsWhole` and `AppliedEdgesWhole` (a
transaction that agrees leaves no dangling link or edge). The bounds on positions
rest on `MaxOfBounded`: the highest position of a bounded list exists, from the
well-foundedness of the naturals.

* The lists: `ListsInv` says that keys and run refs are lists (`Listed`) and belong
  together (`Followed`). New links come behind those there are
  (`NextPositionIsLast`), each at a position of its own (`PositionsAscend`) and in
  no list twice (`NewLinksAreLists`); a key is attached with its run and goes with
  it (`KeysStayWithRuns`). `RefsStayLists`, `RunRefsStayWithKeys`,
  `AttachOrderStays` and `WrittenAreOwned` follow.
* The refinement, `PromiseIsKept`: an append of links appends to the order
  (`AppendedOrder`) and a removal takes elements out of it (`OrderWithout`), so a
  commit is one `Attach`, `Remove` or `Delete` of `ProvenanceSpec`
  (`CommitAttaches`, `CommitRemoves`, `CommitDeletes`), as seen from the state it
  commits in and not from the snapshot it decided on; every other step is a
  stutter.

`TypeDBBatchProofs` proves the five safety properties of the batch calls. A
coroutine and its transaction are two processes, so the invariant `IInv` has two
layers: what each state of a coroutine leaves its transaction (`UnitInv`), and
which of these a state of the call admits (`CallInv`). `ReturnedCallsCommitted`,
`RefsComeFirst` and `FailedCallsStartNoMore` need no hypothesis. The docstring's
promise, that a call ends with nothing in flight, is proved where it holds:
`FailedCallsEndQuietly` for every call that nobody has asked to stop, and
`EndedCallsStayQuiet` and `SlotsCapFlight` under `CancelledOnce` (a call is cancelled at
most once and only calls of a single chunk are), which is what `batch_failure`
runs. Without it the code does otherwise, as `batch_cancelled` shows; the theorems
say that nothing but the cancellation of a call of several chunks, or a second
one, can break the promise.

`TypeDBLifecycleProofs` proves the five safety properties of the handles on three
invariants. `ClientsInv` says what the await a client is at leaves of its call and
its job, and that each driver is of the handle that holds it. `SchemaInv` says what
the steps of the provisioning know of the server; `WritesFindTheirSchema` follows from
these two. `DriversInv` says at which awaits a client holds the life-cycle lock
(`LockInv`), that a job at work has its handle's driver, in its handle's pool or in
one that a close drains (`JobInv`), and what the attributes of a handle say of
each other (`AdapterInv`). It is an invariant under `CloseRuns`, that `close()` itself is not
cancelled, and so are `NoDriverIsLost`, `WorkersKeepTheirDriver`,
`KnowledgeEndsWithDriver` and `NoneOpensWhileDraining`; `lifecycle_close_cancelled`
shows a driver lost without it.

`ConfluenceSyncProofs` proves the four safety properties of the page sync. The
invariant `IInv` compares the wiki with what a run has in hand: results listed
(`ListedFresh`), rows fetched (`FetchedFresh`) and pages passed over
(`KeptFresh`); at the commit these add up to the new table (`LoadsTable`).
`KnownStaysIngested` and `StaleStaysAhead` are parts of it; `TableIsNeverEmptied` and
`ForgottenMoved` are about the commit, the latter with `SweepIsWhole` (what a
run's listing has not seen was elsewhere or has moved).

`GmailSyncProofs` proves `LiveStayCovered` and `GoneAreForgotten`. The invariant
says, per mode, that the messages still to list or to fetch, the rows, the
tombstones and the records after the baseline together cover the mailbox
(`BackfillCovers`, `HistoryCovers`, `FetchCovers`), and that a record of a
deletion is final (`DeletedIsGone`). `Told(m, from)` is all that is used of the
history.

`SourcesProofs` proves `TableStaysTrue` and `ForgottenWereOut` for the three
connectors together. `SyncedUpToCursor` looks at the table between two runs and says
nothing of what a run holds, so it is not inductive. In `WorldInv` it holds during
runs too (`TableTrue`) and the feed records what has happened (`Recorded`,
`Noticed`); `RunInv` says of a run
under way that an item that is there is still to be read, or has been listed,
or has been dealt with as it is now (`ReadSoFar`), that the deletions and the items
passed over were of items that were out (`DeletedWereOut`, `StillShown`), and what each request
leaves for the next (`Shape`, `WindowRead`, `ScopeRead`). The changes of the
collection are treated at once by what they have in common (`Told`), the steps of
a run that load nothing by `Quiet`, the loads by `LoadKeeps`. The proof did not
go through at first, for a good reason: the look-up of a file in a folder that has come
into scope, above.

`VectorStoresProofs` and `StoresProofs` prove of twelve vector adapters (all but Moss),
for any clients, engines, databases, collections and ids, any calls and any number of
failures, that what is due is honoured: `VectorsAreStored`, `VectorsAreGone` and
`VectorsAreRead`. They take `StoreAssumption` and `StoresAssumption`: a `put` is of finitely
many points of the first revisions, the calls are about the ids and collections there
are, the servers to start from hold finitely many points, each in its collection, and
marks of collections are none of nodes and edges. The two modules are one proof in
two halves: the first extends `VectorStores` alone, so that its obligations do not
carry the other adapters along.

`AcknowledgedIsStored` says nothing of calls under way, so it is not inductive.
`VectorInv` adds, as `SafeInv`, that no running call may replace what is due
(`DueIsFree`), that no call which runs with a clean one disturbs it (`CleanIsFree`), and that
all that is due is there, gone or in `untold` (`DueIsSettled`); that each point lies in a
collection there is (`Housed`); and, per adapter, what a call has half done (`HalfDone`):
the points written so far, and the points a repeated delete has left. The argument
is in what an adapter has to show of each of its steps (`Proceeds`): it leaves alone what its call may not
replace (`Careful`), it leaves the other calls as they are, and either the call goes on with
what it has half done, or it returns with all that it aims at settled
(`EndsWell`). `ProceedsKeeps` derives the invariant from that once; `BeginKeeps` is the same for
a call that begins, where `Claimed` is used from both sides: what it may replace leaves `due`, and
what it makes unclean it could replace. Twelve lemmas (`QdrantProceeds` and so on) then
go through the steps of each adapter. A return with something lost is an `EndsWell` whose
losses are in `untold`; `Late` is what a background write of Valkey needs (`BackgroundIsSafe`).

`VectorsAreRead` needs more: that the points are finitely many (`PointsInv`), since a search
asks for as many as a collection holds, and that no collection outgrows the limit of a search
that has one (`WithinLimits`). `AnswersAgree` and `SoughtAgree` compare an answer with what is
meant, with the filter as the method hears it; twelve lemmas (`QdrantReads` and so on) evaluate
the adapters' reading methods.

Only model-checked: the liveness properties (both `CallsEnd`, `PagesArrive`,
`MailArrives`, and `GoneAreForgotten` of `Sources`), which need fairness and `ENABLED`;
`SomeCallGoesOn`, which is about `ENABLED`, too; `PruneEmpties`, whose invariant would have to
say of each adapter which collections its list still holds; and the properties of `Stores` for Moss and
for the graph and hybrid adapters.

## Not modelled

* Raw queries handed to a server (`query`), and readings beyond `Reads`:
  `get_triplets_batch`, FalkorDB's `get_document_subgraph`, TypeDB's
  `get_id_filtered_graph_data`.
* ArcadeDB's creation of its database at start; the options of clients, connection
  strings, schemas, serialization, quantization, vectors and distances.
* Formatting, parsing and validation of rows, markup, MIME and credentials.
* Crashes of the adapter's process in `TypeDBBatch` and `TypeDBLifecycle`: they
  persist nothing of their own. In `TypeDBProvenance` a crash is `Abort`, which
  leaves the refs a call has put; in the connectors it is `Fail` or `Raises`; in
  `Stores` it is a failed request, and for NetworkX the construction of a new
  instance over the file.
* Tasks, the codify pipeline, the retriever, the observability hook, the test suite
  and `experimental`: pure functions over one input, or calls handed to cognee.
