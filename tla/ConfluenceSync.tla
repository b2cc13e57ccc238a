---------------------------- MODULE ConfluenceSync ----------------------------
(***************************************************************************)
(* The incremental sync of a Confluence wiki into a table: sync_pages of   *)
(* the Confluence connector, with the wiki it reads and the dlt pipeline   *)
(* that commits its rows and its cursor.                                   *)
(*                                                                         *)
(* The wiki changes while a run reads it: a run lists the tracked spaces   *)
(* in several requests and fetches the body of a changed page in one of    *)
(* its own.  A version is the time of the edit that made it.               *)
(***************************************************************************)
EXTENDS Integers

CONSTANTS
  Pages,     \* page ids
  Requests,  \* listing requests of a run, all tracked spaces together
  MaxEdits,  \* bound: edits of pages
  MaxMoves,  \* bound: pages created, deleted, restored or moved
  MaxErrors  \* bound: failed runs, and listings of no space at all

ASSUME BoundsAreNat ==
  /\ Requests \in Nat \ {0}
  /\ {MaxEdits, MaxMoves, MaxErrors} \subseteq Nat

VARIABLES
  place,   \* the listing request that shows each page; 0: none does
  when,    \* the version of each page
  clock,   \* the last version made
  moves,   \* how often pages have moved
  known, last,  \* the resource state: known_ids, last_when
  table,   \* the destination: the version of the body it has for a page
  running, \* a run is under way
  request, \* the next listing request
  results, \* those of the last one not yet looked at
  current, newest, rows,  \* current_ids, newest_when, the rows yielded
  errors,
  moved,   \* history: pages that have moved since the run began
  raced    \* history: pages whose last edit was made during a run

wiki == <<place, when, clock, moves>>
table_vars == <<known, last, table>>
run == <<running, request, results, current, newest, rows>>
vars == <<wiki, table_vars, run, errors, moved, raced>>

Versions == 0 .. MaxEdits
Tracked == {p \in Pages : place[p] # 0}
Rows == [id : Pages, body : Versions]

TypeOK ==
  /\ place \in [Pages -> 0 .. Requests]
  /\ when \in [Pages -> Versions]
  /\ clock \in Versions
  /\ moves \in 0 .. MaxMoves
  /\ known \subseteq Pages
  /\ last \in Versions
  /\ DOMAIN table \subseteq Pages
  /\ table \in [DOMAIN table -> Versions]
  /\ running \in BOOLEAN
  /\ request \in 1 .. Requests + 1
  /\ results \subseteq [id : Pages, when : Versions]
  /\ current \subseteq Pages
  /\ newest \in Versions
  /\ rows \subseteq Rows
  /\ errors \in 0 .. MaxErrors
  /\ moved \subseteq Pages
  /\ raced \subseteq Pages

Init ==
  /\ place \in [Pages -> 0 .. Requests]
  /\ when = [p \in Pages |-> 0]
  /\ clock = 0
  /\ moves = 0
  /\ known = {}
  /\ last = 0
  /\ table = <<>>
  /\ running = FALSE
  /\ request = 1
  /\ results = {}
  /\ current = {}
  /\ newest = 0
  /\ rows = {}
  /\ errors = 0
  /\ moved = {}
  /\ raced = {}

-----------------------------------------------------------------------------
(* The wiki.                                                               *)

Edit(p) ==
  /\ clock < MaxEdits
  /\ clock' = clock + 1
  /\ when' = [when EXCEPT ![p] = clock']
  /\ raced' = IF running THEN raced \cup {p} ELSE raced \ {p}
  /\ UNCHANGED <<place, moves, table_vars, run, errors, moved>>

\* A page comes to a tracked space, leaves it or changes to another; its
\* version stays.
Move(p) ==
  /\ moves < MaxMoves
  /\ moves' = moves + 1
  /\ \E k \in 0 .. Requests \ {place[p]} : place' = [place EXCEPT ![p] = k]
  /\ moved' = moved \cup {p}
  /\ UNCHANGED <<when, clock, table_vars, run, errors, raced>>

-----------------------------------------------------------------------------
(* The run.                                                                *)

\* The spaces are resolved; a blip resolves none, and nothing is listed.
Start ==
  /\ ~running
  /\ running' = TRUE
  /\ \/ request' = 1 /\ UNCHANGED errors
     \/ request' = Requests + 1 /\ errors < MaxErrors /\ errors' = errors + 1
  /\ newest' = last
  /\ current' = {}
  /\ rows' = {}
  /\ moved' = {}
  /\ UNCHANGED <<wiki, table_vars, results, raced>>

List ==
  /\ running
  /\ results = {}
  /\ request <= Requests
  /\ results' = {[id |-> p, when |-> when[p]] : p \in {q \in Pages : place[q] = request}}
  /\ request' = request + 1
  /\ UNCHANGED <<wiki, table_vars, running, current, newest, rows, errors, moved, raced>>

\* Mutant: trusts the timestamp alone.
UnchangedByTime(r) == r.when <= last

\* The skip rule.
Unchanged(r) == r.id \in known /\ r.when <= last

\* Mutant: a page counts as current only when it is fetched.
SkipUncounted(r) ==
  /\ Unchanged(r)
  /\ results' = results \ {r}
  /\ UNCHANGED <<wiki, table_vars, running, request, current, newest, rows, errors, moved, raced>>

Skip(r) ==
  /\ Unchanged(r)
  /\ results' = results \ {r}
  /\ current' = current \cup {r.id}
  /\ UNCHANGED <<wiki, table_vars, running, request, newest, rows, errors, moved, raced>>

\* Mutant: the cursor goes to the end of the time a version can have.
FetchNewest(r) ==
  /\ ~Unchanged(r)
  /\ results' = results \ {r}
  /\ current' = current \cup {r.id}
  /\ newest' = r.when + 1
  /\ rows' = rows \cup {[id |-> r.id, body |-> when[r.id]]}
  /\ UNCHANGED <<wiki, table_vars, running, request, errors, moved, raced>>

\* The body is the page's at the time of the fetch.
Fetch(r) ==
  /\ ~Unchanged(r)
  /\ results' = results \ {r}
  /\ current' = current \cup {r.id}
  /\ newest' = IF r.when > newest THEN r.when ELSE newest
  /\ rows' = rows \cup {[id |-> r.id, body |-> when[r.id]]}
  /\ UNCHANGED <<wiki, table_vars, running, request, errors, moved, raced>>

Gone == known \ current

\* The load: rows are merged (of several rows of one page any may win), the
\* pages that are gone are deleted.
Loads ==
  LET ids == (DOMAIN table \ Gone) \cup {r.id : r \in rows}
      Found(p) == {r.body : r \in {x \in rows : x.id = p}}
  IN  \E merged \in [ids -> Versions] :
        /\ \A p \in ids :
             IF Found(p) # {} THEN merged[p] \in Found(p) ELSE merged[p] = table[p]
        /\ table' = merged

\* Mutant: every sweep is believed.
CommitBelieving ==
  /\ running /\ results = {} /\ request > Requests
  /\ running' = FALSE
  /\ last' = newest
  /\ known' = current
  /\ Loads
  /\ UNCHANGED <<wiki, request, results, current, newest, rows, errors, moved, raced>>

\* Mutant: ids are only ever added.
CommitRemembering ==
  /\ running /\ results = {} /\ request > Requests
  /\ running' = FALSE
  /\ last' = newest
  /\ known' = known \cup current
  /\ Loads
  /\ UNCHANGED <<wiki, request, results, current, newest, rows, errors, moved, raced>>

\* Mutant: an empty sweep is taken for an empty corpus, but nothing deleted.
CommitResetting ==
  /\ running /\ results = {} /\ request > Requests
  /\ running' = FALSE
  /\ last' = newest
  /\ known' = current
  /\ IF current = {} THEN UNCHANGED table ELSE Loads
  /\ UNCHANGED <<wiki, request, results, current, newest, rows, errors, moved, raced>>

\* The run ends: its rows and its state are loaded together.  A sweep that
\* saw no page at all is not believed.
Commit ==
  /\ running
  /\ results = {}
  /\ request > Requests
  /\ running' = FALSE
  /\ last' = newest
  /\ IF known # {} /\ current = {}
       THEN UNCHANGED <<known, table>>
       ELSE known' = current /\ Loads
  /\ UNCHANGED <<wiki, request, results, current, newest, rows, errors, moved, raced>>

\* Mutant: the cursor of a failed run survives.
FailAdvancing ==
  /\ running
  /\ errors < MaxErrors
  /\ errors' = errors + 1
  /\ running' = FALSE
  /\ results' = {}
  /\ last' = newest
  /\ UNCHANGED <<wiki, known, table, request, current, newest, rows, moved, raced>>

\* A request fails: the exception ends the run, its rows and state are lost.
Fail ==
  /\ running
  /\ errors < MaxErrors
  /\ errors' = errors + 1
  /\ running' = FALSE
  /\ results' = {}
  /\ UNCHANGED <<wiki, table_vars, request, current, newest, rows, moved, raced>>

RunStep ==
  \/ Start \/ List \/ Commit
  \/ \E r \in results : Skip(r) \/ Fetch(r)

Next ==
  \/ \E p \in Pages : Edit(p) \/ Move(p)
  \/ RunStep
  \/ Fail

Spec == Init /\ [][Next]_vars

\* The sync is run again and again; nothing owes an edit, a move or an error.
FairSpec == Spec /\ WF_vars(RunStep)

-----------------------------------------------------------------------------
(* Properties.                                                             *)

\* The id set of the state and the table never part, whatever fails and
\* moves: a page known but not in the table would never be fetched again, one
\* in the table but not known never forgotten.
KnownIsIngested == known = DOMAIN table

\* An empty sweep does not empty the table: "skip deletion and preserve
\* state in that case".
NeverEmptied == [][table # <<>> => table' # <<>>]_vars

\* Only a page that has left its space, or moved while the run was listing,
\* is forgotten.
ForgottenHadMoved ==
  [][\A p \in DOMAIN table \ DOMAIN table' : place[p] = 0 \/ p \in moved]_vars

\* A stale body is behind the cursor only when the page was edited during a
\* run: an edit made between runs is found by the next.
StaleIsAhead ==
  \A p \in DOMAIN table : table[p] < when[p] => when[p] > last \/ p \in raced

\* Once the wiki rests and has a page, the table holds the pages of the
\* tracked spaces and no other.
PagesArrive == <>[](Tracked # {} => DOMAIN table = Tracked)

\* "Skip only pages we have already ingested and that have not changed": a
\* page is skipped only if the table has the version the listing shows.
SkipsAreIngested ==
  [][\A r \in results : Skip(r) => r.id \in DOMAIN table /\ table[r.id] >= r.when]_vars
=============================================================================
