------------------------------- MODULE Source -------------------------------
(***************************************************************************)
(* What the models of the Google Drive, Notion and Slack connectors share: *)
(* a remote collection that changes while a run of the connector reads it, *)
(* and the table dlt keeps of it.  A run yields rows; dlt loads them with   *)
(* the resource state when the run ends, and loses both when it raises.    *)
(***************************************************************************)
EXTENDS Naturals, Sequences

CONSTANTS
    Items,       \* ids of files, pages or messages
    Folder,      \* the id of the one subfolder of the synced Drive folder
    None,        \* no page token
    PageSize,    \* changes in one response of the Drive
    Nested,      \* the items that are in the second container at first
    MaxDriveChanges,  \* bound: changes of a Drive
    MaxChanges,       \* bound: changes of the pages, or of the messages
    MaxErrors         \* bound: requests or files that fail

ASSUME SourceAssumption ==
    /\ Folder \notin Items /\ None \notin Nat
    /\ Nested \subseteq Items
    /\ PageSize \in Nat \ {0}
    /\ {MaxDriveChanges, MaxChanges, MaxErrors} \subseteq Nat

VARIABLES
    connector,  \* "drive", "notion" or "slack", one for a whole behaviour
    place,      \* [Items -> where the item is]
    attached,   \* whether Folder is in the synced folder
    rev,        \* [Items -> the change that made the item's content]
    feed,       \* the changes, oldest first
    cursor,     \* Drive: page_token.  Otherwise history: the length of feed when
                \* the last run that was loaded began
    table,      \* [ids -> the content loaded for them]
    run,        \* the run under way
    errors,
    excused     \* history: items the last run that dealt with them left out

remote == <<place, attached, rev, feed>>
vars == <<connector, remote, cursor, table, run, errors, excused>>

\* The synced folder and its subfolder; the two requests that list the pages;
\* two files of messages.
Containers == {"first", "second"}

\* "away": elsewhere in the Drive, not shared with the integration, or of a
\* channel that channels.json lacks.
Places == Containers \cup {"away", "trash", "gone"}

InScope(i) == place[i] = "first" \/ (place[i] = "second" /\ attached)

Idle == [mode |-> "idle", token |-> 0, read |-> 0, changed |-> {}, deleted |-> {},
         scope |-> {}, todo |-> {}, listed |-> {}, rows |-> {}, skipped |-> {}]

Running == run.mode # "idle"

Init ==
    /\ connector \in {"drive", "notion", "slack"}
    /\ place \in {p \in [Items -> Containers \cup {"away"}] :
                    \A i \in Items : p[i] = "second" <=> i \in Nested}
    /\ attached = TRUE
    /\ rev = [i \in Items |-> 0]
    /\ feed = <<>>
    /\ cursor = None
    /\ table = <<>>
    /\ run = Idle
    /\ errors = 0
    /\ excused = {}

----------------------------------------------------------------------------
(* The collection.  External.  A change of the feed says what changed,      *)
(* whether it was removed or trashed, and (for the properties) what was out  *)
(* of scope after it.                                                       *)

Record(id, removed) ==
    /\ Len(feed) < IF connector = "drive" THEN MaxDriveChanges ELSE MaxChanges
    /\ feed' = Append(feed, [id |-> id, removed |-> removed, out |-> {i \in Items : ~InScope(i)'}])
    /\ UNCHANGED <<connector, cursor, table, errors>>

Live(i) == place[i] \notin {"trash", "gone"}

Edit(i) ==
    /\ Live(i)
    /\ rev' = [rev EXCEPT ![i] = Len(feed) + 1]
    /\ UNCHANGED <<place, attached>>
    /\ Record(i, FALSE) /\ UNCHANGED <<run, excused>>

Goes(i, to, removed) ==
    /\ place' = [place EXCEPT ![i] = to]
    /\ UNCHANGED <<rev, attached>>
    /\ Record(i, removed) /\ UNCHANGED <<run, excused>>

Delete(i) == place[i] # "gone" /\ Goes(i, "gone", TRUE)

\* Into the scope, out of it or, in a Drive, within it.
Move(i) ==
    /\ connector # "slack" /\ Live(i)
    /\ \E to \in (Containers \cup {"away"}) \ {place[i]} :
         /\ connector = "notion" => "away" \in {to, place[i]}
         /\ Goes(i, to, FALSE)

Trash(i) == connector # "slack" /\ Live(i) /\ Goes(i, "trash", TRUE)

Restore(i) == place[i] = "trash" /\ \E to \in Containers \cup {"away"} : Goes(i, to, FALSE)

\* The files of a folder that is moved into the synced folder or out of it have
\* no change of their own.
MoveFolder ==
    LET inside == {i \in Items : place[i] = "second"}
    IN  /\ connector = "drive"
        /\ attached' = ~attached
        /\ UNCHANGED <<place, rev>>
        /\ Record(Folder, FALSE)
        /\ excused' = excused \cup inside
        /\ run' = IF Running THEN [run EXCEPT !.skipped = @ \cup inside] ELSE run

\* Between the two responses of a listing, edits of other pages move a page to
\* the other one.
Shift(i) ==
    /\ connector = "notion" /\ place[i] \in Containers
    /\ run.todo = {"second"} /\ run.listed = {}
    /\ \E to \in Containers \ {place[i]} : place' = [place EXCEPT ![i] = to]
    /\ run' = [run EXCEPT !.skipped = @ \cup {i}]
    /\ UNCHANGED <<connector, attached, rev, feed, cursor, table, errors, excused>>

Changes ==
    \/ \E i \in Items : Edit(i) \/ Delete(i) \/ Move(i) \/ Trash(i) \/ Restore(i) \/ Shift(i)
    \/ MoveFolder

----------------------------------------------------------------------------
(* The run.                                                                 *)

Goto(next) == run' = next /\ UNCHANGED <<connector, remote, cursor, table, errors, excused>>

\* A row is yielded for each item; its content is what it is when it is read.
Yields(items) ==
    Goto([run EXCEPT !.listed = @ \ items,
                     !.rows = @ \cup {[id |-> i, body |-> rev[i]] : i \in items}])

\* What cannot be read is left out, and the run goes on.
WithoutItems(items) == [run EXCEPT !.listed = @ \ items, !.skipped = @ \cup items]

Fault(next) ==
    /\ errors < MaxErrors
    /\ errors' = errors + 1
    /\ run' = next
    /\ UNCHANGED <<connector, remote, cursor, table, excused>>

\* An exception ends the run.
Raises == Running /\ Fault(Idle)

AllRead == run.mode = "look" /\ run.todo = {} /\ run.listed = {}

\* dlt loads the rows beside the ids that are kept, and the state.  Of several
\* rows of one id any may win.  The run has dealt with the known items.
Loads(kept, token, known) ==
    LET ids == kept \cup {r.id : r \in run.rows}
        found(i) == {r.body : r \in {x \in run.rows : x.id = i}}
    IN  /\ \E merged \in [ids -> 0 .. Len(feed)] :
             /\ \A i \in ids : IF found(i) # {} THEN merged[i] \in found(i) ELSE merged[i] = table[i]
             /\ table' = merged
        /\ cursor' = token
        /\ excused' = (excused \ known) \cup run.skipped
        /\ run' = Idle
        /\ UNCHANGED <<connector, remote, errors>>
=============================================================================
