------------------------------ MODULE Sources ------------------------------
(* The connectors that read a collection from outside, one of them for a    *)
(* whole behaviour, and what the table they load owes the collection.       *)
EXTENDS Source

----------------------------------------------------------------------------
(* Google Drive: a listing of the folder at first, then the changes since   *)
(* the page token of the state.                                             *)

DriveStart ==
    /\ ~Running
    /\ Goto(IF cursor = None
            THEN [Idle EXCEPT !.mode = "scope", !.token = Len(feed)]
            ELSE [Idle EXCEPT !.mode = "changes", !.token = cursor, !.read = cursor])

\* A file both changed and removed within the window counts as removed,
\* whichever came last.
ListChangedFileIds ==
    /\ run.mode = "changes"
    /\ LET end == IF run.read + PageSize < Len(feed) THEN run.read + PageSize ELSE Len(feed)
           page == {feed[n] : n \in run.read + 1 .. end}
           changed == run.changed \cup {x.id : x \in {y \in page : ~y.removed}}
           deleted == run.deleted \cup {x.id : x \in {y \in page : y.removed}}
       IN  Goto(IF end < Len(feed)
                THEN [run EXCEPT !.read = end, !.changed = changed, !.deleted = deleted]
                ELSE [run EXCEPT !.token = end, !.read = end,
                                 !.changed = changed \ deleted, !.deleted = deleted,
                                 !.skipped = @ \cup (changed \cap deleted),
                                 !.mode = IF changed \subseteq deleted THEN "look" ELSE "scope"])

GetScopeFolderIds ==
    /\ run.mode = "scope"
    /\ LET scope == {"first"} \cup (IF attached THEN {"second"} ELSE {})
       IN  Goto([run EXCEPT !.mode = "look", !.scope = scope,
                            !.todo = IF cursor = None THEN scope ELSE run.changed])

ListFilesInFolder ==
    /\ run.mode = "look" /\ cursor = None /\ run.listed = {}
    /\ \E k \in run.todo :
         Goto([run EXCEPT !.todo = @ \ {k}, !.listed = {i \in Items : place[i] = k}])

\* Mutant: every file of the Drive is in scope.
LookUpAnywhere ==
    /\ run.mode = "look" /\ cursor # None /\ run.listed = {}
    /\ \E i \in run.todo :
         Goto(IF i = Folder THEN [run EXCEPT !.todo = @ \ {i}]
              ELSE IF ~Live(i) THEN [run EXCEPT !.todo = @ \ {i}, !.deleted = @ \cup {i}]
              ELSE [run EXCEPT !.todo = @ \ {i}, !.listed = {i}])

\* The metadata of a changed file: tombstones for a file that is not found, in
\* the trash or out of the scope as it was read, even if its folder has come into
\* scope since.  A folder has no row.
LookUp ==
    /\ run.mode = "look" /\ cursor # None /\ run.listed = {}
    /\ \E i \in run.todo :
         Goto(IF i = Folder THEN [run EXCEPT !.todo = @ \ {i}]
              ELSE IF place[i] \notin run.scope
              THEN [run EXCEPT !.todo = @ \ {i}, !.deleted = @ \cup {i},
                               !.skipped = IF InScope(i) THEN @ \cup {i} ELSE @]
              ELSE [run EXCEPT !.todo = @ \ {i}, !.listed = {i}])

\* What fails in the download of a file is caught, and the file skipped.
FileToRow ==
    \E i \in run.listed :
        \/ place[i] # "gone" /\ Yields({i})
        \/ place[i] = "gone" /\ Goto(WithoutItems({i}))

ExtractionFails == \E i \in run.listed : Fault(WithoutItems({i}))

Known == IF cursor = None THEN Items ELSE run.changed \cup run.deleted

\* Mutant: the token is that of the end of the run.
DriveLoadLate == AllRead /\ Loads(DOMAIN table \ run.deleted, Len(feed), Known)

\* merge, with _deleted as hard delete
DriveLoad == AllRead /\ Loads(DOMAIN table \ run.deleted, run.token, Known)

\* Mutant: every failure of a look-up is taken for a missing file.
DriveFailsAsMissing ==
    \/ Raises
    \/ run.mode = "look" /\ cursor # None /\ run.listed = {}
       /\ \E i \in run.todo : Fault([run EXCEPT !.todo = @ \ {i}, !.deleted = @ \cup {i}])

DriveFails == Raises \/ ExtractionFails

DriveNext ==
    \/ DriveStart \/ ListChangedFileIds \/ GetScopeFolderIds \/ ListFilesInFolder
    \/ LookUp \/ FileToRow \/ DriveLoad

----------------------------------------------------------------------------
(* Notion: a snapshot of the pages it is shown, or of those with given ids, *)
(* replaces the table.                                                      *)

\* scope: the requests of a listing; {}: page_ids were given.
NotionStart ==
    /\ ~Running
    /\ \E scope \in {{}, Containers} :
         Goto([Idle EXCEPT !.mode = "look", !.token = Len(feed), !.scope = scope,
                           !.todo = IF scope = {} THEN Items ELSE scope])

\* search, or databases.query, one response after the other
Paginate ==
    /\ run.mode = "look" /\ run.scope # {} /\ run.listed = {}
    /\ \E k \in run.todo :
         /\ k = "second" => "first" \notin run.todo
         /\ Goto([run EXCEPT !.todo = @ \ {k}, !.listed = {i \in Items : place[i] = k}])

\* In the order of page_ids.  A page that is not found, not shared (403, 404) or
\* archived has no row.
RetrievePage ==
    /\ run.mode = "look" /\ run.scope = {} /\ run.listed = {}
    /\ LET i == CHOOSE x \in run.todo : TRUE
       IN  /\ run.todo # {}
           /\ Goto([run EXCEPT !.todo = @ \ {i}, !.listed = IF InScope(i) THEN {i} ELSE {}])

\* The blocks of a page that has gone since raise.
PageToRow ==
    \E i \in run.listed :
        IF place[i] \in {"away", "gone"} THEN Goto(Idle) ELSE Yields({i})

NotionLoad == AllRead /\ Loads({}, run.token, Items)

\* Of five tries
NotionFails == Raises

NotionNext == NotionStart \/ Paginate \/ RetrievePage \/ PageToRow \/ NotionLoad

----------------------------------------------------------------------------
(* Slack: the messages of an export, read from its files, replace the      *)
(* table.                                                                   *)

SlackStart ==
    /\ ~Running
    /\ Goto([Idle EXCEPT !.mode = "look", !.token = Len(feed), !.todo = Containers])

MessagesOf(k) == {i \in Items : place[i] = k}

\* One file of the channels in channels.json, and its messages.
ReadMessageFile ==
    /\ run.mode = "look"
    /\ \E k \in run.todo :
         Goto([run EXCEPT !.todo = @ \ {k},
                          !.rows = @ \cup {[id |-> i, body |-> rev[i]] : i \in MessagesOf(k)}])

\* A file that is no JSON, or cannot be read, is skipped.
UnreadableFile ==
    /\ run.mode = "look"
    /\ \E k \in run.todo : Fault([WithoutItems(MessagesOf(k)) EXCEPT !.todo = @ \ {k}])

SlackLoad == AllRead /\ Loads({}, run.token, Items)

\* No directory, or no channels.json
SlackFails == Raises \/ UnreadableFile

SlackNext == SlackStart \/ ReadMessageFile \/ SlackLoad

----------------------------------------------------------------------------
(* All connectors.                                                          *)

Step ==
    \/ connector = "drive" /\ DriveNext
    \/ connector = "notion" /\ NotionNext
    \/ connector = "slack" /\ SlackNext

Fails ==
    \/ connector = "drive" /\ DriveFails
    \/ connector = "notion" /\ NotionFails
    \/ connector = "slack" /\ SlackFails

Next == Changes \/ Step \/ Fails

Spec == Init /\ [][Next]_vars

\* The connector is run again and again; nothing owes a change or an error.
FairSpec == Spec /\ WF_vars(Step)

----------------------------------------------------------------------------
(* Properties.                                                              *)

ChangedAfter(n, i) == \E x \in n + 1 .. Len(feed) : feed[x].id = i

\* What a loaded run has seen the last change of is as the table says: an item
\* in scope is there with its content, any other is not.  Out of this fall the
\* items a run leaves out without telling: a file whose text it could not
\* extract, one trashed and restored within a window of changes, those in a
\* folder that moved, the messages of an unreadable file, a page that slipped
\* between two responses.
SyncedUpToCursor ==
    cursor # None /\ ~Running =>
        \A i \in Items \ excused : ~ChangedAfter(cursor, i) =>
            /\ InScope(i) <=> i \in DOMAIN table
            /\ InScope(i) => table[i] = rev[i]

WasOut(i) ==
    \/ ~InScope(i)
    \/ \E n \in cursor + 1 .. Len(feed) : i \in feed[n].out

\* An item leaves the table only when it has been out of scope since the last
\* run that was loaded began, or is one of those left out: no failed request,
\* and no run that ends half-way, makes the table forget an item that is there.
ForgottenWasOut ==
    [][\A i \in DOMAIN table \ DOMAIN table' : WasOut(i) \/ i \in excused']_vars

\* What is in the trash or deleted leaves the table for good, whenever it went:
\* between the token and the listing, between two responses, after its row
\* was yielded.
GoneAreForgotten ==
    \A i \in Items : <>[](~Live(i) => i \notin DOMAIN table)
=============================================================================
