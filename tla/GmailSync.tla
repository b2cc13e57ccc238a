------------------------------ MODULE GmailSync ------------------------------
(***************************************************************************)
(* The incremental sync of a mailbox into a table: full_backfill and       *)
(* incremental_fetch of the Gmail connector, with the mailbox, its history *)
(* and the dlt pipeline that commits rows and cursor together.             *)
(*                                                                         *)
(* The mailbox changes while a run reads it, every change appends a record *)
(* to its history, and old records expire.  A history id is a position in  *)
(* the history.                                                            *)
(***************************************************************************)
EXTENDS Integers, Sequences, FiniteSets, FiniteSetsExt

CONSTANTS
  Messages,    \* message ids
  PageSize,    \* ids or history records in one response
  MaxChanges,  \* bound: changes of the mailbox
  MaxExpiries, \* bound: expiries of its history
  MaxErrors,   \* bound: failed runs and failed readings of the profile
  None         \* no cursor

ASSUME BoundsAreNat ==
  /\ PageSize \in Nat \ {0}
  /\ {MaxChanges, MaxExpiries, MaxErrors} \subseteq Nat
ASSUME NoneIsNone == None \notin Nat

VARIABLES
  mail,      \* each message: none (not yet there), in or out of scope, gone
  history,   \* the records of the changes
  oldest,    \* records up to this id have expired
  expiries,
  cursor, table,  \* last_history_id; the destination's messages
  mode,      \* idle, backfill, history (reading it), fetch (its messages)
  baseline,  \* the cursor of a run that succeeds
  unlisted,  \* backfill: messages the listing has not come to
  read,      \* the last history id read
  added, deleted,  \* seen_added, or the ids listed, to fetch; seen_deleted
  rows,      \* the messages yielded
  errors,
  rebased    \* history: the baseline of the last backfill that was committed

mailbox == <<mail, history, oldest, expiries>>
dest == <<cursor, table>>
run == <<mode, baseline, unlisted, read, added, deleted, rows>>
vars == <<mailbox, dest, run, errors, rebased>>

Ids == 0 .. MaxChanges
Cursors == Ids \cup {None}
Records == [id : Messages, kind : {"messagesDeleted", "changed"}]

TypeOK ==
  /\ mail \in [Messages -> {"none", "in", "out", "gone"}]
  /\ history \in Seq(Records) /\ Len(history) \in Ids
  /\ oldest \in 0 .. Len(history)
  /\ expiries \in 0 .. MaxExpiries
  /\ cursor \in Cursors
  /\ table \subseteq Messages
  /\ mode \in {"idle", "backfill", "history", "fetch"}
  /\ baseline \in Cursors
  /\ unlisted \subseteq Messages
  /\ read \in Ids
  /\ added \subseteq Messages
  /\ deleted \subseteq Messages
  /\ rows \subseteq Messages \ deleted
  /\ errors \in 0 .. MaxErrors
  /\ rebased \in Ids

Init ==
  /\ mail \in [Messages -> {"none", "in", "out"}]
  /\ history = <<>>
  /\ oldest = 0
  /\ expiries = 0
  /\ cursor = None
  /\ table = {}
  /\ mode = "idle"
  /\ baseline = None
  /\ unlisted = {}
  /\ read = 0
  /\ added = {}
  /\ deleted = {}
  /\ rows = {}
  /\ errors = 0
  /\ rebased = 0

-----------------------------------------------------------------------------
(* The mailbox.                                                            *)

Changes(m, to, kind) ==
  /\ Len(history) < MaxChanges
  /\ mail' = [mail EXCEPT ![m] = to]
  /\ history' = Append(history, [id |-> m, kind |-> kind])
  /\ UNCHANGED <<oldest, expiries, dest, run, errors, rebased>>

\* A message arrives, or its labels change and it may leave the scope (a
\* message put in the trash does) or return.
Label(m) ==
  /\ mail[m] # "gone"
  /\ \E to \in {"in", "out"} : Changes(m, to, "changed")

Delete(m) ==
  /\ mail[m] \in {"in", "out"}
  /\ Changes(m, "gone", "messagesDeleted")

Expire ==
  /\ expiries < MaxExpiries
  /\ expiries' = expiries + 1
  /\ oldest' \in oldest + 1 .. Len(history)
  /\ UNCHANGED <<mail, history, dest, run, errors, rebased>>

-----------------------------------------------------------------------------
(* The run.                                                                *)

\* Mutant: the id the next change will get.
HistoryIdNext == Len(history) + 1

\* The mailbox's history id.
HistoryId == Len(history)

\* The mailbox's history id is read first; a failure to leaves no baseline.
Backfills ==
  /\ mode' = "backfill"
  /\ \/ baseline' = HistoryId /\ UNCHANGED errors
     \/ baseline' = None /\ errors < MaxErrors /\ errors' = errors + 1
  /\ unlisted' = Messages
  /\ added' = {}
  /\ deleted' = {}
  /\ rows' = {}
  /\ read' = 0

\* The run is over, and its locals are.
Ends ==
  /\ mode' = "idle"
  /\ baseline' = None
  /\ unlisted' = {}
  /\ read' = 0
  /\ added' = {}
  /\ deleted' = {}
  /\ rows' = {}

Start ==
  /\ mode = "idle"
  /\ \/ cursor = None /\ Backfills
     \/ /\ cursor # None
        /\ mode' = "history"
        /\ baseline' = cursor
        /\ read' = cursor
        /\ UNCHANGED <<unlisted, added, deleted, rows, errors>>
  /\ UNCHANGED <<mailbox, dest, rebased>>

ListIds ==
  /\ mode = "backfill"
  /\ added = {}
  /\ unlisted # {}
  /\ \E page \in SUBSET unlisted :
       /\ page # {} /\ Cardinality(page) <= PageSize
       /\ added' = {m \in page : mail[m] = "in"}
       /\ unlisted' = unlisted \ page
  /\ UNCHANGED <<mailbox, dest, mode, baseline, read, deleted, rows, errors, rebased>>

\* Mutant: an expired cursor is an error like any other.
CursorExpiredRaises ==
  /\ mode = "history"
  /\ cursor < oldest
  /\ Ends
  /\ UNCHANGED <<mailbox, dest, errors, rebased>>

\* The history from the cursor on is no longer whole: 404.
CursorExpired ==
  /\ mode = "history"
  /\ cursor < oldest
  /\ Backfills
  /\ UNCHANGED <<mailbox, dest, rebased>>

RecordsOf(kind, from, to) ==
  {history[i].id : i \in {j \in from + 1 .. to : history[j].kind = kind}}

\* One response of history.list: records after those read, and the newest
\* history id.
ReadHistory ==
  LET to == Min({read + PageSize, Len(history)})
  IN  /\ mode = "history"
      /\ cursor >= oldest
      /\ read' = to
      /\ deleted' = deleted \cup RecordsOf("messagesDeleted", read, to)
      /\ baseline' = HistoryId
      /\ LET seen == added \cup RecordsOf("changed", read, to)
         IN  IF to = Len(history)
               THEN mode' = "fetch" /\ added' = seen \ deleted'
               ELSE mode' = mode /\ added' = seen
      /\ UNCHANGED <<mailbox, dest, unlisted, rows, errors, rebased>>

\* Mutant: whatever is there is live.
InScopeAlways(m) == mail[m] # "gone"

\* The scope of messages.list, applied again to a message's labels.
InScope(m) == mail[m] = "in"

\* A backfill passes over a message that is gone, and does not look at the
\* labels of one that is not; an incremental fetch forgets what is gone or
\* out of scope.
Fetch(m) ==
  /\ mode \in {"backfill", "fetch"}
  /\ m \in added
  /\ added' = added \ {m}
  /\ IF mode = "backfill"
       THEN /\ rows' = rows \cup ({m} \ {x \in Messages : mail[x] = "gone"})
            /\ UNCHANGED deleted
       ELSE IF InScope(m)
              THEN rows' = rows \cup {m} /\ UNCHANGED deleted
              ELSE deleted' = deleted \cup {m} /\ UNCHANGED rows
  /\ UNCHANGED <<mailbox, dest, mode, baseline, unlisted, read, errors, rebased>>

Done == added = {} /\ (mode = "fetch" \/ (mode = "backfill" /\ unlisted = {}))

\* Mutant: the baseline is read when all is fetched.
CommitLate ==
  /\ Done
  /\ Ends
  /\ table' = (table \cup rows) \ deleted
  /\ cursor' = IF baseline = None THEN None ELSE Len(history)
  /\ UNCHANGED <<mailbox, errors, rebased>>

\* Rows, tombstones and cursor are loaded together.
Commit ==
  /\ Done
  /\ Ends
  /\ table' = (table \cup rows) \ deleted
  /\ cursor' = baseline
  /\ rebased' = IF mode = "backfill" /\ baseline # None THEN baseline ELSE rebased
  /\ UNCHANGED <<mailbox, errors>>

\* Any other error ends the run, and its rows and state are lost.
Fail ==
  /\ mode # "idle"
  /\ errors < MaxErrors
  /\ errors' = errors + 1
  /\ Ends
  /\ UNCHANGED <<mailbox, dest, rebased>>

RunStep ==
  \/ Start \/ ListIds \/ CursorExpired \/ ReadHistory \/ Commit
  \/ \E m \in added : Fetch(m)

Next ==
  \/ \E m \in Messages : Label(m) \/ Delete(m)
  \/ Expire
  \/ RunStep
  \/ Fail

Spec == Init /\ [][Next]_vars

\* The sync is run again and again; the mailbox owes nothing.
FairSpec == Spec /\ WF_vars(RunStep)

-----------------------------------------------------------------------------
(* Properties.                                                             *)

\* A record after id from is about m.
Told(m, from) == \E i \in from + 1 .. Len(history) : history[i].id = m

\* The next run will hear of m.
Pending(m) == cursor = None \/ Told(m, cursor)

\* "So no change is missed": a message in scope is in the table or the next
\* run hears of it, also when the cursor has expired.
LiveAreCovered ==
  \A m \in Messages : mail[m] = "in" => m \in table \/ Pending(m)

\* A message gone or out of scope is forgotten or the next run hears of it,
\* unless a backfill passed over the record that says so.
ForgottenByHistory ==
  \A m \in table : mail[m] # "in" =>
    \/ Pending(m)
    \/ \E i \in 1 .. rebased : history[i].id = m

\* "A full backfill reconciles the same way."
BackfillReconciles ==
  \A m \in table : mail[m] # "in" => Pending(m)

\* Once the mailbox rests, the table comes to hold all that is in scope.
MailArrives == <>[](\A m \in Messages : mail[m] = "in" => m \in table)
=============================================================================
