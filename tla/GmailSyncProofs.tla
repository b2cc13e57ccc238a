--------------------------- MODULE GmailSyncProofs ---------------------------
(***************************************************************************)
(* Theorems about GmailSync, for any messages, page size and bounds.       *)
(***************************************************************************)
EXTENDS GmailSync, TLAPS

-----------------------------------------------------------------------------
(* The inductive invariant: what a run has in hand and what the history    *)
(* tells after its baseline add up to the mailbox.                         *)

\* Ids already given are behind the history's end.
IdsArePast ==
  /\ cursor = None \/ cursor <= Len(history)
  /\ baseline = None \/ baseline <= Len(history)
  /\ read <= Len(history)
  /\ rebased <= Len(history)

\* A message that is deleted stays so.
DeletedIsGone ==
  \A i \in 1 .. Len(history) :
    history[i].kind = "messagesDeleted" => mail[history[i].id] = "gone"

\* The table never held a message that is not in scope now without a record.
TableTells == \A m \in table : mail[m] # "in" => Told(m, 0)

\* A run starts with nothing in hand and reads the history from the cursor on.
ReadsFromCursor ==
  /\ mode = "idle" => added = {} /\ deleted = {} /\ rows = {}
  /\ mode \in {"history", "fetch"} => cursor # None /\ cursor <= read /\ baseline # None
  /\ mode = "fetch" => read = baseline
  /\ mode = "history" => rows = {}

BackfillCovers ==
  mode = "backfill" =>
    /\ deleted = {}
    /\ \A m \in added \cup rows : mail[m] # "in" => Told(m, 0)
    /\ baseline # None =>
         /\ \A m \in Messages \ (unlisted \cup added \cup rows) :
              mail[m] = "in" => Told(m, baseline)
         /\ \A m \in added \cup rows : mail[m] # "in" => Told(m, baseline)

HistoryCovers ==
  mode = "history" =>
    /\ \A m \in deleted : mail[m] = "gone"
    /\ \A m \in Messages : mail[m] = "in" => m \in table \cup added \/ Told(m, read)
    /\ \A i \in cursor + 1 .. read : history[i].id \in added \cup deleted

FetchCovers ==
  mode = "fetch" =>
    /\ added \cap (deleted \cup rows) = {}
    /\ \A m \in Messages : mail[m] = "in" =>
         m \in added \/ m \in (table \cup rows) \ deleted \/ Told(m, baseline)
    /\ \A i \in cursor + 1 .. read : history[i].id \in added \cup deleted \cup rows
    /\ \A m \in rows : mail[m] # "in" => Told(m, baseline)

IInv ==
  /\ TypeOK
  /\ LiveAreCovered
  /\ ForgottenByHistory
  /\ IdsArePast
  /\ DeletedIsGone
  /\ TableTells
  /\ ReadsFromCursor
  /\ BackfillCovers
  /\ HistoryCovers
  /\ FetchCovers

-----------------------------------------------------------------------------
(* The lemmas: the invariant holds at first, and each action keeps it.     *)

\* The bounds, one by one.
LEMMA Bounds ==
  PageSize \in Nat \ {0} /\ MaxChanges \in Nat /\ MaxExpiries \in Nat /\ MaxErrors \in Nat
  BY BoundsAreNat

USE Bounds, NoneIsNone
    DEF mailbox, dest, run, Ids, Cursors, IdsArePast, ReadsFromCursor

\* The history is a sequence of records; its length is a number.
LEMMA HistoryType ==
  ASSUME TypeOK
  PROVE  /\ Len(history) \in Nat
         /\ \A i \in 1 .. Len(history) :
              history[i].id \in Messages /\ history[i].kind \in {"messagesDeleted", "changed"}
<1>1. history \in Seq(Records)
  BY DEF TypeOK
<1>2. Len(history) \in Nat /\ \A i \in 1 .. Len(history) : history[i] \in Records
  BY <1>1
<1> QED BY <1>2 DEF Records

\* At first nothing is told and nothing is in the table.
LEMMA InitIInv == Init => IInv
<1> SUFFICES ASSUME Init PROVE IInv
  OBVIOUS
<1>1. history = <<>> /\ Len(history) = 0 /\ history \in Seq(Records)
  BY DEF Init
<1>2. mail \in [Messages -> {"none", "in", "out", "gone"}]
  BY DEF Init
<1>3. TypeOK
  BY <1>1, <1>2 DEF Init, TypeOK
<1>4. LiveAreCovered /\ ForgottenByHistory /\ TableTells
  BY DEF Init, LiveAreCovered, ForgottenByHistory, TableTells, Pending
<1> QED BY <1>1, <1>3, <1>4
    DEF Init, IInv, DeletedIsGone, BackfillCovers, HistoryCovers, FetchCovers

\* A change is told after every id given so far, and nothing is untold.
LEMMA ChangeTells ==
  ASSUME IInv, NEW m \in Messages, NEW to, NEW kind, Changes(m, to, kind),
         to \in {"in", "out", "gone"}, kind \in {"messagesDeleted", "changed"}
  PROVE  /\ history' \in Seq(Records)
         /\ Len(history') = Len(history) + 1
         /\ \A i \in 1 .. Len(history) : history'[i] = history[i]
         /\ history'[Len(history) + 1] = [id |-> m, kind |-> kind]
         /\ \A x \in Messages, from \in Nat : Told(x, from) => Told(x, from)'
         /\ \A from \in 0 .. Len(history) : Told(m, from)'
         /\ mail' \in [Messages -> {"none", "in", "out", "gone"}]
         /\ \A x \in Messages \ {m} : mail'[x] = mail[x]
<1>1. history \in Seq(Records) /\ [id |-> m, kind |-> kind] \in Records
  BY DEF IInv, TypeOK, Records
<1>2. /\ history' \in Seq(Records)
      /\ Len(history') = Len(history) + 1
      /\ \A i \in 1 .. Len(history) : history'[i] = history[i]
      /\ history'[Len(history) + 1] = [id |-> m, kind |-> kind]
  BY <1>1 DEF Changes
<1>3. \A x \in Messages, from \in Nat : Told(x, from) => Told(x, from)'
  BY <1>1, <1>2 DEF Told
<1>4. \A from \in 0 .. Len(history) : Told(m, from)'
  BY <1>1, <1>2 DEF Told
<1>5. /\ mail' \in [Messages -> {"none", "in", "out", "gone"}]
      /\ \A x \in Messages \ {m} : mail'[x] = mail[x]
  BY DEF Changes, IInv, TypeOK
<1> QED BY <1>2, <1>3, <1>4, <1>5

\* What was told is told, and what the message that changes owes is told now.
LEMMA ChangeKeepsIInv ==
  ASSUME IInv, NEW m \in Messages, NEW to, NEW kind, Changes(m, to, kind),
         mail[m] # "gone", to \in {"in", "out", "gone"},
         kind \in {"messagesDeleted", "changed"},
         kind = "messagesDeleted" => to = "gone"
  PROVE  IInv'
<1>1. /\ history' \in Seq(Records)
      /\ Len(history') = Len(history) + 1
      /\ \A i \in 1 .. Len(history) : history'[i] = history[i]
      /\ history'[Len(history) + 1] = [id |-> m, kind |-> kind]
  BY ChangeTells
<1>2. /\ \A x \in Messages, from \in Nat : Told(x, from) => Told(x, from)'
      /\ \A from \in 0 .. Len(history) : Told(m, from)'
  BY ChangeTells
<1>3. /\ mail' \in [Messages -> {"none", "in", "out", "gone"}]
      /\ \A x \in Messages \ {m} : mail'[x] = mail[x]
      /\ mail'[m] = to
  BY ChangeTells DEF Changes, IInv, TypeOK
<1>4. /\ Len(history) \in Nat /\ Len(history) < MaxChanges
      /\ \A i \in 1 .. Len(history) :
           history[i].id \in Messages /\ history[i].kind \in {"messagesDeleted", "changed"}
  BY HistoryType DEF IInv, Changes
<1>5. UNCHANGED <<oldest, expiries, cursor, table, mode, baseline, unlisted, read, added,
                  deleted, rows, errors, rebased>>
  BY DEF Changes
<1>6. /\ table \subseteq Messages /\ rows \subseteq Messages /\ added \subseteq Messages
      /\ deleted \subseteq Messages
      /\ read \in 0 .. Len(history)
      /\ cursor # None => cursor \in 0 .. Len(history)
      /\ baseline # None => baseline \in 0 .. Len(history)
      /\ rebased \in 0 .. Len(history)
  BY <1>4 DEF IInv, TypeOK
<1>7. TypeOK'
  BY <1>1, <1>3, <1>4, <1>5 DEF IInv, TypeOK
<1>8. IdsArePast' /\ ReadsFromCursor'
  BY <1>1, <1>4, <1>5, <1>6 DEF IInv
<1>9. DeletedIsGone'
  <2>1. SUFFICES ASSUME NEW i \in 1 .. Len(history'), history'[i].kind = "messagesDeleted"
                 PROVE  mail'[history'[i].id] = "gone"
    BY DEF DeletedIsGone
  <2>2. CASE i = Len(history) + 1
    BY <1>1, <1>3, <2>1, <2>2
  <2>3. CASE i \in 1 .. Len(history)
    <3>1. mail[history[i].id] = "gone"
      BY <1>1, <2>1, <2>3 DEF IInv, DeletedIsGone
    <3> QED BY <1>1, <1>3, <1>4, <2>3, <3>1
  <2> QED BY <1>1, <1>4, <2>2, <2>3
<1>10. LiveAreCovered'
  BY <1>2, <1>3, <1>5, <1>6 DEF IInv, LiveAreCovered, Pending
<1>11. ForgottenByHistory'
  <2>1. SUFFICES ASSUME NEW x \in table, mail'[x] # "in", ~ Pending(x)'
                 PROVE  \E i \in 1 .. rebased : history'[i].id = x
    BY <1>5 DEF ForgottenByHistory
  <2>2. x # m /\ x \in Messages
    BY <1>2, <1>5, <1>6, <2>1 DEF Pending
  <2>3. mail[x] # "in" /\ ~ Pending(x)
    BY <1>2, <1>3, <1>5, <1>6, <2>1, <2>2 DEF Pending
  <2>4. PICK i \in 1 .. rebased : history[i].id = x
    BY <2>3 DEF IInv, ForgottenByHistory
  <2>5. history'[i] = history[i]
    BY <1>1, <1>4, <1>6
  <2> QED BY <2>4, <2>5
<1>12. TableTells'
  BY <1>2, <1>3, <1>4, <1>5, <1>6 DEF IInv, TableTells
<1>13. BackfillCovers'
  BY <1>2, <1>3, <1>4, <1>5, <1>6 DEF IInv, BackfillCovers
<1>14. HistoryCovers'
  <2>1. SUFFICES ASSUME mode = "history" PROVE HistoryCovers'
    BY <1>5 DEF HistoryCovers
  <2>2. \A x \in deleted : mail'[x] = "gone"
    BY <1>3, <1>6, <2>1 DEF IInv, HistoryCovers
  <2>3. \A x \in Messages : mail'[x] = "in" => x \in table \cup added \/ Told(x, read)'
    BY <1>2, <1>3, <1>5, <1>6, <2>1 DEF IInv, HistoryCovers
  <2>4. \A i \in cursor + 1 .. read : history'[i].id \in added \cup deleted
    <3>1. cursor \in Nat
      BY <1>6, <2>1 DEF IInv
    <3> QED BY <1>1, <1>4, <1>6, <2>1, <3>1 DEF IInv, HistoryCovers
  <2> QED BY <1>5, <2>2, <2>3, <2>4 DEF HistoryCovers
<1>15. FetchCovers'
  <2>1. SUFFICES ASSUME mode = "fetch" PROVE FetchCovers'
    BY <1>5 DEF FetchCovers
  <2>2. FetchCovers /\ cursor \in Nat /\ baseline \in 0 .. Len(history)
    BY <1>6, <2>1 DEF IInv
  <2>3. added \cap (deleted \cup rows) = {}
    BY <2>1, <2>2 DEF FetchCovers
  <2>4. \A x \in Messages : mail'[x] = "in" =>
          x \in added \/ x \in (table \cup rows) \ deleted \/ Told(x, baseline)'
    <3>1. \A x \in Messages : mail[x] = "in" =>
            x \in added \/ x \in (table \cup rows) \ deleted \/ Told(x, baseline)
      BY <2>1, <2>2 DEF FetchCovers
    <3>2. Told(m, baseline)' /\ baseline \in Nat
      BY <1>2, <1>4, <1>5, <2>2
    <3> QED BY <1>2, <1>3, <1>5, <3>1, <3>2
  <2>5. \A i \in cursor + 1 .. read : history'[i].id \in added \cup deleted \cup rows
    <3>1. \A i \in cursor + 1 .. read : history[i].id \in added \cup deleted \cup rows
      BY <2>1, <2>2 DEF FetchCovers
    <3>2. \A i \in cursor + 1 .. read : i \in 1 .. Len(history)
      BY <1>4, <1>6, <2>2
    <3> QED BY <1>1, <3>1, <3>2
  <2>6. \A x \in rows : mail'[x] # "in" => Told(x, baseline)'
    <3>1. \A x \in rows : mail[x] # "in" => Told(x, baseline)
      BY <2>1, <2>2 DEF FetchCovers
    <3>2. Told(m, baseline)' /\ baseline \in Nat
      BY <1>2, <1>4, <1>5, <2>2
    <3> QED BY <1>2, <1>3, <1>5, <1>6, <3>1, <3>2
  <2> QED BY <1>5, <2>3, <2>4, <2>5, <2>6 DEF FetchCovers
<1> QED BY <1>7, <1>8, <1>9, <1>10, <1>11, <1>12, <1>13, <1>14, <1>15 DEF IInv

\* Arrivals, changes of labels and deletions.
LEMMA MailboxKeepsIInv ==
  ASSUME IInv, NEW m \in Messages, Label(m) \/ Delete(m)
  PROVE  IInv'
<1>1. CASE Label(m)
  <2>1. PICK to \in {"in", "out"} : Changes(m, to, "changed")
    BY <1>1 DEF Label
  <2> QED BY <1>1, <2>1, ChangeKeepsIInv DEF Label
<1>2. CASE Delete(m)
  <2>1. Changes(m, "gone", "messagesDeleted") /\ mail[m] # "gone"
    BY <1>2 DEF Delete
  <2> QED BY <2>1, ChangeKeepsIInv
<1> QED BY <1>1, <1>2

\* Expiry moves no id: the run finds out by itself.
LEMMA ExpireKeepsIInv ==
  ASSUME IInv, Expire
  PROVE  IInv'
<1>1. UNCHANGED <<mail, history, cursor, table, mode, baseline, unlisted, read, added,
                  deleted, rows, errors, rebased>>
  BY DEF Expire
<1>2. oldest' \in 0 .. Len(history) /\ expiries' \in 0 .. MaxExpiries
  BY HistoryType DEF Expire, IInv, TypeOK
<1>3. TypeOK'
  BY <1>1, <1>2 DEF IInv, TypeOK
<1> QED BY <1>1, <1>3
    DEF IInv, LiveAreCovered, ForgottenByHistory, DeletedIsGone, TableTells, BackfillCovers,
        HistoryCovers, FetchCovers, Pending, Told

\* A run that starts over lists the whole mailbox after the baseline.
LEMMA BackfillsKeepsIInv ==
  ASSUME IInv, Backfills, UNCHANGED <<mailbox, dest, rebased>>
  PROVE  IInv'
<1>1. Len(history) \in Nat
  BY HistoryType DEF IInv
<1>2. baseline' = Len(history) \/ baseline' = None
  BY DEF Backfills, HistoryId
<1>3. errors' \in 0 .. MaxErrors
  BY DEF Backfills, IInv, TypeOK
<1>4. TypeOK'
  BY <1>1, <1>2, <1>3 DEF Backfills, IInv, TypeOK
<1> QED BY <1>1, <1>2, <1>4
    DEF Backfills, IInv, LiveAreCovered, ForgottenByHistory, DeletedIsGone, TableTells,
        BackfillCovers, HistoryCovers, FetchCovers, Pending, Told

\* A run starts from the cursor, or over.
LEMMA StartKeepsIInv ==
  ASSUME IInv, Start
  PROVE  IInv'
<1>1. CASE cursor = None /\ Backfills
  BY <1>1, BackfillsKeepsIInv DEF Start
<1>2. CASE cursor # None /\ ~ (cursor = None /\ Backfills)
  <2>1. TypeOK'
    BY <1>2 DEF Start, IInv, TypeOK
  <2>2. /\ cursor \in 0 .. Len(history) /\ Len(history) \in Nat
        /\ added = {} /\ deleted = {} /\ rows = {}
    BY <1>2, HistoryType DEF Start, IInv, TypeOK
  <2>3. HistoryCovers'
    BY <1>2, <2>2 DEF Start, IInv, LiveAreCovered, Pending, HistoryCovers, Told
  <2>4. IdsArePast' /\ ReadsFromCursor'
    BY <1>2, <2>2 DEF Start, IInv
  <2> QED BY <1>2, <2>1, <2>3, <2>4
      DEF Start, IInv, LiveAreCovered, ForgottenByHistory, DeletedIsGone, TableTells,
          BackfillCovers, FetchCovers, Pending, Told
<1> QED BY <1>1, <1>2 DEF Start

\* A message in scope is listed; one that is not, is told of when it returns.
LEMMA ListIdsKeepsIInv ==
  ASSUME IInv, ListIds
  PROVE  IInv'
<1>1. PICK page \in SUBSET unlisted :
        added' = {m \in page : mail[m] = "in"} /\ unlisted' = unlisted \ page
  BY DEF ListIds
<1>2. TypeOK'
  BY <1>1 DEF ListIds, IInv, TypeOK
<1>3. BackfillCovers'
  BY <1>1 DEF ListIds, IInv, TypeOK, BackfillCovers, Told
<1> QED BY <1>2, <1>3
    DEF ListIds, IInv, LiveAreCovered, ForgottenByHistory, DeletedIsGone, TableTells,
        HistoryCovers, FetchCovers, Pending, Told

\* A response adds its records to those read: what it tells of is in hand.
LEMMA ReadHistoryKeepsIInv ==
  ASSUME IInv, ReadHistory
  PROVE  IInv'
<1> DEFINE to == Min({read + PageSize, Len(history)})
           seen == added \cup RecordsOf("changed", read, to)
<1>1. /\ Len(history) \in Nat /\ read \in Nat /\ read <= Len(history) /\ mode = "history"
      /\ \A i \in 1 .. Len(history) :
           history[i].id \in Messages /\ history[i].kind \in {"messagesDeleted", "changed"}
  BY HistoryType DEF IInv, TypeOK, ReadHistory
<1>2. to \in read .. Len(history)
  BY <1>1 DEF Min
<1>3. /\ read' = to
      /\ deleted' = deleted \cup RecordsOf("messagesDeleted", read, to)
      /\ baseline' = Len(history)
      /\ \/ to = Len(history) /\ mode' = "fetch" /\ added' = seen \ deleted'
         \/ to # Len(history) /\ mode' = "history" /\ added' = seen
      /\ UNCHANGED <<mailbox, dest, unlisted, rows, errors, rebased>>
  BY <1>1 DEF ReadHistory, HistoryId
<1> HIDE DEF to
<1>4. \A i \in read + 1 .. to :
        IF history[i].kind = "changed" THEN history[i].id \in seen
                                       ELSE history[i].id \in deleted'
  BY <1>1, <1>2, <1>3 DEF RecordsOf
<1>5. \A m \in deleted' : mail[m] = "gone"
  BY <1>1, <1>2, <1>3 DEF RecordsOf, IInv, HistoryCovers, DeletedIsGone
<1>6. \A m \in Messages : mail[m] = "in" => m \in table \cup seen \/ Told(m, to)
  <2>1. SUFFICES ASSUME NEW m \in Messages, mail[m] = "in", m \notin table \cup seen
                 PROVE  Told(m, to)
    OBVIOUS
  <2>2. PICK i \in read + 1 .. Len(history) : history[i].id = m
    BY <1>1, <2>1 DEF IInv, HistoryCovers, Told
  <2>3. i \notin read + 1 .. to
    BY <1>1, <1>2, <1>4, <1>5, <2>1, <2>2
  <2> QED BY <1>1, <1>2, <2>2, <2>3 DEF Told
<1>7. \A i \in cursor + 1 .. to : history[i].id \in seen \cup deleted'
  <2>1. cursor \in Nat /\ cursor <= read
    BY <1>1 DEF IInv, TypeOK
  <2>2. \A i \in cursor + 1 .. read : history[i].id \in added \cup deleted
    BY <1>1 DEF IInv, HistoryCovers
  <2> QED BY <1>1, <1>2, <1>3, <1>4, <2>1, <2>2
<1>8. seen \subseteq Messages /\ deleted' \subseteq Messages
  BY <1>1, <1>2, <1>3 DEF RecordsOf, IInv, TypeOK
<1>9. rows = {} /\ cursor # None /\ cursor \in Nat /\ cursor <= read
  BY <1>1 DEF IInv, TypeOK
<1> HIDE DEF seen
<1>10. TypeOK'
  BY <1>1, <1>2, <1>3, <1>8, <1>9 DEF IInv, TypeOK
<1>11. IdsArePast' /\ ReadsFromCursor'
  BY <1>1, <1>2, <1>3, <1>9 DEF IInv
<1>12. HistoryCovers'
  BY <1>1, <1>2, <1>3, <1>5, <1>6, <1>7 DEF HistoryCovers, Told
<1>13. FetchCovers'
  <2>1. SUFFICES ASSUME to = Len(history), mode' = "fetch", added' = seen \ deleted'
                 PROVE  FetchCovers'
    BY <1>3 DEF FetchCovers
  <2>2. \A m \in Messages : ~ Told(m, to)
    BY <1>1, <2>1 DEF Told
  <2>3. \A m \in Messages : mail[m] = "in" => m \in (table \cup seen) \ deleted'
    BY <1>5, <1>6, <2>2
  <2> QED BY <1>3, <1>7, <1>9, <2>1, <2>3 DEF FetchCovers
<1> QED BY <1>1, <1>3, <1>10, <1>11, <1>12, <1>13
    DEF IInv, LiveAreCovered, ForgottenByHistory, DeletedIsGone, TableTells,
        BackfillCovers, Pending, Told

\* What is fetched is in scope or told of, what is not is forgotten.
LEMMA FetchKeepsIInv ==
  ASSUME IInv, NEW m \in added, Fetch(m)
  PROVE  IInv'
<1>1. m \in Messages /\ Len(history) \in Nat
  BY HistoryType DEF IInv, TypeOK
<1>2. CASE mode = "backfill"
  <2>1. /\ added' = added \ {m} /\ rows' = rows \cup ({m} \ {x \in Messages : mail[x] = "gone"})
        /\ UNCHANGED <<mailbox, dest, mode, baseline, unlisted, read, deleted, errors, rebased>>
    BY <1>2 DEF Fetch
  <2>2. TypeOK'
    BY <1>1, <1>2, <2>1 DEF IInv, TypeOK, BackfillCovers
  <2>3. BackfillCovers'
    BY <1>1, <1>2, <2>1 DEF IInv, BackfillCovers, Told
  <2> QED BY <1>2, <2>1, <2>2, <2>3
      DEF IInv, LiveAreCovered, ForgottenByHistory, DeletedIsGone, TableTells,
          HistoryCovers, FetchCovers, Pending, Told
<1>3. CASE mode = "fetch"
  <2>1. /\ added' = added \ {m}
        /\ \/ mail[m] = "in" /\ rows' = rows \cup {m} /\ deleted' = deleted
           \/ mail[m] # "in" /\ deleted' = deleted \cup {m} /\ rows' = rows
        /\ UNCHANGED <<mailbox, dest, mode, baseline, unlisted, read, errors, rebased>>
    BY <1>3 DEF Fetch, InScope
  <2>2. added \cap deleted = {} /\ rows \cap added = {}
    BY <1>3 DEF IInv, FetchCovers
  <2>3. TypeOK'
    BY <1>1, <1>3, <2>1, <2>2 DEF IInv, TypeOK
  <2>4. FetchCovers'
    BY <1>1, <1>3, <2>1, <2>2 DEF IInv, FetchCovers, Told
  <2> QED BY <1>3, <2>1, <2>3, <2>4
      DEF IInv, LiveAreCovered, ForgottenByHistory, DeletedIsGone, TableTells,
          HistoryCovers, BackfillCovers, Pending, Told
<1> QED BY <1>2, <1>3 DEF Fetch

\* A run that ends with its locals leaves what the last commit left.
LEMMA EndsKeepsIInv ==
  ASSUME IInv, Ends, UNCHANGED <<mailbox, dest, rebased>>, errors' \in 0 .. MaxErrors
  PROVE  IInv'
<1>1. TypeOK'
  BY DEF Ends, IInv, TypeOK
<1> QED BY <1>1, HistoryType
    DEF Ends, IInv, LiveAreCovered, ForgottenByHistory, DeletedIsGone, TableTells,
        BackfillCovers, HistoryCovers, FetchCovers, Pending, Told

\* What is committed has the new cursor where the run had its baseline.
LEMMA CommitKeepsIInv ==
  ASSUME IInv, Commit
  PROVE  IInv'
<1>1. /\ Len(history) \in Nat /\ added = {} /\ rebased \in Nat
      /\ cursor # None => cursor \in Nat
      /\ baseline # None => baseline \in 0 .. Len(history)
      /\ mode = "fetch" \/ (mode = "backfill" /\ unlisted = {})
      /\ table \subseteq Messages /\ rows \subseteq Messages
  BY HistoryType DEF IInv, TypeOK, Commit, Done
<1>2. /\ mail' = mail /\ history' = history
      /\ table' = (table \cup rows) \ deleted /\ cursor' = baseline
      /\ rebased' = IF mode = "backfill" /\ baseline # None THEN baseline ELSE rebased
      /\ mode' = "idle" /\ baseline' = None
      /\ added' = {} /\ deleted' = {} /\ rows' = {} /\ read' = 0
  BY DEF Commit, Ends
<1>3. TypeOK'
  BY <1>1, <1>2 DEF Commit, Ends, IInv, TypeOK
<1>4. LiveAreCovered'
  <2>1. SUFFICES ASSUME NEW m \in Messages, mail[m] = "in", baseline # None
                 PROVE  m \in (table \cup rows) \ deleted \/ Told(m, baseline)
    BY <1>2 DEF LiveAreCovered, Pending, Told
  <2>2. CASE mode = "fetch"
    BY <1>1, <2>1, <2>2 DEF IInv, FetchCovers
  <2>3. CASE mode = "backfill" /\ unlisted = {}
    BY <1>1, <2>1, <2>3 DEF IInv, BackfillCovers
  <2> QED BY <1>1, <2>2, <2>3
<1>5. ForgottenByHistory'
  <2>1. SUFFICES ASSUME NEW m \in (table \cup rows) \ deleted, mail[m] # "in", baseline # None,
                        ~ Told(m, baseline)
                 PROVE  \E i \in 1 .. rebased' : history[i].id = m
    BY <1>2 DEF ForgottenByHistory, Pending, Told
  <2>2. CASE mode = "fetch"
    <3>1. m \in table /\ m \notin rows
      BY <2>1, <2>2 DEF IInv, FetchCovers
    <3>2. ~ Told(m, cursor)
      <4>1. cursor # None /\ cursor \in Nat /\ read = baseline
        BY <1>1, <2>1, <2>2 DEF IInv
      <4>2. \A i \in cursor + 1 .. baseline : history[i].id # m
        BY <1>1, <2>1, <2>2, <3>1, <4>1 DEF IInv, FetchCovers
      <4> QED BY <1>1, <2>1, <4>1, <4>2 DEF Told
    <3> QED BY <1>2, <2>1, <2>2, <3>1, <3>2 DEF IInv, ForgottenByHistory, Pending
  <2>3. CASE mode = "backfill"
    <3>1. m \in table /\ m \notin rows
      BY <1>1, <2>1, <2>3 DEF IInv, BackfillCovers
    <3>2. Told(m, 0)
      BY <2>1, <3>1 DEF IInv, TableTells
    <3> QED BY <1>1, <1>2, <2>1, <2>3, <3>2 DEF Told
  <2> QED BY <1>1, <2>2, <2>3
<1>6. TableTells'
  <2>1. \A m \in table \cup rows : mail[m] # "in" => Told(m, 0)
    <3>1. CASE mode = "fetch"
      <4>1. baseline # None
        BY <3>1 DEF IInv
      <4> QED BY <1>1, <3>1, <4>1 DEF IInv, TableTells, FetchCovers, Told
    <3>2. CASE mode = "backfill"
      BY <3>2 DEF IInv, TableTells, BackfillCovers
    <3> QED BY <1>1, <3>1, <3>2
  <2> QED BY <1>2, <2>1 DEF TableTells, Told
<1>7. IdsArePast' /\ ReadsFromCursor'
  BY <1>1, <1>2 DEF IInv
<1> QED BY <1>2, <1>3, <1>4, <1>5, <1>6, <1>7
    DEF IInv, DeletedIsGone, BackfillCovers, HistoryCovers, FetchCovers

\* Every step keeps the invariant.
LEMMA NextKeepsIInv == IInv /\ [Next]_vars => IInv'
<1> SUFFICES ASSUME IInv, [Next]_vars PROVE IInv'
  OBVIOUS
<1>1. CASE \E m \in Messages : Label(m) \/ Delete(m)
  BY <1>1, MailboxKeepsIInv
<1>2. CASE Expire
  BY <1>2, ExpireKeepsIInv
<1>3. CASE Start \/ ListIds \/ ReadHistory \/ Commit
  BY <1>3, StartKeepsIInv, ListIdsKeepsIInv, ReadHistoryKeepsIInv, CommitKeepsIInv
<1>4. CASE CursorExpired
  BY <1>4, BackfillsKeepsIInv DEF CursorExpired
<1>5. CASE \E m \in added : Fetch(m)
  BY <1>5, FetchKeepsIInv
<1>6. CASE Fail
  <2>1. errors' \in 0 .. MaxErrors
    BY <1>6 DEF Fail, IInv, TypeOK
  <2> QED BY <1>6, <2>1, EndsKeepsIInv DEF Fail
<1>7. CASE UNCHANGED vars
  BY <1>7 DEF vars, IInv, TypeOK, LiveAreCovered, ForgottenByHistory, DeletedIsGone,
      TableTells, BackfillCovers, HistoryCovers, FetchCovers, Pending, Told
<1> QED BY <1>1, <1>2, <1>3, <1>4, <1>5, <1>6, <1>7 DEF Next, RunStep

-----------------------------------------------------------------------------
(* The theorems.                                                           *)

\* The invariant holds in every state of a behaviour.
THEOREM Invariant == Spec => []IInv
  BY InitIInv, NextKeepsIInv, PTL DEF Spec

\* Every variable stays in its set.
THEOREM TypeCorrect == Spec => []TypeOK
<1>1. IInv => TypeOK
  BY DEF IInv
<1> QED BY <1>1, Invariant, PTL

\* A message in scope is in the table or the next run hears of it, whatever
\* expires, fails or changes during a run.
THEOREM LiveStayCovered == Spec => []LiveAreCovered
<1>1. IInv => LiveAreCovered
  BY DEF IInv
<1> QED BY <1>1, Invariant, PTL

\* Only a backfill can leave a message that is gone in the table for good.
THEOREM GoneAreForgotten == Spec => []ForgottenByHistory
<1>1. IInv => ForgottenByHistory
  BY DEF IInv
<1> QED BY <1>1, Invariant, PTL
=============================================================================
