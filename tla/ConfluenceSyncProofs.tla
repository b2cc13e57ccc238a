------------------------- MODULE ConfluenceSyncProofs -------------------------
(***************************************************************************)
(* Theorems about ConfluenceSync, for any pages, number of requests and    *)
(* bounds.                                                                 *)
(***************************************************************************)
EXTENDS ConfluenceSync, TLAPS

-----------------------------------------------------------------------------
(* The inductive invariant.  What the table shows is compared with the     *)
(* wiki through what a run has in hand: results listed, rows fetched and   *)
(* pages it has passed over.                                               *)

RowIds == {r.id : r \in rows}

\* No version is ahead of the clock, and a cursor is a version.
CursorIsPast ==
  /\ last <= clock
  /\ newest <= clock
  /\ \A p \in Pages : when[p] <= clock

\* A run that has seen no page has not moved the cursor.
UnseenUnmoved == running /\ current = {} => newest = last

\* Results are looked at within the run that listed them.
ResultsInRun == ~running => results = {}

\* A page a run has seen is one it knew or one it fetched.
SeenIsKnown == RowIds \subseteq current /\ current \subseteq known \cup RowIds

\* What the run has in hand is current but for edits made during a run.
ListedFresh ==
  \A r \in results : r.when <= when[r.id] /\ (r.when < when[r.id] => r.id \in raced)
FetchedFresh ==
  running => \A r \in rows : r.body < when[r.id] => r.id \in raced
KeptFresh ==
  running => \A p \in current \ RowIds : table[p] < when[p] => p \in raced

IInv ==
  /\ TypeOK
  /\ KnownIsIngested
  /\ StaleIsAhead
  /\ CursorIsPast
  /\ UnseenUnmoved
  /\ ResultsInRun
  /\ SeenIsKnown
  /\ ListedFresh
  /\ FetchedFresh
  /\ KeptFresh

-----------------------------------------------------------------------------
(* The lemmas: the invariant holds at first, and each action keeps it.     *)

\* The bounds, one by one.
LEMMA Bounds ==
  MaxEdits \in Nat /\ MaxMoves \in Nat /\ MaxErrors \in Nat /\ Requests \in Nat
  BY BoundsAreNat

USE Bounds
    DEF wiki, table_vars, run, Versions, Rows, RowIds, IInv, TypeOK, KnownIsIngested,
        StaleIsAhead, CursorIsPast, UnseenUnmoved, ResultsInRun, SeenIsKnown,
        ListedFresh, FetchedFresh, KeptFresh

\* It holds at first: nothing is known, in the table or in hand.
LEMMA InitIInv == Init => IInv
<1> SUFFICES ASSUME Init PROVE IInv
  OBVIOUS
<1>1. DOMAIN table = {} /\ table \in [DOMAIN table -> Versions]
  BY DEF Init
<1>2. place \in [Pages -> 0 .. Requests] /\ when \in [Pages -> Versions]
  BY DEF Init
<1>3. running \in BOOLEAN
  BY Zenon DEF Init
<1>4. request \in 1 .. Requests + 1 /\ errors \in 0 .. MaxErrors /\ moves \in 0 .. MaxMoves
  BY DEF Init
<1>5. TypeOK
  BY <1>1, <1>2, <1>3, <1>4 DEF Init
<1> QED BY <1>1, <1>5 DEF Init

\* An edit makes the newest version: ahead of the cursor, or made during a run.
LEMMA EditKeepsIInv ==
  ASSUME IInv, NEW p \in Pages, Edit(p)
  PROVE  IInv'
  BY DEF Edit

\* A move changes no version.
LEMMA MoveKeepsIInv ==
  ASSUME IInv, NEW p \in Pages, Move(p)
  PROVE  IInv'
  BY DEF Move

\* A run starts with nothing in hand.
LEMMA StartKeepsIInv ==
  ASSUME IInv, Start
  PROVE  IInv'
  BY DEF Start

\* What is listed is what the wiki has.
LEMMA ListKeepsIInv ==
  ASSUME IInv, List
  PROVE  IInv'
  BY DEF List

\* A page that is skipped is known, and no newer than the cursor: had it been
\* edited since the table got it, then during a run.
LEMMA SkipKeepsIInv ==
  ASSUME IInv, NEW r \in results, Skip(r)
  PROVE  IInv'
<1>1. r \in [id : Pages, when : Versions] /\ running
  OBVIOUS
<1>2. TypeOK'
  BY <1>1 DEF Skip, Unchanged
<1>3. r.id \in DOMAIN table /\ r.when <= last
  BY DEF Skip, Unchanged
<1>4. table[r.id] < when[r.id] => r.id \in raced
  BY <1>1, <1>3
<1>5. KeptFresh'
  BY <1>1, <1>4 DEF Skip
<1>6. SeenIsKnown'
  BY <1>3 DEF Skip
<1> QED BY <1>1, <1>2, <1>5, <1>6 DEF Skip

\* A body that is fetched is the page's.
LEMMA FetchKeepsIInv ==
  ASSUME IInv, NEW r \in results, Fetch(r)
  PROVE  IInv'
<1> DEFINE row == [id |-> r.id, body |-> when[r.id]]
<1>1. r \in [id : Pages, when : Versions] /\ running
  OBVIOUS
<1>2. row \in Rows /\ rows' = rows \cup {row} /\ current' = current \cup {r.id}
  BY <1>1 DEF Fetch
<1>3. newest' \in Versions /\ newest' <= clock
  BY <1>1 DEF Fetch
<1>4. TypeOK'
  BY <1>1, <1>2, <1>3 DEF Fetch
<1>5. RowIds' = RowIds \cup {r.id}
  <2>1. RowIds' = {x.id : x \in rows'}
    OBVIOUS
  <2>2. row.id = r.id
    OBVIOUS
  <2> QED BY <1>2, <2>1, <2>2
<1>6. SeenIsKnown'
  BY <1>2, <1>5 DEF Fetch
<1>7. FetchedFresh'
  BY <1>1, <1>2 DEF Fetch
<1>8. KeptFresh'
  BY <1>1, <1>2, <1>5 DEF Fetch
<1>9. UnseenUnmoved'
  BY <1>2 DEF Fetch
<1>10. ResultsInRun' /\ ListedFresh'
  BY <1>1 DEF Fetch
<1> QED BY <1>3, <1>4, <1>6, <1>7, <1>8, <1>9, <1>10 DEF Fetch

\* A failed run leaves the table and the cursor alone.
LEMMA FailKeepsIInv ==
  ASSUME IInv, Fail
  PROVE  IInv'
<1>1. errors' \in 0 .. MaxErrors
  BY DEF Fail
<1>2. running' \in BOOLEAN /\ results' \subseteq [id : Pages, when : Versions]
  BY DEF Fail
<1>3. TypeOK'
  BY <1>1, <1>2 DEF Fail
<1> QED BY <1>3 DEF Fail

\* The load of a sweep that is believed: the table then holds the pages seen,
\* each as it was fetched or as it was kept.
LEMMA LoadsTable ==
  ASSUME IInv, Loads
  PROVE  /\ table' \in [current -> Versions]
         /\ \A p \in current :
              \/ \E r \in rows : r.id = p /\ r.body = table'[p]
              \/ p \in known \ RowIds /\ table'[p] = table[p]
<1> DEFINE ids == (DOMAIN table \ Gone) \cup {r.id : r \in rows}
           Found(p) == {r.body : r \in {x \in rows : x.id = p}}
<1>1. PICK merged \in [ids -> Versions] :
        /\ \A p \in ids :
             IF Found(p) # {} THEN merged[p] \in Found(p) ELSE merged[p] = table[p]
        /\ table' = merged
  BY Zenon DEF Loads
<1>2. ids = current
  BY DEF Gone
<1>3. ASSUME NEW p \in current
      PROVE  \/ \E r \in rows : r.id = p /\ r.body = table'[p]
             \/ p \in known \ RowIds /\ table'[p] = table[p]
  <2>1. CASE Found(p) # {}
    BY <1>1, <1>2, <2>1
  <2>2. CASE Found(p) = {}
    <3>1. p \notin RowIds
      BY <2>2
    <3> QED BY <1>1, <1>2, <2>2, <3>1
  <2> QED BY <2>1, <2>2
<1> QED BY <1>1, <1>2, <1>3

\* A run that ends loads what it has in hand, or moves nothing.
LEMMA CommitKeepsIInv ==
  ASSUME IInv, Commit
  PROVE  IInv'
<1>1. CASE known # {} /\ current = {}
  BY <1>1 DEF Commit
<1>2. CASE ~ (known # {} /\ current = {})
  <2>1. Loads /\ known' = current /\ last' = newest
    BY <1>2 DEF Commit
  <2>2. table' \in [current -> Versions] /\ DOMAIN table' = current
    BY <2>1, LoadsTable
  <2>3. ASSUME NEW p \in current
        PROVE  table'[p] < when[p] => p \in raced
    <3>1. CASE \E r \in rows : r.id = p /\ r.body = table'[p]
      BY <3>1 DEF Commit
    <3>2. CASE p \in known \ RowIds /\ table'[p] = table[p]
      BY <3>2 DEF Commit
    <3> QED BY <2>1, <3>1, <3>2, LoadsTable
  <2>4. TypeOK'
    BY <2>1, <2>2 DEF Commit
  <2>5. KnownIsIngested' /\ SeenIsKnown'
    BY <2>1, <2>2 DEF Commit
  <2>6. StaleIsAhead'
    BY <2>2, <2>3 DEF Commit
  <2> QED BY <2>1, <2>4, <2>5, <2>6 DEF Commit
<1> QED BY <1>1, <1>2

\* Every step keeps the invariant.
LEMMA NextKeepsIInv == IInv /\ [Next]_vars => IInv'
<1> SUFFICES ASSUME IInv, [Next]_vars PROVE IInv'
  OBVIOUS
<1>1. CASE \E p \in Pages : Edit(p) \/ Move(p)
  BY <1>1, EditKeepsIInv, MoveKeepsIInv, Zenon
<1>2. CASE Start \/ List \/ Commit \/ Fail
  BY <1>2, StartKeepsIInv, ListKeepsIInv, CommitKeepsIInv, FailKeepsIInv, Zenon
<1>3. CASE \E r \in results : Skip(r) \/ Fetch(r)
  BY <1>3, SkipKeepsIInv, FetchKeepsIInv, Zenon
<1>4. CASE UNCHANGED vars
  BY <1>4 DEF vars
<1> QED BY <1>1, <1>2, <1>3, <1>4, Zenon DEF Next, RunStep

-----------------------------------------------------------------------------
(* The theorems.                                                           *)

\* The invariant holds in every state of a behaviour.
THEOREM Invariant == Spec => []IInv
  BY InitIInv, NextKeepsIInv, PTL DEF Spec

\* Every variable stays in its set.
THEOREM TypeCorrect == Spec => []TypeOK
<1>1. IInv => TypeOK
  BY Zenon DEF IInv
<1> QED BY <1>1, Invariant, PTL

\* known_ids and the table never part, whatever fails and moves.
THEOREM KnownStaysIngested == Spec => []KnownIsIngested
<1>1. IInv => KnownIsIngested
  BY Zenon DEF IInv
<1> QED BY <1>1, Invariant, PTL

\* A page with a stale body is ahead of the cursor, so that the next run
\* fetches it, unless its last edit was made during a run.
THEOREM StaleStaysAhead == Spec => []StaleIsAhead
<1>1. IInv => StaleIsAhead
  BY Zenon DEF IInv
<1> QED BY <1>1, Invariant, PTL

-----------------------------------------------------------------------------
(* What a sweep deletes.                                                   *)

\* A table without pages is the empty one.
LEMMA EmptyTable == IInv /\ DOMAIN table = {} => table = <<>>
<1>1. ASSUME NEW f \in [{} -> Versions] PROVE f = <<>>
  OBVIOUS
<1>2. IInv => table \in [DOMAIN table -> Versions]
  OBVIOUS
<1> QED BY <1>1, <1>2, Zenon

\* A sweep that is believed leaves the pages it saw, and one that saw none of a
\* table that has some is not believed.
THEOREM TableIsNeverEmptied == Spec => NeverEmptied
<1>1. IInv /\ [Next]_vars => [table # <<>> => table' # <<>>]_vars
  <2> SUFFICES ASSUME IInv, [Next]_vars, table # <<>> PROVE table' # <<>>
    BY Zenon
  <2>1. CASE Commit
    <3>1. CASE table' = table
      BY <3>1
    <3>2. CASE Loads /\ ~ (known # {} /\ current = {})
      <4>1. DOMAIN table # {}
        BY EmptyTable
      <4>2. current # {}
        BY <3>2, <4>1
      <4>3. DOMAIN table' = current
        BY <3>2, LoadsTable
      <4> QED BY <4>2, <4>3
    <3> QED BY <2>1, <3>1, <3>2 DEF Commit
  <2>2. CASE ~Commit
    <3>1. table' = table
      BY <2>2 DEF Next, RunStep, Edit, Move, Start, List, Skip, Fetch, Fail, vars
    <3> QED BY <3>1
  <2> QED BY <2>1, <2>2
<1> QED BY <1>1, Invariant, PTL DEF Spec, NeverEmptied

\* A run that lists has in hand each page that the requests behind it showed, unless
\* the page has moved; a run that lists nothing sees nothing.
SweepIsWhole ==
  running =>
    \/ current = {} /\ results = {} /\ request = Requests + 1
    \/ \A p \in Pages \ moved :
         place[p] # 0 /\ place[p] < request =>
           p \in current \/ \E r \in results : r.id = p

\* Each step of a run keeps the sweep whole.
LEMMA SweepStaysWhole == IInv /\ SweepIsWhole /\ [Next]_vars => SweepIsWhole'
<1> SUFFICES ASSUME IInv, SweepIsWhole, [Next]_vars PROVE SweepIsWhole'
  OBVIOUS
<1> USE DEF SweepIsWhole
<1>1. ASSUME NEW p \in Pages, Edit(p) PROVE SweepIsWhole'
  BY <1>1 DEF Edit
<1>2. ASSUME NEW p \in Pages, Move(p) PROVE SweepIsWhole'
  BY <1>2 DEF Move
<1>3. CASE Start
  BY <1>3 DEF Start
<1>4. CASE List
  <2>1. ASSUME NEW p \in Pages \ moved', place'[p] # 0, place'[p] < request'
        PROVE  p \in current' \/ \E r \in results' : r.id = p
    <3>1. place[p] \in Nat /\ request \in Nat /\ request' = request + 1 /\ place' = place
      BY <1>4 DEF List
    <3>2. CASE place[p] = request
      <4>1. [id |-> p, when |-> when[p]] \in results'
        BY <1>4, <3>2 DEF List
      <4> QED BY <4>1
    <3>3. CASE place[p] < request
      BY <1>4, <2>1, <3>1, <3>3 DEF List
    <3> QED BY <2>1, <3>1, <3>2, <3>3
  <2> QED BY <2>1
<1>5. ASSUME NEW r \in results, Skip(r) \/ Fetch(r) PROVE SweepIsWhole'
  <2>1. /\ results' = results \ {r} /\ current' = current \cup {r.id}
        /\ UNCHANGED <<wiki, running, request, moved>>
    BY <1>5 DEF Skip, Fetch
  <2> QED BY <2>1
<1>6. CASE Commit \/ Fail
  BY <1>6 DEF Commit, Fail
<1>7. CASE UNCHANGED vars
  BY <1>7 DEF vars
<1> QED BY <1>1, <1>2, <1>3, <1>4, <1>5, <1>6, <1>7 DEF Next, RunStep

\* Only a page that has left its space, or moved while the run listed, is forgotten.
THEOREM ForgottenMoved == Spec => ForgottenHadMoved
<1> DEFINE Behind == \A p \in DOMAIN table \ DOMAIN table' : place[p] = 0 \/ p \in moved
<1>1. IInv /\ SweepIsWhole /\ [Next]_vars => [Behind]_vars
  <2> SUFFICES ASSUME IInv, SweepIsWhole, [Next]_vars,
                      NEW p \in DOMAIN table \ DOMAIN table',
                      place[p] # 0, p \notin moved
               PROVE  FALSE
    BY Zenon
  <2>1. Commit
    BY DEF Next, RunStep, Edit, Move, Start, List, Skip, Fetch, Fail, vars
  <2>2. Loads /\ ~ (known # {} /\ current = {})
    BY <2>1 DEF Commit
  <2>3. p \in known /\ p \notin current
    BY <2>2, LoadsTable
  <2>4. place[p] < request
    BY <2>1, <2>3 DEF Commit
  <2> QED BY <2>1, <2>2, <2>3, <2>4 DEF Commit, SweepIsWhole
<1>2. Init => SweepIsWhole
  BY DEF Init, SweepIsWhole
<1>3. Spec => [][Behind]_vars
  BY <1>1, <1>2, SweepStaysWhole, Invariant, PTL DEF Spec
<1> QED BY <1>3 DEF ForgottenHadMoved
=============================================================================
