---------------------------- MODULE SourcesProofs ----------------------------
(***************************************************************************)
(* Theorems about Sources: the Google Drive, Notion and Slack connectors,  *)
(* for any items, first places, page sizes and bounds.                     *)
(***************************************************************************)
EXTENDS Sources, TLAPS

-----------------------------------------------------------------------------
(* The inductive invariant.  What a run has in hand is true of every item  *)
(* that has not changed since the run's token, but for those left out.     *)

Ids == Items \cup {Folder}
Change == [id : Ids, removed : BOOLEAN, out : SUBSET Items]
Row == [id : Items, body : Nat]
Run == [mode : {"idle", "changes", "scope", "look"}, token : Nat, read : Nat,
        changed : SUBSET Ids, deleted : SUBSET Ids, scope : SUBSET Containers,
        todo : SUBSET (Ids \cup Containers), listed : SUBSET Items,
        rows : SUBSET Row, skipped : SUBSET Ids]

Typed ==
  /\ connector \in {"drive", "notion", "slack"}
  /\ place \in [Items -> Places] /\ attached \in BOOLEAN /\ rev \in [Items -> Nat]
  /\ feed \in Seq(Change)
  /\ cursor \in Nat \cup {None}
  /\ cursor # None => cursor <= Len(feed)
  /\ DOMAIN table \subseteq Items
  /\ run \in Run

\* Only a Drive has folders that move.  The last change tells what is out of
\* scope; one that removes an item is the last but for one that brings it back.
Recorded ==
  /\ connector # "drive" => attached
  /\ feed # << >> => feed[Len(feed)].out = {i \in Items : ~InScope(i)}
  /\ \A n \in 1 .. Len(feed) : feed[n].removed =>
       /\ feed[n].id \in feed[n].out
       /\ Live(feed[n].id) =>
            \E m \in n + 1 .. Len(feed) : feed[m].id = feed[n].id /\ ~feed[m].removed

\* The table is true of what has not changed since the cursor, during runs too.
TableTrue ==
  cursor # None =>
    \A i \in Items \ excused : ~ChangedAfter(cursor, i) =>
      /\ InScope(i) <=> i \in DOMAIN table
      /\ InScope(i) => table[i] = rev[i]

FirstEmpty == cursor = None => DOMAIN table = {}

\* What Notion or Slack no longer shows has gone since the cursor.
Noticed ==
  connector # "drive" /\ cursor # None =>
    \A i \in DOMAIN table : ~InScope(i) => Len(feed) > cursor

WorldInv == Typed /\ Recorded /\ TableTrue /\ FirstEmpty /\ Noticed

\* The rest is about a run r, which may be the one under way or the next state of it.

Incremental == connector = "drive" /\ cursor # None

\* Nothing has happened to the item since the token of the run.
Current(r, i) == ~ChangedAfter(r.token, i) /\ i \notin r.skipped

Pending(r, i) ==
  IF Incremental \/ (connector = "notion" /\ r.scope = {})
  THEN i \in r.todo ELSE place[i] \in r.todo

HasRow(r, i) == \E x \in r.rows : x.id = i

\* Whether the run is to deal with the item.
Dealt(r, i) == Incremental => i \in r.changed \cup r.deleted

\* It has been out of scope since the cursor.
WasOutSince(i) == \E n \in cursor + 1 .. Len(feed) : i \in feed[n].out

Token(r) == r.token <= Len(feed) /\ (cursor # None => cursor <= r.token)

Shape(r) ==
  /\ connector # "drive" =>
       /\ r.mode = "look"
       /\ r.todo \subseteq (IF connector = "notion" /\ r.scope = {} THEN Items ELSE Containers)
  /\ r.mode \in {"changes", "scope"} =>
       r.todo = {} /\ r.listed = {} /\ r.rows = {} /\ r.scope = {}
  /\ r.mode = "changes" => cursor # None
  /\ ~Incremental => r.changed = {} /\ r.deleted = {}
  /\ connector = "drive" /\ r.scope = {} => r.todo = {} /\ r.listed = {}
  /\ connector = "drive" /\ cursor = None => r.todo \subseteq r.scope
  /\ Incremental => r.todo \cup r.listed \subseteq r.changed

\* The pages of the feed read so far, and then the whole window up to the token.
WindowRead(r) ==
  Incremental =>
    /\ r.mode = "changes" =>
         /\ cursor <= r.read /\ r.read <= Len(feed)
         /\ \A n \in cursor + 1 .. r.read :
              feed[n].id \in (IF feed[n].removed THEN r.deleted ELSE r.changed)
         /\ \A i \in r.deleted : \E n \in cursor + 1 .. r.read : feed[n].id = i /\ feed[n].removed
         /\ \A i \in r.changed : \E n \in cursor + 1 .. r.read : feed[n].id = i
    /\ r.mode \in {"scope", "look"} =>
         \A i \in Items : i \in r.changed \cup r.deleted
                            <=> \E n \in cursor + 1 .. r.token : feed[n].id = i

\* The folders read are those in scope to every current item.
ScopeRead(r) ==
  connector = "drive" /\ r.scope # {} =>
    \A i \in Items : Current(r, i) => (place[i] \in r.scope <=> InScope(i))

\* A current item with a tombstone is out of scope.
DeletedAreOut(r) ==
  r.mode \in {"scope", "look"} => \A i \in Items \cap r.deleted : Current(r, i) => ~InScope(i)

\* A current item is still to be read, or listed, or has been dealt with as it is.
ReadSoFar(r) ==
  r.mode = "look" => \A i \in Items : Current(r, i) =>
    /\ Pending(r, i) => i \notin r.listed /\ ~HasRow(r, i)
    /\ i \in r.listed => InScope(i) /\ ~HasRow(r, i)
    /\ ~Pending(r, i) /\ i \notin r.listed =>
         IF Dealt(r, i)
         THEN /\ InScope(i) <=> HasRow(r, i)
              /\ \A x \in r.rows : x.id = i => x.body = rev[i]
              /\ Incremental => HasRow(r, i) \/ i \in r.deleted
         ELSE ~HasRow(r, i)

\* Every tombstone is of an item that has been out of scope, or is left out.
DeletedWereOut(r) ==
  Incremental => \A i \in Items \cap r.deleted : i \in r.skipped \/ WasOutSince(i)

\* What Notion or Slack has shown to the run and no longer shows has changed.
ShownChanged(r) ==
  connector # "drive" =>
    \A i \in Items : (i \in r.listed \/ HasRow(r, i)) /\ ~InScope(i) => Len(feed) > r.token

\* Notion or Slack has not yet shown, or has shown, each item of the table that has
\* always been there.
StillShown(r) ==
  connector # "drive" =>
    \A i \in DOMAIN table :
      i \in r.skipped \/ WasOutSince(i) \/ Pending(r, i) \/ i \in r.listed \/ HasRow(r, i)

RunInv(r) ==
  IF r.mode = "idle" THEN r = Idle
  ELSE /\ Token(r) /\ Shape(r) /\ WindowRead(r) /\ ScopeRead(r) /\ DeletedAreOut(r)
       /\ ReadSoFar(r) /\ DeletedWereOut(r) /\ ShownChanged(r) /\ StillShown(r)

IInv == WorldInv /\ RunInv(run)

-----------------------------------------------------------------------------
(* The collection changes.                                                 *)

LEMMA Bounds ==
  Folder \notin Items /\ None \notin Nat /\ PageSize \in Nat /\ PageSize > 0
BY SourceAssumption

\* What is told of a change: c is its record, and the items of X are left out.
Told(c, X) ==
  /\ c \in Change /\ feed' = Append(feed, c)
  /\ UNCHANGED <<connector, cursor, table>>
  /\ place' \in [Items -> Places] /\ attached' \in BOOLEAN /\ rev' \in [Items -> Nat]
  /\ connector # "drive" => attached' = attached
  /\ c.out = {i \in Items : ~InScope(i)'}
  /\ c.removed => c.id \in Items /\ ~Live(c.id)'
  /\ \A i \in Items : Live(i)' => Live(i) \/ (c.id = i /\ ~c.removed)
  /\ X \subseteq Items /\ X \cup excused \subseteq excused'
  /\ run' = IF Running THEN [run EXCEPT !.skipped = @ \cup X] ELSE run
  /\ \A i \in Items \ X : i # c.id =>
       place'[i] = place[i] /\ rev'[i] = rev[i] /\ (InScope(i)' <=> InScope(i))
  /\ connector # "drive" =>
       \A i \in Items : InScope(i)' => place'[i] = place[i] \/ place[i] \notin Containers

\* An edit, a move, a deletion, the trash: one record, nothing left out.
LEMMA GoesTold ==
  ASSUME Typed, NEW i \in Items, NEW to \in Places, NEW removed \in BOOLEAN,
         Goes(i, to, removed),
         removed <=> to \in {"trash", "gone"},
         connector # "drive" => to \notin Containers \/ place[i] \notin Containers
  PROVE  \E c : Told(c, {})
<1>0. PICK c : c = [id |-> i, removed |-> removed, out |-> {k \in Items : ~InScope(k)'}]
  OBVIOUS
<1>1. /\ place' = [place EXCEPT ![i] = to] /\ UNCHANGED <<rev, attached, run, excused>>
      /\ feed' = Append(feed, c) /\ UNCHANGED <<connector, cursor, table>>
  BY <1>0 DEF Goes, Record
<1>2. c \in Change /\ c.id = i /\ c.removed = removed /\ c.out = {k \in Items : ~InScope(k)'}
  BY <1>0 DEF Change, Ids
<1>3. place' \in [Items -> Places] /\ place'[i] = to /\ \A k \in Items \ {i} : place'[k] = place[k]
  BY <1>1 DEF Typed
<1>4. run \in Run /\ [run EXCEPT !.skipped = @ \cup {}] = run
  BY DEF Typed, Run
<1>5. \A k \in Items : InScope(k)' <=> place'[k] = "first" \/ (place'[k] = "second" /\ attached')
  BY DEF InScope
<1>6. \A k \in Items \ {i} : InScope(k)' <=> InScope(k)
  BY <1>1, <1>3, <1>5 DEF InScope
<1>7. \A k \in Items : Live(k)' => Live(k) \/ (c.id = k /\ ~c.removed)
  BY <1>2, <1>3 DEF Live
<1>8. ASSUME NEW k \in Items, connector # "drive", InScope(k)'
      PROVE  place'[k] = place[k] \/ place[k] \notin Containers
  BY <1>3, <1>5, <1>8 DEF Containers
<1>9. c.removed => c.id \in Items /\ ~Live(c.id)'
  BY <1>2, <1>3 DEF Live
<1>10. Told(c, {})
  BY <1>1, <1>2, <1>3, <1>4, <1>6, <1>7, <1>8, <1>9 DEF Told, Typed
<1> QED BY <1>10

LEMMA EditTold ==
  ASSUME Typed, NEW i \in Items, Edit(i)
  PROVE  \E c : Told(c, {})
<1>0. PICK c : c = [id |-> i, removed |-> FALSE, out |-> {k \in Items : ~InScope(k)'}]
  OBVIOUS
<1>1. /\ rev' = [rev EXCEPT ![i] = Len(feed) + 1] /\ UNCHANGED <<place, attached, run, excused>>
      /\ feed' = Append(feed, c) /\ UNCHANGED <<connector, cursor, table>>
  BY <1>0 DEF Edit, Record
<1>2. c \in Change /\ c.id = i /\ c.removed = FALSE /\ c.out = {k \in Items : ~InScope(k)'}
  BY <1>0 DEF Change, Ids
<1>3. Len(feed) + 1 \in Nat
  BY DEF Typed
<1>4. rev' \in [Items -> Nat] /\ \A k \in Items \ {i} : rev'[k] = rev[k]
  BY <1>1, <1>3 DEF Typed
<1>5. run \in Run /\ [run EXCEPT !.skipped = @ \cup {}] = run
  BY DEF Typed, Run
<1>6. \A k \in Items : (InScope(k)' <=> InScope(k)) /\ (Live(k)' <=> Live(k))
  BY <1>1 DEF InScope, Live
<1>7. Told(c, {})
  BY <1>1, <1>2, <1>4, <1>5, <1>6 DEF Told, Typed
<1> QED BY <1>7

\* The files of a folder that moves are left out.
LEMMA MoveFolderTold ==
  ASSUME Typed, MoveFolder
  PROVE  \E c, X : Told(c, X)
<1>0. PICK c : c = [id |-> Folder, removed |-> FALSE, out |-> {k \in Items : ~InScope(k)'}]
  OBVIOUS
<1> DEFINE X == {i \in Items : place[i] = "second"}
<1>1. /\ connector = "drive" /\ attached' = ~attached /\ UNCHANGED <<place, rev>>
      /\ feed' = Append(feed, c) /\ UNCHANGED <<connector, cursor, table>>
      /\ excused' = excused \cup X
      /\ run' = IF Running THEN [run EXCEPT !.skipped = @ \cup X] ELSE run
  BY <1>0 DEF MoveFolder, Record
<1>2. c \in Change /\ c.id = Folder /\ c.removed = FALSE /\ c.out = {k \in Items : ~InScope(k)'}
  BY <1>0 DEF Change, Ids
<1>3. X \subseteq Items /\ \A k \in Items \ X : place[k] # "second"
  OBVIOUS
<1> HIDE DEF X
<1>4. \A k \in Items : (InScope(k)' <=> place[k] = "first" \/ (place[k] = "second" /\ attached'))
                       /\ (Live(k)' <=> Live(k))
  BY <1>1 DEF InScope, Live
<1>5. \A k \in Items \ X : InScope(k)' <=> InScope(k)
  BY <1>3, <1>4 DEF InScope
<1>6. Told(c, X)
  BY <1>1, <1>2, <1>3, <1>4, <1>5 DEF Told, Typed
<1> QED BY <1>6

\* Every change of the collection is told of, but for a page that slips to the other
\* response of a listing.
LEMMA ChangesTold ==
  ASSUME Typed, Changes
  PROVE  (\E c, X : Told(c, X)) \/ \E i \in Items : Shift(i)
<1>1. CASE MoveFolder
  BY <1>1, MoveFolderTold
<1>2. ASSUME NEW i \in Items, Edit(i) PROVE \E c, X : Told(c, X)
  BY <1>2, EditTold
<1>3. ASSUME NEW i \in Items, Delete(i) PROVE \E c, X : Told(c, X)
  <2>1. Goes(i, "gone", TRUE) /\ "gone" \in Places /\ "gone" \notin Containers
    BY <1>3 DEF Delete, Places, Containers
  <2> QED BY <2>1, GoesTold
<1>4. ASSUME NEW i \in Items, Move(i) PROVE \E c, X : Told(c, X)
  <2>1. PICK to \in (Containers \cup {"away"}) \ {place[i]} :
          (connector = "notion" => "away" \in {to, place[i]}) /\ Goes(i, to, FALSE)
    BY <1>4 DEF Move
  <2>2. to \in Places /\ to \notin {"trash", "gone"} /\ "away" \notin Containers
    BY <2>1 DEF Places, Containers
  <2>3. connector # "drive" => connector = "notion"
    BY <1>4 DEF Move, Typed
  <2> QED BY <2>1, <2>2, <2>3, GoesTold
<1>5. ASSUME NEW i \in Items, Trash(i) PROVE \E c, X : Told(c, X)
  <2>1. Goes(i, "trash", TRUE) /\ "trash" \in Places /\ "trash" \notin Containers
    BY <1>5 DEF Trash, Places, Containers
  <2> QED BY <2>1, GoesTold
<1>6. ASSUME NEW i \in Items, Restore(i) PROVE \E c, X : Told(c, X)
  <2>1. PICK to \in Containers \cup {"away"} : Goes(i, to, FALSE)
    BY <1>6 DEF Restore
  <2>2. to \in Places /\ to \notin {"trash", "gone"} /\ place[i] \notin Containers
    BY <1>6 DEF Restore, Places, Containers
  <2> QED BY <2>1, <2>2, GoesTold
<1> QED BY <1>1, <1>2, <1>3, <1>4, <1>5, <1>6 DEF Changes

\* The record comes behind the others.
LEMMA ToldFeed ==
  ASSUME Typed, NEW c, NEW X, Told(c, X)
  PROVE  /\ Len(feed) \in Nat /\ Len(feed') = Len(feed) + 1 /\ feed' \in Seq(Change)
         /\ feed'[Len(feed) + 1] = c
         /\ \A n \in 1 .. Len(feed) : feed'[n] = feed[n]
BY DEF Typed, Told

LEMMA ToldChanged ==
  ASSUME Typed, NEW c, NEW X, Told(c, X), NEW n \in Nat, n <= Len(feed), NEW i
  PROVE  ChangedAfter(n, i)' <=> ChangedAfter(n, i) \/ c.id = i
<1>1. \A x \in n + 1 .. Len(feed) : x \in n + 1 .. Len(feed') /\ feed'[x] = feed[x]
  BY ToldFeed
<1>2. Len(feed) + 1 \in n + 1 .. Len(feed') /\ feed'[Len(feed) + 1] = c
  BY ToldFeed
<1>3. \A x \in n + 1 .. Len(feed') : x \in n + 1 .. Len(feed) \/ x = Len(feed) + 1
  BY ToldFeed
<1> QED BY <1>1, <1>2, <1>3 DEF ChangedAfter

\* What was out since the cursor remains so, and what is out now has been.
LEMMA ToldWasOut ==
  ASSUME Typed, NEW c, NEW X, Told(c, X), cursor # None, NEW i
  PROVE  /\ WasOutSince(i) => WasOutSince(i)'
         /\ i \in Items /\ ~InScope(i)' => WasOutSince(i)'
<1>1. cursor \in Nat /\ cursor <= Len(feed) /\ cursor' = cursor
  BY DEF Typed, Told
<1>2. \A x \in cursor + 1 .. Len(feed) : x \in cursor + 1 .. Len(feed') /\ feed'[x] = feed[x]
  BY <1>1, ToldFeed
<1>3. Len(feed) + 1 \in cursor + 1 .. Len(feed') /\ feed'[Len(feed) + 1] = c
  BY <1>1, ToldFeed
<1>4. i \in Items /\ ~InScope(i)' => i \in c.out
  BY DEF Told
<1> QED BY <1>1, <1>2, <1>3, <1>4 DEF WasOutSince

LEMMA ToldWorld ==
  ASSUME WorldInv, NEW c, NEW X, Told(c, X)
  PROVE  WorldInv'
<1>1. Typed
  BY DEF WorldInv
<1>2. /\ Len(feed) \in Nat /\ Len(feed') = Len(feed) + 1 /\ feed' \in Seq(Change)
      /\ feed'[Len(feed) + 1] = c
      /\ \A n \in 1 .. Len(feed) : feed'[n] = feed[n]
  BY <1>1, ToldFeed
<1>3. connector' = connector /\ cursor' = cursor /\ table' = table
  BY DEF Told
<1>4. cursor # None => cursor \in Nat /\ cursor <= Len(feed) /\ cursor < Len(feed')
  BY <1>1, <1>2 DEF Typed
<1>5. Typed'
  <2>1. run' \in Run
    BY <1>1 DEF Typed, Told, Run, Ids
  <2>2. cursor' \in Nat \cup {None}
    BY <1>1, <1>3 DEF Typed
  <2>3. cursor' # None => cursor' <= Len(feed')
    BY <1>2, <1>3, <1>4
  <2>4. place' \in [Items -> Places] /\ attached' \in BOOLEAN /\ rev' \in [Items -> Nat]
    BY DEF Told
  <2>5. connector' \in {"drive", "notion", "slack"} /\ DOMAIN table' \subseteq Items
    BY <1>1, <1>3 DEF Typed
  <2> QED BY <1>2, <2>1, <2>2, <2>3, <2>4, <2>5 DEF Typed
<1>6. Recorded'
  <2>1. connector' # "drive" => attached'
    BY <1>3 DEF WorldInv, Recorded, Told
  <2>2. feed'[Len(feed')].out = {i \in Items : ~InScope(i)'}
    BY <1>2 DEF Told
  <2>3. ASSUME NEW n \in 1 .. Len(feed'), feed'[n].removed
        PROVE  /\ feed'[n].id \in feed'[n].out
               /\ place'[feed'[n].id] \notin {"trash", "gone"} =>
                    \E m \in n + 1 .. Len(feed') : feed'[m].id = feed'[n].id /\ ~feed'[m].removed
    <3>1. CASE n = Len(feed) + 1
      <4>1. c.id \in Items /\ ~Live(c.id)'
        BY <1>2, <2>3, <3>1 DEF Told
      <4>2. ~InScope(c.id)'
        BY <4>1 DEF Live, InScope
      <4> QED BY <1>2, <3>1, <4>1, <4>2 DEF Told, Live
    <3>2. CASE n \in 1 .. Len(feed)
      <4>0. PICK i : i = feed[n].id
        OBVIOUS
      <4>1. feed'[n] = feed[n]
        BY <1>2, <3>2
      <4>2. feed[n].removed
        BY <2>3, <4>1
      <4>3. i \in feed[n].out
        BY <3>2, <4>0, <4>2 DEF WorldInv, Recorded
      <4>4. Live(i) => \E m \in n + 1 .. Len(feed) : feed[m].id = i /\ ~feed[m].removed
        BY <3>2, <4>0, <4>2 DEF WorldInv, Recorded
      <4>5. i \in Items
        <5>1. feed[n] \in Change
          BY <1>1, <3>2 DEF Typed
        <5> QED BY <4>0, <4>3, <5>1 DEF Change
      <4>6. Live(i)' => Live(i) \/ (c.id = i /\ ~c.removed)
        BY <4>5 DEF Told
      <4>7. Live(i) => \E m \in n + 1 .. Len(feed') : feed'[m].id = i /\ ~feed'[m].removed
        BY <1>2, <3>2, <4>4
      <4>8. c.id = i /\ ~c.removed =>
              \E m \in n + 1 .. Len(feed') : feed'[m].id = i /\ ~feed'[m].removed
        BY <1>2, <3>2
      <4> QED BY <4>0, <4>1, <4>3, <4>6, <4>7, <4>8 DEF Live
    <3> QED BY <1>2, <3>1, <3>2
  <2> QED BY <1>2, <2>1, <2>2, <2>3 DEF Recorded, Live
<1>7. TableTrue'
  <2> SUFFICES ASSUME cursor' # None, NEW i \in Items \ excused', ~ChangedAfter(cursor, i)'
               PROVE  /\ InScope(i)' <=> i \in DOMAIN table'
                      /\ InScope(i)' => table'[i] = rev'[i]
    BY DEF TableTrue
  <2>1. cursor \in Nat /\ cursor <= Len(feed) /\ cursor # None
    BY <1>3, <1>4
  <2>2. ChangedAfter(cursor, i)' <=> ChangedAfter(cursor, i) \/ c.id = i
    <3>1. ChangedAfter(cursor, i)' <=> \E x \in cursor + 1 .. Len(feed') : feed'[x].id = i
      BY <1>3 DEF ChangedAfter
    <3>2. \A x \in cursor + 1 .. Len(feed) : x \in cursor + 1 .. Len(feed') /\ feed'[x] = feed[x]
      BY <1>2, <2>1
    <3>3. Len(feed) + 1 \in cursor + 1 .. Len(feed') /\ feed'[Len(feed) + 1] = c
      BY <1>2, <2>1
    <3>4. \A x \in cursor + 1 .. Len(feed') : x \in cursor + 1 .. Len(feed) \/ x = Len(feed) + 1
      BY <1>2, <2>1
    <3> QED BY <3>1, <3>2, <3>3, <3>4 DEF ChangedAfter
  <2>3. i \notin X /\ i \notin excused /\ i # c.id /\ ~ChangedAfter(cursor, i)
    BY <2>2 DEF Told
  <2>4. rev'[i] = rev[i] /\ (InScope(i)' <=> InScope(i))
    BY <2>3 DEF Told
  <2> QED BY <1>3, <2>1, <2>3, <2>4 DEF WorldInv, TableTrue
<1>8. FirstEmpty'
  BY <1>3 DEF WorldInv, FirstEmpty
<1>9. Noticed'
  BY <1>3, <1>4 DEF Noticed
<1> QED BY <1>5, <1>6, <1>7, <1>8, <1>9 DEF WorldInv

\* What a change does to a run: some items are left out.
LEMMA ToldFields ==
  ASSUME Typed, NEW c, NEW X, Told(c, X), Running
  PROVE  /\ run'.mode = run.mode /\ run'.token = run.token /\ run'.read = run.read
         /\ run'.changed = run.changed /\ run'.deleted = run.deleted /\ run'.scope = run.scope
         /\ run'.todo = run.todo /\ run'.listed = run.listed /\ run'.rows = run.rows
         /\ run'.skipped = run.skipped \cup X
BY DEF Typed, Told, Run

\* An item that is current after the change was so before, and is where it was.
LEMMA ToldSpares ==
  ASSUME Typed, NEW c, NEW X, Told(c, X), Running, Token(run), NEW i \in Items,
         Current(run, i)'
  PROVE  /\ Current(run, i)
         /\ place'[i] = place[i] /\ rev'[i] = rev[i] /\ (InScope(i)' <=> InScope(i))
<1>1. run'.token = run.token /\ run'.skipped = run.skipped \cup X
  BY ToldFields
<1>2. run.token \in Nat /\ run.token <= Len(feed)
  BY DEF Typed, Run, Token
<1>3. PICK n : n = run.token
  OBVIOUS
<1>4. ChangedAfter(n, i)' <=> ChangedAfter(n, i) \/ c.id = i
  BY <1>2, <1>3, ToldChanged
<1>5. ~ChangedAfter(n, i)' /\ i \notin run.skipped /\ i \notin X
  BY <1>1, <1>3 DEF Current, ChangedAfter
<1> QED BY <1>3, <1>4, <1>5 DEF Current, Told

LEMMA ToldRun ==
  ASSUME WorldInv, RunInv(run), NEW c, NEW X, Told(c, X)
  PROVE  RunInv(run)'
<1>1. CASE ~Running
  BY <1>1 DEF Told, RunInv, Running
<1>2. CASE Running
  <2>1. /\ Typed
        /\ Token(run) /\ Shape(run) /\ WindowRead(run) /\ ScopeRead(run) /\ DeletedAreOut(run)
        /\ ReadSoFar(run) /\ DeletedWereOut(run) /\ ShownChanged(run) /\ StillShown(run)
    BY <1>2 DEF WorldInv, RunInv, Running
  <2>2. /\ run'.mode = run.mode /\ run'.token = run.token /\ run'.read = run.read
        /\ run'.changed = run.changed /\ run'.deleted = run.deleted /\ run'.scope = run.scope
        /\ run'.todo = run.todo /\ run'.listed = run.listed /\ run'.rows = run.rows
        /\ run'.skipped = run.skipped \cup X
    BY <1>2, <2>1, ToldFields
  <2>3. connector' = connector /\ cursor' = cursor /\ table' = table
    BY DEF Told
  <2>4. /\ Len(feed) \in Nat /\ Len(feed') = Len(feed) + 1
        /\ \A n \in 1 .. Len(feed) : feed'[n] = feed[n]
    BY <2>1, ToldFeed
  <2>5. /\ run.token \in Nat /\ run.read \in Nat /\ run.token <= Len(feed)
        /\ cursor # None => cursor \in Nat /\ cursor <= Len(feed)
    BY <2>1 DEF Typed, Run, Token
  <2>6. \A i \in Items : Current(run, i)' =>
          /\ Current(run, i)
          /\ place'[i] = place[i] /\ rev'[i] = rev[i] /\ (InScope(i)' <=> InScope(i))
    BY <1>2, <2>1, ToldSpares
  <2>7. /\ Incremental' <=> Incremental
        /\ \A i : HasRow(run, i)' <=> HasRow(run, i)
        /\ \A i : Dealt(run, i)' <=> Dealt(run, i)
    BY <2>2, <2>3 DEF Incremental, HasRow, Dealt
  <2>8. \A i : place'[i] = place[i] => (Pending(run, i)' <=> Pending(run, i))
    BY <2>2, <2>3, <2>7 DEF Pending
  <2>9. Token(run)'
    BY <2>1, <2>2, <2>3, <2>4, <2>5 DEF Token
  <2>10. Shape(run)'
    BY <2>1, <2>2, <2>3, <2>7 DEF Shape
  <2>11. WindowRead(run)'
    <3>1. ASSUME Incremental, run.mode = "changes"
          PROVE  /\ cursor <= run.read /\ run.read <= Len(feed')
                 /\ \A n \in cursor + 1 .. run.read :
                      feed'[n].id \in (IF feed'[n].removed THEN run.deleted ELSE run.changed)
                 /\ \A i \in run.deleted : \E n \in cursor + 1 .. run.read :
                      feed'[n].id = i /\ feed'[n].removed
                 /\ \A i \in run.changed : \E n \in cursor + 1 .. run.read : feed'[n].id = i
      <4>1. /\ cursor <= run.read /\ run.read <= Len(feed)
            /\ \A n \in cursor + 1 .. run.read : feed'[n] = feed[n]
        BY <2>1, <2>4, <2>5, <3>1 DEF WindowRead, Incremental
      <4>2. /\ \A n \in cursor + 1 .. run.read :
                 feed[n].id \in (IF feed[n].removed THEN run.deleted ELSE run.changed)
            /\ \A i \in run.deleted : \E n \in cursor + 1 .. run.read : feed[n].id = i /\ feed[n].removed
            /\ \A i \in run.changed : \E n \in cursor + 1 .. run.read : feed[n].id = i
        BY <2>1, <3>1 DEF WindowRead
      <4>3. run.read <= Len(feed')
        BY <2>4, <2>5, <4>1
      <4>4. \A n \in cursor + 1 .. run.read :
              feed'[n].id \in (IF feed'[n].removed THEN run.deleted ELSE run.changed)
        BY <4>1, <4>2
      <4>5. \A i \in run.deleted : \E n \in cursor + 1 .. run.read : feed'[n].id = i /\ feed'[n].removed
        BY <4>1, <4>2
      <4>6. \A i \in run.changed : \E n \in cursor + 1 .. run.read : feed'[n].id = i
        BY <4>1, <4>2
      <4> QED BY <4>1, <4>3, <4>4, <4>5, <4>6
    <3>2. ASSUME Incremental, run.mode \in {"scope", "look"}, NEW i \in Items
          PROVE  i \in run.changed \cup run.deleted
                   <=> \E n \in cursor + 1 .. run.token : feed'[n].id = i
      <4>1. \A n \in cursor + 1 .. run.token : feed'[n] = feed[n]
        BY <2>4, <2>5, <3>2 DEF Incremental
      <4>2. i \in run.changed \cup run.deleted <=> \E n \in cursor + 1 .. run.token : feed[n].id = i
        BY <2>1, <3>2 DEF WindowRead
      <4> QED BY <4>1, <4>2
    <3> QED BY <2>2, <2>3, <2>7, <3>1, <3>2 DEF WindowRead
  <2>12. ScopeRead(run)'
    BY <2>1, <2>2, <2>3, <2>6 DEF ScopeRead
  <2>13. DeletedAreOut(run)'
    BY <2>1, <2>2, <2>6 DEF DeletedAreOut
  <2>14. ReadSoFar(run)'
    <3> SUFFICES ASSUME run.mode = "look", NEW i \in Items, Current(run, i)'
                 PROVE  /\ Pending(run, i)' => i \notin run.listed /\ ~HasRow(run, i)
                        /\ i \in run.listed => InScope(i)' /\ ~HasRow(run, i)
                        /\ ~Pending(run, i)' /\ i \notin run.listed =>
                             IF Dealt(run, i)
                             THEN /\ InScope(i)' <=> HasRow(run, i)
                                  /\ \A x \in run.rows : x.id = i => x.body = rev'[i]
                                  /\ Incremental => HasRow(run, i) \/ i \in run.deleted
                             ELSE ~HasRow(run, i)
      BY <2>2, <2>7 DEF ReadSoFar
    <3>1. /\ Current(run, i) /\ rev'[i] = rev[i] /\ (InScope(i)' <=> InScope(i))
          /\ Pending(run, i)' <=> Pending(run, i)
      BY <2>6, <2>8
    <3> QED BY <2>1, <3>1 DEF ReadSoFar
  <2>15. DeletedWereOut(run)'
    <3>1. \A i : Incremental /\ WasOutSince(i) => WasOutSince(i)'
      BY <2>1, ToldWasOut DEF Incremental
    <3> QED BY <2>1, <2>2, <2>7, <3>1 DEF DeletedWereOut
  <2>16. ShownChanged(run)'
    BY <2>2, <2>4, <2>5 DEF ShownChanged
  <2>17. StillShown(run)'
    <3> SUFFICES ASSUME connector # "drive", NEW i \in DOMAIN table
                 PROVE  \/ i \in run.skipped \cup X \/ WasOutSince(i)' \/ Pending(run, i)'
                        \/ i \in run.listed \/ HasRow(run, i)
      BY <2>2, <2>3, <2>7 DEF StillShown
    <3>1. i \in Items /\ cursor # None
      BY <2>1 DEF Typed, WorldInv, FirstEmpty
    <3>2. /\ WasOutSince(i) => WasOutSince(i)'
          /\ ~InScope(i)' => WasOutSince(i)'
      BY <2>1, <3>1, ToldWasOut
    <3>3. CASE Pending(run, i) /\ InScope(i)'
      <4>1. place'[i] = place[i] \/ place[i] \notin Containers
        BY <3>1, <3>3 DEF Told
      <4>2. CASE connector = "notion" /\ run.scope = {}
        <5>1. Pending(run, i)'
          BY <2>2, <2>3, <3>3, <4>2 DEF Pending, Incremental
        <5> QED BY <5>1
      <4>3. CASE ~ (connector = "notion" /\ run.scope = {})
        <5>1. run.todo \subseteq Containers /\ place[i] \in run.todo
          BY <2>1, <3>3, <4>3 DEF Shape, Pending, Incremental
        <5>2. Pending(run, i)'
          BY <2>8, <3>3, <4>1, <5>1
        <5> QED BY <5>2
      <4> QED BY <4>2, <4>3
    <3> QED BY <2>1, <3>2, <3>3 DEF StillShown
  <2> QED BY <2>2, <2>9, <2>10, <2>11, <2>12, <2>13, <2>14, <2>15, <2>16, <2>17, <1>2
         DEF RunInv, Running
<1> QED BY <1>1, <1>2

\* A page that slips to the other response is in scope before and after, and left out.
LEMMA ShiftKeeps ==
  ASSUME IInv, NEW i \in Items, Shift(i)
  PROVE  IInv'
<1>1. /\ connector = "notion" /\ place[i] \in Containers
      /\ run.todo = {"second"} /\ run' = [run EXCEPT !.skipped = @ \cup {i}]
      /\ UNCHANGED <<connector, attached, rev, feed, cursor, table, errors, excused>>
  BY DEF Shift
<1>2. PICK to \in Containers : place' = [place EXCEPT ![i] = to]
  BY DEF Shift
<1>3. Typed /\ Recorded /\ attached /\ connector # "drive"
  BY <1>1 DEF IInv, WorldInv, Recorded
<1>4. Running
  BY <1>1, <1>3 DEF Running, IInv, RunInv, Idle
<1>5. /\ run'.mode = run.mode /\ run'.token = run.token /\ run'.read = run.read
      /\ run'.changed = run.changed /\ run'.deleted = run.deleted /\ run'.scope = run.scope
      /\ run'.todo = run.todo /\ run'.listed = run.listed /\ run'.rows = run.rows
      /\ run'.skipped = run.skipped \cup {i} /\ run' \in Run
  BY <1>1, <1>3 DEF Typed, Run, Ids
<1>6. /\ place' \in [Items -> Places] /\ place'[i] \in Containers
      /\ \A k \in Items \ {i} : place'[k] = place[k]
  BY <1>2, <1>3 DEF Typed, Places
<1>7. \A k \in Items : (InScope(k)' <=> InScope(k)) /\ (Live(k)' <=> Live(k))
  <2>1. \A k \in Items : (InScope(k)' <=> place'[k] \in Containers)
                         /\ (InScope(k) <=> place[k] \in Containers)
    BY <1>1, <1>3 DEF InScope, Containers
  <2>2. \A k \in Items : place[k] \in Containers => Live(k)
    BY DEF Live, Containers
  <2>3. \A k \in Items : place'[k] \in Containers => Live(k)'
    BY DEF Live, Containers
  <2> QED BY <1>1, <1>6, <2>1, <2>2, <2>3 DEF Live
<1>8. \A k : /\ ChangedAfter(run.token, k)' <=> ChangedAfter(run.token, k)
             /\ WasOutSince(k)' <=> WasOutSince(k)
             /\ HasRow(run, k)' <=> HasRow(run, k)
             /\ cursor # None => (ChangedAfter(cursor, k)' <=> ChangedAfter(cursor, k))
  BY <1>1, <1>5 DEF ChangedAfter, WasOutSince, HasRow
<1>9. Typed'
  BY <1>1, <1>3, <1>5, <1>6 DEF Typed
<1>10. Recorded'
  <2>1. {k \in Items : InScope(k)'} = {k \in Items : InScope(k)}
    BY <1>7
  <2>2. {k \in Items : ~InScope(k)'} = {k \in Items : ~InScope(k)}
    BY <1>7
  <2>3. ASSUME NEW n \in 1 .. Len(feed), feed[n].removed
        PROVE  /\ feed[n].id \in feed[n].out
               /\ place'[feed[n].id] \notin {"trash", "gone"} =>
                    \E m \in n + 1 .. Len(feed) : feed[m].id = feed[n].id /\ ~feed[m].removed
    <3>1. PICK k : k = feed[n].id
      OBVIOUS
    <3>2. /\ k \in feed[n].out
          /\ Live(k) => \E m \in n + 1 .. Len(feed) : feed[m].id = k /\ ~feed[m].removed
      BY <1>3, <2>3, <3>1 DEF Recorded
    <3>3. feed[n] \in Change
      BY <1>3 DEF Typed
    <3>4. Live(k)' <=> Live(k)
      BY <1>7, <3>2, <3>3 DEF Change
    <3> QED BY <3>1, <3>2, <3>4 DEF Live
  <2> QED BY <1>1, <1>3, <2>2, <2>3 DEF Recorded, Live
<1>11. TableTrue' /\ FirstEmpty' /\ Noticed'
  BY <1>1, <1>3, <1>7, <1>8 DEF IInv, WorldInv, TableTrue, FirstEmpty, Noticed, Typed
<1>12. /\ Token(run) /\ Shape(run) /\ WindowRead(run) /\ ScopeRead(run) /\ DeletedAreOut(run)
       /\ ReadSoFar(run) /\ DeletedWereOut(run) /\ ShownChanged(run) /\ StillShown(run)
  BY <1>4 DEF IInv, RunInv, Running
<1>13. \A k \in Items : Current(run, k)' => Current(run, k) /\ k # i
  BY <1>5, <1>8 DEF Current
<1>14. ~Incremental /\ ~Incremental'
  BY <1>1 DEF Incremental
<1>15. \A k \in Items \ {i} : Pending(run, k)' <=> Pending(run, k)
  BY <1>1, <1>5, <1>6, <1>14 DEF Pending
<1>16. Token(run)' /\ Shape(run)' /\ WindowRead(run)' /\ ScopeRead(run)' /\ DeletedWereOut(run)'
  BY <1>1, <1>5, <1>12, <1>14 DEF Token, Shape, WindowRead, ScopeRead, DeletedWereOut
<1>17. DeletedAreOut(run)'
  BY <1>5, <1>7, <1>12, <1>13 DEF DeletedAreOut
<1>18. ReadSoFar(run)'
  <2> SUFFICES ASSUME run.mode = "look", NEW k \in Items, Current(run, k)'
               PROVE  /\ Pending(run, k)' => k \notin run.listed /\ ~HasRow(run, k)
                      /\ k \in run.listed => InScope(k)' /\ ~HasRow(run, k)
                      /\ ~Pending(run, k)' /\ k \notin run.listed =>
                           /\ InScope(k)' <=> HasRow(run, k)
                           /\ \A x \in run.rows : x.id = k => x.body = rev'[k]
    BY <1>5, <1>8, <1>14 DEF ReadSoFar, Dealt
  <2> QED BY <1>1, <1>7, <1>12, <1>13, <1>14, <1>15 DEF ReadSoFar, Dealt
<1>19. ShownChanged(run)'
  BY <1>1, <1>5, <1>7, <1>8, <1>12 DEF ShownChanged
<1>20. StillShown(run)'
  <2> SUFFICES ASSUME NEW k \in DOMAIN table
               PROVE  \/ k \in run.skipped \cup {i} \/ WasOutSince(k) \/ Pending(run, k)'
                      \/ k \in run.listed \/ HasRow(run, k)
    BY <1>1, <1>5, <1>8 DEF StillShown
  <2> QED BY <1>3, <1>12, <1>15 DEF StillShown, Typed
<1> QED BY <1>4, <1>5, <1>9, <1>10, <1>11, <1>16, <1>17, <1>18, <1>19, <1>20
        DEF IInv, WorldInv, RunInv, Running

LEMMA ChangesKeep ==
  ASSUME IInv, Changes
  PROVE  IInv'
BY ChangesTold, ToldWorld, ToldRun, ShiftKeeps DEF IInv, WorldInv

LEMMA InitKeeps == Init => IInv
<1> SUFFICES ASSUME Init PROVE IInv
  OBVIOUS
<1>1. Idle \in Run
  BY DEF Idle, Run
<1>2. place \in [Items -> Containers \cup {"away"}] /\ Containers \cup {"away"} \subseteq Places
  BY DEF Init, Places
<1>3. place \in [Items -> Places]
  BY <1>2
<1>4. Typed
  BY <1>1, <1>3, Bounds DEF Init, Typed
<1>5. Recorded /\ TableTrue /\ FirstEmpty /\ Noticed
  BY DEF Init, Recorded, TableTrue, FirstEmpty, Noticed
<1> QED BY <1>4, <1>5 DEF IInv, WorldInv, RunInv, Init, Idle

-----------------------------------------------------------------------------
(* The run goes on.                                                        *)

Quiet ==
  /\ run' \in Run /\ RunInv(run')
  /\ UNCHANGED <<connector, place, attached, rev, feed, cursor, table, excused>>

LEMMA QuietKeeps ==
  ASSUME WorldInv, Quiet
  PROVE  IInv'
<1>1. Typed' /\ Recorded' /\ TableTrue' /\ FirstEmpty' /\ Noticed'
  BY DEF WorldInv, Quiet, Typed, Recorded, TableTrue, FirstEmpty, Noticed, InScope, Live, ChangedAfter
<1>2. PICK r : r = run'
  OBVIOUS
<1>3. RunInv(r) /\ connector' = connector /\ place' = place /\ attached' = attached /\ rev' = rev
      /\ feed' = feed /\ cursor' = cursor /\ table' = table
  BY <1>2 DEF Quiet
<1>4. RunInv(r)'
  BY <1>3 DEF RunInv, Token, Shape, WindowRead, ScopeRead, DeletedAreOut, ReadSoFar, DeletedWereOut,
     ShownChanged, StillShown, Current, Pending, Incremental, HasRow, Dealt, WasOutSince, InScope,
     ChangedAfter
<1> QED BY <1>1, <1>2, <1>4 DEF IInv, WorldInv

\* A run that ends without a load leaves nothing behind.
LEMMA EndsQuietly ==
  ASSUME run' = Idle, UNCHANGED <<connector, remote, cursor, table, excused>>
  PROVE  Quiet
<1>1. Idle \in Run /\ RunInv(Idle)
  BY DEF Idle, Run, RunInv
<1> QED BY <1>1 DEF Quiet, remote

LEMMA DriveStarts ==
  ASSUME IInv, connector = "drive", DriveStart
  PROVE  Quiet
<1>1. PICK r : r = IF cursor = None
                   THEN [Idle EXCEPT !.mode = "scope", !.token = Len(feed)]
                   ELSE [Idle EXCEPT !.mode = "changes", !.token = cursor, !.read = cursor]
  OBVIOUS
<1>2. run' = r /\ UNCHANGED <<connector, remote, cursor, table, errors, excused>>
  BY <1>1 DEF DriveStart, Goto, Idle, remote
<1>3. Len(feed) \in Nat /\ (cursor # None => cursor \in Nat /\ cursor <= Len(feed))
  BY DEF IInv, WorldInv, Typed
<1>4. r \in Run
  BY <1>1, <1>3 DEF Idle, Run
<1>5. /\ r.changed = {} /\ r.deleted = {} /\ r.scope = {} /\ r.todo = {} /\ r.listed = {}
      /\ r.rows = {} /\ r.skipped = {}
      /\ IF cursor = None THEN r.mode = "scope" /\ r.token = Len(feed)
         ELSE r.mode = "changes" /\ r.token = cursor /\ r.read = cursor
  BY <1>1 DEF Idle
<1>6. Token(r) /\ Shape(r)
  BY <1>3, <1>5 DEF Token, Shape, Incremental
<1>7. WindowRead(r)
  BY <1>3, <1>5 DEF WindowRead, Incremental
<1>8. ScopeRead(r) /\ DeletedAreOut(r) /\ ReadSoFar(r) /\ DeletedWereOut(r) /\ ShownChanged(r)
      /\ StillShown(r)
  BY <1>5 DEF ScopeRead, DeletedAreOut, ReadSoFar, DeletedWereOut, ShownChanged, StillShown
<1>9. RunInv(r)
  BY <1>5, <1>6, <1>7, <1>8 DEF RunInv
<1> QED BY <1>2, <1>4, <1>9 DEF Quiet, remote

\* What has been read of the feed up to its n-th change.
WindowIs(n, changed, deleted) ==
  /\ \A m \in cursor + 1 .. n : feed[m].id \in (IF feed[m].removed THEN deleted ELSE changed)
  /\ \A i \in deleted : \E m \in cursor + 1 .. n : feed[m].id = i /\ feed[m].removed
  /\ \A i \in changed : \E m \in cursor + 1 .. n : feed[m].id = i

Page(read, end) == {feed[n] : n \in read + 1 .. end}
ChangedIn(page) == {x.id : x \in {y \in page : ~y.removed}}
RemovedIn(page) == {x.id : x \in {y \in page : y.removed}}

LEMMA PageRead ==
  ASSUME Typed, cursor # None, NEW read \in Nat, NEW end \in Nat,
         cursor <= read, read <= end, end <= Len(feed),
         NEW changed \in SUBSET Ids, NEW deleted \in SUBSET Ids, WindowIs(read, changed, deleted),
         NEW page, page = Page(read, end)
  PROVE  /\ changed \cup ChangedIn(page) \subseteq Ids
         /\ deleted \cup RemovedIn(page) \subseteq Ids
         /\ WindowIs(end, changed \cup ChangedIn(page), deleted \cup RemovedIn(page))
<1>1. cursor \in Nat /\ Len(feed) \in Nat /\ feed \in Seq(Change)
  BY DEF Typed
<1>2. \A n \in read + 1 .. end : feed[n] \in Change /\ n \in cursor + 1 .. end
  BY <1>1
<1>3. \A i : /\ i \in ChangedIn(page) <=> \E n \in read + 1 .. end : feed[n].id = i /\ ~feed[n].removed
             /\ i \in RemovedIn(page) <=> \E n \in read + 1 .. end : feed[n].id = i /\ feed[n].removed
  BY DEF Page, ChangedIn, RemovedIn
<1>4. ChangedIn(page) \subseteq Ids /\ RemovedIn(page) \subseteq Ids
  BY <1>2, <1>3 DEF Change
<1>5. \A m \in cursor + 1 .. end : m \in cursor + 1 .. read \/ m \in read + 1 .. end
  BY <1>1
<1>6. \A m \in cursor + 1 .. read : m \in cursor + 1 .. end
  BY <1>1
<1>7. PICK C, D : C = changed \cup ChangedIn(page) /\ D = deleted \cup RemovedIn(page)
  OBVIOUS
<1>8. ASSUME NEW m \in cursor + 1 .. end
      PROVE  feed[m].id \in (IF feed[m].removed THEN D ELSE C)
  <2>1. CASE m \in cursor + 1 .. read
    BY <1>7, <2>1 DEF WindowIs
  <2>2. CASE m \in read + 1 .. end
    <3>1. feed[m].removed \in BOOLEAN
      BY <1>2, <2>2 DEF Change
    <3> QED BY <1>3, <1>7, <2>2, <3>1
  <2> QED BY <1>5, <2>1, <2>2
<1>9. ASSUME NEW i \in D
      PROVE  \E m \in cursor + 1 .. end : feed[m].id = i /\ feed[m].removed
  <2>1. CASE i \in deleted
    BY <1>6, <2>1 DEF WindowIs
  <2>2. CASE i \in RemovedIn(page)
    <3>1. PICK n \in read + 1 .. end : feed[n].id = i /\ feed[n].removed
      BY <1>3, <2>2
    <3> QED BY <1>2, <3>1
  <2> QED BY <1>7, <2>1, <2>2
<1>10. ASSUME NEW i \in C
       PROVE  \E m \in cursor + 1 .. end : feed[m].id = i
  <2>1. CASE i \in changed
    BY <1>6, <2>1 DEF WindowIs
  <2>2. CASE i \in ChangedIn(page)
    BY <1>2, <1>3, <2>2
  <2> QED BY <1>7, <2>1, <2>2
<1>11. WindowIs(end, C, D)
  BY <1>8, <1>9, <1>10 DEF WindowIs
<1> QED BY <1>4, <1>7, <1>11

\* A tombstone of the feed is of an item that was out after that change; it is out now
\* unless the feed tells of a later change of it.
LEMMA RemovedWereOut ==
  ASSUME Typed, Recorded, cursor # None, NEW end \in Nat, end <= Len(feed),
         NEW changed, NEW deleted, WindowIs(end, changed, deleted), NEW i \in deleted
  PROVE  /\ WasOutSince(i)
         /\ end = Len(feed) /\ InScope(i) => i \in changed
<1>1. PICK n \in cursor + 1 .. end : feed[n].id = i /\ feed[n].removed
  BY DEF WindowIs
<1>2. cursor \in Nat /\ n \in 1 .. Len(feed) /\ n \in cursor + 1 .. Len(feed)
  BY <1>1 DEF Typed
<1>3. /\ i \in feed[n].out
      /\ Live(i) => \E m \in n + 1 .. Len(feed) : feed[m].id = i /\ ~feed[m].removed
  BY <1>1, <1>2 DEF Recorded
<1>4. InScope(i) => Live(i)
  BY DEF InScope, Live
<1>5. \A m \in n + 1 .. Len(feed) : m \in cursor + 1 .. Len(feed)
  BY <1>2
<1> QED BY <1>2, <1>3, <1>4, <1>5 DEF WasOutSince, WindowIs

LEMMA DriveListChanged ==
  ASSUME IInv, connector = "drive", ListChangedFileIds
  PROVE  Quiet
<1>1. /\ run.mode = "changes" /\ Typed /\ Recorded /\ Shape(run) /\ WindowRead(run)
      /\ Token(run)
  BY DEF ListChangedFileIds, IInv, WorldInv, RunInv
<1>2. PICK end, page, changed, deleted :
        /\ end = IF run.read + PageSize < Len(feed) THEN run.read + PageSize ELSE Len(feed)
        /\ page = Page(run.read, end)
        /\ changed = run.changed \cup ChangedIn(page)
        /\ deleted = run.deleted \cup RemovedIn(page)
  OBVIOUS
<1>4. PICK r : r = IF end < Len(feed)
                THEN [run EXCEPT !.read = end, !.changed = changed, !.deleted = deleted]
                ELSE [run EXCEPT !.token = end, !.read = end,
                                 !.changed = changed \ deleted, !.deleted = deleted,
                                 !.skipped = @ \cup (changed \cap deleted),
                                 !.mode = IF changed \subseteq deleted THEN "look" ELSE "scope"]
  OBVIOUS
<1>5. run' = r /\ UNCHANGED <<connector, remote, cursor, table, errors, excused>>
  BY <1>2, <1>4 DEF Page, ChangedIn, RemovedIn, ListChangedFileIds, Goto, remote
<1>6. /\ cursor # None /\ cursor \in Nat /\ Incremental /\ run.read \in Nat /\ cursor <= run.read
      /\ run.read <= Len(feed) /\ Len(feed) \in Nat
      /\ run.changed \in SUBSET Ids /\ run.deleted \in SUBSET Ids
      /\ WindowIs(run.read, run.changed, run.deleted)
  BY <1>1 DEF Typed, Run, Shape, WindowRead, WindowIs, Incremental
<1>8. end \in Nat /\ run.read <= end /\ end <= Len(feed) /\ cursor <= end
  BY <1>2, <1>6, Bounds
<1>9. changed \subseteq Ids /\ deleted \subseteq Ids /\ WindowIs(end, changed, deleted)
  <2>1. PICK read, old, gone : read = run.read /\ old = run.changed /\ gone = run.deleted
    OBVIOUS
  <2>2. /\ read \in Nat /\ cursor <= read /\ read <= end
        /\ old \in SUBSET Ids /\ gone \in SUBSET Ids /\ WindowIs(read, old, gone)
        /\ page = Page(read, end)
    BY <1>2, <1>6, <1>8, <2>1
  <2>3. /\ old \cup ChangedIn(page) \subseteq Ids /\ gone \cup RemovedIn(page) \subseteq Ids
        /\ WindowIs(end, old \cup ChangedIn(page), gone \cup RemovedIn(page))
    <3>1. /\ Typed /\ cursor # None /\ end \in Nat /\ end <= Len(feed)
          /\ read \in Nat /\ cursor <= read /\ read <= end
          /\ old \in SUBSET Ids /\ gone \in SUBSET Ids /\ WindowIs(read, old, gone)
          /\ page = Page(read, end)
      BY <1>1, <1>6, <1>8, <2>2
    <3> QED BY <3>1, PageRead, Zenon
  <2> QED BY <1>2, <2>1, <2>3
<1>10. \A i \in deleted : WasOutSince(i) /\ (end = Len(feed) /\ InScope(i) => i \in changed)
  BY <1>1, <1>6, <1>8, <1>9, RemovedWereOut
<1>11. /\ run.scope = {} /\ run.todo = {} /\ run.listed = {} /\ run.rows = {}
  BY <1>1 DEF Shape
<1>12. CASE end < Len(feed)
  <2>1. /\ r \in Run /\ r.mode = "changes" /\ r.token = run.token /\ r.read = end
        /\ r.changed = changed /\ r.deleted = deleted /\ r.scope = {} /\ r.todo = {}
        /\ r.listed = {} /\ r.rows = {} /\ r.skipped = run.skipped
    BY <1>1, <1>4, <1>8, <1>9, <1>11, <1>12 DEF Typed, Run
  <2>2. Token(r) /\ Shape(r)
    BY <1>1, <1>6, <2>1 DEF Token, Shape
  <2>3. WindowRead(r)
    BY <1>8, <1>9, <2>1 DEF WindowRead, WindowIs
  <2>4. ScopeRead(r) /\ DeletedAreOut(r) /\ ReadSoFar(r) /\ ShownChanged(r) /\ StillShown(r)
    BY <2>1 DEF ScopeRead, DeletedAreOut, ReadSoFar, ShownChanged, StillShown
  <2>5. DeletedWereOut(r)
    BY <1>10, <2>1 DEF DeletedWereOut
  <2>6. RunInv(r)
    BY <2>1, <2>2, <2>3, <2>4, <2>5 DEF RunInv
  <2> QED BY <1>5, <2>1, <2>6 DEF Quiet, remote
<1>13. CASE ~(end < Len(feed))
  <2>1. /\ r \in Run /\ r.token = end /\ r.read = end
        /\ r.mode = IF changed \subseteq deleted THEN "look" ELSE "scope"
        /\ r.changed = changed \ deleted /\ r.deleted = deleted /\ r.scope = {} /\ r.todo = {}
        /\ r.listed = {} /\ r.rows = {} /\ r.skipped = run.skipped \cup (changed \cap deleted)
    <3>1. r = [run EXCEPT !.token = end, !.read = end,
                          !.changed = changed \ deleted, !.deleted = deleted,
                          !.skipped = @ \cup (changed \cap deleted),
                          !.mode = IF changed \subseteq deleted THEN "look" ELSE "scope"]
      BY <1>4, <1>13
    <3> QED BY <1>1, <1>8, <1>9, <1>11, <3>1 DEF Typed, Run
  <2>2. end = Len(feed)
    BY <1>6, <1>8, <1>13
  <2>3. Token(r) /\ Shape(r)
    BY <1>1, <1>6, <1>8, <2>1, <2>2 DEF Token, Shape
  <2>4. WindowRead(r)
    <3>1. \A i : i \in changed \cup deleted <=> \E n \in cursor + 1 .. end : feed[n].id = i
      BY <1>9 DEF WindowIs
    <3> QED BY <2>1, <3>1 DEF WindowRead
  <2>5. DeletedAreOut(r)
    BY <1>10, <2>1, <2>2 DEF DeletedAreOut, Current
  <2>6. ReadSoFar(r)
    <3>1. \A i : ~Pending(r, i) /\ ~HasRow(r, i)
      BY <1>6, <2>1 DEF Pending, HasRow
    <3>2. r.mode = "look" => \A i : Dealt(r, i) => i \in r.deleted
      BY <1>6, <2>1 DEF Dealt
    <3> QED BY <2>1, <2>5, <3>1, <3>2 DEF ReadSoFar, DeletedAreOut
  <2>7. ScopeRead(r) /\ ShownChanged(r) /\ StillShown(r)
    BY <2>1 DEF ScopeRead, ShownChanged, StillShown
  <2>8. DeletedWereOut(r)
    BY <1>10, <2>1 DEF DeletedWereOut
  <2>9. RunInv(r)
    BY <2>1, <2>3, <2>4, <2>5, <2>6, <2>7, <2>8 DEF RunInv
  <2> QED BY <1>5, <2>1, <2>9 DEF Quiet, remote
<1> QED BY <1>12, <1>13

LEMMA DriveScope ==
  ASSUME IInv, connector = "drive", GetScopeFolderIds
  PROVE  Quiet
<1>1. /\ run.mode = "scope" /\ Typed /\ Token(run) /\ Shape(run) /\ WindowRead(run)
      /\ DeletedAreOut(run) /\ DeletedWereOut(run)
  BY DEF GetScopeFolderIds, IInv, WorldInv, RunInv
<1>2. PICK scope : scope = {"first"} \cup (IF attached THEN {"second"} ELSE {})
  OBVIOUS
<1>3. PICK r : r = [run EXCEPT !.mode = "look", !.scope = scope,
                               !.todo = IF cursor = None THEN scope ELSE run.changed]
  OBVIOUS
<1>4. run' = r /\ UNCHANGED <<connector, remote, cursor, table, errors, excused>>
  BY <1>2, <1>3 DEF GetScopeFolderIds, Goto, remote
<1>5. scope # {} /\ scope \subseteq Containers /\ \A i : place[i] \in scope <=> InScope(i)
  BY <1>2 DEF Containers, InScope
<1>6. /\ r \in Run /\ r.mode = "look" /\ r.token = run.token
      /\ r.changed = run.changed /\ r.deleted = run.deleted /\ r.scope = scope
      /\ r.todo = (IF cursor = None THEN scope ELSE run.changed)
      /\ r.listed = {} /\ r.rows = {} /\ r.skipped = run.skipped
  BY <1>1, <1>3, <1>5 DEF Typed, Run, Shape
<1>7. Token(r) /\ Shape(r)
  BY <1>1, <1>5, <1>6 DEF Token, Shape, Incremental
<1>8. WindowRead(r) /\ ScopeRead(r) /\ DeletedAreOut(r) /\ DeletedWereOut(r)
  BY <1>1, <1>5, <1>6 DEF WindowRead, ScopeRead, DeletedAreOut, DeletedWereOut, Current
<1>9. ReadSoFar(r)
  <2>1. \A i : ~HasRow(r, i)
    BY <1>6 DEF HasRow
  <2>2. \A i \in Items : Current(r, i) /\ ~Pending(r, i) /\ Dealt(r, i) =>
          ~InScope(i) /\ (Incremental => i \in r.deleted)
    <3>1. CASE Incremental
      BY <1>1, <1>6, <3>1 DEF Pending, Dealt, DeletedAreOut, Current, Incremental
    <3>2. CASE ~Incremental
      BY <1>5, <1>6, <3>2 DEF Pending, Incremental
    <3> QED BY <3>1, <3>2
  <2> QED BY <1>6, <2>1, <2>2 DEF ReadSoFar
<1>10. ShownChanged(r) /\ StillShown(r)
  BY DEF ShownChanged, StillShown
<1>11. RunInv(r)
  BY <1>6, <1>7, <1>8, <1>9, <1>10 DEF RunInv
<1> QED BY <1>4, <1>6, <1>11 DEF Quiet, remote

\* The listing of a folder of the Drive, or the response of a Notion request, shows
\* what is there.
Listing(k) == {i \in Items : place[i] = k}

LEMMA Lists ==
  ASSUME IInv, run.mode = "look", run.listed = {}, NEW k \in run.todo, ~Incremental,
         connector = "drive" \/ (connector = "notion" /\ run.scope # {}),
         NEW r, r = [run EXCEPT !.todo = @ \ {k}, !.listed = Listing(k)]
  PROVE  r \in Run /\ RunInv(r)
<1>1. /\ Typed /\ Token(run) /\ Shape(run) /\ ScopeRead(run) /\ ReadSoFar(run)
      /\ ShownChanged(run) /\ StillShown(run) /\ (connector # "drive" => attached)
  BY DEF IInv, WorldInv, RunInv, Recorded
<1>2. /\ r \in Run /\ r.mode = "look" /\ r.token = run.token
      /\ r.changed = run.changed /\ r.deleted = run.deleted /\ r.scope = run.scope
      /\ r.todo = run.todo \ {k} /\ r.listed = Listing(k)
      /\ r.rows = run.rows /\ r.skipped = run.skipped
  BY <1>1 DEF Typed, Run, Listing
<1>3. \A i : /\ HasRow(r, i) <=> HasRow(run, i)
             /\ Current(r, i) <=> Current(run, i)
             /\ Dealt(r, i)
             /\ Pending(run, i) <=> place[i] \in run.todo
             /\ Pending(r, i) <=> place[i] \in run.todo \ {k}
  BY <1>2 DEF HasRow, Current, Dealt, Pending
<1>4. \A i : i \in r.listed <=> i \in Items /\ place[i] = k
  BY <1>2 DEF Listing
<1>5. \A i \in Items : place[i] = k /\ (Current(run, i) \/ connector # "drive") => InScope(i)
  <2>1. CASE connector = "drive"
    BY <1>1, <2>1 DEF Shape, Incremental, ScopeRead
  <2>2. CASE connector # "drive"
    BY <1>1, <2>2 DEF Shape, InScope, Containers
  <2> QED BY <2>1, <2>2
<1>6. Token(r) /\ Shape(r)
  BY <1>1, <1>2 DEF Token, Shape
<1>7. WindowRead(r) /\ DeletedAreOut(r) /\ DeletedWereOut(r)
  BY <1>1, <1>2 DEF WindowRead, DeletedAreOut, DeletedWereOut, Shape
<1>8. ScopeRead(r)
  BY <1>1, <1>2, <1>3 DEF ScopeRead
<1>9. ReadSoFar(r)
  BY <1>1, <1>2, <1>3, <1>4, <1>5 DEF ReadSoFar, Dealt
<1>10. ShownChanged(r)
  BY <1>1, <1>2, <1>3, <1>4, <1>5 DEF ShownChanged
<1>11. StillShown(r)
  <2> SUFFICES ASSUME connector # "drive", NEW i \in DOMAIN table
               PROVE  \/ i \in r.skipped \/ WasOutSince(i) \/ Pending(r, i)
                      \/ i \in r.listed \/ HasRow(r, i)
    BY DEF StillShown
  <2>1. i \in Items
    BY <1>1 DEF Typed
  <2> QED BY <1>1, <1>2, <1>3, <1>4, <2>1 DEF StillShown
<1> QED BY <1>2, <1>6, <1>7, <1>8, <1>9, <1>10, <1>11 DEF RunInv

\* The row of a listed item has its content.
LEMMA RowYielded ==
  ASSUME IInv, run.mode = "look", NEW i \in run.listed,
         NEW r, r = [run EXCEPT !.listed = @ \ {i}, !.rows = @ \cup {[id |-> i, body |-> rev[i]]}]
  PROVE  r \in Run /\ RunInv(r)
<1>1. /\ Typed /\ Token(run) /\ Shape(run) /\ WindowRead(run) /\ ScopeRead(run)
      /\ DeletedAreOut(run) /\ ReadSoFar(run) /\ DeletedWereOut(run) /\ ShownChanged(run)
      /\ StillShown(run)
  BY DEF IInv, WorldInv, RunInv
<1>2. PICK row : row = [id |-> i, body |-> rev[i]]
  OBVIOUS
<1>3. i \in Items /\ row \in Row /\ row.id = i /\ row.body = rev[i]
  BY <1>1, <1>2 DEF Typed, Run, Row
<1>4. /\ r \in Run /\ r.mode = "look" /\ r.token = run.token
      /\ r.changed = run.changed /\ r.deleted = run.deleted /\ r.scope = run.scope
      /\ r.todo = run.todo /\ r.listed = run.listed \ {i}
      /\ r.rows = run.rows \cup {row} /\ r.skipped = run.skipped
  BY <1>1, <1>2, <1>3 DEF Typed, Run
<1>5. \A k : /\ HasRow(r, k) <=> HasRow(run, k) \/ k = i
             /\ Current(r, k) <=> Current(run, k)
             /\ Dealt(r, k) <=> Dealt(run, k)
             /\ Pending(r, k) <=> Pending(run, k)
  BY <1>4, <1>3 DEF HasRow, Current, Dealt, Pending
<1>6. Token(r) /\ Shape(r) /\ WindowRead(r) /\ DeletedAreOut(r) /\ DeletedWereOut(r) /\ ScopeRead(r)
  BY <1>1, <1>4, <1>5 DEF Token, Shape, WindowRead, DeletedAreOut, DeletedWereOut, ScopeRead
<1>7. ReadSoFar(r)
  <2> SUFFICES ASSUME NEW k \in Items, Current(run, k)
               PROVE  /\ Pending(r, k) => k \notin r.listed /\ ~HasRow(r, k)
                      /\ k \in r.listed => InScope(k) /\ ~HasRow(r, k)
                      /\ ~Pending(r, k) /\ k \notin r.listed =>
                           IF Dealt(r, k)
                           THEN /\ InScope(k) <=> HasRow(r, k)
                                /\ \A x \in r.rows : x.id = k => x.body = rev[k]
                                /\ Incremental => HasRow(r, k) \/ k \in r.deleted
                           ELSE ~HasRow(r, k)
    BY <1>5 DEF ReadSoFar
  <2>1. CASE k = i
    <3>1. InScope(i) /\ ~HasRow(run, i) /\ ~Pending(run, i)
      BY <1>1, <2>1 DEF ReadSoFar
    <3>2. Dealt(run, i)
      BY <1>1 DEF Shape, Dealt
    <3>3. \A x \in r.rows : x.id = i => x.body = rev[i]
      BY <1>4, <1>3, <3>1 DEF HasRow
    <3> QED BY <1>4, <1>5, <2>1, <3>1, <3>2, <3>3
  <2>2. CASE k # i
    <3>1. \A x \in r.rows : x.id = k => x \in run.rows
      BY <1>4, <1>3, <2>2
    <3> QED BY <1>1, <1>4, <1>5, <2>2, <3>1 DEF ReadSoFar
  <2> QED BY <2>1, <2>2
<1>8. ShownChanged(r) /\ StillShown(r)
  BY <1>1, <1>4, <1>5, <1>3 DEF ShownChanged, StillShown
<1> QED BY <1>4, <1>6, <1>7, <1>8 DEF RunInv

\* What is skipped owes nothing.
LEMMA ItemsSkipped ==
  ASSUME IInv, run.mode = "look", NEW S \in SUBSET Items,
         NEW r, r = [run EXCEPT !.listed = @ \ S, !.skipped = @ \cup S]
  PROVE  r \in Run /\ RunInv(r)
<1>1. /\ Typed /\ Token(run) /\ Shape(run) /\ WindowRead(run) /\ ScopeRead(run)
      /\ DeletedAreOut(run) /\ ReadSoFar(run) /\ DeletedWereOut(run) /\ ShownChanged(run)
      /\ StillShown(run)
  BY DEF IInv, WorldInv, RunInv
<1>2. /\ r \in Run /\ r.mode = "look" /\ r.token = run.token
      /\ r.changed = run.changed /\ r.deleted = run.deleted /\ r.scope = run.scope
      /\ r.todo = run.todo /\ r.listed = run.listed \ S
      /\ r.rows = run.rows /\ r.skipped = run.skipped \cup S
  BY <1>1 DEF Typed, Run, Ids
<1>3. \A k : /\ HasRow(r, k) <=> HasRow(run, k)
             /\ Current(r, k) <=> Current(run, k) /\ k \notin S
             /\ Dealt(r, k) <=> Dealt(run, k)
             /\ Pending(r, k) <=> Pending(run, k)
  BY <1>2 DEF HasRow, Current, Dealt, Pending
<1>4. Token(r) /\ Shape(r) /\ WindowRead(r) /\ DeletedAreOut(r) /\ DeletedWereOut(r) /\ ScopeRead(r)
  BY <1>1, <1>2, <1>3 DEF Token, Shape, WindowRead, DeletedAreOut, DeletedWereOut, ScopeRead
<1>5. ReadSoFar(r)
  BY <1>1, <1>2, <1>3 DEF ReadSoFar
<1>6. ShownChanged(r) /\ StillShown(r)
  BY <1>1, <1>2, <1>3 DEF ShownChanged, StillShown
<1> QED BY <1>2, <1>4, <1>5, <1>6 DEF RunInv

LEMMA DriveLists ==
  ASSUME IInv, connector = "drive", ListFilesInFolder
  PROVE  Quiet
<1>1. PICK k \in run.todo : run' = [run EXCEPT !.todo = @ \ {k}, !.listed = Listing(k)]
  BY DEF ListFilesInFolder, Goto, Listing
<1>2. run.mode = "look" /\ run.listed = {} /\ ~Incremental
      /\ UNCHANGED <<connector, remote, cursor, table, errors, excused>>
  BY DEF ListFilesInFolder, Goto, remote, Incremental
<1>3. PICK r : r = [run EXCEPT !.todo = @ \ {k}, !.listed = Listing(k)]
  OBVIOUS
<1>4. r \in Run /\ RunInv(r)
  BY <1>2, <1>3, Lists
<1> QED BY <1>1, <1>2, <1>3, <1>4 DEF Quiet, remote

\* A changed file is looked up: the folder has no row, a file out of the scope that was
\* read has a tombstone, any other is listed.
LEMMA DriveLooksUp ==
  ASSUME IInv, connector = "drive", LookUp
  PROVE  Quiet
<1>1. PICK i \in run.todo :
        run' = IF i = Folder THEN [run EXCEPT !.todo = @ \ {i}]
               ELSE IF place[i] \notin run.scope
               THEN [run EXCEPT !.todo = @ \ {i}, !.deleted = @ \cup {i},
                                !.skipped = IF InScope(i) THEN @ \cup {i} ELSE @]
               ELSE [run EXCEPT !.todo = @ \ {i}, !.listed = {i}]
  BY DEF LookUp, Goto, InScope
<1>2. /\ run.mode = "look" /\ run.listed = {} /\ Incremental /\ cursor # None
      /\ UNCHANGED <<connector, remote, cursor, table, errors, excused>>
  BY DEF LookUp, Goto, remote, Incremental
<1>3. /\ Typed /\ Recorded /\ Token(run) /\ Shape(run) /\ WindowRead(run) /\ ScopeRead(run)
      /\ DeletedAreOut(run) /\ ReadSoFar(run) /\ DeletedWereOut(run)
  BY <1>2 DEF IInv, WorldInv, RunInv
<1>4. PICK r : r = run'
  OBVIOUS
<1>5. i \in run.changed /\ i \in Ids
  BY <1>2, <1>3 DEF Shape, Typed, Run
<1>6. PICK D, L, S :
        \A k : /\ k \in D <=> k = i /\ i # Folder /\ place[i] \notin run.scope
               /\ k \in L <=> k = i /\ i # Folder /\ place[i] \in run.scope
               /\ k \in S <=> k = i /\ i # Folder /\ place[i] \notin run.scope /\ InScope(i)
  <2>1. \A p \in BOOLEAN : \A k : k \in {x \in {i} : p} <=> k = i /\ p
    OBVIOUS
  <2>2. \A p \in BOOLEAN : \E X : \A k : k \in X <=> k = i /\ p
    BY <2>1
  <2>3. /\ (i # Folder /\ place[i] \notin run.scope) \in BOOLEAN
        /\ (i # Folder /\ place[i] \in run.scope) \in BOOLEAN
        /\ (i # Folder /\ place[i] \notin run.scope /\ InScope(i)) \in BOOLEAN
    BY DEF InScope
  <2> QED BY <2>2, <2>3
<1>7. /\ r \in Run /\ r.mode = "look" /\ r.token = run.token
      /\ r.changed = run.changed /\ r.deleted = run.deleted \cup D /\ r.scope = run.scope
      /\ r.todo = run.todo \ {i} /\ r.listed = L
      /\ r.rows = run.rows /\ r.skipped = run.skipped \cup S
  <2>1. run \in Run
    BY <1>3 DEF Typed
  <2>2. CASE i = Folder
    BY <1>1, <1>2, <1>4, <1>6, <2>1, <2>2 DEF Run
  <2>3. CASE i # Folder /\ place[i] \notin run.scope
    <3>1. r = [run EXCEPT !.todo = @ \ {i}, !.deleted = @ \cup D, !.skipped = @ \cup S]
      <4>1. D = {i} /\ S = (IF InScope(i) THEN {i} ELSE {})
        BY <1>6, <2>3
      <4>2. run.skipped \cup S = IF InScope(i) THEN run.skipped \cup {i} ELSE run.skipped
        BY <4>1
      <4> QED BY <1>1, <1>4, <2>3, <4>1, <4>2
    <3>2. D \subseteq Ids /\ S \subseteq Ids /\ L = {}
      BY <1>5, <1>6, <2>3
    <3> QED BY <1>2, <2>1, <3>1, <3>2 DEF Run
  <2>4. CASE i # Folder /\ place[i] \in run.scope
    <3>1. r = [run EXCEPT !.todo = @ \ {i}, !.listed = {i}]
      BY <1>1, <1>4, <2>4
    <3>2. D = {} /\ S = {} /\ L = {i} /\ i \in Items
      BY <1>5, <1>6, <2>4 DEF Ids
    <3> QED BY <1>2, <2>1, <3>1, <3>2 DEF Run
  <2> QED BY <2>2, <2>3, <2>4
<1>8. \A k : /\ HasRow(r, k) <=> HasRow(run, k)
             /\ Current(r, k) <=> Current(run, k) /\ k \notin S
             /\ Dealt(r, k) <=> Dealt(run, k)
             /\ Pending(r, k) <=> Pending(run, k) /\ k # i
             /\ Pending(run, k) <=> k \in run.todo
  BY <1>2, <1>5, <1>6, <1>7 DEF HasRow, Current, Dealt, Pending
<1>9. Token(r) /\ ScopeRead(r)
  BY <1>3, <1>7, <1>8 DEF Token, ScopeRead
<1>10. Shape(r)
  BY <1>2, <1>3, <1>5, <1>6, <1>7 DEF Shape, Incremental
<1>11. WindowRead(r)
  <2>1. \A k : k \in r.changed \cup r.deleted <=> k \in run.changed \cup run.deleted
    BY <1>5, <1>6, <1>7
  <2> QED BY <1>2, <1>3, <1>7, <2>1 DEF WindowRead
<1>12. i \in D /\ Current(r, i) => ~InScope(i)
  BY <1>6, <1>8
<1>13. DeletedAreOut(r)
  <2>1. ASSUME NEW k \in Items \cap r.deleted, Current(r, k) PROVE ~InScope(k)
    BY <1>2, <1>3, <1>6, <1>7, <1>8, <1>12, <2>1 DEF DeletedAreOut
  <2> QED BY <2>1 DEF DeletedAreOut
<1>14. DeletedWereOut(r)
  <2> SUFFICES ASSUME NEW k \in Items \cap r.deleted
               PROVE  k \in r.skipped \/ WasOutSince(k)
    BY DEF DeletedWereOut
  <2>1. CASE k \in run.deleted
    BY <1>2, <1>3, <1>7, <2>1 DEF DeletedWereOut
  <2>2. CASE k = i /\ i \in D /\ InScope(i)
    BY <1>6, <1>7, <2>2
  <2>3. CASE k = i /\ i \in D /\ ~InScope(i)
    <3>1. PICK n \in cursor + 1 .. run.token : feed[n].id = i
      BY <1>2, <1>3, <1>5, <2>3 DEF WindowRead
    <3>2. /\ cursor \in Nat /\ Len(feed) \in Nat /\ cursor < Len(feed) /\ feed # << >>
          /\ Len(feed) \in cursor + 1 .. Len(feed)
      BY <1>2, <1>3, <3>1 DEF Typed, Token, Run
    <3>3. i \in feed[Len(feed)].out
      BY <1>3, <2>3, <3>2 DEF Recorded
    <3> QED BY <2>3, <3>2, <3>3 DEF WasOutSince
  <2> QED BY <1>6, <1>7, <2>1, <2>2, <2>3
<1>15. ReadSoFar(r)
  <2> SUFFICES ASSUME NEW k \in Items, Current(r, k)
               PROVE  /\ Pending(r, k) => k \notin r.listed /\ ~HasRow(r, k)
                      /\ k \in r.listed => InScope(k) /\ ~HasRow(r, k)
                      /\ ~Pending(r, k) /\ k \notin r.listed =>
                           IF Dealt(r, k)
                           THEN /\ InScope(k) <=> HasRow(r, k)
                                /\ \A x \in r.rows : x.id = k => x.body = rev[k]
                                /\ Incremental => HasRow(r, k) \/ k \in r.deleted
                           ELSE ~HasRow(r, k)
    BY DEF ReadSoFar
  <2>1. CASE k = i
    <3>1. ~HasRow(r, i) /\ ~Pending(r, i) /\ i # Folder
      BY <1>2, <1>3, <1>8, <2>1, Bounds DEF ReadSoFar
    <3>2. CASE place[i] \in run.scope
      <4>1. InScope(i)
        BY <1>3, <1>8, <2>1, <3>2 DEF ScopeRead
      <4> QED BY <1>6, <1>7, <2>1, <3>1, <3>2, <4>1
    <3>3. CASE place[i] \notin run.scope
      <4>1. i \in r.deleted /\ ~InScope(i)
        BY <1>6, <1>7, <1>12, <2>1, <3>1, <3>3
      <4>2. \A x \in r.rows : x.id # i
        BY <3>1 DEF HasRow
      <4>3. Dealt(r, i)
        BY <4>1 DEF Dealt
      <4> QED BY <1>6, <1>7, <2>1, <3>1, <3>3, <4>1, <4>2, <4>3
    <3> QED BY <3>2, <3>3
  <2>2. CASE k # i
    BY <1>2, <1>3, <1>6, <1>7, <1>8, <2>2 DEF ReadSoFar
  <2> QED BY <2>1, <2>2
<1>16. ShownChanged(r) /\ StillShown(r)
  BY DEF ShownChanged, StillShown
<1>17. RunInv(r)
  BY <1>7, <1>9, <1>10, <1>11, <1>13, <1>14, <1>15, <1>16 DEF RunInv
<1> QED BY <1>2, <1>4, <1>7, <1>17 DEF Quiet, remote

\* A listed item is yielded, or skipped.
LEMMA ListedDone ==
  ASSUME IInv, NEW i \in run.listed,
         UNCHANGED <<connector, remote, cursor, table, excused>>,
         \/ run' = [run EXCEPT !.listed = @ \ {i},
                               !.rows = @ \cup {[id |-> k, body |-> rev[k]] : k \in {i}}]
         \/ run' = [run EXCEPT !.listed = @ \ {i}, !.skipped = @ \cup {i}]
  PROVE  Quiet
<1>1. run.mode = "look"
  BY DEF IInv, WorldInv, Typed, Run, RunInv, Shape, Idle
<1>2. {i} \in SUBSET Items
  BY DEF IInv, WorldInv, Typed, Run
<1>3. PICK r : r = run'
  OBVIOUS
<1>4. CASE run' = [run EXCEPT !.listed = @ \ {i},
                              !.rows = @ \cup {[id |-> k, body |-> rev[k]] : k \in {i}}]
  <2>1. {[id |-> k, body |-> rev[k]] : k \in {i}} = {[id |-> i, body |-> rev[i]]}
    OBVIOUS
  <2>2. r = [run EXCEPT !.listed = @ \ {i}, !.rows = @ \cup {[id |-> i, body |-> rev[i]]}]
    BY <1>3, <1>4, <2>1
  <2>3. r \in Run /\ RunInv(r)
    BY <1>1, <2>2, RowYielded
  <2> QED BY <1>3, <2>3 DEF Quiet, remote
<1>5. CASE run' = [run EXCEPT !.listed = @ \ {i}, !.skipped = @ \cup {i}]
  <2>1. r = [run EXCEPT !.listed = @ \ {i}, !.skipped = @ \cup {i}]
    BY <1>3, <1>5
  <2>2. r \in Run /\ RunInv(r)
    BY <1>1, <1>2, <2>1, ItemsSkipped
  <2> QED BY <1>3, <2>2 DEF Quiet, remote
<1> QED BY <1>4, <1>5

LEMMA DriveGoesOn ==
  ASSUME IInv, connector = "drive", DriveNext, ~DriveLoad
  PROVE  Quiet
<1>1. ASSUME FileToRow PROVE Quiet
  <2>1. PICK i \in run.listed :
          /\ \/ run' = [run EXCEPT !.listed = @ \ {i},
                                   !.rows = @ \cup {[id |-> k, body |-> rev[k]] : k \in {i}}]
             \/ run' = [run EXCEPT !.listed = @ \ {i}, !.skipped = @ \cup {i}]
          /\ UNCHANGED <<connector, remote, cursor, table, errors, excused>>
    BY <1>1 DEF FileToRow, Yields, Goto, WithoutItems, remote
  <2> QED BY <2>1, ListedDone
<1> QED BY <1>1, DriveStarts, DriveListChanged, DriveScope, DriveLists, DriveLooksUp DEF DriveNext

LEMMA DriveFaults ==
  ASSUME IInv, connector = "drive", DriveFails
  PROVE  Quiet
<1>1. ASSUME Raises PROVE Quiet
  <2>1. run' = Idle /\ UNCHANGED <<connector, remote, cursor, table, excused>>
    BY <1>1 DEF Raises, Fault, Idle, remote
  <2> QED BY <2>1, EndsQuietly
<1>2. ASSUME ExtractionFails PROVE Quiet
  <2>1. PICK i \in run.listed :
          /\ run' = [run EXCEPT !.listed = @ \ {i}, !.skipped = @ \cup {i}]
          /\ UNCHANGED <<connector, remote, cursor, table, excused>>
    BY <1>2 DEF ExtractionFails, Fault, WithoutItems, remote
  <2> QED BY <2>1, ListedDone
<1> QED BY <1>1, <1>2 DEF DriveFails

-----------------------------------------------------------------------------
(* Notion and Slack.                                                       *)

\* What the table has and the collection no longer shows has been out since the cursor.
LEMMA NotShownWasOut ==
  ASSUME WorldInv, connector # "drive", NEW i \in DOMAIN table, ~InScope(i)
  PROVE  WasOutSince(i)
<1>1. Typed /\ Recorded /\ i \in Items /\ cursor # None
  BY DEF WorldInv, Typed, FirstEmpty
<1>2. Len(feed) > cursor /\ cursor \in Nat /\ Len(feed) \in Nat
  BY <1>1 DEF WorldInv, Noticed, Typed
<1>3. Len(feed) \in cursor + 1 .. Len(feed) /\ feed # << >>
  BY <1>1, <1>2 DEF Typed
<1> QED BY <1>1, <1>3 DEF Recorded, WasOutSince

\* A run that takes a snapshot starts.
Reading(scope, todo) ==
  [mode |-> "look", token |-> Len(feed), read |-> 0, changed |-> {}, deleted |-> {},
   scope |-> scope, todo |-> todo, listed |-> {}, rows |-> {}, skipped |-> {}]

LEMMA SnapshotStarts ==
  ASSUME IInv, ~Running, connector # "drive", NEW scope, NEW todo,
         \/ scope = {} /\ connector = "notion" /\ todo = Items
         \/ scope = Containers /\ connector = "notion" /\ todo = Containers
         \/ scope = {} /\ connector = "slack" /\ todo = Containers,
         NEW r, r = Reading(scope, todo)
  PROVE  r \in Run /\ RunInv(r)
<1>1. Typed /\ Recorded /\ FirstEmpty /\ Noticed /\ attached
  BY DEF IInv, WorldInv, Recorded
<1>2. /\ r.mode = "look" /\ r.token = Len(feed) /\ r.read = 0 /\ r.changed = {} /\ r.deleted = {}
      /\ r.scope = scope /\ r.todo = todo /\ r.listed = {} /\ r.rows = {} /\ r.skipped = {}
      /\ r \in Run
  <2>1. Len(feed) \in Nat /\ todo \in SUBSET (Ids \cup Containers) /\ scope \in SUBSET Containers
    BY <1>1 DEF Typed, Ids
  <2> QED BY <2>1 DEF Reading, Run
<1>3. ~Incremental /\ Containers # {}
  BY DEF Incremental, Containers
<1>4. \A i \in Items : ~Pending(r, i) => ~InScope(i)
  BY <1>1, <1>2, <1>3 DEF Pending, InScope, Containers
<1>5. \A i : ~HasRow(r, i)
  BY <1>2 DEF HasRow
<1>6. Token(r) /\ Shape(r) /\ WindowRead(r) /\ ScopeRead(r) /\ DeletedAreOut(r) /\ DeletedWereOut(r)
      /\ ShownChanged(r)
  BY <1>1, <1>2, <1>3, <1>5
     DEF Token, Shape, WindowRead, ScopeRead, DeletedAreOut, DeletedWereOut, ShownChanged, Typed
<1>7. ReadSoFar(r)
  BY <1>2, <1>3, <1>4, <1>5 DEF ReadSoFar, HasRow
<1>8. StillShown(r)
  <2> SUFFICES ASSUME NEW i \in DOMAIN table, ~Pending(r, i) PROVE WasOutSince(i)
    BY DEF StillShown
  <2>1. i \in Items /\ ~InScope(i)
    BY <1>1, <1>4 DEF Typed
  <2> QED BY <2>1, NotShownWasOut DEF IInv
<1> QED BY <1>2, <1>6, <1>7, <1>8 DEF RunInv

LEMMA NotionRetrieves ==
  ASSUME IInv, connector = "notion", RetrievePage
  PROVE  Quiet
<1>1. PICK i \in run.todo :
        run' = [run EXCEPT !.todo = @ \ {i}, !.listed = IF InScope(i) THEN {i} ELSE {}]
  BY DEF RetrievePage, Goto, InScope
<1>2. /\ run.mode = "look" /\ run.listed = {} /\ run.scope = {} /\ ~Incremental
      /\ UNCHANGED <<connector, remote, cursor, table, errors, excused>>
  BY DEF RetrievePage, Goto, remote, Incremental
<1>3. /\ Typed /\ Recorded /\ FirstEmpty /\ Noticed /\ Token(run) /\ Shape(run) /\ ReadSoFar(run)
      /\ ShownChanged(run) /\ StillShown(run)
  BY <1>2 DEF IInv, WorldInv, RunInv
<1>4. PICK r : r = run'
  OBVIOUS
<1>5. i \in Items
  BY <1>2, <1>3 DEF Shape
<1>6. PICK L : L = IF InScope(i) THEN {i} ELSE {}
  OBVIOUS
<1>7. L \subseteq Items /\ \A k : k \in L <=> k = i /\ InScope(i)
  BY <1>5, <1>6
<1>8. /\ r \in Run /\ r.mode = "look" /\ r.token = run.token
      /\ r.changed = run.changed /\ r.deleted = run.deleted /\ r.scope = run.scope
      /\ r.todo = run.todo \ {i} /\ r.listed = L
      /\ r.rows = run.rows /\ r.skipped = run.skipped
  BY <1>1, <1>2, <1>3, <1>4, <1>6, <1>7 DEF Typed, Run
<1>9. \A k : /\ HasRow(r, k) <=> HasRow(run, k)
             /\ Current(r, k) <=> Current(run, k)
             /\ Dealt(r, k)
             /\ Pending(r, k) <=> Pending(run, k) /\ k # i
             /\ Pending(run, k) <=> k \in run.todo
  BY <1>2, <1>8 DEF HasRow, Current, Dealt, Pending
<1>10. Token(r) /\ Shape(r)
  BY <1>2, <1>3, <1>8 DEF Token, Shape
<1>11. WindowRead(r) /\ ScopeRead(r) /\ DeletedAreOut(r) /\ DeletedWereOut(r)
  BY <1>2, <1>3, <1>8 DEF WindowRead, ScopeRead, DeletedAreOut, DeletedWereOut, Shape
<1>12. ReadSoFar(r)
  <2> SUFFICES ASSUME NEW k \in Items, Current(run, k)
               PROVE  /\ Pending(r, k) => k \notin r.listed /\ ~HasRow(r, k)
                      /\ k \in r.listed => InScope(k) /\ ~HasRow(r, k)
                      /\ ~Pending(r, k) /\ k \notin r.listed =>
                           /\ InScope(k) <=> HasRow(r, k)
                           /\ \A x \in r.rows : x.id = k => x.body = rev[k]
    BY <1>2, <1>9 DEF ReadSoFar
  <2>1. Dealt(run, k) /\ ~Incremental
    BY <1>2 DEF Dealt
  <2> QED BY <1>2, <1>3, <1>7, <1>8, <1>9, <2>1 DEF ReadSoFar, HasRow
<1>13. ShownChanged(r)
  BY <1>3, <1>7, <1>8, <1>9 DEF ShownChanged
<1>14. StillShown(r)
  <2> SUFFICES ASSUME NEW k \in DOMAIN table
               PROVE  k \in r.skipped \/ WasOutSince(k) \/ Pending(r, k) \/ k \in r.listed \/ HasRow(r, k)
    BY DEF StillShown
  <2>1. CASE k = i /\ ~InScope(i)
    BY <2>1, NotShownWasOut DEF IInv
  <2>2. CASE k = i /\ InScope(i)
    BY <1>7, <1>8, <2>2
  <2>3. CASE k # i
    BY <1>2, <1>3, <1>8, <1>9, <2>3 DEF StillShown
  <2> QED BY <2>1, <2>2, <2>3
<1>15. RunInv(r)
  BY <1>8, <1>10, <1>11, <1>12, <1>13, <1>14 DEF RunInv
<1> QED BY <1>2, <1>4, <1>8, <1>15 DEF Quiet, remote

RowsOf(k) == {[id |-> i, body |-> rev[i]] : i \in Listing(k)}

\* The rows of a file of messages have what is there.
LEMMA FileRead ==
  ASSUME IInv, connector = "slack", run.mode = "look", NEW k \in run.todo,
         NEW r, r = [run EXCEPT !.todo = @ \ {k}, !.rows = @ \cup RowsOf(k)]
  PROVE  r \in Run /\ RunInv(r)
<1>1. /\ Typed /\ Recorded /\ attached /\ Token(run) /\ Shape(run) /\ ReadSoFar(run)
      /\ ShownChanged(run) /\ StillShown(run) /\ ~Incremental
  BY DEF IInv, WorldInv, RunInv, Recorded, Incremental
<1>2. /\ \A x \in RowsOf(k) : x \in Row /\ x.id \in Items /\ place[x.id] = k /\ x.body = rev[x.id]
      /\ \A i \in Items : place[i] = k => \E x \in RowsOf(k) : x.id = i
  <2>1. \A i \in Items : rev[i] \in Nat
    BY <1>1 DEF Typed
  <2>2. \A x \in RowsOf(k) : \E i \in Items : place[i] = k /\ x = [id |-> i, body |-> rev[i]]
    BY DEF RowsOf, Listing
  <2>3. \A i \in Items : place[i] = k => [id |-> i, body |-> rev[i]] \in RowsOf(k)
    BY DEF RowsOf, Listing
  <2>4. ASSUME NEW x \in RowsOf(k)
        PROVE  x \in Row /\ x.id \in Items /\ place[x.id] = k /\ x.body = rev[x.id]
    BY <2>1, <2>2 DEF Row
  <2>5. ASSUME NEW i \in Items, place[i] = k PROVE \E x \in RowsOf(k) : x.id = i
    BY <2>3, <2>5
  <2> QED BY <2>4, <2>5
<1>3. RowsOf(k) \subseteq Row
  BY <1>2
<1>4. /\ r \in Run /\ r.mode = "look" /\ r.token = run.token
      /\ r.changed = run.changed /\ r.deleted = run.deleted /\ r.scope = run.scope
      /\ r.todo = run.todo \ {k} /\ r.listed = run.listed
      /\ r.rows = run.rows \cup RowsOf(k) /\ r.skipped = run.skipped
  BY <1>1, <1>3 DEF Typed, Run
<1>5. \A i \in Items : /\ HasRow(r, i) <=> HasRow(run, i) \/ place[i] = k
                       /\ Current(r, i) <=> Current(run, i)
                       /\ Dealt(r, i) /\ Dealt(run, i)
                       /\ Pending(run, i) <=> place[i] \in run.todo
                       /\ Pending(r, i) <=> place[i] \in run.todo \ {k}
  <2>1. \A i \in Items : HasRow(r, i) <=> HasRow(run, i) \/ place[i] = k
    BY <1>2, <1>4 DEF HasRow
  <2> QED BY <1>1, <1>4, <2>1 DEF Current, Dealt, Pending
<1>6. \A i \in Items : place[i] = k => InScope(i)
  BY <1>1 DEF Shape, InScope, Containers
<1>7. Token(r) /\ Shape(r)
  BY <1>1, <1>4 DEF Token, Shape
<1>8. WindowRead(r) /\ ScopeRead(r) /\ DeletedAreOut(r) /\ DeletedWereOut(r)
  BY <1>1, <1>4 DEF WindowRead, ScopeRead, DeletedAreOut, DeletedWereOut, Shape
<1>9. ReadSoFar(r)
  <2> SUFFICES ASSUME NEW i \in Items, Current(run, i)
               PROVE  /\ Pending(r, i) => i \notin r.listed /\ ~HasRow(r, i)
                      /\ i \in r.listed => InScope(i) /\ ~HasRow(r, i)
                      /\ ~Pending(r, i) /\ i \notin r.listed =>
                           /\ InScope(i) <=> HasRow(r, i)
                           /\ \A x \in r.rows : x.id = i => x.body = rev[i]
    BY <1>1, <1>5 DEF ReadSoFar
  <2>1. CASE place[i] = k
    <3>1. i \notin run.listed /\ ~HasRow(run, i)
      BY <1>1, <1>5, <2>1 DEF ReadSoFar
    <3>2. \A x \in r.rows : x.id = i => x.body = rev[i]
      BY <1>2, <1>4, <3>1 DEF HasRow
    <3> QED BY <1>4, <1>5, <1>6, <2>1, <3>1, <3>2
  <2>2. CASE place[i] # k
    <3>1. \A x \in r.rows : x.id = i => x \in run.rows
      BY <1>2, <1>4, <2>2
    <3> QED BY <1>1, <1>4, <1>5, <2>2, <3>1 DEF ReadSoFar
  <2> QED BY <2>1, <2>2
<1>10. ShownChanged(r)
  BY <1>1, <1>4, <1>5, <1>6 DEF ShownChanged
<1>11. StillShown(r)
  BY <1>1, <1>4, <1>5 DEF StillShown, Typed
<1> QED BY <1>4, <1>7, <1>8, <1>9, <1>10, <1>11 DEF RunInv

\* The messages of a file that cannot be read are left out.
LEMMA FileSkipped ==
  ASSUME IInv, connector = "slack", run.mode = "look", NEW k \in run.todo,
         NEW r, r = [[run EXCEPT !.listed = @ \ Listing(k), !.skipped = @ \cup Listing(k)]
                       EXCEPT !.todo = @ \ {k}]
  PROVE  r \in Run /\ RunInv(r)
<1>1. /\ Typed /\ Token(run) /\ Shape(run) /\ ReadSoFar(run)
      /\ ShownChanged(run) /\ StillShown(run) /\ ~Incremental
  BY DEF IInv, WorldInv, RunInv, Incremental
<1>2. \A i : i \in Listing(k) <=> i \in Items /\ place[i] = k
  BY DEF Listing
<1>3. Listing(k) \subseteq Items /\ Listing(k) \subseteq Ids
  BY <1>2 DEF Ids
<1>4. /\ r \in Run /\ r.mode = "look" /\ r.token = run.token
      /\ r.changed = run.changed /\ r.deleted = run.deleted /\ r.scope = run.scope
      /\ r.todo = run.todo \ {k} /\ r.listed = run.listed \ Listing(k)
      /\ r.rows = run.rows /\ r.skipped = run.skipped \cup Listing(k)
  BY <1>1, <1>3 DEF Typed, Run
<1>5. \A i \in Items : /\ HasRow(r, i) <=> HasRow(run, i)
                       /\ Current(r, i) <=> Current(run, i) /\ place[i] # k
                       /\ Dealt(r, i) /\ Dealt(run, i)
                       /\ Pending(run, i) <=> place[i] \in run.todo
                       /\ Pending(r, i) <=> place[i] \in run.todo \ {k}
  BY <1>1, <1>2, <1>4 DEF HasRow, Current, Dealt, Pending
<1>6. Token(r) /\ Shape(r)
  BY <1>1, <1>4 DEF Token, Shape
<1>7. WindowRead(r) /\ ScopeRead(r) /\ DeletedAreOut(r) /\ DeletedWereOut(r)
  BY <1>1, <1>4 DEF WindowRead, ScopeRead, DeletedAreOut, DeletedWereOut, Shape
<1>8. ReadSoFar(r)
  <2> SUFFICES ASSUME NEW i \in Items, Current(run, i), place[i] # k
               PROVE  /\ Pending(r, i) => i \notin r.listed /\ ~HasRow(r, i)
                      /\ i \in r.listed => InScope(i) /\ ~HasRow(r, i)
                      /\ ~Pending(r, i) /\ i \notin r.listed =>
                           /\ InScope(i) <=> HasRow(r, i)
                           /\ \A x \in r.rows : x.id = i => x.body = rev[i]
    BY <1>1, <1>5 DEF ReadSoFar
  <2> QED BY <1>1, <1>2, <1>4, <1>5 DEF ReadSoFar
<1>9. ShownChanged(r)
  BY <1>1, <1>4, <1>5 DEF ShownChanged
<1>10. StillShown(r)
  BY <1>1, <1>2, <1>4, <1>5 DEF StillShown, Typed
<1> QED BY <1>4, <1>6, <1>7, <1>8, <1>9, <1>10 DEF RunInv

LEMMA NotionGoesOn ==
  ASSUME IInv, connector = "notion", NotionNext \/ NotionFails, ~NotionLoad
  PROVE  Quiet
<1>1. ASSUME NotionStart PROVE Quiet
  <2>1. ~Running
    BY <1>1 DEF NotionStart, Running
  <2>2. PICK scope \in {{}, Containers} :
          /\ run' = Reading(scope, IF scope = {} THEN Items ELSE scope)
          /\ UNCHANGED <<connector, remote, cursor, table, errors, excused>>
    BY <1>1 DEF NotionStart, Goto, Idle, Reading, remote,
                Containers
  <2>3. PICK todo : todo = IF scope = {} THEN Items ELSE scope
    OBVIOUS
  <2>4. PICK r : r = Reading(scope, todo)
    OBVIOUS
  <2>5. \/ scope = {} /\ todo = Items
        \/ scope = Containers /\ todo = Containers
    BY <2>3 DEF Containers
  <2>6. r \in Run /\ RunInv(r)
    BY <2>1, <2>4, <2>5, SnapshotStarts
  <2> QED BY <2>2, <2>3, <2>4, <2>6 DEF Quiet, remote
<1>2. ASSUME Paginate PROVE Quiet
  <2>1. PICK k \in run.todo : run' = [run EXCEPT !.todo = @ \ {k}, !.listed = Listing(k)]
    BY <1>2 DEF Paginate, Goto, Listing
  <2>2. run.mode = "look" /\ run.scope # {} /\ run.listed = {} /\ ~Incremental
        /\ UNCHANGED <<connector, remote, cursor, table, errors, excused>>
    BY <1>2 DEF Paginate, Goto, remote, Incremental
  <2>3. PICK r : r = [run EXCEPT !.todo = @ \ {k}, !.listed = Listing(k)]
    OBVIOUS
  <2>4. r \in Run /\ RunInv(r)
    BY <2>2, <2>3, Lists
  <2> QED BY <2>1, <2>2, <2>3, <2>4 DEF Quiet, remote
<1>3. ASSUME RetrievePage PROVE Quiet
  BY <1>3, NotionRetrieves
<1>4. ASSUME PageToRow PROVE Quiet
  <2>1. PICK i \in run.listed :
          /\ \/ run' = Idle
             \/ run' = [run EXCEPT !.listed = @ \ {i},
                                   !.rows = @ \cup {[id |-> k, body |-> rev[k]] : k \in {i}}]
          /\ UNCHANGED <<connector, remote, cursor, table, errors, excused>>
    BY <1>4 DEF PageToRow, Yields, Goto, Idle, remote
  <2> QED BY <2>1, ListedDone, EndsQuietly
<1>5. ASSUME NotionFails PROVE Quiet
  <2>1. run' = Idle /\ UNCHANGED <<connector, remote, cursor, table, excused>>
    BY <1>5 DEF NotionFails, Raises, Fault, Idle, remote
  <2> QED BY <2>1, EndsQuietly
<1> QED BY <1>1, <1>2, <1>3, <1>4, <1>5 DEF NotionNext

LEMMA SlackGoesOn ==
  ASSUME IInv, connector = "slack", SlackNext \/ SlackFails, ~SlackLoad
  PROVE  Quiet
<1>1. ASSUME SlackStart PROVE Quiet
  <2>1. ~Running
    BY <1>1 DEF SlackStart, Running
  <2>2. /\ run' = Reading({}, Containers)
        /\ UNCHANGED <<connector, remote, cursor, table, errors, excused>>
    BY <1>1 DEF SlackStart, Goto, Idle, Reading, remote,
                Containers
  <2>3. PICK r, scope, todo : scope = {} /\ todo = Containers /\ r = Reading(scope, todo)
    OBVIOUS
  <2>4. r \in Run /\ RunInv(r)
    BY <2>1, <2>3, SnapshotStarts
  <2> QED BY <2>2, <2>3, <2>4 DEF Quiet, remote
<1>2. ASSUME ReadMessageFile PROVE Quiet
  <2>1. PICK k \in run.todo : run' = [run EXCEPT !.todo = @ \ {k}, !.rows = @ \cup RowsOf(k)]
    BY <1>2 DEF ReadMessageFile, Goto, MessagesOf, RowsOf, Listing
  <2>2. run.mode = "look" /\ UNCHANGED <<connector, remote, cursor, table, errors, excused>>
    BY <1>2 DEF ReadMessageFile, Goto, remote
  <2>3. PICK r : r = [run EXCEPT !.todo = @ \ {k}, !.rows = @ \cup RowsOf(k)]
    OBVIOUS
  <2>4. r \in Run /\ RunInv(r)
    BY <2>2, <2>3, FileRead
  <2> QED BY <2>1, <2>2, <2>3, <2>4 DEF Quiet, remote
<1>3. ASSUME Raises PROVE Quiet
  <2>1. run' = Idle /\ UNCHANGED <<connector, remote, cursor, table, excused>>
    BY <1>3 DEF Raises, Fault, Idle, remote
  <2> QED BY <2>1, EndsQuietly
<1>4. ASSUME UnreadableFile PROVE Quiet
  <2>1. PICK k \in run.todo :
          run' = [[run EXCEPT !.listed = @ \ Listing(k), !.skipped = @ \cup Listing(k)]
                    EXCEPT !.todo = @ \ {k}]
    BY <1>4 DEF UnreadableFile, Fault, WithoutItems, MessagesOf, Listing
  <2>2. run.mode = "look" /\ UNCHANGED <<connector, remote, cursor, table, excused>>
    BY <1>4 DEF UnreadableFile, Fault, remote
  <2>3. PICK r : r = [[run EXCEPT !.listed = @ \ Listing(k), !.skipped = @ \cup Listing(k)]
                        EXCEPT !.todo = @ \ {k}]
    OBVIOUS
  <2>4. r \in Run /\ RunInv(r)
    BY <2>2, <2>3, FileSkipped
  <2> QED BY <2>1, <2>2, <2>3, <2>4 DEF Quiet, remote
<1> QED BY <1>1, <1>2, <1>3, <1>4 DEF SlackNext, SlackFails

-----------------------------------------------------------------------------
(* The load.                                                               *)

\* The table has what is kept and the rows.
LEMMA Loaded ==
  ASSUME Typed, NEW kept \in SUBSET Items, NEW known, Loads(kept, run.token, known)
  PROVE  /\ \A i : i \in DOMAIN table' <=> i \in kept \/ HasRow(run, i)
         /\ \A i \in DOMAIN table' :
              IF HasRow(run, i) THEN \E x \in run.rows : x.id = i /\ table'[i] = x.body
              ELSE table'[i] = table[i]
         /\ cursor' = run.token /\ excused' = (excused \ known) \cup run.skipped /\ run' = Idle
         /\ UNCHANGED <<connector, place, attached, rev, feed>>
<1>1. PICK ids, merged :
        /\ ids = kept \cup {r.id : r \in run.rows}
        /\ merged \in [ids -> 0 .. Len(feed)]
        /\ \A i \in ids :
             IF {r.body : r \in {x \in run.rows : x.id = i}} # {}
             THEN merged[i] \in {r.body : r \in {x \in run.rows : x.id = i}}
             ELSE merged[i] = table[i]
        /\ table' = merged
  BY DEF Loads
<1>2. \A i : i \in ids <=> i \in kept \/ HasRow(run, i)
  BY <1>1 DEF HasRow
<1>3. ASSUME NEW i \in ids
      PROVE  IF HasRow(run, i) THEN \E x \in run.rows : x.id = i /\ merged[i] = x.body
             ELSE merged[i] = table[i]
  <2>1. PICK found : found = {r.body : r \in {x \in run.rows : x.id = i}}
    OBVIOUS
  <2>2. \A b : b \in found <=> \E x \in run.rows : x.id = i /\ b = x.body
    BY <2>1
  <2>3. IF found # {} THEN merged[i] \in found ELSE merged[i] = table[i]
    BY <1>1, <2>1
  <2>4. HasRow(run, i) <=> found # {}
    BY <2>2 DEF HasRow
  <2> QED BY <2>2, <2>3, <2>4
<1>4. DOMAIN table' = ids
  BY <1>1
<1>5. /\ cursor' = run.token /\ excused' = (excused \ known) \cup run.skipped /\ run' = Idle
      /\ UNCHANGED <<connector, place, attached, rev, feed>>
  BY DEF Loads, remote
<1> QED BY <1>1, <1>2, <1>3, <1>4, <1>5

\* What the load owes an item that it has dealt with, or that was not left out before.
Owed(kept, i) ==
  /\ InScope(i) <=> i \in kept \/ HasRow(run, i)
  /\ InScope(i) /\ ~HasRow(run, i) => table[i] = rev[i]
  /\ \A x \in run.rows : x.id = i => x.body = rev[i]

LEMMA LoadKeeps ==
  ASSUME IInv, run.mode = "look", NEW kept \in SUBSET Items, NEW known, Loads(kept, run.token, known),
         connector # "drive" => kept = {},
         \A i \in Items : Current(run, i) /\ (i \in known \/ i \notin excused) => Owed(kept, i)
  PROVE  IInv'
<1>1. Typed /\ Recorded /\ Token(run) /\ ShownChanged(run) /\ Idle \in Run
  BY DEF IInv, WorldInv, RunInv, Idle, Run
<1>2. /\ \A i : i \in DOMAIN table' <=> i \in kept \/ HasRow(run, i)
      /\ \A i \in DOMAIN table' :
           IF HasRow(run, i) THEN \E x \in run.rows : x.id = i /\ table'[i] = x.body
           ELSE table'[i] = table[i]
      /\ cursor' = run.token /\ excused' = (excused \ known) \cup run.skipped /\ run' = Idle
      /\ UNCHANGED <<connector, place, attached, rev, feed>>
  BY <1>1, Loaded
<1>3. \A i : HasRow(run, i) => i \in Items
  BY <1>1 DEF HasRow, Typed, Run, Row
<1>4. DOMAIN table' \subseteq Items
  BY <1>2, <1>3
<1>5. Typed'
  <2>1. cursor' \in Nat /\ cursor' <= Len(feed')
    BY <1>1, <1>2 DEF Typed, Run, Token
  <2> QED BY <1>1, <1>2, <1>4, <2>1 DEF Typed
<1>6. Recorded'
  BY <1>1, <1>2 DEF Recorded, Live, InScope
<1>7. TableTrue'
  <2> SUFFICES ASSUME NEW i \in Items, i \notin excused', ~ChangedAfter(cursor, i)'
               PROVE  /\ InScope(i)' <=> i \in DOMAIN table'
                      /\ InScope(i)' => table'[i] = rev'[i]
    BY DEF TableTrue
  <2>1. InScope(i)' <=> InScope(i)
    BY <1>2 DEF InScope
  <2>2. ~ChangedAfter(run.token, i)
    BY <1>2 DEF ChangedAfter
  <2>3. Owed(kept, i)
    BY <1>2, <2>2 DEF Current
  <2>4. InScope(i) <=> i \in DOMAIN table'
    BY <1>2, <2>3 DEF Owed
  <2>5. InScope(i) => table'[i] = rev[i]
    BY <1>2, <2>3, <2>4 DEF Owed
  <2> QED BY <1>2, <2>1, <2>4, <2>5
<1>8. FirstEmpty'
  BY <1>1, <1>2, Bounds DEF FirstEmpty, Typed, Run
<1>9. Noticed'
  <2> SUFFICES ASSUME connector # "drive", NEW i \in DOMAIN table', ~InScope(i)
               PROVE  Len(feed) > run.token
    BY <1>2 DEF Noticed, InScope
  <2> QED BY <1>1, <1>2, <1>4 DEF ShownChanged
<1>10. RunInv(run)'
  BY <1>2 DEF RunInv, Idle
<1> QED BY <1>5, <1>6, <1>7, <1>8, <1>9, <1>10 DEF IInv, WorldInv

\* What each connector loads.
LEMMA DriveLoads ==
  ASSUME IInv, connector = "drive", DriveLoad
  PROVE  /\ IInv'
         /\ \A i \in DOMAIN table \ DOMAIN table' : WasOut(i) \/ i \in excused'
<1>1. /\ run.mode = "look" /\ run.todo = {} /\ run.listed = {}
      /\ Loads(DOMAIN table \ run.deleted, run.token, Known)
  BY DEF DriveLoad, AllRead, Loads, Idle, remote
<1>2. PICK kept, known :
        kept = DOMAIN table \ run.deleted /\ known = Known
  OBVIOUS
<1>3. Loads(kept, run.token, known) /\ (cursor # None => known = run.changed \cup run.deleted)
  <2>1. Loads(kept, run.token, known)
    BY <1>1, <1>2 DEF Loads
  <2> QED BY <1>2, <2>1 DEF Known
<1>4. /\ Typed /\ TableTrue /\ FirstEmpty /\ Token(run) /\ WindowRead(run) /\ ReadSoFar(run)
      /\ DeletedWereOut(run)
  BY <1>1 DEF IInv, WorldInv, RunInv
<1>5. kept \in SUBSET Items /\ DOMAIN table \subseteq Items
  BY <1>2, <1>4 DEF Typed
<1>6. ASSUME NEW i \in Items, Current(run, i), i \in known \/ i \notin excused
      PROVE  Owed(kept, i)
  <2>1. ~Pending(run, i) /\ i \notin run.listed
    BY <1>1 DEF Pending
  <2>2. CASE Dealt(run, i)
    <3>1. /\ InScope(i) <=> HasRow(run, i)
          /\ \A x \in run.rows : x.id = i => x.body = rev[i]
          /\ Incremental => HasRow(run, i) \/ i \in run.deleted
      BY <1>1, <1>4, <1>6, <2>1, <2>2 DEF ReadSoFar
    <3>2. i \in kept => HasRow(run, i)
      BY <1>2, <1>4, <3>1 DEF FirstEmpty, Incremental
    <3> QED BY <3>1, <3>2 DEF Owed
  <2>3. CASE ~Dealt(run, i)
    <3>1. Incremental /\ i \notin run.changed \cup run.deleted /\ ~HasRow(run, i)
      BY <1>1, <1>4, <1>6, <2>1, <2>3 DEF ReadSoFar, Dealt
    <3>2. i \notin excused
      BY <1>3, <1>6, <3>1 DEF Incremental
    <3>3. ~ChangedAfter(cursor, i)
      <4>1. \A n \in cursor + 1 .. run.token : feed[n].id # i
        BY <1>1, <1>4, <3>1 DEF WindowRead
      <4>2. \A n \in run.token + 1 .. Len(feed) : feed[n].id # i
        BY <1>6 DEF Current, ChangedAfter
      <4>3. cursor \in Nat /\ run.token \in Nat /\ Len(feed) \in Nat
        BY <1>4, <3>1 DEF Typed, Run, Incremental
      <4>4. \A n \in cursor + 1 .. Len(feed) : n \in cursor + 1 .. run.token \/ n \in run.token + 1 .. Len(feed)
        BY <4>3
      <4> QED BY <4>1, <4>2, <4>4 DEF ChangedAfter
    <3>4. /\ InScope(i) <=> i \in DOMAIN table
          /\ InScope(i) => table[i] = rev[i]
      BY <1>4, <3>1, <3>2, <3>3 DEF TableTrue, Incremental
    <3>5. i \in DOMAIN table <=> i \in kept
      BY <1>2, <3>1
    <3>6. \A x \in run.rows : x.id # i
      BY <3>1 DEF HasRow
    <3> QED BY <3>1, <3>4, <3>5, <3>6 DEF Owed
  <2> QED BY <2>2, <2>3
<1>7. IInv'
  BY <1>1, <1>3, <1>5, <1>6, LoadKeeps
<1>8. ASSUME NEW i \in DOMAIN table \ DOMAIN table'
      PROVE  WasOut(i) \/ i \in excused'
  <2>1. /\ i \in kept => i \in DOMAIN table'
        /\ excused' = (excused \ known) \cup run.skipped
    BY <1>3, <1>4, <1>5, Loaded
  <2>2. i \in Items \cap run.deleted
    BY <1>2, <1>5, <2>1
  <2>3. Incremental
    BY <1>4 DEF FirstEmpty, Incremental
  <2>4. i \in run.skipped \/ WasOutSince(i)
    BY <1>4, <2>2, <2>3 DEF DeletedWereOut
  <2> QED BY <2>1, <2>4 DEF WasOut, WasOutSince
<1> QED BY <1>7, <1>8

LEMMA SnapshotLoad ==
  ASSUME IInv, connector # "drive", AllRead, Loads({}, run.token, Items)
  PROVE  /\ IInv'
         /\ \A i \in DOMAIN table \ DOMAIN table' : WasOut(i) \/ i \in excused'
<1>1. /\ run.mode = "look" /\ run.todo = {} /\ run.listed = {} /\ ~Incremental
      /\ {} \in SUBSET Items
  BY DEF AllRead, Incremental
<1>2. Typed /\ ReadSoFar(run) /\ StillShown(run)
  BY <1>1 DEF IInv, WorldInv, RunInv
<1>3. \A i : ~Pending(run, i)
  BY <1>1 DEF Pending
<1>4. ASSUME NEW i \in Items, Current(run, i) PROVE Owed({}, i)
  <2>1. Dealt(run, i)
    BY <1>1 DEF Dealt
  <2>2. /\ InScope(i) <=> HasRow(run, i)
        /\ \A x \in run.rows : x.id = i => x.body = rev[i]
    BY <1>1, <1>2, <1>3, <1>4, <2>1 DEF ReadSoFar
  <2> QED BY <2>2 DEF Owed
<1>5. IInv'
  BY <1>1, <1>4, LoadKeeps
<1>6. ASSUME NEW i \in DOMAIN table \ DOMAIN table'
      PROVE  WasOut(i) \/ i \in excused'
  <2>1. /\ HasRow(run, i) => i \in DOMAIN table'
        /\ excused' = (excused \ Items) \cup run.skipped
    BY <1>1, <1>2, Loaded
  <2>2. i \in run.skipped \/ WasOutSince(i)
    BY <1>1, <1>2, <1>3, <2>1 DEF StillShown
  <2> QED BY <2>1, <2>2 DEF WasOut, WasOutSince
<1> QED BY <1>5, <1>6

-----------------------------------------------------------------------------
(* Every step.                                                             *)

LEMMA StepKeeps ==
  ASSUME IInv, [Next]_vars
  PROVE  /\ IInv'
         /\ \A i \in DOMAIN table \ DOMAIN table' : WasOut(i) \/ i \in excused'
<1>1. ASSUME Quiet
      PROVE  /\ IInv'
             /\ \A i \in DOMAIN table \ DOMAIN table' : WasOut(i) \/ i \in excused'
  BY <1>1, QuietKeeps DEF IInv, Quiet
<1>2. CASE Changes
  <2>1. table' = table
    BY <1>2, ChangesTold DEF IInv, WorldInv, Told, Shift
  <2> QED BY <1>2, <2>1, ChangesKeep
<1>3. CASE connector = "drive" /\ (DriveNext \/ DriveFails)
  BY <1>1, <1>3, DriveGoesOn, DriveFaults, DriveLoads
<1>4. CASE connector = "notion" /\ (NotionNext \/ NotionFails)
  <2>1. CASE NotionLoad
    <3>1. AllRead /\ Loads({}, run.token, Items)
      BY <2>1 DEF NotionLoad, AllRead, Loads, Idle,
                  remote
    <3> QED BY <1>4, <3>1, SnapshotLoad
  <2> QED BY <1>1, <1>4, <2>1, NotionGoesOn
<1>5. CASE connector = "slack" /\ (SlackNext \/ SlackFails)
  <2>1. CASE SlackLoad
    <3>1. AllRead /\ Loads({}, run.token, Items)
      BY <2>1 DEF SlackLoad, AllRead, Loads, Idle,
                  remote
    <3> QED BY <1>5, <3>1, SnapshotLoad
  <2> QED BY <1>1, <1>5, <2>1, SlackGoesOn
<1>6. CASE UNCHANGED vars
  <2>1. UNCHANGED <<connector, place, attached, rev, feed, cursor, table, run, excused>>
    BY <1>6 DEF vars, remote
  <2>2. run \in Run /\ RunInv(run)
    BY DEF IInv, WorldInv, Typed
  <2> QED BY <1>1, <2>1, <2>2 DEF Quiet
<1> QED BY <1>2, <1>3, <1>4, <1>5, <1>6 DEF Next, Step, Fails

\* What every run has in hand, and the table, stay true of the collection.
THEOREM Invariant == Spec => []IInv
<1>1. IInv /\ [Next]_vars => IInv'
  BY StepKeeps
<1> QED BY <1>1, InitKeeps, PTL DEF Spec

\* After every load and until the next run begins, the table is true of every item that has
\* not changed since what the run has seen of the collection: of all items in scope, of no
\* others, with the content they have.
THEOREM TableStaysTrue == Spec => []SyncedUpToCursor
<1>1. IInv => SyncedUpToCursor
  BY DEF IInv, WorldInv, TableTrue, SyncedUpToCursor
<1> QED BY <1>1, Invariant, PTL

\* No load takes an item from the table that has been in scope all the time since the run
\* before, unless it is one of those left out.
THEOREM ForgottenWereOut == Spec => ForgottenWasOut
<1>1. IInv /\ [Next]_vars => [\A i \in DOMAIN table \ DOMAIN table' : WasOut(i) \/ i \in excused']_vars
  BY StepKeeps
<1> QED BY <1>1, Invariant, PTL DEF Spec, ForgottenWasOut
=============================================================================
