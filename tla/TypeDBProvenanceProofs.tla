----------------------- MODULE TypeDBProvenanceProofs -----------------------
(***************************************************************************)
(* Theorems about TypeDBProvenance, for any nodes, edges, keys, runs,      *)
(* writers and calls.                                                      *)
(***************************************************************************)
EXTENDS TypeDBProvenance, FiniteSetTheorems, WellFoundedInduction, TLAPS

-----------------------------------------------------------------------------
(* Positions: the highest position of a bounded list exists.               *)

\* The natural numbers are well-founded under <.
LEMMA LessThanIsWellFounded ==
  \E R : IsWellFoundedOn(R, Nat) /\ \A x, y \in Nat : x < y => <<x, y>> \in R
<1>1. \A x, y \in Nat : x < y => <<x, y>> \in OpToRel(<, Nat)
  BY DEF OpToRel
<1> QED BY <1>1, NatLessThanWellFounded, Zenon

\* Every non-empty set of naturals has a least element.
LEMMA LeastNatural ==
  ASSUME NEW T, T \subseteq Nat, T # {}
  PROVE  \E x \in T : \A y \in T : x <= y
<1>1. PICK R : IsWellFoundedOn(R, Nat) /\ \A x, y \in Nat : x < y => <<x, y>> \in R
  BY LessThanIsWellFounded
<1>2. IsWellFoundedOn(R, Nat)
  BY <1>1
<1>3. \E x \in T : \A y \in T : ~ (<<y, x>> \in R)
  BY <1>2, WFMin
<1>4. \A x, y \in Nat : x < y => <<x, y>> \in R
  BY <1>1
<1>5. PICK x \in T : \A y \in T : ~ (<<y, x>> \in R)
  BY <1>3
<1>6. ASSUME NEW y \in T
      PROVE  ~ (y < x)
  BY <1>4, <1>5
<1>7. x \in Nat /\ \A y \in T : y \in Nat
  OBVIOUS
<1> QED BY <1>6, <1>7

\* MaxOf finds the greatest element of a non-empty set of integers that is
\* bounded above and starts at -1.
LEMMA MaxOfBounded ==
  ASSUME NEW S \in SUBSET Int, -1 \in S, NEW b \in Nat,
         \A x \in S : -1 <= x /\ x <= b
  PROVE  MaxOf(S) \in S /\ \A x \in S : x <= MaxOf(S)
<1> DEFINE T == {n \in Nat : \A x \in S : x < n}
<1>1. b + 1 \in T
  OBVIOUS
<1>2. PICK m \in T : \A n \in T : m <= n
  BY <1>1, LeastNatural
<1>3. m - 1 \in S
  <2>1. CASE m = 0
    BY <2>1
  <2>2. CASE m # 0
    <3>1. m - 1 \in Nat /\ m - 1 \notin T
      BY <1>2, <2>2
    <3>2. PICK x \in S : ~ (x < m - 1)
      BY <3>1
    <3> QED BY <1>2, <3>1, <3>2
  <2> QED BY <2>1, <2>2
<1>4. \A x \in S : x <= m - 1
  BY <1>2
<1> QED BY <1>3, <1>4 DEF MaxOf

\* Every artifact's list has a last position.
Bounded(d) ==
  \A a \in Artifacts : \E b \in Nat : \A l \in d.links : l[1] = a => l[3] <= b

\* The next position comes after every position the artifact's list uses
\* (next_position in _provenance_change_sync).
LEMMA NextPositionIsLast ==
  ASSUME NEW s \in Database, Bounded(s), NEW a \in Artifacts, NEW R
  PROVE  /\ NextPosition(s, a, R) \in Nat
         /\ \A l \in LinksOf(s, a, R) : l[3] < NextPosition(s, a, R)
<1> DEFINE P == {l[3] : l \in LinksOf(s, a, R)}
           S == {-1} \cup P
<1>1. \A l \in LinksOf(s, a, R) : l \in s.links /\ l[1] = a /\ l[3] \in Nat
  BY DEF LinksOf, Database, Link
<1>2. PICK b \in Nat : \A l \in s.links : l[1] = a => l[3] <= b
  BY DEF Bounded
<1>3. \A x \in P : x \in Nat /\ x <= b
  BY <1>1, <1>2
<1>4. S \in SUBSET Int /\ -1 \in S /\ \A x \in S : -1 <= x /\ x <= b
  BY <1>3
<1>5. MaxOf(S) \in S /\ \A x \in S : x <= MaxOf(S)
  <2> HIDE DEF S
  <2> QED BY <1>2, <1>4, MaxOfBounded
<1>6. NextPosition(s, a, R) = MaxOf(S) + 1
  BY DEF NextPosition
<1>7. \A l \in LinksOf(s, a, R) : l[3] \in S
  OBVIOUS
<1>8. MaxOf(S) \in Int /\ -1 <= MaxOf(S)
  <2> HIDE DEF S, P
  <2> QED BY <1>4, <1>5
<1>9. ASSUME NEW l \in LinksOf(s, a, R)
      PROVE  l[3] <= MaxOf(S) /\ l[3] \in Nat
  <2> HIDE DEF S, P
  <2> QED BY <1>1, <1>5, <1>7
<1> HIDE DEF S, P
<1> QED BY <1>6, <1>8, <1>9

\* What Appended yields are links of the artifact to refs of the list, after
\* the links it has and at bounded positions.
LEMMA AppendedLinks ==
  ASSUME NEW s \in Database, Bounded(s), NEW a \in Artifacts, NEW R, NEW list,
         IsFiniteSet(DOMAIN list), \A i \in DOMAIN list : list[i] \in Refs
  PROVE  /\ Appended(s, a, R, list) \subseteq Link
         /\ \A l \in Appended(s, a, R, list) :
              /\ l[1] = a
              /\ \E i \in DOMAIN list : l[2] = list[i]
              /\ NextPosition(s, a, R) <= l[3]
         /\ \E b \in Nat : \A l \in Appended(s, a, R, list) : l[3] <= b
<1> DEFINE new == {i \in DOMAIN list : list[i] \notin Held(s, a, R)}
           next == NextPosition(s, a, R)
           Before(i) == {h \in new : h < i}
<1>1. next \in Nat
  BY NextPositionIsLast
<1>2. IsFiniteSet(new) /\ Cardinality(new) \in Nat
  BY FS_Subset, FS_CardinalityType
<1>3. ASSUME NEW i \in new
      PROVE  /\ Cardinality(Before(i)) \in Nat
             /\ Cardinality(Before(i)) <= Cardinality(new)
  <2>1. Before(i) \in SUBSET new
    OBVIOUS
  <2>2. IsFiniteSet(Before(i)) /\ Cardinality(Before(i)) <= Cardinality(new)
    <3> HIDE DEF new, Before
    <3> QED BY <1>2, <2>1, FS_Subset
  <2>3. Cardinality(Before(i)) \in Nat
    <3> HIDE DEF new, Before
    <3> QED BY <2>2, FS_CardinalityType
  <2> QED BY <2>2, <2>3
<1>4. Appended(s, a, R, list) = {<<a, list[i], next + Cardinality(Before(i))>> : i \in new}
  BY DEF Appended
<1>5. new \subseteq DOMAIN list
  OBVIOUS
<1> HIDE DEF new, next, Before
<1>6. Appended(s, a, R, list) \subseteq Link
  BY <1>1, <1>3, <1>4, <1>5 DEF Link
<1>7. ASSUME NEW l \in Appended(s, a, R, list)
      PROVE  /\ l[1] = a
             /\ \E i \in DOMAIN list : l[2] = list[i]
             /\ next <= l[3] /\ l[3] <= next + Cardinality(new)
  <2>1. PICK i \in new : l = <<a, list[i], next + Cardinality(Before(i))>>
    BY <1>4
  <2> QED BY <1>1, <1>2, <1>3, <1>5, <2>1
<1>8. next + Cardinality(new) \in Nat
  BY <1>1, <1>2
<1> QED BY <1>6, <1>7, <1>8 DEF next

\* A job's fields are what Job says.
LEMMA JobFields ==
  ASSUME NEW j \in Jobs
  PROVE  /\ j.op \in Ops /\ j.arts \in SUBSET Artifacts /\ j.keys \in Seq(Keys)
         /\ j.run \in Runs \cup {NoRun}
         /\ j.op = "deleteNodes" => j.arts \subseteq Nodes
         /\ j.op = "deleteEdges" => j.arts \subseteq Edges
BY JobsAreCalls DEF Job

\* The links a transition adds to an artifact are links of that artifact, at
\* bounded positions.
LEMMA InsertsForLinks ==
  ASSUME NEW s \in Database, Bounded(s), NEW j \in Jobs, NEW a \in Artifacts
  PROVE  /\ InsertsFor(s, a, j) \subseteq Link
         /\ \A l \in InsertsFor(s, a, j) : l[1] = a
         /\ \E b \in Nat : \A l \in InsertsFor(s, a, j) : l[3] <= b
<1>1. j.keys \in Seq(Keys) /\ j.run \in Runs \cup {NoRun}
  BY JobFields
<1>2. DOMAIN j.keys = 1 .. Len(j.keys) /\ Len(j.keys) \in Nat
  BY <1>1
<1>3. IsFiniteSet(DOMAIN j.keys)
  BY <1>2, FS_Interval
<1> DEFINE runRefs == NewRunRefs(s, a, j)
<1>4. DOMAIN runRefs \in SUBSET (DOMAIN j.keys)
  BY DEF NewRunRefs
<1>5. IsFiniteSet(DOMAIN runRefs)
  <2> HIDE DEF runRefs
  <2> QED BY <1>3, <1>4, FS_Subset
<1>6. \A i \in DOMAIN j.keys : j.keys[i] \in Refs
  BY <1>1, <1>2 DEF Refs
<1>7. \A i \in DOMAIN runRefs : runRefs[i] \in Refs
  BY <1>1, <1>2 DEF NewRunRefs, Refs, RunRefs
<1> HIDE DEF runRefs
<1>8. /\ Appended(s, a, Keys, j.keys) \subseteq Link
      /\ \A l \in Appended(s, a, Keys, j.keys) : l[1] = a
      /\ \E b \in Nat : \A l \in Appended(s, a, Keys, j.keys) : l[3] <= b
  BY <1>3, <1>6, AppendedLinks
<1>9. /\ Appended(s, a, RunRefs, runRefs) \subseteq Link
      /\ \A l \in Appended(s, a, RunRefs, runRefs) : l[1] = a
      /\ \E b \in Nat : \A l \in Appended(s, a, RunRefs, runRefs) : l[3] <= b
  BY <1>5, <1>7, AppendedLinks
<1>10. \/ InsertsFor(s, a, j) = {}
       \/ InsertsFor(s, a, j) = Appended(s, a, Keys, j.keys)
                                   \cup Appended(s, a, RunRefs, runRefs)
  BY DEF InsertsFor, runRefs
<1>11. \E b \in Nat : \A l \in InsertsFor(s, a, j) : l[3] <= b
  <2>1. PICK b \in Nat : \A l \in Appended(s, a, Keys, j.keys) : l[3] <= b
    BY <1>8
  <2>2. PICK c \in Nat : \A l \in Appended(s, a, RunRefs, runRefs) : l[3] <= c
    BY <1>9
  <2>3. \A l \in InsertsFor(s, a, j) : l[3] \in Nat
    BY <1>8, <1>9, <1>10 DEF Link
  <2>4. \A l \in InsertsFor(s, a, j) : l[3] <= b + c
    BY <1>10, <2>1, <2>2, <2>3
  <2> QED BY <2>4
<1> QED BY <1>8, <1>9, <1>10, <1>11

(* What a transaction changes, in terms of its snapshot.                   *)

\* A transaction inserts links between artifacts it sees and ref entities its
\* snapshot has.
LEMMA InsertedLinks ==
  ASSUME NEW s \in Database, Bounded(s), NEW j \in Jobs, NEW l \in Inserts(s, j)
  PROVE  /\ l \in Link
         /\ l[1] \in j.arts /\ l[1] \in Present(s, j) /\ l[2] \in s.refs
         /\ l[1] \in Writes(s, j)
         /\ l[1] \in Players(s, j) /\ l[2] \in Players(s, j)
         /\ j.op \in {"add", "attach"}
         /\ l \in InsertsFor(s, l[1], j)
<1>1. PICK a \in j.arts \cap Present(s, j) : l \in InsertsFor(s, a, j)
  BY DEF Inserts
<1>2. a \in Artifacts
  BY JobFields
<1>3. l \in Link /\ l[1] = a
  BY <1>1, <1>2, InsertsForLinks
<1>4. l[2] \in s.refs
  BY DEF Inserts
<1>5. j.op \in {"add", "attach"}
  BY <1>1 DEF InsertsFor
<1>6. l[1] \in Writes(s, j)
  BY <1>1, <1>3 DEF Writes, Touched
<1>7. l[1] \in Players(s, j) /\ l[2] \in Players(s, j)
  BY DEF Players
<1> QED BY <1>1, <1>3, <1>4, <1>5, <1>6, <1>7

\* A call that attaches deletes nothing.
LEMMA InsertingJobsDeleteNothing ==
  ASSUME NEW s, NEW j, j.op \in {"add", "attach"}
  PROVE  Deleted(s, j) = {} /\ SweptRefs(s, j) = {}
BY DEF Deleted, SweptRefs

\* A transaction creates artifacts only, and edges only between nodes of its
\* snapshot.
LEMMA UpsertedArtifacts ==
  ASSUME NEW s, NEW j \in Jobs, NEW a \in Upserted(s, j)
  PROVE  /\ a \in Artifacts /\ a \in Writes(s, j) /\ j.op = "add"
         /\ a \in Edges => /\ {a[1], a[2]} \subseteq s.art
                           /\ {a[1], a[2]} \subseteq Players(s, j)
BY JobFields DEF Upserted, Writes, Players

\* No dangling links in database d.
Whole(d) == \A l \in d.links : l[1] \in d.art /\ l[2] \in d.refs

\* A transaction deletes links of its snapshot, of artifacts it deletes or
\* touches.
LEMMA UnlinkedLinks ==
  ASSUME NEW s \in Database, Whole(s), NEW j \in Jobs, NEW l \in Unlinked(s, j)
  PROVE  l \in s.links /\ (l[1] \in Deleted(s, j) \/ l[1] \in Writes(s, j))
BY DEF Unlinked, UnlinksFor, Writes, Touched, Present, Whole

\* No dangling edges in database d.
EdgesWhole(d) == \A e \in d.art \cap Edges : {e[1], e[2]} \subseteq d.art

Sound(d) == d \in Database /\ Whole(d) /\ EdgesWhole(d) /\ Bounded(d)

(* A commit decided on a snapshot that agrees with the database keeps the  *)
(* database sound.                                                         *)

\* A commit turns a database into a database.
LEMMA AppliedIsDatabase ==
  ASSUME NEW d, Sound(d), NEW s, Sound(s), NEW j \in Jobs
  PROVE  Applied(d, s, j) \in Database
<1>1. Inserts(s, j) \subseteq Link
  BY InsertedLinks DEF Sound
<1>2. Upserted(s, j) \subseteq Artifacts
  BY UpsertedArtifacts
<1> QED BY <1>1, <1>2 DEF Applied, Sound, Database

\* A commit whose snapshot is current leaves no link dangling.
LEMMA AppliedIsWhole ==
  ASSUME NEW d, Sound(d), NEW s, Sound(s), NEW j \in Jobs, Agrees(s, j, d)
  PROVE  Whole(Applied(d, s, j))
<1> DEFINE e == Applied(d, s, j)
<1>1. ASSUME NEW l \in d.links \ Unlinked(s, j)
      PROVE  l[1] \in e.art /\ l[2] \in e.refs
  <2>1. l[1] \in d.art /\ l[2] \in d.refs
    BY DEF Sound, Whole
  <2>2. l[1] \notin Deleted(s, j)
    BY DEF Agrees, Deletes, Unlinked
  <2>3. l[2] \notin SweptRefs(s, j)
    BY DEF Agrees, Deletes, SweptRefs
  <2> QED BY <2>1, <2>2, <2>3 DEF Applied
<1>2. ASSUME NEW l \in Inserts(s, j)
      PROVE  l[1] \in e.art /\ l[2] \in e.refs
  <2>1. /\ l[1] \in Present(s, j) /\ l[2] \in s.refs
        /\ l[1] \in Uses(s, j) /\ l[2] \in Uses(s, j)
        /\ j.op \in {"add", "attach"}
    BY InsertedLinks DEF Sound, Uses
  <2>2. Deleted(s, j) = {} /\ SweptRefs(s, j) = {}
    BY <2>1, InsertingJobsDeleteNothing
  <2>3. l[1] \in d.art \cup Upserted(s, j) /\ l[2] \in d.refs
    BY <2>1 DEF Agrees, Present
  <2> QED BY <2>2, <2>3 DEF Applied
<1>3. e.links = (d.links \ Unlinked(s, j)) \cup Inserts(s, j)
  BY DEF Applied
<1> QED BY <1>1, <1>2, <1>3 DEF Whole

\* A commit whose snapshot is current leaves no edge dangling.
LEMMA AppliedEdgesWhole ==
  ASSUME NEW d, Sound(d), NEW s, Sound(s), NEW j \in Jobs, Agrees(s, j, d)
  PROVE  EdgesWhole(Applied(d, s, j))
<1> DEFINE D == Applied(d, s, j)
<1>1. ASSUME NEW e \in Edges, e \in d.art, e \notin Deleted(s, j)
      PROVE  {e[1], e[2]} \subseteq D.art
  <2>1. {e[1], e[2]} \subseteq d.art /\ {e[1], e[2]} \subseteq Nodes
    <3>1. e \in Nodes \X Nodes \X Rels
      BY <1>1, EdgesAreTriples
    <3>2. {e[1], e[2]} \subseteq d.art
      BY <1>1 DEF Sound, EdgesWhole
    <3> QED BY <3>1, <3>2
  <2>2. ASSUME NEW n \in {e[1], e[2]}, n \in Deleted(s, j)
        PROVE  FALSE
    <3>1. e \in s.art
      BY <2>2, <1>1 DEF Agrees, Deletes, Incident
    <3>2. j.op \in {"deleteGraph", "deleteNodes"} /\ (j.op = "deleteNodes" => n \in j.arts)
      BY <2>1, <2>2, JobFields, KindsDisjoint DEF Deleted
    <3>3. e \in Deleted(s, j)
      BY <1>1, <2>2, <3>1, <3>2 DEF Deleted, Incident
    <3> QED BY <1>1, <3>3
  <2> QED BY <2>1, <2>2 DEF Applied
<1>2. ASSUME NEW e \in Edges, e \in Upserted(s, j)
      PROVE  {e[1], e[2]} \subseteq D.art
  <2>1. {e[1], e[2]} \subseteq s.art /\ {e[1], e[2]} \subseteq Uses(s, j) /\ j.op = "add"
    BY <1>2, UpsertedArtifacts DEF Uses
  <2>2. Deleted(s, j) = {}
    BY <2>1, InsertingJobsDeleteNothing
  <2>3. {e[1], e[2]} \subseteq d.art
    BY <2>1 DEF Agrees
  <2> QED BY <2>2, <2>3 DEF Applied
<1>3. D.art = (d.art \cup Upserted(s, j)) \ Deleted(s, j)
  BY DEF Applied
<1> QED BY <1>1, <1>2, <1>3 DEF EdgesWhole

\* A commit keeps the positions of every artifact bounded.
LEMMA AppliedIsBounded ==
  ASSUME NEW d, Sound(d), NEW s, Sound(s), NEW j \in Jobs
  PROVE  Bounded(Applied(d, s, j))
<1> SUFFICES ASSUME NEW a \in Artifacts
             PROVE  \E b \in Nat : \A l \in Applied(d, s, j).links : l[1] = a => l[3] <= b
  BY DEF Bounded
<1>1. PICK b \in Nat : \A l \in d.links : l[1] = a => l[3] <= b
  BY DEF Sound, Bounded
<1>2. PICK c \in Nat : \A l \in InsertsFor(s, a, j) : l[3] <= c
  BY InsertsForLinks DEF Sound
<1>3. \A l \in d.links \cup Inserts(s, j) : l[3] \in Nat
  BY InsertedLinks DEF Sound, Database, Link
<1>4. \A l \in Inserts(s, j) : l[1] = a => l \in InsertsFor(s, a, j)
  BY InsertedLinks DEF Sound
<1>5. \A l \in d.links \cup Inserts(s, j) : l[1] = a => l[3] <= b + c
  BY <1>1, <1>2, <1>3, <1>4
<1> QED BY <1>5 DEF Applied

\* A commit whose snapshot is current keeps the database sound.
LEMMA AppliedIsSound ==
  ASSUME NEW d, Sound(d), NEW s, Sound(s), NEW j \in Jobs, Agrees(s, j, d)
  PROVE  Sound(Applied(d, s, j))
BY AppliedIsDatabase, AppliedIsWhole, AppliedEdgesWhole, AppliedIsBounded DEF Sound

(* A commit leaves the transactions it does not conflict with current.     *)

\* A commit leaves every transaction it does not conflict with current.
LEMMA CommitKeepsAgreement ==
  ASSUME NEW d, Sound(d),
         NEW s, Sound(s), NEW j \in Jobs,
         NEW t, Sound(t), NEW k \in Jobs, Agrees(t, k, d),
         ~ Conflict(s, j, t, k)
  PROVE  Agrees(t, k, Applied(d, s, j))
<1> DEFINE D == Applied(d, s, j)
<1>1. /\ D.art = (d.art \cup Upserted(s, j)) \ Deleted(s, j)
      /\ D.refs = d.refs \ SweptRefs(s, j)
      /\ D.links = (d.links \ Unlinked(s, j)) \cup Inserts(s, j)
  BY DEF Applied
<1>2. /\ Writes(s, j) \cap Writes(t, k) = {}
      /\ Deletes(s, j) \cap Uses(t, k) = {}
      /\ Uses(s, j) \cap Deletes(t, k) = {}
  BY DEF Conflict
<1>3. Writes(t, k) \subseteq Uses(t, k)
  BY DEF Uses
<1>4. /\ Deleted(s, j) \subseteq Deletes(s, j)
      /\ SweptRefs(s, j) \subseteq Deletes(s, j)
      /\ Upserted(s, j) \subseteq Writes(s, j)
      /\ Players(s, j) \subseteq Uses(s, j)
  BY DEF Deletes, Writes, Uses
<1>5. \A l \in Inserts(s, j) :
        l[1] \in Writes(s, j) /\ l[1] \in Players(s, j) /\ l[2] \in Players(s, j)
  BY InsertedLinks DEF Sound
<1>6. \A l \in Unlinked(s, j) : l[1] \in Deleted(s, j) \/ l[1] \in Writes(s, j)
  BY UnlinkedLinks DEF Sound
<1>7. \A a \in Upserted(s, j) \cap Edges : {a[1], a[2]} \subseteq Players(s, j)
  BY UpsertedArtifacts
<1> HIDE DEF D
<1>8. Uses(t, k) \cap t.art \subseteq D.art
  BY <1>1, <1>2, <1>4 DEF Agrees
<1>9. Uses(t, k) \cap t.refs \subseteq D.refs
  BY <1>1, <1>2, <1>4 DEF Agrees
<1>10. Writes(t, k) \cap D.art \subseteq t.art
  BY <1>1, <1>2, <1>4 DEF Agrees
<1>11. ASSUME NEW l \in t.links \cup D.links, l[1] \in Writes(t, k)
       PROVE  l \in t.links <=> l \in D.links
  <2>1. l \notin Inserts(s, j)
    BY <1>2, <1>5, <1>11
  <2>2. l \notin Unlinked(s, j)
    BY <1>2, <1>3, <1>4, <1>6, <1>11
  <2>3. l \in d.links <=> l \in D.links
    BY <1>1, <2>1, <2>2
  <2> QED BY <1>11, <2>3 DEF Agrees
<1>12. ASSUME NEW l \in D.links, l[1] \in Deletes(t, k) \/ l[2] \in Deletes(t, k)
       PROVE  l \in t.links
  <2>1. l \notin Inserts(s, j)
    BY <1>2, <1>4, <1>5, <1>12
  <2> QED BY <1>1, <1>12, <2>1 DEF Agrees
<1>13. ASSUME NEW e \in D.art \cap Edges, Incident(e, Deletes(t, k))
       PROVE  e \in t.art
  <2>1. e \notin Upserted(s, j)
    BY <1>2, <1>4, <1>7, <1>13 DEF Incident
  <2> QED BY <1>1, <1>13, <2>1 DEF Agrees
<1> QED BY <1>8, <1>9, <1>10, <1>11, <1>12, <1>13 DEF Agrees, D

\* A snapshot taken now is current.
LEMMA FreshSnapshotAgrees ==
  ASSUME NEW d, NEW j
  PROVE  Agrees(d, j, d)
BY DEF Agrees

-----------------------------------------------------------------------------
(* The inductive invariant: the committed database and every snapshot are  *)
(* sound, and an open transaction that is not doomed is current.           *)

SnapshotsSound == \A w \in Writers : Sound(snap[w])

Inv == TypeOK /\ Sound(db) /\ SnapshotsSound /\ SnapshotCurrent
       /\ \A w \in Writers : pc[w] \in {"ensure", "ready", "open"} => job[w] \in Jobs

\* The empty database is sound.
LEMMA EmptyIsSound == Sound(EmptyDb)
<1>1. EmptyDb \in Database
  BY DEF EmptyDb, Database
<1>2. Whole(EmptyDb) /\ EdgesWhole(EmptyDb)
  BY DEF EmptyDb, Whole, EdgesWhole
<1>3. Bounded(EmptyDb)
  <2>1. 0 \in Nat /\ EmptyDb.links = {}
    BY DEF EmptyDb
  <2> QED BY <2>1 DEF Bounded
<1> QED BY <1>1, <1>2, <1>3 DEF Sound

\* The invariant holds initially.
LEMMA InitInv == Init => Inv
<1> SUFFICES ASSUME Init PROVE Inv
  OBVIOUS
<1>1. Sound(db) /\ SnapshotsSound
  BY EmptyIsSound DEF Init, SnapshotsSound
<1>2. TypeOK
  BY <1>1 DEF Init, TypeOK, Sound, SnapshotsSound, Phases
<1> QED BY <1>1, <1>2 DEF Init, Inv, SnapshotCurrent

\* A writer that leaves its transaction, the database and the other writers
\* untouched, keeps the invariant.
LEMMA LeaveInv ==
  ASSUME Inv, NEW w \in Writers, NEW outcome \in Phases \ {"ensure", "open"},
         UNCHANGED <<db, calls>>,
         pc' = [pc EXCEPT ![w] = outcome],
         \/ job' = [job EXCEPT ![w] = NoJob] /\ outcome \in Resting
         \/ job' = job /\ pc[w] = "open",
         snap' = [snap EXCEPT ![w] = EmptyDb],
         doomed' = [doomed EXCEPT ![w] = FALSE]
  PROVE  Inv'
<1>1. TypeOK'
  BY EmptyIsSound DEF Inv, TypeOK, Sound
<1>2. Sound(db)'
  BY DEF Inv
<1>3. SnapshotsSound'
  BY EmptyIsSound DEF Inv, TypeOK, SnapshotsSound
<1>4. SnapshotCurrent'
  BY DEF Inv, TypeOK, SnapshotCurrent
<1>5. \A v \in Writers : pc'[v] \in {"ensure", "ready", "open"} => job'[v] \in Jobs
  BY DEF Inv, TypeOK, Resting
<1> QED BY <1>1, <1>2, <1>3, <1>4, <1>5 DEF Inv

\* A call that starts keeps the invariant.
LEMMA CallInv ==
  ASSUME Inv, NEW w \in Writers, NEW j \in Jobs, Call(w, j)
  PROVE  Inv'
<1>1. TypeOK'
  BY DEF Inv, TypeOK, Call, Phases
<1>2. SnapshotCurrent'
  BY DEF Inv, TypeOK, SnapshotCurrent, Call
<1>3. Sound(db)' /\ SnapshotsSound'
  BY DEF Inv, SnapshotsSound, Call
<1>4. \A v \in Writers : pc'[v] \in {"ensure", "ready", "open"} => job'[v] \in Jobs
  BY DEF Inv, TypeOK, Call
<1> QED BY <1>1, <1>2, <1>3, <1>4 DEF Inv

\* Putting ref entities keeps the invariant: an open transaction that deletes
\* one of them is doomed.
LEMMA EnsureRefsInv ==
  ASSUME Inv, NEW w \in Writers, EnsureRefs(w)
  PROVE  Inv'
<1> DEFINE put == RefsToPut(job[w])
<1>1. job[w] \in Jobs /\ pc[w] = "ensure"
  BY DEF Inv, EnsureRefs
<1>2. put \subseteq Refs
  <2>1. job[w].keys \in Seq(Keys) /\ job[w].run \in Runs \cup {NoRun}
    BY <1>1, JobFields
  <2> QED BY <2>1 DEF RefsToPut, KeysIn, Refs, RunRefs
<1>3. db \in Database
  BY DEF Inv, Sound
<1>4. /\ db'.art = db.art /\ db'.links = db.links /\ db'.refs = db.refs \cup put
      /\ db' \in Database
  BY <1>2, <1>3 DEF EnsureRefs, Database
<1>5. Sound(db)'
  BY <1>4 DEF Inv, Sound, Whole, EdgesWhole, Bounded
<1>6. /\ pc' = [pc EXCEPT ![w] = "ready"]
      /\ doomed' \in [Writers -> BOOLEAN]
      /\ \A v \in Writers : ~doomed'[v] => ~doomed[v]
      /\ UNCHANGED <<job, snap, calls>>
  BY DEF EnsureRefs, Inv, TypeOK
<1>7. TypeOK'
  BY <1>4, <1>6 DEF Inv, TypeOK, Phases
<1>8. ASSUME NEW v \in Writers, pc'[v] = "open", ~doomed'[v]
      PROVE  Agrees(snap'[v], job'[v], db')
  <2>1. pc[v] = "open" /\ ~doomed[v] /\ snap'[v] = snap[v] /\ job'[v] = job[v]
    BY <1>6, <1>8 DEF Inv, TypeOK
  <2>2. Agrees(snap[v], job[v], db)
    BY <2>1 DEF Inv, SnapshotCurrent
  <2> QED BY <1>4, <2>1, <2>2 DEF Agrees
<1>9. SnapshotsSound'
  BY <1>6 DEF Inv, SnapshotsSound
<1>10. \A v \in Writers : pc'[v] \in {"ensure", "ready", "open"} => job'[v] \in Jobs
  BY <1>1, <1>6 DEF Inv, TypeOK
<1> QED BY <1>5, <1>7, <1>8, <1>9, <1>10 DEF Inv, SnapshotCurrent

\* Opening a transaction keeps the invariant.
LEMMA OpenInv ==
  ASSUME Inv, NEW w \in Writers, Open(w)
  PROVE  Inv'
<1>1. TypeOK'
  BY DEF Inv, TypeOK, Open, Phases
<1>2. Sound(db)' /\ SnapshotsSound'
  BY DEF Inv, TypeOK, SnapshotsSound, Open
<1>3. ASSUME NEW v \in Writers, pc'[v] = "open", ~doomed'[v]
      PROVE  Agrees(snap'[v], job'[v], db')
  <2>1. CASE v = w
    <3>1. snap'[v] = db /\ db' = db
      BY <2>1 DEF Inv, TypeOK, Open
    <3> QED BY <3>1, FreshSnapshotAgrees
  <2>2. CASE v # w
    BY <1>3, <2>2 DEF Inv, TypeOK, SnapshotCurrent, Open
  <2> QED BY <2>1, <2>2
<1>4. \A v \in Writers : pc'[v] \in {"ensure", "ready", "open"} => job'[v] \in Jobs
  BY DEF Inv, TypeOK, Open
<1> QED BY <1>1, <1>2, <1>3, <1>4 DEF Inv, SnapshotCurrent

\* A commit keeps the invariant.
LEMMA CommitInv ==
  ASSUME Inv, NEW w \in Writers, Commit(w)
  PROVE  Inv'
<1> DEFINE s == snap[w]
           j == job[w]
<1>1. Sound(db) /\ Sound(s) /\ j \in Jobs /\ Agrees(s, j, db)
  BY DEF Inv, Commit, SnapshotsSound, SnapshotCurrent
<1>2. db' = Applied(db, s, j)
  BY DEF Commit
<1>3. Sound(db)'
  <2>1. Sound(Applied(db, s, j))
    <3> HIDE DEF s, j
    <3> QED BY <1>1, AppliedIsSound
  <2> QED BY <1>2, <2>1
<1>4. /\ pc' = [pc EXCEPT ![w] = "done"]
      /\ job' = [job EXCEPT ![w] = NoJob]
      /\ snap' = [snap EXCEPT ![w] = EmptyDb]
      /\ doomed' \in [Writers -> BOOLEAN]
      /\ calls' = calls
      /\ \A v \in Writers \ {w} : ~doomed'[v] =>
           ~doomed[v] /\ (pc[v] = "open" => ~Conflict(s, j, snap[v], job[v]))
  BY DEF Commit, End, Inv, TypeOK
<1>5. TypeOK'
  BY <1>3, <1>4, EmptyIsSound DEF Inv, TypeOK, Sound, Phases
<1>6. SnapshotsSound'
  BY <1>4, EmptyIsSound DEF Inv, TypeOK, SnapshotsSound
<1>7. ASSUME NEW v \in Writers, pc'[v] = "open", ~doomed'[v]
      PROVE  Agrees(snap'[v], job'[v], db')
  <2>1. v # w
    BY <1>4, <1>7 DEF Inv, TypeOK
  <2>2. pc[v] = "open" /\ ~doomed[v] /\ snap'[v] = snap[v] /\ job'[v] = job[v]
    BY <1>4, <1>7, <2>1 DEF Inv, TypeOK
  <2>3. Sound(snap[v]) /\ job[v] \in Jobs /\ Agrees(snap[v], job[v], db)
    BY <2>2 DEF Inv, SnapshotsSound, SnapshotCurrent
  <2>4. ~Conflict(s, j, snap[v], job[v])
    BY <1>4, <1>7, <2>1, <2>2
  <2>5. Agrees(snap[v], job[v], Applied(db, s, j))
    <3> HIDE DEF s, j
    <3> QED BY <1>1, <2>3, <2>4, CommitKeepsAgreement
  <2> QED BY <1>2, <2>2, <2>5
<1>8. \A v \in Writers : pc'[v] \in {"ensure", "ready", "open"} => job'[v] \in Jobs
  BY <1>4 DEF Inv, TypeOK
<1> QED BY <1>3, <1>5, <1>6, <1>7, <1>8 DEF Inv, SnapshotCurrent

\* Every step keeps the invariant.
LEMMA NextInv == Inv /\ [Next]_vars => Inv'
<1> SUFFICES ASSUME Inv, [Next]_vars PROVE Inv'
  OBVIOUS
<1>1. CASE UNCHANGED vars
  BY <1>1 DEF vars, Inv, TypeOK, Sound, Whole, EdgesWhole, Bounded,
              SnapshotsSound, SnapshotCurrent
<1>2. ASSUME NEW w \in Writers, NEW j \in Jobs, Call(w, j)
      PROVE  Inv'
  BY <1>2, CallInv
<1>3. ASSUME NEW w \in Writers, EnsureRefs(w)
      PROVE  Inv'
  BY <1>3, EnsureRefsInv
<1>4. ASSUME NEW w \in Writers, Open(w)
      PROVE  Inv'
  BY <1>4, OpenInv
<1>5. ASSUME NEW w \in Writers, Commit(w)
      PROVE  Inv'
  BY <1>5, CommitInv
<1>6. ASSUME NEW w \in Writers, RefsMissing(w)
      PROVE  Inv'
  BY <1>6, LeaveInv DEF RefsMissing, End, Phases, Resting
<1>7. ASSUME NEW w \in Writers, CommitConflict(w)
      PROVE  Inv'
  BY <1>7, LeaveInv DEF CommitConflict, Phases
<1>8. ASSUME NEW w \in Writers, Abort(w)
      PROVE  Inv'
  BY <1>8, LeaveInv DEF Abort, End, Phases, Resting
<1> QED BY <1>1, <1>2, <1>3, <1>4, <1>5, <1>6, <1>7, <1>8 DEF Next

\* The inductive invariant: a sound database, sound snapshots that are still
\* current, and calls that are real calls.
THEOREM Invariance == Spec => []Inv
<1> QED BY InitInv, NextInv, PTL DEF Spec

\* Every variable stays in its set in every reachable state.
THEOREM TypeCorrect == Spec => []TypeOK
<1>1. Inv => TypeOK
  BY DEF Inv
<1> QED BY Invariance, <1>1, PTL

\* Whatever calls run concurrently, no commit leaves a provenance link whose
\* artifact or ref entity is gone (delete_nodes, delete_edge_triples,
\* delete_graph against attaches).
THEOREM LinksNeverDangle == Spec => []NoDanglingLinks
<1>1. Inv => NoDanglingLinks
  BY DEF Inv, Sound, Whole, NoDanglingLinks
<1> QED BY Invariance, <1>1, PTL

\* Nor an edge without one of its endpoints.
THEOREM EdgesNeverDangle == Spec => []NoDanglingEdges
<1>1. Inv => NoDanglingEdges
  BY DEF Inv, Sound, EdgesWhole, NoDanglingEdges
<1> QED BY Invariance, <1>1, PTL

\* Nothing an undoomed transaction uses changes under it: the fact the other
\* theorems rest on.
THEOREM SnapshotsStayCurrent == Spec => []SnapshotCurrent
<1>1. Inv => SnapshotCurrent
  BY DEF Inv
<1> QED BY Invariance, <1>1, PTL

-----------------------------------------------------------------------------
(* The refs of an artifact are lists.  Positions are given out from a      *)
(* snapshot; the conflict on the artifact keeps the lists from mixing.     *)

\* Where in a list the refs are that an artifact does not hold.
Missing(s, a, R, list) == {i \in DOMAIN list : list[i] \notin Held(s, a, R)}

\* Appended gives the refs not held so far positions that ascend along the list.
LEMMA PositionsAscend ==
  ASSUME NEW s \in Database, Bounded(s), NEW a \in Artifacts, NEW R, NEW list,
         IsFiniteSet(DOMAIN list), DOMAIN list \subseteq Int
  PROVE  \E at \in [Missing(s, a, R, list) -> Nat] :
           /\ Appended(s, a, R, list) = {<<a, list[i], at[i]>> : i \in Missing(s, a, R, list)}
           /\ \A h, i \in Missing(s, a, R, list) : h < i => at[h] < at[i]
<1> DEFINE new == Missing(s, a, R, list)
           next == NextPosition(s, a, R)
           Before(i) == {h \in new : h < i}
           at == [i \in new |-> next + Cardinality(Before(i))]
<1>1. next \in Nat /\ IsFiniteSet(new) /\ new \subseteq Int
  BY NextPositionIsLast, FS_Subset DEF Missing
<1>2. ASSUME NEW i \in new
      PROVE  IsFiniteSet(Before(i)) /\ Cardinality(Before(i)) \in Nat
  <2>1. Before(i) \in SUBSET new
    OBVIOUS
  <2>2. IsFiniteSet(Before(i))
    <3> HIDE DEF Before
    <3> QED BY <1>1, <2>1, FS_Subset
  <2> HIDE DEF Before
  <2> QED BY <2>2, FS_CardinalityType
<1>3. ASSUME NEW h \in new, NEW i \in new, h < i
      PROVE  Cardinality(Before(h)) < Cardinality(Before(i))
  <2>1. Before(h) \subseteq Before(i) /\ Before(h) # Before(i)
    <3>1. h \in Before(i) /\ h \notin Before(h)
      BY <1>1, <1>3
    <3>2. \A g \in Before(h) : g < i
      BY <1>1, <1>3
    <3> QED BY <3>1, <3>2
  <2>2. IsFiniteSet(Before(i)) /\ Cardinality(Before(i)) \in Nat
        /\ Cardinality(Before(h)) \in Nat
    BY <1>2
  <2> HIDE DEF Before
  <2> QED BY <2>1, <2>2, FS_Subset
<1>4. at \in [new -> Nat]
  BY <1>1, <1>2
<1>5. ASSUME NEW h \in new, NEW i \in new, h < i
      PROVE  at[h] < at[i]
  <2>1. Cardinality(Before(h)) \in Nat /\ Cardinality(Before(i)) \in Nat
    BY <1>2
  <2>2. at[h] = next + Cardinality(Before(h)) /\ at[i] = next + Cardinality(Before(i))
    OBVIOUS
  <2> HIDE DEF next, Before, at
  <2> QED BY <1>1, <1>3, <1>5, <2>1, <2>2
<1>6. Appended(s, a, R, list) = {<<a, list[i], at[i]>> : i \in new}
  BY DEF Appended, Missing
<1> HIDE DEF at
<1> QED BY <1>4, <1>5, <1>6

\* The links Appended yields are a list of their own, of the refs not held so far.
LEMMA AppendedIsList ==
  ASSUME NEW s \in Database, Bounded(s), NEW a \in Artifacts, NEW R, NEW list,
         IsFiniteSet(DOMAIN list), DOMAIN list \subseteq Int,
         \A h, i \in DOMAIN list : list[h] = list[i] => h = i
  PROVE  /\ \A l, m \in Appended(s, a, R, list) : l[2] = m[2] \/ l[3] = m[3] => l = m
         /\ \A l \in Appended(s, a, R, list) : l[2] \notin Held(s, a, R)
         /\ \A i \in DOMAIN list :
              list[i] \in Held(s, a, R) \/ \E l \in Appended(s, a, R, list) : l[2] = list[i]
<1> DEFINE new == Missing(s, a, R, list)
<1>1. PICK at \in [new -> Nat] :
           /\ Appended(s, a, R, list) = {<<a, list[i], at[i]>> : i \in new}
           /\ \A h, i \in new : h < i => at[h] < at[i]
  BY PositionsAscend
<1>2. /\ new \subseteq Int
      /\ \A i \in new : list[i] \notin Held(s, a, R)
      /\ \A h, i \in new : list[h] = list[i] => h = i
      /\ \A i \in DOMAIN list : list[i] \in Held(s, a, R) \/ i \in new
  BY DEF Missing
<1> HIDE DEF new
<1>3. ASSUME NEW h \in new, NEW i \in new, at[h] = at[i]
      PROVE  h = i
  <2>1. ~ (h < i) /\ ~ (i < h)
    BY <1>1, <1>3
  <2> QED BY <1>2, <2>1
<1>4. \A l \in Appended(s, a, R, list) : \E i \in new : l = <<a, list[i], at[i]>>
  BY <1>1
<1>5. \A l, m \in Appended(s, a, R, list) : l[2] = m[2] \/ l[3] = m[3] => l = m
  BY <1>2, <1>3, <1>4
<1>6. \A i \in new : \E l \in Appended(s, a, R, list) : l[2] = list[i]
  <2>1. \A i \in new : <<a, list[i], at[i]>> \in Appended(s, a, R, list)
    BY <1>1
  <2>2. \A i \in new : <<a, list[i], at[i]>>[2] = list[i]
    OBVIOUS
  <2> QED BY <2>1, <2>2
<1> QED BY <1>2, <1>4, <1>5, <1>6

\* The two lists of refs a call brings to an artifact: keys, and run refs of them.
LEMMA BroughtLists ==
  ASSUME NEW s \in Database, Bounded(s), NEW j \in Jobs, NEW a \in Artifacts
  PROVE  /\ IsFiniteSet(DOMAIN j.keys) /\ DOMAIN j.keys \subseteq Int
         /\ \A i \in DOMAIN j.keys : j.keys[i] \in Keys
         /\ \A h, i \in DOMAIN j.keys : j.keys[h] = j.keys[i] => h = i
         /\ IsFiniteSet(DOMAIN NewRunRefs(s, a, j)) /\ DOMAIN NewRunRefs(s, a, j) \subseteq Int
         /\ \A i \in DOMAIN NewRunRefs(s, a, j) :
              /\ i \in DOMAIN j.keys /\ j.keys[i] \notin Held(s, a, Keys)
              /\ NewRunRefs(s, a, j)[i] = <<j.run, j.keys[i]>>
              /\ NewRunRefs(s, a, j)[i] \in RunRefs
         /\ \A h, i \in DOMAIN NewRunRefs(s, a, j) :
              NewRunRefs(s, a, j)[h] = NewRunRefs(s, a, j)[i] => h = i
<1>1. j.keys \in Seq(Keys) /\ j.run \in Runs \cup {NoRun}
  BY JobFields
<1>2. DOMAIN j.keys = 1 .. Len(j.keys) /\ Len(j.keys) \in Nat
  BY <1>1
<1>3. IsFiniteSet(DOMAIN j.keys)
  BY <1>2, FS_Interval
<1>4. \A i \in DOMAIN j.keys : j.keys[i] \in Keys
  BY <1>1, <1>2
<1>5. \A h, i \in DOMAIN j.keys : j.keys[h] = j.keys[i] => h = i
  BY JobsAreCalls
<1>6. DOMAIN NewRunRefs(s, a, j) \in SUBSET DOMAIN j.keys
  BY DEF NewRunRefs
<1>7. IsFiniteSet(DOMAIN NewRunRefs(s, a, j))
  BY <1>3, <1>6, FS_Subset
<1>8. ASSUME NEW i \in DOMAIN NewRunRefs(s, a, j)
      PROVE  /\ i \in DOMAIN j.keys /\ j.keys[i] \notin Held(s, a, Keys)
             /\ NewRunRefs(s, a, j)[i] = <<j.run, j.keys[i]>>
             /\ NewRunRefs(s, a, j)[i] \in RunRefs
  BY <1>1, <1>4 DEF NewRunRefs, RunRefs
<1>9. \A h, i \in DOMAIN NewRunRefs(s, a, j) :
        NewRunRefs(s, a, j)[h] = NewRunRefs(s, a, j)[i] => h = i
  BY <1>5, <1>8
<1>10. DOMAIN j.keys \subseteq Int
  BY <1>2
<1> QED BY <1>3, <1>4, <1>5, <1>6, <1>7, <1>8, <1>9, <1>10

\* Each link a call brings belongs to one of the two lists.
LEMMA BroughtLinks ==
  ASSUME NEW s \in Database, Bounded(s), NEW j \in Jobs, NEW a \in Artifacts,
         NEW l \in InsertsFor(s, a, j)
  PROVE  /\ l[1] = a
         /\ \/ l[2] \in Keys /\ l \in Appended(s, a, Keys, j.keys)
            \/ l[2] \in RunRefs /\ l \in Appended(s, a, RunRefs, NewRunRefs(s, a, j))
<1> DEFINE runRefs == NewRunRefs(s, a, j)
<1>1. /\ IsFiniteSet(DOMAIN j.keys) /\ \A i \in DOMAIN j.keys : j.keys[i] \in Keys
      /\ IsFiniteSet(DOMAIN runRefs) /\ \A i \in DOMAIN runRefs : runRefs[i] \in RunRefs
  BY BroughtLists
<1>2. /\ \A i \in DOMAIN j.keys : j.keys[i] \in Refs
      /\ \A i \in DOMAIN runRefs : runRefs[i] \in Refs
  BY <1>1 DEF Refs
<1> HIDE DEF runRefs
<1>3. l \in Appended(s, a, Keys, j.keys) => l[2] \in Keys
  BY <1>1, <1>2, AppendedLinks
<1>4. l \in Appended(s, a, RunRefs, runRefs) => l[2] \in RunRefs
  BY <1>1, <1>2, AppendedLinks
<1>5. l[1] = a
  BY InsertsForLinks
<1> QED BY <1>3, <1>4, <1>5 DEF InsertsFor, runRefs

\* A new link comes after every link of its list in the snapshot and brings a ref
\* that is not in it.
LEMMA NewLinksFollow ==
  ASSUME NEW s, Sound(s), NEW j \in Jobs, NEW l \in Inserts(s, j),
         NEW m \in s.links, SameList(l, m)
  PROVE  m[3] < l[3] /\ m[2] # l[2]
<1> DEFINE a == l[1]
<1>1. /\ s \in Database /\ Bounded(s) /\ a \in Artifacts
      /\ l \in Link /\ l \in InsertsFor(s, a, j)
  BY InsertedLinks DEF Sound, Link
<1>2. m[1] = a /\ m[2] \in Refs /\ m[3] \in Nat
  BY <1>1 DEF SameList, Database, Link
<1>3. ASSUME NEW R, NEW list, m[2] \in R, IsFiniteSet(DOMAIN list), DOMAIN list \subseteq Int,
             \A i \in DOMAIN list : list[i] \in Refs,
             \A h, i \in DOMAIN list : list[h] = list[i] => h = i,
             l \in Appended(s, a, R, list)
      PROVE  m[3] < l[3] /\ m[2] # l[2]
  <2>1. m \in LinksOf(s, a, R) /\ m[2] \in Held(s, a, R)
    BY <1>2, <1>3 DEF LinksOf, Held
  <2>2. m[3] < NextPosition(s, a, R) /\ NextPosition(s, a, R) \in Nat
    BY <1>1, <2>1, NextPositionIsLast
  <2>3. NextPosition(s, a, R) <= l[3]
    BY <1>1, <1>3, AppendedLinks
  <2>4. l[2] \notin Held(s, a, R)
    BY <1>1, <1>3, AppendedIsList
  <2>5. l[3] \in Nat
    BY <1>1 DEF Link
  <2> QED BY <1>2, <2>1, <2>2, <2>3, <2>4, <2>5
<1> HIDE DEF a
<1>4. CASE l[2] \in Keys /\ l \in Appended(s, a, Keys, j.keys)
  <2>1. m[2] \in Keys
    BY <1>4 DEF SameList
  <2>2. \A i \in DOMAIN j.keys : j.keys[i] \in Refs
    BY <1>1, BroughtLists DEF Refs
  <2> QED BY <1>1, <1>3, <1>4, <2>1, <2>2, BroughtLists
<1>5. CASE l[2] \in RunRefs /\ l \in Appended(s, a, RunRefs, NewRunRefs(s, a, j))
  <2>1. m[2] \in RunRefs
    BY <1>2, <1>5, KindsDisjoint DEF SameList, Refs
  <2>2. \A i \in DOMAIN NewRunRefs(s, a, j) : NewRunRefs(s, a, j)[i] \in Refs
    BY <1>1, BroughtLists DEF Refs
  <2> QED BY <1>1, <1>3, <1>5, <2>1, <2>2, BroughtLists
<1> QED BY <1>1, <1>4, <1>5, BroughtLinks

\* What LinksAreLists says of database d.
Listed(d) ==
  \A l, m \in d.links : SameList(l, m) /\ (l[2] = m[2] \/ l[3] = m[3]) => l = m

\* The links one commit brings are lists of their own.
LEMMA NewLinksAreLists ==
  ASSUME NEW s, Sound(s), NEW j \in Jobs, NEW l \in Inserts(s, j), NEW m \in Inserts(s, j),
         SameList(l, m), l[2] = m[2] \/ l[3] = m[3]
  PROVE  l = m
<1> DEFINE a == l[1]
<1>1. /\ s \in Database /\ Bounded(s) /\ a \in Artifacts /\ m[1] = a
      /\ l \in InsertsFor(s, a, j) /\ m \in InsertsFor(s, a, j)
  BY InsertedLinks DEF Sound, Link, SameList
<1> HIDE DEF a
<1>2. CASE l[2] \in Keys
  <2>1. l \in Appended(s, a, Keys, j.keys) /\ m \in Appended(s, a, Keys, j.keys)
    BY <1>1, <1>2, BroughtLinks, KindsDisjoint DEF SameList
  <2> QED BY <1>1, <2>1, AppendedIsList, BroughtLists
<1>3. CASE l[2] \notin Keys
  <2> DEFINE runRefs == NewRunRefs(s, a, j)
  <2>1. l \in Appended(s, a, RunRefs, runRefs) /\ m \in Appended(s, a, RunRefs, runRefs)
    BY <1>1, <1>3, BroughtLinks DEF SameList
  <2>2. /\ IsFiniteSet(DOMAIN runRefs) /\ DOMAIN runRefs \subseteq Int
        /\ \A h, i \in DOMAIN runRefs : runRefs[h] = runRefs[i] => h = i
    BY <1>1, BroughtLists
  <2> HIDE DEF runRefs
  <2> QED BY <1>1, <2>1, <2>2, AppendedIsList
<1> QED BY <1>2, <1>3

\* The artifact of a new link is written, so its links are the snapshot's.
LEMMA WrittenAsSeen ==
  ASSUME NEW d, NEW s, NEW j \in Jobs, Agrees(s, j, d), NEW a \in Writes(s, j),
         NEW l, l[1] = a
  PROVE  l \in s.links <=> l \in d.links
BY DEF Agrees

\* A commit whose snapshot is current puts its links behind the lists they join.
LEMMA CommitAppends ==
  ASSUME NEW d, NEW s, Sound(s), NEW j \in Jobs, Agrees(s, j, d),
         NEW l \in Inserts(s, j), NEW m \in d.links, SameList(l, m)
  PROVE  m[3] < l[3] /\ m[2] # l[2]
<1>1. l[1] \in Writes(s, j) /\ m[1] = l[1]
  BY InsertedLinks DEF Sound, SameList
<1>2. m \in s.links
  BY <1>1, WrittenAsSeen
<1> QED BY <1>2, NewLinksFollow

\* Lists stay lists.
LEMMA AppliedIsListed ==
  ASSUME NEW d, Sound(d), Listed(d), NEW s, Sound(s), NEW j \in Jobs, Agrees(s, j, d)
  PROVE  Listed(Applied(d, s, j))
<1>1. Applied(d, s, j).links \subseteq d.links \cup Inserts(s, j)
  BY DEF Applied
<1>2. \A l \in d.links \cup Inserts(s, j) : l[3] \in Nat
  BY InsertedLinks DEF Sound, Database, Link
<1>3. ASSUME NEW l \in d.links \cup Inserts(s, j), NEW m \in d.links \cup Inserts(s, j),
             SameList(l, m), l[2] = m[2] \/ l[3] = m[3]
      PROVE  l = m
  <2>1. CASE l \in d.links /\ m \in d.links
    BY <1>3, <2>1 DEF Listed
  <2>2. CASE l \in Inserts(s, j) /\ m \in Inserts(s, j)
    BY <1>3, <2>2, NewLinksAreLists
  <2>3. CASE l \in Inserts(s, j) /\ m \in d.links
    <3>1. m[3] < l[3] /\ m[2] # l[2]
      BY <1>3, <2>3, CommitAppends
    <3> QED BY <1>2, <1>3, <3>1
  <2>4. CASE l \in d.links /\ m \in Inserts(s, j)
    <3>1. SameList(m, l)
      BY <1>3 DEF SameList
    <3>2. l[3] < m[3] /\ l[2] # m[2]
      BY <2>4, <3>1, CommitAppends
    <3> QED BY <1>2, <1>3, <3>2
  <2> QED BY <1>3, <2>1, <2>2, <2>3, <2>4
<1> QED BY <1>1, <1>3 DEF Listed

-----------------------------------------------------------------------------
(* Run refs go with their keys.                                            *)

\* What RunRefsFollowKeys says of database d.
Followed(d) ==
  \A l \in d.links : l[2] \in RunRefs =>
    /\ l[2][2] \in Held(d, l[1], Keys)
    /\ \A m \in d.links :
         /\ m[1] = l[1]
         /\ m[2] \in RunRefs
         /\ m[2][2] = l[2][2]
         => m = l

\* A call whose ref entities are all there inserts every link it brings.
LEMMA AllInserted ==
  ASSUME NEW s, NEW j \in Jobs, WantedRefs(s, j) \subseteq s.refs,
         NEW a \in j.arts, a \in Present(s, j), NEW l \in InsertsFor(s, a, j)
  PROVE  l \in Inserts(s, j)
BY DEF WantedRefs, Inserts

\* After the commit every written artifact holds the keys of an attaching call.
LEMMA CommitGivesKeys ==
  ASSUME NEW d, NEW s, Sound(s), NEW j \in Jobs, Agrees(s, j, d),
         WantedRefs(s, j) \subseteq s.refs, j.op \in {"add", "attach"},
         NEW a \in Writes(s, j), NEW k \in KeysIn(j)
  PROVE  a \in Applied(d, s, j).art /\ k \in Held(Applied(d, s, j), a, Keys)
<1> DEFINE D == Applied(d, s, j)
<1>1. a \in j.arts /\ a \in Present(s, j) /\ a \in Artifacts
  BY JobFields DEF Writes, Upserted, Touched, Present
<1>2. Deleted(s, j) = {} /\ SweptRefs(s, j) = {} /\ Unlinked(s, j) = {}
  BY InsertingJobsDeleteNothing DEF Unlinked, UnlinksFor
<1>3. /\ D.art = d.art \cup Upserted(s, j)
      /\ D.links = d.links \cup Inserts(s, j)
  BY <1>2 DEF Applied
<1>4. a \in d.art \cup Upserted(s, j)
  BY <1>1 DEF Agrees, Uses, Present
<1>5. s \in Database /\ Bounded(s)
  BY DEF Sound
<1>6. PICK i \in DOMAIN j.keys : k = j.keys[i]
  BY DEF KeysIn
<1>7. k \in Keys
  BY <1>1, <1>5, <1>6, BroughtLists
<1>8. CASE k \in Held(s, a, Keys)
  <2>1. PICK m \in s.links : m[1] = a /\ m[2] = k
    BY <1>8 DEF Held, LinksOf
  <2>2. m \in d.links
    BY <2>1, WrittenAsSeen
  <2> QED BY <1>3, <1>4, <1>7, <2>1, <2>2 DEF Held, LinksOf
<1>9. CASE k \notin Held(s, a, Keys)
  <2>1. PICK l \in Appended(s, a, Keys, j.keys) : l[2] = k
    BY <1>1, <1>5, <1>6, <1>9, AppendedIsList, BroughtLists
  <2>2. l \in InsertsFor(s, a, j) /\ l[1] = a
    <3>1. l \in InsertsFor(s, a, j)
      BY DEF InsertsFor
    <3> QED BY <1>1, <1>5, <3>1, BroughtLinks
  <2>3. l \in D.links
    BY <1>1, <1>3, <2>2, AllInserted
  <2> QED BY <1>3, <1>4, <1>7, <2>1, <2>2, <2>3 DEF Held, LinksOf
<1> QED BY <1>8, <1>9

\* A run ref that a call brings is of a key of the call that the artifact had not.
LEMMA NewRunLinks ==
  ASSUME NEW s, Sound(s), NEW j \in Jobs, NEW l \in Inserts(s, j), l[2] \in RunRefs
  PROVE  l[2][2] \in KeysIn(j) /\ l[2][2] \notin Held(s, l[1], Keys) /\ l[2][1] = j.run
<1> DEFINE a == l[1]
           runRefs == NewRunRefs(s, a, j)
<1>1. s \in Database /\ Bounded(s) /\ a \in Artifacts /\ l \in InsertsFor(s, a, j)
  BY InsertedLinks DEF Sound, Link
<1>2. l \in Appended(s, a, RunRefs, runRefs)
  BY <1>1, BroughtLinks, KindsDisjoint
<1>3. /\ IsFiniteSet(DOMAIN runRefs)
      /\ \A i \in DOMAIN runRefs :
           /\ i \in DOMAIN j.keys /\ j.keys[i] \notin Held(s, a, Keys)
           /\ runRefs[i] = <<j.run, j.keys[i]>>
           /\ runRefs[i] \in RunRefs
  BY <1>1, BroughtLists
<1>4. \A i \in DOMAIN runRefs : runRefs[i] \in Refs
  BY <1>3 DEF Refs
<1> HIDE DEF runRefs, a
<1>5. PICK i \in DOMAIN runRefs : l[2] = runRefs[i]
  BY <1>1, <1>2, <1>3, <1>4, AppendedLinks
<1>6. l[2] = <<j.run, j.keys[i]>>
  BY <1>3, <1>5
<1> QED BY <1>3, <1>6 DEF KeysIn, a

\* A removal that takes a key takes the run refs of that key with it.
LEMMA KeysStayWithRuns ==
  ASSUME NEW d, Sound(d), NEW s, Sound(s), NEW j \in Jobs, Agrees(s, j, d),
         NEW l \in d.links, l \notin Unlinked(s, j), l[2] \in RunRefs,
         NEW m \in d.links, m[1] = l[1], m[2] \in Keys, m[2] = l[2][2]
  PROVE  m \notin Unlinked(s, j)
<1> SUFFICES ASSUME m \in Unlinked(s, j) PROVE FALSE
  OBVIOUS
<1>1. m[1] \in Deleted(s, j) \/ m[1] \in Writes(s, j)
  BY UnlinkedLinks DEF Sound
<1>2. l \in s.links
  BY <1>1 DEF Agrees, Deletes
<1>3. l[1] \notin Deleted(s, j)
  BY <1>2 DEF Unlinked
<1>4. PICK a \in j.arts : m \in UnlinksFor(s, a, j)
  BY <1>3 DEF Unlinked
<1>5. j.op = "remove" /\ a = l[1] /\ m[2] \in KeysIn(j)
  BY <1>4, KindsDisjoint DEF UnlinksFor
<1>6. l[2] \in s.refs
  BY <1>2 DEF Sound, Whole
<1>7. l \in UnlinksFor(s, a, j)
  BY <1>2, <1>5, <1>6 DEF UnlinksFor
<1> QED BY <1>7 DEF Unlinked

LEMMA AppliedIsFollowed ==
  ASSUME NEW d, Sound(d), Followed(d), NEW s, Sound(s), NEW j \in Jobs, Agrees(s, j, d),
         WantedRefs(s, j) \subseteq s.refs
  PROVE  Followed(Applied(d, s, j))
<1> DEFINE D == Applied(d, s, j)
<1>1. D.links = (d.links \ Unlinked(s, j)) \cup Inserts(s, j)
  BY DEF Applied
<1> HIDE DEF D
<1>2. ASSUME NEW l \in D.links, l[2] \in RunRefs
      PROVE  l[2][2] \in Held(D, l[1], Keys)
  <2>1. CASE l \in d.links \ Unlinked(s, j)
    <3>1. PICK m \in d.links : m[1] = l[1] /\ m[2] \in Keys /\ m[2] = l[2][2]
      BY <1>2, <2>1 DEF Followed, Held, LinksOf
    <3>2. m \in D.links
      BY <1>1, <1>2, <2>1, <3>1, KeysStayWithRuns
    <3> QED BY <3>1, <3>2 DEF Held, LinksOf
  <2>2. CASE l \in Inserts(s, j)
    <3>1. l[2][2] \in KeysIn(j)
      BY <1>2, <2>2, NewRunLinks
    <3>2. l[1] \in Writes(s, j) /\ j.op \in {"add", "attach"}
      BY <2>2, InsertedLinks DEF Sound
    <3> QED BY <3>1, <3>2, CommitGivesKeys DEF D
  <2> QED BY <1>1, <2>1, <2>2
<1>3. ASSUME NEW l \in Inserts(s, j), l[2] \in RunRefs, NEW m \in d.links, m[1] = l[1],
             m[2] \in RunRefs, m[2][2] = l[2][2]
      PROVE  FALSE
  <2>1. PICK n \in d.links : n[1] = l[1] /\ n[2] \in Keys /\ n[2] = l[2][2]
    BY <1>3 DEF Followed, Held, LinksOf
  <2>2. l[1] \in Writes(s, j)
    BY InsertedLinks DEF Sound
  <2>3. n \in s.links
    BY <2>1, <2>2, WrittenAsSeen
  <2>4. l[2][2] \in Held(s, l[1], Keys)
    BY <2>1, <2>3 DEF Held, LinksOf
  <2> QED BY <1>3, <2>4, NewRunLinks
<1>4. ASSUME NEW l \in Inserts(s, j), l[2] \in RunRefs, NEW m \in Inserts(s, j), m[1] = l[1],
             m[2] \in RunRefs, m[2][2] = l[2][2]
      PROVE  m = l
  <2>1. l[2][1] = j.run /\ m[2][1] = j.run
    BY <1>4, NewRunLinks
  <2>2. l[2] = m[2]
    BY <1>4, <2>1 DEF RunRefs
  <2>3. SameList(m, l)
    BY <1>4, <2>2 DEF SameList
  <2> QED BY <2>2, <2>3, NewLinksAreLists
<1>5. ASSUME NEW l \in D.links, l[2] \in RunRefs, NEW m \in D.links, m[1] = l[1],
             m[2] \in RunRefs, m[2][2] = l[2][2]
      PROVE  m = l
  <2>1. CASE l \in Inserts(s, j) /\ m \in Inserts(s, j)
    BY <1>4, <1>5, <2>1
  <2>2. CASE l \in d.links /\ m \in d.links
    BY <1>5, <2>2 DEF Followed
  <2>3. CASE l \in Inserts(s, j) /\ m \in d.links
    BY <1>3, <1>5, <2>3
  <2>4. CASE l \in d.links /\ m \in Inserts(s, j)
    BY <1>3, <1>5, <2>4
  <2> QED BY <1>1, <2>1, <2>2, <2>3, <2>4
<1> QED BY <1>2, <1>5 DEF Followed, D

-----------------------------------------------------------------------------
(* The lists in every reachable state.                                     *)

\* A step that is no commit leaves the committed artifacts and links.
LEMMA OnlyCommitsLink ==
  ASSUME Inv, [Next]_vars, ~ \E w \in Writers : Commit(w)
  PROVE  db'.links = db.links /\ db'.art = db.art
<1>1. db \in Database
  BY DEF Inv, TypeOK
<1> QED
  BY <1>1 DEF Next, Call, EnsureRefs, Open, RefsMissing, CommitConflict, Abort, vars, Database

\* A commit is decided on a sound, current snapshot that has its ref entities.
LEMMA CommitDecides ==
  ASSUME Inv, NEW w \in Writers, Commit(w)
  PROVE  /\ Sound(db) /\ Sound(snap[w]) /\ job[w] \in Jobs /\ Agrees(snap[w], job[w], db)
         /\ WantedRefs(snap[w], job[w]) \subseteq snap[w].refs
         /\ db' = Applied(db, snap[w], job[w])
BY DEF Inv, SnapshotsSound, SnapshotCurrent, Commit, RefsFound

ListsInv == Listed(db) /\ Followed(db)

LEMMA InitLists == Init => ListsInv
BY DEF Init, EmptyDb, ListsInv, Listed, Followed

LEMMA NextLists == Inv /\ ListsInv /\ [Next]_vars => ListsInv'
<1> SUFFICES ASSUME Inv, ListsInv, [Next]_vars PROVE ListsInv'
  OBVIOUS
<1>1. ASSUME NEW w \in Writers, Commit(w) PROVE ListsInv'
  <2> DEFINE s == snap[w]
             j == job[w]
  <2>1. /\ Sound(db) /\ Sound(s) /\ j \in Jobs /\ Agrees(s, j, db)
        /\ WantedRefs(s, j) \subseteq s.refs
        /\ db' = Applied(db, s, j)
    BY <1>1, CommitDecides
  <2>2. Listed(db) /\ Followed(db)
    BY DEF ListsInv
  <2>3. Listed(Applied(db, s, j))
    <3> HIDE DEF s, j
    <3> QED BY <2>1, <2>2, AppliedIsListed
  <2>4. Followed(Applied(db, s, j))
    <3> HIDE DEF s, j
    <3> QED BY <2>1, <2>2, AppliedIsFollowed
  <2> QED BY <2>1, <2>3, <2>4 DEF ListsInv
<1>2. CASE ~ \E w \in Writers : Commit(w)
  <2>1. db'.links = db.links
    BY <1>2, OnlyCommitsLink
  <2> QED BY <2>1 DEF ListsInv, Listed, Followed, Held, LinksOf
<1> QED BY <1>1, <1>2

LEMMA ListsInvariance == Spec => []ListsInv
BY InitLists, NextLists, Invariance, PTL DEF Spec

\* However attaches race, an artifact's refs are lists: no ref twice, no two at
\* one position (next_position in _provenance_change_sync).
THEOREM RefsStayLists == Spec => []LinksAreLists
<1>1. ListsInv => LinksAreLists
  BY DEF ListsInv, Listed, LinksAreLists
<1> QED BY ListsInvariance, <1>1, PTL

\* Each run ref on an artifact is of a key the artifact holds, which one run brought.
THEOREM RunRefsStayWithKeys == Spec => []RunRefsFollowKeys
<1>1. ListsInv => RunRefsFollowKeys
  BY DEF ListsInv, Followed, RunRefsFollowKeys
<1> QED BY ListsInvariance, <1>1, PTL

\* A new link comes after the links of its list that stay.
THEOREM AttachOrderStays == Spec => AttachOrderKept
<1> DEFINE Behind == \A l \in db'.links \ db.links, m \in db'.links \cap db.links :
              SameList(l, m) => m[3] < l[3]
<1>1. Inv /\ [Next]_vars => [Behind]_vars
  <2> SUFFICES ASSUME Inv, [Next]_vars PROVE Behind
    OBVIOUS
  <2>1. ASSUME NEW w \in Writers, Commit(w) PROVE Behind
    <3>1. /\ Sound(snap[w]) /\ job[w] \in Jobs /\ Agrees(snap[w], job[w], db)
          /\ db' = Applied(db, snap[w], job[w])
      BY <2>1, CommitDecides
    <3>2. db'.links \ db.links \subseteq Inserts(snap[w], job[w])
      BY <3>1 DEF Applied
    <3>3. \A l \in Inserts(snap[w], job[w]), m \in db.links : SameList(l, m) => m[3] < l[3]
      BY <3>1, CommitAppends
    <3> QED BY <3>2, <3>3
  <2>2. CASE ~ \E w \in Writers : Commit(w)
    BY <2>2, OnlyCommitsLink
  <2> QED BY <2>1, <2>2
<1>2. Spec => [][Behind]_vars
  BY <1>1, Invariance, PTL DEF Spec
<1> QED BY <1>2 DEF AttachOrderKept

\* Only a writer's own commit takes it from its transaction to the end of its call.
LEMMA OnlyCommitEnds ==
  ASSUME Inv, [Next]_vars, NEW w \in Writers, pc[w] = "open", pc'[w] = "done"
  PROVE  Commit(w)
<1>1. pc \in [Writers -> Phases]
  BY DEF Inv, TypeOK
<1>2. ASSUME NEW v \in Writers, Commit(v) PROVE Commit(w)
  BY <1>1, <1>2 DEF Commit, End
<1>3. ASSUME NEW v \in Writers, NEW j \in Jobs, Call(v, j) PROVE FALSE
  BY <1>1, <1>3 DEF Call, Resting
<1>4. ASSUME NEW v \in Writers,
             EnsureRefs(v) \/ Open(v) \/ RefsMissing(v) \/ CommitConflict(v) \/ Abort(v)
      PROVE  FALSE
  BY <1>1, <1>4 DEF EnsureRefs, Open, RefsMissing, CommitConflict, Abort, End
<1>5. CASE UNCHANGED vars
  BY <1>5 DEF vars
<1> QED BY <1>2, <1>3, <1>4, <1>5 DEF Next

\* No artifact that a call writes becomes visible without the call's keys.
THEOREM WrittenAreOwned == Spec => OwnedOnCommit
<1> DEFINE Owned == \A w \in Writers :
       pc[w] = "open" /\ pc'[w] = "done" /\ job[w].op \in {"add", "attach"} =>
         \A a \in Writes(snap[w], job[w]) :
           a \in db'.art /\ KeysIn(job[w]) \subseteq Held(db', a, Keys)
<1>1. Inv /\ [Next]_vars => [Owned]_vars
  <2> SUFFICES ASSUME Inv, [Next]_vars, NEW w \in Writers, pc[w] = "open", pc'[w] = "done",
                      job[w].op \in {"add", "attach"},
                      NEW a \in Writes(snap[w], job[w])
               PROVE  a \in db'.art /\ KeysIn(job[w]) \subseteq Held(db', a, Keys)
    OBVIOUS
  <2> DEFINE s == snap[w]
             j == job[w]
  <2>1. /\ Sound(s) /\ j \in Jobs /\ Agrees(s, j, db)
        /\ WantedRefs(s, j) \subseteq s.refs
        /\ db' = Applied(db, s, j)
    BY OnlyCommitEnds, CommitDecides
  <2>2. a \in Writes(s, j) /\ j.op \in {"add", "attach"}
    OBVIOUS
  <2>3. ASSUME NEW k \in KeysIn(j)
        PROVE  k \in Held(Applied(db, s, j), a, Keys)
    <3> HIDE DEF s, j
    <3> QED BY <2>1, <2>2, CommitGivesKeys
  <2>4. a \in Applied(db, s, j).art
    <3>1. a \in j.arts /\ a \in Present(s, j) /\ Deleted(s, j) = {}
      BY <2>1, <2>2, InsertingJobsDeleteNothing DEF Writes, Upserted, Touched, Present
    <3>2. a \in db.art \cup Upserted(s, j)
      BY <2>1, <2>2, <3>1 DEF Agrees, Uses, Present
    <3> HIDE DEF s, j
    <3> QED BY <3>1, <3>2 DEF Applied
  <2> QED BY <2>1, <2>3, <2>4
<1>2. Spec => [][Owned]_vars
  BY <1>1, Invariance, PTL DEF Spec
<1> QED BY <1>2 DEF OwnedOnCommit

-----------------------------------------------------------------------------
(* The store implements ProvenanceSpec: what readers decode changes by the *)
(* abstract transitions only.                                              *)

\* The order of the elements of list at the indices at.
OrderAt(list, at) ==
  {<<list[h[1]], list[h[2]]>> : h \in {g \in at \X at : g[1] <= g[2]}}

\* Which pairs are in the order of a set of links.
LEMMA InOrder ==
  ASSUME NEW L \in SUBSET Link, NEW p
  PROVE  p \in Order(L) <=> \E l, m \in L : l[3] <= m[3] /\ p = <<l[2], m[2]>>
<1>1. ASSUME p \in Order(L)
      PROVE  \E l, m \in L : l[3] <= m[3] /\ p = <<l[2], m[2]>>
  <2>1. PICK q \in L \X L : q[1][3] <= q[2][3] /\ p = <<q[1][2], q[2][2]>>
    BY <1>1 DEF Order
  <2> QED BY <2>1
<1>2. ASSUME NEW l \in L, NEW m \in L, l[3] <= m[3], p = <<l[2], m[2]>>
      PROVE  p \in Order(L)
  <2>1. <<l, m>> \in {q \in L \X L : q[1][3] <= q[2][3]}
    BY <1>2
  <2> QED BY <1>2, <2>1 DEF Order
<1> QED BY <1>1, <1>2

\* The elements of a decoded list are the refs the links hold.
LEMMA OrderElements ==
  ASSUME NEW L \in SUBSET Link
  PROVE  Promise!Elements(Order(L)) = {l[2] : l \in L}
<1>1. ASSUME NEW r \in Promise!Elements(Order(L))
      PROVE  r \in {l[2] : l \in L}
  <2>1. PICK p \in Order(L) : r = p[1]
    BY DEF Promise!Elements
  <2>2. PICK l \in L, m \in L : p = <<l[2], m[2]>>
    BY <2>1, InOrder
  <2> QED BY <2>1, <2>2
<1>2. ASSUME NEW l \in L
      PROVE  l[2] \in Promise!Elements(Order(L))
  <2>1. l[3] <= l[3]
    BY DEF Link
  <2>2. <<l[2], l[2]>> \in Order(L)
    BY <2>1, InOrder
  <2>3. l[2] = <<l[2], l[2]>>[1]
    OBVIOUS
  <2> QED BY <2>2, <2>3 DEF Promise!Elements
<1> QED BY <1>1, <1>2

\* Links with higher positions come behind.
LEMMA OrderBehind ==
  ASSUME NEW L \in SUBSET Link, NEW M \in SUBSET Link, \A l \in L, m \in M : l[3] < m[3]
  PROVE  Order(L \cup M) = Promise!Behind(Order(L), Order(M))
<1> DEFINE E == Promise!Elements(Order(L)) \X Promise!Elements(Order(M))
<1>1. \A p : p \in E <=> \E l \in L, m \in M : p = <<l[2], m[2]>>
  BY OrderElements
<1>2. \A l \in L \cup M : l[3] \in Nat
  BY DEF Link
<1> HIDE DEF E
<1>3. ASSUME NEW p
      PROVE  p \in Order(L \cup M) <=> p \in Order(L) \/ p \in E \/ p \in Order(M)
  <2>1. p \in Order(L \cup M) <=> \E l, m \in L \cup M : l[3] <= m[3] /\ p = <<l[2], m[2]>>
    BY InOrder
  <2>2. p \in Order(L) <=> \E l, m \in L : l[3] <= m[3] /\ p = <<l[2], m[2]>>
    BY InOrder
  <2>3. p \in Order(M) <=> \E l, m \in M : l[3] <= m[3] /\ p = <<l[2], m[2]>>
    BY InOrder
  <2>4. \A l \in L, m \in M : l[3] <= m[3] /\ ~ (m[3] <= l[3])
    BY <1>2
  <2> QED BY <1>1, <2>1, <2>2, <2>3, <2>4
<1>4. Promise!Behind(Order(L), Order(M)) = Order(L) \cup E \cup Order(M)
  BY DEF Promise!Behind, E
<1> QED BY <1>3, <1>4

\* What Appended adds is ordered as the list is.
LEMMA AppendedOrder ==
  ASSUME NEW s \in Database, Bounded(s), NEW a \in Artifacts, NEW R, NEW list,
         IsFiniteSet(DOMAIN list), DOMAIN list \subseteq Int,
         \A i \in DOMAIN list : list[i] \in Refs
  PROVE  Order(Appended(s, a, R, list)) = OrderAt(list, Missing(s, a, R, list))
<1> DEFINE new == Missing(s, a, R, list)
           A == Appended(s, a, R, list)
<1>1. PICK at \in [new -> Nat] :
           /\ A = {<<a, list[i], at[i]>> : i \in new}
           /\ \A h, i \in new : h < i => at[h] < at[i]
  BY PositionsAscend
<1>2. A \in SUBSET Link
  BY AppendedLinks
<1>3. new \subseteq Int
  BY DEF Missing
<1> HIDE DEF new, A
<1>4. \A h, i \in new : at[h] <= at[i] <=> h <= i
  <2> SUFFICES ASSUME NEW h \in new, NEW i \in new PROVE at[h] <= at[i] <=> h <= i
    OBVIOUS
  <2>1. at[h] \in Nat /\ at[i] \in Nat /\ h \in Int /\ i \in Int
    BY <1>1, <1>3
  <2>2. (h < i => at[h] < at[i]) /\ (i < h => at[i] < at[h])
    BY <1>1
  <2> QED BY <2>1, <2>2
<1>5. ASSUME NEW p \in Order(A)
      PROVE  p \in OrderAt(list, new)
  <2>1. PICK l \in A, m \in A : l[3] <= m[3] /\ p = <<l[2], m[2]>>
    BY <1>2, InOrder
  <2>2. PICK h \in new, i \in new : l = <<a, list[h], at[h]>> /\ m = <<a, list[i], at[i]>>
    BY <1>1
  <2>3. <<h, i>> \in {g \in new \X new : g[1] <= g[2]} /\ p = <<list[h], list[i]>>
    BY <1>4, <2>1, <2>2
  <2> QED BY <2>3 DEF OrderAt
<1>6. ASSUME NEW p \in OrderAt(list, new)
      PROVE  p \in Order(A)
  <2>1. PICK h \in new, i \in new : h <= i /\ p = <<list[h], list[i]>>
    BY DEF OrderAt
  <2>2. <<a, list[h], at[h]>> \in A /\ <<a, list[i], at[i]>> \in A /\ at[h] <= at[i]
    BY <1>1, <1>4, <2>1
  <2> QED BY <1>2, <2>1, <2>2, InOrder
<1> QED BY <1>5, <1>6 DEF A, new

\* The links of L to other refs than those of G.
Without(L, G) == {l \in L : l[2] \notin G}

\* Removing links takes their refs out of the order.
LEMMA OrderWithout ==
  ASSUME NEW L \in SUBSET Link, NEW G
  PROVE  \A p : p \in Order(Without(L, G)) <=> p \in Order(L) /\ p[1] \notin G /\ p[2] \notin G
<1> DEFINE M == Without(L, G)
<1>1. ASSUME NEW p
      PROVE  p \in Order(M) <=> p \in Order(L) /\ p[1] \notin G /\ p[2] \notin G
  <2>1. p \in Order(M) <=> \E l, m \in M : l[3] <= m[3] /\ p = <<l[2], m[2]>>
    BY InOrder DEF Without
  <2>2. p \in Order(L) <=> \E l, m \in L : l[3] <= m[3] /\ p = <<l[2], m[2]>>
    BY InOrder
  <2> QED BY <2>1, <2>2 DEF Without
<1> QED BY <1>1

\* What readers see of one artifact of database d.
View(d, a) == [keys |-> Order(LinksOf(d, a, Keys)), runs |-> Order(LinksOf(d, a, RunRefs))]

\* An attaching commit adds to a written artifact exactly what Appended says.
LEMMA AttachedLinks ==
  ASSUME NEW d, NEW s, Sound(s), NEW j \in Jobs, j.op \in {"add", "attach"},
         WantedRefs(s, j) \subseteq s.refs, NEW a \in Writes(s, j)
  PROVE  /\ {l \in Inserts(s, j) : l[1] = a /\ l[2] \in Keys} = Appended(s, a, Keys, j.keys)
         /\ {l \in Inserts(s, j) : l[1] = a /\ l[2] \in RunRefs}
              = Appended(s, a, RunRefs, NewRunRefs(s, a, j))
<1> DEFINE runRefs == NewRunRefs(s, a, j)
           In(l) == l \in Inserts(s, j)
<1>1. a \in j.arts /\ a \in Present(s, j) /\ a \in Artifacts /\ s \in Database /\ Bounded(s)
  BY JobFields DEF Writes, Upserted, Touched, Present, Sound
<1>2. ASSUME NEW l, In(l), l[1] = a
      PROVE  /\ l[2] \in Keys => l \in Appended(s, a, Keys, j.keys)
             /\ l[2] \in RunRefs => l \in Appended(s, a, RunRefs, runRefs)
  <2>1. l \in InsertsFor(s, a, j)
    BY <1>1, <1>2, InsertedLinks
  <2> QED BY <1>1, <2>1, BroughtLinks, KindsDisjoint
<1>3. /\ IsFiniteSet(DOMAIN j.keys) /\ \A i \in DOMAIN j.keys : j.keys[i] \in Keys
      /\ IsFiniteSet(DOMAIN runRefs) /\ \A i \in DOMAIN runRefs : runRefs[i] \in RunRefs
  BY <1>1, BroughtLists
<1>4. /\ \A i \in DOMAIN j.keys : j.keys[i] \in Refs
      /\ \A i \in DOMAIN runRefs : runRefs[i] \in Refs
  BY <1>3 DEF Refs
<1>5. InsertsFor(s, a, j) = Appended(s, a, Keys, j.keys) \cup Appended(s, a, RunRefs, runRefs)
  BY DEF InsertsFor
<1> HIDE DEF runRefs
<1>6. ASSUME NEW l \in Appended(s, a, Keys, j.keys)
      PROVE  In(l) /\ l[1] = a /\ l[2] \in Keys
  <2>1. l[1] = a /\ l[2] \in Keys
    BY <1>1, <1>3, <1>4, AppendedLinks
  <2> QED BY <1>1, <1>5, <2>1, AllInserted
<1>7. ASSUME NEW l \in Appended(s, a, RunRefs, runRefs)
      PROVE  In(l) /\ l[1] = a /\ l[2] \in RunRefs
  <2>1. l[1] = a /\ l[2] \in RunRefs
    BY <1>1, <1>3, <1>4, AppendedLinks
  <2> QED BY <1>1, <1>5, <2>1, AllInserted
<1> QED BY <1>2, <1>6, <1>7 DEF runRefs

\* What a commit leaves of the links of one artifact.
LEMMA AppliedLinksOf ==
  ASSUME NEW d, NEW s, NEW j, NEW a, NEW R
  PROVE  LinksOf(Applied(d, s, j), a, R)
           = {l \in LinksOf(d, a, R) : l \notin Unlinked(s, j)}
               \cup {l \in Inserts(s, j) : l[1] = a /\ l[2] \in R}
BY DEF LinksOf, Applied

\* Attach, as readers see it: for an artifact there before, and for a new one.
LEMMA AttachedView ==
  ASSUME NEW d, Sound(d), Followed(d), NEW s, Sound(s), NEW j \in Jobs,
         j.op \in {"add", "attach"}, Agrees(s, j, d),
         WantedRefs(s, j) \subseteq s.refs, NEW a \in Writes(s, j)
  PROVE  View(Applied(d, s, j), a) = Promise!AfterAttach(View(d, a), j.keys, j.run)
<1> DEFINE D == Applied(d, s, j)
           ks == j.keys
           runRefs == NewRunRefs(s, a, j)
           K == LinksOf(d, a, Keys)
           U == LinksOf(d, a, RunRefs)
           newK == Appended(s, a, Keys, ks)
           newU == Appended(s, a, RunRefs, runRefs)
           fresh == {i \in DOMAIN ks : ks[i] \notin Promise!Elements(Order(K))}
<1>1. /\ a \in Artifacts /\ s \in Database /\ Bounded(s)
      /\ Unlinked(s, j) = {}
  <2>1. a \in j.arts
    BY DEF Writes, Upserted, Touched
  <2>2. Deleted(s, j) = {}
    BY InsertingJobsDeleteNothing
  <2> QED BY <2>1, <2>2, JobFields DEF Sound, Unlinked, UnlinksFor
<1>2. LinksOf(D, a, Keys) = K \cup newK /\ LinksOf(D, a, RunRefs) = U \cup newU
  BY <1>1, AppliedLinksOf, AttachedLinks
<1>3. /\ IsFiniteSet(DOMAIN ks) /\ DOMAIN ks \subseteq Int
      /\ IsFiniteSet(DOMAIN runRefs) /\ DOMAIN runRefs \subseteq Int
      /\ \A i \in DOMAIN ks : ks[i] \in Refs
      /\ \A i \in DOMAIN runRefs : runRefs[i] \in Refs
  BY <1>1, BroughtLists DEF Refs
<1>4. K \in SUBSET Link /\ U \in SUBSET Link
  BY DEF Sound, Database, LinksOf
<1>5. newK \in SUBSET Link /\ newU \in SUBSET Link
  <2> HIDE DEF ks, runRefs
  <2> QED BY <1>1, <1>3, AppendedLinks
<1>6. \A l \in K, m \in newK : l[3] < m[3]
  <2> SUFFICES ASSUME NEW l \in K, NEW m \in newK PROVE l[3] < m[3]
    OBVIOUS
  <2>1. m \in Inserts(s, j) /\ l \in d.links /\ SameList(m, l)
    BY AttachedLinks DEF LinksOf, SameList
  <2> QED BY <2>1, CommitAppends
<1>7. \A l \in U, m \in newU : l[3] < m[3]
  <2> SUFFICES ASSUME NEW l \in U, NEW m \in newU PROVE l[3] < m[3]
    OBVIOUS
  <2>1. m \in Inserts(s, j) /\ l \in d.links /\ SameList(m, l)
    BY AttachedLinks, KindsDisjoint DEF LinksOf, SameList
  <2> QED BY <2>1, CommitAppends
<1>8. Held(s, a, Keys) = Promise!Elements(Order(K))
  <2>1. LinksOf(s, a, Keys) = K
    BY DEF LinksOf, Agrees
  <2> QED BY <1>4, <2>1, OrderElements DEF Held
<1>9. Missing(s, a, Keys, ks) = fresh
  BY <1>8 DEF Missing
<1>10. Order(newK) = OrderAt(ks, fresh)
  <2> HIDE DEF ks, fresh
  <2> QED BY <1>1, <1>3, <1>9, AppendedOrder
<1>11. Order(LinksOf(D, a, Keys)) = Promise!Behind(Order(K), OrderAt(ks, fresh))
  <2> HIDE DEF K, newK, D, ks, fresh
  <2> QED BY <1>2, <1>4, <1>5, <1>6, <1>10, OrderBehind
<1>12. CASE j.run = NoRun
  <2>1. DOMAIN runRefs = {}
    BY <1>12 DEF NewRunRefs
  <2>2. newU = {}
    BY <2>1 DEF Appended
  <2>3. Order(LinksOf(D, a, RunRefs)) = Order(U)
    BY <1>2, <2>2
  <2> QED BY <1>11, <1>12, <2>3 DEF View, Promise!AfterAttach, OrderAt
<1>13. CASE j.run # NoRun
  <2>1. DOMAIN runRefs = fresh /\ \A i \in fresh : runRefs[i] = <<j.run, ks[i]>>
    BY <1>8, <1>13 DEF NewRunRefs
  <2>2. ASSUME NEW i \in fresh
        PROVE  runRefs[i] \notin Held(s, a, RunRefs)
    <3> SUFFICES ASSUME NEW l \in s.links, l[1] = a, l[2] \in RunRefs, l[2] = runRefs[i]
                 PROVE  FALSE
      BY DEF Held, LinksOf
    <3>1. l \in d.links
      BY DEF Agrees
    <3>2. l[2][2] = ks[i]
      BY <2>1
    <3>3. ks[i] \in Held(d, a, Keys)
      BY <3>1, <3>2 DEF Followed
    <3>4. Held(d, a, Keys) = Promise!Elements(Order(K))
      BY <1>4, OrderElements DEF Held
    <3> QED BY <3>3, <3>4
  <2>3. Missing(s, a, RunRefs, runRefs) = fresh
    BY <2>1, <2>2 DEF Missing
  <2>4. Order(newU) = OrderAt(runRefs, fresh)
    <3> HIDE DEF runRefs, fresh
    <3> QED BY <1>1, <1>3, <2>3, AppendedOrder
  <2>5. OrderAt(runRefs, fresh)
          = {<<<<j.run, ks[h[1]]>>, <<j.run, ks[h[2]]>>>> :
               h \in {g \in fresh \X fresh : g[1] <= g[2]}}
    <3> HIDE DEF runRefs, fresh, ks
    <3> QED BY <2>1 DEF OrderAt
  <2>6. Order(LinksOf(D, a, RunRefs)) = Promise!Behind(Order(U), OrderAt(runRefs, fresh))
    <3> HIDE DEF U, newU, D, runRefs, fresh
    <3> QED BY <1>2, <1>4, <1>5, <1>7, <2>4, OrderBehind
  <2> QED BY <1>11, <1>13, <2>5, <2>6 DEF View, Promise!AfterAttach, OrderAt
<1> QED BY <1>12, <1>13

\* Readers see no change of an artifact that a commit neither writes nor deletes.
LEMMA UntouchedView ==
  ASSUME NEW d, NEW s, Sound(s), NEW j \in Jobs,
         NEW a, a \notin Writes(s, j), a \notin Deleted(s, j)
  PROVE  View(Applied(d, s, j), a) = View(d, a)
<1>1. \A l \in Unlinked(s, j) : l[1] # a
  BY UnlinkedLinks DEF Sound
<1>2. \A l \in Inserts(s, j) : l[1] # a
  BY InsertedLinks DEF Sound
<1>3. ASSUME NEW R
      PROVE  LinksOf(Applied(d, s, j), a, R) = LinksOf(d, a, R)
  BY <1>1, <1>2 DEF LinksOf, Applied
<1> QED BY <1>3 DEF View

\* Remove, as readers see it.
LEMMA RemovedView ==
  ASSUME NEW d, Sound(d), NEW s, Sound(s), NEW j \in Jobs, j.op = "remove",
         Agrees(s, j, d), NEW a \in Writes(s, j)
  PROVE  View(Applied(d, s, j), a) = Promise!AfterRemove(View(d, a), j.keys)
<1> DEFINE D == Applied(d, s, j)
           gone == KeysIn(j)
           goneRuns == {r \in RunRefs : r[2] \in gone}
           K == LinksOf(d, a, Keys)
           U == LinksOf(d, a, RunRefs)
<1>1. a \in j.arts
  BY DEF Writes, Upserted, Touched
<1>2. Inserts(s, j) = {}
  BY InsertedLinks DEF Sound
<1>3. ASSUME NEW l, l \in d.links, l[1] = a
      PROVE  l \in Unlinked(s, j) <=> (l[2] \in gone \/ (l[2] \in RunRefs /\ l[2][2] \in gone))
  <2>1. l \in s.links
    BY <1>3 DEF Agrees
  <2>2. l[2] \in s.refs
    BY <2>1 DEF Sound, Whole
  <2>3. Deleted(s, j) = {}
    BY DEF Deleted
  <2>4. l \in Unlinked(s, j) <=> \E b \in j.arts : l \in UnlinksFor(s, b, j)
    BY <2>3 DEF Unlinked
  <2> QED BY <1>1, <1>3, <2>1, <2>2, <2>4 DEF UnlinksFor
<1>4. LinksOf(D, a, Keys) = Without(K, gone)
  BY <1>2, <1>3, KindsDisjoint DEF LinksOf, Applied, Without
<1>5. LinksOf(D, a, RunRefs) = Without(U, goneRuns)
  <2>1. gone \subseteq Keys
    BY JobFields DEF KeysIn
  <2> QED BY <1>2, <1>3, <2>1, KindsDisjoint DEF LinksOf, Applied, Without
<1>6. K \in SUBSET Link /\ U \in SUBSET Link
  BY DEF Sound, Database, LinksOf
<1>7. Order(LinksOf(D, a, Keys)) = {q \in Order(K) : q[1] \notin gone /\ q[2] \notin gone}
  <2> HIDE DEF D, K, gone
  <2> QED BY <1>4, <1>6, OrderWithout
<1>8. Order(LinksOf(D, a, RunRefs)) = {q \in Order(U) : q[1] \notin goneRuns /\ q[2] \notin goneRuns}
  <2> HIDE DEF D, U, goneRuns
  <2> QED BY <1>5, <1>6, OrderWithout
<1>9. \A q \in Order(U) : q[1] \in RunRefs /\ q[2] \in RunRefs
  <2>1. \A l \in U : l[2] \in RunRefs
    BY DEF LinksOf
  <2> HIDE DEF U
  <2> QED BY <1>6, <2>1, InOrder
<1>10. Order(LinksOf(D, a, RunRefs)) = {q \in Order(U) : q[1][2] \notin gone /\ q[2][2] \notin gone}
  <2> HIDE DEF D, U, gone
  <2> QED BY <1>8, <1>9
<1>11. Promise!AfterRemove(View(d, a), j.keys)
         = [keys |-> {q \in Order(K) : q[1] \notin gone /\ q[2] \notin gone},
            runs |-> {q \in Order(U) : q[1][2] \notin gone /\ q[2][2] \notin gone}]
  BY DEF Promise!AfterRemove, View, KeysIn
<1> QED BY <1>7, <1>10, <1>11 DEF View

\* An artifact that does not exist has no owner to readers.
LEMMA NewView ==
  ASSUME NEW d, Sound(d), NEW a, a \notin d.art
  PROVE  View(d, a) = Promise!NoOwner
<1>1. LinksOf(d, a, Keys) = {} /\ LinksOf(d, a, RunRefs) = {}
  BY DEF Sound, Whole, LinksOf
<1>2. Order({}) = {}
  BY DEF Order
<1> QED BY <1>1, <1>2 DEF View, Promise!NoOwner

LEMMA DecodedIsView == Decoded = [a \in db.art |-> View(db, a)]
BY DEF Decoded, View

LEMMA DecodedIsViewNext == Decoded' = [a \in db'.art |-> View(db', a)]
BY DEF Decoded, View

\* A commit of add or attach is an Attach.
LEMMA CommitAttaches ==
  ASSUME NEW s, NEW j \in Jobs, Sound(db), Followed(db), Sound(s), Agrees(s, j, db),
         WantedRefs(s, j) \subseteq s.refs, db' = Applied(db, s, j),
         j.op \in {"add", "attach"}
  PROVE  Promise!Attach(Upserted(s, j) \ db.art, Writes(s, j) \cap db.art, j.keys, j.run)
<1> DEFINE new == Upserted(s, j) \ db.art
           old == Writes(s, j) \cap db.art
<1>1. Promise!Exists = db.art
  BY DecodedIsView DEF Promise!Exists
<1>2. Deleted(s, j) = {}
  BY InsertingJobsDeleteNothing
<1>3. db'.art = db.art \cup new
  BY <1>2 DEF Applied
<1>4. \A e \in new \cap Edges : {e[1], e[2]} \subseteq Promise!Exists
  BY <1>1, UpsertedArtifacts DEF Agrees, Uses
<1>5. ASSUME NEW a \in new
      PROVE  View(db', a) = Promise!AfterAttach(Promise!NoOwner, j.keys, j.run)
  <2>1. a \in Writes(s, j) /\ a \notin db.art
    BY DEF Writes
  <2> QED BY <2>1, AttachedView, NewView
<1>6. ASSUME NEW a \in old
      PROVE  View(db', a) = Promise!AfterAttach(Decoded[a], j.keys, j.run)
  BY AttachedView, DecodedIsView
<1>7. ASSUME NEW a \in db.art, a \notin old
      PROVE  View(db', a) = Decoded[a]
  BY <1>2, <1>7, UntouchedView, DecodedIsView
<1>8. Decoded' = [a \in db.art \cup new |-> View(db', a)]
  BY <1>3, DecodedIsViewNext
<1> HIDE DEF new, old
<1>9. Decoded' = [a \in Promise!Exists \cup new |->
       IF a \in new THEN Promise!AfterAttach(Promise!NoOwner, j.keys, j.run)
       ELSE IF a \in old THEN Promise!AfterAttach(Decoded[a], j.keys, j.run) ELSE Decoded[a]]
  BY <1>1, <1>5, <1>6, <1>7, <1>8
<1> QED BY <1>4, <1>9 DEF Promise!Attach, new, old

\* A commit of remove is a Remove.
LEMMA CommitRemoves ==
  ASSUME NEW s, NEW j \in Jobs, Sound(db), Sound(s), Agrees(s, j, db),
         db' = Applied(db, s, j), j.op = "remove"
  PROVE  Promise!Remove(Writes(s, j) \cap db.art, j.keys)
<1> DEFINE old == Writes(s, j) \cap db.art
<1>1. Promise!Exists = db.art
  BY DecodedIsView DEF Promise!Exists
<1>2. Deleted(s, j) = {} /\ Upserted(s, j) = {}
  BY DEF Deleted, Upserted
<1>3. db'.art = db.art
  BY <1>2 DEF Applied
<1>4. ASSUME NEW a \in old
      PROVE  View(db', a) = Promise!AfterRemove(Decoded[a], j.keys)
  BY RemovedView, DecodedIsView
<1>5. ASSUME NEW a \in db.art, a \notin old
      PROVE  View(db', a) = Decoded[a]
  BY <1>2, <1>5, UntouchedView, DecodedIsView
<1>6. Decoded' = [a \in db.art |-> View(db', a)]
  BY <1>3, DecodedIsViewNext
<1> HIDE DEF old
<1>7. Decoded' = [a \in Promise!Exists |->
       IF a \in old THEN Promise!AfterRemove(Decoded[a], j.keys) ELSE Decoded[a]]
  BY <1>1, <1>4, <1>5, <1>6
<1> QED BY <1>7 DEF Promise!Remove, old

\* A commit of any delete is a Delete.
LEMMA CommitDeletes ==
  ASSUME NEW s, NEW j \in Jobs, Sound(db), Sound(s), Agrees(s, j, db),
         db' = Applied(db, s, j), j.op \notin {"add", "attach", "remove"}
  PROVE  Deleted(s, j) \subseteq db.art /\ Promise!Delete(Deleted(s, j))
<1> DEFINE gone == Deleted(s, j)
<1>1. Promise!Exists = db.art
  BY DecodedIsView DEF Promise!Exists
<1>2. Writes(s, j) = {} /\ Upserted(s, j) = {}
  BY DEF Writes, Upserted, Touched, InsertsFor, UnlinksFor
<1>3. db'.art = db.art \ gone
  BY <1>2 DEF Applied
<1>4. gone \subseteq db.art
  BY DEF Agrees, Uses, Deletes, Deleted
<1>5. ASSUME NEW e \in db.art \cap Edges, {e[1], e[2]} \cap gone # {}
      PROVE  e \in gone
  <2>1. EdgesWhole(Applied(db, s, j))
    BY AppliedEdgesWhole
  <2> QED BY <1>3, <1>5, <2>1 DEF EdgesWhole
<1>6. ASSUME NEW a \in db.art \ gone
      PROVE  View(db', a) = Decoded[a]
  BY <1>2, UntouchedView, DecodedIsView
<1>7. Decoded' = [a \in Promise!Exists \ gone |-> Decoded[a]]
  BY <1>1, <1>3, <1>6, DecodedIsViewNext
<1> QED BY <1>1, <1>4, <1>5, <1>7 DEF Promise!Delete

LEMMA InitPromise == Init => Promise!Init
<1> SUFFICES ASSUME Init PROVE Promise!Init
  OBVIOUS
<1>1. db.art = {}
  BY DEF Init, EmptyDb
<1>2. Decoded \in [{} -> {}]
  BY <1>1 DEF Decoded
<1>3. ASSUME NEW f \in [{} -> {}] PROVE f = << >>
  OBVIOUS
<1> QED BY <1>2, <1>3 DEF Promise!Init

\* Every commit is a step of the promise, and no other step shows.
LEMMA NextPromise == Inv /\ ListsInv /\ [Next]_vars => [Promise!Next]_Decoded
<1> SUFFICES ASSUME Inv, ListsInv, [Next]_vars PROVE [Promise!Next]_Decoded
  OBVIOUS
<1>1. ASSUME NEW w \in Writers, Commit(w) PROVE Promise!Next
  <2> DEFINE s == snap[w]
             j == job[w]
  <2>1. /\ Sound(db) /\ Sound(s) /\ j \in Jobs /\ Agrees(s, j, db)
        /\ WantedRefs(s, j) \subseteq s.refs
        /\ db' = Applied(db, s, j)
    BY <1>1, CommitDecides
  <2>2. Followed(db)
    BY DEF ListsInv
  <2> HIDE DEF s, j
  <2>3. Promise!Exists = db.art
    BY DecodedIsView DEF Promise!Exists
  <2>4. j.keys \in {k.keys : k \in Jobs}
    BY <2>1
  <2>5. CASE j.op \in {"add", "attach"}
    <3> DEFINE new == Upserted(s, j) \ db.art
               old == Writes(s, j) \cap db.art
    <3>1. Promise!Attach(new, old, j.keys, j.run)
      BY <2>1, <2>2, <2>5, CommitAttaches
    <3>2. new \in SUBSET ((Nodes \cup Edges) \ Promise!Exists) /\ old \in SUBSET Promise!Exists
      BY <2>1, <2>3, UpsertedArtifacts DEF Artifacts
    <3>3. j.run \in Runs \cup {NoRun}
      BY <2>1, JobFields
    <3> HIDE DEF new, old
    <3> QED BY <2>4, <3>1, <3>2, <3>3 DEF Promise!Next
  <2>6. CASE j.op = "remove"
    <3>1. Promise!Remove(Writes(s, j) \cap db.art, j.keys)
      BY <2>1, <2>6, CommitRemoves
    <3>2. Writes(s, j) \cap db.art \in SUBSET Promise!Exists
      BY <2>3
    <3> QED BY <2>4, <3>1, <3>2 DEF Promise!Next
  <2>7. CASE j.op \notin {"add", "attach", "remove"}
    <3>1. Deleted(s, j) \subseteq db.art /\ Promise!Delete(Deleted(s, j))
      BY <2>1, <2>7, CommitDeletes
    <3> QED BY <2>3, <3>1 DEF Promise!Next
  <2> QED BY <2>5, <2>6, <2>7
<1>2. CASE ~ \E w \in Writers : Commit(w)
  <2>1. db'.links = db.links /\ db'.art = db.art
    BY <1>2, OnlyCommitsLink
  <2>2. UNCHANGED Decoded
    BY <2>1 DEF Decoded, LinksOf
  <2> QED BY <2>2
<1> QED BY <1>1, <1>2

\* Readers cannot tell the transactions on links and positions from one atomic
\* transition of each artifact's lists per call (provenance.py against cognee's
\* provenance_after_attach and provenance_after_remove).
THEOREM PromiseIsKept == Spec => ImplementsPromise
BY InitPromise, NextPromise, Invariance, ListsInvariance, PTL DEF Spec, ImplementsPromise, Promise!Spec
=============================================================================
