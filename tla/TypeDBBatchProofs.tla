--------------------------- MODULE TypeDBBatchProofs ---------------------------
(***************************************************************************)
(* Theorems of TypeDBBatch, for any calls, any number of slots, attempts   *)
(* and cancellations.                                                      *)
(*                                                                         *)
(* A chunk's transaction and its coroutine are two processes.  The         *)
(* invariant IInv ties them: which outcomes a coroutine's state leaves to  *)
(* its transaction (UnitInv), and which states of its units a call's state *)
(* allows (CallInv).  Only a cancelled coroutine can have its transaction  *)
(* still running, and only a second cancellation brings it there; whether  *)
(* a second one can come is Gentle.                                        *)
(***************************************************************************)
EXTENDS TypeDBBatch, FiniteSetTheorems, TLAPS

\* A call of at most one chunk.
OneChunk(c) == \A x, y \in c : x = y

\* No unit of c is cancelled twice: its caller is not cancelled, or only once
\* and then gather has no other chunk to cancel.
Gentle(c) == ~asked[c] \/ (MaxCancels <= 1 /\ OneChunk(c))

Busy == {"waiting", "attempt", "draining", "backoff"}
TaskStates == {"absent"} \cup Busy \cup Finished

\* What a coroutine knows of its transaction.
UnitInv(t) ==
  /\ task[t] = "absent" => tx[t] = "none" /\ tries[t] = 0
  /\ pending[t] => task[t] \in Busy
  /\ task[t] \in {"waiting", "backoff"} => tx[t] \in {"none", "conflict"} /\ tries[t] < MaxTries
  /\ task[t] \in {"attempt", "draining"} => tx[t] # "none"
  /\ task[t] = "done" => tx[t] = "committed"
  /\ task[t] = "failed" => tx[t] # "running"
  /\ Gentle(t[1]) =>
       /\ task[t] = "cancelled" => tx[t] # "running"
       /\ task[t] = "draining" => ~pending[t]

\* Where the units of a call can be.
CallInv(c) ==
  /\ call[c] = "idle" => task[<<c, Refs>>] = "absent" /\ ~asked[c]
  /\ call[c] = "ensure" => task[<<c, Refs>>] \in Busy
  /\ call[c] \in {"gather", "rejoin", "returned"} => task[<<c, Refs>>] = "done"
  /\ call[c] \in {"idle", "ensure"} => \A t \in ChunkTasks(c) : task[t] = "absent"
  /\ call[c] = "ensure" /\ ~asked[c] =>
         ~pending[<<c, Refs>>] /\ task[<<c, Refs>>] # "draining"
  /\ call[c] = "gather" =>
       \A t \in ChunkTasks(c) :
         task[t] # "absent" /\ (~asked[c] => ~pending[t] /\ task[t] # "draining")
  /\ call[c] = "rejoin" =>
       /\ \A t \in ChunkTasks(c) : pending[t] \/ task[t] \in Finished \cup {"draining"}
       /\ Unfinished(c) # {} => Unfinished(c) # ChunkTasks(c)
  /\ call[c] = "returned" => \A t \in ChunkTasks(c) : task[t] = "done"
  /\ call[c] = "raised" =>
       \/ task[<<c, Refs>>] \in {"failed", "cancelled"} /\ \A t \in ChunkTasks(c) : task[t] = "absent"
       \/ task[<<c, Refs>>] = "done" /\ \A t \in ChunkTasks(c) : task[t] \in Finished
  /\ asked[c] => c \in Cancellable /\ cancels > 0
SlotsCapped == IsFiniteSet(SlotHolders) /\ Cardinality(SlotHolders) <= Concurrency

IInv ==
  /\ TypeOK
  /\ \A t \in Tasks : UnitInv(t)
  /\ \A c \in Calls : CallInv(c)
  /\ SlotsCapped

-----------------------------------------------------------------------------
\* A unit is a call's refs or one of its chunks, and names its call.
LEMMA TaskShape ==
  /\ \A c \in Calls : <<c, Refs>> \in Tasks
  /\ \A t \in Tasks : t[1] \in Calls /\ (t[2] = Refs => t = <<t[1], Refs>>)
  /\ \A t : t \in AllChunks <=> t \in Tasks /\ t[2] # Refs
  /\ \A c \in Calls : \A t : t \in ChunkTasks(c) <=> t \in Tasks /\ t[1] = c /\ t[2] # Refs
BY RefsIsNoChunk, SMTT(60) DEF Tasks, AllChunks, ChunkTasks

\* A call of one chunk has one chunk task.
LEMMA OneChunkTask ==
  ASSUME NEW c \in Calls, OneChunk(c), NEW t \in ChunkTasks(c), NEW u \in ChunkTasks(c)
  PROVE  t = u
BY DEF OneChunk, ChunkTasks

\* The initial states satisfy the invariant.
LEMMA InitInv == Init => IInv
<1> SUFFICES ASSUME Init PROVE IInv
  OBVIOUS
<1>1. TypeOK
  BY BoundsAreNat DEF Init, TypeOK
<1>2. \A t \in Tasks : UnitInv(t)
  BY TaskShape DEF Init, UnitInv, Busy
<1>3. \A c \in Calls : CallInv(c)
  BY TaskShape DEF Init, CallInv, Ended
<1>4. SlotHolders = {}
  BY TaskShape DEF Init, SlotHolders
<1>5. SlotsCapped
  BY <1>4, FS_EmptySet, BoundsAreNat DEF SlotsCapped
<1> QED
  BY <1>1, <1>2, <1>3, <1>5 DEF IInv

-----------------------------------------------------------------------------
\* Where the unit's end, or its next stretch, takes it and its call.
LEMMA AfterUnitMoves ==
  ASSUME TypeOK, NEW u \in Tasks, NEW o \in TaskStates, AfterUnit(u, o)
  PROVE  /\ task' \in [Tasks -> TaskStates]
         /\ call' \in [Calls -> {"idle", "ensure", "gather", "rejoin"} \cup Ended]
         /\ task'[u] = o
         /\ \A t \in Tasks : t # u =>
              task'[t] = IF u[2] = Refs /\ o = "done" /\ t \in ChunkTasks(u[1])
                         THEN "waiting" ELSE task[t]
         /\ \A c \in Calls :
              call'[c] = IF c # u[1] \/ u[2] # Refs THEN call[c]
                         ELSE IF o = "done" THEN "gather"
                         ELSE IF o \in Finished THEN "raised" ELSE call[c]
BY TaskShape DEF TypeOK, AfterUnit, TaskStates, Busy, Finished, Ended

\* A step that takes no slot keeps within them.
LEMMA SlotsShrink ==
  ASSUME SlotsCapped, SlotHolders' \subseteq SlotHolders
  PROVE  SlotsCapped'
BY FS_Subset, FS_CardinalityType, BoundsAreNat DEF SlotsCapped

LEMMA StartInv ==
  ASSUME IInv, NEW c \in Calls, Start(c)
  PROVE  IInv'
<1> USE DEF IInv
<1>1. TypeOK'
  BY TaskShape DEF TypeOK, Start
<1>2. ASSUME NEW t \in Tasks PROVE UnitInv(t)'
  BY TaskShape, BoundsAreNat DEF TypeOK, Start, UnitInv, CallInv, Busy, Gentle, Finished
<1>3. ASSUME NEW k \in Calls PROVE CallInv(k)'
  BY TaskShape DEF TypeOK, Start, UnitInv, CallInv, Busy, Unfinished, Finished, Ended
<1>4. SlotsCapped'
  <2>1. SlotHolders' \subseteq SlotHolders
    BY TaskShape DEF TypeOK, Start, SlotHolders
  <2> QED
    BY <2>1, SlotsShrink
<1> QED
  BY <1>1, <1>2, <1>3, <1>4

LEMMA SubmitInv ==
  ASSUME IInv, NEW u \in Tasks, Submit(u)
  PROVE  IInv'
<1> USE DEF IInv
<1>0. UnitInv(u) /\ tries[u] < MaxTries
  BY DEF UnitInv, Submit
<1>1. TypeOK'
  BY <1>0, BoundsAreNat DEF TypeOK, Submit, TxOver
<1>2. ASSUME NEW t \in Tasks PROVE UnitInv(t)'
  BY <1>0 DEF TypeOK, Submit, UnitInv, Busy, Gentle, Finished
<1>3. ASSUME NEW k \in Calls PROVE CallInv(k)'
  BY <1>0, TaskShape DEF TypeOK, Submit, CallInv, Busy, Unfinished, Finished, Ended
<1>4. SlotsCapped'
  <2>1. CASE u[2] = Refs
    <3>1. SlotHolders' \subseteq SlotHolders
      BY <2>1, TaskShape DEF TypeOK, Submit, SlotHolders
    <3> QED
      BY <3>1, SlotsShrink
  <2>2. CASE u[2] # Refs
    <3>1. SlotHolders' = SlotHolders \cup {u} /\ u \notin SlotHolders
      BY <2>2, TaskShape DEF TypeOK, Submit, SlotHolders
    <3>2. Cardinality(SlotHolders) < Concurrency
      BY <2>2 DEF Submit
    <3>3. IsFiniteSet(SlotHolders) /\ Cardinality(SlotHolders) \in Nat
      BY FS_CardinalityType DEF SlotsCapped
    <3>4. /\ IsFiniteSet(SlotHolders \cup {u})
          /\ Cardinality(SlotHolders \cup {u}) = Cardinality(SlotHolders) + 1
      BY <3>1, <3>3, FS_AddElement
    <3>5. IsFiniteSet(SlotHolders') /\ Cardinality(SlotHolders') <= Concurrency
      BY <3>1, <3>2, <3>3, <3>4, BoundsAreNat
    <3> QED
      BY <3>5 DEF SlotsCapped
  <2> QED
    BY <2>1, <2>2
<1> QED
  BY <1>1, <1>2, <1>3, <1>4

LEMMA TxEndsInv ==
  ASSUME IInv, NEW u \in Tasks, NEW how \in TxOver, TxEnds(u, how)
  PROVE  IInv'
<1> USE DEF IInv
<1>1. TypeOK'
  BY DEF TypeOK, TxEnds, TxOver
<1>2. ASSUME NEW t \in Tasks PROVE UnitInv(t)'
  BY DEF TypeOK, TxEnds, TxOver, UnitInv, Busy, Gentle, Finished
<1>3. ASSUME NEW k \in Calls PROVE CallInv(k)'
  BY DEF TypeOK, TxEnds, CallInv, Unfinished
<1>4. SlotsCapped'
  BY DEF TxEnds, SlotsCapped, SlotHolders
<1> QED
  BY <1>1, <1>2, <1>3, <1>4

\* A unit in flight belongs to a call that has started it and not ended.
LEMMA BusyUnits ==
  ASSUME IInv, NEW u \in Tasks, task[u] \in Busy
  PROVE  /\ u[2] = Refs => call[u[1]] = "ensure"
         /\ u[2] # Refs => call[u[1]] \in {"gather", "rejoin"}
<1>1. CallInv(u[1]) /\ call[u[1]] \in {"idle", "ensure", "gather", "rejoin"} \cup Ended
  BY TaskShape DEF IInv, TypeOK
<1>2. CASE u[2] = Refs
  BY <1>1, <1>2, TaskShape DEF CallInv, Busy, Finished, Ended
<1>3. CASE u[2] # Refs
  <2>1. u \in ChunkTasks(u[1])
    BY <1>3, TaskShape
  <2> QED
    BY <1>1, <1>3, <2>1 DEF CallInv, Busy, Finished, Ended
<1> QED
  BY <1>2, <1>3

\* The unit's coroutine leaves its await for o, knowing what o stands for.
LEMMA UnitMovesInv ==
  ASSUME IInv, NEW u \in Tasks, NEW o \in {"done", "backoff", "failed", "cancelled", "draining"},
         AfterUnit(u, o),
         task[u] \in Busy,
         pending' = [pending EXCEPT ![u] = FALSE],
         o = "done" => tx[u] = "committed" /\ task[u] = "attempt" /\ ~pending[u],
         o = "backoff" => /\ tx[u] = "conflict" /\ task[u] = "attempt" /\ ~pending[u]
                          /\ tries[u] < MaxTries,
         o = "failed" => tx[u] # "running" /\ task[u] = "attempt" /\ ~pending[u],
         o = "cancelled" => /\ Gentle(u[1]) => tx[u] # "running"
                            /\ pending[u] \/ task[u] = "draining",
         o = "draining" => task[u] = "attempt" /\ pending[u],
         UNCHANGED <<tx, asked, tries, cancels>>
  PROVE  IInv'
<1> USE DEF IInv
<1>0. o \in TaskStates
  BY DEF TaskStates, Busy, Finished
<1>m. /\ task' \in [Tasks -> TaskStates]
      /\ call' \in [Calls -> {"idle", "ensure", "gather", "rejoin"} \cup Ended]
      /\ task'[u] = o
      /\ \A t \in Tasks : t # u =>
           task'[t] = IF u[2] = Refs /\ o = "done" /\ t \in ChunkTasks(u[1])
                      THEN "waiting" ELSE task[t]
      /\ \A c \in Calls :
           call'[c] = IF c # u[1] \/ u[2] # Refs THEN call[c]
                      ELSE IF o = "done" THEN "gather"
                      ELSE IF o \in Finished THEN "raised" ELSE call[c]
  BY <1>0, AfterUnitMoves
<1>1. TypeOK'
  BY <1>m DEF TypeOK, TaskStates, Busy
<1>b. /\ u[1] \in Calls
      /\ u[2] = Refs => call[u[1]] = "ensure"
      /\ u[2] # Refs => call[u[1]] \in {"gather", "rejoin"}
  BY BusyUnits, TaskShape
<1>2. ASSUME NEW t \in Tasks PROVE UnitInv(t)'
  <2>1. CASE t = u
    BY <1>m, <2>1 DEF TypeOK, UnitInv, Gentle, Busy, Finished
  <2>2. CASE t # u /\ u[2] = Refs /\ o = "done" /\ t \in ChunkTasks(u[1])
    <3>1. task[t] = "absent" /\ UnitInv(t) /\ tries[t] < MaxTries
      <4>1. CallInv(u[1]) /\ UnitInv(t)
        BY <1>b
      <4> QED
        BY <1>b, <2>2, <4>1, BoundsAreNat DEF CallInv, UnitInv
    <3> QED
      BY <1>m, <2>2, <3>1 DEF TypeOK, UnitInv, Gentle, Busy, Finished
  <2>3. CASE t # u /\ ~(u[2] = Refs /\ o = "done" /\ t \in ChunkTasks(u[1]))
    <3>1. task'[t] = task[t] /\ UnitInv(t)
      BY <1>m, <2>3
    <3> QED
      BY <2>3, <3>1 DEF TypeOK, UnitInv, Gentle
  <2> QED
    BY <2>1, <2>2, <2>3
<1>3. ASSUME NEW k \in Calls PROVE CallInv(k)'
  <2>k. CallInv(k) /\ <<k, Refs>> \in Tasks /\ ChunkTasks(k) \subseteq Tasks
    BY TaskShape
  <2>1. CASE k # u[1]
    <3>0. <<k, Refs>> # u /\ \A t \in ChunkTasks(k) : t # u /\ t \notin ChunkTasks(u[1])
      BY <2>1, <1>b, TaskShape
    <3>1. /\ call'[k] = call[k]
          /\ task'[<<k, Refs>>] = task[<<k, Refs>>]
          /\ pending'[<<k, Refs>>] <=> pending[<<k, Refs>>]
          /\ \A t \in ChunkTasks(k) : task'[t] = task[t] /\ (pending'[t] <=> pending[t])
      <4>1. \A t \in Tasks : t # u => (pending'[t] <=> pending[t])
        BY DEF TypeOK
      <4>2. <<k, Refs>> \notin ChunkTasks(u[1])
        BY <1>b, TaskShape
      <4> QED
        BY <1>m, <2>1, <2>k, <3>0, <4>1, <4>2
    <3>2. Unfinished(k)' = Unfinished(k)
      BY <3>1 DEF Unfinished
    <3> QED
      BY <2>k, <3>1, <3>2 DEF CallInv
  <2>2. CASE k = u[1] /\ u[2] = Refs
    <3>1. u = <<k, Refs>> /\ u \notin ChunkTasks(k) /\ call[k] = "ensure"
      BY <1>b, <2>2, TaskShape
    <3>2. \A t \in ChunkTasks(k) : task[t] = "absent" /\ ~pending[t] /\ t \in Tasks
      BY <2>k, <3>1 DEF CallInv, UnitInv, Busy
    <3>3. \A t \in ChunkTasks(k) :
            /\ task'[t] = IF o = "done" THEN "waiting" ELSE "absent"
            /\ ~pending'[t]
      BY <1>m, <2>2, <3>1, <3>2 DEF TypeOK
    <3> QED
      BY <1>m, <2>2, <2>k, <3>1, <3>3 DEF CallInv, Busy, Finished, Ended
  <2>3. CASE k = u[1] /\ u[2] # Refs
    <3>1. /\ u \in ChunkTasks(k) /\ u # <<k, Refs>>
          /\ call[k] \in {"gather", "rejoin"} /\ call'[k] = call[k]
      BY <1>m, <1>b, <2>3, TaskShape
    <3>2. /\ task'[<<k, Refs>>] = task[<<k, Refs>>]
          /\ \A t \in ChunkTasks(k) : t # u => task'[t] = task[t] /\ (pending'[t] <=> pending[t])
      BY <1>m, <2>3, <2>k, <3>1 DEF TypeOK
    <3>3. Unfinished(k)' \subseteq Unfinished(k) /\ Unfinished(k) \subseteq ChunkTasks(k)
      BY <3>1, <3>2 DEF Unfinished, Busy, Finished
    <3>4. call[k] = "rejoin" => o \notin {"done", "backoff"}
      BY <2>k, <3>1 DEF CallInv, Finished
    <3>5. call[k] = "gather" /\ ~asked[k] => o \notin {"cancelled", "draining"}
      BY <2>k, <3>1 DEF CallInv
    <3>6. o \in {"draining"} \cup Finished \/ o = "backoff"
      BY DEF Finished
    <3>7. call[k] = "gather" => CallInv(k)'
      BY <1>m, <2>k, <3>1, <3>2, <3>5 DEF CallInv
    <3>8. CASE call[k] = "rejoin"
      <4>1. /\ \A t \in ChunkTasks(k) : pending[t] \/ task[t] \in Finished \cup {"draining"}
            /\ Unfinished(k) # {} => Unfinished(k) # ChunkTasks(k)
        BY <2>k, <3>8 DEF CallInv
      <4>2. \A t \in ChunkTasks(k) : pending'[t] \/ task'[t] \in Finished \cup {"draining"}
        BY <1>m, <3>2, <3>4, <3>6, <3>8, <4>1
      <4>3. Unfinished(k)' # {} => Unfinished(k)' # ChunkTasks(k)
        BY <3>3, <4>1
      <4> QED
        BY <2>k, <3>1, <3>2, <3>8, <4>2, <4>3 DEF CallInv
    <3> QED
      BY <3>1, <3>7, <3>8
  <2> QED
    BY <2>1, <2>2, <2>3
<1>4. SlotsCapped'
  <2>1. SlotHolders' \subseteq SlotHolders
    BY <1>m, TaskShape DEF SlotHolders
  <2> QED
    BY <2>1, SlotsShrink
<1> QED
  BY <1>1, <1>2, <1>3, <1>4

LEMMA ResumeInv ==
  ASSUME IInv, NEW u \in Tasks, Resume(u)
  PROVE  IInv'
<1>1. UnitInv(u) /\ tx[u] \in {"none", "running"} \cup TxOver
  BY DEF IInv, TypeOK
<1>2. pending' = [pending EXCEPT ![u] = FALSE]
  BY DEF IInv, TypeOK, Resume
<1>3. task[u] \in Busy
  BY DEF Resume, Busy
<1>4. CASE tx[u] = "committed" /\ AfterUnit(u, "done")
  BY <1>2, <1>3, <1>4, UnitMovesInv DEF Resume
<1>5. CASE tx[u] = "conflict" /\ tries[u] < MaxTries /\ AfterUnit(u, "backoff")
  BY <1>2, <1>3, <1>5, UnitMovesInv DEF Resume
<1>6. CASE tx[u] \in {"conflict", "error"} /\ AfterUnit(u, "failed")
  BY <1>2, <1>3, <1>6, UnitMovesInv DEF Resume
<1> QED
  BY <1>4, <1>5, <1>6 DEF Resume

LEMMA CancelledInv ==
  ASSUME IInv, NEW u \in Tasks, Cancelled(u)
  PROVE  IInv'
<1>1. UnitInv(u) /\ task[u] \in Busy
  BY DEF IInv, UnitInv, Cancelled
<1>2. CASE task[u] = "attempt"
  BY <1>1, <1>2, UnitMovesInv DEF Cancelled
<1>3. CASE task[u] # "attempt"
  <2>1. Gentle(u[1]) => tx[u] # "running"
    BY <1>1, <1>3 DEF UnitInv, Cancelled, Busy
  <2> QED
    BY <1>1, <1>3, <2>1, UnitMovesInv DEF Cancelled
<1> QED
  BY <1>2, <1>3

LEMMA DrainedInv ==
  ASSUME IInv, NEW u \in Tasks, Drained(u)
  PROVE  IInv'
<1>1. pending' = [pending EXCEPT ![u] = FALSE]
  BY DEF IInv, TypeOK, Drained
<1>2. task[u] \in Busy /\ tx[u] # "running"
  BY DEF Drained, Busy, TxOver
<1> QED
  BY <1>1, <1>2, UnitMovesInv DEF Drained

LEMMA BackoffEndsInv ==
  ASSUME IInv, NEW u \in Tasks, BackoffEnds(u)
  PROVE  IInv'
<1> USE DEF IInv
<1>1. TypeOK'
  BY DEF TypeOK, BackoffEnds
<1>2. ASSUME NEW t \in Tasks PROVE UnitInv(t)'
  BY DEF TypeOK, BackoffEnds, UnitInv, Busy, Gentle, Finished
<1>3. ASSUME NEW k \in Calls PROVE CallInv(k)'
  BY TaskShape DEF TypeOK, BackoffEnds, CallInv, Busy, Unfinished, Finished, Ended
<1>4. SlotsCapped'
  <2>1. SlotHolders' \subseteq SlotHolders
    BY TaskShape DEF TypeOK, BackoffEnds, SlotHolders
  <2> QED
    BY <2>1, SlotsShrink
<1> QED
  BY <1>1, <1>2, <1>3, <1>4

\* A step of a call that leaves tasks and transactions alone.
LEMMA CallOnlyStep ==
  ASSUME IInv, NEW c \in Calls, NEW w \in Ended,
         call' = [call EXCEPT ![c] = w],
         UNCHANGED <<task, tx, pending, asked, tries, cancels>>,
         CallInv(c)'
  PROVE  IInv'
<1> USE DEF IInv
<1>1. TypeOK'
  BY DEF TypeOK
<1>2. ASSUME NEW t \in Tasks PROVE UnitInv(t)'
  BY DEF UnitInv, Gentle
<1>3. ASSUME NEW k \in Calls, k # c PROVE CallInv(k)'
  <2>1. call'[k] = call[k] /\ CallInv(k) /\ Unfinished(k)' = Unfinished(k)
    BY <1>3 DEF TypeOK, Unfinished
  <2> QED
    BY <2>1 DEF CallInv
<1>4. SlotsCapped'
  BY DEF SlotsCapped, SlotHolders
<1> QED
  BY <1>1, <1>2, <1>3, <1>4

LEMMA GatherReturnsInv ==
  ASSUME IInv, NEW c \in Calls, GatherReturns(c)
  PROVE  IInv'
<1>1. call'[c] = "returned" /\ CallInv(c)
  BY DEF IInv, TypeOK, GatherReturns
<1>2. CallInv(c)'
  BY <1>1 DEF GatherReturns, CallInv
<1> QED
  BY <1>2, CallOnlyStep DEF GatherReturns, Ended

LEMMA RejoinInv ==
  ASSUME IInv, NEW c \in Calls, Rejoin(c)
  PROVE  IInv'
<1>1. call'[c] = "raised" /\ CallInv(c)
  BY DEF IInv, TypeOK, Rejoin
<1>2. CallInv(c)'
  BY <1>1 DEF Rejoin, CallInv, Unfinished
<1> QED
  BY <1>2, CallOnlyStep DEF Rejoin, Ended

LEMMA GatherRaisesInv ==
  ASSUME IInv, NEW c \in Calls, GatherRaises(c)
  PROVE  IInv'
<1> USE DEF IInv
<1>c. CallInv(c) /\ call[c] = "gather" /\ ChunkTasks(c) \subseteq Tasks
  BY TaskShape DEF GatherRaises
<1>u. \A t \in Unfinished(c) : t \in ChunkTasks(c) /\ t \in Tasks /\ t[1] = c /\ task[t] \in Busy
  BY <1>c, TaskShape DEF TypeOK, CallInv, Unfinished, Busy
<1>e. Unfinished(c) # {} => \E t \in ChunkTasks(c) : t \notin Unfinished(c)
  BY DEF GatherRaises, Unfinished, Finished
<1>p. \A t \in Tasks : pending'[t] <=> pending[t] \/ t \in Unfinished(c)
  BY DEF GatherRaises
<1>1. TypeOK'
  BY DEF TypeOK, GatherRaises
<1>2. ASSUME NEW t \in Tasks PROVE UnitInv(t)'
  <2>1. UnitInv(t) /\ (Gentle(t[1])' <=> Gentle(t[1]))
    BY DEF GatherRaises, Gentle
  <2>2. CASE t \in Unfinished(c)
    <3>1. Gentle(t[1]) => task[t] # "draining"
      <4>1. asked[c] => ~OneChunk(c)
        BY <1>u, <1>e, <2>2, OneChunkTask
      <4> QED
        BY <1>c, <1>u, <2>2, <4>1 DEF CallInv, Gentle
    <3> QED
      BY <1>u, <2>1, <2>2, <3>1 DEF GatherRaises, UnitInv, Busy
  <2>3. CASE t \notin Unfinished(c)
    BY <1>p, <2>1, <2>3 DEF GatherRaises, UnitInv
  <2> QED
    BY <2>2, <2>3
<1>3. ASSUME NEW k \in Calls PROVE CallInv(k)'
  <2>1. CASE k = c
    <3>1. call'[c] = "rejoin" /\ Unfinished(c)' = Unfinished(c)
      BY DEF TypeOK, GatherRaises, Unfinished
    <3>2. \A t \in ChunkTasks(c) : pending'[t] \/ task'[t] \in Finished \cup {"draining"}
      BY <1>c, <1>p DEF GatherRaises, Unfinished
    <3> QED
      BY <1>c, <1>e, <2>1, <3>1, <3>2 DEF GatherRaises, CallInv
  <2>2. CASE k # c
    <3>0. <<k, Refs>> \in Tasks \ Unfinished(c)
      BY <1>u, TaskShape
    <3>1. \A t \in ChunkTasks(k) : t \in Tasks \ Unfinished(c)
      BY <1>u, <2>2, TaskShape
    <3>2. call'[k] = call[k] /\ CallInv(k) /\ Unfinished(k)' = Unfinished(k)
      BY <2>2 DEF TypeOK, GatherRaises, Unfinished
    <3> QED
      BY <1>p, <3>0, <3>1, <3>2 DEF GatherRaises, CallInv
  <2> QED
    BY <2>1, <2>2
<1>4. SlotsCapped'
  BY DEF GatherRaises, SlotsCapped, SlotHolders
<1> QED
  BY <1>1, <1>2, <1>3, <1>4

LEMMA CallerCancelsInv ==
  ASSUME IInv, NEW c \in Calls, CallerCancels(c)
  PROVE  IInv'
<1> USE DEF IInv
<1> DEFINE Hit == IF call[c] = "ensure" THEN {<<c, Refs>>} ELSE Unfinished(c)
<1>c. /\ CallInv(c) /\ call[c] \in {"ensure", "gather", "rejoin"}
      /\ ChunkTasks(c) \subseteq Tasks /\ <<c, Refs>> \in Tasks
  BY TaskShape DEF CallerCancels
<1>p. \A t \in Tasks : pending'[t] <=> pending[t] \/ t \in Hit
  BY DEF CallerCancels
<1>u. ASSUME NEW t \in Hit PROVE t \in Tasks /\ t[1] = c /\ task[t] \in Busy
  <2>1. CASE call[c] = "ensure"
    BY <1>c, <2>1 DEF CallInv
  <2>2. CASE call[c] # "ensure"
    <3>1. t \in ChunkTasks(c) /\ task[t] \notin Finished
      BY <2>2 DEF Unfinished
    <3>2. task[t] # "absent"
      BY <1>c, <2>2, <3>1, TaskShape DEF CallInv, UnitInv, Finished, Busy
    <3> QED
      BY <1>c, <3>1, <3>2, TaskShape DEF TypeOK, Busy
  <2> QED
    BY <2>1, <2>2
<1>n. asked'[c] = TRUE /\ \A k \in Calls \ {c} : asked'[k] = asked[k]
  BY DEF TypeOK, CallerCancels
<1>g. Gentle(c)' => OneChunk(c) /\ ~asked[c] /\ MaxCancels <= 1
  BY <1>n, <1>c, BoundsAreNat DEF TypeOK, CallerCancels, Gentle, CallInv
<1>1. TypeOK'
  BY BoundsAreNat DEF TypeOK, CallerCancels
<1>2. ASSUME NEW t \in Tasks PROVE UnitInv(t)'
  <2>1. UnitInv(t) /\ t[1] \in Calls
    BY TaskShape
  <2>2. CASE t \in Hit
    <3>1. Gentle(c)' => task[t] # "draining"
      <4>1. CASE call[c] \in {"ensure", "gather"}
        BY <1>c, <1>g, <2>2, <4>1 DEF CallInv, Unfinished
      <4>2. CASE call[c] = "rejoin"
        <5>1. t \in Unfinished(c) /\ Unfinished(c) # ChunkTasks(c)
          BY <1>c, <2>2, <4>2 DEF CallInv
        <5>2. ~OneChunk(c)
          BY <5>1, OneChunkTask DEF Unfinished
        <5> QED
          BY <5>2, <1>g
      <4> QED
        BY <1>c, <4>1, <4>2
    <3>2. t[1] = c /\ task[t] \in Busy
      BY <1>u, <2>2
    <3>3. Gentle(c)' => Gentle(c)
      BY <1>g DEF Gentle
    <3> QED
      BY <2>1, <3>1, <3>2, <3>3 DEF CallerCancels, UnitInv, Busy
  <2>3. CASE t \notin Hit
    <3>1. pending'[t] <=> pending[t]
      BY <1>p, <2>3
    <3>2. Gentle(t[1])' => Gentle(t[1])
      BY <1>g, <1>n, <2>1 DEF Gentle
    <3> QED
      BY <2>1, <3>1, <3>2 DEF CallerCancels, UnitInv
  <2> QED
    BY <2>2, <2>3
<1>3. ASSUME NEW k \in Calls PROVE CallInv(k)'
  <2>1. /\ CallInv(k) /\ Unfinished(k)' = Unfinished(k)
        /\ <<k, Refs>> \in Tasks /\ ChunkTasks(k) \subseteq Tasks
        /\ cancels \in Nat /\ cancels' = cancels + 1
    BY TaskShape, BoundsAreNat DEF TypeOK, CallerCancels, Unfinished
  <2>2. CASE k = c
    BY <1>c, <1>n, <1>p, <2>1, <2>2 DEF CallerCancels, CallInv
  <2>3. CASE k # c
    <3>0. <<k, Refs>> \notin Hit
      BY <1>u, <2>3
    <3>1. \A t \in ChunkTasks(k) : t \in Tasks \ Hit
      BY <1>u, <2>3, TaskShape
    <3>2. pending'[<<k, Refs>>] <=> pending[<<k, Refs>>]
      BY <1>p, <2>1, <3>0
    <3>3. \A t \in ChunkTasks(k) : pending'[t] <=> pending[t]
      BY <1>p, <3>1
    <3>4. asked'[k] <=> asked[k]
      BY <1>n, <2>3
    <3> QED
      BY <2>1, <3>2, <3>3, <3>4 DEF CallerCancels, CallInv
  <2> QED
    BY <2>2, <2>3
<1>4. SlotsCapped'
  BY DEF CallerCancels, SlotsCapped, SlotHolders
<1> QED
  BY <1>1, <1>2, <1>3, <1>4

-----------------------------------------------------------------------------
LEMMA StepInv == IInv /\ [Next]_vars => IInv'
<1> SUFFICES ASSUME IInv, [Next]_vars PROVE IInv'
  OBVIOUS
<1>1. ASSUME NEW c \in Calls, Start(c) PROVE IInv'
  BY <1>1, StartInv
<1>2. ASSUME NEW c \in Calls, CallStep(c) PROVE IInv'
  BY <1>2, GatherReturnsInv, GatherRaisesInv, RejoinInv DEF CallStep
<1>3. ASSUME NEW c \in Calls, CallerCancels(c) PROVE IInv'
  BY <1>3, CallerCancelsInv
<1>4. ASSUME NEW t \in Tasks, TaskStep(t) PROVE IInv'
  BY <1>4, SubmitInv, TxEndsInv, ResumeInv, BackoffEndsInv, CancelledInv, DrainedInv
  DEF TaskStep
<1>5. CASE UNCHANGED vars
  BY <1>5 DEF vars, IInv, TypeOK, UnitInv, CallInv, SlotsCapped, SlotHolders, Gentle,
              Unfinished
<1> QED
  BY <1>1, <1>2, <1>3, <1>4, <1>5 DEF Next

LEMMA Invariance == Spec => []IInv
BY InitInv, StepInv, PTL DEF Spec

\* Every variable stays in its set.
THEOREM TypeCorrect == Spec => []TypeOK
<1>1. IInv => TypeOK
  BY DEF IInv
<1> QED
  BY <1>1, Invariance, PTL

\* A call that returns has committed its refs and all its chunks.
THEOREM ReturnedCallsCommitted == Spec => []ReturnedMeansCommitted
<1>1. ASSUME IInv, NEW t \in Tasks, call[t[1]] = "returned"
      PROVE  tx[t] = "committed"
  <2>1. CallInv(t[1]) /\ (t[2] = Refs \/ t \in ChunkTasks(t[1]))
    BY <1>1, TaskShape DEF IInv
  <2>2. task[t] = "done"
    BY <1>1, <2>1, TaskShape DEF CallInv
  <2> QED
    BY <1>1, <2>2 DEF IInv, UnitInv
<1>2. IInv => ReturnedMeansCommitted
  BY <1>1 DEF ReturnedMeansCommitted
<1> QED
  BY <1>2, Invariance, PTL

\* A chunk's transaction starts after its call's refs are committed.
THEOREM RefsComeFirst == Spec => []RefsBeforeChunks
<1>1. ASSUME IInv, NEW t \in AllChunks, tx[t] # "none"
      PROVE  tx[<<t[1], Refs>>] = "committed"
  <2>1. /\ t \in Tasks /\ t[1] \in Calls /\ t \in ChunkTasks(t[1])
        /\ <<t[1], Refs>> \in Tasks
    BY TaskShape
  <2>2. task[t] # "absent" /\ CallInv(t[1])
    BY <1>1, <2>1 DEF IInv, UnitInv
  <2>3. task[<<t[1], Refs>>] = "done"
    BY <1>1, <2>1, <2>2 DEF IInv, TypeOK, CallInv, Ended
  <2> QED
    BY <1>1, <2>1, <2>3 DEF IInv, UnitInv
<1>2. IInv => RefsBeforeChunks
  BY <1>1 DEF RefsBeforeChunks
<1> QED
  BY <1>2, Invariance, PTL

\* Once a call has seen a failure, no transaction of it starts any more.
THEOREM FailedCallsStartNoMore == Spec => NoStartAfterFailure
<1>1. ASSUME IInv, [Next]_vars, NEW t \in Tasks, tx[t] # "running", tx'[t] = "running"
      PROVE  call[t[1]] \in {"ensure", "gather"}
  <2>1. Submit(t)
    <3>1. ASSUME NEW c \in Calls, Start(c) \/ CallStep(c) \/ CallerCancels(c)
          PROVE  FALSE
      BY <1>1, <3>1
      DEF Start, CallStep, GatherReturns, GatherRaises, Rejoin, CallerCancels
    <3>2. ASSUME NEW u \in Tasks, TaskStep(u), ~Submit(u) PROVE FALSE
      BY <1>1, <3>2 DEF IInv, TypeOK, TaskStep, TxEnds, TxOver, Resume, BackoffEnds,
                        Cancelled, Drained
    <3>3. ASSUME NEW u \in Tasks, Submit(u) PROVE u = t
      BY <1>1, <3>3 DEF IInv, TypeOK, Submit
    <3> QED
      BY <1>1, <3>1, <3>2, <3>3 DEF Next, vars
  <2>2. task[t] = "waiting" /\ ~pending[t] /\ t[1] \in Calls
    BY <2>1, TaskShape DEF Submit
  <2>3. /\ t[2] = Refs => call[t[1]] = "ensure"
        /\ t[2] # Refs => call[t[1]] \in {"gather", "rejoin"}
    BY <1>1, <2>2, BusyUnits DEF Busy
  <2>4. call[t[1]] # "rejoin"
    BY <1>1, <2>2, <2>3, TaskShape DEF IInv, CallInv, Finished
  <2> QED
    BY <2>3, <2>4
<1>2. IInv /\ [Next]_vars =>
        [\A t \in Tasks :
           tx[t] # "running" /\ tx'[t] = "running"
             => call[t[1]] \in {"ensure", "gather"}]_vars
  BY <1>1
<1> QED
  BY <1>2, Invariance, PTL DEF Spec, NoStartAfterFailure

\* A call whose caller is not cancelled raises or returns only when none of its
\* transactions can still commit, whatever failed and however often it conflicted.
QuietUnlessAsked ==
  \A t \in Tasks : call[t[1]] \in Ended /\ ~asked[t[1]] => tx[t] # "running"

LEMMA GentleCallsEndQuietly ==
  ASSUME IInv, NEW t \in Tasks, call[t[1]] \in Ended, Gentle(t[1])
  PROVE  tx[t] # "running"
<1>1. CallInv(t[1]) /\ UnitInv(t)
  BY TaskShape DEF IInv
<1>2. task[t] \in Finished \cup {"absent"}
  BY <1>1, TaskShape DEF CallInv, Ended, Finished
<1> QED
  BY <1>1, <1>2 DEF UnitInv, Finished

\* The docstring of _run_sync_shielded holds for every call that nobody has asked to
\* stop.
THEOREM FailedCallsEndQuietly == Spec => []QuietUnlessAsked
<1>1. IInv => QuietUnlessAsked
  BY GentleCallsEndQuietly DEF QuietUnlessAsked, Gentle
<1> QED
  BY <1>1, Invariance, PTL

\* No unit is cancelled twice: the calls whose caller may be cancelled, once,
\* have no second chunk.
CancelledOnce == MaxCancels <= 1 /\ \A c \in Cancellable : OneChunk(c)

LEMMA AllGentle ==
  ASSUME IInv, CancelledOnce, NEW c \in Calls
  PROVE  Gentle(c)
BY DEF IInv, CallInv, CancelledOnce, Gentle

\* Where no unit is cancelled twice, nothing commits after its call has ended.
THEOREM EndedCallsStayQuiet == CancelledOnce => (Spec => []EndedCallsAreQuiet)
<1> SUFFICES ASSUME CancelledOnce PROVE Spec => []EndedCallsAreQuiet
  OBVIOUS
<1>1. IInv => EndedCallsAreQuiet
  BY AllGentle, GentleCallsEndQuietly, TaskShape DEF EndedCallsAreQuiet
<1> QED
  BY <1>1, Invariance, PTL

\* Where no unit is cancelled twice, the semaphore caps the transactions in flight.
THEOREM SlotsCapFlight == CancelledOnce => (Spec => []InFlightCapped)
<1> SUFFICES ASSUME CancelledOnce PROVE Spec => []InFlightCapped
  OBVIOUS
<1> DEFINE Flying == {t \in AllChunks : tx[t] = "running"}
<1>1. ASSUME IInv PROVE Flying \subseteq SlotHolders
  <2>1. ASSUME NEW t \in Flying PROVE t \in SlotHolders
    <3>1. t \in Tasks /\ t[1] \in Calls /\ t \in AllChunks /\ tx[t] = "running"
      BY TaskShape
    <3>2. UnitInv(t) /\ Gentle(t[1])
      BY <1>1, <3>1, AllGentle DEF IInv
    <3>3. task[t] \in TaskStates
      BY <1>1, <3>1 DEF IInv, TypeOK, TaskStates, Busy
    <3> QED
      BY <3>1, <3>2, <3>3 DEF UnitInv, TaskStates, Busy, Finished, SlotHolders
  <2> QED
    BY <2>1
<1>2. ASSUME IInv PROVE Cardinality(Flying) <= Concurrency
  BY <1>1, <1>2, FS_Subset, FS_CardinalityType, BoundsAreNat DEF IInv, SlotsCapped
<1>3. IInv => InFlightCapped
  BY <1>2 DEF InFlightCapped
<1> QED
  BY <1>3, Invariance, PTL
=============================================================================
