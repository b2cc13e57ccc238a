------------------------------ MODULE TypeDBBatch ------------------------------
(***************************************************************************)
(* How the TypeDB adapter runs one batch write: ref entities first, then   *)
(* one asyncio task per chunk, each of which runs its transaction in a     *)
(* worker thread.  The event loop and the threads interleave freely; a     *)
(* transaction in a thread cannot be interrupted, so a cancelled task      *)
(* waits for it (_run_sync_shielded).  Calls share one semaphore.          *)
(*                                                                         *)
(* asyncio's rules, from which the code's behaviour follows: gather raises *)
(* at its first failed or cancelled child and leaves the others running;   *)
(* cancelling a gather cancels its children; a cancellation is delivered   *)
(* at the await the task is in, before that task makes any other step.     *)
(***************************************************************************)
EXTENDS Integers, FiniteSets

CONSTANTS
  Calls,       \* concurrent batch calls of one adapter: each is the set of its chunks
  Refs,        \* names the transaction that puts a call's ref entities
  Concurrency, \* WRITE_CONCURRENCY
  Cancellable, \* calls whose caller may be cancelled
  MaxTries,    \* bound: attempts of one transaction (the conflict budget)
  MaxCancels   \* bound: cancellations by callers

ASSUME RefsIsNoChunk == \A c \in Calls : Refs \notin c
ASSUME CancellableAreCalls == Cancellable \subseteq Calls
ASSUME BoundsAreNat ==
  Concurrency \in Nat \ {0} /\ MaxTries \in Nat \ {0} /\ MaxCancels \in Nat

ChunkTasks(c) == {c} \X c
AllChunks == UNION {ChunkTasks(c) : c \in Calls}
Tasks == AllChunks \cup (Calls \X {Refs})

VARIABLES
  call,     \* where each call is
  task,     \* where each unit's coroutine is
  tx,       \* the unit's transaction, in its thread
  pending,  \* a cancellation not yet delivered to the unit's await
  asked,    \* the caller has cancelled the call
  tries,    \* attempts of the unit
  cancels   \* cancellations so far

vars == <<call, task, tx, pending, asked, tries, cancels>>

Ended == {"returned", "raised"}
Finished == {"done", "failed", "cancelled"}
TxOver == {"committed", "conflict", "error"}

TypeOK ==
  /\ call \in [Calls -> {"idle", "ensure", "gather", "rejoin"} \cup Ended]
  /\ task \in [Tasks -> {"absent", "waiting", "attempt", "draining", "backoff"}
                          \cup Finished]
  /\ tx \in [Tasks -> {"none", "running"} \cup TxOver]
  /\ pending \in [Tasks -> BOOLEAN]
  /\ asked \in [Calls -> BOOLEAN]
  /\ tries \in [Tasks -> 0 .. MaxTries]
  /\ cancels \in 0 .. MaxCancels

Init ==
  /\ call = [c \in Calls |-> "idle"]
  /\ task = [t \in Tasks |-> "absent"]
  /\ tx = [t \in Tasks |-> "none"]
  /\ pending = [t \in Tasks |-> FALSE]
  /\ asked = [c \in Calls |-> FALSE]
  /\ tries = [t \in Tasks |-> 0]
  /\ cancels = 0

\* Mutant: a slot is taken and never released.
SlotsTaken == {t \in AllChunks : tries[t] > 0}

\* A chunk holds its slot for the whole attempt, also while it drains.
SlotHolders == {t \in AllChunks : task[t] \in {"attempt", "draining"}}

Unfinished(c) == {t \in ChunkTasks(c) : task[t] \notin Finished}

\* The call ends with its refs transaction, or goes on to its chunks.
AfterUnit(t, outcome) ==
  IF t[2] # Refs
  THEN /\ task' = [task EXCEPT ![t] = outcome]
       /\ UNCHANGED call
  ELSE IF outcome = "done"
  THEN /\ task' = [u \in Tasks |->
                     IF u = t THEN "done"
                     ELSE IF u \in ChunkTasks(t[1]) THEN "waiting" ELSE task[u]]
       /\ call' = [call EXCEPT ![t[1]] = "gather"]
  ELSE /\ task' = [task EXCEPT ![t] = outcome]
       /\ call' = [call EXCEPT ![t[1]] = IF outcome \in Finished THEN "raised" ELSE @]

-----------------------------------------------------------------------------
\* Mutant: the chunk tasks are created without awaiting the refs.
StartTogether(c) ==
  /\ call[c] = "idle"
  /\ call' = [call EXCEPT ![c] = "gather"]
  /\ task' = [t \in Tasks |-> IF t[1] = c THEN "waiting" ELSE task[t]]
  /\ UNCHANGED <<tx, pending, asked, tries, cancels>>

Start(c) ==
  /\ call[c] = "idle"
  /\ call' = [call EXCEPT ![c] = "ensure"]
  /\ task' = [task EXCEPT ![<<c, Refs>>] = "waiting"]
  /\ UNCHANGED <<tx, pending, asked, tries, cancels>>

\* Mutant: chunks do not take a slot.
SubmitWithoutSlot(t) ==
  /\ task[t] = "waiting"
  /\ ~pending[t]
  /\ task' = [task EXCEPT ![t] = "attempt"]
  /\ tx' = [tx EXCEPT ![t] = "running"]
  /\ tries' = [tries EXCEPT ![t] = @ + 1]
  /\ UNCHANGED <<call, pending, asked, cancels>>

\* An attempt starts: the chunk has a slot, the thread its transaction.
Submit(t) ==
  /\ task[t] = "waiting"
  /\ ~pending[t]
  /\ t[2] # Refs => Cardinality(SlotHolders) < Concurrency
  /\ task' = [task EXCEPT ![t] = "attempt"]
  /\ tx' = [tx EXCEPT ![t] = "running"]
  /\ tries' = [tries EXCEPT ![t] = @ + 1]
  /\ UNCHANGED <<call, pending, asked, cancels>>

\* The thread's transaction ends, whatever the event loop is doing.
TxEnds(t, how) ==
  /\ tx[t] = "running"
  /\ tx' = [tx EXCEPT ![t] = how]
  /\ UNCHANGED <<call, task, pending, asked, tries, cancels>>

\* Mutant: a conflict after the budget is taken for success.
ResumeForgiving(t) ==
  /\ task[t] = "attempt"
  /\ ~pending[t]
  /\ \/ tx[t] \in {"committed", "conflict"} /\ AfterUnit(t, "done")
     \/ tx[t] = "error" /\ AfterUnit(t, "failed")
  /\ UNCHANGED <<tx, pending, asked, tries, cancels>>

\* The coroutine sees the outcome: a conflict is retried within the budget,
\* any other error propagates.
Resume(t) ==
  /\ task[t] = "attempt"
  /\ ~pending[t]
  /\ \/ tx[t] = "committed" /\ AfterUnit(t, "done")
     \/ tx[t] = "conflict" /\ tries[t] < MaxTries /\ AfterUnit(t, "backoff")
     \/ tx[t] = "conflict" /\ tries[t] = MaxTries /\ AfterUnit(t, "failed")
     \/ tx[t] = "error" /\ AfterUnit(t, "failed")
  /\ UNCHANGED <<tx, pending, asked, tries, cancels>>

BackoffEnds(t) ==
  /\ task[t] = "backoff"
  /\ ~pending[t]
  /\ task' = [task EXCEPT ![t] = "waiting"]
  /\ UNCHANGED <<call, tx, pending, asked, tries, cancels>>

\* Mutant: no shield, the task ends and leaves its thread behind.
CancelledUnshielded(t) ==
  /\ pending[t]
  /\ pending' = [pending EXCEPT ![t] = FALSE]
  /\ AfterUnit(t, "cancelled")
  /\ UNCHANGED <<tx, asked, tries, cancels>>

\* A cancellation reaches the unit's await.  In an attempt the task catches
\* it and waits for its transaction; that second wait suppresses whatever it
\* raises, a second cancellation too, and the first one goes on.
Cancelled(t) ==
  /\ pending[t]
  /\ pending' = [pending EXCEPT ![t] = FALSE]
  /\ AfterUnit(t, IF task[t] = "attempt" THEN "draining" ELSE "cancelled")
  /\ UNCHANGED <<tx, asked, tries, cancels>>

Drained(t) ==
  /\ task[t] = "draining"
  /\ ~pending[t]
  /\ tx[t] \in TxOver
  /\ AfterUnit(t, "cancelled")
  /\ UNCHANGED <<tx, pending, asked, tries, cancels>>

GatherReturns(c) ==
  /\ call[c] = "gather"
  /\ Unfinished(c) = {}
  /\ \A t \in ChunkTasks(c) : task[t] = "done"
  /\ ~asked[c]
  /\ call' = [call EXCEPT ![c] = "returned"]
  /\ UNCHANGED <<task, tx, pending, asked, tries, cancels>>

\* Mutant: the other tasks are left alone.
GatherRaisesOnly(c) ==
  /\ call[c] = "gather"
  /\ \E t \in ChunkTasks(c) : task[t] \in {"failed", "cancelled"}
  /\ call' = [call EXCEPT ![c] = "rejoin"]
  /\ UNCHANGED <<task, tx, pending, asked, tries, cancels>>

\* The first failure or cancellation: every other task is cancelled.
GatherRaises(c) ==
  /\ call[c] = "gather"
  /\ \/ \E t \in ChunkTasks(c) : task[t] \in {"failed", "cancelled"}
     \/ asked[c] /\ Unfinished(c) = {}
  /\ call' = [call EXCEPT ![c] = "rejoin"]
  /\ pending' = [t \in Tasks |-> pending[t] \/ t \in Unfinished(c)]
  /\ UNCHANGED <<task, tx, asked, tries, cancels>>

\* All tasks have ended: the failure is raised to the caller.
Rejoin(c) ==
  /\ call[c] = "rejoin"
  /\ Unfinished(c) = {}
  /\ call' = [call EXCEPT ![c] = "raised"]
  /\ UNCHANGED <<task, tx, pending, asked, tries, cancels>>

\* The caller's task is cancelled, at the await it is in.
CallerCancels(c) ==
  /\ c \in Cancellable
  /\ call[c] \in {"ensure", "gather", "rejoin"}
  /\ cancels < MaxCancels
  /\ pending' = [t \in Tasks |->
       \/ pending[t]
       \/ call[c] = "ensure" /\ t = <<c, Refs>>
       \/ call[c] # "ensure" /\ t \in Unfinished(c)]
  /\ asked' = [asked EXCEPT ![c] = TRUE]
  /\ cancels' = cancels + 1
  /\ UNCHANGED <<call, task, tx, tries>>

TaskStep(t) ==
  \/ Submit(t)
  \/ \E how \in TxOver : TxEnds(t, how)
  \/ Resume(t)
  \/ BackoffEnds(t)
  \/ Cancelled(t)
  \/ Drained(t)

CallStep(c) == GatherReturns(c) \/ GatherRaises(c) \/ Rejoin(c)

Next ==
  \/ \E c \in Calls : Start(c) \/ CallStep(c) \/ CallerCancels(c)
  \/ \E t \in Tasks : TaskStep(t)

\* The event loop runs what is ready and every server transaction ends;
\* nobody owes a call or a cancellation.
Fairness ==
  /\ \A t \in Tasks : WF_vars(TaskStep(t))
  /\ \A c \in Calls : WF_vars(CallStep(c))

Spec == Init /\ [][Next]_vars
FairSpec == Spec /\ Fairness

-----------------------------------------------------------------------------
\* Once a call has ended, none of its transactions can still commit: "no
\* chunk can commit after cognee's rollback has already looked"
\* (_run_sync_shielded).
EndedCallsAreQuiet ==
  \A t \in Tasks : call[t[1]] \in Ended => tx[t] # "running"

\* A call that returns has committed its refs and all its chunks, whatever
\* was retried or cancelled meanwhile.
ReturnedMeansCommitted ==
  \A t \in Tasks : call[t[1]] = "returned" => tx[t] = "committed"

\* The semaphore caps the chunk transactions in flight across all calls.
InFlightCapped ==
  Cardinality({t \in AllChunks : tx[t] = "running"}) <= Concurrency

\* No chunk transaction runs before the call's refs are committed, so that a
\* chunk's links find them.
RefsBeforeChunks ==
  \A t \in AllChunks : tx[t] # "none" => tx[<<t[1], Refs>>] = "committed"

\* Once a call has seen a failure, no other chunk of it starts: chunks not
\* yet started are cancelled, and those in backoff do not try again.
NoStartAfterFailure ==
  [][\A t \in Tasks :
       tx[t] # "running" /\ tx'[t] = "running" => call[t[1]] \in {"ensure", "gather"}]_vars

\* Every call ends: no task waits for a slot, a backoff or another task
\* forever, with any mix of conflicts, errors and cancellations.
CallsEnd == \A c \in Calls : call[c] # "idle" ~> call[c] \in Ended
=============================================================================
