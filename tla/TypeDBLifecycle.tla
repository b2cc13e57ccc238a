---------------------------- MODULE TypeDBLifecycle ----------------------------
(***************************************************************************)
(* The life of TypeDB adapters (driver, worker pool, cached knowledge of   *)
(* the database) against the database they open and others drop.           *)
(*                                                                         *)
(* Clients are asyncio tasks; what they do between two awaits is one step. *)
(* Their jobs run in worker threads, in steps of their own.  Handles may   *)
(* belong to different processes.  A call whose task is cancelled leaves   *)
(* its job behind: a thread cannot be interrupted.                         *)
(***************************************************************************)
EXTENDS Integers, FiniteSets

CONSTANTS
  Handles,     \* adapters of one database
  Clients,     \* concurrent tasks
  ReadFrom, WrittenTo, Closed, Dropped,
               \* the adapters that calls read, write, close and drop through
  Found,       \* what the server may hold at first
  Cancellable, \* operations whose task may be cancelled
  PoolSize,    \* WRITE_CONCURRENCY + 1 worker threads
  MaxCalls,    \* bound: calls in one behaviour
  MaxCancels,  \* bound: cancellations
  MaxDrops,    \* bound: drops of the database
  None         \* no handle; nobody holds a lock

Ops == {"read", "write", "close", "drop"}

ASSUME AdaptersAreHandles == ReadFrom \cup WrittenTo \cup Closed \cup Dropped \subseteq Handles
ASSUME FoundIsWhole == Found \subseteq {"absent", "ready", "legacy"}
ASSUME CancellableAreOps == Cancellable \subseteq Ops
ASSUME FiniteSystem == IsFiniteSet(Handles) /\ IsFiniteSet(Clients)
ASSUME NoneIsNone == None \notin Clients \cup Handles
ASSUME SizesAreNat ==
  /\ PoolSize \in Nat \ {0}
  /\ {MaxCalls, MaxCancels, MaxDrops} \subseteq Nat

VARIABLES
  srv,      \* the database on the server
  adapter,  \* the adapters' attributes
  open,     \* drivers opened and not yet closed
  dying,    \* those of them whose close() is running in a thread
  pc,       \* the await each client is at
  call,     \* the call it makes
  took,     \* the pool that close() drains, then the driver it closes
  job,      \* the client's job in a worker pool
  calls, cancels, drops

vars == <<srv, adapter, open, dying, pc, call, took, job, calls, cancels, drops>>

\* bare: created, schema not yet defined; legacy: an earlier version's schema
Server == {"absent", "bare", "ready", "legacy"}

\* Pools and drivers have numbers that tell those in use apart; 0 is none.
Ids == Nat \ {0}
Fresh(used) == CHOOSE i \in 1 .. Cardinality(used) + 1 : i \notin used

Unopened == [drv |-> 0, pool |-> 0, closing |-> FALSE, exists |-> FALSE,
             schema |-> FALSE, lock |-> None]
NoCall == [op |-> "none", h |-> None]
NoJob == [kind |-> "none", at |-> "none", pool |-> 0, drv |-> 0]

\* A job is queued, then runs with a driver, then is over with an outcome.
Running == {"using", "create", "recheck", "define"}
Outcomes == {"ok", "absent", "gone", "error"}

TypeOK ==
  /\ srv \in Server
  /\ adapter \in [Handles ->
       [drv : Ids \cup {0}, pool : Ids \cup {0}, closing : BOOLEAN,
        exists : BOOLEAN, schema : BOOLEAN, lock : Clients \cup {None}]]
  /\ open \subseteq Ids
  /\ dying \subseteq open
  /\ pc \in [Clients -> {"idle", "lock", "contains", "read", "provision",
                         "submit", "write", "drop", "drain", "closing", "left"}]
  /\ call \in [Clients -> [op : Ops, h : Handles] \cup {NoCall}]
  /\ took \in [Clients -> Ids \cup {0}]
  /\ job \in [Clients ->
       [kind : {"none", "contains", "read", "provision", "write", "drop"},
        at : {"none", "queued"} \cup Running \cup Outcomes,
        pool : Ids \cup {0}, drv : Ids \cup {0}]]
  /\ calls \in 0 .. MaxCalls
  /\ cancels \in 0 .. MaxCancels
  /\ drops \in 0 .. MaxDrops

Init ==
  /\ srv \in Found
  /\ adapter = [h \in Handles |-> Unopened]
  /\ open = {}
  /\ dying = {}
  /\ pc = [c \in Clients |-> "idle"]
  /\ call = [c \in Clients |-> NoCall]
  /\ took = [c \in Clients |-> 0]
  /\ job = [c \in Clients |-> NoJob]
  /\ calls = 0
  /\ cancels = 0
  /\ drops = 0

Unlocked(a) == [a EXCEPT !.lock = None]
Pools == {adapter[h].pool : h \in Handles} \cup {job[c].pool : c \in Clients}
           \cup {took[c] : c \in Clients}
Drivers == open \cup {took[c] : c \in Clients}

\* Where client c stands when its call is over.
Leaves(c) ==
  /\ pc' = [pc EXCEPT ![c] = "idle"]
  /\ call' = [call EXCEPT ![c] = NoCall]
  /\ job' = [job EXCEPT ![c] = NoJob]

\* A closing adapter opens no new pool.
Refuses(a) == a.pool = 0 /\ a.closing

\* c hands a job to the pool of h, whose attributes are now a: _run_sync.
Enter(c, h, a, kind) ==
  LET p == IF a.pool = 0 THEN Fresh(Pools) ELSE a.pool
  IN  /\ ~Refuses(a)
      /\ pc' = [pc EXCEPT ![c] = kind]
      /\ job' = [job EXCEPT ![c] =
                   [kind |-> kind, at |-> "queued", pool |-> p, drv |-> 0]]
      /\ adapter' = [adapter EXCEPT ![h] = [a EXCEPT !.pool = p]]

-----------------------------------------------------------------------------
(* Clients.  A call that is refused at once changes nothing and is left    *)
(* out.                                                                    *)

Begins(c, op, h) ==
  /\ pc[c] = "idle"
  /\ calls < MaxCalls
  /\ calls' = calls + 1
  /\ call' = [call EXCEPT ![c] = [op |-> op, h |-> h]]
  /\ op = "drop" => drops < MaxDrops
  /\ drops' = IF op = "drop" THEN drops + 1 ELSE drops
  /\ UNCHANGED <<srv, open, dying, took, cancels>>

\* A read asks whether the database exists, unless the adapter knows.
Read(c, h) ==
  /\ Begins(c, "read", h)
  /\ LET a == adapter[h]
     IN  Enter(c, h, a, IF a.schema \/ a.exists THEN "read" ELSE "contains")

\* A write provisions the database first, unless the adapter has.
Write(c, h) ==
  /\ Begins(c, "write", h)
  /\ pc' = [pc EXCEPT ![c] = IF adapter[h].schema THEN "submit" ELSE "lock"]
  /\ UNCHANGED <<adapter, job>>

Close(c, h) ==
  /\ Begins(c, "close", h)
  /\ pc' = [pc EXCEPT ![c] = "lock"]
  /\ UNCHANGED <<adapter, job>>

\* The dataset handler drops the database with an adapter of its own.
Drop(c, h) ==
  /\ Begins(c, "drop", h)
  /\ Enter(c, h, adapter[h], "drop")

\* The adapter's lock is free: a write looks again and provisions, a close
\* marks the adapter closing and takes its pool.
Acquire(c) ==
  LET h == call[c].h
      a == adapter[h]
  IN  /\ pc[c] = "lock"
      /\ a.lock = None
      /\ \/ /\ call[c].op = "write" /\ a.schema
            /\ pc' = [pc EXCEPT ![c] = "submit"]
            /\ UNCHANGED <<adapter, took, job>>
         \/ /\ call[c].op = "write" /\ ~a.schema
            /\ Enter(c, h, [a EXCEPT !.lock = c], "provision")
            /\ UNCHANGED took
         \/ /\ call[c].op = "close"
            /\ pc' = [pc EXCEPT ![c] = "drain"]
            /\ took' = [took EXCEPT ![c] = a.pool]
            /\ adapter' = [adapter EXCEPT
                 ![h] = [a EXCEPT !.lock = c, !.closing = TRUE, !.pool = 0]]
            /\ UNCHANGED job
      /\ UNCHANGED <<srv, open, dying, call, calls, cancels, drops>>

\* The write's own transaction starts one turn of the event loop later
\* (_run_sync_shielded wraps it in a task).
Submit(c) ==
  LET h == call[c].h
  IN  /\ pc[c] = "submit"
      /\ \/ Enter(c, h, adapter[h], "write") /\ UNCHANGED call
         \/ Refuses(adapter[h]) /\ Leaves(c) /\ UNCHANGED adapter
      /\ UNCHANGED <<srv, open, dying, took, calls, cancels, drops>>

\* The client sees its job's outcome.
Resume(c) ==
  LET h == call[c].h
      a == adapter[h]
  IN  /\ job[c].at \in Outcomes
      /\ \/ /\ pc[c] = "contains" /\ job[c].at = "ok"
            /\ Enter(c, h, a, "read")
            /\ UNCHANGED call
         \/ /\ pc[c] = "contains" /\ (job[c].at # "ok" \/ Refuses(a))
            /\ Leaves(c)
            /\ UNCHANGED adapter
         \/ /\ pc[c] = "provision"
            /\ adapter' = [adapter EXCEPT ![h] = Unlocked(a)]
            /\ \/ /\ job[c].at = "ok"
                  /\ pc' = [pc EXCEPT ![c] = "submit"]
                  /\ job' = [job EXCEPT ![c] = NoJob]
                  /\ UNCHANGED call
               \/ job[c].at # "ok" /\ Leaves(c)
         \/ /\ pc[c] \in {"read", "write", "drop", "left"}
            /\ Leaves(c)
            /\ UNCHANGED adapter
      /\ UNCHANGED <<srv, open, dying, took, calls, cancels, drops>>

Drained(p) == \A c \in Clients : job[c].pool = p => job[c].at \in Outcomes

\* Mutant: the driver is taken while the pool still runs.
FinishAtOnce(c) ==
  LET h == call[c].h
      d == adapter[h].drv
  IN  /\ pc[c] = "drain"
      /\ adapter' = [adapter EXCEPT ![h] = [Unopened EXCEPT !.lock = c]]
      /\ pc' = [pc EXCEPT ![c] = "closing"]
      /\ took' = [took EXCEPT ![c] = d]
      /\ dying' = dying \cup ({d} \ {0})
      /\ UNCHANGED <<srv, open, call, job, calls, cancels, drops>>

\* Mutant: what the adapter knew of the database survives.
FinishKnowing(c) ==
  LET h == call[c].h
      a == adapter[h]
  IN  /\ pc[c] = "drain"
      /\ took[c] = 0 \/ Drained(took[c])
      /\ adapter' = [adapter EXCEPT ![h] = [a EXCEPT !.drv = 0, !.closing = FALSE]]
      /\ pc' = [pc EXCEPT ![c] = "closing"]
      /\ took' = [took EXCEPT ![c] = a.drv]
      /\ dying' = dying \cup ({a.drv} \ {0})
      /\ UNCHANGED <<srv, open, call, job, calls, cancels, drops>>

\* Mutant: the adapter is reset and the driver forgotten.
FinishForgetting(c) ==
  LET h == call[c].h
  IN  /\ pc[c] = "drain"
      /\ took[c] = 0 \/ Drained(took[c])
      /\ adapter' = [adapter EXCEPT ![h] = [Unopened EXCEPT !.lock = c]]
      /\ pc' = [pc EXCEPT ![c] = "closing"]
      /\ took' = [took EXCEPT ![c] = 0]
      /\ UNCHANGED <<srv, open, dying, call, job, calls, cancels, drops>>

\* The pool has drained: the adapter is as unopened again, and a thread
\* closes the driver.
Finish(c) ==
  LET h == call[c].h
      d == adapter[h].drv
  IN  /\ pc[c] = "drain"
      /\ took[c] = 0 \/ Drained(took[c])
      /\ adapter' = [adapter EXCEPT
           ![h] = [Unopened EXCEPT !.pool = adapter[h].pool, !.lock = c]]
      /\ pc' = [pc EXCEPT ![c] = "closing"]
      /\ took' = [took EXCEPT ![c] = d]
      /\ dying' = dying \cup ({d} \ {0})
      /\ UNCHANGED <<srv, open, call, job, calls, cancels, drops>>

\* Mutant: the lock is kept.
CloseReturnsLocked(c) ==
  /\ pc[c] = "closing"
  /\ took[c] \notin dying
  /\ Leaves(c)
  /\ took' = [took EXCEPT ![c] = 0]
  /\ UNCHANGED <<srv, adapter, open, dying, calls, cancels, drops>>

CloseReturns(c) ==
  /\ pc[c] = "closing"
  /\ took[c] \notin dying
  /\ Leaves(c)
  /\ took' = [took EXCEPT ![c] = 0]
  /\ adapter' = [adapter EXCEPT ![call[c].h] = Unlocked(@)]
  /\ UNCHANGED <<srv, open, dying, calls, cancels, drops>>

\* The client's task is cancelled.  A job not yet running is withdrawn, a
\* running one is left behind, and a shielded write waits for its own.  A
\* close that is draining resets the adapter and raises before it closes the
\* driver; one that is closing leaves that to the thread.
Cancel(c) ==
  LET h == call[c].h
      a == adapter[h]
  IN  /\ call[c].op \in Cancellable
      /\ cancels < MaxCancels
      /\ cancels' = cancels + 1
      /\ \/ /\ pc[c] = "lock"
            /\ Leaves(c)
            /\ UNCHANGED <<adapter, took>>
         \/ /\ pc[c] \in {"contains", "read", "drop", "provision"}
            /\ adapter' = [adapter EXCEPT
                 ![h] = IF pc[c] = "provision" THEN Unlocked(a) ELSE a]
            /\ \/ job[c].at \in Outcomes \cup {"queued"} /\ Leaves(c)
               \/ /\ job[c].at \in Running
                  /\ pc' = [pc EXCEPT ![c] = "left"]
                  /\ UNCHANGED <<call, job>>
            /\ UNCHANGED took
         \/ /\ pc[c] = "drain"
            /\ Leaves(c)
            /\ took' = [took EXCEPT ![c] = 0]
            /\ adapter' = [adapter EXCEPT ![h] = [Unopened EXCEPT !.pool = a.pool]]
         \/ /\ pc[c] = "closing"
            /\ Leaves(c)
            /\ took' = [took EXCEPT ![c] = 0]
            /\ adapter' = [adapter EXCEPT ![h] = Unlocked(a)]
      /\ UNCHANGED <<srv, open, dying, calls, drops>>

-----------------------------------------------------------------------------
(* Worker threads.                                                         *)

InPool(p) == {c \in Clients : job[c].pool = p /\ job[c].at \in Running}

\* Mutant: a worker opens a driver whatever the adapter is doing.
StartAlways(c) ==
  LET a == adapter[call[c].h]
      d == IF a.drv = 0 THEN Fresh(Drivers) ELSE a.drv
  IN  /\ job[c].at = "queued"
      /\ Cardinality(InPool(job[c].pool)) < PoolSize
      /\ job' = [job EXCEPT ![c].at = "using", ![c].drv = d]
      /\ adapter' = [adapter EXCEPT ![call[c].h].drv = d]
      /\ open' = open \cup {d}
      /\ UNCHANGED <<srv, dying, pc, call, took, calls, cancels, drops>>

\* A worker takes the job and its adapter's driver, opening one if there is
\* none, which a closing adapter refuses.
Start(c) ==
  LET a == adapter[call[c].h]
      d == IF a.drv = 0 THEN Fresh(Drivers) ELSE a.drv
  IN  /\ job[c].at = "queued"
      /\ Cardinality(InPool(job[c].pool)) < PoolSize
      /\ \/ /\ a.drv # 0 \/ ~a.closing
            /\ job' = [job EXCEPT ![c].at = "using", ![c].drv = d]
            /\ adapter' = [adapter EXCEPT ![call[c].h].drv = d]
            /\ open' = open \cup {d}
         \/ /\ a.drv = 0 /\ a.closing
            /\ job' = [job EXCEPT ![c].at = "error"]
            /\ UNCHANGED <<adapter, open>>
      /\ UNCHANGED <<srv, dying, pc, call, took, calls, cancels, drops>>

\* The job of c goes on to, or is over with, at.
Turns(c, at) ==
  /\ job' = [job EXCEPT ![c].at = at]
  /\ UNCHANGED <<open, dying, pc, call, took, calls, cancels, drops>>

Learns(c, exists, schema) ==
  adapter' = [adapter EXCEPT ![call[c].h].exists = exists, ![call[c].h].schema = schema]

Contains(c) ==
  /\ job[c].kind = "contains" /\ job[c].at = "using"
  /\ Turns(c, IF srv = "absent" THEN "absent" ELSE "ok")
  /\ Learns(c, srv # "absent", adapter[call[c].h].schema)
  /\ UNCHANGED srv

\* A read or write transaction: an error without its database or its types.
Transact(c) ==
  /\ job[c].kind \in {"read", "write"} /\ job[c].at = "using"
  /\ Turns(c, CASE srv = "absent" -> "gone" [] srv = "bare" -> "error" [] OTHER -> "ok")
  /\ UNCHANGED <<srv, adapter>>

DropDatabase(c) ==
  /\ job[c].kind = "drop" /\ job[c].at = "using"
  /\ Turns(c, "ok")
  /\ srv' = "absent"
  /\ UNCHANGED adapter

\* Mutant: a database that exists is taken for a ready one.
LookUpTrusting(c) ==
  /\ job[c].kind = "provision" /\ job[c].at = "using"
  /\ Turns(c, IF srv = "absent" THEN "create" ELSE "ok")
  /\ Learns(c, srv # "absent", srv # "absent")
  /\ UNCHANGED srv

\* Provisioning: does the database exist?  An earlier version's is refused.
LookUp(c) ==
  /\ job[c].kind = "provision" /\ job[c].at = "using"
  /\ Turns(c, CASE srv = "absent" -> "create" [] srv = "legacy" -> "error"
                [] OTHER -> "define")
  /\ UNCHANGED <<srv, adapter>>

\* Creating it fails when another creator was first.
Create(c) ==
  /\ job[c].at = "create"
  /\ Turns(c, IF srv = "absent" THEN "define" ELSE "recheck")
  /\ srv' = IF srv = "absent" THEN "bare" ELSE srv
  /\ UNCHANGED adapter

Recheck(c) ==
  /\ job[c].at = "recheck"
  /\ Turns(c, IF srv = "absent" THEN "error" ELSE "define")
  /\ UNCHANGED <<srv, adapter>>

Define(c) ==
  /\ job[c].at = "define"
  /\ \/ /\ srv = "absent"
        /\ Turns(c, "error")
        /\ UNCHANGED <<srv, adapter>>
     \/ /\ srv # "absent"
        /\ Turns(c, "ok")
        /\ srv' = "ready"
        /\ Learns(c, TRUE, TRUE)

\* Any other error of the server or the connection.
JobFails(c) ==
  /\ job[c].at \in Running
  /\ Turns(c, "error")
  /\ UNCHANGED <<srv, adapter>>

DriverCloses(d) ==
  /\ d \in dying
  /\ open' = open \ {d}
  /\ dying' = dying \ {d}
  /\ UNCHANGED <<srv, adapter, pc, call, took, job, calls, cancels, drops>>

CallBegins(c) ==
  \/ \E h \in ReadFrom : Read(c, h)
  \/ \E h \in WrittenTo : Write(c, h)
  \/ \E h \in Closed : Close(c, h)
  \/ \E h \in Dropped : Drop(c, h)

ClientStep(c) == Submit(c) \/ Resume(c) \/ Finish(c) \/ CloseReturns(c)

WorkerStep(c) ==
  \/ Contains(c) \/ Transact(c) \/ DropDatabase(c)
  \/ LookUp(c) \/ Create(c) \/ Recheck(c) \/ Define(c) \/ JobFails(c)

Progress(c) == Acquire(c) \/ ClientStep(c) \/ Start(c) \/ WorkerStep(c)

Next ==
  \/ \E c \in Clients :
       CallBegins(c) \/ Progress(c) \/ Cancel(c)
  \/ \E d \in dying : DriverCloses(d)

\* The event loop and the threads run, and the server answers; nobody owes a
\* call or a cancellation.  The lock and the pool serve their waiters in
\* order: with the calls bounded, weak fairness says no more than that.
Fairness ==
  /\ \A c \in Clients : WF_vars(Progress(c))
  /\ WF_vars(\E d \in dying : DriverCloses(d))

Spec == Init /\ [][Next]_vars
FairSpec == Spec /\ Fairness

-----------------------------------------------------------------------------
(* Properties.                                                             *)

\* No driver is lost: each one open is the driver of an adapter, or being
\* closed.  A worker queued behind close() must not "leave a fresh driver
\* behind" (_closing).
NoDriverLeft ==
  open \subseteq {adapter[h].drv : h \in Handles} \cup dying

\* Close waits for the work in flight: no transaction of a running job has
\* its driver closed under it.
WorkersHaveTheirDriver ==
  \A c \in Clients : job[c].at \in Running => job[c].drv \in open \ dying

\* What an adapter knows of the database goes with the driver it learnt it
\* through, so an evicted handle asks the server again.
KnowledgeGoesWithDriver ==
  \A h \in Handles : adapter[h].exists \/ adapter[h].schema => adapter[h].drv # 0

\* While no one drops the database, a write's transaction finds its schema
\* defined, whichever of several racing creators created the database.
WritesFindSchema ==
  drops = 0 => \A c \in Clients :
    job[c].kind = "write" /\ job[c].at = "using" => srv = "ready"

\* No driver opens while a close drains the pool it took: "no new driver or
\* pool may open" (_closing).
NoDriverWhileDraining ==
  [][\A c \in Clients :
       job[c].at = "queued" /\ job'[c].at = "using" /\ job[c].pool # adapter[call[c].h].pool
         => open' = open]_vars

\* Every call ends, a close that waits for the pool and a write that waits
\* for the lock included.
CallsEnd == \A c \in Clients : pc[c] # "idle" ~> pc[c] = "idle"
=============================================================================
