------------------------- MODULE TypeDBLifecycleProofs -------------------------
(***************************************************************************)
(* Theorems of TypeDBLifecycle, for any adapters, clients, pool sizes and  *)
(* numbers of calls, cancellations and drops.                              *)
(*                                                                         *)
(* ClientsInv says what a client's await means for its call and its job.   *)
(* SchemaInv follows what provisioning knows of the server.  DriversInv    *)
(* ties drivers, pools and the lock together and needs that no close() is  *)
(* cancelled: CloseRuns.  A cancelled one resets the adapter while its     *)
(* pool drains, and NoDriverWhileDraining fails then.                      *)
(***************************************************************************)
EXTENDS TypeDBLifecycle, FiniteSetTheorems, TLAPS

CloseRuns == "close" \notin Cancellable

\* What the await client c is at says of its call and its job.
ClientInv(c) ==
  /\ pc[c] # "idle" => call[c] # NoCall
  /\ pc[c] \in {"idle", "lock", "submit", "drain", "closing"} => job[c] = NoJob
  /\ pc[c] \in {"contains", "read", "provision", "write", "drop"} =>
       job[c].kind = pc[c] /\ job[c].at # "none"
  /\ pc[c] = "left" =>
       /\ job[c].kind \in {"contains", "read", "provision", "drop"}
       /\ job[c].at \in Running \cup Outcomes
  /\ pc[c] \in {"drain", "closing"} => call[c].op = "close"
  /\ job[c].kind = "drop" => call[c].op = "drop"
  /\ call[c].op = "drop" => drops > 0
  /\ job[c].at \in {"create", "recheck", "define"} => job[c].kind = "provision"
  /\ job[c].at # "none" => job[c].pool # 0

\* An adapter's driver is open, not being closed, and no other adapter's.
OwnDriver(h) ==
  adapter[h].drv # 0 =>
    /\ adapter[h].drv \in open \ dying
    /\ \A k \in Handles \ {h} : adapter[k].drv # adapter[h].drv

ClientsInv ==
  /\ TypeOK
  /\ IsFiniteSet(open)
  /\ \A c \in Clients : ClientInv(c)
  /\ \A h \in Handles : OwnDriver(h)

\* What has been learnt about the schema stays true while nobody drops it.
SchemaInv ==
  /\ \A c \in Clients : job[c].at \in {"create", "recheck", "define"} => srv # "legacy"
  /\ drops = 0 =>
       /\ \A h \in Handles : adapter[h].schema => srv = "ready"
       /\ \A c \in Clients : pc[c] \in {"submit", "write"} => srv = "ready"
       /\ \A c \in Clients :
            job[c].kind = "provision" /\ job[c].at = "ok" => srv = "ready"

\* The lock of an adapter is held from one await to the next, and a draining
\* close keeps its adapter from opening a pool.
LockInv(c) ==
  /\ pc[c] \in {"provision", "drain", "closing"} => adapter[call[c].h].lock = c
  /\ pc[c] = "drain" => adapter[call[c].h].closing /\ adapter[call[c].h].pool = 0

\* A job at work has the driver of its adapter, and its pool is the adapter's or
\* the one that a close is draining.
JobInv(c) ==
  /\ job[c].at \in Running =>
       job[c].drv = adapter[call[c].h].drv /\ job[c].drv # 0
  /\ job[c].at \in Running \cup {"queued"} =>
       \/ job[c].pool = adapter[call[c].h].pool
       \/ \E k \in Clients :
            pc[k] = "drain" /\ call[k].h = call[c].h /\ took[k] = job[c].pool

\* What is known through a driver goes with it; only a draining adapter is closing.
AdapterInv(h) ==
  /\ adapter[h].exists \/ adapter[h].schema => adapter[h].drv # 0
  /\ adapter[h].closing => \E c \in Clients : pc[c] = "drain" /\ call[c].h = h

DriversInv ==
  /\ \A d \in open : d \in dying \/ \E h \in Handles : adapter[h].drv = d
  /\ \A c \in Clients : LockInv(c) /\ JobInv(c)
  /\ \A h \in Handles : AdapterInv(h)

-----------------------------------------------------------------------------
Adapters == [drv : Ids \cup {0}, pool : Ids \cup {0}, closing : BOOLEAN,
             exists : BOOLEAN, schema : BOOLEAN, lock : Clients \cup {None}]
Jobs == [kind : {"none", "contains", "read", "provision", "write", "drop"},
         at : {"none", "queued"} \cup Running \cup Outcomes,
         pool : Ids \cup {0}, drv : Ids \cup {0}]
Awaits == {"idle", "lock", "contains", "read", "provision", "submit", "write", "drop",
           "drain", "closing", "left"}

\* A fresh number is one that is not in use.
LEMMA FreshIsFresh ==
  ASSUME NEW used, IsFiniteSet(used)
  PROVE  Fresh(used) \in Ids /\ Fresh(used) \notin used
<1> DEFINE n == Cardinality(used)
<1>1. n \in Nat
  BY FS_CardinalityType
<1>2. \E i \in 1 .. n + 1 : i \notin used
  <2>1. SUFFICES ASSUME 1 .. n + 1 \subseteq used PROVE FALSE
    OBVIOUS
  <2>2. Cardinality(1 .. n + 1) <= n
    BY <2>1, FS_Subset
  <2>3. Cardinality(1 .. n + 1) = n + 1
    BY <1>1, FS_Interval
  <2> QED
    BY <1>1, <2>2, <2>3
<1>3. Fresh(used) \in 1 .. n + 1 /\ Fresh(used) \notin used
  BY <1>2 DEF Fresh
<1> QED
  BY <1>1, <1>3 DEF Ids

\* A function of finitely many arguments has finitely many values.
LEMMA FiniteImage ==
  ASSUME NEW S, IsFiniteSet(S), NEW T, NEW f \in [S -> T],
         NEW R, \A r \in R : \E x \in S : f[x] = r, \A x \in S : f[x] \in R
  PROVE  IsFiniteSet(R)
<1>1. f \in [S -> R]
  OBVIOUS
<1>2. f \in Surjection(S, R)
  BY <1>1 DEF Surjection
<1> QED
  BY <1>2, FS_Surjection

\* The pools and the drivers in use are finitely many.
LEMMA UsedAreFinite ==
  ASSUME TypeOK, IsFiniteSet(open)
  PROVE  IsFiniteSet(Pools) /\ IsFiniteSet(Drivers)
<1>1. IsFiniteSet({adapter[h].pool : h \in Handles})
  <2>1. PICK f \in [Handles -> Ids \cup {0}] : \A h \in Handles : f[h] = adapter[h].pool
    <3>1. [h \in Handles |-> adapter[h].pool] \in [Handles -> Ids \cup {0}]
      BY DEF TypeOK
    <3> QED
      BY <3>1
  <2>2. /\ \A r \in {adapter[h].pool : h \in Handles} : \E h \in Handles : f[h] = r
        /\ \A h \in Handles : f[h] \in {adapter[k].pool : k \in Handles}
    BY <2>1
  <2> QED
    BY <2>2, FiniteImage, FiniteSystem
<1>2. IsFiniteSet({job[c].pool : c \in Clients})
  <2>1. PICK f \in [Clients -> Ids \cup {0}] : \A c \in Clients : f[c] = job[c].pool
    <3>1. [c \in Clients |-> job[c].pool] \in [Clients -> Ids \cup {0}]
      BY DEF TypeOK
    <3> QED
      BY <3>1
  <2> QED
    BY <2>1, FiniteImage, FiniteSystem
<1>3. IsFiniteSet({took[c] : c \in Clients})
  <2>1. took \in [Clients -> Ids \cup {0}]
    BY DEF TypeOK
  <2> QED
    BY <2>1, FiniteImage, FiniteSystem
<1> QED
  BY <1>1, <1>2, <1>3, FS_Union DEF Pools, Drivers

\* A job enters the adapter's pool, or a new one that a closing adapter refuses.
LEMMA EnterPool ==
  ASSUME ClientsInv, NEW c \in Clients, NEW h \in Handles, NEW a \in Adapters, NEW kind,
         Enter(c, h, a, kind)
  PROVE  \E p \in Ids :
           /\ a.pool # 0 => p = a.pool
           /\ a.pool = 0 => ~a.closing
           /\ pc' = [pc EXCEPT ![c] = kind]
           /\ job' = [job EXCEPT ![c] =
                        [kind |-> kind, at |-> "queued", pool |-> p, drv |-> 0]]
           /\ adapter' = [adapter EXCEPT ![h] = [a EXCEPT !.pool = p]]
<1>1. Fresh(Pools) \in Ids
  BY FreshIsFresh, UsedAreFinite DEF ClientsInv
<1>2. CASE a.pool = 0
  BY <1>1, <1>2 DEF Enter, Refuses
<1>3. CASE a.pool # 0
  BY <1>3 DEF Enter, Refuses, Adapters
<1> QED
  BY <1>2, <1>3

-----------------------------------------------------------------------------
\* A step of one client leaves what is known of the others.
LEMMA OneClientMoves ==
  ASSUME ClientsInv, NEW c \in Clients, TypeOK', IsFiniteSet(open'), ClientInv(c)',
         \A h \in Handles : OwnDriver(h)',
         \A k \in Clients \ {c} :
           pc'[k] = pc[k] /\ call'[k] = call[k] /\ job'[k] = job[k],
         drops' \in {drops, drops + 1}
  PROVE  ClientsInv'
<1>1. ASSUME NEW k \in Clients \ {c} PROVE ClientInv(k)'
  <2>1. ClientInv(k) /\ drops \in Nat
    BY SizesAreNat DEF ClientsInv, TypeOK
  <2> QED
    BY <2>1 DEF ClientInv
<1> QED
  BY <1>1 DEF ClientsInv

\* Drivers stay an adapter's own when none is opened or closed.
LEMMA KeepDrivers ==
  ASSUME ClientsInv, UNCHANGED <<open, dying>>,
         \A h \in Handles : adapter'[h].drv \in {adapter[h].drv, 0}
  PROVE  \A h \in Handles : OwnDriver(h)'
BY DEF ClientsInv, OwnDriver

\* A call of op on h begins, at the await where with job j.
LEMMA BeginsClients ==
  ASSUME ClientsInv, NEW c \in Clients, NEW h \in Handles, NEW op \in Ops, Begins(c, op, h),
         NEW where \in Awaits, pc' = [pc EXCEPT ![c] = where],
         NEW j \in Jobs, job' = [job EXCEPT ![c] = j],
         adapter' \in [Handles -> Adapters],
         \A k \in Handles : adapter'[k].drv = adapter[k].drv,
         \/ where \in {"lock", "submit"} /\ j = NoJob
         \/ /\ where \in {"contains", "read", "drop"} /\ j.kind = where
            /\ j.at = "queued" /\ j.pool # 0 /\ (where = "drop" => op = "drop")
  PROVE  ClientsInv'
<1>1. TypeOK'
  <2>1. drops' \in 0 .. MaxDrops /\ calls' \in 0 .. MaxCalls
    BY SizesAreNat DEF ClientsInv, TypeOK, Begins
  <2>2. call' \in [Clients -> [op : Ops, h : Handles] \cup {NoCall}]
    BY DEF ClientsInv, TypeOK, Begins
  <2> QED
    BY <2>1, <2>2 DEF ClientsInv, TypeOK, Begins, Awaits, Jobs, Adapters
<1>2. ClientInv(c)'
  <2>1. call'[c] = [op |-> op, h |-> h] /\ call'[c] # NoCall
    BY NoneIsNone DEF ClientsInv, TypeOK, Begins, NoCall
  <2>2. pc'[c] = where /\ job'[c] = j
    BY DEF ClientsInv, TypeOK
  <2>3. op = "drop" => drops' > 0
    BY SizesAreNat DEF ClientsInv, TypeOK, Begins
  <2> QED
    BY <2>1, <2>2, <2>3 DEF ClientInv, NoJob
<1>3. \A k \in Handles : OwnDriver(k)'
  BY KeepDrivers DEF Begins
<1> QED
  BY <1>1, <1>2, <1>3, OneClientMoves DEF ClientsInv, TypeOK, Begins

LEMMA ReadClients ==
  ASSUME ClientsInv, NEW c \in Clients, NEW h \in Handles, Read(c, h)
  PROVE  ClientsInv'
<1> DEFINE kind == IF adapter[h].schema \/ adapter[h].exists THEN "read" ELSE "contains"
<1>1. adapter[h] \in Adapters
  BY DEF ClientsInv, TypeOK, Adapters
<1>2. PICK p \in Ids :
        /\ pc' = [pc EXCEPT ![c] = kind]
        /\ job' = [job EXCEPT ![c] = [kind |-> kind, at |-> "queued", pool |-> p, drv |-> 0]]
        /\ adapter' = [adapter EXCEPT ![h] = [adapter[h] EXCEPT !.pool = p]]
  BY <1>1, EnterPool DEF Read
<1>3. /\ adapter' \in [Handles -> Adapters]
      /\ \A k \in Handles : adapter'[k].drv = adapter[k].drv
  BY <1>1, <1>2 DEF ClientsInv, TypeOK, Adapters
<1>4. [kind |-> kind, at |-> "queued", pool |-> p, drv |-> 0] \in Jobs /\ p # 0
  BY DEF Jobs, Ids
<1>5. kind \in Awaits /\ kind \in {"contains", "read"} /\ "read" \in Ops
  BY DEF Awaits, Ops
<1> QED
  BY <1>2, <1>3, <1>4, <1>5, BeginsClients DEF Read

LEMMA DropClients ==
  ASSUME ClientsInv, NEW c \in Clients, NEW h \in Handles, Drop(c, h)
  PROVE  ClientsInv'
<1>1. adapter[h] \in Adapters
  BY DEF ClientsInv, TypeOK, Adapters
<1>2. PICK p \in Ids :
        /\ pc' = [pc EXCEPT ![c] = "drop"]
        /\ job' = [job EXCEPT ![c] = [kind |-> "drop", at |-> "queued", pool |-> p, drv |-> 0]]
        /\ adapter' = [adapter EXCEPT ![h] = [adapter[h] EXCEPT !.pool = p]]
  BY <1>1, EnterPool DEF Drop
<1>3. /\ adapter' \in [Handles -> Adapters]
      /\ \A k \in Handles : adapter'[k].drv = adapter[k].drv
  BY <1>1, <1>2 DEF ClientsInv, TypeOK, Adapters
<1>4. [kind |-> "drop", at |-> "queued", pool |-> p, drv |-> 0] \in Jobs /\ p # 0
  BY DEF Jobs, Ids
<1>5. "drop" \in Awaits /\ "drop" \in Ops
  BY DEF Awaits, Ops
<1> QED
  BY <1>2, <1>3, <1>4, <1>5, BeginsClients DEF Drop

\* A write, or a close, takes its place at the lock or goes straight to submit.
LEMMA WriteCloseClients ==
  ASSUME ClientsInv, NEW c \in Clients, NEW h \in Handles, Write(c, h) \/ Close(c, h)
  PROVE  ClientsInv'
<1>1. job[c] = NoJob /\ job' = [job EXCEPT ![c] = NoJob]
  BY DEF ClientsInv, TypeOK, ClientInv, Write, Close, Begins
<1>2. NoJob \in Jobs /\ adapter' = adapter /\ adapter' \in [Handles -> Adapters]
  BY DEF ClientsInv, TypeOK, Jobs, NoJob, Adapters, Write, Close
<1>3. {"submit", "lock"} \subseteq Awaits /\ {"write", "close"} \subseteq Ops
  BY DEF Awaits, Ops
<1> QED
  BY <1>1, <1>2, <1>3, BeginsClients DEF Write, Close

\* A job of client c is taken to the pool of its adapter, which keeps all but its
\* pool and its lock.
LEMMA EntersClients ==
  ASSUME ClientsInv, NEW c \in Clients, NEW h \in Handles, h = call[c].h,
         NEW a \in Adapters, a.drv = adapter[h].drv,
         NEW kind \in {"read", "provision", "write"}, Enter(c, h, a, kind),
         UNCHANGED <<srv, open, dying, call, took, calls, cancels, drops>>
  PROVE  ClientsInv'
<1>1. PICK p \in Ids :
        /\ pc' = [pc EXCEPT ![c] = kind]
        /\ job' = [job EXCEPT ![c] = [kind |-> kind, at |-> "queued", pool |-> p, drv |-> 0]]
        /\ adapter' = [adapter EXCEPT ![h] = [a EXCEPT !.pool = p]]
  BY EnterPool
<1>2. TypeOK'
  BY <1>1 DEF ClientsInv, TypeOK, Adapters
<1>3. ClientInv(c)'
  <2>1. call[c] # NoCall
    BY NoneIsNone DEF NoCall
  <2>2. pc'[c] = kind /\ job'[c] = [kind |-> kind, at |-> "queued", pool |-> p, drv |-> 0]
    BY <1>1 DEF ClientsInv, TypeOK
  <2>3. ClientInv(c) /\ p # 0
    BY DEF ClientsInv, Ids
  <2> QED
    BY <2>1, <2>2, <2>3 DEF ClientInv
<1>4. \A k \in Handles : OwnDriver(k)'
  <2>1. \A k \in Handles : adapter'[k].drv = adapter[k].drv
    BY <1>1 DEF ClientsInv, TypeOK, Adapters
  <2> QED
    BY <2>1, KeepDrivers
<1> QED
  BY <1>1, <1>2, <1>3, <1>4, OneClientMoves DEF ClientsInv, TypeOK

\* A client's call is over.
LEMMA LeavesClients ==
  ASSUME ClientsInv, NEW c \in Clients, Leaves(c),
         adapter' \in [Handles -> Adapters], took' \in [Clients -> Ids \cup {0}],
         \A k \in Handles : adapter'[k].drv \in {adapter[k].drv, 0},
         cancels' \in 0 .. MaxCancels,
         UNCHANGED <<srv, open, dying, calls, drops>>
  PROVE  ClientsInv'
<1>1. TypeOK'
  BY DEF ClientsInv, TypeOK, Leaves, Adapters, NoJob
<1>2. ClientInv(c)'
  BY DEF ClientsInv, TypeOK, Leaves, ClientInv, NoJob, NoCall
<1> QED
  BY <1>1, <1>2, KeepDrivers, OneClientMoves DEF ClientsInv, TypeOK, Leaves

\* A client whose call goes on has an adapter.
LEMMA CallsHaveHandles ==
  ASSUME ClientsInv, NEW c \in Clients, pc[c] # "idle"
  PROVE  call[c].h \in Handles /\ call[c].op \in Ops /\ adapter[call[c].h] \in Adapters
BY DEF ClientsInv, TypeOK, ClientInv, Adapters

LEMMA AcquireClients ==
  ASSUME ClientsInv, NEW c \in Clients, Acquire(c)
  PROVE  ClientsInv'
<1> DEFINE h == call[c].h
           a == adapter[h]
<1>1. h \in Handles /\ a \in Adapters /\ pc[c] = "lock" /\ ClientInv(c)
  BY CallsHaveHandles DEF Acquire, ClientsInv
<1>2. CASE pc' = [pc EXCEPT ![c] = "submit"] /\ UNCHANGED <<adapter, took, job>>
  <2>1. TypeOK'
    BY <1>2 DEF ClientsInv, TypeOK, Acquire
  <2>2. ClientInv(c)'
    BY <1>1, <1>2 DEF ClientsInv, TypeOK, Acquire, ClientInv
  <2>3. \A k \in Handles : OwnDriver(k)'
    BY <1>2, KeepDrivers DEF Acquire
  <2> QED
    BY <1>2, <2>1, <2>2, <2>3, OneClientMoves DEF ClientsInv, TypeOK, Acquire
<1>3. CASE Enter(c, h, [a EXCEPT !.lock = c], "provision") /\ UNCHANGED took
  <2>1. [a EXCEPT !.lock = c] \in Adapters /\ [a EXCEPT !.lock = c].drv = a.drv
    BY <1>1 DEF Adapters
  <2> QED
    BY <1>1, <1>3, <2>1, EntersClients DEF Acquire
<1>4. CASE /\ call[c].op = "close"
           /\ pc' = [pc EXCEPT ![c] = "drain"]
           /\ took' = [took EXCEPT ![c] = a.pool]
           /\ adapter' = [adapter EXCEPT
                ![h] = [a EXCEPT !.lock = c, !.closing = TRUE, !.pool = 0]]
           /\ UNCHANGED job
  <2>1. TypeOK'
    BY <1>1, <1>4 DEF ClientsInv, TypeOK, Acquire, Adapters
  <2>2. ClientInv(c)'
    BY <1>1, <1>4 DEF ClientsInv, TypeOK, Acquire, ClientInv
  <2>3. \A k \in Handles : adapter'[k].drv = adapter[k].drv
    BY <1>1, <1>4 DEF ClientsInv, TypeOK, Adapters
  <2>4. \A k \in Handles : OwnDriver(k)'
    BY <2>3, KeepDrivers DEF Acquire
  <2> QED
    BY <1>4, <2>1, <2>2, <2>4, OneClientMoves DEF ClientsInv, TypeOK, Acquire
<1> QED
  BY <1>2, <1>3, <1>4 DEF Acquire

LEMMA SubmitClients ==
  ASSUME ClientsInv, NEW c \in Clients, Submit(c)
  PROVE  ClientsInv'
<1>1. call[c].h \in Handles /\ adapter[call[c].h] \in Adapters
  BY CallsHaveHandles DEF Submit
<1>2. CASE Enter(c, call[c].h, adapter[call[c].h], "write") /\ UNCHANGED call
  BY <1>1, <1>2, EntersClients DEF Submit
<1>3. CASE Leaves(c) /\ UNCHANGED adapter
  BY <1>3, LeavesClients DEF Submit, ClientsInv, TypeOK, Adapters
<1> QED
  BY <1>2, <1>3 DEF Submit

LEMMA ResumeClients ==
  ASSUME ClientsInv, NEW c \in Clients, Resume(c)
  PROVE  ClientsInv'
<1> DEFINE h == call[c].h
           a == adapter[h]
<1>1. h \in Handles /\ a \in Adapters /\ ClientInv(c)
  BY CallsHaveHandles DEF Resume, ClientsInv
<1>2. CASE Enter(c, h, a, "read") /\ UNCHANGED call
  BY <1>1, <1>2, EntersClients DEF Resume
<1>3. CASE Leaves(c) /\ UNCHANGED adapter
  BY <1>3, LeavesClients DEF Resume, ClientsInv, TypeOK, Adapters
<1>u. CASE pc[c] = "provision" /\ adapter' = [adapter EXCEPT ![h] = Unlocked(a)]
  <2>1. /\ adapter' \in [Handles -> Adapters]
        /\ \A k \in Handles : adapter'[k].drv = adapter[k].drv
    BY <1>1, <1>u DEF ClientsInv, TypeOK, Adapters, Unlocked
  <2>2. CASE Leaves(c)
    <3>1. /\ UNCHANGED <<srv, open, dying, calls, drops>>
          /\ took' \in [Clients -> Ids \cup {0}] /\ cancels' \in 0 .. MaxCancels
      BY DEF Resume, ClientsInv, TypeOK
    <3>2. \A k \in Handles : adapter'[k].drv \in {adapter[k].drv, 0}
      BY <2>1
    <3>3. adapter' \in [Handles -> Adapters]
      BY <2>1
    <3> QED
      BY <2>2, <3>1, <3>2, <3>3, LeavesClients
  <2>3. CASE /\ pc' = [pc EXCEPT ![c] = "submit"]
             /\ job' = [job EXCEPT ![c] = NoJob]
             /\ pc[c] = "provision"
             /\ UNCHANGED call
    <3>1. TypeOK'
      BY <2>1, <2>3 DEF ClientsInv, TypeOK, Resume, Adapters, NoJob
    <3>2. ClientInv(c)'
      BY <1>1, <2>3 DEF ClientsInv, TypeOK, Resume, ClientInv, NoJob
    <3>3. \A k \in Handles : OwnDriver(k)'
      BY <2>1, KeepDrivers DEF Resume
    <3> QED
      BY <2>3, <3>1, <3>2, <3>3, OneClientMoves DEF ClientsInv, TypeOK, Resume
  <2> QED
    BY <1>u, <2>2, <2>3 DEF Resume
<1> QED
  BY <1>2, <1>3, <1>u DEF Resume

\* A close that has drained its pool takes the driver, which is the adapter's own.
LEMMA FinishClients ==
  ASSUME ClientsInv, NEW c \in Clients, Finish(c)
  PROVE  ClientsInv'
<1> DEFINE h == call[c].h
           d == adapter[h].drv
<1>1. h \in Handles /\ adapter[h] \in Adapters /\ ClientInv(c) /\ OwnDriver(h)
  BY CallsHaveHandles DEF Finish, ClientsInv
<1>2. dying' \subseteq open
  BY <1>1 DEF Finish, ClientsInv, TypeOK, OwnDriver
<1>3. \A k \in Handles : adapter'[k].drv = IF k = h THEN 0 ELSE adapter[k].drv
  BY <1>1 DEF ClientsInv, TypeOK, Finish, Unopened
<1>4. adapter' \in [Handles -> Adapters]
  BY <1>1 DEF ClientsInv, TypeOK, Finish, Unopened, Adapters
<1>5. TypeOK'
  BY <1>1, <1>2, <1>4 DEF ClientsInv, TypeOK, Finish, Adapters
<1>6. ClientInv(c)'
  BY <1>1 DEF ClientsInv, TypeOK, Finish, ClientInv
<1>7. \A k \in Handles : OwnDriver(k)'
  BY <1>1, <1>3 DEF ClientsInv, OwnDriver, Finish
<1> QED
  BY <1>5, <1>6, <1>7, OneClientMoves DEF ClientsInv, TypeOK, Finish

LEMMA CloseReturnsClients ==
  ASSUME ClientsInv, NEW c \in Clients, CloseReturns(c)
  PROVE  ClientsInv'
<1>1. call[c].h \in Handles /\ adapter[call[c].h] \in Adapters
  BY CallsHaveHandles DEF CloseReturns
<1>2. /\ adapter' \in [Handles -> Adapters]
      /\ \A k \in Handles : adapter'[k].drv = adapter[k].drv
  BY <1>1 DEF ClientsInv, TypeOK, CloseReturns, Unlocked, Adapters
<1>3. took' \in [Clients -> Ids \cup {0}]
  BY DEF ClientsInv, TypeOK, CloseReturns
<1> QED
  BY <1>2, <1>3, LeavesClients DEF CloseReturns, ClientsInv, TypeOK

LEMMA CancelClients ==
  ASSUME ClientsInv, NEW c \in Clients, Cancel(c)
  PROVE  ClientsInv'
<1> DEFINE h == call[c].h
           a == adapter[h]
<1>1. h \in Handles /\ a \in Adapters /\ ClientInv(c) /\ cancels' \in 0 .. MaxCancels
  BY CallsHaveHandles, SizesAreNat DEF Cancel, ClientsInv, TypeOK
<1>2. took' \in [Clients -> Ids \cup {0}]
  BY DEF ClientsInv, TypeOK, Cancel
<1>3. /\ adapter' \in [Handles -> Adapters]
      /\ \A k \in Handles : adapter'[k].drv \in {adapter[k].drv, 0}
  <2>1. adapter' = adapter \/ adapter' = [adapter EXCEPT ![h] = adapter'[h]]
    BY <1>1 DEF ClientsInv, TypeOK, Cancel
  <2>2. adapter'[h] \in {a, Unlocked(a), [Unopened EXCEPT !.pool = a.pool]}
    BY <1>1 DEF ClientsInv, TypeOK, Cancel
  <2>3. adapter'[h] \in Adapters /\ adapter'[h].drv \in {a.drv, 0}
    BY <1>1, <2>2 DEF Adapters, Unlocked, Unopened
  <2> QED
    BY <1>1, <2>1, <2>3 DEF ClientsInv, TypeOK, Adapters
<1>4. CASE Leaves(c)
  BY <1>1, <1>2, <1>3, <1>4, LeavesClients DEF Cancel
<1>5. CASE /\ pc[c] \in {"contains", "read", "drop", "provision"}
           /\ job[c].at \in Running
           /\ pc' = [pc EXCEPT ![c] = "left"]
           /\ UNCHANGED <<call, job>>
  <2>1. TypeOK'
    BY <1>1, <1>2, <1>3, <1>5 DEF ClientsInv, TypeOK, Adapters, Cancel
  <2>2. ClientInv(c)'
    BY <1>1, <1>5 DEF ClientsInv, TypeOK, Cancel, ClientInv
  <2>3. \A k \in Handles : OwnDriver(k)'
    BY <1>3, KeepDrivers DEF Cancel
  <2> QED
    BY <1>5, <2>1, <2>2, <2>3, OneClientMoves DEF ClientsInv, TypeOK, Cancel
<1> QED
  BY <1>4, <1>5 DEF Cancel

\* A worker takes a job, with its adapter's driver or a fresh one.
LEMMA StartClients ==
  ASSUME ClientsInv, NEW c \in Clients, Start(c)
  PROVE  ClientsInv'
<1> DEFINE h == call[c].h
           a == adapter[h]
           d == IF a.drv = 0 THEN Fresh(Drivers) ELSE a.drv
<1>1. pc[c] # "idle" /\ ClientInv(c)
  BY DEF ClientsInv, ClientInv, Start, NoJob
<1>2. h \in Handles /\ a \in Adapters /\ OwnDriver(h)
  BY <1>1, CallsHaveHandles DEF ClientsInv
<1>3. Fresh(Drivers) \in Ids /\ Fresh(Drivers) \notin open
  BY FreshIsFresh, UsedAreFinite DEF ClientsInv, Drivers
<1>4. d \in Ids /\ (a.drv # 0 => d \in open)
  BY <1>2, <1>3 DEF Adapters, OwnDriver
<1>5. CASE /\ job' = [job EXCEPT ![c].at = "using", ![c].drv = d]
           /\ adapter' = [adapter EXCEPT ![h].drv = d]
           /\ open' = open \cup {d}
  <2>j. job'[c] = [job[c] EXCEPT !.at = "using", !.drv = d] /\ job[c] \in Jobs
    BY <1>5 DEF ClientsInv, TypeOK, Jobs
  <2>k. job'[c] \in Jobs
    BY <1>4, <2>j DEF Jobs, Running
  <2>m. job' \in [Clients -> Jobs]
    BY <1>5, <2>k DEF ClientsInv, TypeOK, Jobs
  <2>n. adapter' \in [Handles -> Adapters]
    <3>1. adapter'[h] = [a EXCEPT !.drv = d]
      BY <1>2, <1>5 DEF ClientsInv, TypeOK
    <3>2. adapter'[h] \in Adapters
      BY <1>2, <1>4, <3>1 DEF Adapters
    <3> QED
      BY <1>2, <1>5, <3>2 DEF ClientsInv, TypeOK, Adapters
  <2>1. TypeOK'
    <3>1. open' \subseteq Ids /\ dying' \subseteq open'
      BY <1>4, <1>5 DEF ClientsInv, TypeOK, Start
    <3> QED
      BY <2>m, <2>n, <3>1 DEF ClientsInv, TypeOK, Start, Jobs, Adapters
  <2>2. IsFiniteSet(open')
    BY <1>5, FS_AddElement DEF ClientsInv
  <2>3. ClientInv(c)'
    <3>1. /\ job[c].at = "queued" /\ UNCHANGED <<pc, call, drops>>
      BY DEF Start
    <3>2. /\ job'[c].at = "using" /\ job'[c].kind = job[c].kind
          /\ job'[c].pool = job[c].pool
      BY <2>j DEF Jobs
    <3>3. job[c] # NoJob
      BY <3>1 DEF NoJob
    <3> QED
      BY <1>1, <3>1, <3>2, <3>3 DEF ClientInv, Running
  <2>4. \A k \in Handles : adapter'[k].drv = IF k = h THEN d ELSE adapter[k].drv
    <3>1. adapter \in [Handles -> Adapters]
      BY DEF ClientsInv, TypeOK, Adapters
    <3> QED
      BY <1>2, <1>5, <3>1 DEF Adapters
  <2>5. 0 \notin open /\ dying \subseteq open
    BY DEF ClientsInv, TypeOK, Ids
  <2>6. ASSUME NEW k \in Handles PROVE OwnDriver(k)'
    <3>1. OwnDriver(k) /\ OwnDriver(h) /\ dying' = dying
      BY <1>2 DEF ClientsInv, Start
    <3>2. CASE a.drv = 0
      <4>1. d \notin open /\ d # 0
        BY <1>3, <3>2 DEF Ids
      <4>2. \A g \in Handles \ {h} : adapter[g].drv # d
        BY <4>1 DEF ClientsInv, OwnDriver
      <4>3. d \in open' \ dying' /\ (k # h => adapter'[k].drv # d)
        BY <1>5, <2>4, <2>5, <3>1, <4>1, <4>2
      <4>4. CASE k = h
        BY <1>2, <2>4, <4>2, <4>3, <4>4 DEF OwnDriver
      <4>5. CASE k # h
        BY <1>2, <1>5, <2>4, <3>1, <4>3, <4>5 DEF OwnDriver
      <4> QED
        BY <4>4, <4>5
    <3>3. CASE a.drv # 0
      BY <1>5, <2>4, <3>1, <3>3 DEF OwnDriver
    <3> QED
      BY <3>2, <3>3
  <2> QED
    BY <1>5, <2>1, <2>2, <2>3, <2>6, OneClientMoves DEF ClientsInv, TypeOK, Start
<1>6. CASE job' = [job EXCEPT ![c].at = "error"] /\ UNCHANGED <<adapter, open>>
  <2>1. TypeOK'
    <3>1. job'[c] = [job[c] EXCEPT !.at = "error"] /\ job[c] \in Jobs
      BY <1>6 DEF ClientsInv, TypeOK, Jobs
    <3>2. job'[c] \in Jobs
      BY <3>1 DEF Jobs, Outcomes
    <3>3. job' \in [Clients -> Jobs]
      BY <1>6, <3>2 DEF ClientsInv, TypeOK, Jobs
    <3> QED
      BY <1>6, <3>3 DEF ClientsInv, TypeOK, Start, Jobs
  <2>2. ClientInv(c)'
    BY <1>1, <1>6 DEF ClientsInv, TypeOK, Start, ClientInv, NoJob, Outcomes
  <2>3. \A k \in Handles : OwnDriver(k)'
    BY <1>6, KeepDrivers DEF Start
  <2> QED
    BY <1>6, <2>1, <2>2, <2>3, OneClientMoves DEF ClientsInv, TypeOK, Start
<1> QED
  BY <1>5, <1>6 DEF Start

\* A running job turns to at; its adapter may learn, and keeps all else.
LEMMA TurnsClients ==
  ASSUME ClientsInv, NEW c \in Clients, job[c].at \in Running,
         NEW at \in Running \cup Outcomes, Turns(c, at),
         at \in {"create", "recheck", "define"} => job[c].kind = "provision",
         srv' \in Server, adapter' \in [Handles -> Adapters],
         \A k \in Handles : adapter'[k].drv = adapter[k].drv
  PROVE  ClientsInv'
<1>1. TypeOK'
  <2>1. job'[c] = [job[c] EXCEPT !.at = at] /\ job[c] \in Jobs
    BY DEF ClientsInv, TypeOK, Turns, Jobs
  <2>2. job'[c] \in Jobs
    BY <2>1 DEF Jobs
  <2>3. job' \in [Clients -> Jobs]
    BY <2>2 DEF ClientsInv, TypeOK, Turns, Jobs
  <2> QED
    BY <2>3 DEF ClientsInv, TypeOK, Turns, Jobs, Adapters
<1>2. ClientInv(c) /\ job[c].at \notin {"none", "queued"}
  BY DEF ClientsInv, Running
<1>3. job'[c] = [job[c] EXCEPT !.at = at] /\ at \notin {"none", "queued"}
  BY DEF ClientsInv, TypeOK, Turns, Running, Outcomes
<1>4. job[c] # NoJob
  BY <1>2 DEF NoJob
<1>5. ClientInv(c)'
  BY <1>2, <1>3, <1>4 DEF ClientsInv, TypeOK, Turns, ClientInv
<1>6. \A k \in Handles : OwnDriver(k)'
  BY KeepDrivers DEF Turns
<1> QED
  BY <1>1, <1>5, <1>6, OneClientMoves DEF ClientsInv, TypeOK, Turns

\* What an adapter may learn from a job: all but its flags stays.
LEMMA LearnsKeeps ==
  ASSUME ClientsInv, NEW c \in Clients, call[c].h \in Handles,
         NEW e \in BOOLEAN, NEW m \in BOOLEAN, Learns(c, e, m)
  PROVE  /\ adapter' \in [Handles -> Adapters]
         /\ \A k \in Handles :
              /\ adapter'[k].drv = adapter[k].drv /\ adapter'[k].pool = adapter[k].pool
              /\ adapter'[k].closing = adapter[k].closing /\ adapter'[k].lock = adapter[k].lock
              /\ k # call[c].h => adapter'[k] = adapter[k]
         /\ adapter'[call[c].h].schema <=> m
<1> DEFINE h == call[c].h
           a == [adapter[h] EXCEPT !.exists = e, !.schema = m]
<1>1. adapter \in [Handles -> Adapters]
  BY DEF ClientsInv, TypeOK, Adapters
<1>2. adapter' = [adapter EXCEPT ![h] = a]
  BY <1>1 DEF Learns, Adapters
<1>3. /\ a \in Adapters /\ a.drv = adapter[h].drv /\ a.pool = adapter[h].pool
      /\ a.closing = adapter[h].closing /\ a.lock = adapter[h].lock /\ a.schema = m
  <2>1. PICK b \in Adapters : b = adapter[h]
    BY <1>1
  <2>2. a = [b EXCEPT !.exists = e, !.schema = m]
    BY <2>1
  <2>3. [b EXCEPT !.exists = e, !.schema = m] \in Adapters
    BY DEF Adapters
  <2>4. a.drv = b.drv /\ a.pool = b.pool /\ a.closing = b.closing /\ a.lock = b.lock
    BY <2>2 DEF Adapters
  <2>5. a.schema = m
    BY <2>2 DEF Adapters
  <2> QED
    BY <2>1, <2>2, <2>3, <2>4, <2>5
<1> HIDE DEF a
<1> QED
  BY <1>1, <1>2, <1>3

\* What a worker's step does to the job and the server, whichever it is.
LEMMA WorkerTurns ==
  ASSUME ClientsInv, NEW c \in Clients, WorkerStep(c)
  PROVE  /\ job[c].at \in Running
         /\ srv' \in Server
         /\ \E at \in Running \cup Outcomes :
              /\ Turns(c, at)
              /\ at \in {"create", "recheck", "define"} => job[c].kind = "provision"
<1> USE DEF Running, Outcomes, Server
<1>t. ClientInv(c) /\ srv \in Server
  BY DEF ClientsInv, TypeOK
<1>1. CASE Contains(c)
  BY <1>1, <1>t DEF Contains
<1>2. CASE Transact(c)
  BY <1>2, <1>t DEF Transact
<1>3. CASE DropDatabase(c)
  BY <1>3 DEF DropDatabase
<1>4. CASE LookUp(c)
  BY <1>4, <1>t DEF LookUp
<1>5. CASE Create(c)
  BY <1>5, <1>t DEF Create, ClientInv
<1>6. CASE Recheck(c)
  BY <1>6, <1>t DEF Recheck, ClientInv
<1>7. CASE Define(c)
  <2>1. job[c].at \in Running /\ srv' \in Server
    BY <1>7, <1>t DEF Define
  <2>2. Turns(c, "error") \/ Turns(c, "ok")
    BY <1>7 DEF Define
  <2> QED
    BY <2>1, <2>2
<1>8. CASE JobFails(c)
  BY <1>8, <1>t DEF JobFails
<1> QED
  BY <1>1, <1>2, <1>3, <1>4, <1>5, <1>6, <1>7, <1>8 DEF WorkerStep

\* What it does to the adapters.
LEMMA WorkerLearns ==
  ASSUME ClientsInv, NEW c \in Clients, WorkerStep(c)
  PROVE  /\ call[c].h \in Handles /\ pc[c] # "idle"
         /\ adapter' \in [Handles -> Adapters]
         /\ \A k \in Handles :
              /\ adapter'[k].drv = adapter[k].drv /\ adapter'[k].pool = adapter[k].pool
              /\ adapter'[k].closing = adapter[k].closing /\ adapter'[k].lock = adapter[k].lock
              /\ k # call[c].h => adapter'[k] = adapter[k]
              /\ adapter'[k].schema =>
                   adapter[k].schema \/ (job[c].at = "define" /\ srv' = "ready")
<1>a. adapter \in [Handles -> Adapters]
  BY DEF ClientsInv, TypeOK, Adapters
<1>t. pc[c] # "idle" /\ call[c].h \in Handles /\ adapter[call[c].h] \in Adapters
  <2>1. job[c] # NoJob
    BY WorkerTurns DEF NoJob, Running
  <2> QED
    BY <2>1, CallsHaveHandles DEF ClientsInv, ClientInv
<1>1. CASE Contains(c)
  <2>1. PICK e \in BOOLEAN : Learns(c, e, adapter[call[c].h].schema)
    BY <1>1 DEF Contains
  <2>2. adapter[call[c].h].schema \in BOOLEAN
    BY <1>t DEF Adapters
  <2>3. /\ adapter' \in [Handles -> Adapters]
        /\ \A k \in Handles :
             /\ adapter'[k].drv = adapter[k].drv /\ adapter'[k].pool = adapter[k].pool
             /\ adapter'[k].closing = adapter[k].closing /\ adapter'[k].lock = adapter[k].lock
             /\ k # call[c].h => adapter'[k] = adapter[k]
        /\ adapter'[call[c].h].schema <=> adapter[call[c].h].schema
    BY <1>t, <2>1, <2>2, LearnsKeeps
  <2> QED
    BY <1>t, <2>3
<1>2. CASE Define(c)
  <2>1. CASE UNCHANGED adapter
    BY <1>a, <1>t, <2>1
  <2>2. CASE job[c].at = "define" /\ srv' = "ready" /\ Learns(c, TRUE, TRUE)
    BY <1>t, <2>2, LearnsKeeps
  <2> QED
    BY <1>2, <2>1, <2>2 DEF Define
<1>3. CASE UNCHANGED adapter
  BY <1>a, <1>t, <1>3
<1> QED
  BY <1>1, <1>2, <1>3
  DEF WorkerStep, Transact, DropDatabase, LookUp, Create, Recheck, JobFails

LEMMA WorkerClients ==
  ASSUME ClientsInv, NEW c \in Clients, WorkerStep(c)
  PROVE  ClientsInv'
BY WorkerTurns, WorkerLearns, TurnsClients

LEMMA DriverClosesClients ==
  ASSUME ClientsInv, NEW d \in dying, DriverCloses(d)
  PROVE  ClientsInv'
<1>1. TypeOK'
  BY DEF ClientsInv, TypeOK, DriverCloses
<1>2. IsFiniteSet(open')
  BY FS_Subset DEF ClientsInv, DriverCloses
<1>3. ASSUME NEW c \in Clients PROVE ClientInv(c)'
  BY DEF ClientsInv, ClientInv, DriverCloses
<1>4. ASSUME NEW h \in Handles PROVE OwnDriver(h)'
  BY DEF ClientsInv, OwnDriver, DriverCloses
<1> QED
  BY <1>1, <1>2, <1>3, <1>4 DEF ClientsInv

LEMMA InitClients == Init => ClientsInv
<1> SUFFICES ASSUME Init PROVE ClientsInv
  OBVIOUS
<1>1. TypeOK
  BY FoundIsWhole, SizesAreNat DEF Init, TypeOK, Server, Unopened, NoJob, NoCall
<1>2. IsFiniteSet(open)
  BY FS_EmptySet DEF Init
<1>3. ASSUME NEW c \in Clients PROVE ClientInv(c)
  BY NoneIsNone DEF Init, ClientInv, NoJob, NoCall
<1>4. ASSUME NEW h \in Handles PROVE OwnDriver(h)
  BY DEF Init, OwnDriver, Unopened
<1> QED
  BY <1>1, <1>2, <1>3, <1>4 DEF ClientsInv

LEMMA StepClients == ClientsInv /\ [Next]_vars => ClientsInv'
<1> SUFFICES ASSUME ClientsInv, [Next]_vars PROVE ClientsInv'
  OBVIOUS
<1>1. ASSUME NEW c \in Clients, CallBegins(c) PROVE ClientsInv'
  BY <1>1, ReadClients, WriteCloseClients, DropClients, AdaptersAreHandles DEF CallBegins
<1>2. ASSUME NEW c \in Clients, Progress(c) PROVE ClientsInv'
  BY <1>2, AcquireClients, SubmitClients, ResumeClients, FinishClients, CloseReturnsClients,
     StartClients, WorkerClients DEF Progress, ClientStep
<1>3. ASSUME NEW c \in Clients, Cancel(c) PROVE ClientsInv'
  BY <1>3, CancelClients
<1>4. ASSUME NEW d \in dying, DriverCloses(d) PROVE ClientsInv'
  BY <1>4, DriverClosesClients
<1>5. CASE UNCHANGED vars
  BY <1>5 DEF vars, ClientsInv, TypeOK, ClientInv, OwnDriver
<1> QED
  BY <1>1, <1>2, <1>3, <1>4, <1>5 DEF Next

LEMMA ClientsInvariance == Spec => []ClientsInv
BY InitClients, StepClients, PTL DEF Spec

\* Every variable stays in its set.
THEOREM TypeCorrect == Spec => []TypeOK
<1>1. ClientsInv => TypeOK
  BY DEF ClientsInv
<1> QED
  BY <1>1, ClientsInvariance, PTL

-----------------------------------------------------------------------------
(* Writes find their schema.                                               *)

\* A client's own step, or a worker's that takes its job, learns nothing new.
LEMMA OneClientSchema ==
  ASSUME ClientsInv, SchemaInv, NEW c \in Clients,
         srv' = srv, drops' \in {drops, drops + 1},
         \A h \in Handles : adapter'[h].schema => adapter[h].schema,
         \A k \in Clients \ {c} : pc'[k] = pc[k] /\ job'[k] = job[k],
         job'[c] = job[c] \/ job'[c].at \in {"none", "queued", "using", "error"},
         pc'[c] \in {"submit", "write"} =>
           \/ pc[c] \in {"submit", "write"}
           \/ \E h \in Handles : adapter[h].schema
           \/ job[c].kind = "provision" /\ job[c].at = "ok"
  PROVE  SchemaInv'
<1>1. drops \in Nat
  BY SizesAreNat DEF ClientsInv, TypeOK
<1> QED
  BY <1>1 DEF SchemaInv

\* What a job that enters a pool leaves of the other variables.
LEMMA EnterKeeps ==
  ASSUME ClientsInv, NEW c \in Clients, NEW h \in Handles, NEW a \in Adapters, NEW kind,
         Enter(c, h, a, kind)
  PROVE  /\ \A k \in Handles :
              /\ adapter'[k].schema = (IF k = h THEN a ELSE adapter[k]).schema
              /\ adapter'[k].exists = (IF k = h THEN a ELSE adapter[k]).exists
              /\ adapter'[k].drv = (IF k = h THEN a ELSE adapter[k]).drv
              /\ adapter'[k].closing = (IF k = h THEN a ELSE adapter[k]).closing
              /\ adapter'[k].lock = (IF k = h THEN a ELSE adapter[k]).lock
              /\ adapter'[k].pool = (IF k = h THEN a ELSE adapter[k]).pool
                   \/ (k = h /\ a.pool = 0 /\ ~a.closing)
         /\ pc' = [pc EXCEPT ![c] = kind]
         /\ pc'[c] = kind
         /\ job'[c].at = "queued" /\ job'[c].kind = kind
         /\ job'[c].pool = adapter'[h].pool
         /\ \A k \in Clients \ {c} : pc'[k] = pc[k] /\ job'[k] = job[k]
<1>1. PICK p \in Ids :
        /\ a.pool # 0 => p = a.pool
        /\ a.pool = 0 => ~a.closing
        /\ pc' = [pc EXCEPT ![c] = kind]
        /\ job' = [job EXCEPT ![c] = [kind |-> kind, at |-> "queued", pool |-> p, drv |-> 0]]
        /\ adapter' = [adapter EXCEPT ![h] = [a EXCEPT !.pool = p]]
  BY EnterPool
<1> QED
  BY <1>1 DEF ClientsInv, TypeOK, Adapters

LEMMA CallBeginsSchema ==
  ASSUME ClientsInv, SchemaInv, NEW c \in Clients, CallBegins(c)
  PROVE  SchemaInv'
<1>a. \A h \in Handles : adapter[h] \in Adapters
  BY DEF ClientsInv, TypeOK, Adapters
<1>1. ASSUME NEW h \in Handles, Read(c, h) PROVE SchemaInv'
  BY <1>1, <1>a, EnterKeeps, OneClientSchema DEF Read, Begins
<1>2. ASSUME NEW h \in Handles, Write(c, h) PROVE SchemaInv'
  BY <1>2, OneClientSchema DEF Write, Begins, ClientsInv, TypeOK
<1>3. ASSUME NEW h \in Handles, Close(c, h) PROVE SchemaInv'
  BY <1>3, OneClientSchema DEF Close, Begins, ClientsInv, TypeOK
<1>4. ASSUME NEW h \in Handles, Drop(c, h) PROVE SchemaInv'
  BY <1>4, <1>a, EnterKeeps, OneClientSchema DEF Drop, Begins
<1> QED
  BY <1>1, <1>2, <1>3, <1>4, AdaptersAreHandles DEF CallBegins

LEMMA ProgressSchema ==
  ASSUME ClientsInv, SchemaInv, NEW c \in Clients, Acquire(c) \/ ClientStep(c) \/ Start(c)
  PROVE  SchemaInv'
<1> DEFINE h == call[c].h
           a == adapter[h]
<1>t. job \in [Clients -> Jobs] /\ pc \in [Clients -> Awaits] /\ adapter \in [Handles -> Adapters]
  BY DEF ClientsInv, TypeOK, Jobs, Awaits, Adapters
<1>h. h \in Handles /\ a \in Adapters
  <2>1. CASE Acquire(c) \/ Submit(c) \/ Resume(c) \/ Finish(c) \/ CloseReturns(c)
    <3>1. pc[c] # "idle"
      BY <2>1 DEF Acquire, Submit, Resume, Finish, CloseReturns
    <3> QED
      BY <3>1, CallsHaveHandles
  <2>2. CASE Start(c)
    <3>1. job[c].at # "none"
      BY <2>2 DEF Start
    <3>2. pc[c] # "idle"
      BY <3>1 DEF ClientsInv, ClientInv, NoJob
    <3> QED
      BY <3>2, CallsHaveHandles
  <2> QED
    BY <2>1, <2>2 DEF ClientStep
<1>1. CASE Acquire(c)
  <2>1. CASE Enter(c, h, [a EXCEPT !.lock = c], "provision")
    <3>1. [a EXCEPT !.lock = c] \in Adapters /\ [a EXCEPT !.lock = c].schema = a.schema
      BY <1>h DEF Adapters
    <3>2. /\ \A k \in Handles : adapter'[k].schema => adapter[k].schema
          /\ pc'[c] = "provision" /\ job'[c].at = "queued"
          /\ \A k \in Clients \ {c} : pc'[k] = pc[k] /\ job'[k] = job[k]
      <4>1. PICK b \in Adapters : b.schema = a.schema /\ Enter(c, h, b, "provision")
        BY <2>1, <3>1
      <4> QED
        BY <1>h, <4>1, EnterKeeps
    <3>3. srv' = srv /\ drops' = drops
      BY <1>1 DEF Acquire
    <3> QED
      BY <3>2, <3>3, OneClientSchema
  <2>2. CASE a.schema /\ pc' = [pc EXCEPT ![c] = "submit"] /\ UNCHANGED <<adapter, job>>
    BY <1>1, <1>t, <1>h, <2>2, OneClientSchema DEF Acquire
  <2>3. CASE /\ pc' = [pc EXCEPT ![c] = "drain"]
             /\ adapter' = [adapter EXCEPT
                  ![h] = [a EXCEPT !.lock = c, !.closing = TRUE, !.pool = 0]]
             /\ UNCHANGED job
    <3>1. \A k \in Handles : adapter'[k].schema => adapter[k].schema
      BY <1>t, <1>h, <2>3 DEF Adapters
    <3> QED
      BY <1>1, <1>t, <2>3, <3>1, OneClientSchema DEF Acquire
  <2> QED
    BY <1>1, <2>1, <2>2, <2>3 DEF Acquire
<1>2. CASE Submit(c)
  <2>1. CASE Enter(c, h, a, "write")
    BY <1>2, <1>h, <2>1, EnterKeeps, OneClientSchema DEF Submit
  <2>2. CASE Leaves(c) /\ UNCHANGED adapter
    BY <1>2, <1>t, <2>2, OneClientSchema DEF Submit, Leaves, NoJob
  <2> QED
    BY <1>2, <2>1, <2>2 DEF Submit
<1>3. CASE Resume(c)
  <2>1. CASE Enter(c, h, a, "read")
    BY <1>3, <1>h, <2>1, EnterKeeps, OneClientSchema DEF Resume
  <2>2. CASE Leaves(c) /\ UNCHANGED adapter
    BY <1>3, <1>t, <2>2, OneClientSchema DEF Resume, Leaves, NoJob
  <2>3. CASE pc[c] = "provision" /\ adapter' = [adapter EXCEPT ![h] = Unlocked(a)]
    <3>1. \A k \in Handles : adapter'[k].schema => adapter[k].schema
      BY <1>t, <1>h, <2>3 DEF Adapters, Unlocked
    <3>2. CASE Leaves(c)
      BY <1>3, <1>t, <3>1, <3>2, OneClientSchema DEF Resume, Leaves, NoJob
    <3>3. CASE /\ job[c].at = "ok"
               /\ pc' = [pc EXCEPT ![c] = "submit"]
               /\ job' = [job EXCEPT ![c] = NoJob]
      <4>1. job[c].kind = "provision"
        BY <2>3 DEF ClientsInv, ClientInv
      <4>2. job'[c].at = "none" /\ \A k \in Clients \ {c} : pc'[k] = pc[k] /\ job'[k] = job[k]
        BY <1>t, <3>3 DEF NoJob
      <4>3. srv' = srv /\ drops' = drops
        BY <1>3 DEF Resume
      <4> QED
        BY <3>1, <3>3, <4>1, <4>2, <4>3, OneClientSchema
    <3> QED
      BY <1>3, <2>3, <3>2, <3>3 DEF Resume
  <2> QED
    BY <1>3, <2>1, <2>2, <2>3 DEF Resume
<1>4. CASE Finish(c)
  <2>1. \A k \in Handles : adapter'[k].schema => adapter[k].schema
    BY <1>4, <1>t, <1>h DEF Finish, Adapters, Unopened
  <2> QED
    BY <1>4, <1>t, <2>1, OneClientSchema DEF Finish
<1>5. CASE CloseReturns(c)
  <2>1. \A k \in Handles : adapter'[k].schema => adapter[k].schema
    BY <1>5, <1>t, <1>h DEF CloseReturns, Adapters, Unlocked
  <2> QED
    BY <1>5, <1>t, <2>1, OneClientSchema DEF CloseReturns, Leaves, NoJob
<1>6. CASE Start(c)
  <2>1. \A k \in Handles : adapter'[k].schema => adapter[k].schema
    <3>1. CASE UNCHANGED adapter
      BY <3>1
    <3>2. UNCHANGED adapter \/ \E d : adapter' = [adapter EXCEPT ![h].drv = d]
      BY <1>6 DEF Start
    <3>3. ASSUME NEW d, adapter' = [adapter EXCEPT ![h].drv = d]
          PROVE  \A k \in Handles : adapter'[k].schema => adapter[k].schema
      BY <1>t, <1>h, <3>3 DEF Adapters
    <3> QED
      BY <3>1, <3>2, <3>3
  <2>2. job'[c].at \in {"using", "error"} /\ \A k \in Clients \ {c} : job'[k] = job[k]
    <3>1. \/ job' = [job EXCEPT ![c].at = "error"]
          \/ \E d : job' = [job EXCEPT ![c].at = "using", ![c].drv = d]
      BY <1>6 DEF Start
    <3>2. ASSUME NEW d, job' = [job EXCEPT ![c].at = "using", ![c].drv = d]
          PROVE  job'[c].at = "using" /\ \A k \in Clients \ {c} : job'[k] = job[k]
      BY <1>t, <3>2 DEF Jobs
    <3>3. CASE job' = [job EXCEPT ![c].at = "error"]
      BY <1>t, <3>3 DEF Jobs
    <3> QED
      BY <3>1, <3>2, <3>3
  <2> QED
    BY <1>6, <2>1, <2>2, OneClientSchema DEF Start
<1> QED
  BY <1>1, <1>2, <1>3, <1>4, <1>5, <1>6 DEF ClientStep

LEMMA CancelSchema ==
  ASSUME ClientsInv, SchemaInv, NEW c \in Clients, Cancel(c)
  PROVE  SchemaInv'
<1> DEFINE h == call[c].h
           a == adapter[h]
<1>t. job \in [Clients -> Jobs] /\ pc \in [Clients -> Awaits] /\ adapter \in [Handles -> Adapters]
  BY DEF ClientsInv, TypeOK, Jobs, Awaits, Adapters
<1>h. h \in Handles /\ a \in Adapters
  BY CallsHaveHandles DEF Cancel
<1>1. \A k \in Handles : adapter'[k].schema => adapter[k].schema
  <2>1. \A k \in Handles \ {h} : adapter'[k] = adapter[k]
    BY <1>t DEF Cancel
  <2>2. adapter'[h] \in {a, Unlocked(a), [Unopened EXCEPT !.pool = a.pool]}
    BY <1>t, <1>h DEF Cancel
  <2>3. adapter'[h].schema => a.schema
    BY <1>h, <2>2 DEF Adapters, Unlocked, Unopened
  <2> QED
    BY <2>1, <2>3
<1>2. /\ srv' = srv /\ drops' = drops
      /\ \A k \in Clients \ {c} : pc'[k] = pc[k] /\ job'[k] = job[k]
      /\ job'[c] = job[c] \/ job'[c].at = "none"
      /\ pc'[c] \in {"idle", "left"}
  BY <1>t DEF Cancel, Leaves, NoJob
<1> QED
  BY <1>1, <1>2, OneClientSchema

LEMMA TurnsJob ==
  ASSUME ClientsInv, NEW c \in Clients, NEW at, Turns(c, at)
  PROVE  job'[c].at = at /\ job'[c].kind = job[c].kind
BY DEF ClientsInv, TypeOK, Turns

\* The database is created bare, defined once it exists, and gone only by a drop.
LEMMA WorkerSchema ==
  ASSUME ClientsInv, SchemaInv, NEW c \in Clients, WorkerStep(c)
  PROVE  SchemaInv'
<1>a. ClientInv(c) /\ job \in [Clients -> Jobs] /\ srv \in Server /\ drops \in Nat
  BY SizesAreNat DEF ClientsInv, TypeOK, Jobs
<1>b. /\ \A k \in Handles : adapter'[k].schema =>
            adapter[k].schema \/ (job[c].at = "define" /\ srv' = "ready")
      /\ pc' = pc /\ drops' = drops
      /\ \A k \in Clients \ {c} : job'[k] = job[k]
  <2>1. PICK at \in Running \cup Outcomes : Turns(c, at)
    BY WorkerTurns
  <2> QED
    BY <1>a, <2>1, WorkerLearns DEF Turns
<1>1. CASE Contains(c) \/ Transact(c)
  <2>1. job'[c].at \in Outcomes /\ job'[c].kind # "provision" /\ srv' = srv
    <3>1. \E at \in Outcomes : Turns(c, at)
      BY <1>1, <1>a DEF Contains, Transact, Outcomes, Server
    <3> QED
      BY <1>1, <3>1, TurnsJob DEF Contains, Transact
  <2>2. \A k \in Handles : adapter'[k].schema => adapter[k].schema
    BY <1>1, <1>b DEF Contains, Transact
  <2> QED
    BY <1>b, <2>1, <2>2 DEF SchemaInv, Outcomes
<1>2. CASE DropDatabase(c)
  <2>1. drops > 0
    BY <1>2, <1>a DEF ClientInv, DropDatabase
  <2>2. job'[c].at = "ok" /\ srv' = "absent"
    BY <1>2, <1>a DEF DropDatabase, Turns
  <2> QED
    BY <1>a, <1>b, <2>1, <2>2 DEF SchemaInv
<1>3. CASE LookUp(c)
  <2>1. /\ srv' = srv /\ adapter' = adapter /\ job'[c].at \in {"create", "error", "define"}
        /\ srv = "legacy" => job'[c].at = "error"
    BY <1>3, <1>a DEF LookUp, Turns
  <2> QED
    BY <1>b, <2>1 DEF SchemaInv
<1>4. CASE Create(c)
  <2>1. /\ srv # "legacy" /\ adapter' = adapter
        /\ job'[c].at \in {"define", "recheck"}
        /\ srv' = IF srv = "absent" THEN "bare" ELSE srv
    BY <1>4, <1>a DEF Create, Turns, SchemaInv
  <2> QED
    BY <1>b, <2>1 DEF SchemaInv
<1>5. CASE Recheck(c)
  <2>1. /\ srv # "legacy" /\ adapter' = adapter /\ srv' = srv
        /\ job'[c].at \in {"error", "define"}
    BY <1>5, <1>a DEF Recheck, Turns, SchemaInv
  <2> QED
    BY <1>b, <2>1 DEF SchemaInv
<1>6. CASE Define(c)
  <2>1. CASE srv = "absent"
    <3>1. srv' = srv /\ adapter' = adapter /\ job'[c].at = "error"
      BY <1>6, <2>1, TurnsJob DEF Define
    <3> QED
      BY <1>b, <3>1 DEF SchemaInv
  <2>2. CASE srv # "absent"
    <3>1. srv' = "ready" /\ job'[c].at = "ok"
      BY <1>6, <2>2, TurnsJob DEF Define
    <3> QED
      BY <3>1 DEF SchemaInv
  <2> QED
    BY <2>1, <2>2
<1>7. CASE JobFails(c)
  <2>1. srv' = srv /\ adapter' = adapter /\ job'[c].at = "error"
    BY <1>7, <1>a DEF JobFails, Turns
  <2> QED
    BY <1>b, <2>1 DEF SchemaInv
<1> QED
  BY <1>1, <1>2, <1>3, <1>4, <1>5, <1>6, <1>7 DEF WorkerStep

LEMMA StepSchema == ClientsInv /\ SchemaInv /\ [Next]_vars => SchemaInv'
<1> SUFFICES ASSUME ClientsInv, SchemaInv, [Next]_vars PROVE SchemaInv'
  OBVIOUS
<1>1. ASSUME NEW c \in Clients, CallBegins(c) PROVE SchemaInv'
  BY <1>1, CallBeginsSchema
<1>2. ASSUME NEW c \in Clients, Progress(c) PROVE SchemaInv'
  BY <1>2, ProgressSchema, WorkerSchema DEF Progress
<1>3. ASSUME NEW c \in Clients, Cancel(c) PROVE SchemaInv'
  BY <1>3, CancelSchema
<1>4. ASSUME NEW d \in dying, DriverCloses(d) PROVE SchemaInv'
  BY <1>4 DEF DriverCloses, SchemaInv
<1>5. CASE UNCHANGED vars
  BY <1>5 DEF vars, SchemaInv
<1> QED
  BY <1>1, <1>2, <1>3, <1>4, <1>5 DEF Next

\* While no one drops the database, a write's transaction finds its schema.
THEOREM WritesFindTheirSchema == Spec => []WritesFindSchema
<1>1. Init => SchemaInv
  BY DEF Init, SchemaInv, NoJob, Unopened
<1>2. ClientsInv /\ SchemaInv => WritesFindSchema
  <2> SUFFICES ASSUME ClientsInv, SchemaInv, drops = 0, NEW c \in Clients,
                      job[c].kind = "write", job[c].at = "using"
               PROVE  srv = "ready"
    BY DEF WritesFindSchema
  <2>1. ClientInv(c) /\ pc[c] \in Awaits
    BY DEF ClientsInv, TypeOK, Awaits
  <2>2. pc[c] = "write"
    BY <2>1 DEF ClientInv, Awaits, NoJob
  <2> QED
    BY <2>2 DEF SchemaInv
<1> QED
  BY <1>1, <1>2, StepSchema, ClientsInvariance, PTL DEF Spec

-----------------------------------------------------------------------------
(* Drivers, pools and the lock, where no close() is cancelled.             *)

\* Client c hands a job to the pool of h, keeping h's driver and, but for
\* provisioning, its lock.
LEMMA EnterDrivers ==
  ASSUME ClientsInv, DriversInv, NEW c \in Clients, NEW h \in Handles, NEW a \in Adapters,
         NEW kind \in {"contains", "read", "provision", "write", "drop"}, Enter(c, h, a, kind),
         a.drv = adapter[h].drv, a.pool = adapter[h].pool, a.closing = adapter[h].closing,
         a.exists = adapter[h].exists, a.schema = adapter[h].schema,
         IF kind = "provision" THEN a.lock = c /\ adapter[h].lock = None
                               ELSE a.lock = adapter[h].lock,
         pc[c] \notin {"provision", "drain", "closing"},
         call'[c].h = h, \A k \in Clients \ {c} : call'[k] = call[k],
         UNCHANGED <<open, dying, took>>
  PROVE  DriversInv'
<1>1. /\ \A k \in Handles :
            /\ adapter'[k].drv = adapter[k].drv /\ adapter'[k].closing = adapter[k].closing
            /\ adapter'[k].exists = adapter[k].exists /\ adapter'[k].schema = adapter[k].schema
            /\ k # h => adapter'[k].pool = adapter[k].pool /\ adapter'[k].lock = adapter[k].lock
      /\ adapter'[h].pool = adapter[h].pool \/ (adapter[h].pool = 0 /\ ~adapter[h].closing)
      /\ adapter'[h].lock = a.lock
      /\ pc'[c] = kind /\ job'[c].at = "queued" /\ job'[c].pool = adapter'[h].pool
      /\ \A k \in Clients \ {c} : pc'[k] = pc[k] /\ job'[k] = job[k]
  BY EnterKeeps
<1>2. \A d \in open' : d \in dying' \/ \E k \in Handles : adapter'[k].drv = d
  BY <1>1 DEF DriversInv
<1>3. ASSUME NEW k \in Clients PROVE LockInv(k)'
  <2>1. LockInv(k)
    BY DEF DriversInv
  <2>2. CASE k = c
    BY <1>1, <2>2 DEF LockInv
  <2>3. CASE k # c
    <3>1. pc[k] # "idle" => call[k].h \in Handles
      BY CallsHaveHandles
    <3> QED
      BY <1>1, <2>1, <2>3, <3>1, NoneIsNone DEF LockInv
  <2> QED
    BY <2>2, <2>3
<1>4. ASSUME NEW k \in Clients PROVE JobInv(k)'
  <2>1. CASE k = c
    BY <1>1, <2>1 DEF JobInv, Running
  <2>2. CASE k # c
    <3>1. JobInv(k) /\ (job[k].at # "none" => job[k].pool # 0 /\ call[k].h \in Handles)
      <4>1. ClientInv(k) /\ JobInv(k)
        BY DEF ClientsInv, DriversInv
      <4>2. job[k].at # "none" => pc[k] # "idle"
        BY <4>1 DEF ClientInv, NoJob
      <4> QED
        BY <4>1, <4>2, CallsHaveHandles DEF ClientInv
    <3>2. pc'[k] = pc[k] /\ job'[k] = job[k] /\ call'[k] = call[k]
      BY <1>1, <2>2
    <3>3. job[k].at \in Running => job'[k].drv = adapter'[call[k].h].drv /\ job'[k].drv # 0
      BY <1>1, <3>1, <3>2 DEF JobInv, Running
    <3>4. CASE job[k].pool = adapter[call[k].h].pool
      BY <1>1, <3>1, <3>2, <3>3, <3>4 DEF JobInv, Running
    <3>5. ASSUME NEW g \in Clients, pc[g] = "drain", call[g].h = call[k].h, took[g] = job[k].pool
          PROVE  JobInv(k)'
      <4>1. g # c /\ pc'[g] = "drain" /\ call'[g] = call[g] /\ took'[g] = took[g]
        BY <1>1, <3>5
      <4> QED
        BY <3>2, <3>3, <3>5, <4>1 DEF JobInv
    <3>6. CASE job[k].at \notin Running \cup {"queued"}
      BY <3>2, <3>6 DEF JobInv
    <3> QED
      BY <3>1, <3>4, <3>5, <3>6 DEF JobInv
  <2> QED
    BY <2>1, <2>2
<1>5. ASSUME NEW k \in Handles PROVE AdapterInv(k)'
  <2>1. AdapterInv(k)
    BY DEF DriversInv
  <2>2. \A g \in Clients : pc[g] = "drain" => pc'[g] = "drain" /\ call'[g] = call[g]
    BY <1>1
  <2> QED
    BY <1>1, <2>1, <2>2 DEF AdapterInv
<1> QED
  BY <1>2, <1>3, <1>4, <1>5 DEF DriversInv

\* Client c, not draining, drops its job or leaves it behind, and may give back
\* the lock it holds.
LEMMA StepsBackDrivers ==
  ASSUME ClientsInv, DriversInv, NEW c \in Clients, pc[c] # "drain",
         pc'[c] \in {"idle", "lock", "left", "submit"},
         \/ job'[c] = NoJob
         \/ job'[c] = job[c] /\ call'[c] = call[c],
         \A k \in Clients \ {c} :
           pc'[k] = pc[k] /\ job'[k] = job[k] /\ call'[k] = call[k] /\ took'[k] = took[k],
         \/ adapter' = adapter
         \/ /\ pc[c] \in {"provision", "closing"}
            /\ adapter' = [adapter EXCEPT ![call[c].h] = Unlocked(adapter[call[c].h])],
         UNCHANGED <<open, dying>>
  PROVE  DriversInv'
<1>1. /\ \A h \in Handles :
            /\ adapter'[h].drv = adapter[h].drv /\ adapter'[h].closing = adapter[h].closing
            /\ adapter'[h].exists = adapter[h].exists /\ adapter'[h].schema = adapter[h].schema
            /\ adapter'[h].pool = adapter[h].pool
            /\ adapter'[h].lock = adapter[h].lock \/ adapter[h].lock = c
  <2>1. CASE adapter' = adapter
    BY <2>1
  <2>2. CASE /\ pc[c] \in {"provision", "closing"}
             /\ adapter' = [adapter EXCEPT ![call[c].h] = Unlocked(adapter[call[c].h])]
    <3>1. adapter[call[c].h].lock = c /\ call[c].h \in Handles
      BY <2>2, CallsHaveHandles DEF DriversInv, LockInv
    <3> QED
      BY <2>2, <3>1 DEF ClientsInv, TypeOK, Unlocked
  <2> QED
    BY <2>1, <2>2
<1>h. \A k \in Clients : pc[k] # "idle" => call[k].h \in Handles
  BY CallsHaveHandles
<1>2. \A d \in open' : d \in dying' \/ \E k \in Handles : adapter'[k].drv = d
  BY <1>1 DEF DriversInv
<1>3. ASSUME NEW k \in Clients PROVE LockInv(k)'
  <2>1. LockInv(k)
    BY DEF DriversInv
  <2>2. CASE k = c
    BY <2>2 DEF LockInv
  <2>3. CASE k # c
    BY <1>1, <1>h, <2>1, <2>3 DEF LockInv
  <2> QED
    BY <2>2, <2>3
<1>4. ASSUME NEW k \in Clients PROVE JobInv(k)'
  <2>1. JobInv(k) /\ ClientInv(k)
    BY DEF DriversInv, ClientsInv
  <2>2. CASE job'[k] = NoJob
    BY <2>2 DEF JobInv, NoJob, Running
  <2>3. CASE job'[k] = job[k] /\ call'[k] = call[k] /\ job[k].at # "none"
    <3>1. call[k].h \in Handles
      BY <1>h, <2>1, <2>3 DEF ClientInv, NoJob
    <3>2. \A g \in Clients : pc[g] = "drain" =>
            pc'[g] = "drain" /\ call'[g] = call[g] /\ took'[g] = took[g]
      OBVIOUS
    <3> QED
      BY <1>1, <2>1, <2>3, <3>1, <3>2 DEF JobInv
  <2>4. CASE job'[k] = job[k] /\ job[k].at = "none"
    BY <2>4 DEF JobInv, Running
  <2> QED
    BY <2>2, <2>3, <2>4
<1>5. ASSUME NEW k \in Handles PROVE AdapterInv(k)'
  <2>1. AdapterInv(k)
    BY DEF DriversInv
  <2>2. \A g \in Clients : pc[g] = "drain" => pc'[g] = "drain" /\ call'[g] = call[g]
    OBVIOUS
  <2> QED
    BY <1>1, <2>1, <2>2 DEF AdapterInv
<1> QED
  BY <1>2, <1>3, <1>4, <1>5 DEF DriversInv

\* A close takes the adapter's pool, and its jobs stay with it.
LEMMA CloseDrivers ==
  ASSUME ClientsInv, DriversInv, NEW c \in Clients, Acquire(c), call[c].op = "close"
  PROVE  DriversInv'
<1> DEFINE h == call[c].h
           a == adapter[h]
<1>h. h \in Handles /\ \A k \in Clients : pc[k] # "idle" => call[k].h \in Handles
  BY CallsHaveHandles DEF Acquire
<1>1. /\ pc[c] = "lock" /\ a.lock = None
      /\ pc' = [pc EXCEPT ![c] = "drain"]
      /\ took' = [took EXCEPT ![c] = a.pool]
      /\ adapter' = [adapter EXCEPT ![h] = [a EXCEPT !.lock = c, !.closing = TRUE, !.pool = 0]]
      /\ UNCHANGED <<job, call, open, dying>>
  BY DEF Acquire
<1>2. /\ pc'[c] = "drain" /\ took'[c] = a.pool
      /\ \A k \in Clients \ {c} : pc'[k] = pc[k] /\ took'[k] = took[k]
      /\ adapter'[h].lock = c /\ adapter'[h].closing /\ adapter'[h].pool = 0
      /\ \A k \in Handles :
           /\ adapter'[k].drv = adapter[k].drv
           /\ adapter'[k].exists = adapter[k].exists /\ adapter'[k].schema = adapter[k].schema
           /\ k # h => adapter'[k] = adapter[k]
  BY <1>1, <1>h DEF ClientsInv, TypeOK, Adapters
<1>3. \A d \in open' : d \in dying' \/ \E k \in Handles : adapter'[k].drv = d
  BY <1>1, <1>2 DEF DriversInv
<1>4. ASSUME NEW k \in Clients PROVE LockInv(k)'
  <2>1. LockInv(k)
    BY DEF DriversInv
  <2>2. CASE k = c
    BY <1>1, <1>2, <2>2 DEF LockInv
  <2>3. CASE k # c
    BY <1>h, <1>1, <1>2, <2>1, <2>3, NoneIsNone DEF LockInv
  <2> QED
    BY <2>2, <2>3
<1>5. ASSUME NEW k \in Clients PROVE JobInv(k)'
  <2>1. JobInv(k) /\ ClientInv(k)
    BY DEF DriversInv, ClientsInv
  <2>2. CASE job[k].at = "none"
    BY <1>1, <2>2 DEF JobInv, Running
  <2>3. CASE job[k].at # "none"
    <3>1. call[k].h \in Handles
      BY <1>h, <2>1, <2>3 DEF ClientInv, NoJob
    <3>2. job[k].at \in Running => job'[k].drv = adapter'[call[k].h].drv /\ job'[k].drv # 0
      BY <1>1, <1>2, <2>1, <3>1 DEF JobInv
    <3>3. CASE job[k].pool = adapter[call[k].h].pool
      BY <1>1, <1>2, <3>1, <3>2, <3>3 DEF JobInv
    <3>4. ASSUME NEW g \in Clients, pc[g] = "drain", call[g].h = call[k].h, took[g] = job[k].pool
          PROVE  JobInv(k)'
      BY <1>1, <1>2, <3>2, <3>4 DEF JobInv
    <3>5. CASE job[k].at \notin Running \cup {"queued"}
      BY <1>1, <3>5 DEF JobInv
    <3> QED
      BY <2>1, <3>3, <3>4, <3>5 DEF JobInv
  <2> QED
    BY <2>2, <2>3
<1>6. ASSUME NEW k \in Handles PROVE AdapterInv(k)'
  <2>1. AdapterInv(k)
    BY DEF DriversInv
  <2> QED
    BY <1>1, <1>2, <2>1 DEF AdapterInv
<1> QED
  BY <1>3, <1>4, <1>5, <1>6 DEF DriversInv

\* A close that has drained its pool leaves no job of its adapter at work: all were in
\* that pool.
LEMMA DrainedAdapterRests ==
  ASSUME ClientsInv, DriversInv, NEW c \in Clients, pc[c] = "drain",
         took[c] = 0 \/ Drained(took[c]),
         NEW k \in Clients, call[k].h = call[c].h
  PROVE  job[k].at \notin Running \cup {"queued"}
<1> SUFFICES ASSUME job[k].at \in Running \cup {"queued"} PROVE FALSE
  OBVIOUS
<1>1. adapter[call[c].h].lock = c /\ adapter[call[c].h].pool = 0
  BY DEF DriversInv, LockInv
<1>2. job[k].pool # 0
  BY DEF ClientsInv, ClientInv, Running
<1>3. PICK g \in Clients : pc[g] = "drain" /\ call[g].h = call[c].h /\ took[g] = job[k].pool
  BY <1>1, <1>2 DEF DriversInv, JobInv
<1>4. g = c
  BY <1>1, <1>3 DEF DriversInv, LockInv
<1>5. job[k].at \in Outcomes
  BY <1>2, <1>3, <1>4 DEF Drained
<1> QED
  BY <1>5 DEF Outcomes, Running

LEMMA FinishDrivers ==
  ASSUME ClientsInv, DriversInv, NEW c \in Clients, Finish(c)
  PROVE  DriversInv'
<1> DEFINE h == call[c].h
           d == adapter[h].drv
<1>h. h \in Handles /\ \A k \in Clients : pc[k] # "idle" => call[k].h \in Handles
  BY CallsHaveHandles DEF Finish
<1>1. /\ pc[c] = "drain"
      /\ took[c] = 0 \/ Drained(took[c])
      /\ dying' = dying \cup ({d} \ {0})
      /\ UNCHANGED <<open, call, job>>
  BY DEF Finish
<1>2. /\ pc'[c] = "closing"
      /\ \A k \in Clients \ {c} : pc'[k] = pc[k] /\ took'[k] = took[k]
      /\ adapter'[h].lock = c /\ adapter'[h].drv = 0 /\ ~adapter'[h].closing
      /\ ~adapter'[h].exists /\ ~adapter'[h].schema
      /\ \A k \in Handles : k # h => adapter'[k] = adapter[k]
  BY <1>h DEF Finish, ClientsInv, TypeOK, Unopened
<1>3. LockInv(c) /\ \A k \in Clients \ {c} :
        pc[k] \in {"provision", "drain", "closing"} => call[k].h # h
  BY <1>1 DEF DriversInv, LockInv
<1>4. \A x \in open' : x \in dying' \/ \E k \in Handles : adapter'[k].drv = x
  <2>1. 0 \notin open
    BY DEF ClientsInv, TypeOK, Ids
  <2> QED
    BY <1>h, <1>1, <1>2, <2>1 DEF DriversInv
<1>5. ASSUME NEW k \in Clients PROVE LockInv(k)'
  <2>1. LockInv(k)
    BY DEF DriversInv
  <2> QED
    BY <1>h, <1>1, <1>2, <1>3, <2>1 DEF LockInv
<1>6. ASSUME NEW k \in Clients PROVE JobInv(k)'
  <2>1. JobInv(k) /\ ClientInv(k)
    BY DEF DriversInv, ClientsInv
  <2>2. CASE job[k].at \notin Running \cup {"queued"}
    BY <1>1, <2>2 DEF JobInv
  <2>3. CASE job[k].at \in Running \cup {"queued"}
    <3>1. call[k].h \in Handles /\ call[k].h # h
      BY <1>h, <1>1, <2>1, <2>3, DrainedAdapterRests DEF ClientInv, NoJob, Running
    <3>2. \A g \in Clients : pc[g] = "drain" /\ call[g].h = call[k].h =>
            g # c /\ pc'[g] = "drain" /\ took'[g] = took[g]
      BY <1>2, <3>1
    <3> QED
      BY <1>1, <1>2, <2>1, <3>1, <3>2 DEF JobInv
  <2> QED
    BY <2>2, <2>3
<1>7. ASSUME NEW k \in Handles PROVE AdapterInv(k)'
  <2>1. AdapterInv(k)
    BY DEF DriversInv
  <2> QED
    BY <1>1, <1>2, <2>1 DEF AdapterInv
<1> QED
  BY <1>4, <1>5, <1>6, <1>7 DEF DriversInv

\* A job enters the pool of its adapter, whose attributes stay.
LEMMA JobEntersDrivers ==
  ASSUME ClientsInv, DriversInv, NEW c \in Clients, NEW h \in Handles,
         NEW kind \in {"contains", "read", "write", "drop"}, Enter(c, h, adapter[h], kind),
         pc[c] \notin {"provision", "drain", "closing"},
         call'[c].h = h, \A k \in Clients \ {c} : call'[k] = call[k],
         UNCHANGED <<open, dying, took>>
  PROVE  DriversInv'
<1>1. adapter[h] \in Adapters
  BY DEF ClientsInv, TypeOK, Adapters
<1>2. kind \in {"contains", "read", "provision", "write", "drop"} /\ kind # "provision"
  OBVIOUS
<1> QED
  BY <1>1, <1>2, EnterDrivers

LEMMA CallBeginsDrivers ==
  ASSUME ClientsInv, DriversInv, NEW c \in Clients, CallBegins(c)
  PROVE  DriversInv'
<1>1. ASSUME NEW h \in Handles, NEW op, Begins(c, op, h)
      PROVE  /\ pc[c] = "idle" /\ job[c] = NoJob
             /\ call'[c].h = h /\ \A k \in Clients \ {c} : call'[k] = call[k]
             /\ UNCHANGED <<open, dying, took>>
  BY <1>1 DEF Begins, ClientsInv, TypeOK, ClientInv
<1>2. ASSUME NEW h \in Handles, Read(c, h) PROVE DriversInv'
  <2>1. PICK kind \in {"contains", "read"} : Enter(c, h, adapter[h], kind)
    BY <1>2 DEF Read
  <2> QED
    BY <1>1, <1>2, <2>1, JobEntersDrivers DEF Read
<1>3. ASSUME NEW h \in Handles, Drop(c, h) PROVE DriversInv'
  BY <1>1, <1>3, JobEntersDrivers DEF Drop
<1>4. ASSUME NEW h \in Handles, Write(c, h) \/ Close(c, h) PROVE DriversInv'
  <2>1. /\ pc'[c] \in {"lock", "submit"} /\ job' = job /\ adapter' = adapter
        /\ \A k \in Clients \ {c} : pc'[k] = pc[k]
    BY <1>4 DEF Write, Close, ClientsInv, TypeOK
  <2>2. /\ pc[c] = "idle" /\ job[c] = NoJob
        /\ \A k \in Clients \ {c} : call'[k] = call[k]
        /\ UNCHANGED <<open, dying, took>>
    BY <1>1, <1>4 DEF Write, Close
  <2> QED
    BY <2>1, <2>2, StepsBackDrivers
<1> QED
  BY <1>2, <1>3, <1>4, AdaptersAreHandles DEF CallBegins

LEMMA AcquireDrivers ==
  ASSUME ClientsInv, DriversInv, NEW c \in Clients, Acquire(c)
  PROVE  DriversInv'
<1> DEFINE h == call[c].h
           a == adapter[h]
<1>1. /\ h \in Handles /\ a \in Adapters /\ job[c] = NoJob
      /\ pc[c] = "lock" /\ a.lock = None
      /\ UNCHANGED <<open, dying, call>>
  BY CallsHaveHandles DEF Acquire, ClientsInv, ClientInv
<1>2. CASE pc' = [pc EXCEPT ![c] = "submit"] /\ UNCHANGED <<adapter, took, job>>
  <2>1. pc'[c] = "submit" /\ \A k \in Clients \ {c} : pc'[k] = pc[k]
    BY <1>2 DEF ClientsInv, TypeOK
  <2> QED
    BY <1>1, <1>2, <2>1, StepsBackDrivers
<1>3. CASE Enter(c, h, [a EXCEPT !.lock = c], "provision") /\ UNCHANGED took
  <2>1. PICK b \in Adapters :
          /\ b.drv = a.drv /\ b.pool = a.pool /\ b.closing = a.closing
          /\ b.exists = a.exists /\ b.schema = a.schema /\ b.lock = c
          /\ Enter(c, h, b, "provision")
    <3>1. [a EXCEPT !.lock = c] \in Adapters
      BY <1>1 DEF Adapters
    <3> QED
      BY <1>1, <1>3, <3>1 DEF Adapters
  <2> QED
    BY <1>1, <1>3, <2>1, EnterDrivers
<1>4. CASE call[c].op = "close"
  BY <1>4, CloseDrivers
<1> QED
  BY <1>2, <1>3, <1>4 DEF Acquire

\* A client's call is over and its adapter stays, or is unlocked.
LEMMA LeavesDrivers ==
  ASSUME ClientsInv, DriversInv, NEW c \in Clients, Leaves(c), pc[c] # "drain",
         \/ adapter' = adapter
         \/ /\ pc[c] \in {"provision", "closing"}
            /\ adapter' = [adapter EXCEPT ![call[c].h] = Unlocked(adapter[call[c].h])],
         \A k \in Clients \ {c} : took'[k] = took[k],
         UNCHANGED <<open, dying>>
  PROVE  DriversInv'
<1>1. /\ pc'[c] = "idle" /\ job'[c] = NoJob
      /\ \A k \in Clients \ {c} : pc'[k] = pc[k] /\ job'[k] = job[k] /\ call'[k] = call[k]
  BY DEF Leaves, ClientsInv, TypeOK
<1> QED
  BY <1>1, StepsBackDrivers

LEMMA SubmitDrivers ==
  ASSUME ClientsInv, DriversInv, NEW c \in Clients, Submit(c)
  PROVE  DriversInv'
<1>1. call[c].h \in Handles /\ pc[c] = "submit" /\ UNCHANGED <<open, dying, took>>
  BY CallsHaveHandles DEF Submit
<1>2. CASE Enter(c, call[c].h, adapter[call[c].h], "write") /\ UNCHANGED call
  BY <1>1, <1>2, JobEntersDrivers
<1>3. CASE Leaves(c) /\ UNCHANGED adapter
  BY <1>1, <1>3, LeavesDrivers
<1> QED
  BY <1>2, <1>3 DEF Submit

LEMMA ResumeDrivers ==
  ASSUME ClientsInv, DriversInv, NEW c \in Clients, Resume(c)
  PROVE  DriversInv'
<1> DEFINE h == call[c].h
           a == adapter[h]
<1>1. h \in Handles /\ UNCHANGED <<open, dying, took>>
  BY CallsHaveHandles DEF Resume
<1>2. CASE pc[c] = "contains" /\ Enter(c, h, a, "read") /\ UNCHANGED call
  BY <1>1, <1>2, JobEntersDrivers
<1>3. CASE /\ pc[c] \in {"contains", "read", "write", "drop", "left"}
           /\ Leaves(c) /\ UNCHANGED adapter
  BY <1>1, <1>3, LeavesDrivers
<1>4. CASE pc[c] = "provision" /\ adapter' = [adapter EXCEPT ![h] = Unlocked(a)] /\ Leaves(c)
  BY <1>1, <1>4, LeavesDrivers
<1>5. CASE /\ pc[c] = "provision" /\ adapter' = [adapter EXCEPT ![h] = Unlocked(a)]
           /\ pc' = [pc EXCEPT ![c] = "submit"]
           /\ job' = [job EXCEPT ![c] = NoJob]
           /\ UNCHANGED call
  <2>1. /\ pc'[c] = "submit" /\ job'[c] = NoJob
        /\ \A k \in Clients \ {c} : pc'[k] = pc[k] /\ job'[k] = job[k]
    BY <1>5 DEF ClientsInv, TypeOK
  <2> QED
    BY <1>1, <1>5, <2>1, StepsBackDrivers
<1> QED
  BY <1>2, <1>3, <1>4, <1>5 DEF Resume

LEMMA CloseReturnsDrivers ==
  ASSUME ClientsInv, DriversInv, NEW c \in Clients, CloseReturns(c)
  PROVE  DriversInv'
<1>1. /\ pc[c] = "closing" /\ Leaves(c) /\ UNCHANGED <<open, dying>>
      /\ adapter' = [adapter EXCEPT ![call[c].h] = Unlocked(adapter[call[c].h])]
      /\ \A k \in Clients \ {c} : took'[k] = took[k]
  BY DEF CloseReturns, ClientsInv, TypeOK
<1> QED
  BY <1>1, LeavesDrivers

\* Where no close() is cancelled, a cancelled call holds no pool and no driver.
LEMMA CancelDrivers ==
  ASSUME CloseRuns, ClientsInv, DriversInv, NEW c \in Clients, Cancel(c)
  PROVE  DriversInv'
<1>1. pc[c] \notin {"drain", "closing"}
  BY DEF CloseRuns, Cancel, ClientsInv, ClientInv
<1>2. UNCHANGED <<open, dying, took>>
  BY <1>1 DEF Cancel
<1>3. \/ adapter' = adapter
      \/ /\ pc[c] = "provision"
         /\ adapter' = [adapter EXCEPT ![call[c].h] = Unlocked(adapter[call[c].h])]
  BY <1>1 DEF Cancel, ClientsInv, TypeOK
<1>4. CASE Leaves(c)
  BY <1>1, <1>2, <1>3, <1>4, LeavesDrivers
<1>5. CASE pc' = [pc EXCEPT ![c] = "left"] /\ UNCHANGED <<call, job>>
  <2>1. pc'[c] = "left" /\ \A k \in Clients \ {c} : pc'[k] = pc[k]
    BY <1>5 DEF ClientsInv, TypeOK
  <2> QED
    BY <1>1, <1>2, <1>3, <1>5, <2>1, StepsBackDrivers
<1> QED
  BY <1>1, <1>4, <1>5 DEF Cancel

\* The job of c turns, the driver of its adapter with it, and no pool, lock or await changes.
LEMMA JobTurnsDrivers ==
  ASSUME ClientsInv, DriversInv, NEW c \in Clients, job[c].at \in Running \cup {"queued"},
         UNCHANGED <<dying, pc, call, took>>,
         \A k \in Handles :
           /\ adapter'[k].pool = adapter[k].pool
           /\ adapter'[k].closing = adapter[k].closing /\ adapter'[k].lock = adapter[k].lock
           /\ k # call[c].h => adapter'[k] = adapter[k]
           /\ adapter'[k].drv # adapter[k].drv => adapter[k].drv = 0
           /\ adapter'[k].exists \/ adapter'[k].schema =>
                adapter[k].exists \/ adapter[k].schema \/ adapter'[k].drv # 0,
         \A k \in Clients \ {c} : job'[k] = job[k],
         job'[c].at \notin {"none", "queued"}, job'[c].pool = job[c].pool,
         job'[c].at \in Running =>
           job'[c].drv = adapter'[call[c].h].drv /\ job'[c].drv # 0,
         open' = open \cup ({adapter'[call[c].h].drv} \ {0})
  PROVE  DriversInv'
<1>h. \A k \in Clients : job[k].at # "none" => call[k].h \in Handles
  BY CallsHaveHandles DEF ClientsInv, ClientInv, NoJob
<1>l. \A k \in Clients : pc[k] # "idle" => call[k].h \in Handles
  BY CallsHaveHandles
<1>1. call[c].h \in Handles
  BY <1>h DEF Running
<1>2. \A d \in open' : d \in dying' \/ \E k \in Handles : adapter'[k].drv = d
  <2>1. 0 \notin open
    BY DEF ClientsInv, TypeOK, Ids
  <2>2. ASSUME NEW d \in open PROVE d \in dying' \/ \E k \in Handles : adapter'[k].drv = d
    BY <2>1 DEF DriversInv
  <2> QED
    BY <1>1, <2>2
<1>3. ASSUME NEW k \in Clients PROVE LockInv(k)'
  BY <1>l DEF DriversInv, LockInv
<1>4. ASSUME NEW k \in Clients PROVE JobInv(k)'
  <2>1. JobInv(k) /\ JobInv(c)
    BY DEF DriversInv
  <2>2. CASE k = c
    BY <1>1, <2>1, <2>2 DEF JobInv
  <2>3. CASE k # c
    <3>1. job[k].at \in Running => adapter'[call[k].h].drv = adapter[call[k].h].drv
      BY <1>h, <2>1 DEF JobInv, Running
    <3> QED
      BY <1>h, <2>1, <2>3, <3>1 DEF JobInv, Running
  <2> QED
    BY <2>2, <2>3
<1>5. ASSUME NEW k \in Handles PROVE AdapterInv(k)'
  <2>1. AdapterInv(k)
    BY DEF DriversInv
  <2> QED
    BY <2>1 DEF AdapterInv
<1> QED
  BY <1>2, <1>3, <1>4, <1>5 DEF DriversInv

LEMMA StartDrivers ==
  ASSUME ClientsInv, DriversInv, NEW c \in Clients, Start(c)
  PROVE  DriversInv'
<1> DEFINE h == call[c].h
           a == adapter[h]
           d == IF a.drv = 0 THEN Fresh(Drivers) ELSE a.drv
<1>1. /\ h \in Handles /\ a \in Adapters /\ OwnDriver(h) /\ 0 \notin open
      /\ job[c].at = "queued" /\ job[c] \in Jobs
      /\ UNCHANGED <<dying, pc, call, took>>
  <2>1. job[c].at = "queued" /\ UNCHANGED <<dying, pc, call, took>>
    BY DEF Start
  <2>2. pc[c] # "idle"
    BY <2>1 DEF ClientsInv, ClientInv, NoJob
  <2>3. h \in Handles /\ OwnDriver(h)
    BY <2>2, CallsHaveHandles DEF ClientsInv
  <2>4. a \in Adapters /\ job[c] \in Jobs /\ 0 \notin open
    BY <2>3 DEF ClientsInv, TypeOK, Adapters, Jobs, Ids
  <2> QED
    BY <2>1, <2>3, <2>4
<1>t. job \in [Clients -> Jobs] /\ adapter \in [Handles -> Adapters]
  BY DEF ClientsInv, TypeOK, Jobs, Adapters
<1>2. CASE /\ job' = [job EXCEPT ![c].at = "using", ![c].drv = d]
           /\ adapter' = [adapter EXCEPT ![h].drv = d]
           /\ open' = open \cup {d}
  <2>1. d # 0
    BY FreshIsFresh, UsedAreFinite DEF ClientsInv, Ids
  <2>2. /\ \A k \in Handles :
             /\ adapter'[k].drv = IF k = h THEN d ELSE adapter[k].drv
             /\ adapter'[k].pool = adapter[k].pool
             /\ adapter'[k].closing = adapter[k].closing /\ adapter'[k].lock = adapter[k].lock
             /\ adapter'[k].exists = adapter[k].exists /\ adapter'[k].schema = adapter[k].schema
             /\ k # h => adapter'[k] = adapter[k]
    BY <1>1, <1>2, <1>t DEF Adapters
  <2>3. /\ \A k \in Clients \ {c} : job'[k] = job[k]
        /\ job'[c].at = "using" /\ job'[c].drv = d /\ job'[c].pool = job[c].pool
    BY <1>2, <1>t DEF Jobs
  <2>4. open' = open \cup ({adapter'[h].drv} \ {0})
    BY <1>1, <1>2, <2>1, <2>2
  <2>5. \A k \in Handles : adapter'[k].drv # adapter[k].drv => adapter[k].drv = 0
    BY <2>2
  <2> QED
    BY <1>1, <2>1, <2>2, <2>3, <2>4, <2>5, JobTurnsDrivers
<1>3. CASE job' = [job EXCEPT ![c].at = "error"] /\ UNCHANGED <<adapter, open>>
  <2>1. /\ \A k \in Clients \ {c} : job'[k] = job[k]
        /\ job'[c].at = "error" /\ job'[c].pool = job[c].pool
    BY <1>3, <1>t DEF Jobs
  <2>2. open' = open \cup ({adapter'[h].drv} \ {0})
    BY <1>1, <1>3 DEF OwnDriver
  <2> QED
    BY <1>1, <1>3, <2>1, <2>2, JobTurnsDrivers DEF Running
<1> QED
  BY <1>2, <1>3 DEF Start

\* A job at work learns through its adapter's driver.
LEMMA WorkerDrivers ==
  ASSUME ClientsInv, DriversInv, NEW c \in Clients, WorkerStep(c)
  PROVE  DriversInv'
<1> DEFINE h == call[c].h
<1>1. PICK at \in Running \cup Outcomes : Turns(c, at)
  BY WorkerTurns
<1>2. /\ job[c].at \in Running /\ h \in Handles
      /\ job[c].drv = adapter[h].drv /\ adapter[h].drv # 0 /\ adapter[h].drv \in open
  BY WorkerTurns, WorkerLearns DEF DriversInv, JobInv, ClientsInv, OwnDriver
<1>3. /\ \A k \in Clients \ {c} : job'[k] = job[k]
      /\ job'[c].at \notin {"none", "queued"}
      /\ job'[c].pool = job[c].pool /\ job'[c].drv = job[c].drv
      /\ UNCHANGED <<open, dying, pc, call, took>>
  <2>1. job \in [Clients -> Jobs]
    BY DEF ClientsInv, TypeOK, Jobs
  <2>2. at \notin {"none", "queued"}
    BY DEF Running, Outcomes
  <2> QED
    BY <1>1, <2>1, <2>2 DEF Turns, Jobs
<1>4. \A k \in Handles :
        /\ adapter'[k].drv = adapter[k].drv /\ adapter'[k].pool = adapter[k].pool
        /\ adapter'[k].closing = adapter[k].closing /\ adapter'[k].lock = adapter[k].lock
        /\ k # h => adapter'[k] = adapter[k]
  BY WorkerLearns
<1>5. \A k \in Handles :
        adapter'[k].exists \/ adapter'[k].schema =>
          adapter[k].exists \/ adapter[k].schema \/ adapter'[k].drv # 0
  BY <1>2, <1>4
<1>6. open' = open \cup ({adapter'[h].drv} \ {0})
  BY <1>2, <1>3, <1>4
<1> QED
  BY <1>2, <1>3, <1>4, <1>5, <1>6, JobTurnsDrivers

LEMMA InitDrivers == Init => DriversInv
<1> SUFFICES ASSUME Init PROVE DriversInv
  OBVIOUS
<1>1. ASSUME NEW c \in Clients PROVE LockInv(c) /\ JobInv(c)
  BY DEF Init, LockInv, JobInv, NoJob, Running
<1>2. ASSUME NEW h \in Handles PROVE AdapterInv(h)
  BY DEF Init, AdapterInv, Unopened
<1> QED
  BY <1>1, <1>2 DEF Init, DriversInv

LEMMA StepDrivers ==
  ASSUME CloseRuns
  PROVE  ClientsInv /\ DriversInv /\ [Next]_vars => DriversInv'
<1> SUFFICES ASSUME ClientsInv, DriversInv, [Next]_vars PROVE DriversInv'
  OBVIOUS
<1>1. ASSUME NEW c \in Clients, CallBegins(c) PROVE DriversInv'
  BY <1>1, CallBeginsDrivers
<1>2. ASSUME NEW c \in Clients, Progress(c) PROVE DriversInv'
  BY <1>2, AcquireDrivers, SubmitDrivers, ResumeDrivers, FinishDrivers, CloseReturnsDrivers,
     StartDrivers, WorkerDrivers DEF Progress, ClientStep
<1>3. ASSUME NEW c \in Clients, Cancel(c) PROVE DriversInv'
  BY <1>3, CancelDrivers
<1>4. ASSUME NEW d \in dying, DriverCloses(d) PROVE DriversInv'
  BY <1>4 DEF DriverCloses, DriversInv, LockInv, JobInv, AdapterInv
<1>5. CASE UNCHANGED vars
  BY <1>5 DEF vars, DriversInv, LockInv, JobInv, AdapterInv
<1> QED
  BY <1>1, <1>2, <1>3, <1>4, <1>5 DEF Next

LEMMA DriversInvariance ==
  ASSUME CloseRuns
  PROVE  Spec => [](ClientsInv /\ DriversInv)
<1>1. CloseRuns
  OBVIOUS
<1>2. ClientsInv /\ DriversInv /\ [Next]_vars => DriversInv'
  BY <1>1, StepDrivers
<1> QED
  BY <1>2, InitDrivers, ClientsInvariance, PTL DEF Spec

-----------------------------------------------------------------------------
(* What close() promises, where none is cancelled.                         *)

\* Each driver open is an adapter's, or being closed: none is lost.
THEOREM NoDriverIsLost == CloseRuns => (Spec => []NoDriverLeft)
<1> SUFFICES ASSUME CloseRuns PROVE Spec => []NoDriverLeft
  OBVIOUS
<1>1. DriversInv => NoDriverLeft
  BY DEF DriversInv, NoDriverLeft
<1> QED
  BY <1>1, DriversInvariance, PTL

\* No transaction of a job at work has its driver closed under it.
THEOREM WorkersKeepTheirDriver == CloseRuns => (Spec => []WorkersHaveTheirDriver)
<1> SUFFICES ASSUME CloseRuns PROVE Spec => []WorkersHaveTheirDriver
  OBVIOUS
<1>1. ClientsInv /\ DriversInv => WorkersHaveTheirDriver
  <2> SUFFICES ASSUME ClientsInv, DriversInv, NEW c \in Clients, job[c].at \in Running
               PROVE  job[c].drv \in open \ dying
    BY DEF WorkersHaveTheirDriver
  <2>1. ClientInv(c) /\ JobInv(c)
    BY DEF ClientsInv, DriversInv
  <2>2. call[c].h \in Handles
    BY <2>1, CallsHaveHandles DEF ClientInv, NoJob, Running
  <2> QED
    BY <2>1, <2>2 DEF ClientsInv, OwnDriver, JobInv
<1> QED
  BY <1>1, DriversInvariance, PTL

\* An adapter knows nothing of the database without the driver it learnt it through.
THEOREM KnowledgeEndsWithDriver == CloseRuns => (Spec => []KnowledgeGoesWithDriver)
<1> SUFFICES ASSUME CloseRuns PROVE Spec => []KnowledgeGoesWithDriver
  OBVIOUS
<1>1. DriversInv => KnowledgeGoesWithDriver
  BY DEF DriversInv, AdapterInv, KnowledgeGoesWithDriver
<1> QED
  BY <1>1, DriversInvariance, PTL

\* Only the worker's own start takes a queued job to work.
LEMMA OnlyStartUses ==
  ASSUME ClientsInv, [Next]_vars, NEW c \in Clients,
         job[c].at = "queued", job'[c].at = "using"
  PROVE  Start(c)
<1>t. job \in [Clients -> Jobs] /\ \A h \in Handles : adapter[h] \in Adapters
  BY DEF ClientsInv, TypeOK, Jobs, Adapters
<1>1. ASSUME NEW k \in Clients, CallBegins(k) PROVE FALSE
  <2>1. ASSUME NEW h \in Handles, NEW kind, Enter(k, h, adapter[h], kind) PROVE FALSE
    BY <1>t, <2>1, EnterKeeps
  <2>2. CASE \E h \in Handles : Write(k, h) \/ Close(k, h)
    BY <2>2 DEF Write, Close
  <2> QED
    BY <1>1, <2>1, <2>2, AdaptersAreHandles DEF CallBegins, Read, Drop
<1>2. ASSUME NEW k \in Clients, Acquire(k) \/ Submit(k) \/ Resume(k) PROVE FALSE
  <2>1. call[k].h \in Handles /\ adapter[call[k].h] \in Adapters
    <3>1. pc[k] # "idle"
      BY <1>2 DEF Acquire, Submit, Resume
    <3> QED
      BY <3>1, CallsHaveHandles
  <2>2. ASSUME NEW a \in Adapters, NEW kind, Enter(k, call[k].h, a, kind) PROVE FALSE
    BY <2>1, <2>2, EnterKeeps
  <2>3. [adapter[call[k].h] EXCEPT !.lock = k] \in Adapters
    BY <2>1 DEF Adapters
  <2>4. CASE job' = [job EXCEPT ![k] = NoJob] \/ UNCHANGED job
    BY <1>t, <2>4 DEF NoJob
  <2> QED
    BY <1>2, <2>1, <2>2, <2>3, <2>4 DEF Acquire, Submit, Resume, Leaves
<1>3. ASSUME NEW k \in Clients, Finish(k) \/ CloseReturns(k) \/ Cancel(k) PROVE FALSE
  BY <1>3, <1>t DEF Finish, CloseReturns, Cancel, Leaves, NoJob
<1>4. ASSUME NEW k \in Clients, Start(k) PROVE Start(c)
  <2>1. job'[c] # job[c]
    OBVIOUS
  <2> QED
    BY <1>4, <1>t, <2>1 DEF Start
<1>5. ASSUME NEW k \in Clients, WorkerStep(k) PROVE FALSE
  <2>1. job[k].at \in Running /\ \E at : Turns(k, at)
    BY <1>5, WorkerTurns
  <2> QED
    BY <1>t, <2>1 DEF Turns, Running
<1>6. ASSUME NEW d \in dying, DriverCloses(d) PROVE FALSE
  BY <1>6 DEF DriverCloses
<1>7. CASE UNCHANGED vars
  BY <1>7 DEF vars
<1> QED
  BY <1>1, <1>2, <1>3, <1>4, <1>5, <1>6, <1>7 DEF Next, Progress, ClientStep

\* No worker opens a driver while a close drains the pool it took.
THEOREM NoneOpensWhileDraining == CloseRuns => (Spec => NoDriverWhileDraining)
<1> SUFFICES ASSUME CloseRuns PROVE Spec => NoDriverWhileDraining
  OBVIOUS
<1> DEFINE Safe == \A c \in Clients :
       job[c].at = "queued" /\ job'[c].at = "using" /\ job[c].pool # adapter[call[c].h].pool
         => open' = open
<1>1. ClientsInv /\ DriversInv /\ [Next]_vars => [Safe]_vars
  <2> SUFFICES ASSUME ClientsInv, DriversInv, [Next]_vars, NEW c \in Clients,
                      job[c].at = "queued", job'[c].at = "using",
                      job[c].pool # adapter[call[c].h].pool
               PROVE  open' = open
    OBVIOUS
  <2>1. Start(c)
    BY OnlyStartUses
  <2>2. adapter[call[c].h].closing
    <3>1. PICK k \in Clients : pc[k] = "drain" /\ call[k].h = call[c].h
      BY DEF DriversInv, JobInv
    <3> QED
      BY <3>1 DEF DriversInv, LockInv
  <2>3. adapter[call[c].h].drv # 0 => adapter[call[c].h].drv \in open
    <3>1. call[c].h \in Handles
      BY CallsHaveHandles DEF ClientsInv, ClientInv, NoJob
    <3> QED
      BY <3>1 DEF ClientsInv, OwnDriver
  <2> QED
    BY <2>1, <2>2, <2>3 DEF Start
<1>2. Spec => [][Safe]_vars
  BY <1>1, DriversInvariance, PTL DEF Spec
<1> QED
  BY <1>2 DEF NoDriverWhileDraining
=============================================================================
