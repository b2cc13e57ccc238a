------------------------- MODULE VectorStoresProofs -------------------------
(* What the adapters of databases owe their callers: the inductive invariant, *)
(* what a step of an adapter has to show for it, and the steps of the twelve  *)
(* adapters for vectors, for any clients, engines, databases, collections and *)
(* ids, any calls and any number of failures.                                 *)
EXTENDS VectorStores, TLAPS

CallFields == {"op", "coll", "ids", "rev", "pc", "todo", "tries", "clean", "found", "result"}

ServerFields == {"colls", "ready", "points", "nodes", "edges"}

TypeInv ==
    /\ provider \in Providers
    /\ engine \in [Clients -> Engines] /\ database \in [Engines -> Databases]
    /\ ServerFields \subseteq DOMAIN server
    /\ DOMAIN call = Clients /\ DOMAIN memo = Engines
    /\ \A c \in Clients : DOMAIN call[c] = CallFields /\ (Running(c) => IsJob(provider, call[c]))
    /\ faults \in Nat

\* No running call may replace or remove what is due.
DueIsFree == \A c \in Clients : Running(c) => \A p \in due : ~Claimed(c, call[c], p)

\* No call that runs with a clean one disturbs it.
CleanIsFree ==
    \A c, d \in Clients : c # d /\ Running(c) /\ Running(d) /\ call[c].clean 
        => ~Disturbs(d, call[d], c, call[c])

Settled(p) == IF p.rev # 0 \/ p.id = None THEN Stored(p) ELSE Gone(p)

DueIsSettled == \A p \in due : Settled(p)

\* The adapters whose calls go on alone; the one file of networkx is saved by
\* whoever comes last.
Several == provider # "networkx"

----------------------------------------------------------------------------
(* Steps of a call.                                                          *)

Same == UNCHANGED <<provider, engine, database>> /\ faults' \in Nat /\ faults' >= faults

\* The call of c is about what job is about.
Becomes(c, job) ==
    /\ call'[c].op = job.op /\ call'[c].ids = job.ids /\ call'[c].rev = job.rev
    /\ call'[c].coll = job.coll \/ job.op = "prune"

\* The call of c goes on, or has come to an end.
Keeps(c) ==
    /\ DOMAIN call'[c] = CallFields
    /\ call'[c].op = "none" \/ (Becomes(c, call[c]) /\ (call'[c].clean => call[c].clean))

\* Calls go on or come to an end, and nothing more becomes due.
GoesOn ==
    /\ DOMAIN call' = Clients /\ \A c \in Clients : Keeps(c)
    /\ due' \subseteq due /\ untold \subseteq untold'

\* A call returns, and what it has written or removed is as it should be.
EndsWell(c) ==
    /\ Running(c) /\ untold \subseteq untold'
    /\ \E result : /\ Leaves(c, result)
                   /\ result = "ok" /\ call[c].clean => \A p \in Aims(c, call[c]) : Settled(p)'

\* A step of a call as it should be: what is due is left alone.
Moves(c) ==
    /\ GoesOn \/ EndsWell(c)
    /\ \A p \in due \cap due' : Settled(p) => Settled(p)'
    /\ ServerFields \subseteq DOMAIN server' /\ DOMAIN memo' = Engines

\* A call that is still about the same job claims the same.
LEMMA BecomesClaims ==
  ASSUME Several, Same, NEW c, NEW job, Becomes(c, job)
  PROVE \A p : Claimed(c, call[c], p)' <=> Claimed(c, job, p)
BY DEF Several, Same, Becomes, Claimed, Deed, Db, Created, PointsAreNodes

\* Which calls aim at nodes and edges.
LEMMA AimedAt ==
  ASSUME NEW c, IsJob(provider, call[c]), NEW p \in Aims(c, call[c])
  PROVE /\ p.coll = "node" /\ p.rev # 0
             => Deed(call[c].op) \in {"add_node", "add_nodes"} /\ p.id \in call[c].ids
        /\ p.coll = "edge" => call[c].op \in {"add_edge", "add_edges"} /\ p.id \in call[c].ids
<1> DEFINE op == Deed(call[c].op)
<1>1. CASE op \in {"put", "delete", "create"}
  <2>1. call[c].op \in {"put", "delete", "create"}
    BY <1>1 DEF Deed
  <2> QED BY <1>1, <2>1, StoresAssumption DEF Aims, IsJob, Created
<1>2. CASE op \in {"add_node", "add_nodes", "delete_node", "delete_nodes"}
  <2>1. call[c].ids \subseteq Ids \/ op \in {"delete_node", "delete_nodes"}
    BY <1>2 DEF Deed, IsJob
  <2>2. ASSUME p \in Vectors(c, call[c]), op \in {"add_node", "add_nodes"}
        PROVE p.coll \in Collections
    BY <2>1, <2>2, StoreAssumption DEF Vectors
  <2> QED BY <1>2, <2>2, StoresAssumption DEF Aims, NodeMark
<1>3. CASE op \in {"add_edge", "add_edges"}
  <2>1. call[c].op = op
    BY <1>3 DEF Deed
  <2> QED BY <1>3, <2>1 DEF Aims, EdgeMark
<1>4. CASE op \in {"weigh_nodes", "judge_nodes", "weigh_edges", "remove_tags"}
  BY <1>4 DEF Aims, WeightMark, TruthMark, TagMark
<1> QED BY <1>1, <1>2, <1>3, <1>4 DEF Aims

\* What becomes due when a call returns adds nothing to the aims of a clean one.
LEMMA BecomesAims ==
  ASSUME Several, Same, NEW c, NEW d, NEW job, Becomes(d, job), IsJob(provider, call[c]), IsJob(provider, job),
         \/ due' \subseteq due
         \/ due' \subseteq due \cup Aims(c, call[c]) /\ ~Links(job, call[c]) /\ ~Misses(job, call[c])
  PROVE Aims(d, call[d])' \subseteq Aims(d, job)
<1> DEFINE op == Deed(job.op)
<1>1. Deed(call[d].op)' = op /\ Db(d)' = Db(d)
  BY DEF Deed, Db, Same, Becomes
<1>2. ASSUME NEW i, HasMark(i)', ~HasMark(i)
      PROVE /\ Deed(call[c].op) \in {"add_node", "add_nodes"} /\ i \in call[c].ids
            /\ ~Links(job, call[c]) /\ ~Misses(job, call[c])
  BY <1>2, AimedAt DEF HasMark
<1>3. ASSUME NEW t, HasEdgeMark(t)', ~HasEdgeMark(t)
      PROVE /\ call[c].op \in {"add_edge", "add_edges"} /\ t \in call[c].ids
            /\ ~Misses(job, call[c])
  BY <1>3, AimedAt DEF HasEdgeMark
<1>4. /\ call'[d].op = job.op /\ call'[d].ids = job.ids /\ call'[d].rev = job.rev
      /\ call'[d].coll = job.coll \/ job.op = "prune"
  BY DEF Becomes
<1>5. CASE op \in {"add_edge", "add_edges"}
  <2>1. job.op = op
    BY <1>5 DEF Deed
  <2>2. \A t \in job.ids : (HasMark(t[1])' => HasMark(t[1])) /\ (HasMark(t[3])' => HasMark(t[3]))
    BY <1>2, <1>5, <2>1 DEF Links, Touches
  <2>3. Aims(d, call[d])' = {EdgeMark(t, 1) : t \in {x \in call'[d].ids : HasMark(x[1])' /\ HasMark(x[3])'}}
    BY <1>1, <1>5, Zenon DEF Aims, EdgeMark
  <2>4. Aims(d, job) = {EdgeMark(t, 1) : t \in {x \in job.ids : HasMark(x[1]) /\ HasMark(x[3])}}
    BY <1>5, Zenon DEF Aims, EdgeMark
  <2> QED BY <1>4, <2>2, <2>3, <2>4 DEF EdgeMark
<1>6. CASE op \in {"weigh_nodes", "judge_nodes"}
  <2>1. job.op = op /\ provider = "typedb"
    BY <1>6 DEF Deed, IsJob
  <2>2. \A i \in job.ids : HasMark(i)' => HasMark(i)
    BY <1>2, <1>6, <2>1 DEF Misses, Deed, PointsAreNodes
  <2> QED BY <1>1, <1>4, <1>6, <2>2, Zenon DEF Aims, WeightMark, TruthMark
<1>7. CASE op = "weigh_edges"
  <2>1. job.op = op
    BY <1>7 DEF Deed
  <2>2. \A t \in job.ids : HasEdgeMark(t)' => HasEdgeMark(t)
    BY <1>3, <1>7, <2>1 DEF Misses
  <2> QED BY <1>1, <1>4, <1>7, <2>2, Zenon DEF Aims, WeightMark
<1>8. CASE op \notin {"add_edge", "add_edges", "weigh_nodes", "judge_nodes", "weigh_edges"}
  <2>1. CASE job.op = "prune"
    BY <1>1, <1>8, <2>1, Zenon DEF Aims, Deed
  <2>2. CASE job.op # "prune"
    <3>1. Vectors(d, call[d])' = Vectors(d, job)
      BY <1>1, <1>4, <2>2 DEF Vectors, Same
    <3> QED BY <1>1, <1>4, <1>8, <2>2, <3>1, Zenon DEF Several, Same, Aims, Created, NodeMark, TagMark
  <2> QED BY <2>1, <2>2
<1> QED BY <1>5, <1>6, <1>7, <1>8

\* Calls disturb each other as their jobs do.
LEMMA BecomesApart ==
  ASSUME Several, Same, NEW c, NEW d, NEW job, NEW other, Becomes(c, job), Becomes(d, other),
         Aims(c, call[c])' \subseteq Aims(c, job), Disturbs(d, call[d], c, call[c])'
  PROVE Disturbs(d, other, c, job)
<1>1. /\ call'[c].op = job.op /\ call'[c].ids = job.ids /\ call'[d].op = other.op /\ call'[d].ids = other.ids
      /\ \A op : Deed(op)' = Deed(op)
  BY DEF Becomes, Deed, Same
<1>2. /\ Links(call[c], call[d])' => Links(job, other)
      /\ Links(call[d], call[c])' => Links(other, job)
      /\ Misses(call[c], call[d])' => Misses(job, other)
  BY <1>1 DEF Links, Misses
<1>3. ASSUME NEW p \in Aims(c, call[c])', Claimed(d, call[d], p)'
      PROVE Disturbs(d, other, c, job)
  BY <1>3, BecomesClaims DEF Disturbs
<1> QED BY <1>1, <1>2, <1>3 DEF Disturbs, Several, Same

SafeInv == TypeInv /\ DueIsFree /\ CleanIsFree /\ DueIsSettled

\* The steps the adapters make keep the invariant.
LEMMA MovesKeep ==
  ASSUME SafeInv, Several, Same, NEW c, Moves(c), GoesOn \/ c \in Clients
  PROVE SafeInv'
<1>1. CASE GoesOn
  <2>1. TypeInv'
    <3>1. ASSUME NEW d \in Clients, Running(d)'
          PROVE IsJob(provider, call[d])'
      BY <1>1, <3>1 DEF GoesOn, Keeps, Becomes, Running, SafeInv, TypeInv, IsJob, Same
    <3> QED BY <1>1, <3>1 DEF GoesOn, Keeps, Moves, SafeInv, TypeInv, Same
  <2>2. DueIsFree'
    <3> SUFFICES ASSUME NEW d \in Clients, Running(d)', NEW p \in due'
                 PROVE ~Claimed(d, call[d], p)'
      BY DEF DueIsFree
    <3>1. Running(d) /\ Becomes(d, call[d]) /\ p \in due
      BY <1>1 DEF GoesOn, Keeps, Becomes, Running
    <3> QED BY <3>1, BecomesClaims DEF SafeInv, DueIsFree
  <2>3. CleanIsFree'
    <3> SUFFICES ASSUME NEW x \in Clients, NEW y \in Clients, x # y, Running(x)', Running(y)', call'[x].clean
                 PROVE ~Disturbs(y, call[y], x, call[x])'
      BY DEF CleanIsFree
    <3>1. /\ Running(x) /\ Becomes(x, call[x]) /\ Running(y) /\ Becomes(y, call[y]) /\ call[x].clean
          /\ due' \subseteq due /\ IsJob(provider, call[x])
      BY <1>1 DEF GoesOn, Keeps, Becomes, Running, SafeInv, TypeInv
    <3>2. Aims(x, call[x])' \subseteq Aims(x, call[x])
      BY <3>1, BecomesAims
    <3> QED BY <3>1, <3>2, BecomesApart DEF SafeInv, CleanIsFree
  <2>4. DueIsSettled'
    BY <1>1 DEF GoesOn, Moves, SafeInv, DueIsSettled
  <2> QED BY <2>1, <2>2, <2>3, <2>4 DEF SafeInv
<1>2. CASE EndsWell(c) /\ c \in Clients
  <2>0. PICK result : /\ Leaves(c, result)
                      /\ result = "ok" /\ call[c].clean => \A p \in Aims(c, call[c]) : Settled(p)'
    BY <1>2 DEF EndsWell
  <2>1. /\ ~Running(c)' /\ DOMAIN call' = Clients /\ \A d \in Clients \ {c} : call'[d] = call[d]
        /\ \A d \in Clients : Keeps(d) /\ (d # c => Becomes(d, call[d]))
    BY <1>2, <2>0 DEF Leaves, Idle, Running, SafeInv, TypeInv, Keeps, Becomes, CallFields
  <2>2. /\ Running(c) /\ IsJob(provider, call[c])
        /\ \/ due' \subseteq due
           \/ due' = due \cup Aims(c, call[c]) /\ call[c].clean /\ \A p \in Aims(c, call[c]) : Settled(p)'
    BY <1>2, <2>0 DEF Leaves, EndsWell, SafeInv, TypeInv
  <2>3. TypeInv'
    <3>1. ASSUME NEW d \in Clients, Running(d)'
          PROVE IsJob(provider, call[d])'
      BY <2>1, <3>1 DEF Running, SafeInv, TypeInv, IsJob, Same
    <3> QED BY <2>1, <3>1 DEF Keeps, Moves, SafeInv, TypeInv, Same
  <2>4. DueIsFree'
    <3> SUFFICES ASSUME NEW d \in Clients, Running(d)', NEW p \in due'
                 PROVE ~Claimed(d, call[d], p)'
      BY DEF DueIsFree
    <3>1. Running(d) /\ Becomes(d, call[d]) /\ d # c
      BY <2>1 DEF Running
    <3>2. CASE p \in due
      BY <3>1, <3>2, BecomesClaims DEF SafeInv, DueIsFree
    <3>3. CASE p \notin due
      <4>1. p \in Aims(c, call[c]) /\ call[c].clean
        BY <2>2, <3>3
      <4> QED BY <1>2, <2>2, <3>1, <4>1, BecomesClaims DEF SafeInv, CleanIsFree, Disturbs
    <3> QED BY <3>2, <3>3
  <2>5. CleanIsFree'
    <3> SUFFICES ASSUME NEW x \in Clients, NEW y \in Clients, x # y, Running(x)', Running(y)', call'[x].clean
                 PROVE ~Disturbs(y, call[y], x, call[x])'
      BY DEF CleanIsFree
    <3>1. /\ Running(x) /\ Becomes(x, call[x]) /\ Running(y) /\ Becomes(y, call[y]) /\ call[x].clean
          /\ x # c /\ y # c /\ IsJob(provider, call[x])
      BY <2>1 DEF Running, SafeInv, TypeInv
    <3>2. ~Disturbs(c, call[c], x, call[x])
      BY <1>2, <2>2, <3>1 DEF SafeInv, CleanIsFree
    <3>3. Aims(x, call[x])' \subseteq Aims(x, call[x])
      BY <2>2, <3>1, <3>2, BecomesAims DEF Disturbs
    <3> QED BY <3>1, <3>3, BecomesApart DEF SafeInv, CleanIsFree
  <2>6. DueIsSettled'
    BY <2>2 DEF Moves, SafeInv, DueIsSettled
  <2> QED BY <2>3, <2>4, <2>5, <2>6 DEF SafeInv
<1> QED BY <1>1, <1>2 DEF Moves

\* What the other calls are when a call begins.
LEMMA BesideOthers ==
  ASSUME TypeInv, NEW c, NEW job, NEW d \in Clients
  PROVE /\ DOMAIN Beside(c, job, d) = CallFields
        /\ \A f \in CallFields \ {"clean", "found"} : Beside(c, job, d)[f] = call[d][f]
        /\ Beside(c, job, d).clean => call[d].clean /\ ~Disturbs(c, job, d, call[d])
        /\ Beside(c, job, d).found = StillFound(c, job, d)
BY DEF Beside, TypeInv, CallFields

\* The calls when one begins.
LEMMA BeginCalls ==
  ASSUME TypeInv, NEW c \in Clients, NEW job, Begin(c, job)
  PROVE /\ DOMAIN call' = Clients /\ \A d \in Clients : DOMAIN call'[d] = CallFields
        /\ call'[c].op = job.op /\ call'[c].coll = job.coll /\ call'[c].ids = job.ids /\ call'[c].rev = job.rev
        /\ call'[c].pc = "start" /\ call'[c].todo = {} /\ call'[c].found = FoundBy(c, job)
        /\ call'[c].clean => \A o \in Clients \ {c} : Running(o) => ~Disturbs(o, call[o], c, job)
        /\ \A d \in Clients \ {c} :
             /\ \A f \in CallFields \ {"clean", "found"} : call'[d][f] = call[d][f]
             /\ call'[d].clean => call[d].clean /\ ~Disturbs(c, job, d, call[d])
             /\ call'[d].found = StillFound(c, job, d)
<1> DEFINE alone == \A o \in Clients \ {c} : Running(o) => ~Disturbs(o, call[o], c, job)
<1>1. /\ DOMAIN call' = Clients
      /\ call'[c] = [op |-> job.op, coll |-> job.coll, ids |-> job.ids, rev |-> job.rev, pc |-> "start",
                     todo |-> {}, tries |-> 0, result |-> "none", clean |-> alone, found |-> FoundBy(c, job)]
      /\ \A d \in Clients \ {c} : call'[d] = Beside(c, job, d)
  BY DEF Begin
<1>2. /\ \A d \in Clients : DOMAIN call'[d] = CallFields
      /\ \A d \in Clients \ {c} :
           /\ \A f \in CallFields \ {"clean", "found"} : call'[d][f] = call[d][f]
           /\ call'[d].clean => call[d].clean /\ ~Disturbs(c, job, d, call[d])
           /\ call'[d].found = StillFound(c, job, d)
  <2> HIDE DEF alone
  <2>1. DOMAIN call'[c] = CallFields
    BY <1>1 DEF CallFields
  <2>2. ASSUME NEW d \in Clients \ {c}
        PROVE /\ DOMAIN call'[d] = CallFields
              /\ \A f \in CallFields \ {"clean", "found"} : call'[d][f] = call[d][f]
              /\ call'[d].clean => call[d].clean /\ ~Disturbs(c, job, d, call[d])
              /\ call'[d].found = StillFound(c, job, d)
    <3>1. call'[d] = Beside(c, job, d)
      BY <1>1, <2>2
    <3>2. /\ DOMAIN Beside(c, job, d) = CallFields
          /\ \A f \in CallFields \ {"clean", "found"} : Beside(c, job, d)[f] = call[d][f]
          /\ Beside(c, job, d).clean => call[d].clean /\ ~Disturbs(c, job, d, call[d])
          /\ Beside(c, job, d).found = StillFound(c, job, d)
      BY <2>2, BesideOthers
    <3> QED BY <3>1, <3>2, Zenon
  <2> QED BY <2>1, <2>2
<1>3. call'[c].clean => alone
  <2> HIDE DEF alone
  <2> QED BY <1>1
<1>4. /\ call'[c].op = job.op /\ call'[c].coll = job.coll /\ call'[c].ids = job.ids /\ call'[c].rev = job.rev
      /\ call'[c].pc = "start" /\ call'[c].todo = {} /\ call'[c].found = FoundBy(c, job)
  <2> HIDE DEF alone
  <2> QED BY <1>1
<1> QED BY <1>1, <1>2, <1>3, <1>4

\* What has been written late stays excused, unless it is claimed.
LEMMA BeginLeavesLate ==
  ASSUME NEW c, NEW job, Begin(c, job), NEW p, Late(p), ~Claimed(c, job, p)
  PROVE Late(p)'
<1>1. PICK q \in server.points \cap untold : q.coll = p.coll /\ q.id = p.id
  BY DEF Late
<1>2. provider = "valkey" /\ ~IsMark(p) /\ ~IsMark(q) /\ p.id # None /\ Deed(job.op) = job.op
  BY <1>1 DEF Late, IsMark, Deed, PointsAreNodes
<1>3. ~Claimed(c, job, q)
  BY <1>1, <1>2 DEF Claimed, Created, IsEdge, IsMark, SeparateIds, SeparatePrunes, PointsAreNodes
<1>4. q \in untold' /\ server' = server /\ provider' = provider
  BY <1>1, <1>3 DEF Begin, Renews
<1> QED BY <1>1, <1>2, <1>4 DEF Late, IsMark

\* A call that begins is owed nothing, and its callers no longer what it may undo.
LEMMA BeginKeeps ==
  ASSUME SafeInv, Several, NEW c \in Clients, NEW job \in Jobs[provider], Begin(c, job)
  PROVE SafeInv'
<1>1. /\ Same /\ server' = server /\ faults' = faults /\ memo' = memo /\ due' \subseteq due
      /\ IsJob(provider, job) /\ DOMAIN call' = Clients
      /\ \A d \in Clients : DOMAIN call'[d] = CallFields
  <2>1. UNCHANGED <<provider, engine, database, server, memo, faults>> /\ due' \subseteq due
    BY DEF Begin
  <2> QED BY <2>1, StoresAssumption, BeginCalls DEF Same, SafeInv, TypeInv
<1>2. Becomes(c, job) /\ \A d \in Clients \ {c} : Becomes(d, call[d]) /\ (call'[d].clean => call[d].clean)
  BY BeginCalls DEF Becomes, SafeInv, CallFields
<1>3. TypeInv'
  <2>1. ASSUME NEW d \in Clients, Running(d)'
        PROVE IsJob(provider, call[d])'
    BY <1>1, <1>2, <2>1 DEF Becomes, Running, SafeInv, TypeInv, IsJob, Same
  <2> QED BY <1>1, <2>1 DEF SafeInv, TypeInv, Same
<1>4. DueIsFree'
  <2> SUFFICES ASSUME NEW d \in Clients, Running(d)', NEW p \in due'
               PROVE ~Claimed(d, call[d], p)'
    BY DEF DueIsFree
  <2>1. CASE d = c
    BY <1>1, <1>2, <2>1, BecomesClaims DEF Begin
  <2>2. CASE d # c
    BY <1>1, <1>2, <2>2, BecomesClaims DEF SafeInv, DueIsFree, Becomes, Running
  <2> QED BY <2>1, <2>2
<1>5. CleanIsFree'
  <2> SUFFICES ASSUME NEW x \in Clients, NEW y \in Clients, x # y, Running(x)', Running(y)', call'[x].clean
               PROVE ~Disturbs(y, call[y], x, call[x])'
    BY DEF CleanIsFree
  <2>1. ASSUME NEW z \in Clients \ {c}, Running(z)'
        PROVE Running(z) /\ Becomes(z, call[z]) /\ (call'[z].clean => call[z].clean) /\ IsJob(provider, call[z])
    BY <1>2, <2>1 DEF Becomes, Running, SafeInv, TypeInv
  <2>2. CASE x # c
    <3>1. Aims(x, call[x])' \subseteq Aims(x, call[x])
      BY <1>1, <2>1, <2>2, BecomesAims
    <3>2. CASE y = c
      <4>1. ~Disturbs(c, job, x, call[x])
        BY <2>1, <2>2, BeginCalls DEF SafeInv
      <4> QED BY <1>1, <1>2, <2>1, <2>2, <3>1, <3>2, <4>1, BecomesApart
    <3>3. CASE y # c
      BY <1>1, <2>1, <2>2, <3>1, <3>3, BecomesApart DEF SafeInv, CleanIsFree
    <3> QED BY <3>2, <3>3
  <2>3. CASE x = c
    <3>1. Aims(c, call[c])' \subseteq Aims(c, job)
      BY <1>1, <1>2, <2>1, <2>3, BecomesAims
    <3>2. ~Disturbs(y, call[y], c, job)
      BY <2>1, <2>3, BeginCalls DEF SafeInv
    <3> QED BY <1>1, <1>2, <2>1, <2>3, <3>1, <3>2, BecomesApart
  <2> QED BY <2>2, <2>3
<1>6. DueIsSettled'
  <2> SUFFICES ASSUME NEW p \in due, ~Claimed(c, job, p), Settled(p)
               PROVE Settled(p)'
    BY DEF Begin, SafeInv, DueIsSettled
  <2>1. ASSUME NEW q \in untold, ~Claimed(c, job, q)
        PROVE q \in untold'
    BY <2>1 DEF Begin, Renews
  <2>2. Late(p) => Late(p)'
    BY BeginLeavesLate
  <2>3. Excused(p) => Excused(p)'
    BY <2>1, <2>2 DEF Excused, Several
  <2> QED BY <1>1, <2>3 DEF Settled, Stored, Gone, HasNodeOf, HasWeight, HasTruth, HasCollectionOf, HasPoint,
       Exists, IsMark, Triples, Triple, Incident, Touches, NodeIds, Same
<1> QED BY <1>3, <1>4, <1>5, <1>6 DEF SafeInv

----------------------------------------------------------------------------
(* Steps of the adapters for vectors.                                       *)

\* A point that a call for data points names.
Meets(c, q) == /\ q.coll = call[c].coll /\ q.id \in call[c].ids
               /\ provider \in SeparateIds => q.db = Db(c)

\* A step that changes no points and collections but those the call is about, and
\* those it says are lost.
Careful(c) ==
    /\ ServerFields \subseteq DOMAIN server' /\ DOMAIN memo' = Engines
    /\ server'.nodes = server.nodes /\ server'.edges = server.edges
    /\ \/ call[c].op = "prune" /\ provider \notin SeparatePrunes
       \/ /\ call[c].op = "prune" /\ server'.points \subseteq server.points
          /\ \A q \in server.points \ server'.points : q.db = Db(c) \/ OwedIn(q.coll) \subseteq untold'
          /\ \A k \in server.colls \ server'.colls :
               IF provider = "turbopuffer" THEN k[1] = Db(c) ELSE OwedIn(k) \subseteq untold'
       \/ /\ server.colls \subseteq server'.colls
          /\ \A q \in (server.points \ server'.points) \cup (server'.points \ server.points) :
               call[c].op \in {"put", "delete"} /\ Meets(c, q)

\* A careful step leaves what is due alone: it changes what its call claims, or
\* what it says is lost.
LEMMA CarefulMoves ==
  ASSUME SafeInv, Same, provider \in Vector, NEW c \in Clients, Running(c), Careful(c), GoesOn \/ EndsWell(c)
  PROVE Moves(c)
<1> SUFFICES ASSUME NEW p \in due, Settled(p)
             PROVE Settled(p)'
  BY DEF Moves, Careful
<1>1. ~Claimed(c, call[c], p)
  BY DEF SafeInv, DueIsFree
<1>2. /\ Several /\ provider \notin PointsAreNodes \cup {"moss", "networkx"} /\ provider' = provider
      /\ untold \subseteq untold' /\ IsJob(provider, call[c])
  BY DEF Vector, Several, PointsAreNodes, Same, SafeInv, TypeInv, GoesOn, EndsWell
<1>2a. \A op : Deed(op) = op
  BY <1>2 DEF Deed
<1>3. NodeIds' = NodeIds /\ Triples' = Triples /\ (\A i : Incident({i})' = Incident({i}))
      /\ (HasNodeOf(p) => HasNodeOf(p)') /\ (HasWeight(p) => HasWeight(p)') /\ (HasTruth(p) => HasTruth(p)')
  BY <1>2 DEF Careful, NodeIds, Triples, Triple, Incident, Touches, HasNodeOf, HasWeight, HasTruth
<1>3a. Excused(p) => Excused(p)'
  <2> SUFFICES ASSUME Late(p)
               PROVE Late(p)'
    BY <1>2 DEF Excused
  <2>1. PICK q \in server.points \cap untold : q.coll = p.coll /\ q.id = p.id
    BY DEF Late
  <2>2. call[c].op # "prune"
    BY <1>1, <1>2, <1>2a DEF Late, Claimed, SeparatePrunes, SeparateIds
  <2>3. q \in server'.points
    BY <1>1, <1>2, <1>2a, <2>1, <2>2 DEF Late, Careful, Meets, Claimed, SeparateIds
  <2> QED BY <1>2, <2>1, <2>3 DEF Late
<1>4. CASE IsMark(p)
  <2>1. Stored(p) => Stored(p)'
    BY <1>2, <1>3, <1>3a, <1>4 DEF Stored, IsMark
  <2>2. Gone(p) => Gone(p)'
    BY <1>2, <1>3, <1>3a, <1>4 DEF Gone, IsMark, Careful, PointsAreNodes
  <2> QED BY <2>1, <2>2 DEF Settled
<1>5. CASE ~IsMark(p) /\ ~(call[c].op = "prune" /\ provider \notin SeparatePrunes)
  <2>1. p.rev # 0 \/ p.id = None => (HasCollectionOf(p) => HasCollectionOf(p)' \/ p \in untold')
    <3>1. CASE server.colls \subseteq server'.colls
      BY <1>2, <3>1 DEF HasCollectionOf, Exists
    <3>2. CASE call[c].op = "prune" /\ provider \in SeparatePrunes
      <4>1. p.id # None /\ p.db # Db(c)
        BY <1>1, <1>2, <1>2a, <1>5, <3>2 DEF Claimed
      <4>2. ASSUME NEW k \in server.colls, k \notin server'.colls
            PROVE IF provider = "turbopuffer" THEN k[1] = Db(c) ELSE OwedIn(k) \subseteq untold'
        BY <1>5, <4>2, <3>2 DEF Careful
      <4> QED BY <1>2, <1>5, <4>1, <4>2 DEF HasCollectionOf, Exists, OwedIn
    <3> QED BY <1>5, <3>1, <3>2 DEF Careful
  <2>2. ASSUME p.id # None, NEW q, q.coll = p.coll, q.id = p.id, q.db = p.db \/ provider \notin SeparateIds,
               p.rev # 0 => q.db = p.db
        PROVE /\ q \in server'.points => q \in server.points
              /\ p.rev # 0 /\ q \in server.points => q \in server'.points \/ p \in untold'
    <3>1. CASE call[c].op = "prune"
      <4>1. p.db # Db(c)
        BY <1>1, <1>2, <1>2a, <1>5, <2>2, <3>1 DEF Claimed
      <4> QED BY <1>5, <2>2, <3>1, <4>1 DEF Careful, OwedIn
    <3>2. CASE call[c].op # "prune"
      BY <1>1, <1>2, <1>2a, <1>5, <2>2, <3>2 DEF Careful, Claimed, Meets
    <3> QED BY <3>1, <3>2
  <2>3. p.id # None /\ p.rev # 0 /\ HasPoint(p) => HasPoint(p)' \/ p \in untold'
    BY <2>2 DEF HasPoint
  <2>4. p.rev # 0 \/ p.id = None => (Stored(p) => Stored(p)')
    BY <1>2, <1>3a, <1>5, <2>1, <2>3 DEF Stored, Excused, IsMark
  <2>5. p.rev = 0 /\ p.id # None /\ Gone(p) => Gone(p)'
    BY <1>2, <1>3a, <1>5, <2>2 DEF Gone, IsMark
  <2> QED BY <2>4, <2>5 DEF Settled
<1>6. CASE ~IsMark(p) /\ call[c].op = "prune" /\ provider \notin SeparatePrunes
  BY <1>1, <1>2, <1>2a, <1>6 DEF Claimed
<1> QED BY <1>4, <1>5, <1>6

\* When a call for data points may return: what it has to have written or
\* removed, or to have said it has not.
LEMMA VectorEnds ==
  ASSUME SafeInv, Same, provider \in Vector, NEW c \in Clients, Running(c), NEW result, Leaves(c, result),
         untold \subseteq untold',
         result = "ok" /\ call[c].clean =>
           \/ call[c].op \in {"prune", "search"}
           \/ call[c].op = "put" /\ \A p \in Written(c, call[c].ids) :
                \/ Excused(p)'
                \/ /\ p \in server'.points
                   /\ (IF provider = "turbopuffer" THEN <<Db(c), call[c].coll>> ELSE call[c].coll) \in server'.colls
           \/ /\ call[c].op = "delete"
              /\ (\A q \in server'.points : ~Meets(c, q)) \/ Aims(c, call[c]) \subseteq untold'
           \/ call[c].op = "create" /\ (provider \notin LazyCollections => call[c].coll \in server'.colls)
  PROVE EndsWell(c)
<1> SUFFICES ASSUME result = "ok", call[c].clean, NEW p \in Aims(c, call[c])
             PROVE Settled(p)'
  BY DEF EndsWell
<1>1. Several /\ provider \notin PointsAreNodes \cup {"moss", "networkx"} /\ provider' = provider
      /\ \A op : Deed(op) = op
  BY DEF Vector, Several, PointsAreNodes, Deed, Same
<1>2. IsJob(provider, call[c])
  BY DEF SafeInv, TypeInv
<1>3. CASE call[c].op = "put"
  <2>1. PICK i \in call[c].ids : p = [coll |-> call[c].coll, id |-> i, db |-> Db(c), rev |-> call[c].rev]
    BY <1>1, <1>3 DEF Aims
  <2>2. ~IsMark(p) /\ p.rev # 0
    BY <1>2, <1>3, <2>1, StoresAssumption DEF IsJob, IsMark, Revisions
  <2>3. p \in Written(c, call[c].ids)
    BY <2>1 DEF Written
  <2> QED BY <1>1, <1>3, <2>1, <2>2, <2>3 DEF Settled, Stored, HasCollectionOf, HasPoint, Exists, IsMark
<1>4. CASE call[c].op = "delete"
  <2>1. PICK i \in call[c].ids : p = [coll |-> call[c].coll, id |-> i, db |-> Db(c), rev |-> 0]
    BY <1>1, <1>4 DEF Aims
  <2>2. ~IsMark(p) /\ p.rev = 0 /\ p.id # None
    BY <1>2, <1>4, <2>1, StoresAssumption, StoreAssumption DEF IsJob, IsMark
  <2> QED BY <1>1, <1>4, <2>1, <2>2 DEF Settled, Gone, Excused, IsMark, Meets
<1>5. CASE call[c].op = "create"
  <2>1. provider \notin LazyCollections /\ p = Created(call[c].coll, Db(c))
    BY <1>1, <1>5 DEF Aims
  <2>2. ~IsMark(p) /\ p.id = None /\ p.coll = call[c].coll
    BY <1>2, <1>5, <2>1, StoresAssumption DEF IsJob, IsMark, Created
  <2> QED BY <1>1, <1>5, <2>1, <2>2 DEF Settled, Stored, HasCollectionOf, Exists, IsMark, LazyCollections
<1>6. call[c].op \notin {"prune", "search"}
  BY <1>1 DEF Aims
<1> QED BY <1>3, <1>4, <1>5, <1>6

\* What a call has found or written, for as long as it runs undisturbed, and what
\* a prune has listed.
HalfDone(c) ==
    /\ provider \in {"milvus", "valkey"} /\ call[c].op = "put" /\ call[c].pc \in {"insert", "set"}
       /\ call[c].clean => \A p \in Written(c, call[c].ids \ call[c].todo) : p \in server.points \/ Late(p)
    /\ provider \in {"redis", "valkey"} /\ call[c].op = "put" /\ call[c].pc \in {"load", "set"}
       /\ call[c].clean /\ call[c].ids # {} => Exists(call[c].coll)
    /\ provider = "valkey" /\ At(c, "put", "set") => call[c].todo \subseteq call[c].ids
    /\ provider = "turbopuffer" /\ At(c, "prune", "next") => \A n \in call[c].todo : n[1] = Db(c)

\* Points are in their collection, except for keys of Redis and Valkey that outlive
\* an index.
Housed ==
    \A q \in server.points :
      IF provider = "turbopuffer" THEN <<q.db, q.coll>> \in server.colls
      ELSE provider \notin {"redis", "valkey"} => q.coll \in server.colls

IsIdle(c) == call[c].op = "none" /\ call[c].pc = "idle"

VectorInv == SafeInv /\ Housed /\ \A c \in Clients : IF Running(c) THEN HalfDone(c) ELSE IsIdle(c)

\* The other calls stay where they are, or one of them is ended.
OthersStay(c) == /\ Running(c)' \/ IsIdle(c)'
                 /\ \A d \in Clients \ {c} : call'[d] = call[d] \/ IsIdle(d)'

\* A step of a call that leaves the rest alone.
Steps(c) == Careful(c) /\ OthersStay(c) /\ (GoesOn \/ EndsWell(c))

Proceeds(c) == Running(c) /\ Steps(c) /\ Housed' /\ (Running(c)' => HalfDone(c)')

\* A call that awaits its next request.
LEMMA OnlyGoesOn ==
  ASSUME TypeInv, NEW c \in Clients, Running(c), due' = due, untold \subseteq untold', DOMAIN call' = Clients,
         DOMAIN call'[c] = CallFields,
         \A d \in Clients \ {c} : call'[d] = call[d],
         call'[c].op = call[c].op, call'[c].ids = call[c].ids, call'[c].rev = call[c].rev,
         call'[c].clean = call[c].clean, call'[c].coll = call[c].coll \/ call[c].op = "prune"
  PROVE GoesOn /\ OthersStay(c)
BY DEF GoesOn, Keeps, Becomes, TypeInv, OthersStay, Running

\* A call that ends.
LEMMA OnlyEnds ==
  ASSUME TypeInv, NEW c \in Clients, NEW result, Leaves(c, result)
  PROVE OthersStay(c) /\ call'[c].op = "none"
BY DEF Leaves, Idle, IsIdle, OthersStay, Running, TypeInv

\* Documents that replace those with their keys.
LEMMA WritesCarefully ==
  ASSUME TypeInv, provider \in Vector \ SeparateIds, NEW c \in Clients, call[c].op = "put",
         NEW some \in SUBSET call[c].ids, ServerFields \subseteq DOMAIN server', DOMAIN memo' = Engines,
         server'.nodes = server.nodes, server'.edges = server.edges, server.colls \subseteq server'.colls,
         server'.points = {p \in server.points :
                             \A q \in Written(c, some) : <<p.coll, p.id>> # <<q.coll, q.id>>}
                            \cup Written(c, some)
  PROVE Careful(c)
<1>1. ASSUME NEW q \in (server.points \ server'.points) \cup (server'.points \ server.points)
      PROVE Meets(c, q)
  <2>1. \E x \in Written(c, some) : q.coll = x.coll /\ q.id = x.id
    BY <1>1
  <2> QED BY <2>1 DEF Written, Meets
<1> QED BY <1>1 DEF Careful

\* A document more of those a call writes one by one.
LEMMA OneMore ==
  ASSUME TypeInv, Same, NEW c \in Clients, NEW i \in call[c].todo, server' = Upserted(Written(c, {i})),
         untold \subseteq untold', \A p \in Written(c, call[c].ids \ call[c].todo) : p \in server.points \/ Late(p)
  PROVE \A p \in Written(c, call[c].ids \ (call[c].todo \ {i})) : p \in server'.points \/ Late(p)'
<1> SUFFICES ASSUME NEW x \in Written(c, call[c].ids \ (call[c].todo \ {i}))
             PROVE x \in server'.points \/ Late(x)'
  OBVIOUS
<1>1. server'.points = {p \in server.points : \A q \in Written(c, {i}) : <<p.coll, p.id>> # <<q.coll, q.id>>}
                         \cup Written(c, {i})
  BY DEF TypeInv, ServerFields, Upserted, With
<1>2. CASE x \in Written(c, {i})
  BY <1>1, <1>2
<1>3. CASE x \notin Written(c, {i})
  <2>1. x \in Written(c, call[c].ids \ call[c].todo) /\ x.id # i
    BY <1>3 DEF Written
  <2>2. \A q \in server.points : q.id # i => q \in server'.points
    BY <1>1 DEF Written
  <2> QED BY <2>1, <2>2 DEF Late, Same
<1> QED BY <1>2, <1>3

\* How calls end: a call that raises, and one that sweeps or looks.
LEMMA OtherEnds ==
  ASSUME SafeInv, Same, provider \in Vector, NEW c \in Clients, Running(c), NEW result, Ends(c, result),
         result # "ok" \/ call[c].op \in {"prune", "search"}
  PROVE EndsWell(c) /\ OthersStay(c)
BY VectorEnds, OnlyEnds DEF SafeInv, Ends

\* One that has made a collection.
LEMMA CreateEnds ==
  ASSUME SafeInv, Same, provider \in Vector, NEW c \in Clients, Running(c), Ends(c, "ok"),
         call[c].op = "create",
         provider \in LazyCollections \/ call[c].coll \in server'.colls
  PROVE EndsWell(c) /\ OthersStay(c)
BY VectorEnds, OnlyEnds DEF SafeInv, Ends

\* One that has written points, or had them written by tasks it has left.
LEMMA SomehowPutEnds ==
  ASSUME SafeInv, Same, provider \in Vector, NEW c \in Clients, Running(c), Ends(c, "ok"), call[c].op = "put",
         call[c].clean /\ call[c].ids # {} =>
           /\ \A p \in Written(c, call[c].ids) : p \in server'.points \/ Late(p)'
           /\ (IF provider = "turbopuffer" THEN <<Db(c), call[c].coll>> ELSE call[c].coll) \in server'.colls
  PROVE EndsWell(c) /\ OthersStay(c)
<1>1. call[c].clean => \A p \in Written(c, call[c].ids) :
        \/ Excused(p)'
        \/ /\ p \in server'.points
           /\ (IF provider = "turbopuffer" THEN <<Db(c), call[c].coll>> ELSE call[c].coll) \in server'.colls
  BY DEF Written, Excused
<1> QED BY <1>1, VectorEnds, OnlyEnds DEF SafeInv, Ends

\* One that has written points.
LEMMA PutEnds ==
  ASSUME SafeInv, Same, provider \in Vector, NEW c \in Clients, Running(c), Ends(c, "ok"), call[c].op = "put",
         provider # "turbopuffer",
         call[c].clean /\ call[c].ids # {} =>
           Written(c, call[c].ids) \subseteq server'.points /\ call[c].coll \in server'.colls
  PROVE EndsWell(c) /\ OthersStay(c)
BY SomehowPutEnds

\* One that has removed points.
LEMMA DeleteEnds ==
  ASSUME SafeInv, Same, provider \in Vector, NEW c \in Clients, Running(c), Ends(c, "ok"),
         call[c].op = "delete",
         \A q \in server'.points : ~Meets(c, q)
  PROVE EndsWell(c) /\ OthersStay(c)
BY VectorEnds, OnlyEnds DEF SafeInv, Ends

\* One that returns although some of it has not been done.
LEMMA UntoldEnds ==
  ASSUME SafeInv, Same, provider \in Vector, NEW c \in Clients, Running(c), NEW marks, EndsUntold(c, marks),
         \/ /\ call[c].op = "put" /\ Written(c, call[c].ids) \subseteq server'.points \cup marks
            /\ provider # "turbopuffer" /\ call[c].coll \in server'.colls
         \/ call[c].op = "delete" /\ marks = Aims(c, call[c])
  PROVE EndsWell(c) /\ OthersStay(c)
<1>1. untold \subseteq untold' /\ marks \subseteq untold' /\ Leaves(c, "ok")
  BY DEF EndsUntold
<1>2. CASE call[c].op = "put"
  <2>1. \A p \in Written(c, call[c].ids) : Excused(p)' \/ p \in server'.points
    BY <1>1, <1>2 DEF Excused
  <2> QED BY <1>1, <1>2, <2>1, VectorEnds, OnlyEnds DEF SafeInv
<1>3. CASE call[c].op = "delete"
  BY <1>1, <1>3, VectorEnds, OnlyEnds DEF SafeInv
<1> QED BY <1>2, <1>3

\* A call that goes on is what it was.
LEMMA Onward ==
  ASSUME TypeInv, NEW c \in Clients, Running(c), Steps(c), Running(c)'
  PROVE call'[c].op = call[c].op
BY DEF Steps, GoesOn, Keeps, Becomes, EndsWell, Leaves, Idle, Running, TypeInv

\* A call that goes on leaves what the other calls have found or written alone.
LEMMA ProceedsKeeps ==
  ASSUME VectorInv, Same, provider \in Vector, NEW c \in Clients, Proceeds(c)
  PROVE VectorInv'
<1>1. Several /\ SafeInv'
  <2>1. Several
    BY DEF Several, Vector
  <2> QED BY <2>1, CarefulMoves, MovesKeep DEF VectorInv, Proceeds, Steps
<1> SUFFICES ASSUME NEW d \in Clients
             PROVE (IF Running(d) THEN HalfDone(d) ELSE IsIdle(d))'
  BY <1>1 DEF VectorInv, Proceeds
<1>2. CASE d = c
  BY <1>2 DEF Proceeds, Steps, OthersStay
<1>3. CASE d # c
  <2> SUFFICES ASSUME Running(d)'
               PROVE HalfDone(d)'
    BY <1>3 DEF Proceeds, Steps, OthersStay, VectorInv, Running, IsIdle
  <2>1. call'[d] = call[d] /\ Running(d) /\ HalfDone(d) /\ Running(c) /\ Careful(c)
    BY <1>3 DEF Proceeds, Steps, OthersStay, IsIdle, Running, VectorInv
  <2>2. ASSUME call[d].clean, call[d].op = "put", provider \notin SeparatePrunes, NEW i \in call[d].ids
        PROVE /\ server.colls \subseteq server'.colls
              /\ \A q \in server.points : q.coll = call[d].coll /\ q.id = i => q \in server'.points
    <3> DEFINE p == [coll |-> call[d].coll, id |-> i, db |-> Db(d), rev |-> call[d].rev]
    <3>1. p \in Aims(d, call[d]) /\ Deed(call[c].op) = call[c].op
      BY <2>2 DEF Aims, Deed, Vector, PointsAreNodes
    <3>2. ~Claimed(c, call[c], p)
      BY <1>3, <2>1, <2>2, <3>1 DEF VectorInv, SafeInv, CleanIsFree, Disturbs
    <3>3. IsJob(provider, call[d])
      BY <2>1 DEF VectorInv, SafeInv, TypeInv
    <3>4. ~IsMark(p) /\ p.id # None
      BY <2>2, <3>3, StoresAssumption, StoreAssumption DEF IsJob, IsMark
    <3>5. call[c].op # "prune"
      BY <2>2, <3>1, <3>2, <3>4 DEF Claimed
    <3> QED BY <2>1, <2>2, <3>1, <3>2, <3>4, <3>5 DEF Careful, Meets, Claimed, SeparatePrunes
  <2>3. Db(d)' = Db(d) /\ provider' = provider /\ \A ids : Written(d, ids)' = Written(d, ids)
    BY <2>1 DEF Same, Db, Written
  <2>4. untold \subseteq untold'
    BY DEF Proceeds, Steps, GoesOn, EndsWell
  <2>5. ASSUME call[d].clean, call[d].op = "put", provider \notin SeparatePrunes,
               NEW p \in Written(d, call[d].ids), p \in server.points \/ Late(p)
        PROVE p \in server'.points \/ Late(p)'
    <3>1. \A q \in server.points : q.coll = p.coll /\ q.id = p.id => q \in server'.points
      BY <2>2, <2>5 DEF Written
    <3> QED BY <2>3, <2>4, <2>5, <3>1 DEF Late
  <2>6. (HalfDone(d)!1)'
    <3>1. \A p \in Written(d, call[d].ids \ call[d].todo) : p \in Written(d, call[d].ids)
      BY DEF Written
    <3> QED BY <2>1, <2>3, <2>5, <3>1 DEF HalfDone, SeparatePrunes, SeparateIds
  <2>7. (HalfDone(d)!2)'
    BY <2>1, <2>2, <2>3 DEF HalfDone, Exists, SeparatePrunes, SeparateIds
  <2>8. (HalfDone(d)!3)' /\ (HalfDone(d)!4)'
    BY <2>1, <2>3 DEF HalfDone, At
  <2> QED BY <2>6, <2>7, <2>8 DEF HalfDone
<1> QED BY <1>2, <1>3

----------------------------------------------------------------------------
(* Qdrant.                                                                  *)

\* Calls end in the module of an adapter as they do here.
LEMMA QdrantEnds == \A c, result : Qdrant!Ends(c, result) <=> Ends(c, result)
<1>1. \A c, job : Qdrant!Aims(c, job) = Aims(c, job)
  BY DEF Aims, Qdrant!Aims, Deed, Qdrant!Deed, PointsAreNodes, Qdrant!PointsAreNodes, Db, Qdrant!Db,
     LazyCollections, Qdrant!LazyCollections, Created, Qdrant!Created, NodeMark, Qdrant!NodeMark, EdgeMark,
     Qdrant!EdgeMark, WeightMark, Qdrant!WeightMark, TruthMark, Qdrant!TruthMark, TagMark, Qdrant!TagMark,
     HasMark, Qdrant!HasMark, HasEdgeMark, Qdrant!HasEdgeMark, Vectors,
     Qdrant!Vectors
<1>2. \A c, result : Qdrant!Leaves(c, result) <=> Leaves(c, result)
  BY <1>1 DEF Leaves, Qdrant!Leaves, Idle, Qdrant!Idle, Sweeping, Qdrant!Sweeping
<1> QED BY <1>2 DEF Ends, Qdrant!Ends

\* What the module of Qdrant does is a step that leaves the rest alone.
LEMMA QdrantProceeds ==
  ASSUME VectorInv, Same, provider = "qdrant", NEW c \in Clients,
         Qdrant!Next(c) \/ (Qdrant!Fails(c) /\ faults' > 0)
  PROVE Proceeds(c)
<1> USE DEF Qdrant!OwedIn, Qdrant!At, Qdrant!Locks, Qdrant!Exists, Qdrant!Goto, Qdrant!WithColl,
   Qdrant!Upserted, Qdrant!With,
   Qdrant!Written, Qdrant!Db, Qdrant!Matching, Qdrant!InColl, Qdrant!GotoWith, Qdrant!OfDb, Qdrant!Dropped,
   Qdrant!Raises, ServerFields, CallFields, Meets, SeparateIds
<1>0. /\ provider \in Vector /\ SafeInv /\ TypeInv /\ provider' = provider /\ DOMAIN call[c] = CallFields
      /\ ServerFields \subseteq DOMAIN server /\ DOMAIN memo = Engines /\ DOMAIN call = Clients
      /\ (Running(c) => IsJob(provider, call[c]) /\ HalfDone(c)) /\ (~Running(c) => IsIdle(c)) /\ Housed
  BY DEF Vector, VectorInv, SafeInv, TypeInv, Same
<1>1. CASE Qdrant!CreateCollection(c)
  <2>1. Running(c) /\ call[c].op = "create"
    BY <1>1 DEF Running, Qdrant!CreateCollection
  <2>2. Steps(c)
    <3>1. CASE Qdrant!CreateCollection(c)!1
      BY <1>0, <2>1, <3>1, OnlyGoesOn DEF Steps, Careful, LazyCollections
    <3>2. CASE Qdrant!CreateCollection(c)!2
      BY <1>0, <2>1, <3>2, QdrantEnds, OtherEnds, CreateEnds, OnlyGoesOn DEF Steps, Careful, LazyCollections
    <3>3. CASE Qdrant!CreateCollection(c)!3
      BY <1>0, <2>1, <3>3, QdrantEnds, OtherEnds, CreateEnds, OnlyGoesOn DEF Steps, Careful, LazyCollections
    <3>4. CASE Qdrant!CreateCollection(c)!4
      BY <1>0, <2>1, <3>4, QdrantEnds, OtherEnds, CreateEnds DEF Steps, Careful, LazyCollections
    <3> QED BY <1>1, <3>1, <3>2, <3>3, <3>4 DEF Qdrant!CreateCollection
  <2>3. Running(c)' => HalfDone(c)'
    BY <1>0, <2>1, <2>2, Onward DEF HalfDone, At
  <2>4. Housed'
    BY <1>0, <1>1 DEF Housed, Written, Qdrant!CreateCollection
  <2> QED BY <2>1, <2>2, <2>3, <2>4 DEF Proceeds
<1>2. CASE Qdrant!CreateDataPoints(c)
  <2>1. Running(c) /\ call[c].op = "put"
    BY <1>2 DEF Running, Qdrant!CreateDataPoints
  <2>2. Steps(c)
    BY <1>0, <1>2, <2>1, QdrantEnds, OtherEnds, PutEnds DEF Qdrant!CreateDataPoints, Steps, Careful, Written, Db
  <2>3. Running(c)' => HalfDone(c)'
    BY <1>0, <2>1, <2>2, Onward DEF HalfDone, At
  <2>4. Housed'
    BY <1>0, <1>2 DEF Housed, Written, Qdrant!CreateDataPoints
  <2> QED BY <2>1, <2>2, <2>3, <2>4 DEF Proceeds
<1>3. CASE Qdrant!DeleteDataPoints(c)
  <2>1. Running(c) /\ call[c].op = "delete"
    BY <1>3 DEF Running, Qdrant!DeleteDataPoints
  <2>2. Steps(c)
    BY <1>0, <1>3, <2>1, QdrantEnds, OtherEnds, DeleteEnds DEF Qdrant!DeleteDataPoints, Steps, Careful
  <2>3. Running(c)' => HalfDone(c)'
    BY <1>0, <2>1, <2>2, Onward DEF HalfDone, At
  <2>4. Housed'
    BY <1>0, <1>3 DEF Housed, Written, Qdrant!DeleteDataPoints
  <2> QED BY <2>1, <2>2, <2>3, <2>4 DEF Proceeds
<1>4. CASE Qdrant!Prune(c)
  <2>1. Running(c) /\ call[c].op = "prune"
    BY <1>4 DEF Running, Qdrant!Prune
  <2>2. Steps(c)
    <3>1. CASE Qdrant!Prune(c)!1
      BY <1>0, <2>1, <3>1, OnlyGoesOn DEF Steps, Careful, SeparatePrunes
    <3>2. CASE Qdrant!Prune(c)!2
      BY <1>0, <2>1, <3>2, QdrantEnds, OtherEnds DEF Steps, Careful, SeparatePrunes
    <3>3. CASE Qdrant!Prune(c)!3
      BY <1>0, <2>1, <3>3, QdrantEnds, OtherEnds, OnlyGoesOn DEF Steps, Careful, SeparatePrunes
    <3>4. CASE Qdrant!Prune(c)!4
      BY <1>0, <2>1, <3>4, QdrantEnds, OtherEnds, OnlyGoesOn DEF Steps, Careful, SeparatePrunes
    <3>5. CASE Qdrant!Prune(c)!5
      BY <1>0, <2>1, <3>5, OnlyGoesOn DEF Steps, Careful, SeparatePrunes, OwedIn
    <3> QED BY <1>4, <3>1, <3>2, <3>3, <3>4, <3>5 DEF Qdrant!Prune
  <2>3. Running(c)' => HalfDone(c)'
    BY <1>0, <2>1, <2>2, Onward DEF HalfDone, At
  <2>4. Housed'
    <3>1. CASE Qdrant!Prune(c)!1
      BY <1>0, <3>1 DEF Housed
    <3>2. CASE Qdrant!Prune(c)!2
      BY <1>0, <3>2 DEF Housed
    <3>3. CASE Qdrant!Prune(c)!3
      BY <1>0, <3>3 DEF Housed
    <3>4. CASE Qdrant!Prune(c)!4
      BY <1>0, <3>4 DEF Housed
    <3>5. CASE Qdrant!Prune(c)!5
      BY <1>0, <3>5 DEF Housed
    <3> QED BY <1>4, <3>1, <3>2, <3>3, <3>4, <3>5 DEF Qdrant!Prune
  <2> QED BY <2>1, <2>2, <2>3, <2>4 DEF Proceeds
<1>5. CASE faults' > 0 /\ Qdrant!Fails(c)
  <2>1. Running(c)
    BY <1>5 DEF Running, Qdrant!Running, Qdrant!Fails
  <2>2. Steps(c)
    BY <1>0, <1>5, <2>1, QdrantEnds, OtherEnds, UntoldEnds DEF Qdrant!Fails, Steps, Careful, SeparatePrunes
  <2>3. Running(c)' => HalfDone(c)'
    BY <1>0, <1>5, <2>1, <2>2, Onward DEF HalfDone, At
  <2>4. Housed'
    BY <1>0, <1>5 DEF Housed, Written, Qdrant!Fails
  <2> QED BY <2>1, <2>2, <2>3, <2>4 DEF Proceeds
<1> QED BY <1>0, <1>1, <1>2, <1>3, <1>4, <1>5 DEF Qdrant!Next

----------------------------------------------------------------------------
(* SingleStore.                                                             *)

\* Calls end in the module of an adapter as they do here.
LEMMA SingleStoreEnds == \A c, result : SingleStore!Ends(c, result) <=> Ends(c, result)
<1>1. \A c, job : SingleStore!Aims(c, job) = Aims(c, job)
  BY DEF Aims, SingleStore!Aims, Deed, SingleStore!Deed, PointsAreNodes, SingleStore!PointsAreNodes, Db,
     SingleStore!Db, LazyCollections, SingleStore!LazyCollections, Created, SingleStore!Created, NodeMark,
     SingleStore!NodeMark, EdgeMark, SingleStore!EdgeMark, WeightMark, SingleStore!WeightMark, TruthMark,
     SingleStore!TruthMark, TagMark, SingleStore!TagMark, HasMark, SingleStore!HasMark, HasEdgeMark,
     SingleStore!HasEdgeMark, Vectors,
     SingleStore!Vectors
<1>2. \A c, result : SingleStore!Leaves(c, result) <=> Leaves(c, result)
  BY <1>1 DEF Leaves, SingleStore!Leaves, Idle, SingleStore!Idle, Sweeping, SingleStore!Sweeping
<1> QED BY <1>2 DEF Ends, SingleStore!Ends

\* What the module of SingleStore does is a step that leaves the rest alone.
LEMMA SingleStoreProceeds ==
  ASSUME VectorInv, Same, provider = "singlestore", NEW c \in Clients,
         SingleStore!Next(c) \/ (SingleStore!Fails(c) /\ faults' > 0)
  PROVE Proceeds(c)
<1> USE DEF SingleStore!OwedIn, SingleStore!At, SingleStore!Locks, SingleStore!WithColl, SingleStore!Goto,
   SingleStore!Exists,
   SingleStore!Written, SingleStore!Db, SingleStore!InColl, SingleStore!OfDb, SingleStore!With,
   SingleStore!GotoWith, SingleStore!Dropped, SingleStore!Raises, ServerFields, CallFields, Meets, SeparateIds
<1>0. /\ provider \in Vector /\ SafeInv /\ TypeInv /\ provider' = provider /\ DOMAIN call[c] = CallFields
      /\ ServerFields \subseteq DOMAIN server /\ DOMAIN memo = Engines /\ DOMAIN call = Clients
      /\ (Running(c) => IsJob(provider, call[c]) /\ HalfDone(c)) /\ (~Running(c) => IsIdle(c)) /\ Housed
  BY DEF Vector, VectorInv, SafeInv, TypeInv, Same
<1>1. CASE call[c].op = "create" /\ SingleStore!CreateCollection(c, "start", "done")
  <2>1. Running(c) /\ call[c].op = "create"
    BY <1>1 DEF Running, SingleStore!CreateCollection, SingleStore!Unlocks
  <2>2. Steps(c)
    <3>1. CASE SingleStore!CreateCollection(c, "start", "done")!1
      BY <1>0, <1>1, <2>1, <3>1, OnlyGoesOn DEF Steps, Careful, LazyCollections
    <3>2. CASE SingleStore!CreateCollection(c, "start", "done")!2
      BY <1>0, <1>1, <2>1, <3>2, SingleStoreEnds, OtherEnds, CreateEnds, OnlyGoesOn DEF Steps, Careful,
         LazyCollections, SingleStore!Unlocks
    <3> QED BY <1>1, <3>1, <3>2 DEF SingleStore!CreateCollection
  <2>3. Running(c)' => HalfDone(c)'
    BY <1>0, <2>1, <2>2, Onward DEF HalfDone, At
  <2>4. Housed'
    BY <1>0, <1>1 DEF Housed, SingleStore!CreateCollection, SingleStore!Unlocks
  <2> QED BY <2>1, <2>2, <2>3, <2>4 DEF Proceeds
<1>2. CASE SingleStore!CreateDataPoints(c)
  <2>1. Running(c) /\ call[c].op = "put"
    BY <1>2 DEF Running, SingleStore!CreateDataPoints, SingleStore!CreateCollection, SingleStore!Unlocks,
       SingleStore!Own
  <2>2. Steps(c)
    <3>1. CASE SingleStore!CreateDataPoints(c)!1
      BY <1>0, <2>1, <3>1, OnlyGoesOn DEF Steps, Careful, Written, Db
    <3>2. CASE SingleStore!CreateDataPoints(c)!2
      <4>1. CASE SingleStore!CreateCollection(c, "create", "insert")!1
        BY <1>0, <2>1, <4>1, SingleStoreEnds, OnlyGoesOn DEF Steps, Careful, SingleStore!Unlocks
      <4>2. CASE SingleStore!CreateCollection(c, "create", "insert")!2
        BY <1>0, <2>1, <4>2, SingleStoreEnds, OnlyGoesOn DEF Steps, Careful, SingleStore!Unlocks
      <4> QED BY <3>2, <4>1, <4>2 DEF SingleStore!CreateCollection
    <3>3. CASE SingleStore!CreateDataPoints(c)!3
      BY <1>0, <2>1, <3>3, SingleStoreEnds, OtherEnds, PutEnds DEF Steps, Careful, Written, Db, SingleStore!Own
    <3> QED BY <1>2, <3>1, <3>2, <3>3 DEF SingleStore!CreateDataPoints
  <2>3. Running(c)' => HalfDone(c)'
    BY <1>0, <2>1, <2>2, Onward DEF HalfDone, At
  <2>4. Housed'
    <3>1. CASE SingleStore!CreateDataPoints(c)!1
      BY <1>0, <3>1 DEF Housed
    <3>2. CASE SingleStore!CreateDataPoints(c)!2
      BY <1>0, <3>2 DEF Housed, SingleStore!CreateCollection
    <3>3. CASE SingleStore!CreateDataPoints(c)!3
      BY <1>0, <3>3 DEF Housed, SingleStore!Own
    <3> QED BY <1>2, <3>1, <3>2, <3>3 DEF SingleStore!CreateDataPoints
  <2> QED BY <2>1, <2>2, <2>3, <2>4 DEF Proceeds
<1>3. CASE SingleStore!DeleteDataPoints(c)
  <2>1. Running(c) /\ call[c].op = "delete"
    BY <1>3 DEF Running, SingleStore!DeleteDataPoints, SingleStore!Own
  <2>2. Steps(c)
    <3>1. CASE SingleStore!DeleteDataPoints(c)!1
      BY <1>0, <2>1, <3>1, SingleStoreEnds, OtherEnds, DeleteEnds, OnlyGoesOn DEF Steps, Careful, Housed
    <3>2. CASE SingleStore!DeleteDataPoints(c)!2
      <4>1. CASE Exists(call[c].coll)
        <5>1. server' = With({p \in server.points :
                                ~(p \in SingleStore!Own(c, call[c].coll) /\ p.id \in call[c].ids)})
              /\ memo' = memo /\ Ends(c, "ok")
          BY <3>2, <4>1, SingleStoreEnds DEF With, Exists
        <5>2. \A q \in server.points : q \in server'.points <=> ~Meets(c, q)
          BY <1>0, <5>1 DEF SingleStore!Own, With, Db
        <5>3. Careful(c)
          BY <1>0, <2>1, <5>1, <5>2 DEF Careful, With
        <5> QED BY <1>0, <2>1, <5>1, <5>2, <5>3, DeleteEnds DEF Steps, With
      <4>2. CASE ~Exists(call[c].coll)
        BY <1>0, <2>1, <3>2, <4>2, SingleStoreEnds, OtherEnds DEF Steps, Careful, Exists
      <4> QED BY <4>1, <4>2
    <3> QED BY <1>3, <3>1, <3>2 DEF SingleStore!DeleteDataPoints
  <2>3. Running(c)' => HalfDone(c)'
    BY <1>0, <2>1, <2>2, Onward DEF HalfDone, At
  <2>4. Housed'
    BY <1>0, <1>3 DEF Housed, SingleStore!DeleteDataPoints, SingleStore!Own
  <2> QED BY <2>1, <2>2, <2>3, <2>4 DEF Proceeds
<1>4. CASE SingleStore!Prune(c)
  <2>1. Running(c) /\ call[c].op = "prune"
    BY <1>4 DEF Running, SingleStore!Prune, SingleStore!Own
  <2>2. Steps(c)
    <3>1. CASE SingleStore!Prune(c)!1
      BY <1>0, <2>1, <3>1, OnlyGoesOn DEF Steps, Careful, SeparatePrunes
    <3>2. CASE SingleStore!Prune(c)!2
      BY <1>0, <2>1, <3>2, SingleStoreEnds, OtherEnds DEF Steps, Careful, SeparatePrunes
    <3>3. CASE SingleStore!Prune(c)!3
      BY <1>0, <2>1, <3>3, SingleStoreEnds, OtherEnds, OnlyGoesOn DEF Steps, Careful, SeparatePrunes,
         SingleStore!Own
    <3>4. CASE SingleStore!Prune(c)!4
      BY <1>0, <2>1, <3>4, SingleStoreEnds, OtherEnds, OnlyGoesOn DEF Steps, Careful, SeparatePrunes
    <3>5. CASE SingleStore!Prune(c)!5
      BY <1>0, <2>1, <3>5, OnlyGoesOn DEF Steps, Careful, SeparatePrunes, OwedIn
    <3> QED BY <1>4, <3>1, <3>2, <3>3, <3>4, <3>5 DEF SingleStore!Prune
  <2>3. Running(c)' => HalfDone(c)'
    BY <1>0, <2>1, <2>2, Onward DEF HalfDone, At
  <2>4. Housed'
    <3>1. CASE SingleStore!Prune(c)!1
      BY <1>0, <3>1 DEF Housed, SingleStore!Own
    <3>2. CASE SingleStore!Prune(c)!2
      BY <1>0, <3>2 DEF Housed, SingleStore!Own
    <3>3. CASE SingleStore!Prune(c)!3
      BY <1>0, <3>3 DEF Housed, SingleStore!Own
    <3>4. CASE SingleStore!Prune(c)!4
      BY <1>0, <3>4 DEF Housed, SingleStore!Own
    <3>5. CASE SingleStore!Prune(c)!5
      BY <1>0, <3>5 DEF Housed, SingleStore!Own
    <3> QED BY <1>4, <3>1, <3>2, <3>3, <3>4, <3>5 DEF SingleStore!Prune
  <2> QED BY <2>1, <2>2, <2>3, <2>4 DEF Proceeds
<1>5. CASE faults' > 0 /\ SingleStore!Fails(c)
  <2>1. Running(c)
    BY <1>5 DEF Running, SingleStore!Running, SingleStore!Fails
  <2>2. Steps(c)
    BY <1>0, <1>5, <2>1, SingleStoreEnds, OtherEnds, UntoldEnds DEF SingleStore!Fails, Steps, Careful,
       SeparatePrunes
  <2>3. Running(c)' => HalfDone(c)'
    BY <1>0, <1>5, <2>1, <2>2, Onward DEF HalfDone, At
  <2>4. Housed'
    BY <1>0, <1>5 DEF Housed, SingleStore!Fails
  <2> QED BY <2>1, <2>2, <2>3, <2>4 DEF Proceeds
<1> QED BY <1>0, <1>1, <1>2, <1>3, <1>4, <1>5 DEF SingleStore!Next

----------------------------------------------------------------------------
(* Weaviate.                                                                *)

\* Calls end in the module of an adapter as they do here.
LEMMA WeaviateEnds ==
  \A c : /\ \A result : Weaviate!Ends(c, result) <=> Ends(c, result)
         /\ \A marks : Weaviate!EndsUntold(c, marks) <=> EndsUntold(c, marks)
<1>1. \A c, job : Weaviate!Aims(c, job) = Aims(c, job)
  BY DEF Aims, Weaviate!Aims, Deed, Weaviate!Deed, PointsAreNodes, Weaviate!PointsAreNodes, Db, Weaviate!Db,
     LazyCollections, Weaviate!LazyCollections, Created, Weaviate!Created, NodeMark, Weaviate!NodeMark,
     EdgeMark, Weaviate!EdgeMark, WeightMark, Weaviate!WeightMark, TruthMark, Weaviate!TruthMark, TagMark,
     Weaviate!TagMark, HasMark, Weaviate!HasMark, HasEdgeMark, Weaviate!HasEdgeMark, Vectors,
     Weaviate!Vectors
<1>2. \A c, result : Weaviate!Leaves(c, result) <=> Leaves(c, result)
  BY <1>1 DEF Leaves, Weaviate!Leaves, Idle, Weaviate!Idle, Sweeping, Weaviate!Sweeping
<1> QED BY <1>2 DEF Ends, Weaviate!Ends, EndsUntold, Weaviate!EndsUntold

\* What the module of Weaviate does is a step that leaves the rest alone.
LEMMA WeaviateProceeds ==
  ASSUME VectorInv, Same, provider = "weaviate", NEW c \in Clients,
         Weaviate!Next(c) \/ (Weaviate!Fails(c) /\ faults' > 0)
  PROVE Proceeds(c)
<1> USE DEF Weaviate!At, Weaviate!Locks, Weaviate!Goto, Weaviate!Exists, Weaviate!WithColl, Weaviate!Upserted,
   Weaviate!With, Weaviate!Written, Weaviate!Db, Weaviate!Matching, Weaviate!InColl, Weaviate!Raises,
   ServerFields, CallFields, Meets, SeparateIds
<1>0. /\ provider \in Vector /\ SafeInv /\ TypeInv /\ provider' = provider /\ DOMAIN call[c] = CallFields
      /\ ServerFields \subseteq DOMAIN server /\ DOMAIN memo = Engines /\ DOMAIN call = Clients
      /\ (Running(c) => IsJob(provider, call[c]) /\ HalfDone(c)) /\ (~Running(c) => IsIdle(c)) /\ Housed
  BY DEF Vector, VectorInv, SafeInv, TypeInv, Same
<1>1. CASE Weaviate!CreateCollection(c)
  <2>1. Running(c) /\ call[c].op = "create"
    BY <1>1 DEF Running, Weaviate!CreateCollection
  <2>2. Steps(c)
    <3>1. CASE Weaviate!CreateCollection(c)!1
      BY <1>0, <2>1, <3>1, OnlyGoesOn DEF Steps, Careful, LazyCollections
    <3>2. CASE Weaviate!CreateCollection(c)!2
      BY <1>0, <2>1, <3>2, OnlyGoesOn DEF Steps, Careful, LazyCollections
    <3>3. CASE Weaviate!CreateCollection(c)!3
      BY <1>0, <2>1, <3>3, WeaviateEnds, OtherEnds, CreateEnds DEF Steps, Careful, LazyCollections
    <3>4. CASE Weaviate!CreateCollection(c)!4
      BY <1>0, <2>1, <3>4, WeaviateEnds, OtherEnds, CreateEnds DEF Steps, Careful, LazyCollections
    <3> QED BY <1>1, <3>1, <3>2, <3>3, <3>4 DEF Weaviate!CreateCollection
  <2>3. Running(c)' => HalfDone(c)'
    BY <1>0, <2>1, <2>2, Onward DEF HalfDone, At
  <2>4. Housed'
    BY <1>0, <1>1 DEF Housed, Written, Weaviate!CreateCollection
  <2> QED BY <2>1, <2>2, <2>3, <2>4 DEF Proceeds
<1>2. CASE Weaviate!CreateDataPoints(c)
  <2>1. Running(c) /\ call[c].op = "put"
    BY <1>2 DEF Running, Weaviate!CreateDataPoints, Weaviate!GetCollection
  <2>2. Steps(c)
    <3>1. CASE Weaviate!CreateDataPoints(c)!1
      BY <1>0, <2>1, <3>1, WeaviateEnds, OtherEnds, OnlyGoesOn DEF Steps, Careful, Weaviate!GetCollection
    <3>2. CASE Weaviate!CreateDataPoints(c)!2
      <4>1. Careful(c)
        BY <1>0, <2>1, <3>2 DEF Careful, Db
      <4>2. EndsWell(c) /\ OthersStay(c)
        BY <1>0, <2>1, <3>2, WeaviateEnds, OtherEnds, PutEnds DEF Written, Db
      <4> QED BY <4>1, <4>2 DEF Steps
    <3>3. CASE Weaviate!CreateDataPoints(c)!3
      BY <1>0, <2>1, <3>3, OnlyGoesOn DEF Steps, Careful, Written, Db
    <3>4. CASE Weaviate!CreateDataPoints(c)!4
      BY <1>0, <2>1, <3>4, WeaviateEnds, OtherEnds, PutEnds DEF Steps, Careful, Written, Db
    <3> QED BY <1>2, <3>1, <3>2, <3>3, <3>4 DEF Weaviate!CreateDataPoints
  <2>3. Running(c)' => HalfDone(c)'
    BY <1>0, <2>1, <2>2, Onward DEF HalfDone, At
  <2>4. Housed'
    BY <1>0, <1>2 DEF Housed, Written, Weaviate!CreateDataPoints, Weaviate!GetCollection
  <2> QED BY <2>1, <2>2, <2>3, <2>4 DEF Proceeds
<1>3. CASE Weaviate!DeleteDataPoints(c)
  <2>1. Running(c) /\ call[c].op = "delete"
    BY <1>3 DEF Running, Weaviate!DeleteDataPoints, Weaviate!GetCollection
  <2>2. Steps(c)
    <3>1. CASE Weaviate!DeleteDataPoints(c)!1
      BY <1>0, <2>1, <3>1, WeaviateEnds, OtherEnds, DeleteEnds, OnlyGoesOn DEF Steps, Careful,
         Weaviate!GetCollection
    <3>2. CASE Weaviate!DeleteDataPoints(c)!2
      BY <1>0, <2>1, <3>2, WeaviateEnds, OtherEnds, DeleteEnds DEF Steps, Careful
    <3> QED BY <1>3, <3>1, <3>2 DEF Weaviate!DeleteDataPoints
  <2>3. Running(c)' => HalfDone(c)'
    BY <1>0, <2>1, <2>2, Onward DEF HalfDone, At
  <2>4. Housed'
    BY <1>0, <1>3 DEF Housed, Written, Weaviate!DeleteDataPoints, Weaviate!GetCollection
  <2> QED BY <2>1, <2>2, <2>3, <2>4 DEF Proceeds
<1>4. CASE Weaviate!Prune(c)
  <2>1. Running(c) /\ call[c].op = "prune"
    BY <1>4 DEF Running, Weaviate!Prune
  <2>2. Steps(c)
    BY <1>0, <1>4, <2>1, WeaviateEnds, OtherEnds DEF Weaviate!Prune, Steps, Careful, SeparatePrunes
  <2>3. Running(c)' => HalfDone(c)'
    BY <1>0, <2>1, <2>2, Onward DEF HalfDone, At
  <2>4. Housed'
    BY <1>0, <1>4 DEF Housed, Written, Weaviate!Prune
  <2> QED BY <2>1, <2>2, <2>3, <2>4 DEF Proceeds
<1>5. CASE faults' > 0 /\ Weaviate!Fails(c)
  <2>1. Running(c)
    BY <1>5 DEF Running, Weaviate!Running, Weaviate!Fails, Weaviate!InsertsSome, Weaviate!Attempts
  <2>2. Steps(c)
    <3>1. CASE Weaviate!Fails(c)!1
      <4>1. CASE Weaviate!Raises(c)
        BY <1>0, <1>5, <2>1, <4>1, WeaviateEnds, OtherEnds DEF Steps, Careful
      <4>2. CASE Weaviate!InsertsSome(c)
        <5>1. call[c].op = "put" /\ memo' = memo /\ Exists(call[c].coll)
          BY <4>2 DEF Weaviate!InsertsSome, Exists
        <5>3. PICK some \in SUBSET call[c].ids :
                /\ server' = Upserted(Written(c, some))
                /\ EndsUntold(c, Written(c, call[c].ids \ some))
          BY <4>2, WeaviateEnds DEF Weaviate!InsertsSome, Upserted, Written, With, Db
        <5>2. EndsWell(c) /\ OthersStay(c)
          <6>1. Written(c, call[c].ids) \subseteq server'.points \cup Written(c, call[c].ids \ some)
            BY <1>0, <5>3 DEF Upserted, With, Written
          <6>2. call[c].coll \in server'.colls
            BY <1>0, <5>1, <5>3 DEF Upserted, With, Exists
          <6> QED BY <1>0, <2>1, <5>1, <5>3, <6>1, <6>2, UntoldEnds
        <5>4. Careful(c)
          BY <1>0, <5>1, <5>3, WritesCarefully DEF Upserted, With
        <5> QED BY <5>2, <5>4 DEF Steps
      <4> QED BY <3>1, <4>1, <4>2
    <3>2. CASE Weaviate!Fails(c)!2
      BY <1>0, <1>5, <2>1, <3>2, OnlyGoesOn DEF Steps, Careful, SeparatePrunes,
         Weaviate!Attempts
    <3> QED BY <1>5, <3>1, <3>2 DEF Weaviate!Fails
  <2>3. Running(c)' => HalfDone(c)'
    BY <1>0, <2>1, <2>2, Onward DEF HalfDone, At
  <2>4. Housed'
    <3>1. CASE Weaviate!InsertsSome(c)
      <4>1. PICK some \in SUBSET call[c].ids : server' = Upserted(Written(c, some)) /\ Exists(call[c].coll)
        BY <3>1 DEF Weaviate!InsertsSome, Upserted, Written, With, Db, Exists
      <4> QED BY <1>0, <4>1 DEF Housed, Upserted, Written, With, Exists
    <3>2. CASE ~Weaviate!InsertsSome(c)
      BY <1>0, <1>5, <3>2 DEF Housed, Weaviate!Fails
    <3> QED BY <3>1, <3>2
  <2> QED BY <2>1, <2>2, <2>3, <2>4 DEF Proceeds
<1> QED BY <1>0, <1>1, <1>2, <1>3, <1>4, <1>5 DEF Weaviate!Next

----------------------------------------------------------------------------
(* Milvus.                                                                  *)

\* Calls end in the module of an adapter as they do here.
LEMMA MilvusEnds == \A c, result : Milvus!Ends(c, result) <=> Ends(c, result)
<1>1. \A c, job : Milvus!Aims(c, job) = Aims(c, job)
  BY DEF Aims, Milvus!Aims, Deed, Milvus!Deed, PointsAreNodes, Milvus!PointsAreNodes, Db, Milvus!Db,
     LazyCollections, Milvus!LazyCollections, Created, Milvus!Created, NodeMark, Milvus!NodeMark, EdgeMark,
     Milvus!EdgeMark, WeightMark, Milvus!WeightMark, TruthMark, Milvus!TruthMark, TagMark, Milvus!TagMark,
     HasMark, Milvus!HasMark, HasEdgeMark, Milvus!HasEdgeMark, Vectors,
     Milvus!Vectors
<1>2. \A c, result : Milvus!Leaves(c, result) <=> Leaves(c, result)
  BY <1>1 DEF Leaves, Milvus!Leaves, Idle, Milvus!Idle, Sweeping, Milvus!Sweeping
<1> QED BY <1>2 DEF Ends, Milvus!Ends

\* What the module of Milvus does is a step that leaves the rest alone.
LEMMA MilvusProceeds ==
  ASSUME VectorInv, Same, provider = "milvus", NEW c \in Clients,
         Milvus!Next(c) \/ (Milvus!Fails(c) /\ faults' > 0)
  PROVE Proceeds(c)
<1> USE DEF Milvus!At, Milvus!Exists, Milvus!GoOnTo, Milvus!Locks, Milvus!With, Milvus!Written, Milvus!Db,
   Milvus!Matching, Milvus!InColl, Milvus!Dropped, Milvus!Raises, ServerFields, CallFields, Meets, SeparateIds
<1>0. /\ provider \in Vector /\ SafeInv /\ TypeInv /\ provider' = provider /\ DOMAIN call[c] = CallFields
      /\ ServerFields \subseteq DOMAIN server /\ DOMAIN memo = Engines /\ DOMAIN call = Clients
      /\ (Running(c) => IsJob(provider, call[c]) /\ HalfDone(c)) /\ (~Running(c) => IsIdle(c)) /\ Housed
  BY DEF Vector, VectorInv, SafeInv, TypeInv, Same
<1>1. CASE Milvus!CreateVectorIndex(c)
  <2>1. Running(c) /\ call[c].op = "create"
    BY <1>1 DEF Running, Milvus!CreateVectorIndex, Milvus!CreateCollection
  <2>2. Steps(c)
    <3>1. CASE Milvus!CreateVectorIndex(c)!1
      BY <1>0, <2>1, <3>1, OnlyGoesOn DEF Steps, Careful, LazyCollections
    <3>2. CASE Milvus!CreateVectorIndex(c)!2
      BY <1>0, <2>1, <3>2, MilvusEnds, OtherEnds, CreateEnds, OnlyGoesOn DEF Steps, Careful, LazyCollections,
         Milvus!CreateCollection
    <3>3. CASE Milvus!CreateVectorIndex(c)!3
      BY <1>0, <2>1, <3>3, MilvusEnds, OtherEnds, CreateEnds DEF Steps, Careful, LazyCollections
    <3> QED BY <1>1, <3>1, <3>2, <3>3 DEF Milvus!CreateVectorIndex
  <2>3. Running(c)' => HalfDone(c)'
    BY <1>0, <2>1, <2>2, Onward DEF HalfDone, At
  <2>4. Housed'
    BY <1>0, <1>1 DEF Housed, Written, Milvus!CreateVectorIndex, Milvus!CreateCollection
  <2> QED BY <2>1, <2>2, <2>3, <2>4 DEF Proceeds
<1>2. CASE Milvus!CreateDataPoints(c)
  <2>1. Running(c) /\ call[c].op = "put"
    BY <1>2 DEF Running, Milvus!CreateDataPoints
  <2>2. Steps(c)
    <3>1. CASE Milvus!CreateDataPoints(c)!1
      BY <1>0, <2>1, <3>1, OnlyGoesOn DEF Steps, Careful, Written, Db
    <3>2. CASE Milvus!CreateDataPoints(c)!2
      BY <1>0, <2>1, <3>2, MilvusEnds, OtherEnds, PutEnds, OnlyGoesOn DEF Steps, Careful, Written, Db
    <3>3. CASE Milvus!CreateDataPoints(c)!3
      <4>1. CASE Exists(call[c].coll)
        <5>1. Ends(c, "ok") /\ (call[c].clean => Written(c, call[c].ids) \subseteq server.points)
          BY <1>0, <2>1, <3>3, <4>1, MilvusEnds DEF HalfDone, Exists, Written, Late
        <5> QED BY <1>0, <2>1, <3>3, <4>1, <5>1, PutEnds DEF Steps, Careful, Exists
      <4>2. CASE ~Exists(call[c].coll)
        BY <1>0, <2>1, <3>3, <4>2, MilvusEnds, OtherEnds DEF Steps, Careful, Exists
      <4> QED BY <4>1, <4>2
    <3> QED BY <1>2, <3>1, <3>2, <3>3 DEF Milvus!CreateDataPoints
  <2>3. Running(c)' => HalfDone(c)'
    <3>1. CASE Milvus!CreateDataPoints(c)!1
      BY <1>0, <2>1, <2>2, <3>1, Onward DEF HalfDone, At, Written
    <3>2. CASE Milvus!CreateDataPoints(c)!2
      <4>1. CASE Milvus!Ends(c, "error")
        BY <1>0, <4>1, MilvusEnds, OnlyEnds DEF Running, Ends
      <4>2. CASE ~Milvus!Ends(c, "error")
        BY <1>0, <2>1, <2>2, <3>2, <4>2, Onward DEF HalfDone, At, Written, Db, Same, Late
      <4> QED BY <4>1, <4>2
    <3>3. CASE Milvus!CreateDataPoints(c)!3
      BY <1>0, <3>3, MilvusEnds, OnlyEnds DEF Running, Ends
    <3> QED BY <1>2, <3>1, <3>2, <3>3 DEF Milvus!CreateDataPoints
  <2>4. Housed'
    BY <1>0, <1>2 DEF Housed, Written, Milvus!CreateDataPoints
  <2> QED BY <2>1, <2>2, <2>3, <2>4 DEF Proceeds
<1>3. CASE Milvus!DeleteDataPoints(c)
  <2>1. Running(c) /\ call[c].op = "delete"
    BY <1>3 DEF Running, Milvus!DeleteDataPoints
  <2>2. Steps(c)
    BY <1>0, <1>3, <2>1, MilvusEnds, OtherEnds, DeleteEnds DEF Milvus!DeleteDataPoints, Steps, Careful
  <2>3. Running(c)' => HalfDone(c)'
    BY <1>0, <2>1, <2>2, Onward DEF HalfDone, At
  <2>4. Housed'
    BY <1>0, <1>3 DEF Housed, Written, Milvus!DeleteDataPoints
  <2> QED BY <2>1, <2>2, <2>3, <2>4 DEF Proceeds
<1>4. CASE Milvus!Prune(c)
  <2>1. Running(c) /\ call[c].op = "prune"
    BY <1>4 DEF Running, Milvus!Prune
  <2>2. Steps(c)
    <3>1. CASE Milvus!Prune(c)!1
      BY <1>0, <2>1, <3>1, OnlyGoesOn DEF Steps, Careful, SeparatePrunes
    <3>2. CASE Milvus!Prune(c)!2
      BY <1>0, <2>1, <3>2, OnlyGoesOn DEF Steps, Careful, SeparatePrunes
    <3>3. CASE Milvus!Prune(c)!3
      BY <1>0, <2>1, <3>3, MilvusEnds, OtherEnds DEF Steps, Careful, SeparatePrunes
    <3> QED BY <1>4, <3>1, <3>2, <3>3 DEF Milvus!Prune
  <2>3. Running(c)' => HalfDone(c)'
    BY <1>0, <2>1, <2>2, Onward DEF HalfDone, At
  <2>4. Housed'
    <3>1. CASE Milvus!Prune(c)!1
      BY <1>0, <3>1 DEF Housed
    <3>2. CASE Milvus!Prune(c)!2
      BY <1>0, <3>2 DEF Housed
    <3>3. CASE Milvus!Prune(c)!3
      BY <1>0, <3>3 DEF Housed
    <3> QED BY <1>4, <3>1, <3>2, <3>3 DEF Milvus!Prune
  <2> QED BY <2>1, <2>2, <2>3, <2>4 DEF Proceeds
<1>5. CASE faults' > 0 /\ Milvus!Fails(c)
  <2>1. Running(c)
    BY <1>5 DEF Running, Milvus!Running, Milvus!Fails
  <2>2. Steps(c)
    <3>1. CASE Milvus!Fails(c)!1
      BY <1>0, <1>5, <2>1, <3>1, MilvusEnds, OtherEnds, UntoldEnds DEF Steps, Careful, SeparatePrunes
    <3>2. CASE Milvus!Fails(c)!2
      BY <1>0, <1>5, <2>1, <3>2, OnlyGoesOn DEF Steps, Careful, SeparatePrunes
    <3> QED BY <1>5, <3>1, <3>2 DEF Milvus!Fails
  <2>3. Running(c)' => HalfDone(c)'
    <3>1. CASE Milvus!Fails(c)!1
      BY <1>0, <3>1, MilvusEnds, OnlyEnds DEF Running, Ends
    <3>2. CASE Milvus!Fails(c)!2
      BY <1>0, <2>1, <2>2, <3>2, Onward DEF HalfDone, At
    <3> QED BY <1>5, <3>1, <3>2 DEF Milvus!Fails
  <2>4. Housed'
    BY <1>0, <1>5 DEF Housed, Written, Milvus!Fails
  <2> QED BY <2>1, <2>2, <2>3, <2>4 DEF Proceeds
<1> QED BY <1>0, <1>1, <1>2, <1>3, <1>4, <1>5 DEF Milvus!Next

----------------------------------------------------------------------------
(* openGauss.                                                               *)

\* Calls end in the module of an adapter as they do here.
LEMMA OpenGaussEnds == \A c, result : OpenGauss!Ends(c, result) <=> Ends(c, result)
<1>1. \A c, job : OpenGauss!Aims(c, job) = Aims(c, job)
  BY DEF Aims, OpenGauss!Aims, Deed, OpenGauss!Deed, PointsAreNodes, OpenGauss!PointsAreNodes, Db, OpenGauss!Db,
     LazyCollections, OpenGauss!LazyCollections, Created, OpenGauss!Created, NodeMark, OpenGauss!NodeMark,
     EdgeMark, OpenGauss!EdgeMark, WeightMark, OpenGauss!WeightMark, TruthMark, OpenGauss!TruthMark, TagMark,
     OpenGauss!TagMark, HasMark, OpenGauss!HasMark, HasEdgeMark, OpenGauss!HasEdgeMark, Vectors,
     OpenGauss!Vectors
<1>2. \A c, result : OpenGauss!Leaves(c, result) <=> Leaves(c, result)
  BY <1>1 DEF Leaves, OpenGauss!Leaves, Idle, OpenGauss!Idle, Sweeping, OpenGauss!Sweeping
<1> QED BY <1>2 DEF Ends, OpenGauss!Ends

\* What the module of openGauss does is a step that leaves the rest alone.
LEMMA OpenGaussProceeds ==
  ASSUME VectorInv, Same, provider = "opengauss", NEW c \in Clients,
         OpenGauss!Next(c) \/ (OpenGauss!Fails(c) /\ faults' > 0)
  PROVE Proceeds(c)
<1> USE DEF OpenGauss!At, OpenGauss!Locks, OpenGauss!Exists, OpenGauss!GoOnTo, OpenGauss!WithColl,
   OpenGauss!Upserted, OpenGauss!With, OpenGauss!Written, OpenGauss!Db, OpenGauss!Matching, OpenGauss!InColl,
   OpenGauss!Raises, ServerFields, CallFields, Meets, SeparateIds
<1>0. /\ provider \in Vector /\ SafeInv /\ TypeInv /\ provider' = provider /\ DOMAIN call[c] = CallFields
      /\ ServerFields \subseteq DOMAIN server /\ DOMAIN memo = Engines /\ DOMAIN call = Clients
      /\ (Running(c) => IsJob(provider, call[c]) /\ HalfDone(c)) /\ (~Running(c) => IsIdle(c)) /\ Housed
  BY DEF Vector, VectorInv, SafeInv, TypeInv, Same
<1>1. CASE OpenGauss!CreateCollection(c)
  <2>1. Running(c) /\ call[c].op = "create"
    BY <1>1 DEF Running, OpenGauss!CreateCollection
  <2>2. Steps(c)
    <3>1. CASE OpenGauss!CreateCollection(c)!1
      BY <1>0, <2>1, <3>1, OnlyGoesOn DEF Steps, Careful, LazyCollections
    <3>2. CASE OpenGauss!CreateCollection(c)!2
      BY <1>0, <2>1, <3>2, OpenGaussEnds, OtherEnds, CreateEnds, OnlyGoesOn DEF Steps, Careful, LazyCollections
    <3>3. CASE OpenGauss!CreateCollection(c)!3
      BY <1>0, <2>1, <3>3, OpenGaussEnds, OtherEnds, CreateEnds DEF Steps, Careful, LazyCollections
    <3> QED BY <1>1, <3>1, <3>2, <3>3 DEF OpenGauss!CreateCollection
  <2>3. Running(c)' => HalfDone(c)'
    BY <1>0, <2>1, <2>2, Onward DEF HalfDone, At
  <2>4. Housed'
    BY <1>0, <1>1 DEF Housed, Written, OpenGauss!CreateCollection
  <2> QED BY <2>1, <2>2, <2>3, <2>4 DEF Proceeds
<1>2. CASE OpenGauss!CreateDataPoints(c)
  <2>1. Running(c) /\ call[c].op = "put"
    BY <1>2 DEF Running, OpenGauss!CreateDataPoints
  <2>2. Steps(c)
    <3>1. CASE OpenGauss!CreateDataPoints(c)!1
      BY <1>0, <2>1, <3>1, OnlyGoesOn DEF Steps, Careful, Written, Db
    <3>2. CASE OpenGauss!CreateDataPoints(c)!2
      BY <1>0, <2>1, <3>2, OpenGaussEnds, OtherEnds, PutEnds DEF Steps, Careful, Written, Db
    <3> QED BY <1>2, <3>1, <3>2 DEF OpenGauss!CreateDataPoints
  <2>3. Running(c)' => HalfDone(c)'
    BY <1>0, <2>1, <2>2, Onward DEF HalfDone, At
  <2>4. Housed'
    BY <1>0, <1>2 DEF Housed, Written, OpenGauss!CreateDataPoints
  <2> QED BY <2>1, <2>2, <2>3, <2>4 DEF Proceeds
<1>3. CASE OpenGauss!DeleteDataPoints(c)
  <2>1. Running(c) /\ call[c].op = "delete"
    BY <1>3 DEF Running, OpenGauss!DeleteDataPoints
  <2>2. Steps(c)
    <3>1. CASE OpenGauss!DeleteDataPoints(c)!1
      BY <1>0, <2>1, <3>1, OnlyGoesOn DEF Steps, Careful
    <3>2. CASE OpenGauss!DeleteDataPoints(c)!2
      BY <1>0, <2>1, <3>2, OpenGaussEnds, OtherEnds, DeleteEnds DEF Steps, Careful
    <3> QED BY <1>3, <3>1, <3>2 DEF OpenGauss!DeleteDataPoints
  <2>3. Running(c)' => HalfDone(c)'
    BY <1>0, <2>1, <2>2, Onward DEF HalfDone, At
  <2>4. Housed'
    BY <1>0, <1>3 DEF Housed, Written, OpenGauss!DeleteDataPoints
  <2> QED BY <2>1, <2>2, <2>3, <2>4 DEF Proceeds
<1>4. CASE OpenGauss!Prune(c)
  <2>1. Running(c) /\ call[c].op = "prune"
    BY <1>4 DEF Running, OpenGauss!Prune
  <2>2. Steps(c)
    BY <1>0, <1>4, <2>1, OpenGaussEnds, OtherEnds DEF OpenGauss!Prune, Steps, Careful, SeparatePrunes
  <2>3. Running(c)' => HalfDone(c)'
    BY <1>0, <2>1, <2>2, Onward DEF HalfDone, At
  <2>4. Housed'
    BY <1>0, <1>4 DEF Housed, Written, OpenGauss!Prune
  <2> QED BY <2>1, <2>2, <2>3, <2>4 DEF Proceeds
<1>5. CASE faults' > 0 /\ OpenGauss!Fails(c)
  <2>1. Running(c)
    BY <1>5 DEF Running, OpenGauss!Running, OpenGauss!Fails
  <2>2. Steps(c)
    <3>1. CASE OpenGauss!Fails(c)!1
      BY <1>0, <1>5, <2>1, <3>1, OpenGaussEnds, OtherEnds, UntoldEnds DEF Steps, Careful, SeparatePrunes
    <3>2. CASE OpenGauss!Fails(c)!2
      BY <1>0, <1>5, <2>1, <3>2, OnlyGoesOn DEF Steps, Careful, SeparatePrunes
    <3> QED BY <1>5, <3>1, <3>2 DEF OpenGauss!Fails
  <2>3. Running(c)' => HalfDone(c)'
    BY <1>0, <2>1, <2>2, Onward DEF HalfDone, At
  <2>4. Housed'
    BY <1>0, <1>5 DEF Housed, Written, OpenGauss!Fails
  <2> QED BY <2>1, <2>2, <2>3, <2>4 DEF Proceeds
<1> QED BY <1>0, <1>1, <1>2, <1>3, <1>4, <1>5 DEF OpenGauss!Next

----------------------------------------------------------------------------
(* Redis.                                                                   *)

\* Calls end in the module of an adapter as they do here.
LEMMA RedisEnds == \A c, result : Redis!Ends(c, result) <=> Ends(c, result)
<1>1. \A c, job : Redis!Aims(c, job) = Aims(c, job)
  BY DEF Aims, Redis!Aims, Deed, Redis!Deed, PointsAreNodes, Redis!PointsAreNodes, Db, Redis!Db,
     LazyCollections, Redis!LazyCollections, Created, Redis!Created, NodeMark, Redis!NodeMark, EdgeMark,
     Redis!EdgeMark, WeightMark, Redis!WeightMark, TruthMark, Redis!TruthMark, TagMark, Redis!TagMark, HasMark,
     Redis!HasMark, HasEdgeMark, Redis!HasEdgeMark, Vectors,
     Redis!Vectors
<1>2. \A c, result : Redis!Leaves(c, result) <=> Leaves(c, result)
  BY <1>1 DEF Leaves, Redis!Leaves, Idle, Redis!Idle, Sweeping, Redis!Sweeping
<1> QED BY <1>2 DEF Ends, Redis!Ends

\* What the module of Redis does is a step that leaves the rest alone.
LEMMA RedisProceeds ==
  ASSUME VectorInv, Same, provider = "redis", NEW c \in Clients,
         Redis!Next(c) \/ (Redis!Fails(c) /\ faults' > 0)
  PROVE Proceeds(c)
<1> USE DEF Redis!FoundIn, Redis!At, Redis!Exists, Redis!Goto, Redis!WithColl, Redis!Upserted, Redis!With,
   Redis!Written,
   Redis!Db, Redis!Matching, Redis!InColl, Redis!GotoWith, Redis!Dropped, Redis!Raises, ServerFields,
   CallFields, Meets, SeparateIds
<1>0. /\ provider \in Vector /\ SafeInv /\ TypeInv /\ provider' = provider /\ DOMAIN call[c] = CallFields
      /\ ServerFields \subseteq DOMAIN server /\ DOMAIN memo = Engines /\ DOMAIN call = Clients
      /\ (Running(c) => IsJob(provider, call[c]) /\ HalfDone(c)) /\ (~Running(c) => IsIdle(c)) /\ Housed
  BY DEF Vector, VectorInv, SafeInv, TypeInv, Same
<1>1. CASE Redis!CreateCollection(c)
  <2>1. Running(c) /\ call[c].op = "create"
    BY <1>1 DEF Running, Redis!CreateCollection, Redis!Remembers
  <2>2. Steps(c)
    <3>1. CASE Redis!CreateCollection(c)!1
      BY <1>0, <2>1, <3>1, OnlyGoesOn DEF Steps, Careful, LazyCollections, Redis!Remembers
    <3>2. CASE Redis!CreateCollection(c)!2
      BY <1>0, <2>1, <3>2, RedisEnds, OtherEnds, CreateEnds, OnlyGoesOn DEF Steps, Careful, LazyCollections,
         Redis!Remembers
    <3>3. CASE Redis!CreateCollection(c)!3
      BY <1>0, <2>1, <3>3, RedisEnds, OtherEnds, CreateEnds DEF Steps, Careful, LazyCollections
    <3> QED BY <1>1, <3>1, <3>2, <3>3 DEF Redis!CreateCollection
  <2>3. Running(c)' => HalfDone(c)'
    BY <1>0, <2>1, <2>2, Onward DEF HalfDone, At
  <2>4. Housed'
    BY <1>0 DEF Housed
  <2> QED BY <2>1, <2>2, <2>3, <2>4 DEF Proceeds
<1>2. CASE Redis!CreateDataPoints(c)
  <2>1. Running(c) /\ call[c].op = "put"
    BY <1>2 DEF Running, Redis!CreateDataPoints, Redis!Remembers
  <2>2. Steps(c)
    <3>1. CASE Redis!CreateDataPoints(c)!1
      BY <1>0, <2>1, <3>1, RedisEnds, OtherEnds, PutEnds, OnlyGoesOn DEF Steps, Careful, Written, Db,
         Redis!Remembers
    <3>2. CASE Redis!CreateDataPoints(c)!2
      <4>1. Careful(c)
        BY <1>0, <2>1, <3>2 DEF Careful, HalfDone, Exists
      <4>2. OthersStay(c) /\ (GoesOn \/ EndsWell(c))
        BY <1>0, <2>1, <3>2, RedisEnds, OtherEnds, PutEnds DEF Written, Db, HalfDone, Exists
      <4> QED BY <4>1, <4>2 DEF Steps
    <3> QED BY <1>2, <3>1, <3>2 DEF Redis!CreateDataPoints
  <2>3. Running(c)' => HalfDone(c)'
    <3>1. CASE Redis!CreateDataPoints(c)!1
      BY <1>0, <2>1, <3>1, RedisEnds, OnlyEnds DEF HalfDone, At, Running, Exists, Redis!Remembers, Ends
    <3>2. CASE Redis!CreateDataPoints(c)!2
      BY <1>0, <3>2, RedisEnds, OnlyEnds DEF Running, Ends
    <3> QED BY <1>2, <3>1, <3>2 DEF Redis!CreateDataPoints
  <2>4. Housed'
    BY <1>0 DEF Housed
  <2> QED BY <2>1, <2>2, <2>3, <2>4 DEF Proceeds
<1>3. CASE Redis!DeleteDataPoints(c)
  <2>1. Running(c) /\ call[c].op = "delete"
    BY <1>3 DEF Running, Redis!DeleteDataPoints, Redis!Remembers
  <2>2. Steps(c)
    BY <1>0, <1>3, <2>1, RedisEnds, OtherEnds, DeleteEnds DEF Redis!DeleteDataPoints, Redis!Remembers, Steps,
       Careful
  <2>3. Running(c)' => HalfDone(c)'
    BY <1>0, <2>1, <2>2, Onward DEF HalfDone, At
  <2>4. Housed'
    BY <1>0 DEF Housed
  <2> QED BY <2>1, <2>2, <2>3, <2>4 DEF Proceeds
<1>4. CASE Redis!Prune(c)
  <2>1. Running(c) /\ call[c].op = "prune"
    BY <1>4 DEF Running, Redis!Prune
  <2>2. Steps(c)
    <3>1. CASE Redis!Prune(c)!1
      BY <1>0, <2>1, <3>1, OnlyGoesOn DEF Steps, Careful, SeparatePrunes
    <3>2. CASE Redis!Prune(c)!2
      BY <1>0, <2>1, <3>2, RedisEnds, OtherEnds DEF Steps, Careful, SeparatePrunes
    <3>3. CASE Redis!Prune(c)!3
      BY <1>0, <2>1, <3>3, OnlyGoesOn DEF Steps, Careful, SeparatePrunes
    <3>4. CASE Redis!Prune(c)!4
      BY <1>0, <2>1, <3>4, OnlyGoesOn DEF Steps, Careful, SeparatePrunes
    <3>5. CASE Redis!Prune(c)!5
      BY <1>0, <2>1, <3>5, RedisEnds, OtherEnds DEF Steps, Careful, SeparatePrunes
    <3> QED BY <1>4, <3>1, <3>2, <3>3, <3>4, <3>5 DEF Redis!Prune
  <2>3. Running(c)' => HalfDone(c)'
    BY <1>0, <2>1, <2>2, Onward DEF HalfDone, At
  <2>4. Housed'
    BY <1>0 DEF Housed
  <2> QED BY <2>1, <2>2, <2>3, <2>4 DEF Proceeds
<1>5. CASE faults' > 0 /\ Redis!Fails(c)
  <2>1. Running(c)
    BY <1>5 DEF Running, Redis!Running, Redis!Fails, Redis!Remembers
  <2>2. Steps(c)
    <3>1. CASE Redis!Fails(c)!1
      BY <1>0, <1>5, <2>1, <3>1, RedisEnds, OtherEnds, UntoldEnds DEF Steps, Careful, SeparatePrunes
    <3>2. CASE Redis!Fails(c)!2
      BY <1>0, <1>5, <2>1, <3>2, OnlyGoesOn DEF Steps, Careful, SeparatePrunes,
         Redis!Remembers
    <3>3. CASE Redis!Fails(c)!3
      BY <1>0, <1>5, <2>1, <3>3, RedisEnds, OtherEnds, UntoldEnds DEF Steps, Careful, SeparatePrunes,
         Redis!Remembers
    <3>4. CASE Redis!Fails(c)!4
      BY <1>0, <1>5, <2>1, <3>4, OnlyGoesOn DEF Steps, Careful, SeparatePrunes
    <3> QED BY <1>5, <3>1, <3>2, <3>3, <3>4 DEF Redis!Fails
  <2>3. Running(c)' => HalfDone(c)'
    <3>1. CASE call[c].op # "put"
      BY <1>0, <2>1, <2>2, <3>1, Onward DEF HalfDone, At
    <3>2. CASE call[c].op = "put"
      BY <1>0, <1>5, <3>2, RedisEnds, OnlyEnds DEF Redis!Fails, Running, Ends
    <3> QED BY <3>1, <3>2
  <2>4. Housed'
    BY <1>0 DEF Housed
  <2> QED BY <2>1, <2>2, <2>3, <2>4 DEF Proceeds
<1> QED BY <1>0, <1>1, <1>2, <1>3, <1>4, <1>5 DEF Redis!Next

----------------------------------------------------------------------------
(* Valkey.                                                                  *)

\* Calls end in the module of an adapter as they do here.
LEMMA ValkeyEnds == \A c, result : Valkey!Ends(c, result) <=> Ends(c, result)
<1>1. \A c, job : Valkey!Aims(c, job) = Aims(c, job)
  BY DEF Aims, Valkey!Aims, Deed, Valkey!Deed, PointsAreNodes, Valkey!PointsAreNodes, Db, Valkey!Db,
     LazyCollections, Valkey!LazyCollections, Created, Valkey!Created, NodeMark, Valkey!NodeMark, EdgeMark,
     Valkey!EdgeMark, WeightMark, Valkey!WeightMark, TruthMark, Valkey!TruthMark, TagMark, Valkey!TagMark,
     HasMark, Valkey!HasMark, HasEdgeMark, Valkey!HasEdgeMark, Vectors,
     Valkey!Vectors
<1>2. \A c, result : Valkey!Leaves(c, result) <=> Leaves(c, result)
  BY <1>1 DEF Leaves, Valkey!Leaves, Idle, Valkey!Idle, Sweeping, Valkey!Sweeping
<1> QED BY <1>2 DEF Ends, Valkey!Ends

\* What the module of Valkey does is a step that leaves the rest alone.
LEMMA ValkeyProceeds ==
  ASSUME VectorInv, Same, provider = "valkey", NEW c \in Clients,
         Valkey!Next(c) \/ (Valkey!Fails(c) /\ faults' > 0)
  PROVE Proceeds(c)
<1> USE DEF Valkey!At, Valkey!Locks, Valkey!Exists, Valkey!Goto, Valkey!WithColl, Valkey!GotoWith,
   Valkey!Upserted, Valkey!With, Valkey!Written, Valkey!Db, Valkey!Matching, Valkey!InColl, Valkey!Raises,
   ServerFields, CallFields, Meets, SeparateIds
<1>0. /\ provider \in Vector /\ SafeInv /\ TypeInv /\ provider' = provider /\ DOMAIN call[c] = CallFields
      /\ ServerFields \subseteq DOMAIN server /\ DOMAIN memo = Engines /\ DOMAIN call = Clients
      /\ (Running(c) => IsJob(provider, call[c]) /\ HalfDone(c)) /\ (~Running(c) => IsIdle(c)) /\ Housed
  BY DEF Vector, VectorInv, SafeInv, TypeInv, Same
<1>1. CASE Valkey!CreateCollection(c)
  <2>1. Running(c) /\ call[c].op = "create"
    BY <1>1 DEF Running, Valkey!CreateCollection
  <2>2. Steps(c)
    <3>1. CASE Valkey!CreateCollection(c)!1
      BY <1>0, <2>1, <3>1, OnlyGoesOn DEF Steps, Careful, LazyCollections
    <3>2. CASE Valkey!CreateCollection(c)!2
      BY <1>0, <2>1, <3>2, ValkeyEnds, OtherEnds, CreateEnds, OnlyGoesOn DEF Steps, Careful, LazyCollections
    <3>3. CASE Valkey!CreateCollection(c)!3
      BY <1>0, <2>1, <3>3, ValkeyEnds, OtherEnds, CreateEnds DEF Steps, Careful, LazyCollections
    <3> QED BY <1>1, <3>1, <3>2, <3>3 DEF Valkey!CreateCollection
  <2>3. Running(c)' => HalfDone(c)'
    BY <1>0, <2>1, <2>2, Onward DEF HalfDone, At
  <2>4. Housed'
    BY <1>0 DEF Housed
  <2> QED BY <2>1, <2>2, <2>3, <2>4 DEF Proceeds
<1>2. CASE Valkey!CreateDataPoints(c)
  <2>1. Running(c) /\ call[c].op = "put"
    BY <1>2 DEF Running, Valkey!CreateDataPoints
  <2>2. Steps(c)
    <3>1. CASE Valkey!CreateDataPoints(c)!1
      BY <1>0, <2>1, <3>1, ValkeyEnds, OtherEnds, PutEnds, OnlyGoesOn DEF Steps, Careful, Written, Db
    <3>2. CASE Valkey!CreateDataPoints(c)!2
      <4>1. PICK i \in call[c].todo : Valkey!CreateDataPoints(c)!2!2!(i)
        BY <3>2
      <4>2. call[c].todo \subseteq call[c].ids
        BY <1>0, <2>1, <3>2 DEF HalfDone, At
      <4>3. server' = Upserted(Written(c, {i})) /\ memo' = memo
        BY <3>2, <4>1 DEF Upserted, With, Written, Db
      <4>4. Careful(c)
        BY <1>0, <2>1, <4>2, <4>3, WritesCarefully DEF Upserted, With
      <4>5. CASE call[c].todo = {i}
        <5>1. Ends(c, "ok")
          BY <4>1, <4>5, ValkeyEnds
        <5>2. call[c].clean => \A p \in Written(c, call[c].ids) : p \in server'.points \/ Late(p)'
          <6>1. call[c].ids \ (call[c].todo \ {i}) = call[c].ids
            BY <4>5
          <6>2. untold \subseteq untold'
            BY <5>1 DEF Ends
          <6> QED BY <1>0, <2>1, <3>2, <4>3, <6>1, <6>2, OneMore DEF HalfDone
        <5>3. call[c].clean /\ call[c].ids # {} => call[c].coll \in server'.colls
          BY <1>0, <2>1, <3>2, <4>3 DEF HalfDone, Exists, Upserted, With
        <5> QED BY <1>0, <2>1, <4>4, <5>1, <5>2, <5>3, SomehowPutEnds DEF Steps
      <4>6. CASE call[c].todo # {i}
        BY <1>0, <2>1, <4>1, <4>4, <4>6, OnlyGoesOn DEF Steps
      <4> QED BY <4>5, <4>6
    <3> QED BY <1>2, <3>1, <3>2 DEF Valkey!CreateDataPoints
  <2>3. Running(c)' => HalfDone(c)'
    <3>1. CASE Valkey!CreateDataPoints(c)!1
      BY <1>0, <2>1, <3>1, ValkeyEnds, OnlyEnds DEF HalfDone, At, Running, Exists, Written, Ends
    <3>2. CASE Valkey!CreateDataPoints(c)!2
      <4>1. PICK i \in call[c].todo : Valkey!CreateDataPoints(c)!2!2!(i)
        BY <3>2
      <4>2. CASE call[c].todo = {i}
        BY <1>0, <4>1, <4>2, ValkeyEnds, OnlyEnds DEF Running, Ends
      <4>3. CASE call[c].todo # {i}
        <5>1. /\ server' = Upserted(Written(c, {i})) /\ due' = due /\ untold' = untold
              /\ call' = [call EXCEPT ![c].pc = "set", ![c].todo = call[c].todo \ {i}]
          BY <4>1, <4>3 DEF Upserted, With, Written, Db
        <5>2. call[c].clean => \A p \in Written(c, call[c].ids \ (call[c].todo \ {i})) :
                                 p \in server'.points \/ Late(p)'
          BY <1>0, <2>1, <3>2, <5>1, OneMore DEF HalfDone
        <5>3. Exists(call[c].coll)' <=> Exists(call[c].coll)
          BY <1>0, <2>1, <5>1 DEF Exists, Upserted, With
        <5>4. call'[c] = [call[c] EXCEPT !.pc = "set", !.todo = call[c].todo \ {i}]
          BY <1>0, <5>1
        <5> QED BY <1>0, <2>1, <3>2, <5>2, <5>3, <5>4 DEF HalfDone, Written, Db, Exists, Same, At
      <4> QED BY <4>2, <4>3
    <3> QED BY <1>2, <3>1, <3>2 DEF Valkey!CreateDataPoints
  <2>4. Housed'
    BY <1>0 DEF Housed
  <2> QED BY <2>1, <2>2, <2>3, <2>4 DEF Proceeds
<1>3. CASE Valkey!DeleteDataPoints(c)
  <2>1. Running(c) /\ call[c].op = "delete"
    BY <1>3 DEF Running, Valkey!DeleteDataPoints
  <2>2. Steps(c)
    BY <1>0, <1>3, <2>1, ValkeyEnds, OtherEnds, DeleteEnds DEF Valkey!DeleteDataPoints, Steps, Careful
  <2>3. Running(c)' => HalfDone(c)'
    BY <1>0, <2>1, <2>2, Onward DEF HalfDone, At
  <2>4. Housed'
    BY <1>0 DEF Housed
  <2> QED BY <2>1, <2>2, <2>3, <2>4 DEF Proceeds
<1>4. CASE Valkey!Prune(c)
  <2>1. Running(c) /\ call[c].op = "prune"
    BY <1>4 DEF Running, Valkey!Prune
  <2>2. Steps(c)
    <3>1. CASE Valkey!Prune(c)!1
      BY <1>0, <2>1, <3>1, OnlyGoesOn DEF Steps, Careful, SeparatePrunes
    <3>2. CASE Valkey!Prune(c)!2
      BY <1>0, <2>1, <3>2, ValkeyEnds, OtherEnds, OnlyGoesOn DEF Steps, Careful, SeparatePrunes
    <3>3. CASE Valkey!Prune(c)!3
      BY <1>0, <2>1, <3>3, ValkeyEnds, OtherEnds DEF Steps, Careful, SeparatePrunes
    <3> QED BY <1>4, <3>1, <3>2, <3>3 DEF Valkey!Prune
  <2>3. Running(c)' => HalfDone(c)'
    BY <1>0, <2>1, <2>2, Onward DEF HalfDone, At
  <2>4. Housed'
    BY <1>0 DEF Housed
  <2> QED BY <2>1, <2>2, <2>3, <2>4 DEF Proceeds
<1>5. CASE faults' > 0 /\ Valkey!Fails(c)
  <2>1. Running(c)
    BY <1>5 DEF Running, Valkey!Running, Valkey!Fails
  <2>2. Steps(c)
    <3>1. CASE Valkey!Fails(c)!1
      BY <1>0, <1>5, <2>1, <3>1, ValkeyEnds, OtherEnds, UntoldEnds DEF Steps, Careful, SeparatePrunes
    <3>2. CASE Valkey!Fails(c)!2
      BY <1>0, <1>5, <2>1, <3>2, OnlyGoesOn DEF Steps, Careful, SeparatePrunes
    <3>3. CASE Valkey!Fails(c)!3
      BY <1>0, <1>5, <2>1, <3>3, ValkeyEnds, OtherEnds, UntoldEnds DEF Steps, Careful, SeparatePrunes
    <3>4. CASE Valkey!Fails(c)!4
      BY <1>0, <1>5, <2>1, <3>4, ValkeyEnds, OtherEnds, UntoldEnds DEF Steps, Careful, SeparatePrunes
    <3> QED BY <1>5, <3>1, <3>2, <3>3, <3>4 DEF Valkey!Fails
  <2>3. Running(c)' => HalfDone(c)'
    <3>1. CASE call[c].op # "put"
      BY <1>0, <2>1, <2>2, <3>1, Onward DEF HalfDone, At
    <3>2. CASE call[c].op = "put"
      BY <1>0, <1>5, <3>2, ValkeyEnds, OnlyEnds DEF Valkey!Fails, Running, Ends
    <3> QED BY <3>1, <3>2
  <2>4. Housed'
    BY <1>0 DEF Housed
  <2> QED BY <2>1, <2>2, <2>3, <2>4 DEF Proceeds
<1> QED BY <1>0, <1>1, <1>2, <1>3, <1>4, <1>5 DEF Valkey!Next

----------------------------------------------------------------------------
(* Turbopuffer.                                                             *)

\* Calls end in the module of an adapter as they do here.
LEMMA TurbopufferEnds ==
  \A c : /\ \A result : Turbopuffer!Ends(c, result) <=> Ends(c, result)
         /\ \A marks : Turbopuffer!EndsUntold(c, marks) <=> EndsUntold(c, marks)
         /\ \A job : Turbopuffer!Aims(c, job) = Aims(c, job)
<1>1. \A c, job : Turbopuffer!Aims(c, job) = Aims(c, job)
  BY DEF Aims, Turbopuffer!Aims, Deed, Turbopuffer!Deed, PointsAreNodes, Turbopuffer!PointsAreNodes, Db,
     Turbopuffer!Db, LazyCollections, Turbopuffer!LazyCollections, Created, Turbopuffer!Created, NodeMark,
     Turbopuffer!NodeMark, EdgeMark, Turbopuffer!EdgeMark, WeightMark, Turbopuffer!WeightMark, TruthMark,
     Turbopuffer!TruthMark, TagMark, Turbopuffer!TagMark, HasMark, Turbopuffer!HasMark, HasEdgeMark,
     Turbopuffer!HasEdgeMark, Vectors,
     Turbopuffer!Vectors
<1>2. \A c, result : Turbopuffer!Leaves(c, result) <=> Leaves(c, result)
  BY <1>1 DEF Leaves, Turbopuffer!Leaves, Idle, Turbopuffer!Idle, Sweeping, Turbopuffer!Sweeping
<1> QED BY <1>1, <1>2 DEF Ends, Turbopuffer!Ends, EndsUntold, Turbopuffer!EndsUntold

\* What the module of turbopuffer does is a step that leaves the rest alone.
LEMMA TurbopufferProceeds ==
  ASSUME VectorInv, Same, provider = "turbopuffer", NEW c \in Clients,
         Turbopuffer!Next(c) \/ (Turbopuffer!Fails(c) /\ faults' > 0)
  PROVE Proceeds(c)
<1> USE DEF Turbopuffer!At, Turbopuffer!InColl, Turbopuffer!OfDb, Turbopuffer!Written, Turbopuffer!Db,
   Turbopuffer!Exists, Turbopuffer!Goto, Turbopuffer!With, Turbopuffer!GotoWith, Turbopuffer!Raises,
   ServerFields, CallFields, Meets, SeparateIds
<1>0. /\ provider \in Vector /\ SafeInv /\ TypeInv /\ provider' = provider /\ DOMAIN call[c] = CallFields
      /\ ServerFields \subseteq DOMAIN server /\ DOMAIN memo = Engines /\ DOMAIN call = Clients
      /\ (Running(c) => IsJob(provider, call[c]) /\ HalfDone(c)) /\ (~Running(c) => IsIdle(c)) /\ Housed
  BY DEF Vector, VectorInv, SafeInv, TypeInv, Same
<1>1. CASE Turbopuffer!CreateCollection(c)
  <2>1. Running(c) /\ call[c].op = "create"
    BY <1>1 DEF Running, Turbopuffer!CreateCollection
  <2>2. Steps(c)
    BY <1>0, <1>1, <2>1, TurbopufferEnds, OtherEnds, CreateEnds DEF Turbopuffer!CreateCollection, Steps,
       Careful, LazyCollections
  <2>3. Running(c)' => HalfDone(c)'
    BY <1>0, <2>1, <2>2, Onward DEF HalfDone, At
  <2>4. Housed'
    BY <1>0, <1>1 DEF Housed, Turbopuffer!CreateCollection
  <2> QED BY <2>1, <2>2, <2>3, <2>4 DEF Proceeds
<1>2. CASE Turbopuffer!CreateDataPoints(c)
  <2>1. Running(c) /\ call[c].op = "put"
    BY <1>2 DEF Running, Turbopuffer!CreateDataPoints, Turbopuffer!Own, Turbopuffer!NamespaceName
  <2>2. Steps(c)
    <3>1. /\ ServerFields \subseteq DOMAIN server' /\ server'.nodes = server.nodes 
               /\ server'.edges = server.edges
          /\ server'.colls = server.colls \cup {<<Db(c), call[c].coll>>}
          /\ server'.points = (server.points \ {p \in server.points : Meets(c, p)}) \cup Written(c, call[c].ids)
      BY <1>0, <1>2 DEF Turbopuffer!CreateDataPoints, Turbopuffer!Own, Turbopuffer!NamespaceName, Written, Db
    <3>2. \A q \in Written(c, call[c].ids) : Meets(c, q)
      BY DEF Written
    <3>3. Careful(c)
      <4> HIDE DEF Meets
      <4> QED BY <1>0, <1>2, <3>1, <3>2, <2>1 DEF Careful, Turbopuffer!CreateDataPoints
    <3>4. Ends(c, "ok")
      BY <1>2, TurbopufferEnds DEF Turbopuffer!CreateDataPoints
    <3> QED BY <1>0, <2>1, <3>1, <3>3, <3>4, SomehowPutEnds DEF Steps
  <2>3. Running(c)' => HalfDone(c)'
    BY <1>0, <2>1, <2>2, Onward DEF HalfDone, At
  <2>4. Housed'
    <3>1. /\ ServerFields \subseteq DOMAIN server' /\ server'.nodes = server.nodes 
               /\ server'.edges = server.edges
          /\ server'.colls = server.colls \cup {<<Db(c), call[c].coll>>}
          /\ server'.points = (server.points \ {p \in server.points : Meets(c, p)}) \cup Written(c, call[c].ids)
      BY <1>0, <1>2 DEF Turbopuffer!CreateDataPoints, Turbopuffer!Own, Turbopuffer!NamespaceName, Written, Db
    <3>2. ASSUME NEW q \in server'.points
          PROVE <<q.db, q.coll>> \in server'.colls
      <4>1. CASE q \in server.points
        BY <1>0, <3>1, <4>1 DEF Housed
      <4>2. CASE q \in Written(c, call[c].ids)
        <5>1. q.db = Db(c) /\ q.coll = call[c].coll
          BY <4>2 DEF Written
        <5> QED BY <3>1, <5>1
      <4> QED BY <3>1, <4>1, <4>2
    <3> QED BY <1>0, <3>2 DEF Housed
  <2> QED BY <2>1, <2>2, <2>3, <2>4 DEF Proceeds
<1>3. CASE Turbopuffer!DeleteDataPoints(c)
  <2>1. Running(c) /\ call[c].op = "delete"
    BY <1>3 DEF Running, Turbopuffer!DeleteDataPoints, Turbopuffer!HasCollection, Turbopuffer!NamespaceName,
       Turbopuffer!Own
  <2>2. Steps(c)
    <3>1. CASE Turbopuffer!DeleteDataPoints(c)!1
      BY <1>0, <2>1, <3>1, TurbopufferEnds, OtherEnds, DeleteEnds, OnlyGoesOn DEF Steps, Careful,
         Turbopuffer!HasCollection, Turbopuffer!NamespaceName, Housed, Db
    <3>2. CASE Turbopuffer!DeleteDataPoints(c)!2
      <4>1. server' = With({p \in server.points :
                              ~(p \in Turbopuffer!Own(engine[c], call[c].coll) /\ p.id \in call[c].ids)})
            /\ memo' = memo /\ Ends(c, "ok")
        BY <3>2, TurbopufferEnds DEF With
      <4>2. \A q \in server.points : q \in server'.points <=> ~Meets(c, q)
        BY <1>0, <4>1 DEF Turbopuffer!Own, With, Db
      <4>3. Careful(c)
        BY <1>0, <2>1, <4>1, <4>2 DEF Careful, With
      <4> QED BY <1>0, <2>1, <4>1, <4>2, <4>3, DeleteEnds DEF Steps, With
    <3> QED BY <1>3, <3>1, <3>2 DEF Turbopuffer!DeleteDataPoints
  <2>3. Running(c)' => HalfDone(c)'
    BY <1>0, <2>1, <2>2, Onward DEF HalfDone, At
  <2>4. Housed'
    BY <1>0, <1>3 DEF Housed, Turbopuffer!DeleteDataPoints, Turbopuffer!Own, Turbopuffer!HasCollection,
       Turbopuffer!NamespaceName
  <2> QED BY <2>1, <2>2, <2>3, <2>4 DEF Proceeds
<1>4. CASE Turbopuffer!Prune(c)
  <2>1. Running(c) /\ call[c].op = "prune"
    BY <1>4 DEF Running, Turbopuffer!Prune, Turbopuffer!ListNamespacesWithPrefix
  <2>2. Steps(c)
    <3>1. CASE Turbopuffer!Prune(c)!1
      BY <1>0, <2>1, <3>1, OnlyGoesOn DEF Steps, Careful, SeparatePrunes, Turbopuffer!ListNamespacesWithPrefix
    <3>2. CASE Turbopuffer!Prune(c)!2
      <4>1. PICK n \in call[c].todo : Turbopuffer!Prune(c)!2!2!(n)
        BY <3>2
      <4>2. n[1] = Db(c)
        BY <1>0, <2>1, <3>2 DEF HalfDone, At
      <4>3. CASE Exists(n)
        <5>1. server' = [server EXCEPT !.colls = @ \ {n},
              !.points = @ \ (InColl(n[2]) \cap OfDb(n[1]))] /\ memo' = memo
          BY <3>2, <4>1, <4>3 DEF Exists, InColl, OfDb
        <5>2. GoesOn /\ OthersStay(c)
          BY <1>0, <2>1, <4>1, <4>3, OnlyGoesOn DEF Exists
        <5> QED BY <1>0, <2>1, <4>2, <5>1, <5>2 DEF Steps, Careful, SeparatePrunes, OfDb
      <4>4. CASE ~Exists(n)
        BY <1>0, <2>1, <3>2, <4>1, <4>4, TurbopufferEnds, OtherEnds DEF Steps, Careful, Exists
      <4> QED BY <4>3, <4>4
    <3>3. CASE Turbopuffer!Prune(c)!3
      BY <1>0, <2>1, <3>3, TurbopufferEnds, OtherEnds DEF Steps, Careful, SeparatePrunes
    <3> QED BY <1>4, <3>1, <3>2, <3>3 DEF Turbopuffer!Prune
  <2>3. Running(c)' => HalfDone(c)'
    <3>1. CASE Turbopuffer!Prune(c)!1
      BY <1>0, <3>1 DEF HalfDone, At, Turbopuffer!ListNamespacesWithPrefix, Db, Same
    <3>2. CASE Turbopuffer!Prune(c)!2
      <4>1. CASE Turbopuffer!Ends(c, "error")
        BY <1>0, <4>1, TurbopufferEnds, OnlyEnds DEF Running, Ends
      <4>2. CASE ~Turbopuffer!Ends(c, "error")
        BY <1>0, <2>1, <3>2, <4>2 DEF HalfDone, At, Db, Same
      <4> QED BY <4>1, <4>2
    <3>3. CASE Turbopuffer!Prune(c)!3
      BY <1>0, <3>3, TurbopufferEnds, OnlyEnds DEF Running, Ends
    <3> QED BY <1>4, <3>1, <3>2, <3>3 DEF Turbopuffer!Prune
  <2>4. Housed'
    <3>1. CASE Turbopuffer!Prune(c)!1
      BY <1>0, <3>1 DEF Housed, Turbopuffer!ListNamespacesWithPrefix
    <3>2. CASE Turbopuffer!Prune(c)!2
      <4>1. PICK n \in call[c].todo : Turbopuffer!Prune(c)!2!2!(n)
        BY <3>2
      <4>2. CASE Exists(n)
        <5>1. server' = [server EXCEPT !.colls = @ \ {n}, !.points = @ \ (InColl(n[2]) \cap OfDb(n[1]))]
          BY <4>1, <4>2 DEF Exists, InColl, OfDb
        <5>2. \A q \in server'.points : q \in server.points /\ <<q.db, q.coll>> # n
          BY <1>0, <5>1 DEF InColl, OfDb
        <5> QED BY <1>0, <5>1, <5>2 DEF Housed
      <4>3. CASE ~Exists(n)
        BY <1>0, <4>1, <4>3 DEF Housed, Exists
      <4> QED BY <4>2, <4>3
    <3>3. CASE Turbopuffer!Prune(c)!3
      BY <1>0, <3>3 DEF Housed, Turbopuffer!ListNamespacesWithPrefix
    <3> QED BY <1>4, <3>1, <3>2, <3>3 DEF Turbopuffer!Prune
  <2> QED BY <2>1, <2>2, <2>3, <2>4 DEF Proceeds
<1>5. CASE faults' > 0 /\ Turbopuffer!Fails(c)
  <2>1. Running(c)
    BY <1>5 DEF Running, Turbopuffer!Running, Turbopuffer!Fails
  <2>2. Steps(c)
    <3>1. CASE Turbopuffer!Fails(c)!1
      BY <1>0, <1>5, <2>1, <3>1, TurbopufferEnds, OtherEnds, UntoldEnds DEF Steps, Careful, SeparatePrunes
    <3>2. CASE Turbopuffer!Fails(c)!2
      <4>1. call[c].op = "delete" /\ EndsUntold(c, Aims(c, call[c])) /\ server' = server /\ memo' = memo
        BY <3>2, TurbopufferEnds
      <4> QED BY <1>0, <2>1, <4>1, UntoldEnds DEF Steps, Careful
    <3> QED BY <1>5, <3>1, <3>2 DEF Turbopuffer!Fails
  <2>3. Running(c)' => HalfDone(c)'
    BY <1>0, <1>5, TurbopufferEnds, OnlyEnds DEF Turbopuffer!Fails, Running, Ends, EndsUntold
  <2>4. Housed'
    BY <1>0, <1>5 DEF Housed, Turbopuffer!Fails
  <2> QED BY <2>1, <2>2, <2>3, <2>4 DEF Proceeds
<1> QED BY <1>0, <1>1, <1>2, <1>3, <1>4, <1>5 DEF Turbopuffer!Next

----------------------------------------------------------------------------
(* Pinecone.                                                                *)

\* Calls end in the module of an adapter as they do here.
LEMMA PineconeEnds == \A c, result : Pinecone!Ends(c, result) <=> Ends(c, result)
<1>1. \A c, job : Pinecone!Aims(c, job) = Aims(c, job)
  BY DEF Aims, Pinecone!Aims, Deed, Pinecone!Deed, PointsAreNodes, Pinecone!PointsAreNodes, Db, Pinecone!Db,
     LazyCollections, Pinecone!LazyCollections, Created, Pinecone!Created, NodeMark, Pinecone!NodeMark,
     EdgeMark, Pinecone!EdgeMark, WeightMark, Pinecone!WeightMark, TruthMark, Pinecone!TruthMark, TagMark,
     Pinecone!TagMark, HasMark, Pinecone!HasMark, HasEdgeMark, Pinecone!HasEdgeMark, Vectors,
     Pinecone!Vectors
<1>2. \A c, result : Pinecone!Leaves(c, result) <=> Leaves(c, result)
  BY <1>1 DEF Leaves, Pinecone!Leaves, Idle, Pinecone!Idle, Sweeping, Pinecone!Sweeping
<1> QED BY <1>2 DEF Ends, Pinecone!Ends

\* What the module of Pinecone does is a step that leaves the rest alone.
LEMMA PineconeProceeds ==
  ASSUME VectorInv, Same, provider = "pinecone", NEW c \in Clients,
         Pinecone!Next(c) \/ (Pinecone!Fails(c) /\ faults' > 0)
  PROVE Proceeds(c)
<1> USE DEF Pinecone!At, Pinecone!Locks, Pinecone!Exists, Pinecone!GoOnTo, Pinecone!WithColl, Pinecone!Goto,
   Pinecone!Upserted, Pinecone!With, Pinecone!Written, Pinecone!Db, Pinecone!Matching, Pinecone!InColl,
   Pinecone!Dropped, Pinecone!Raises, ServerFields, CallFields, Meets, SeparateIds
<1>0. /\ provider \in Vector /\ SafeInv /\ TypeInv /\ provider' = provider /\ DOMAIN call[c] = CallFields
      /\ ServerFields \subseteq DOMAIN server /\ DOMAIN memo = Engines /\ DOMAIN call = Clients
      /\ (Running(c) => IsJob(provider, call[c]) /\ HalfDone(c)) /\ (~Running(c) => IsIdle(c)) /\ Housed
  BY DEF Vector, VectorInv, SafeInv, TypeInv, Same
<1>1. CASE Pinecone!CreateCollection(c)
  <2>1. Running(c) /\ call[c].op = "create"
    BY <1>1 DEF Running, Pinecone!CreateCollection
  <2>2. Steps(c)
    <3>1. CASE Pinecone!CreateCollection(c)!1
      BY <1>0, <2>1, <3>1, OnlyGoesOn DEF Steps, Careful, LazyCollections
    <3>2. CASE Pinecone!CreateCollection(c)!2
      BY <1>0, <2>1, <3>2, PineconeEnds, OtherEnds, CreateEnds, OnlyGoesOn DEF Steps, Careful, LazyCollections
    <3>3. CASE Pinecone!CreateCollection(c)!3
      BY <1>0, <2>1, <3>3, PineconeEnds, OtherEnds, CreateEnds DEF Steps, Careful, LazyCollections
    <3> QED BY <1>1, <3>1, <3>2, <3>3 DEF Pinecone!CreateCollection
  <2>3. Running(c)' => HalfDone(c)'
    BY <1>0, <2>1, <2>2, Onward DEF HalfDone, At
  <2>4. Housed'
    BY <1>0, <1>1 DEF Housed, Written, Pinecone!CreateCollection
  <2> QED BY <2>1, <2>2, <2>3, <2>4 DEF Proceeds
<1>2. CASE Pinecone!CreateDataPoints(c)
  <2>1. Running(c) /\ call[c].op = "put"
    BY <1>2 DEF Running, Pinecone!CreateDataPoints
  <2>2. Steps(c)
    <3>1. CASE Pinecone!CreateDataPoints(c)!1
      BY <1>0, <2>1, <3>1, PineconeEnds, OtherEnds, PutEnds, OnlyGoesOn DEF Steps, Careful, Written, Db
    <3>2. CASE Pinecone!CreateDataPoints(c)!2
      BY <1>0, <2>1, <3>2, PineconeEnds, OtherEnds, PutEnds DEF Steps, Careful, Written, Db
    <3> QED BY <1>2, <3>1, <3>2 DEF Pinecone!CreateDataPoints
  <2>3. Running(c)' => HalfDone(c)'
    BY <1>0, <2>1, <2>2, Onward DEF HalfDone, At
  <2>4. Housed'
    BY <1>0, <1>2 DEF Housed, Written, Pinecone!CreateDataPoints
  <2> QED BY <2>1, <2>2, <2>3, <2>4 DEF Proceeds
<1>3. CASE Pinecone!DeleteDataPoints(c)
  <2>1. Running(c) /\ call[c].op = "delete"
    BY <1>3 DEF Running, Pinecone!DeleteDataPoints
  <2>2. Steps(c)
    <3>1. CASE Pinecone!DeleteDataPoints(c)!1
      BY <1>0, <2>1, <3>1, PineconeEnds, OtherEnds, DeleteEnds, OnlyGoesOn DEF Steps, Careful
    <3>2. CASE Pinecone!DeleteDataPoints(c)!2
      BY <1>0, <2>1, <3>2, PineconeEnds, OtherEnds, DeleteEnds DEF Steps, Careful
    <3> QED BY <1>3, <3>1, <3>2 DEF Pinecone!DeleteDataPoints
  <2>3. Running(c)' => HalfDone(c)'
    BY <1>0, <2>1, <2>2, Onward DEF HalfDone, At
  <2>4. Housed'
    BY <1>0, <1>3 DEF Housed, Written, Pinecone!DeleteDataPoints
  <2> QED BY <2>1, <2>2, <2>3, <2>4 DEF Proceeds
<1>4. CASE Pinecone!Prune(c)
  <2>1. Running(c) /\ call[c].op = "prune"
    BY <1>4 DEF Running, Pinecone!Prune
  <2>2. Steps(c)
    <3>1. CASE Pinecone!Prune(c)!1
      BY <1>0, <2>1, <3>1, OnlyGoesOn DEF Steps, Careful, SeparatePrunes
    <3>2. CASE Pinecone!Prune(c)!2
      BY <1>0, <2>1, <3>2, PineconeEnds, OtherEnds, OnlyGoesOn DEF Steps, Careful, SeparatePrunes
    <3>3. CASE Pinecone!Prune(c)!3
      BY <1>0, <2>1, <3>3, PineconeEnds, OtherEnds DEF Steps, Careful, SeparatePrunes
    <3> QED BY <1>4, <3>1, <3>2, <3>3 DEF Pinecone!Prune
  <2>3. Running(c)' => HalfDone(c)'
    BY <1>0, <2>1, <2>2, Onward DEF HalfDone, At
  <2>4. Housed'
    <3>1. CASE Pinecone!Prune(c)!1
      BY <1>0, <3>1 DEF Housed
    <3>2. CASE Pinecone!Prune(c)!2
      BY <1>0, <3>2 DEF Housed
    <3>3. CASE Pinecone!Prune(c)!3
      BY <1>0, <3>3 DEF Housed
    <3> QED BY <1>4, <3>1, <3>2, <3>3 DEF Pinecone!Prune
  <2> QED BY <2>1, <2>2, <2>3, <2>4 DEF Proceeds
<1>5. CASE faults' > 0 /\ Pinecone!Fails(c)
  <2>1. Running(c)
    BY <1>5 DEF Running, Pinecone!Running, Pinecone!Fails
  <2>2. Steps(c)
    <3>1. CASE Pinecone!Fails(c)!1
      BY <1>0, <1>5, <2>1, <3>1, PineconeEnds, OtherEnds, UntoldEnds DEF Steps, Careful, SeparatePrunes
    <3>2. CASE Pinecone!Fails(c)!2
      BY <1>0, <1>5, <2>1, <3>2, OnlyGoesOn DEF Steps, Careful, SeparatePrunes
    <3>3. CASE Pinecone!Fails(c)!3
      BY <1>0, <1>5, <2>1, <3>3, PineconeEnds, OtherEnds, UntoldEnds DEF Steps, Careful, SeparatePrunes
    <3> QED BY <1>5, <3>1, <3>2, <3>3 DEF Pinecone!Fails
  <2>3. Running(c)' => HalfDone(c)'
    BY <1>0, <2>1, <2>2, Onward DEF HalfDone, At
  <2>4. Housed'
    BY <1>0, <1>5 DEF Housed, Written, Pinecone!Fails
  <2> QED BY <2>1, <2>2, <2>3, <2>4 DEF Proceeds
<1> QED BY <1>0, <1>1, <1>2, <1>3, <1>4, <1>5 DEF Pinecone!Next

----------------------------------------------------------------------------
(* Azure AI Search.                                                         *)

\* Calls end in the module of an adapter as they do here.
LEMMA AzureEnds ==
  \A c : /\ \A result : Azure!Ends(c, result) <=> Ends(c, result)
         /\ \A marks : Azure!EndsUntold(c, marks) <=> EndsUntold(c, marks)
<1>1. \A c, job : Azure!Aims(c, job) = Aims(c, job)
  BY DEF Aims, Azure!Aims, Deed, Azure!Deed, PointsAreNodes, Azure!PointsAreNodes, Db, Azure!Db,
     LazyCollections, Azure!LazyCollections, Created, Azure!Created, NodeMark, Azure!NodeMark, EdgeMark,
     Azure!EdgeMark, WeightMark, Azure!WeightMark, TruthMark, Azure!TruthMark, TagMark, Azure!TagMark, HasMark,
     Azure!HasMark, HasEdgeMark, Azure!HasEdgeMark, Vectors,
     Azure!Vectors
<1>2. \A c, result : Azure!Leaves(c, result) <=> Leaves(c, result)
  BY <1>1 DEF Leaves, Azure!Leaves, Idle, Azure!Idle, Sweeping, Azure!Sweeping
<1> QED BY <1>2 DEF Ends, Azure!Ends, EndsUntold, Azure!EndsUntold

\* What the module of Azure AI Search does is a step that leaves the rest alone.
LEMMA AzureProceeds ==
  ASSUME VectorInv, Same, provider = "azure", NEW c \in Clients,
         Azure!Next(c) \/ (Azure!Fails(c) /\ faults' > 0)
  PROVE Proceeds(c)
<1> USE DEF Azure!FoundIn, Azure!GoOnUntold, Azure!At, Azure!Locks, Azure!Exists, Azure!GoOnTo, Azure!WithColl,
   Azure!Goto, Azure!Upserted,
   Azure!With, Azure!Written, Azure!Db, Azure!Matching, Azure!InColl, Azure!Dropped, Azure!Raises, ServerFields,
   CallFields, Meets, SeparateIds
<1>0. /\ provider \in Vector /\ SafeInv /\ TypeInv /\ provider' = provider /\ DOMAIN call[c] = CallFields
      /\ ServerFields \subseteq DOMAIN server /\ DOMAIN memo = Engines /\ DOMAIN call = Clients
      /\ (Running(c) => IsJob(provider, call[c]) /\ HalfDone(c)) /\ (~Running(c) => IsIdle(c)) /\ Housed
  BY DEF Vector, VectorInv, SafeInv, TypeInv, Same
<1>1. CASE call[c].op = "create" /\ Azure!CreateCollection(c, "start", "done")
  <2>1. Running(c) /\ call[c].op = "create"
    BY <1>1 DEF Running, Azure!CreateCollection, Azure!Unlocks
  <2>2. Steps(c)
    <3>1. CASE Azure!CreateCollection(c, "start", "done")!1
      BY <1>0, <1>1, <2>1, <3>1, OnlyGoesOn DEF Steps, Careful, LazyCollections
    <3>2. CASE Azure!CreateCollection(c, "start", "done")!2
      <4>1. Careful(c)
        BY <1>0, <2>1, <3>2 DEF Careful
      <4>2. OthersStay(c) /\ (GoesOn \/ EndsWell(c))
        <5>1. CASE Exists(call[c].coll)
          BY <1>0, <2>1, <3>2, <5>1, AzureEnds, CreateEnds DEF Exists, Azure!Unlocks
        <5>2. CASE ~Exists(call[c].coll)
          BY <1>0, <2>1, <3>2, <5>2, OnlyGoesOn DEF Exists
        <5> QED BY <5>1, <5>2
      <4> QED BY <4>1, <4>2 DEF Steps
    <3>3. CASE Azure!CreateCollection(c, "start", "done")!3
      BY <1>0, <1>1, <2>1, <3>3, AzureEnds, OtherEnds, CreateEnds, OnlyGoesOn DEF Steps, Careful,
         LazyCollections, Azure!Unlocks
    <3> QED BY <1>1, <3>1, <3>2, <3>3 DEF Azure!CreateCollection
  <2>3. Running(c)' => HalfDone(c)'
    BY <1>0, <2>1, <2>2, Onward DEF HalfDone, At
  <2>4. Housed'
    BY <1>0, <1>1 DEF Housed, Written, Azure!CreateCollection, Azure!Unlocks
  <2> QED BY <2>1, <2>2, <2>3, <2>4 DEF Proceeds
<1>2. CASE Azure!CreateDataPoints(c)
  <2>1. Running(c) /\ call[c].op = "put"
    BY <1>2 DEF Running, Azure!CreateDataPoints, Azure!CreateCollection, Azure!Unlocks
  <2>2. Steps(c)
    <3>1. CASE Azure!CreateDataPoints(c)!1
      BY <1>0, <2>1, <3>1, OnlyGoesOn DEF Steps, Careful, Written, Db
    <3>2. CASE Azure!CreateDataPoints(c)!2
      <4>1. CASE Azure!CreateCollection(c, "create", "upload")!1
        BY <1>0, <2>1, <4>1, AzureEnds, OnlyGoesOn DEF Steps, Careful, Azure!Unlocks
      <4>2. CASE Azure!CreateCollection(c, "create", "upload")!2
        BY <1>0, <2>1, <4>2, AzureEnds, OnlyGoesOn DEF Steps, Careful, Azure!Unlocks
      <4>3. CASE Azure!CreateCollection(c, "create", "upload")!3
        BY <1>0, <2>1, <4>3, AzureEnds, OnlyGoesOn DEF Steps, Careful, Azure!Unlocks
      <4> QED BY <3>2, <4>1, <4>2, <4>3 DEF Azure!CreateCollection
    <3>3. CASE Azure!CreateDataPoints(c)!3
      <4>1. Careful(c)
        BY <1>0, <2>1, <3>3 DEF Careful, Db
      <4>2. EndsWell(c) /\ OthersStay(c)
        BY <1>0, <2>1, <3>3, AzureEnds, OtherEnds, PutEnds DEF Written, Db
      <4> QED BY <4>1, <4>2 DEF Steps
    <3> QED BY <1>2, <3>1, <3>2, <3>3 DEF Azure!CreateDataPoints
  <2>3. Running(c)' => HalfDone(c)'
    BY <1>0, <2>1, <2>2, Onward DEF HalfDone, At
  <2>4. Housed'
    <3>1. CASE Azure!CreateDataPoints(c)!1
      BY <1>0, <3>1 DEF Housed
    <3>2. CASE Azure!CreateDataPoints(c)!2
      BY <1>0, <3>2 DEF Housed, Azure!CreateCollection, Azure!Unlocks
    <3>3. CASE Azure!CreateDataPoints(c)!3
      BY <1>0, <3>3 DEF Housed, Written
    <3> QED BY <1>2, <3>1, <3>2, <3>3 DEF Azure!CreateDataPoints
  <2> QED BY <2>1, <2>2, <2>3, <2>4 DEF Proceeds
<1>3. CASE Azure!DeleteDataPoints(c)
  <2>1. Running(c) /\ call[c].op = "delete"
    BY <1>3 DEF Running, Azure!DeleteDataPoints
  <2>2. Steps(c)
    <3>1. CASE Azure!DeleteDataPoints(c)!1
      BY <1>0, <2>1, <3>1, AzureEnds, OtherEnds, DeleteEnds, OnlyGoesOn DEF Steps, Careful
    <3>2. CASE Azure!DeleteDataPoints(c)!2
      BY <1>0, <2>1, <3>2, AzureEnds, OtherEnds, DeleteEnds DEF Steps, Careful
    <3> QED BY <1>3, <3>1, <3>2 DEF Azure!DeleteDataPoints
  <2>3. Running(c)' => HalfDone(c)'
    BY <1>0, <2>1, <2>2, Onward DEF HalfDone, At
  <2>4. Housed'
    BY <1>0, <1>3 DEF Housed, Written, Azure!DeleteDataPoints
  <2> QED BY <2>1, <2>2, <2>3, <2>4 DEF Proceeds
<1>4. CASE Azure!Prune(c)
  <2>1. Running(c) /\ call[c].op = "prune"
    BY <1>4 DEF Running, Azure!Prune
  <2>2. Steps(c)
    <3>1. CASE Azure!Prune(c)!1
      BY <1>0, <2>1, <3>1, OnlyGoesOn DEF Steps, Careful, SeparatePrunes
    <3>2. CASE Azure!Prune(c)!2
      BY <1>0, <2>1, <3>2, OnlyGoesOn DEF Steps, Careful, SeparatePrunes
    <3>3. CASE Azure!Prune(c)!3
      BY <1>0, <2>1, <3>3, AzureEnds, OtherEnds DEF Steps, Careful, SeparatePrunes
    <3> QED BY <1>4, <3>1, <3>2, <3>3 DEF Azure!Prune
  <2>3. Running(c)' => HalfDone(c)'
    BY <1>0, <2>1, <2>2, Onward DEF HalfDone, At
  <2>4. Housed'
    <3>1. CASE Azure!Prune(c)!1
      BY <1>0, <3>1 DEF Housed
    <3>2. CASE Azure!Prune(c)!2
      BY <1>0, <3>2 DEF Housed
    <3>3. CASE Azure!Prune(c)!3
      BY <1>0, <3>3 DEF Housed
    <3> QED BY <1>4, <3>1, <3>2, <3>3 DEF Azure!Prune
  <2> QED BY <2>1, <2>2, <2>3, <2>4 DEF Proceeds
<1>5. CASE faults' > 0 /\ Azure!Fails(c)
  <2>1. Running(c)
    BY <1>5 DEF Running, Azure!Running, Azure!Fails, Azure!UploadsSome
  <2>2. Steps(c)
    <3>1. CASE Azure!Fails(c)!1
      BY <1>0, <1>5, <2>1, <3>1, AzureEnds, OtherEnds, UntoldEnds DEF Steps, Careful, SeparatePrunes
    <3>2. CASE Azure!Fails(c)!2
      <4>1. call[c].op = "put" /\ memo' = memo /\ Exists(call[c].coll)
        BY <3>2 DEF Azure!UploadsSome, Exists
      <4>3. PICK some \in SUBSET call[c].ids :
              /\ server' = Upserted(Written(c, some))
              /\ EndsUntold(c, Written(c, call[c].ids \ some))
        BY <3>2, AzureEnds DEF Azure!UploadsSome, Upserted, Written, With, Db
      <4>2. EndsWell(c) /\ OthersStay(c)
        <5>1. Written(c, call[c].ids) \subseteq server'.points \cup Written(c, call[c].ids \ some)
          BY <1>0, <4>3 DEF Upserted, With, Written
        <5>2. call[c].coll \in server'.colls
          BY <1>0, <4>1, <4>3 DEF Upserted, With, Exists
        <5> QED BY <1>0, <2>1, <4>1, <4>3, <5>1, <5>2, UntoldEnds
      <4>4. Careful(c)
        BY <1>0, <4>1, <4>3, WritesCarefully DEF Upserted, With
      <4> QED BY <4>2, <4>4 DEF Steps
    <3>3. CASE Azure!Fails(c)!3
      BY <1>0, <1>5, <2>1, <3>3, OnlyGoesOn DEF Steps, Careful, SeparatePrunes
    <3> QED BY <1>5, <3>1, <3>2, <3>3 DEF Azure!Fails
  <2>3. Running(c)' => HalfDone(c)'
    BY <1>0, <2>1, <2>2, Onward DEF HalfDone, At
  <2>4. Housed'
    <3>1. CASE Azure!UploadsSome(c)
      <4>1. PICK some \in SUBSET call[c].ids : server' = Upserted(Written(c, some)) /\ Exists(call[c].coll)
        BY <3>1 DEF Azure!UploadsSome, Upserted, Written, With, Db, Exists
      <4> QED BY <1>0, <4>1 DEF Housed, Upserted, Written, With, Exists
    <3>2. CASE ~Azure!UploadsSome(c)
      BY <1>0, <1>5, <3>2 DEF Housed, Azure!Fails
    <3> QED BY <3>1, <3>2
  <2> QED BY <2>1, <2>2, <2>3, <2>4 DEF Proceeds
<1> QED BY <1>0, <1>1, <1>2, <1>3, <1>4, <1>5 DEF Azure!Next

----------------------------------------------------------------------------
(* OpenSearch.                                                              *)

\* Calls end in the module of an adapter as they do here.
LEMMA OpenSearchEnds ==
  \A c : /\ \A result : OpenSearch!Ends(c, result) <=> Ends(c, result)
         /\ \A marks : OpenSearch!EndsUntold(c, marks) <=> EndsUntold(c, marks)
<1>1. \A c, job : OpenSearch!Aims(c, job) = Aims(c, job)
  BY DEF Aims, OpenSearch!Aims, Deed, OpenSearch!Deed, PointsAreNodes, OpenSearch!PointsAreNodes, Db,
     OpenSearch!Db, LazyCollections, OpenSearch!LazyCollections, Created, OpenSearch!Created, NodeMark,
     OpenSearch!NodeMark, EdgeMark, OpenSearch!EdgeMark, WeightMark, OpenSearch!WeightMark, TruthMark,
     OpenSearch!TruthMark, TagMark, OpenSearch!TagMark, HasMark, OpenSearch!HasMark, HasEdgeMark,
     OpenSearch!HasEdgeMark, Vectors,
     OpenSearch!Vectors
<1>2. \A c, result : OpenSearch!Leaves(c, result) <=> Leaves(c, result)
  BY <1>1 DEF Leaves, OpenSearch!Leaves, Idle, OpenSearch!Idle, Sweeping, OpenSearch!Sweeping
<1> QED BY <1>2 DEF Ends, OpenSearch!Ends, EndsUntold, OpenSearch!EndsUntold

\* What the module of OpenSearch does is a step that leaves the rest alone.
LEMMA OpenSearchProceeds ==
  ASSUME VectorInv, Same, provider = "opensearch", NEW c \in Clients,
         OpenSearch!Next(c) \/ (OpenSearch!Fails(c) /\ faults' > 0)
  PROVE Proceeds(c)
<1> USE DEF OpenSearch!At, OpenSearch!Locks, OpenSearch!Exists, OpenSearch!Goto, OpenSearch!WithColl,
   OpenSearch!Upserted, OpenSearch!With, OpenSearch!Written, OpenSearch!Db, OpenSearch!Matching,
   OpenSearch!InColl, OpenSearch!GotoWith, OpenSearch!Dropped, OpenSearch!Raises, ServerFields, CallFields,
   Meets, SeparateIds
<1>0. /\ provider \in Vector /\ SafeInv /\ TypeInv /\ provider' = provider /\ DOMAIN call[c] = CallFields
      /\ ServerFields \subseteq DOMAIN server /\ DOMAIN memo = Engines /\ DOMAIN call = Clients
      /\ (Running(c) => IsJob(provider, call[c]) /\ HalfDone(c)) /\ (~Running(c) => IsIdle(c)) /\ Housed
  BY DEF Vector, VectorInv, SafeInv, TypeInv, Same
<1>1. CASE call[c].op = "create" /\ OpenSearch!CreateCollection(c, "start", "done")
  <2>1. Running(c) /\ call[c].op = "create"
    BY <1>1 DEF Running, OpenSearch!CreateCollection, OpenSearch!Unlocks
  <2>2. Steps(c)
    <3>1. CASE OpenSearch!CreateCollection(c, "start", "done")!1
      BY <1>0, <1>1, <2>1, <3>1, OnlyGoesOn DEF Steps, Careful, LazyCollections
    <3>2. CASE OpenSearch!CreateCollection(c, "start", "done")!2
      BY <1>0, <1>1, <2>1, <3>2, OpenSearchEnds, OtherEnds, CreateEnds, OnlyGoesOn DEF Steps, Careful,
         LazyCollections, OpenSearch!Unlocks
    <3>3. CASE OpenSearch!CreateCollection(c, "start", "done")!3
      BY <1>0, <1>1, <2>1, <3>3, OpenSearchEnds, OtherEnds, CreateEnds, OnlyGoesOn DEF Steps, Careful,
         LazyCollections, OpenSearch!Unlocks
    <3> QED BY <1>1, <3>1, <3>2, <3>3 DEF OpenSearch!CreateCollection
  <2>3. Running(c)' => HalfDone(c)'
    BY <1>0, <2>1, <2>2, Onward DEF HalfDone, At
  <2>4. Housed'
    BY <1>0, <1>1 DEF Housed, Written, OpenSearch!CreateCollection, OpenSearch!Unlocks
  <2> QED BY <2>1, <2>2, <2>3, <2>4 DEF Proceeds
<1>2. CASE OpenSearch!CreateDataPoints(c)
  <2>1. Running(c) /\ call[c].op = "put"
    BY <1>2 DEF Running, OpenSearch!CreateDataPoints, OpenSearch!CreateCollection, OpenSearch!Unlocks
  <2>2. Steps(c)
    <3>1. CASE OpenSearch!CreateDataPoints(c)!1
      BY <1>0, <2>1, <3>1, OnlyGoesOn DEF Steps, Careful, Written, Db
    <3>2. CASE OpenSearch!CreateDataPoints(c)!2
      <4>1. CASE OpenSearch!CreateCollection(c, "create", "bulk")!1
        BY <1>0, <2>1, <4>1, OpenSearchEnds, OnlyGoesOn DEF Steps, Careful, OpenSearch!Unlocks
      <4>2. CASE OpenSearch!CreateCollection(c, "create", "bulk")!2
        BY <1>0, <2>1, <4>2, OpenSearchEnds, OnlyGoesOn DEF Steps, Careful, OpenSearch!Unlocks
      <4>3. CASE OpenSearch!CreateCollection(c, "create", "bulk")!3
        <5>1. CASE Exists(call[c].coll)
          BY <1>0, <2>1, <4>3, <5>1, OpenSearchEnds, OtherEnds DEF Steps, Careful, Exists
        <5>2. CASE ~Exists(call[c].coll)
          <6>1. call' = [call EXCEPT ![c].pc = "bulk"] /\ due' = due /\ untold' = untold
            BY <4>3, <5>2 DEF OpenSearch!Unlocks, Exists
          <6>2. GoesOn /\ OthersStay(c)
            BY <1>0, <2>1, <6>1, OnlyGoesOn
          <6> QED BY <1>0, <4>3, <5>2, <6>2 DEF Steps, Careful, Exists
        <5> QED BY <5>1, <5>2
      <4> QED BY <3>2, <4>1, <4>2, <4>3 DEF OpenSearch!CreateCollection
    <3>3. CASE OpenSearch!CreateDataPoints(c)!3
      <4>1. Careful(c)
        BY <1>0, <2>1, <3>3 DEF Careful, Db
      <4>2. EndsWell(c) /\ OthersStay(c)
        BY <1>0, <2>1, <3>3, OpenSearchEnds, OtherEnds, PutEnds DEF Written, Db
      <4> QED BY <4>1, <4>2 DEF Steps
    <3> QED BY <1>2, <3>1, <3>2, <3>3 DEF OpenSearch!CreateDataPoints
  <2>3. Running(c)' => HalfDone(c)'
    BY <1>0, <2>1, <2>2, Onward DEF HalfDone, At
  <2>4. Housed'
    <3>1. CASE OpenSearch!CreateDataPoints(c)!1
      BY <1>0, <3>1 DEF Housed
    <3>2. CASE OpenSearch!CreateDataPoints(c)!2
      BY <1>0, <3>2 DEF Housed, OpenSearch!CreateCollection, OpenSearch!Unlocks
    <3>3. CASE OpenSearch!CreateDataPoints(c)!3
      BY <1>0, <3>3 DEF Housed, Written
    <3> QED BY <1>2, <3>1, <3>2, <3>3 DEF OpenSearch!CreateDataPoints
  <2> QED BY <2>1, <2>2, <2>3, <2>4 DEF Proceeds
<1>3. CASE OpenSearch!DeleteDataPoints(c)
  <2>1. Running(c) /\ call[c].op = "delete"
    BY <1>3 DEF Running, OpenSearch!DeleteDataPoints
  <2>2. Steps(c)
    BY <1>0, <1>3, <2>1, OpenSearchEnds, OtherEnds, DeleteEnds DEF OpenSearch!DeleteDataPoints, Steps, Careful
  <2>3. Running(c)' => HalfDone(c)'
    BY <1>0, <2>1, <2>2, Onward DEF HalfDone, At
  <2>4. Housed'
    BY <1>0, <1>3 DEF Housed, Written, OpenSearch!DeleteDataPoints
  <2> QED BY <2>1, <2>2, <2>3, <2>4 DEF Proceeds
<1>4. CASE OpenSearch!Prune(c)
  <2>1. Running(c) /\ call[c].op = "prune"
    BY <1>4 DEF Running, OpenSearch!Prune
  <2>2. Steps(c)
    <3>1. CASE OpenSearch!Prune(c)!1
      BY <1>0, <2>1, <3>1, OnlyGoesOn DEF Steps, Careful, SeparatePrunes
    <3>2. CASE OpenSearch!Prune(c)!2
      <4>1. Careful(c)
        BY <1>0, <2>1, <3>2 DEF Careful, SeparatePrunes
      <4>2. OthersStay(c) /\ (GoesOn \/ EndsWell(c))
        <5>1. CASE OpenSearch!Ends(c, "error")
          BY <1>0, <2>1, <5>1, OpenSearchEnds, OtherEnds
        <5>2. CASE ~OpenSearch!Ends(c, "error")
          BY <1>0, <2>1, <3>2, <5>2, OnlyGoesOn
        <5> QED BY <5>1, <5>2
      <4> QED BY <4>1, <4>2 DEF Steps
    <3>3. CASE OpenSearch!Prune(c)!3
      BY <1>0, <2>1, <3>3, OpenSearchEnds, OtherEnds DEF Steps, Careful, SeparatePrunes
    <3> QED BY <1>4, <3>1, <3>2, <3>3 DEF OpenSearch!Prune
  <2>3. Running(c)' => HalfDone(c)'
    BY <1>0, <2>1, <2>2, Onward DEF HalfDone, At
  <2>4. Housed'
    <3>1. CASE OpenSearch!Prune(c)!1
      BY <1>0, <3>1 DEF Housed
    <3>2. CASE OpenSearch!Prune(c)!2
      BY <1>0, <3>2 DEF Housed
    <3>3. CASE OpenSearch!Prune(c)!3
      BY <1>0, <3>3 DEF Housed
    <3> QED BY <1>4, <3>1, <3>2, <3>3 DEF OpenSearch!Prune
  <2> QED BY <2>1, <2>2, <2>3, <2>4 DEF Proceeds
<1>5. CASE OpenSearch!Searching(c)
  <2>1. Running(c) /\ call[c].op = "search"
    BY <1>5 DEF Running, OpenSearch!Searching, OpenSearch!Outcome
  <2>2. Steps(c)
    <3>1. CASE OpenSearch!Searching(c)!1
      BY <1>0, <2>1, <3>1, OnlyGoesOn DEF Steps, Careful
    <3>2. CASE OpenSearch!Searching(c)!2
      BY <1>0, <2>1, <3>2, OnlyGoesOn DEF Steps, Careful
    <3>3. CASE OpenSearch!Searching(c)!3
      <4>1. CASE \E o : OpenSearch!Ends(c, o) /\ server' = server /\ DOMAIN memo' = DOMAIN memo
        BY <1>0, <2>1, <4>1, OpenSearchEnds, OtherEnds DEF Steps, Careful
      <4>2. ASSUME NEW o, NEW d \in Clients \ {c}, call' = [call EXCEPT ![c] = Idle(o), ![d] = Idle("closed")],
                   due' = due, untold' = untold, server' = server, DOMAIN memo' = DOMAIN memo
            PROVE Steps(c)
        <5>1. /\ DOMAIN call' = Clients /\ IsIdle(c)' /\ IsIdle(d)'
                /\ \A x \in Clients \ {c, d} : call'[x] = call[x]
              /\ DOMAIN call'[c] = CallFields /\ DOMAIN call'[d] = CallFields
          BY <1>0, <4>2 DEF Idle, IsIdle
        <5>2. GoesOn /\ OthersStay(c)
          BY <1>0, <4>2, <5>1 DEF GoesOn, Keeps, Becomes, OthersStay, IsIdle, TypeInv
        <5> QED BY <1>0, <4>2, <5>2 DEF Steps, Careful
      <4> QED BY <3>3, <4>1, <4>2 DEF Idle, OpenSearch!Idle
    <3> QED BY <1>5, <3>1, <3>2, <3>3 DEF OpenSearch!Searching
  <2>3. Running(c)' => HalfDone(c)'
    BY <1>0, <2>1, <2>2, Onward DEF HalfDone, At
  <2>4. Housed'
    BY <1>0, <1>5 DEF Housed, Written, OpenSearch!Searching, OpenSearch!Outcome
  <2> QED BY <2>1, <2>2, <2>3, <2>4 DEF Proceeds
<1>6. CASE faults' > 0 /\ OpenSearch!Fails(c)
  <2>1. Running(c)
    BY <1>0, <1>6 DEF Running, OpenSearch!Running, IsIdle, OpenSearch!Fails, OpenSearch!BulkTakesSome
  <2>2. Steps(c)
    <3>1. CASE OpenSearch!Fails(c)!1
      BY <1>0, <1>6, <2>1, <3>1, OpenSearchEnds, OtherEnds, UntoldEnds DEF Steps, Careful, SeparatePrunes
    <3>2. CASE OpenSearch!Fails(c)!2
      BY <1>0, <1>6, <2>1, <3>2, OnlyGoesOn DEF Steps, Careful, SeparatePrunes
    <3>3. CASE OpenSearch!Fails(c)!3
      <4>1. call[c].op = "put" /\ memo' = memo
        BY <3>3 DEF OpenSearch!BulkTakesSome
      <4>3. PICK some \in SUBSET call[c].ids :
              /\ server' = [Upserted(Written(c, some)) EXCEPT !.colls = @ \cup {call[c].coll}]
              /\ EndsUntold(c, Written(c, call[c].ids \ some))
        BY <3>3, OpenSearchEnds DEF OpenSearch!BulkTakesSome, Upserted, Written, With, Db
      <4>2. EndsWell(c) /\ OthersStay(c)
        <5>1. Written(c, call[c].ids) \subseteq server'.points \cup Written(c, call[c].ids \ some)
          BY <1>0, <4>3 DEF Upserted, With, Written
        <5>2. call[c].coll \in server'.colls
          BY <1>0, <4>1, <4>3 DEF Upserted, With, Exists
        <5> QED BY <1>0, <2>1, <4>1, <4>3, <5>1, <5>2, UntoldEnds
      <4>4. Careful(c)
        BY <1>0, <4>1, <4>3, WritesCarefully DEF Upserted, With
      <4> QED BY <4>2, <4>4 DEF Steps
    <3>4. CASE OpenSearch!Fails(c)!4
      BY <1>0, <1>6, <2>1, <3>4, OnlyGoesOn DEF Steps, Careful, SeparatePrunes
    <3>5. CASE OpenSearch!Fails(c)!5
      BY <1>0, <1>6, <2>1, <3>5, OnlyGoesOn DEF Steps, Careful, SeparatePrunes
    <3> QED BY <1>6, <3>1, <3>2, <3>3, <3>4, <3>5 DEF OpenSearch!Fails
  <2>3. Running(c)' => HalfDone(c)'
    BY <1>0, <2>1, <2>2, Onward DEF HalfDone, At
  <2>4. Housed'
    <3>1. CASE OpenSearch!Fails(c)!1
      BY <1>0, <3>1 DEF Housed
    <3>2. CASE OpenSearch!Fails(c)!2
      BY <1>0, <3>2 DEF Housed
    <3>3. CASE OpenSearch!Fails(c)!3
      BY <1>0, <3>3 DEF Housed, Written, OpenSearch!BulkTakesSome
    <3>4. CASE OpenSearch!Fails(c)!4
      BY <1>0, <3>4 DEF Housed
    <3>5. CASE OpenSearch!Fails(c)!5
      BY <1>0, <3>5 DEF Housed
    <3> QED BY <1>6, <3>1, <3>2, <3>3, <3>4, <3>5 DEF OpenSearch!Fails
  <2> QED BY <2>1, <2>2, <2>3, <2>4 DEF Proceeds
<1> QED BY <1>0, <1>1, <1>2, <1>3, <1>4, <1>5, <1>6 DEF OpenSearch!Next

----------------------------------------------------------------------------
(* DuckDB.                                                                  *)

\* Calls end in the module of an adapter as they do here.
LEMMA DuckDBEnds ==
  \A c : /\ \A result : DuckDB!Ends(c, result) <=> Ends(c, result)
         /\ \A marks : DuckDB!EndsUntold(c, marks) <=> EndsUntold(c, marks)
         /\ \A job : DuckDB!Aims(c, job) = Aims(c, job)
<1>1. \A c, job : DuckDB!Aims(c, job) = Aims(c, job)
  BY DEF Aims, DuckDB!Aims, Deed, DuckDB!Deed, PointsAreNodes, DuckDB!PointsAreNodes, Db, DuckDB!Db,
     LazyCollections, DuckDB!LazyCollections, Created, DuckDB!Created, NodeMark, DuckDB!NodeMark, EdgeMark,
     DuckDB!EdgeMark, WeightMark, DuckDB!WeightMark, TruthMark, DuckDB!TruthMark, TagMark, DuckDB!TagMark,
     HasMark, DuckDB!HasMark, HasEdgeMark, DuckDB!HasEdgeMark, Vectors,
     DuckDB!Vectors
<1>2. \A c, result : DuckDB!Leaves(c, result) <=> Leaves(c, result)
  BY <1>1 DEF Leaves, DuckDB!Leaves, Idle, DuckDB!Idle, Sweeping, DuckDB!Sweeping
<1> QED BY <1>1, <1>2 DEF Ends, DuckDB!Ends, EndsUntold, DuckDB!EndsUntold

\* What the module of DuckDB does is a step that leaves the rest alone.
LEMMA DuckDBProceeds ==
  ASSUME VectorInv, Same, provider = "duckdb", NEW c \in Clients,
         DuckDB!Next(c) \/ (DuckDB!Fails(c) /\ faults' > 0)
  PROVE Proceeds(c)
<1> USE DEF DuckDB!FoundIn, DuckDB!GoOnUntold, DuckDB!At, DuckDB!WithColl, DuckDB!Exists, DuckDB!Goto,
   DuckDB!Upserted, DuckDB!With,
   DuckDB!Written, DuckDB!Db, DuckDB!GoOnTo, DuckDB!Matching, DuckDB!InColl, DuckDB!Dropped, DuckDB!Raises,
   ServerFields, CallFields, Meets, SeparateIds
<1>0. /\ provider \in Vector /\ SafeInv /\ TypeInv /\ provider' = provider /\ DOMAIN call[c] = CallFields
      /\ ServerFields \subseteq DOMAIN server /\ DOMAIN memo = Engines /\ DOMAIN call = Clients
      /\ (Running(c) => IsJob(provider, call[c]) /\ HalfDone(c)) /\ (~Running(c) => IsIdle(c)) /\ Housed
  BY DEF Vector, VectorInv, SafeInv, TypeInv, Same
<1>1. CASE DuckDB!CreateCollection(c)
  <2>1. Running(c) /\ call[c].op = "create"
    BY <1>1 DEF Running, DuckDB!CreateCollection
  <2>2. Steps(c)
    BY <1>0, <1>1, <2>1, DuckDBEnds, OtherEnds, CreateEnds DEF DuckDB!CreateCollection, Steps, Careful,
       LazyCollections
  <2>3. Running(c)' => HalfDone(c)'
    BY <1>0, <2>1, <2>2, Onward DEF HalfDone, At
  <2>4. Housed'
    BY <1>0, <1>1 DEF Housed, DuckDB!CreateCollection
  <2> QED BY <2>1, <2>2, <2>3, <2>4 DEF Proceeds
<1>2. CASE DuckDB!CreateDataPoints(c)
  <2>1. Running(c) /\ call[c].op = "put"
    BY <1>2 DEF Running, DuckDB!CreateDataPoints
  <2>2. Steps(c)
    <3>1. CASE DuckDB!CreateDataPoints(c)!1
      BY <1>0, <2>1, <3>1, DuckDBEnds, OtherEnds, PutEnds, OnlyGoesOn DEF Steps, Careful, Written, Db
    <3>2. CASE DuckDB!CreateDataPoints(c)!2
      <4>1. Careful(c)
        BY <1>0, <2>1, <3>2 DEF Careful, Db
      <4>2. EndsWell(c) /\ OthersStay(c)
        BY <1>0, <2>1, <3>2, DuckDBEnds, OtherEnds, PutEnds DEF Written, Db
      <4> QED BY <4>1, <4>2 DEF Steps
    <3> QED BY <1>2, <3>1, <3>2 DEF DuckDB!CreateDataPoints
  <2>3. Running(c)' => HalfDone(c)'
    BY <1>0, <2>1, <2>2, Onward DEF HalfDone, At
  <2>4. Housed'
    BY <1>0, <1>2 DEF Housed, DuckDB!CreateDataPoints
  <2> QED BY <2>1, <2>2, <2>3, <2>4 DEF Proceeds
<1>3. CASE DuckDB!DeleteDataPoints(c)
  <2>1. Running(c) /\ call[c].op = "delete"
    BY <1>3 DEF Running, DuckDB!DeleteDataPoints
  <2>2. Steps(c)
    <3>1. CASE DuckDB!DeleteDataPoints(c)!1
      BY <1>0, <2>1, <3>1, DuckDBEnds, OtherEnds, DeleteEnds, OnlyGoesOn DEF Steps, Careful, Housed
    <3>2. CASE DuckDB!DeleteDataPoints(c)!2
      BY <1>0, <2>1, <3>2, DuckDBEnds, OtherEnds, DeleteEnds DEF Steps, Careful
    <3> QED BY <1>3, <3>1, <3>2 DEF DuckDB!DeleteDataPoints
  <2>3. Running(c)' => HalfDone(c)'
    BY <1>0, <2>1, <2>2, Onward DEF HalfDone, At
  <2>4. Housed'
    BY <1>0, <1>3 DEF Housed, DuckDB!DeleteDataPoints
  <2> QED BY <2>1, <2>2, <2>3, <2>4 DEF Proceeds
<1>4. CASE DuckDB!Prune(c)
  <2>1. Running(c) /\ call[c].op = "prune"
    BY <1>4 DEF Running, DuckDB!Prune
  <2>2. Steps(c)
    <3>1. CASE DuckDB!Prune(c)!1
      BY <1>0, <2>1, <3>1, OnlyGoesOn DEF Steps, Careful, SeparatePrunes
    <3>2. CASE DuckDB!Prune(c)!2
      BY <1>0, <2>1, <3>2, OnlyGoesOn DEF Steps, Careful, SeparatePrunes
    <3>3. CASE DuckDB!Prune(c)!3
      BY <1>0, <2>1, <3>3, DuckDBEnds, OtherEnds DEF Steps, Careful, SeparatePrunes
    <3> QED BY <1>4, <3>1, <3>2, <3>3 DEF DuckDB!Prune
  <2>3. Running(c)' => HalfDone(c)'
    BY <1>0, <2>1, <2>2, Onward DEF HalfDone, At
  <2>4. Housed'
    <3>1. CASE DuckDB!Prune(c)!1
      BY <1>0, <3>1 DEF Housed
    <3>2. CASE DuckDB!Prune(c)!2
      BY <1>0, <3>2 DEF Housed
    <3>3. CASE DuckDB!Prune(c)!3
      BY <1>0, <3>3 DEF Housed
    <3> QED BY <1>4, <3>1, <3>2, <3>3 DEF DuckDB!Prune
  <2> QED BY <2>1, <2>2, <2>3, <2>4 DEF Proceeds
<1>5. CASE DuckDB!NotImplemented(c)
  <2>1. Running(c)
    BY <1>5 DEF Running, DuckDB!Running, DuckDB!NotImplemented
  <2>2. Steps(c)
    BY <1>0, <1>5, <2>1, DuckDBEnds, OtherEnds DEF DuckDB!NotImplemented, Steps, Careful
  <2>3. Running(c)' => HalfDone(c)'
    BY <1>0, <2>1, <2>2, Onward DEF HalfDone, At
  <2>4. Housed'
    BY <1>0, <1>5 DEF Housed, DuckDB!NotImplemented
  <2> QED BY <2>1, <2>2, <2>3, <2>4 DEF Proceeds
<1>6. CASE faults' > 0 /\ DuckDB!Fails(c)
  <2>1. Running(c)
    BY <1>6 DEF Running, DuckDB!Running, DuckDB!Fails
  <2>2. Steps(c)
    <3>1. CASE DuckDB!Fails(c)!1
      BY <1>0, <1>6, <2>1, <3>1, DuckDBEnds, OtherEnds, UntoldEnds DEF Steps, Careful, SeparatePrunes
    <3>2. CASE DuckDB!Fails(c)!2
      BY <1>0, <1>6, <2>1, <3>2, DuckDBEnds, OtherEnds, UntoldEnds DEF Steps, Careful, SeparatePrunes
    <3>3. CASE DuckDB!Fails(c)!3
      <4>1. call[c].op = "delete" /\ EndsUntold(c, Aims(c, call[c])) /\ server' = server /\ memo' = memo
        BY <3>3, DuckDBEnds
      <4> QED BY <1>0, <2>1, <4>1, UntoldEnds DEF Steps, Careful
    <3>4. CASE DuckDB!Fails(c)!4
      BY <1>0, <1>6, <2>1, <3>4, OnlyGoesOn DEF Steps, Careful, SeparatePrunes
    <3> QED BY <1>6, <3>1, <3>2, <3>3, <3>4 DEF DuckDB!Fails
  <2>3. Running(c)' => HalfDone(c)'
    BY <1>0, <2>1, <2>2, Onward DEF HalfDone, At
  <2>4. Housed'
    BY <1>0, <1>6 DEF Housed, DuckDB!Fails
  <2> QED BY <2>1, <2>2, <2>3, <2>4 DEF Proceeds
<1> QED BY <1>0, <1>1, <1>2, <1>3, <1>4, <1>5, <1>6 DEF DuckDB!Next

----------------------------------------------------------------------------
(* All of them.                                                             *)

\* A call that begins has found and written nothing yet.
LEMMA BeginIsSafe ==
  ASSUME VectorInv, provider \in Vector, NEW c \in Clients, NEW job \in Jobs[provider], Begin(c, job)
  PROVE VectorInv'
<1>1. Several /\ SafeInv'
  BY BeginKeeps DEF Vector, Several, VectorInv
<1>2. /\ provider' = provider /\ server' = server /\ engine' = engine /\ database' = database
      /\ due' \subseteq due /\ DOMAIN call = Clients
      /\ call'[c].pc = "start" /\ IsJob(provider, job) /\ Running(c)'
  BY StoresAssumption, BeginCalls DEF Begin, VectorInv, SafeInv, TypeInv, Running, IsJob
<1>3. Housed'
  BY <1>2 DEF VectorInv, Housed
<1> SUFFICES ASSUME NEW d \in Clients
             PROVE (IF Running(d) THEN HalfDone(d) ELSE IsIdle(d))'
  BY <1>1, <1>3 DEF VectorInv
<1>4. CASE d = c
  BY <1>2, <1>4 DEF HalfDone, At
<1>5. CASE d # c
  <2>1. /\ call'[d].op = call[d].op /\ call'[d].pc = call[d].pc /\ call'[d].coll = call[d].coll
        /\ call'[d].ids = call[d].ids /\ call'[d].rev = call[d].rev /\ call'[d].todo = call[d].todo
        /\ call'[d].clean => call[d].clean /\ ~Disturbs(c, job, d, call[d])
    BY <1>5, BeginCalls DEF VectorInv, SafeInv, CallFields
  <2>2. CASE ~Running(d)
    BY <2>1, <2>2 DEF VectorInv, Running, IsIdle
  <2>3. CASE Running(d)
    <3>1. HalfDone(d) /\ Running(d)' /\ IsJob(provider, call[d])
      BY <2>1, <2>3 DEF VectorInv, SafeInv, TypeInv, Running
    <3>2. /\ \A ids : Written(d, ids)' = Written(d, ids)
          /\ Exists(call[d].coll)' = Exists(call[d].coll) /\ Db(d)' = Db(d)
      BY <1>2, <2>1 DEF Written, Exists, Db
    <3>3. ASSUME call'[d].clean, call[d].op = "put", NEW p \in Written(d, call[d].ids), Late(p)
          PROVE Late(p)'
      <4>1. p \in Aims(d, call[d])
        BY <3>3 DEF Written, Aims, Deed, Vector, PointsAreNodes
      <4>2. ~Claimed(c, job, p)
        BY <2>1, <3>3, <4>1 DEF Disturbs
      <4> QED BY <3>3, <4>2, BeginLeavesLate
    <3>4. ASSUME call'[d].clean, call[d].op = "put", NEW p \in Written(d, call[d].ids),
                 p \in server.points \/ Late(p)
          PROVE p \in server'.points \/ Late(p)'
      BY <1>2, <3>3, <3>4
    <3>5. (HalfDone(d)!1)'
      <4>1. \A p \in Written(d, call[d].ids \ call[d].todo) : p \in Written(d, call[d].ids)
        BY DEF Written
      <4> QED BY <1>2, <2>1, <3>1, <3>2, <3>4, <4>1 DEF HalfDone
    <3>6. (HalfDone(d)!2)' /\ (HalfDone(d)!3)' /\ (HalfDone(d)!4)'
      BY <1>2, <2>1, <3>1, <3>2 DEF HalfDone, At
    <3> QED BY <3>1, <3>5, <3>6 DEF HalfDone
  <2> QED BY <2>2, <2>3
<1> QED BY <1>4, <1>5

\* A step of a call, and a request of it that fails.
LEMMA StepProceeds ==
  ASSUME VectorInv, Same, provider \in Vector, NEW c \in Clients,
         VectorNext(c) \/ (VectorFails(c) /\ faults' > 0)
  PROVE Proceeds(c)
<1>1. CASE provider = "qdrant"
  <2>1. Qdrant!Next(c) \/ (Qdrant!Fails(c) /\ faults' > 0)
    BY <1>1 DEF VectorNext, VectorFails
  <2> QED BY <1>1, <2>1, QdrantProceeds
<1>2. CASE provider = "singlestore"
  <2>1. SingleStore!Next(c) \/ (SingleStore!Fails(c) /\ faults' > 0)
    BY <1>2 DEF VectorNext, VectorFails
  <2> QED BY <1>2, <2>1, SingleStoreProceeds
<1>3. CASE provider = "weaviate"
  <2>1. Weaviate!Next(c) \/ (Weaviate!Fails(c) /\ faults' > 0)
    BY <1>3 DEF VectorNext, VectorFails
  <2> QED BY <1>3, <2>1, WeaviateProceeds
<1>4. CASE provider = "milvus"
  <2>1. Milvus!Next(c) \/ (Milvus!Fails(c) /\ faults' > 0)
    BY <1>4 DEF VectorNext, VectorFails
  <2> QED BY <1>4, <2>1, MilvusProceeds
<1>5. CASE provider = "opengauss"
  <2>1. OpenGauss!Next(c) \/ (OpenGauss!Fails(c) /\ faults' > 0)
    BY <1>5 DEF VectorNext, VectorFails
  <2> QED BY <1>5, <2>1, OpenGaussProceeds
<1>6. CASE provider = "redis"
  <2>1. Redis!Next(c) \/ (Redis!Fails(c) /\ faults' > 0)
    BY <1>6 DEF VectorNext, VectorFails
  <2> QED BY <1>6, <2>1, RedisProceeds
<1>7. CASE provider = "valkey"
  <2>1. Valkey!Next(c) \/ (Valkey!Fails(c) /\ faults' > 0)
    BY <1>7 DEF VectorNext, VectorFails
  <2> QED BY <1>7, <2>1, ValkeyProceeds
<1>8. CASE provider = "turbopuffer"
  <2>1. Turbopuffer!Next(c) \/ (Turbopuffer!Fails(c) /\ faults' > 0)
    BY <1>8 DEF VectorNext, VectorFails
  <2> QED BY <1>8, <2>1, TurbopufferProceeds
<1>9. CASE provider = "pinecone"
  <2>1. Pinecone!Next(c) \/ (Pinecone!Fails(c) /\ faults' > 0)
    BY <1>9 DEF VectorNext, VectorFails
  <2> QED BY <1>9, <2>1, PineconeProceeds
<1>10. CASE provider = "azure"
  <2>1. Azure!Next(c) \/ (Azure!Fails(c) /\ faults' > 0)
    BY <1>10 DEF VectorNext, VectorFails
  <2> QED BY <1>10, <2>1, AzureProceeds
<1>11. CASE provider = "opensearch"
  <2>1. OpenSearch!Next(c) \/ (OpenSearch!Fails(c) /\ faults' > 0)
    BY <1>11 DEF VectorNext, VectorFails
  <2> QED BY <1>11, <2>1, OpenSearchProceeds
<1>12. CASE provider = "duckdb"
  <2>1. DuckDB!Next(c) \/ (DuckDB!Fails(c) /\ faults' > 0)
    BY <1>12 DEF VectorNext, VectorFails
  <2> QED BY <1>12, <2>1, DuckDBProceeds
<1> QED BY <1>1, <1>2, <1>3, <1>4, <1>5, <1>6, <1>7, <1>8, <1>9, <1>10, <1>11, <1>12 DEF Vector

\* Neither loses what is due.
LEMMA StepIsSafe ==
  ASSUME VectorInv, Same, provider \in Vector, NEW c \in Clients,
         VectorNext(c) \/ (VectorFails(c) /\ faults' > 0)
  PROVE VectorInv'
BY StepProceeds, ProceedsKeeps

\* A write that a failed call has left behind: what it undoes is lost untold.
LEMMA BackgroundIsSafe ==
  ASSUME VectorInv, provider \in Vector, NEW e \in Engines, Background(e)
  PROVE VectorInv'
<1>1. PICK p \in memo[e] :
           /\ server' = Upserted({p}) /\ memo' = [memo EXCEPT ![e] = @ \ {p}]
           /\ untold' = untold \cup {p} /\ UNCHANGED <<call, due>>
  BY DEF Background, Valkey!LeftBehind, Upserted, With, Valkey!Upserted, Valkey!With
<1>2. provider = "valkey" /\ Same /\ TypeInv
  BY DEF Background, Same, VectorInv, SafeInv, TypeInv
<1>3. /\ ServerFields \subseteq DOMAIN server' /\ DOMAIN memo' = Engines
      /\ server'.colls = server.colls /\ server'.nodes = server.nodes /\ server'.edges = server.edges
      /\ server'.points = {x \in server.points : \A q \in {p} : <<x.coll, x.id>> # <<q.coll, q.id>>} \cup {p}
  BY <1>1, <1>2 DEF TypeInv, ServerFields, Upserted, With
<1>4. GoesOn
  BY <1>1, <1>2 DEF GoesOn, Keeps, Becomes, TypeInv
<1>5. ASSUME NEW q, ~IsMark(q), q.id # None, <<q.coll, q.id>> = <<p.coll, p.id>>
      PROVE Late(q)'
  BY <1>1, <1>2, <1>3, <1>5 DEF Late, IsMark, Same
<1>6. ASSUME NEW q, <<q.coll, q.id>> # <<p.coll, p.id>>
      PROVE \A x : x.coll = q.coll /\ x.id = q.id => (x \in server'.points <=> x \in server.points)
  BY <1>3, <1>6
<1>7. ASSUME NEW q, Late(q)
      PROVE Late(q)'
  <2>1. CASE <<q.coll, q.id>> = <<p.coll, p.id>>
    <3>1. ~IsMark(q) /\ q.id # None
      BY <1>7 DEF Late
    <3> QED BY <1>5, <2>1, <3>1
  <2>2. CASE <<q.coll, q.id>> # <<p.coll, p.id>>
    <3>1. PICK x \in server.points \cap untold : x.coll = q.coll /\ x.id = q.id
      BY <1>7 DEF Late
    <3>2. x \in server'.points \cap untold'
      BY <1>1, <1>6, <2>2, <3>1
    <3> QED BY <1>2, <1>7, <3>1, <3>2 DEF Late, IsMark, Same
  <2> QED BY <2>1, <2>2
<1>8. ASSUME NEW q \in due, Settled(q)
      PROVE Settled(q)'
  <2>1. CASE ~IsMark(q) /\ q.id # None /\ <<q.coll, q.id>> = <<p.coll, p.id>>
    BY <1>5, <2>1 DEF Settled, Stored, Gone, Excused
  <2>2. CASE IsMark(q) \/ q.id = None \/ <<q.coll, q.id>> # <<p.coll, p.id>>
    <3>1. /\ HasNodeOf(q)' = HasNodeOf(q) /\ HasWeight(q)' = HasWeight(q) /\ HasTruth(q)' = HasTruth(q)
          /\ Triples' = Triples /\ NodeIds' = NodeIds /\ \A i : Incident({i})' = Incident({i})
          /\ HasCollectionOf(q)' = HasCollectionOf(q)
      BY <1>2, <1>3 DEF HasNodeOf, HasWeight, HasTruth, Triples, Triple, NodeIds, Incident, Touches,
         HasCollectionOf, Exists, Same
    <3>2. Excused(q) => Excused(q)'
      BY <1>1, <1>2, <1>7 DEF Excused
    <3>3. ~IsMark(q) /\ q.id # None => HasPoint(q)' = HasPoint(q)
      BY <1>6, <2>2 DEF HasPoint
    <3>4. Stored(q) => Stored(q)'
      BY <3>1, <3>2, <3>3 DEF Stored, IsMark
    <3>5. q.rev = 0 /\ q.id # None /\ Gone(q) => Gone(q)'
      BY <1>2, <1>3, <1>6, <2>2, <3>1, <3>2 DEF Gone, IsMark, Same
    <3> QED BY <1>8, <3>4, <3>5 DEF Settled
  <2> QED BY <2>1, <2>2
<1>9. SafeInv'
  <2>1. \A c : Moves(c)
    BY <1>3, <1>4, <1>8 DEF Moves
  <2> QED BY <1>2, <1>4, <2>1, MovesKeep DEF VectorInv, Several
<1>10. Housed'
  BY <1>2 DEF Housed, Same
<1>11. ASSUME NEW c \in Clients
       PROVE (IF Running(c) THEN HalfDone(c) ELSE IsIdle(c))'
  <2>1. ASSUME Running(c)
        PROVE HalfDone(c)'
    <3>1. HalfDone(c) /\ IsJob(provider, call[c]) /\ call' = call /\ provider' = provider
          /\ \A ids : Written(c, ids)' = Written(c, ids)
      BY <1>1, <1>2, <2>1 DEF VectorInv, SafeInv, TypeInv, Same, Written, Db
    <3>2. ASSUME call[c].op = "put", NEW x \in Written(c, call[c].ids), x \in server.points \/ Late(x)
          PROVE x \in server'.points \/ Late(x)'
      <4>1. ~IsMark(x) /\ x.id # None
        BY <3>1, <3>2, StoresAssumption, StoreAssumption DEF IsJob, IsMark, Written
      <4> QED BY <1>5, <1>6, <1>7, <3>2, <4>1
    <3>3. \A x \in Written(c, call[c].ids \ call[c].todo) : x \in Written(c, call[c].ids)
      BY DEF Written
    <3> QED BY <1>2, <1>3, <3>1, <3>2, <3>3 DEF HalfDone, At, Exists
  <2> QED BY <1>1, <2>1 DEF VectorInv, Running, IsIdle
<1> QED BY <1>9, <1>10, <1>11 DEF VectorInv

\* Where nothing happens, nothing is lost.
LEMMA NothingIsSafe ==
  ASSUME VectorInv, provider \in Vector, UNCHANGED vars
  PROVE VectorInv'
<1>1. /\ Same /\ server' = server /\ call' = call /\ due' = due /\ memo' = memo /\ faults' = faults
      /\ untold' = untold
      /\ provider' = provider /\ engine' = engine /\ database' = database
  BY DEF vars, Same, VectorInv, SafeInv, TypeInv
<1>2. \A c : Moves(c) /\ GoesOn
  <2>1. ASSUME NEW p, Settled(p)
        PROVE Settled(p)'
    BY <1>1, <2>1 DEF Settled, Stored, Gone, HasNodeOf, HasWeight, HasTruth, HasCollectionOf, HasPoint, Exists,
       IsMark, Triples, Triple, Incident, Touches, NodeIds, Vector, Excused, Late
  <2>2. GoesOn
    BY <1>1 DEF GoesOn, Keeps, Becomes, VectorInv, SafeInv, TypeInv
  <2> QED BY <1>1, <2>1, <2>2 DEF Moves, VectorInv, SafeInv, TypeInv
<1>3. SafeInv'
  BY <1>1, <1>2, MovesKeep DEF VectorInv, Several, Vector
<1>4. Housed'
  BY <1>1 DEF Housed, VectorInv
<1>5. ASSUME NEW c \in Clients
      PROVE (IF Running(c) THEN HalfDone(c) ELSE IsIdle(c))'
  BY <1>1 DEF VectorInv, Running, HalfDone, IsIdle, At, Written, Db, Exists, Late, IsMark
<1> QED BY <1>3, <1>4, <1>5 DEF VectorInv

=============================================================================
