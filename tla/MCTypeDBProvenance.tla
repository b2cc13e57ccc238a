------------------------- MODULE MCTypeDBProvenance -------------------------
(* TypeDBProvenance on two nodes, one edge, two keys and two runs.           *)
EXTENDS TypeDBProvenance

CONSTANTS n1, n2, k1, k2, r1, r2, rel

edge == <<n1, n2, rel>>
MCNodes == {n1, n2}
MCEdges == {edge}
MCRels == {rel}
MCKeys == {k1, k2}
MCRuns == {r1, r2}

J(op, arts, keys, run) ==
  [op |-> op, arts |-> arts, keys |-> keys, run |-> run, rel |-> rel]

\* Owning writes against deletes of every kind.
MCDeleteJobs ==
  {J("add", {n1, n2}, <<k1>>, r1), J("add", {n1}, << >>, NoRun),
   J("add", {edge}, <<k1>>, NoRun),
   J("attach", {edge}, <<k2>>, r2),
   J("deleteNodes", {n1}, << >>, NoRun), J("deleteEdges", {edge}, << >>, NoRun),
   J("removeIncoming", {n2}, << >>, NoRun),
   J("removeOutgoing", {n1}, << >>, NoRun),
   J("deleteGraph", {}, << >>, NoRun)}

\* Attaches and removes of two keys under two runs on the same artifacts, an
\* edge among them, against deletes.
MCListJobs ==
  {J("add", {n1}, <<k1>>, r1), J("add", {n1, n2}, << >>, NoRun),
   J("add", {edge}, <<k2>>, NoRun),
   J("attach", {n1, n2}, <<k1, k2>>, r2), J("attach", {n1}, <<k2>>, r1),
   J("attach", {n1}, <<k1>>, NoRun), J("attach", {edge}, <<k1>>, r1),
   J("remove", {n1}, <<k1>>, NoRun), J("remove", {n1, n2}, <<k2>>, NoRun),
   J("deleteNodes", {n1}, << >>, NoRun), J("deleteGraph", {}, << >>, NoRun)}
=============================================================================
