---------------------------- MODULE ProvenanceSpec ----------------------------
(***************************************************************************)
(* What the provenance store promises cognee, with no transactions, links, *)
(* positions or ref entities: every artifact that exists has an ordered    *)
(* list of source ref keys and of run refs, and each call changes the      *)
(* lists of the artifacts it reaches in one step, by cognee's transitions. *)
(* A call reaches the artifacts that exist when it looks, so which of its  *)
(* artifacts those are is left open.                                       *)
(*                                                                         *)
(* A list has no repetitions and is given by its order: the pairs <<r, q>> *)
(* of its elements such that r is q or comes before q.                     *)
(***************************************************************************)
EXTENDS Integers, Sequences

CONSTANTS Nodes, Edges, Keys, Runs, NoRun,
          KeyLists   \* the key lists calls pass

VARIABLE prov  \* [existing artifacts -> [keys, runs]]

Exists == DOMAIN prov
Elements(list) == {p[1] : p \in list}
NoOwner == [keys |-> {}, runs |-> {}]

\* The elements of list, then those of new.
Behind(list, new) == list \cup (Elements(list) \X Elements(new)) \cup new

\* Only keys the artifact does not hold are recorded, and only those count
\* as brought by the run.
AfterAttach(p, ks, run) ==
  LET fresh == {i \in DOMAIN ks : ks[i] \notin Elements(p.keys)}
      order == {h \in fresh \X fresh : h[1] <= h[2]}
  IN  [keys |-> Behind(p.keys, {<<ks[h[1]], ks[h[2]]>> : h \in order}),
       runs |-> IF run = NoRun THEN p.runs
                ELSE Behind(p.runs,
                       {<<<<run, ks[h[1]]>>, <<run, ks[h[2]]>>>> : h \in order})]

AfterRemove(p, ks) ==
  LET gone == {ks[i] : i \in DOMAIN ks}
  IN  [keys |-> {q \in p.keys : q[1] \notin gone /\ q[2] \notin gone},
       runs |-> {q \in p.runs : q[1][2] \notin gone /\ q[2][2] \notin gone}]

Init == prov = << >>

\* Create new artifacts, an edge only between existing nodes, and attach the
\* keys to them and to existing ones.
Attach(new, old, ks, run) ==
  /\ \A e \in new \cap Edges : {e[1], e[2]} \subseteq Exists
  /\ prov' = [a \in Exists \cup new |->
       IF a \in new THEN AfterAttach(NoOwner, ks, run)
       ELSE IF a \in old THEN AfterAttach(prov[a], ks, run) ELSE prov[a]]

Remove(old, ks) ==
  prov' = [a \in Exists |->
             IF a \in old THEN AfterRemove(prov[a], ks) ELSE prov[a]]

\* A node goes with its edges; the provenance of what goes is forgotten.
Delete(gone) ==
  /\ \A e \in Exists \cap Edges : {e[1], e[2]} \cap gone # {} => e \in gone
  /\ prov' = [a \in Exists \ gone |-> prov[a]]

Next ==
  \/ \E new \in SUBSET ((Nodes \cup Edges) \ Exists), old \in SUBSET Exists,
        ks \in KeyLists, run \in Runs \cup {NoRun} : Attach(new, old, ks, run)
  \/ \E old \in SUBSET Exists, ks \in KeyLists : Remove(old, ks)
  \/ \E gone \in SUBSET Exists : Delete(gone)

Spec == Init /\ [][Next]_prov
=============================================================================
