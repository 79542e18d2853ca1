------------------------------ MODULE GraphCompile ------------------------------
(***************************************************************************)
(* What scripts/preprocess.py compiles a triple file into, and how         *)
(* GraphMmap (python/neuroseek/data/graph.py) and the native library read  *)
(* it: compact ids in order of first appearance, and two CSR directions.   *)
(* Arrays are indexed from 0, as in the files.                             *)
(***************************************************************************)
EXTENDS Integers, Sequences, FiniteSets, SequencesExt

CONSTANTS
  RelationLimit,  \* U16_MAX: relation ids are stored modulo RelationLimit + 1
  EntityLimit     \* U32_MAX

ASSUME WidthAssumption == RelationLimit \in Nat \ {0} /\ EntityLimit \in Nat \ {0}

\* A triple file: a sequence of rows.
IsRows(rows) ==
  /\ rows \in Seq({rows[i] : i \in DOMAIN rows})
  /\ \A i \in DOMAIN rows :
       rows[i] = [head |-> rows[i].head, relation |-> rows[i].relation, tail |-> rows[i].tail]

\* INSERT OR IGNORE into a table with a unique text.
Inserted(ids, text) == IF Contains(ids, text) THEN ids ELSE Append(ids, text)

\* Entities enter head first, then tail, row by row.
EntityIds(rows) ==
  LET ids[i \in 0 .. Len(rows)] ==
        IF i = 0 THEN << >> ELSE Inserted(Inserted(ids[i - 1], rows[i].head), rows[i].tail)
  IN  ids[Len(rows)]

RelationIds(rows) ==
  LET ids[i \in 0 .. Len(rows)] == IF i = 0 THEN << >> ELSE Inserted(ids[i - 1], rows[i].relation)
  IN  ids[Len(rows)]

IdOf(ids, text) == (CHOOSE i \in DOMAIN ids : ids[i] = text) - 1

\* More ids than the columns hold are refused.
WidthsHold(entities, relations) == Len(entities) <= EntityLimit /\ Len(relations) <= RelationLimit

\* Degrees, and their cumulative sum.
Offsets(ends, n) ==
  LET degree(v) == Cardinality({i \in DOMAIN ends : ends[i] = v})
      offset[v \in 0 .. n] == IF v = 0 THEN 0 ELSE offset[v - 1] + degree(v - 1)
  IN  offset

\* Variant: the cursors are not advanced.
Filled_SameSlot(offset, from, to, codes) ==
  [offsets   |-> offset,
   targets   |-> [p \in 0 .. Len(from) - 1 |->
                   IF \E i \in DOMAIN from : offset[from[i]] = p
                   THEN to[CHOOSE i \in DOMAIN from : offset[from[i]] = p] ELSE 0],
   relations |-> [p \in 0 .. Len(from) - 1 |-> codes[p + 1]]]

\* A row takes the next free place of its node.
Placed(csr, node, target, code) ==
  [csr EXCEPT !.targets[csr.next[node]] = target,
              !.relations[csr.next[node]] = code % (RelationLimit + 1),
              !.next[node] = @ + 1]

\* The second pass over the rows.
Filled(offset, from, to, codes) ==
  LET empty == [p \in 0 .. Len(from) - 1 |-> 0]
      csr[i \in 0 .. Len(from)] ==
        IF i = 0
        THEN [offsets |-> offset, next |-> offset, targets |-> empty, relations |-> empty]
        ELSE Placed(csr[i - 1], from[i], to[i], codes[i])
  IN  csr[Len(from)]

\* Compilable: the id widths are enough.
Compilable(rows) == WidthsHold(EntityIds(rows), RelationIds(rows))

Compile(rows) ==
  LET entities  == EntityIds(rows)
      relations == RelationIds(rows)
      heads == [i \in DOMAIN rows |-> IdOf(entities, rows[i].head)]
      tails == [i \in DOMAIN rows |-> IdOf(entities, rows[i].tail)]
      codes == [i \in DOMAIN rows |-> IdOf(relations, rows[i].relation)]
      n     == Len(entities)
  IN  [entities  |-> entities, relations |-> relations, n |-> n,
       forward   |-> Filled(Offsets(heads, n), heads, tails, codes),
       reverse   |-> Filled(Offsets(tails, n), tails, heads, codes)]

Direction(graph, reverse) == IF reverse THEN graph.reverse ELSE graph.forward

\* GraphMmap.neighbors: the edges of a node, each a target and a relation.
Neighbors(csr, v) ==
  [i \in 1 .. csr.offsets[v + 1] - csr.offsets[v] |->
     [target   |-> csr.targets[csr.offsets[v] + i - 1],
      relation |-> csr.relations[csr.offsets[v] + i - 1]]]

\* validate_csr of the native library.
ValidateCsr(csr, n, edges) ==
  /\ csr.offsets[0] = 0
  /\ \A v \in 0 .. n - 1 : csr.offsets[v] <= csr.offsets[v + 1] /\ csr.offsets[v + 1] <= edges
  /\ csr.offsets[n] = edges
=============================================================================
