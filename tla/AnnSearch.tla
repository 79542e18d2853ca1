------------------------------- MODULE AnnSearch -------------------------------
(***************************************************************************)
(* Exact nearest-vector search (python/neuroseek/semantic.py): the stable  *)
(* top-k, the batched CUDA search that merges the best of each batch, the  *)
(* native top-k kernel, and the store that turns rows into entities.       *)
(* Scores are finite; rows are numbered from 0.                            *)
(***************************************************************************)
EXTENDS Integers, Sequences, FiniteSets, SequencesExt

Rows(scores) == 0 .. Len(scores) - 1
Score(scores, row) == scores[row + 1]

\* Candidates in lexsort order: score descending, row ascending.
Ahead(scores, a, b) ==
  Score(scores, a) > Score(scores, b) \/ (Score(scores, a) = Score(scores, b) /\ a < b)

FirstOf(scores, candidates) ==
  CHOOSE a \in candidates : \A b \in candidates \ {a} : Ahead(scores, a, b)

\* The first k candidates, one after the other.
Best(scores, candidates, k) ==
  LET taken[i \in 0 .. k] ==
        IF i = 0 THEN {} ELSE taken[i - 1] \cup {FirstOf(scores, candidates \ taken[i - 1])}
  IN  [i \in 1 .. k |-> FirstOf(scores, candidates \ taken[i - 1])]

\* _stable_topk over the rows from first to last of one batch.
StableTopK(scores, first, last, k) == Best(scores, first .. last, k)

SmallerOf(a, b) == IF a < b THEN a ELSE b

\* range(0, rows, batch), and where a batch stops.
BatchStarts(scores, batch) == {j * batch : j \in Rows(scores)} \cap Rows(scores)
BatchStop(scores, batch, s) == SmallerOf(Len(scores), s + batch)

\* Variant: the batches share the k places evenly.
BatchedSearch_Share(scores, k, batch) ==
  LET starts == BatchStarts(scores, batch)
      size(s) == BatchStop(scores, batch, s) - s
      share  == 1 + (k - 1) \div Cardinality(starts)
      kept   == UNION {ToSet(StableTopK(scores, s, s + size(s) - 1, SmallerOf(share, size(s)))) : s \in starts}
  IN  Best(scores, kept, SmallerOf(k, Cardinality(kept)))

\* The k candidates of one batch, or all of a smaller one.
Kept(scores, k, batch, s) ==
  LET stop == BatchStop(scores, batch, s)
  IN  ToSet(StableTopK(scores, s, stop - 1, SmallerOf(k, stop - s)))

\* CudaExactAnnBackend.search: k candidates per batch, then one merge.
BatchedSearch(scores, k, batch) ==
  Best(scores, UNION {Kept(scores, k, batch, s) : s \in BatchStarts(scores, batch)}, k)

\* topk_kernel: one scan for the best row not taken yet, -1 before there is one.
Scanned(scores, taken) ==
  LET best[i \in 0 .. Len(scores)] ==
        IF i = 0 THEN -1
        ELSE IF i - 1 \notin taken
                /\ (best[i - 1] = -1 \/ Score(scores, i - 1) > Score(scores, best[i - 1]))
        THEN i - 1 ELSE best[i - 1]
  IN  best[Len(scores)]

\* One scan per rank.
KernelTopK(scores, k) ==
  LET taken[rank \in 0 .. k] ==
        IF rank = 0 THEN {} ELSE taken[rank - 1] \cup {Scanned(scores, taken[rank - 1])}
  IN  [rank \in 1 .. k |-> Scanned(scores, taken[rank - 1])]

\* AlignedEmbeddings.search: the entities of the rows.
EntitiesOf(ids, rows) == [i \in DOMAIN rows |-> ids[rows[i] + 1]]
=============================================================================
