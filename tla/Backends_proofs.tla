---------------------------- MODULE Backends_proofs ----------------------------
(***************************************************************************)
(* Proofs about Backends, for every triple file, frontier, capacity, order *)
(* of threads, row of scores, graph and question.  Recursions are followed *)
(* with two lemmas that speak of sets and functions only: an induction up  *)
(* to a bound, and the existence of a function that is defined step by     *)
(* step.                                                                   *)
(***************************************************************************)
EXTENDS Backends, FiniteSetTheorems, WellFoundedInduction, TLAPS

-----------------------------------------------------------------------------
(* Induction and recursion up to a bound *)

LEMMA LeastIs ==
  ASSUME NEW S, S \subseteq Nat, S # {}
  PROVE  \E m \in S : \A k \in S : m <= k
<1>1. PICK m \in S : \A k \in S : ~ (<<k, m>> \in OpToRel(<, Nat))
  BY NatLessThanWellFounded, WFMin
<1>2. ASSUME NEW k \in S, k < m PROVE <<k, m>> \in OpToRel(<, Nat)
  <2>1. <<k, m>> \in Nat \X Nat /\ <<k, m>>[1] < <<k, m>>[2]
    BY <1>2
  <2>. QED
    BY ONLY <2>1, Zenon DEF OpToRel
<1>3. \A k \in S : ~ (k < m)
  BY <1>1, <1>2
<1>. QED
  BY <1>3

LEMMA UpTo ==
  ASSUME NEW n \in Nat, NEW P, 0 \in P, \A i \in 1 .. n : i - 1 \in P => i \in P
  PROVE  \A i \in 0 .. n : i \in P
<1>. DEFINE Bad == {i \in 0 .. n : i \notin P}
<1>. SUFFICES ASSUME Bad # {} PROVE FALSE
  OBVIOUS
<1>1. PICK m \in Bad : \A k \in Bad : m <= k
  <2>1. Bad \subseteq Nat
    OBVIOUS
  <2>. HIDE DEF Bad
  <2>. QED
    BY <2>1, LeastIs
<1>2. m \in 1 .. n /\ m - 1 \in 0 .. n /\ m - 1 \notin Bad
  BY <1>1
<1>. QED
  BY <1>2

\* A function that is defined step by step from a first value exists.
Steps(n, S) == [1 .. n -> [S -> S]]
Follows(f, n, S, base, step) ==
  f \in [0 .. n -> S] /\ f[0] = base /\ \A i \in 1 .. n : f[i] = step[i][f[i - 1]]

LEMMA StepByStep ==
  ASSUME NEW n \in Nat, NEW S, NEW base \in S, NEW step \in Steps(n, S)
  PROVE  \E f : Follows(f, n, S, base, step)
<1>. DEFINE Goes(g, m) == /\ g \in [0 .. m -> S] /\ g[0] = base
                          /\ \A i \in 1 .. m : g[i] = step[i][g[i - 1]]
            P == {m \in 0 .. n : \E g : Goes(g, m)}
<1>. USE DEF Steps
<1>1. 0 \in P
  <2>. DEFINE g == [i \in 0 .. 0 |-> base]
  <2>1. Goes(g, 0)
    OBVIOUS
  <2>. HIDE DEF Goes, g
  <2>. QED
    BY <2>1
<1>2. ASSUME NEW m \in 1 .. n, m - 1 \in P PROVE m \in P
  <2>1. PICK g : Goes(g, m - 1)
    BY <1>2
  <2>. DEFINE h == [i \in 0 .. m |-> IF i = m THEN step[m][g[m - 1]] ELSE g[i]]
  <2>2. step[m] \in [S -> S] /\ g[m - 1] \in S
    BY <2>1
  <2>3. h \in [0 .. m -> S]
    BY <2>1, <2>2
  <2>4. ASSUME NEW i \in 1 .. m PROVE h[i] = step[i][h[i - 1]]
    <3>1. CASE i = m
      <4>1. h[m] = step[m][g[m - 1]] /\ h[m - 1] = g[m - 1]
        OBVIOUS
      <4>. QED
        BY <3>1, <4>1
    <3>2. CASE i # m
      <4>1. h[i] = g[i] /\ h[i - 1] = g[i - 1] /\ i \in 1 .. m - 1
        BY <3>2
      <4>. QED
        BY <2>1, <4>1
    <3>. QED
      BY <3>1, <3>2
  <2>5. h[0] = base
    BY <2>1
  <2>6. Goes(h, m)
    <3>. HIDE DEF h
    <3>. QED
      BY <2>3, <2>4, <2>5
  <2>. HIDE DEF Goes, h
  <2>. QED
    BY <2>6
<1>3. \A m \in 0 .. n : m \in P
  <2>1. \A m \in 1 .. n : m - 1 \in P => m \in P
    BY <1>2
  <2>. HIDE DEF P
  <2>. QED
    BY <1>1, <2>1, UpTo
<1>4. n \in P
  <2>. HIDE DEF P
  <2>. QED
    BY <1>3
<1>5. PICK g : Goes(g, n)
  BY <1>4
<1>. QED
  BY <1>5 DEF Follows

-----------------------------------------------------------------------------
(* Counting *)

\* Both halves of a set that a condition splits are counted.
LEMMA CountOne ==
  ASSUME NEW S, IsFiniteSet(S), NEW x, x \notin S
  PROVE  IsFiniteSet(S \cup {x}) /\ Cardinality(S \cup {x}) = Cardinality(S) + 1
         /\ Cardinality(S) \in Nat
BY FS_AddElement, FS_CardinalityType

LEMMA CountDisjoint ==
  ASSUME NEW S, NEW T, IsFiniteSet(S), IsFiniteSet(T), S \cap T = {}
  PROVE  /\ IsFiniteSet(S \cup T)
         /\ Cardinality(S \cup T) = Cardinality(S) + Cardinality(T)
         /\ Cardinality(S) \in Nat /\ Cardinality(T) \in Nat
BY FS_Union, FS_EmptySet, FS_CardinalityType, SMTT(60)

LEMMA CountPart ==
  ASSUME NEW m \in Nat, NEW S, S \subseteq 1 .. m
  PROVE  IsFiniteSet(S) /\ Cardinality(S) \in 0 .. m
<1>1. IsFiniteSet(1 .. m) /\ Cardinality(1 .. m) = m
  BY FS_Interval
<1>2. IsFiniteSet(S) /\ Cardinality(S) <= m
  BY <1>1, FS_Subset
<1>. QED
  BY <1>2, FS_CardinalityType

-----------------------------------------------------------------------------
(* Compact ids *)

Distinct(ids) == \A i, j \in DOMAIN ids : ids[i] = ids[j] => i = j
Names(ids)    == {ids[i] : i \in DOMAIN ids}

LEMMA InsertedIs ==
  ASSUME NEW U, NEW ids \in Seq(U), Distinct(ids), NEW text \in U
  PROVE  /\ Inserted(ids, text) \in Seq(U) /\ Distinct(Inserted(ids, text))
         /\ Names(Inserted(ids, text)) = Names(ids) \cup {text}
<1>1. CASE Contains(ids, text)
  <2>1. text \in Names(ids)
    BY <1>1 DEF Contains, Names
  <2>. QED
    BY <1>1, <2>1 DEF Inserted
<1>2. CASE ~ Contains(ids, text)
  <2>1. Inserted(ids, text) = Append(ids, text)
    BY <1>2 DEF Inserted
  <2>2. /\ Append(ids, text) \in Seq(U) /\ Len(Append(ids, text)) = Len(ids) + 1
        /\ \A i \in 1 .. Len(ids) : Append(ids, text)[i] = ids[i]
        /\ Append(ids, text)[Len(ids) + 1] = text
        /\ DOMAIN Append(ids, text) = 1 .. Len(ids) + 1 /\ DOMAIN ids = 1 .. Len(ids)
        /\ Len(ids) \in Nat
    OBVIOUS
  <2>3. \A i \in 1 .. Len(ids) : ids[i] # text
    BY <1>2 DEF Contains
  <2>4. Distinct(Append(ids, text))
    BY <2>2, <2>3 DEF Distinct
  <2>5. Names(Append(ids, text)) = Names(ids) \cup {text}
    BY <2>2 DEF Names
  <2>. QED
    BY <2>1, <2>2, <2>4, <2>5
<1>. QED
  BY <1>1, <1>2

\* Ids that grow row by row name what each row has added, once.
LEMMA IdsGrow ==
  ASSUME NEW n \in Nat, NEW U, NEW new, NEW f, f[0] = << >>,
         \A i \in 1 .. n : f[i - 1] \in Seq(U) /\ Distinct(f[i - 1]) =>
           /\ f[i] \in Seq(U) /\ Distinct(f[i])
           /\ Names(f[i]) = Names(f[i - 1]) \cup new[i]
  PROVE  /\ f[n] \in Seq(U) /\ Distinct(f[n])
         /\ \A i \in 1 .. n : new[i] \subseteq Names(f[n])
<1>. DEFINE Good(i) == /\ f[i] \in Seq(U) /\ Distinct(f[i])
                       /\ \A j \in 1 .. i : new[j] \subseteq Names(f[i])
            P == {i \in 0 .. n : Good(i)}
<1>1. 0 \in P
  <2>1. << >> \in Seq(U) /\ DOMAIN << >> = {}
    OBVIOUS
  <2>2. Distinct(<< >>)
    BY <2>1 DEF Distinct
  <2>3. f[0] \in Seq(U) /\ Distinct(f[0])
    BY <2>1, <2>2, Zenon
  <2>4. 0 \in 0 .. n /\ \A j \in 1 .. 0 : FALSE
    OBVIOUS
  <2>5. Good(0)
    BY <2>3, <2>4, Zenon
  <2>. QED
    BY <2>4, <2>5, Zenon
<1>2. ASSUME NEW i \in 1 .. n, Good(i - 1) PROVE Good(i)
  <2>1. \A j \in 1 .. i : j = i \/ j \in 1 .. i - 1
    OBVIOUS
  <2>. QED
    BY <1>2, <2>1
<1>3. \A i \in 1 .. n : i - 1 \in P => i \in P
  <2>. HIDE DEF Good
  <2>. QED
    BY <1>2
<1>4. \A i \in 0 .. n : i \in P
  <2>. HIDE DEF P
  <2>. QED
    BY <1>1, <1>3, UpTo
<1>. QED
  BY <1>4

\* Every name of a file is among its ids, once.
LEMMA EntityIdsAre ==
  ASSUME NEW rows, IsRows(rows)
  PROVE  /\ Len(EntityIds(rows)) \in Nat /\ DOMAIN EntityIds(rows) = 1 .. Len(EntityIds(rows))
         /\ Distinct(EntityIds(rows))
         /\ \A i \in DOMAIN rows :
              rows[i].head \in Names(EntityIds(rows)) /\ rows[i].tail \in Names(EntityIds(rows))
<1>1. PICK n : n = Len(rows)
  OBVIOUS
<1>2. n \in Nat /\ DOMAIN rows = 1 .. n
  BY <1>1 DEF IsRows
<1>3. PICK U : U = {rows[i].head : i \in 1 .. n} \cup {rows[i].tail : i \in 1 .. n}
  OBVIOUS
<1>4. \A i \in 1 .. n : rows[i].head \in U /\ rows[i].tail \in U
  BY <1>3
<1>. DEFINE both(ids, i) == Inserted(Inserted(ids, rows[i].head), rows[i].tail)
<1>5. ASSUME NEW i \in 1 .. n, NEW ids \in Seq(U) PROVE both(ids, i) \in Seq(U)
  BY <1>4 DEF Inserted
<1>6. PICK S : S = Seq(U)
  OBVIOUS
<1>7. PICK base : base = << >> /\ base \in S
  <2>1. << >> \in Seq(U)
    OBVIOUS
  <2>. QED
    BY <1>6, <2>1
<1>8. PICK step : step = [i \in 1 .. n |-> [ids \in S |-> both(ids, i)]]
  OBVIOUS
<1>9. step \in Steps(n, S)
  <2>. HIDE DEF both
  <2>. QED
    BY <1>5, <1>6, <1>8 DEF Steps
<1>10. PICK g : Follows(g, n, S, base, step)
  BY <1>2, <1>7, <1>9, StepByStep
<1>11. g = [i \in 0 .. n |-> IF i = 0 THEN << >> ELSE both(g[i - 1], i)]
  <2>1. \A i \in 1 .. n : g[i - 1] \in S
    BY <1>2, <1>10 DEF Follows
  <2>2. \A i \in 1 .. n : step[i][g[i - 1]] = both(g[i - 1], i)
    <3>. HIDE DEF both
    <3>. QED
      BY <1>8, <2>1
  <2>. HIDE DEF both
  <2>. QED
    BY <1>2, <1>7, <1>10, <2>2 DEF Follows
<1>12. PICK f : f = [i \in 0 .. n |-> IF i = 0 THEN << >> ELSE both(f[i - 1], i)] /\ EntityIds(rows) = f[n]
  <2>. DEFINE h == CHOOSE f : f = [i \in 0 .. n |-> IF i = 0 THEN << >> ELSE both(f[i - 1], i)]
  <2>1. h = [i \in 0 .. n |-> IF i = 0 THEN << >> ELSE both(h[i - 1], i)]
    <3>. HIDE DEF both
    <3>. QED
      BY <1>11
  <2>2. EntityIds(rows) = h[n]
    BY <1>1 DEF EntityIds
  <2>3. PICK e : e = EntityIds(rows)
    OBVIOUS
  <2>. HIDE DEF h, both
  <2>. QED
    BY <2>1, <2>2, <2>3
<1>13. f[0] = << >> /\ \A i \in 1 .. n : f[i] = both(f[i - 1], i)
  <2>. HIDE DEF both
  <2>. QED
    BY <1>2, <1>12
<1>14. PICK new : new = [i \in 1 .. n |-> {rows[i].head, rows[i].tail}]
  OBVIOUS
<1>15. ASSUME NEW i \in 1 .. n, f[i - 1] \in Seq(U), Distinct(f[i - 1])
       PROVE  /\ f[i] \in Seq(U) /\ Distinct(f[i])
              /\ Names(f[i]) = Names(f[i - 1]) \cup new[i]
  <2>1. PICK prev : prev = f[i - 1]
    OBVIOUS
  <2>2. PICK ids : ids = Inserted(prev, rows[i].head)
    OBVIOUS
  <2>3. rows[i].head \in U /\ rows[i].tail \in U
    BY <1>4
  <2>4. prev \in Seq(U) /\ Distinct(prev)
    BY <1>15, <2>1
  <2>5. ids \in Seq(U) /\ Distinct(ids) /\ Names(ids) = Names(prev) \cup {rows[i].head}
    <3>1. /\ Inserted(prev, rows[i].head) \in Seq(U) /\ Distinct(Inserted(prev, rows[i].head))
          /\ Names(Inserted(prev, rows[i].head)) = Names(prev) \cup {rows[i].head}
      BY <2>3, <2>4, InsertedIs, SMTT(60)
    <3>. QED
      BY <2>2, <3>1
  <2>6. f[i] = Inserted(ids, rows[i].tail)
    BY <1>13, <2>1, <2>2
  <2>7. /\ Inserted(ids, rows[i].tail) \in Seq(U) /\ Distinct(Inserted(ids, rows[i].tail))
        /\ Names(Inserted(ids, rows[i].tail)) = Names(ids) \cup {rows[i].tail}
    BY <2>3, <2>5, InsertedIs, SMTT(60)
  <2>. QED
    BY <1>14, <2>1, <2>5, <2>6, <2>7
<1>16. /\ f[n] \in Seq(U) /\ Distinct(f[n])
       /\ \A i \in 1 .. n : new[i] \subseteq Names(f[n])
  BY <1>2, <1>13, <1>15, IdsGrow
<1>17. Len(f[n]) \in Nat /\ DOMAIN f[n] = 1 .. Len(f[n])
  BY <1>16
<1>. QED
  BY <1>2, <1>12, <1>14, <1>16, <1>17

LEMMA RelationIdsAre ==
  ASSUME NEW rows, IsRows(rows)
  PROVE  /\ Len(RelationIds(rows)) \in Nat /\ DOMAIN RelationIds(rows) = 1 .. Len(RelationIds(rows))
         /\ Distinct(RelationIds(rows))
         /\ \A i \in DOMAIN rows : rows[i].relation \in Names(RelationIds(rows))
<1>1. PICK n : n = Len(rows)
  OBVIOUS
<1>2. n \in Nat /\ DOMAIN rows = 1 .. n
  BY <1>1 DEF IsRows
<1>3. PICK U : U = {rows[i].relation : i \in 1 .. n}
  OBVIOUS
<1>4. \A i \in 1 .. n : rows[i].relation \in U
  BY <1>3
<1>. DEFINE one(ids, i) == Inserted(ids, rows[i].relation)
<1>5. ASSUME NEW i \in 1 .. n, NEW ids \in Seq(U) PROVE one(ids, i) \in Seq(U)
  BY <1>4 DEF Inserted
<1>6. PICK S : S = Seq(U)
  OBVIOUS
<1>7. PICK base : base = << >> /\ base \in S
  <2>1. << >> \in Seq(U)
    OBVIOUS
  <2>. QED
    BY <1>6, <2>1
<1>8. PICK step : step = [i \in 1 .. n |-> [ids \in S |-> one(ids, i)]]
  OBVIOUS
<1>9. step \in Steps(n, S)
  <2>. HIDE DEF one
  <2>. QED
    BY <1>5, <1>6, <1>8 DEF Steps
<1>10. PICK g : Follows(g, n, S, base, step)
  BY <1>2, <1>7, <1>9, StepByStep
<1>11. g = [i \in 0 .. n |-> IF i = 0 THEN << >> ELSE one(g[i - 1], i)]
  <2>1. \A i \in 1 .. n : g[i - 1] \in S
    BY <1>2, <1>10 DEF Follows
  <2>2. \A i \in 1 .. n : step[i][g[i - 1]] = one(g[i - 1], i)
    <3>. HIDE DEF one
    <3>. QED
      BY <1>8, <2>1
  <2>. HIDE DEF one
  <2>. QED
    BY <1>2, <1>7, <1>10, <2>2 DEF Follows
<1>12. PICK f : f = [i \in 0 .. n |-> IF i = 0 THEN << >> ELSE one(f[i - 1], i)] /\ RelationIds(rows) = f[n]
  <2>. DEFINE h == CHOOSE f : f = [i \in 0 .. n |-> IF i = 0 THEN << >> ELSE one(f[i - 1], i)]
  <2>1. h = [i \in 0 .. n |-> IF i = 0 THEN << >> ELSE one(h[i - 1], i)]
    <3>. HIDE DEF one
    <3>. QED
      BY <1>11
  <2>2. RelationIds(rows) = h[n]
    BY <1>1 DEF RelationIds
  <2>3. PICK e : e = RelationIds(rows)
    OBVIOUS
  <2>. HIDE DEF h, one
  <2>. QED
    BY <2>1, <2>2, <2>3
<1>13. f[0] = << >> /\ \A i \in 1 .. n : f[i] = one(f[i - 1], i)
  <2>. HIDE DEF one
  <2>. QED
    BY <1>2, <1>12
<1>14. PICK new : new = [i \in 1 .. n |-> {rows[i].relation}]
  OBVIOUS
<1>15. ASSUME NEW i \in 1 .. n, f[i - 1] \in Seq(U), Distinct(f[i - 1])
       PROVE  /\ f[i] \in Seq(U) /\ Distinct(f[i])
              /\ Names(f[i]) = Names(f[i - 1]) \cup new[i]
  <2>1. PICK prev : prev = f[i - 1]
    OBVIOUS
  <2>2. prev \in Seq(U) /\ Distinct(prev) /\ rows[i].relation \in U
    BY <1>4, <1>15, <2>1
  <2>3. /\ Inserted(prev, rows[i].relation) \in Seq(U) /\ Distinct(Inserted(prev, rows[i].relation))
        /\ Names(Inserted(prev, rows[i].relation)) = Names(prev) \cup {rows[i].relation}
    BY <2>2, InsertedIs
  <2>. QED
    BY <1>13, <1>14, <2>1, <2>3
<1>16. /\ f[n] \in Seq(U) /\ Distinct(f[n])
       /\ \A i \in 1 .. n : new[i] \subseteq Names(f[n])
  BY <1>2, <1>13, <1>15, IdsGrow
<1>17. Len(f[n]) \in Nat /\ DOMAIN f[n] = 1 .. Len(f[n])
  BY <1>16
<1>. QED
  BY <1>2, <1>12, <1>14, <1>16, <1>17

\* An id leads back to the name it stands for.
LEMMA IdOfIs ==
  ASSUME NEW ids, Len(ids) \in Nat, DOMAIN ids = 1 .. Len(ids), Distinct(ids),
         NEW name \in Names(ids)
  PROVE  IdOf(ids, name) \in 0 .. Len(ids) - 1 /\ ids[IdOf(ids, name) + 1] = name
<1>. DEFINE at == CHOOSE i \in DOMAIN ids : ids[i] = name
<1>1. at \in 1 .. Len(ids) /\ ids[at] = name
  BY DEF Names
<1>2. IdOf(ids, name) = at - 1
  BY DEF IdOf
<1>. HIDE DEF at
<1>. QED
  BY <1>1, <1>2

-----------------------------------------------------------------------------
(* Offsets and places *)

Below(from, m, v)  == {i \in 1 .. m : from[i] < v}
\* Those of the first i rows whose node is v.
Earlier(from, i, v) == {k \in 1 .. i : from[k] = v}

\* Offsets are cumulative degrees.
LEMMA OffsetsAre ==
  ASSUME NEW m \in Nat, NEW n \in Nat, NEW from \in [1 .. m -> 0 .. n - 1]
  PROVE  /\ Offsets(from, n) \in [0 .. n -> Nat]
         /\ \A v \in 0 .. n : Offsets(from, n)[v] = Cardinality(Below(from, m, v))
<1>. DEFINE deg(v) == Cardinality({i \in DOMAIN from : from[i] = v})
<1>1. ASSUME NEW v \in 0 .. n
      PROVE  deg(v) \in Nat /\ deg(v) = Cardinality(Earlier(from, m, v)) /\ IsFiniteSet(Earlier(from, m, v))
  <2>1. {i \in DOMAIN from : from[i] = v} = Earlier(from, m, v) /\ Earlier(from, m, v) \subseteq 1 .. m
    BY DEF Earlier
  <2>2. IsFiniteSet(Earlier(from, m, v)) /\ Cardinality(Earlier(from, m, v)) \in Nat
    BY <2>1, CountPart
  <2>. QED
    BY <2>1, <2>2
<1>2. PICK step : step = [v \in 1 .. n |-> [x \in Nat |-> x + deg(v - 1)]]
  OBVIOUS
<1>3. step \in Steps(n, Nat)
  <2>1. \A v \in 1 .. n : deg(v - 1) \in Nat
    <3>. HIDE DEF deg
    <3>. QED
      BY <1>1
  <2>. HIDE DEF deg
  <2>. QED
    BY <1>2, <2>1 DEF Steps
<1>4. PICK g : Follows(g, n, Nat, 0, step)
  BY <1>3, StepByStep
<1>5. g = [v \in 0 .. n |-> IF v = 0 THEN 0 ELSE g[v - 1] + deg(v - 1)]
  <2>. HIDE DEF deg
  <2>1. \A v \in 1 .. n : g[v - 1] \in Nat
    BY <1>4 DEF Follows
  <2>2. \A v \in 1 .. n : step[v][g[v - 1]] = g[v - 1] + deg(v - 1)
    BY <1>2, <2>1
  <2>. QED
    BY <1>4, <2>2 DEF Follows
<1>6. PICK f : f = [v \in 0 .. n |-> IF v = 0 THEN 0 ELSE f[v - 1] + deg(v - 1)] /\ Offsets(from, n) = f
  <2>. DEFINE h == CHOOSE f : f = [v \in 0 .. n |-> IF v = 0 THEN 0 ELSE f[v - 1] + deg(v - 1)]
  <2>1. h = [v \in 0 .. n |-> IF v = 0 THEN 0 ELSE h[v - 1] + deg(v - 1)]
    <3>. HIDE DEF deg
    <3>. QED
      BY <1>5
  <2>2. Offsets(from, n) = h
    BY DEF Offsets
  <2>. HIDE DEF h, deg
  <2>. QED
    BY <2>1, <2>2
<1>7. f[0] = 0 /\ DOMAIN f = 0 .. n /\ \A v \in 1 .. n : f[v] = f[v - 1] + deg(v - 1)
  <2>. HIDE DEF deg
  <2>. QED
    BY <1>6
<1>. DEFINE P == {v \in 0 .. n : f[v] = Cardinality(Below(from, m, v))}
<1>8. 0 \in P
  <2>1. Below(from, m, 0) = {}
    BY DEF Below
  <2>. QED
    BY <1>7, <2>1, FS_EmptySet
<1>9. ASSUME NEW v \in 1 .. n, v - 1 \in P PROVE v \in P
  <2>1. /\ Below(from, m, v) = Below(from, m, v - 1) \cup Earlier(from, m, v - 1)
        /\ Below(from, m, v - 1) \cap Earlier(from, m, v - 1) = {}
        /\ Below(from, m, v - 1) \subseteq 1 .. m
    BY DEF Below, Earlier
  <2>2. IsFiniteSet(Below(from, m, v - 1))
    BY <2>1, CountPart
  <2>3. IsFiniteSet(Earlier(from, m, v - 1)) /\ deg(v - 1) = Cardinality(Earlier(from, m, v - 1))
    <3>. HIDE DEF deg
    <3>. QED
      BY <1>1
  <2>4. Cardinality(Below(from, m, v)) = Cardinality(Below(from, m, v - 1)) + Cardinality(Earlier(from, m, v - 1))
    BY <2>1, <2>2, <2>3, CountDisjoint
  <2>. HIDE DEF deg
  <2>. QED
    BY <1>7, <1>9, <2>3, <2>4
<1>10. \A v \in 0 .. n : v \in P
  <2>. HIDE DEF P
  <2>. QED
    BY <1>8, <1>9, UpTo
<1>11. \A v \in 0 .. n : f[v] = Cardinality(Below(from, m, v)) /\ f[v] \in Nat
  <2>1. \A v \in 0 .. n : Below(from, m, v) \subseteq 1 .. m
    BY DEF Below
  <2>2. \A v \in 0 .. n : Cardinality(Below(from, m, v)) \in Nat
    BY <2>1, CountPart
  <2>. QED
    BY <1>10, <2>2
<1>12. f \in [0 .. n -> Nat]
  <2>1. f = [v \in 0 .. n |-> f[v]]
    <3>. HIDE DEF deg
    <3>. QED
      BY <1>6
  <2>. QED
    BY <1>11, <2>1
<1>. QED
  BY <1>6, <1>11, <1>12

LEMMA OffsetStep ==
  ASSUME NEW m \in Nat, NEW n \in Nat, NEW from \in [1 .. m -> 0 .. n - 1],
         NEW offset, offset = Offsets(from, n), NEW v \in 0 .. n - 1
  PROVE  /\ IsFiniteSet(Earlier(from, m, v))
         /\ offset[v + 1] = offset[v] + Cardinality(Earlier(from, m, v))
<1>1. /\ Below(from, m, v + 1) = Below(from, m, v) \cup Earlier(from, m, v)
      /\ Below(from, m, v) \cap Earlier(from, m, v) = {}
      /\ Below(from, m, v) \subseteq 1 .. m /\ Earlier(from, m, v) \subseteq 1 .. m
  BY DEF Below, Earlier
<1>2. \A w \in 0 .. n : offset[w] = Cardinality(Below(from, m, w))
  BY OffsetsAre
<1>3. IsFiniteSet(Below(from, m, v)) /\ IsFiniteSet(Earlier(from, m, v))
  BY <1>1, CountPart
<1>4. Cardinality(Below(from, m, v + 1)) = Cardinality(Below(from, m, v)) + Cardinality(Earlier(from, m, v))
  BY <1>1, <1>3, CountDisjoint
<1>5. v \in 0 .. n /\ v + 1 \in 0 .. n
  OBVIOUS
<1>. QED
  BY <1>2, <1>3, <1>4, <1>5

\* The first offset is 0, the last the number of rows, and each node has the edges it counts.
LEMMA OffsetFacts ==
  ASSUME NEW m \in Nat, NEW n \in Nat, NEW from \in [1 .. m -> 0 .. n - 1],
         NEW offset, offset = Offsets(from, n)
  PROVE  /\ offset \in [0 .. n -> Nat]
         /\ offset[0] = 0 /\ offset[n] = m
         /\ \A v, w \in 0 .. n : v <= w => offset[v] <= offset[w]
<1>1. offset \in [0 .. n -> Nat] /\ \A v \in 0 .. n : offset[v] = Cardinality(Below(from, m, v))
  BY OffsetsAre
<1>2. ASSUME NEW v \in 0 .. n, NEW w \in 0 .. n, v <= w PROVE offset[v] <= offset[w]
  <2>1. Below(from, m, v) \subseteq Below(from, m, w) /\ Below(from, m, w) \subseteq 1 .. m
    BY <1>2 DEF Below
  <2>2. IsFiniteSet(Below(from, m, w))
    BY <2>1, CountPart
  <2>3. Cardinality(Below(from, m, v)) <= Cardinality(Below(from, m, w))
    BY <2>1, <2>2, FS_Subset
  <2>. QED
    BY <1>1, <2>3
<1>4. offset[0] = 0
  <2>1. Below(from, m, 0) = {} /\ 0 \in 0 .. n
    BY DEF Below
  <2>. QED
    BY <1>1, <2>1, FS_EmptySet
<1>5. offset[n] = m
  <2>1. Below(from, m, n) = 1 .. m /\ n \in 0 .. n
    BY DEF Below
  <2>2. Cardinality(1 .. m) = m
    BY FS_Interval
  <2>. QED
    BY <1>1, <2>1, <2>2
<1>. QED
  BY <1>1, <1>2, <1>4, <1>5

\* The place of row j: after the rows of the same node that come before it.
Place(offset, from, j) == offset[from[j]] + Cardinality(Earlier(from, j - 1, from[j]))

LEMMA PlaceWithin ==
  ASSUME NEW m \in Nat, NEW n \in Nat, NEW from \in [1 .. m -> 0 .. n - 1],
         NEW offset, offset = Offsets(from, n), NEW j \in 1 .. m
  PROVE  /\ Place(offset, from, j) \in Nat
         /\ offset[from[j]] \in Nat /\ offset[from[j] + 1] \in Nat
         /\ offset[from[j]] <= Place(offset, from, j)
         /\ Place(offset, from, j) < offset[from[j] + 1]
         /\ Place(offset, from, j) \in 0 .. m - 1
<1>1. PICK v \in 0 .. n - 1 : v = from[j]
  OBVIOUS
<1>2. /\ offset[v] \in Nat /\ offset[v + 1] \in Nat /\ offset[n] = m
      /\ offset[v + 1] <= offset[n] /\ IsFiniteSet(Earlier(from, m, v))
      /\ offset[v + 1] = offset[v] + Cardinality(Earlier(from, m, v))
  <2>1. v \in 0 .. n /\ v + 1 \in 0 .. n /\ n \in 0 .. n /\ v + 1 <= n
    OBVIOUS
  <2>2. /\ offset[n] = m
        /\ \A x, y \in 0 .. n : x <= y => offset[x] <= offset[y]
    BY OffsetFacts
  <2>4. \A x \in 0 .. n : offset[x] \in Nat
    BY OffsetsAre
  <2>3. /\ IsFiniteSet(Earlier(from, m, v))
        /\ offset[v + 1] = offset[v] + Cardinality(Earlier(from, m, v))
    BY OffsetStep
  <2>. QED
    BY <2>1, <2>2, <2>3, <2>4
<1>3. Earlier(from, j - 1, v) \cup {j} \subseteq Earlier(from, m, v) /\ j \notin Earlier(from, j - 1, v)
      /\ Earlier(from, j - 1, v) \subseteq 1 .. m
  BY <1>1 DEF Earlier
<1>4. IsFiniteSet(Earlier(from, j - 1, v)) /\ Cardinality(Earlier(from, j - 1, v)) \in Nat
  BY <1>3, CountPart
<1>5. Cardinality(Earlier(from, j - 1, v) \cup {j}) = Cardinality(Earlier(from, j - 1, v)) + 1
  BY <1>3, <1>4, CountOne
<1>6. Cardinality(Earlier(from, j - 1, v) \cup {j}) <= Cardinality(Earlier(from, m, v))
  BY <1>2, <1>3, FS_Subset
<1>7. Cardinality(Earlier(from, m, v)) \in Nat
  BY <1>2, FS_CardinalityType
<1>8. Place(offset, from, j) = offset[v] + Cardinality(Earlier(from, j - 1, v))
  BY <1>1 DEF Place
<1>9. PICK p : p = Place(offset, from, j)
  OBVIOUS
<1>10. p \in Nat /\ offset[v] <= p /\ p < offset[v + 1] /\ p \in 0 .. m - 1
  <2>1. PICK c, d, a, b : /\ c = Cardinality(Earlier(from, j - 1, v)) /\ d = Cardinality(Earlier(from, m, v))
                          /\ a = offset[v] /\ b = offset[v + 1]
    OBVIOUS
  <2>2. /\ a \in Nat /\ b \in Nat /\ c \in Nat /\ d \in Nat /\ b <= m /\ b = a + d /\ p = a + c
    BY <1>2, <1>4, <1>7, <1>8, <1>9, <2>1
  <2>3. c + 1 <= d
    BY <1>5, <1>6, <2>1
  <2>4. p \in Nat /\ a <= p /\ p < b /\ p \in 0 .. m - 1
    BY <2>2, <2>3
  <2>. QED
    BY <2>1, <2>4
<1>. QED
  BY <1>1, <1>2, <1>9, <1>10

\* No two rows share a place ...
LEMMA PlaceOfOne ==
  ASSUME NEW m \in Nat, NEW n \in Nat, NEW from \in [1 .. m -> 0 .. n - 1],
         NEW offset, offset = Offsets(from, n), NEW j \in 1 .. m, NEW k \in 1 .. m, j < k
  PROVE  Place(offset, from, j) # Place(offset, from, k)
<1>1. CASE from[j] = from[k]
  <2>1. PICK v \in 0 .. n - 1 : v = from[j]
    OBVIOUS
  <2>2. /\ Earlier(from, j - 1, v) \cup {j} \subseteq Earlier(from, k - 1, v) /\ j \notin Earlier(from, j - 1, v)
        /\ Earlier(from, j - 1, v) \subseteq 1 .. m /\ Earlier(from, k - 1, v) \subseteq 1 .. m
    BY <2>1 DEF Earlier
  <2>3. /\ IsFiniteSet(Earlier(from, j - 1, v)) /\ IsFiniteSet(Earlier(from, k - 1, v))
        /\ Cardinality(Earlier(from, j - 1, v)) \in Nat /\ Cardinality(Earlier(from, k - 1, v)) \in Nat
    BY <2>2, CountPart
  <2>4. Cardinality(Earlier(from, j - 1, v) \cup {j}) = Cardinality(Earlier(from, j - 1, v)) + 1
    BY <2>2, <2>3, CountOne
  <2>5. Cardinality(Earlier(from, j - 1, v) \cup {j}) <= Cardinality(Earlier(from, k - 1, v))
    BY <2>2, <2>3, FS_Subset
  <2>6. /\ Place(offset, from, j) = offset[v] + Cardinality(Earlier(from, j - 1, v))
        /\ Place(offset, from, k) = offset[v] + Cardinality(Earlier(from, k - 1, v))
    BY <1>1, <2>1 DEF Place
  <2>7. offset[v] \in Nat
    BY <2>1, PlaceWithin
  <2>. QED
    BY <2>3, <2>4, <2>5, <2>6, <2>7, SMTT(60)
<1>2. CASE from[j] # from[k]
  <2>1. PICK v \in 0 .. n - 1, w \in 0 .. n - 1 : v = from[j] /\ w = from[k]
    OBVIOUS
  <2>2. /\ Place(offset, from, j) \in Nat /\ Place(offset, from, k) \in Nat
        /\ offset[v] \in Nat /\ offset[w] \in Nat
        /\ offset[v + 1] \in Nat /\ offset[w + 1] \in Nat
        /\ offset[v] <= Place(offset, from, j) /\ Place(offset, from, j) < offset[v + 1]
        /\ offset[w] <= Place(offset, from, k) /\ Place(offset, from, k) < offset[w + 1]
    BY <2>1, PlaceWithin
  <2>3. \A x, y \in 0 .. n : x <= y => offset[x] <= offset[y]
    BY OffsetFacts
  <2>4. /\ v + 1 <= w => offset[v + 1] <= offset[w]
        /\ w + 1 <= v => offset[w + 1] <= offset[v]
    BY <2>3
  <2>5. v + 1 <= w \/ w + 1 <= v
    BY <1>2, <2>1
  <2>6. PICK p, q : p = Place(offset, from, j) /\ q = Place(offset, from, k)
    OBVIOUS
  <2>7. PICK a, b, c, d : a = offset[v] /\ b = offset[v + 1] /\ c = offset[w] /\ d = offset[w + 1]
    OBVIOUS
  <2>8. /\ p \in Nat /\ q \in Nat /\ a \in Nat /\ b \in Nat /\ c \in Nat /\ d \in Nat
        /\ a <= p /\ p < b /\ c <= q /\ q < d
    BY <2>2, <2>6, <2>7
  <2>9. b <= c \/ d <= a
    BY <2>4, <2>5, <2>7
  <2>10. p # q
    BY <2>8, <2>9
  <2>. QED
    BY <2>6, <2>10
<1>. QED
  BY <1>1, <1>2

\* ... and none is left free.
OnePlaceEach(offset, from, m) ==
  \A j, k \in 1 .. m : Place(offset, from, j) = Place(offset, from, k) => j = k
EveryPlace(offset, from, m) ==
  \A p \in 0 .. m - 1 : \E j \in 1 .. m : Place(offset, from, j) = p

LEMMA PlacesAre ==
  ASSUME NEW m \in Nat, NEW n \in Nat, NEW from \in [1 .. m -> 0 .. n - 1],
         NEW offset, offset = Offsets(from, n)
  PROVE  OnePlaceEach(offset, from, m) /\ EveryPlace(offset, from, m)
<1>1. \A j \in 1 .. m : Place(offset, from, j) \in 0 .. m - 1
  BY PlaceWithin
<1>2. \A j, k \in 1 .. m : Place(offset, from, j) = Place(offset, from, k) => j = k
  <2>1. \A j, k \in 1 .. m : j < k => Place(offset, from, j) # Place(offset, from, k)
    BY PlaceOfOne
  <2>2. \A j, k \in 1 .. m : j = k \/ j < k \/ k < j
    OBVIOUS
  <2>. QED
    BY <2>1, <2>2
<1>3. PICK place : place = [j \in 1 .. m |-> Place(offset, from, j)]
  OBVIOUS
<1>4. place \in Injection(1 .. m, 0 .. m - 1)
  BY <1>1, <1>2, <1>3 DEF Injection, IsInjective
<1>5. /\ IsFiniteSet(1 .. m) /\ Cardinality(1 .. m) = m
      /\ IsFiniteSet(0 .. m - 1) /\ Cardinality(0 .. m - 1) = m
  <2>1. 1 \in Int /\ m \in Int /\ 0 \in Int /\ m - 1 \in Int
    OBVIOUS
  <2>2. IsFiniteSet(1 .. m) /\ Cardinality(1 .. m) = m
    BY <2>1, FS_Interval
  <2>3. IsFiniteSet(0 .. m - 1) /\ Cardinality(0 .. m - 1) = IF 0 > m - 1 THEN 0 ELSE m - 1 - 0 + 1
    BY <2>1, FS_Interval
  <2>. QED
    BY <2>2, <2>3
<1>6. place \in Surjection(1 .. m, 0 .. m - 1)
  BY <1>4, <1>5, FS_Injection
<1>7. \A p \in 0 .. m - 1 : \E j \in 1 .. m : place[j] = p
  BY <1>6 DEF Surjection
<1>. QED
  BY <1>2, <1>3, <1>7 DEF OnePlaceEach, EveryPlace

-----------------------------------------------------------------------------
(* The second pass *)

\* What the arrays are while the rows are placed.
Arrays(offset, n, m) ==
  [offsets : {offset}, next : [0 .. n -> Nat], targets : [0 .. m - 1 -> Nat], relations : [0 .. m - 1 -> Nat]]

Coded(code) == code % (RelationLimit + 1)

\* A row is written at its place and moves the cursor of its node.
Written(out, csr, node, at, target, code) ==
  /\ out.next = [csr.next EXCEPT ![node] = at + 1]
  /\ out.targets = [csr.targets EXCEPT ![at] = target]
  /\ out.relations = [csr.relations EXCEPT ![at] = Coded(code)]

LEMMA PlacedIs ==
  ASSUME NEW m \in Nat, NEW n \in Nat, NEW offset, NEW csr \in Arrays(offset, n, m),
         NEW node \in 0 .. n, NEW target \in Nat, NEW code \in Nat,
         NEW at, at = csr.next[node], NEW out, out = Placed(csr, node, target, code)
  PROVE  out \in Arrays(offset, n, m) /\ Written(out, csr, node, at, target, code)
<1>2. PICK c : c = Coded(code) /\ c \in Nat
  BY WidthAssumption DEF Coded
<1>3. /\ csr.offsets = offset /\ csr.next \in [0 .. n -> Nat]
      /\ csr.targets \in [0 .. m - 1 -> Nat] /\ csr.relations \in [0 .. m - 1 -> Nat]
      /\ csr = [offsets |-> csr.offsets, next |-> csr.next, targets |-> csr.targets, relations |-> csr.relations]
  BY DEF Arrays
<1>5. out = [offsets |-> out.offsets, next |-> out.next, targets |-> out.targets, relations |-> out.relations]
  BY <1>3 DEF Placed
<1>6. out.offsets = offset
  BY <1>3 DEF Placed
<1>7. out.next = [csr.next EXCEPT ![node] = at + 1]
  BY <1>3 DEF Placed
<1>8. out.targets = [csr.targets EXCEPT ![at] = target]
  BY <1>3 DEF Placed
<1>9. out.relations = [csr.relations EXCEPT ![at] = c]
  BY <1>2, <1>3 DEF Placed, Coded
<1>10. out.next \in [0 .. n -> Nat]
  BY <1>3, <1>7
<1>11. out.targets \in [0 .. m - 1 -> Nat] /\ out.relations \in [0 .. m - 1 -> Nat]
  <2>1. PICK tg \in [0 .. m - 1 -> Nat], rl \in [0 .. m - 1 -> Nat] : tg = csr.targets /\ rl = csr.relations
    BY <1>3
  <2>2. [tg EXCEPT ![at] = target] \in [0 .. m - 1 -> Nat] /\ [rl EXCEPT ![at] = c] \in [0 .. m - 1 -> Nat]
    BY <1>2
  <2>. QED
    BY <1>8, <1>9, <2>1, <2>2
<1>12. out \in Arrays(offset, n, m)
  BY <1>5, <1>6, <1>10, <1>11 DEF Arrays
<1>. QED
  BY <1>2, <1>7, <1>8, <1>9, <1>12 DEF Written

\* The arrays after the first i rows: the cursors, and what was placed.
Cursors(csr, offset, from, n, i) ==
  \A v \in 0 .. n - 1 : csr.next[v] = offset[v] + Cardinality(Earlier(from, i, v))

Holds(csr, offset, from, to, codes, i) ==
  \A j \in 1 .. i : /\ csr.targets[Place(offset, from, j)] = to[j]
                    /\ csr.relations[Place(offset, from, j)] = Coded(codes[j])

LEMMA FillStep ==
  ASSUME NEW m \in Nat, NEW n \in Nat, NEW from \in [1 .. m -> 0 .. n - 1],
         NEW to \in [1 .. m -> Nat], NEW codes \in [1 .. m -> Nat],
         NEW offset, offset = Offsets(from, n), NEW i \in 1 .. m,
         NEW csr \in Arrays(offset, n, m), Cursors(csr, offset, from, n, i - 1),
         Holds(csr, offset, from, to, codes, i - 1),
         NEW after, after = Placed(csr, from[i], to[i], codes[i])
  PROVE  /\ after \in Arrays(offset, n, m) /\ Cursors(after, offset, from, n, i)
         /\ Holds(after, offset, from, to, codes, i)
<1>1. PICK v \in 0 .. n - 1 : v = from[i]
  OBVIOUS
<1>2. PICK at : at = Place(offset, from, i)
  OBVIOUS
<1>3. PICK t \in Nat, code \in Nat : t = to[i] /\ code = codes[i]
  OBVIOUS
<1>4. csr.next[v] = at
  BY <1>1, <1>2 DEF Cursors, Place
<1>5. v \in 0 .. n /\ after = Placed(csr, v, t, code)
  BY <1>1, <1>3
<1>6. /\ after \in Arrays(offset, n, m)
      /\ after.next = [csr.next EXCEPT ![v] = at + 1]
      /\ after.targets = [csr.targets EXCEPT ![at] = t]
      /\ after.relations = [csr.relations EXCEPT ![at] = Coded(code)]
  <2>1. after \in Arrays(offset, n, m) /\ Written(after, csr, v, at, t, code)
    BY <1>4, <1>5, PlacedIs
  <2>. QED
    BY <2>1 DEF Written
<1>7. /\ csr.next \in [0 .. n -> Nat] /\ csr.targets \in [0 .. m - 1 -> Nat]
      /\ csr.relations \in [0 .. m - 1 -> Nat]
  BY DEF Arrays
<1>8. Cursors(after, offset, from, n, i)
  <2>. SUFFICES ASSUME NEW w \in 0 .. n - 1
                PROVE  after.next[w] = offset[w] + Cardinality(Earlier(from, i, w))
    BY DEF Cursors
  <2>1. csr.next[w] = offset[w] + Cardinality(Earlier(from, i - 1, w))
    BY DEF Cursors
  <2>2. offset[w] \in Nat
    <3>1. offset \in [0 .. n -> Nat]
      <4>1. Offsets(from, n) \in [0 .. n -> Nat]
        BY OffsetsAre, ZenonT(60)
      <4>. QED
        BY <4>1
    <3>. QED
      BY <3>1, SMTT(60)
  <2>3. CASE w = v
    <3>1. /\ Earlier(from, i, w) = Earlier(from, i - 1, w) \cup {i} /\ i \notin Earlier(from, i - 1, w)
          /\ Earlier(from, i - 1, w) \subseteq 1 .. m
      BY <1>1, <2>3, SMTT(60) DEF Earlier
    <3>2. IsFiniteSet(Earlier(from, i - 1, w)) /\ Cardinality(Earlier(from, i - 1, w)) \in Nat
      BY <3>1, CountPart
    <3>3. Cardinality(Earlier(from, i, w)) = Cardinality(Earlier(from, i - 1, w)) + 1
      BY <3>1, <3>2, CountOne
    <3>4. after.next[w] = at + 1
      BY <1>5, <1>6, <1>7, <2>3
    <3>5. PICK c \in Nat, o \in Nat : c = Cardinality(Earlier(from, i - 1, w)) /\ o = offset[w]
      BY <2>2, <3>2
    <3>6. at = o + c
      BY <1>4, <2>1, <2>3, <3>5
    <3>7. at + 1 = o + (c + 1)
      BY <3>6
    <3>. QED
      BY <3>3, <3>4, <3>5, <3>7
  <2>4. CASE w # v
    <3>1. Earlier(from, i, w) = Earlier(from, i - 1, w)
      BY <1>1, <2>4, SMTT(60) DEF Earlier
    <3>2. after.next[w] = csr.next[w]
      <4>1. w \in 0 .. n
        OBVIOUS
      <4>. QED
        BY <1>6, <1>7, <2>4, <4>1
    <3>. QED
      BY <2>1, <3>1, <3>2
  <2>. QED
    BY <2>3, <2>4
<1>9. Holds(after, offset, from, to, codes, i)
  <2>. SUFFICES ASSUME NEW j \in 1 .. i
                PROVE  /\ after.targets[Place(offset, from, j)] = to[j]
                       /\ after.relations[Place(offset, from, j)] = Coded(codes[j])
    BY DEF Holds
  <2>1. PICK p : p = Place(offset, from, j)
    OBVIOUS
  <2>2. j \in 1 .. m /\ (j = i \/ j \in 1 .. i - 1)
    OBVIOUS
  <2>3. p \in 0 .. m - 1 /\ (j # i => p # at)
    <3>1. \A k \in 1 .. m : Place(offset, from, k) \in 0 .. m - 1
      BY PlaceWithin
    <3>2. OnePlaceEach(offset, from, m)
      BY PlacesAre
    <3>. QED
      BY <1>2, <2>1, <2>2, <3>1, <3>2 DEF OnePlaceEach
  <2>4. CASE j = i
    BY <1>2, <1>3, <1>6, <1>7, <2>1, <2>3, <2>4
  <2>5. CASE j # i
    <3>1. csr.targets[p] = to[j] /\ csr.relations[p] = Coded(codes[j])
      BY <2>1, <2>2, <2>5 DEF Holds
    <3>2. after.targets[p] = csr.targets[p] /\ after.relations[p] = csr.relations[p]
      BY <1>6, <1>7, <2>3, <2>5
    <3>. QED
      BY <2>1, <3>1, <3>2
  <2>. QED
    BY <2>4, <2>5
<1>. QED
  BY <1>6, <1>8, <1>9

\* A direction holds each row at its place.
LEMMA FilledIs ==
  ASSUME NEW m \in Nat, NEW n \in Nat, NEW from \in [1 .. m -> 0 .. n - 1], Len(from) = m,
         NEW to \in [1 .. m -> Nat], NEW codes \in [1 .. m -> Nat],
         NEW offset, offset = Offsets(from, n), NEW csr, csr = Filled(offset, from, to, codes)
  PROVE  csr \in Arrays(offset, n, m) /\ Holds(csr, offset, from, to, codes, m)
<1>1. PICK S : S = Arrays(offset, n, m)
  OBVIOUS
<1>2. PICK start : start = [offsets |-> offset, next |-> offset,
                            targets |-> [p \in 0 .. m - 1 |-> 0], relations |-> [p \in 0 .. m - 1 |-> 0]]
  OBVIOUS
<1>3. start \in S
  <2>1. offset \in [0 .. n -> Nat]
    BY OffsetsAre
  <2>. QED
    BY <1>1, <1>2, <2>1 DEF Arrays
<1>. DEFINE next(c, i) == Placed(c, from[i], to[i], codes[i])
<1>4. ASSUME NEW i \in 1 .. m, NEW c \in S PROVE next(c, i) \in S
  <2>1. from[i] \in 0 .. n /\ to[i] \in Nat /\ codes[i] \in Nat
    OBVIOUS
  <2>. QED
    BY <1>1, <2>1, PlacedIs
<1>5. PICK step : step = [i \in 1 .. m |-> [c \in S |-> next(c, i)]]
  OBVIOUS
<1>6. step \in Steps(m, S)
  <2>. HIDE DEF next
  <2>. QED
    BY <1>4, <1>5 DEF Steps
<1>7. PICK g : Follows(g, m, S, start, step)
  BY <1>3, <1>6, StepByStep
<1>8. g = [i \in 0 .. m |-> IF i = 0 THEN start ELSE next(g[i - 1], i)]
  <2>. HIDE DEF next
  <2>1. \A i \in 1 .. m : g[i - 1] \in S
    BY ONLY <1>7, m \in Nat DEF Follows
  <2>2. \A i \in 1 .. m : step[i][g[i - 1]] = next(g[i - 1], i)
    BY <1>5, <2>1
  <2>. QED
    BY <1>7, <2>2 DEF Follows
<1>9. PICK f : f = [i \in 0 .. m |-> IF i = 0 THEN start ELSE next(f[i - 1], i)]
               /\ csr = f[m]
  <2>. DEFINE h == CHOOSE f : f = [i \in 0 .. m |-> IF i = 0 THEN start ELSE next(f[i - 1], i)]
  <2>1. h = [i \in 0 .. m |-> IF i = 0 THEN start ELSE next(h[i - 1], i)]
    <3>. HIDE DEF next
    <3>. QED
      BY <1>8
  <2>2. csr = h[m]
    BY <1>2 DEF Filled
  <2>. HIDE DEF h, next
  <2>. QED
    BY <2>1, <2>2
<1>10. f[0] = start /\ \A i \in 1 .. m : f[i] = next(f[i - 1], i)
  <2>. HIDE DEF next
  <2>. QED
    BY <1>9, SMTT(60)
<1>. DEFINE P == {i \in 0 .. m : /\ f[i] \in S /\ Cursors(f[i], offset, from, n, i)
                                 /\ Holds(f[i], offset, from, to, codes, i)}
<1>11. 0 \in P
  <2>1. Holds(f[0], offset, from, to, codes, 0)
    BY DEF Holds
  <2>2. Cursors(f[0], offset, from, n, 0)
    <3>. SUFFICES ASSUME NEW v \in 0 .. n - 1
                  PROVE  f[0].next[v] = offset[v] + Cardinality(Earlier(from, 0, v))
      BY DEF Cursors
    <3>1. Earlier(from, 0, v) = {}
      BY DEF Earlier
    <3>2. Cardinality(Earlier(from, 0, v)) = 0
      BY <3>1, FS_EmptySet
    <3>3. f[0].next = offset
      BY <1>2, <1>10
    <3>4. \A x \in 0 .. n : offset[x] \in Nat
      BY OffsetsAre, SMTT(60)
    <3>. QED
      BY <3>2, <3>3, <3>4
  <2>. QED
    BY <1>3, <1>10, <2>1, <2>2
<1>12. ASSUME NEW i \in 1 .. m, i - 1 \in P PROVE i \in P
  <2>1. PICK old \in Arrays(offset, n, m) : old = f[i - 1]
    BY <1>1, <1>12
  <2>2. Cursors(old, offset, from, n, i - 1) /\ Holds(old, offset, from, to, codes, i - 1)
    BY <1>12, <2>1
  <2>3. PICK after : after = Placed(old, from[i], to[i], codes[i])
    OBVIOUS
  <2>4. /\ after \in Arrays(offset, n, m) /\ Cursors(after, offset, from, n, i)
        /\ Holds(after, offset, from, to, codes, i)
    BY <2>2, <2>3, FillStep
  <2>5. f[i] = after
    BY <1>10, <2>1, <2>3
  <2>. QED
    BY <1>1, <2>4, <2>5
<1>13. \A i \in 0 .. m : i \in P
  <2>. HIDE DEF P
  <2>. QED
    BY <1>11, <1>12, UpTo
<1>. QED
  BY <1>1, <1>9, <1>13

-----------------------------------------------------------------------------
(* The compiled graph *)

\* The columns of ids the two directions are filled from.
Columns(rows, g, heads, tails, codes) ==
  /\ heads \in [1 .. Len(rows) -> 0 .. g.n - 1] /\ Len(heads) = Len(rows)
  /\ tails \in [1 .. Len(rows) -> 0 .. g.n - 1] /\ Len(tails) = Len(rows)
  /\ codes \in [1 .. Len(rows) -> 0 .. Len(g.relations) - 1]

Decoded(rows, g, heads, tails, codes) ==
  \A j \in 1 .. Len(rows) : /\ g.entities[heads[j] + 1] = rows[j].head
                            /\ g.entities[tails[j] + 1] = rows[j].tail
                            /\ g.relations[codes[j] + 1] = rows[j].relation

Directions(g, heads, tails, codes) ==
  /\ g.forward = Filled(Offsets(heads, g.n), heads, tails, codes)
  /\ g.reverse = Filled(Offsets(tails, g.n), tails, heads, codes)

LEMMA CompileIs ==
  ASSUME NEW rows, IsRows(rows), NEW g, g = Compile(rows)
  PROVE  /\ g.entities = EntityIds(rows) /\ g.relations = RelationIds(rows)
         /\ Len(rows) \in Nat /\ DOMAIN rows = 1 .. Len(rows) /\ g.n = Len(EntityIds(rows)) /\ g.n \in Nat
         /\ \E heads, tails, codes :
              /\ Columns(rows, g, heads, tails, codes) /\ Decoded(rows, g, heads, tails, codes)
              /\ Directions(g, heads, tails, codes)
<1>1. PICK entities, relations : entities = EntityIds(rows) /\ relations = RelationIds(rows)
  OBVIOUS
<1>2. PICK n, m : n = Len(entities) /\ m = Len(rows)
  OBVIOUS
<1>3. PICK heads : heads = [i \in DOMAIN rows |-> IdOf(entities, rows[i].head)]
  OBVIOUS
<1>4. PICK tails : tails = [i \in DOMAIN rows |-> IdOf(entities, rows[i].tail)]
  OBVIOUS
<1>5. PICK codes : codes = [i \in DOMAIN rows |-> IdOf(relations, rows[i].relation)]
  OBVIOUS
<1>6. g = [entities |-> entities, relations |-> relations, n |-> n,
           forward |-> Filled(Offsets(heads, n), heads, tails, codes),
           reverse |-> Filled(Offsets(tails, n), tails, heads, codes)]
  BY <1>1, <1>2, <1>3, <1>4, <1>5 DEF Compile
<1>7. m \in Nat /\ DOMAIN rows = 1 .. m
  BY <1>2 DEF IsRows
<1>8. /\ n \in Nat /\ DOMAIN entities = 1 .. n /\ Distinct(entities)
      /\ \A i \in 1 .. m : rows[i].head \in Names(entities) /\ rows[i].tail \in Names(entities)
  <2>1. /\ Len(EntityIds(rows)) \in Nat /\ DOMAIN EntityIds(rows) = 1 .. Len(EntityIds(rows))
        /\ Distinct(EntityIds(rows))
        /\ \A i \in DOMAIN rows :
             rows[i].head \in Names(EntityIds(rows)) /\ rows[i].tail \in Names(EntityIds(rows))
    BY EntityIdsAre
  <2>. QED
    BY <1>1, <1>2, <1>7, <2>1
<1>9. /\ Len(relations) \in Nat /\ DOMAIN relations = 1 .. Len(relations) /\ Distinct(relations)
      /\ \A i \in 1 .. m : rows[i].relation \in Names(relations)
  <2>1. /\ Len(RelationIds(rows)) \in Nat /\ DOMAIN RelationIds(rows) = 1 .. Len(RelationIds(rows))
        /\ Distinct(RelationIds(rows))
        /\ \A i \in DOMAIN rows : rows[i].relation \in Names(RelationIds(rows))
    BY RelationIdsAre
  <2>. QED
    BY <1>1, <1>7, <2>1
<1>10. \A name \in Names(entities) :
         IdOf(entities, name) \in 0 .. Len(entities) - 1 /\ entities[IdOf(entities, name) + 1] = name
  BY <1>2, <1>8, IdOfIs
<1>11. \A name \in Names(relations) :
         IdOf(relations, name) \in 0 .. Len(relations) - 1 /\ relations[IdOf(relations, name) + 1] = name
  BY <1>9, IdOfIs
<1>12. /\ heads \in [1 .. m -> 0 .. n - 1] /\ \A j \in 1 .. m : entities[heads[j] + 1] = rows[j].head
       /\ tails \in [1 .. m -> 0 .. n - 1] /\ \A j \in 1 .. m : entities[tails[j] + 1] = rows[j].tail
  BY <1>2, <1>3, <1>4, <1>7, <1>8, <1>10
<1>13. /\ codes \in [1 .. m -> 0 .. Len(relations) - 1]
       /\ \A j \in 1 .. m : relations[codes[j] + 1] = rows[j].relation
  BY <1>5, <1>7, <1>9, <1>11
<1>14. Len(heads) = m /\ Len(tails) = m
  <2>1. heads \in Seq(Int) /\ tails \in Seq(Int) /\ DOMAIN heads = 1 .. m /\ DOMAIN tails = 1 .. m
    BY <1>7, <1>12
  <2>. QED
    BY <1>7, <2>1
<1>15. /\ g.entities = entities /\ g.relations = relations /\ g.n = n
       /\ Directions(g, heads, tails, codes)
  BY <1>6 DEF Directions
<1>16. Columns(rows, g, heads, tails, codes)
  BY <1>2, <1>12, <1>13, <1>14, <1>15 DEF Columns
<1>17. Decoded(rows, g, heads, tails, codes)
  BY <1>2, <1>12, <1>13, <1>15 DEF Decoded
<1>. QED
  BY <1>1, <1>2, <1>7, <1>8, <1>15, <1>16, <1>17

\* The entry of row j among the neighbours of its node.
Entry(offset, from, j) == Place(offset, from, j) - offset[from[j]] + 1

\* Every row is an entry of its node, and there are no other entries.
LEMMA EntryOfRow ==
  ASSUME NEW m \in Nat, NEW n \in Nat, NEW from \in [1 .. m -> 0 .. n - 1],
         NEW offset, offset = Offsets(from, n), NEW j \in 1 .. m
  PROVE  /\ Entry(offset, from, j) \in 1 .. offset[from[j] + 1] - offset[from[j]]
         /\ offset[from[j]] + Entry(offset, from, j) - 1 = Place(offset, from, j)
<1>1. PICK p, a, b : p = Place(offset, from, j) /\ a = offset[from[j]] /\ b = offset[from[j] + 1]
  OBVIOUS
<1>2. p \in Nat /\ a \in Nat /\ b \in Nat /\ a <= p /\ p < b
  BY <1>1, PlaceWithin
<1>3. p - a + 1 \in 1 .. b - a /\ a + (p - a + 1) - 1 = p
  BY <1>2
<1>4. Entry(offset, from, j) = p - a + 1
  BY <1>1 DEF Entry
<1>. QED
  BY <1>1, <1>3, <1>4

Entries(offset, v)             == 1 .. offset[v + 1] - offset[v]
IsEntry(offset, from, m, v, i) == \E j \in 1 .. m : from[j] = v /\ Entry(offset, from, j) = i

LEMMA RowOfEntry ==
  ASSUME NEW m \in Nat, NEW n \in Nat, NEW from \in [1 .. m -> 0 .. n - 1],
         NEW offset, offset = Offsets(from, n), NEW v \in 0 .. n - 1,
         NEW i \in Entries(offset, v)
  PROVE  IsEntry(offset, from, m, v, i)
<1>1. /\ offset[n] = m
      /\ \A x, y \in 0 .. n : x <= y => offset[x] <= offset[y]
  BY OffsetFacts
<1>2. \A x \in 0 .. n : offset[x] \in Nat
  BY OffsetsAre
<1>3. PICK a \in Nat, b \in Nat : a = offset[v] /\ b = offset[v + 1] /\ b <= m
  BY <1>1, <1>2
<1>4. PICK p : p = a + i - 1
  OBVIOUS
<1>5. i \in Int /\ 1 <= i /\ i <= b - a /\ m \in Int
  BY <1>3 DEF Entries
<1>6. p \in 0 .. m - 1 /\ a <= p /\ p < b
  <2>1. a + i - 1 \in Int /\ 0 <= a + i - 1 /\ a + i - 1 <= m - 1 /\ a <= a + i - 1 /\ a + i - 1 < b
    <3>1. a \in Nat /\ b \in Nat /\ b <= m
      BY <1>3
    <3>. QED
      BY ONLY <3>1, <1>5
  <2>. QED
    BY <1>4, <2>1
<1>7. PICK j \in 1 .. m : Place(offset, from, j) = p
  <2>1. EveryPlace(offset, from, m)
    BY PlacesAre
  <2>. QED
    BY <1>6, <2>1 DEF EveryPlace
<1>8. PICK w \in 0 .. n - 1 : w = from[j]
  OBVIOUS
<1>9. PICK c \in Nat, d \in Nat : c = offset[w] /\ d = offset[w + 1]
  BY <1>2, SMTT(60)
<1>10. c <= p /\ p < d
  <2>1. offset[from[j]] <= Place(offset, from, j) /\ Place(offset, from, j) < offset[from[j] + 1]
    BY PlaceWithin
  <2>. QED
    BY <1>7, <1>8, <1>9, <2>1
<1>11. w = v
  <2>1. v + 1 <= w => b <= c
    BY <1>1, <1>3, <1>9
  <2>2. w + 1 <= v => d <= a
    BY <1>1, <1>3, <1>9
  <2>3. ~ (b <= c) /\ ~ (d <= a)
    BY <1>6, <1>10
  <2>4. ~ (v + 1 <= w) /\ ~ (w + 1 <= v)
    BY <2>1, <2>2, <2>3
  <2>. QED
    BY <2>4
<1>12. Entry(offset, from, j) = p - a + 1
  BY <1>3, <1>7, <1>8, <1>11 DEF Entry
<1>13. p - a + 1 = i
  BY <1>4, <1>5
<1>. QED
  BY <1>8, <1>11, <1>12, <1>13 DEF IsEntry

LEMMA ImageCount ==
  ASSUME NEW J, IsFiniteSet(J), NEW f, f = [j \in J |-> f[j]],
         \A j, k \in J : f[j] = f[k] => j = k
  PROVE  Cardinality({f[j] : j \in J}) = Cardinality(J)
<1>1. PICK T : T = {f[j] : j \in J}
  OBVIOUS
<1>2. f \in Injection(J, T) /\ f \in Surjection(J, T)
  BY <1>1 DEF Injection, IsInjective, Surjection
<1>3. ExistsBijection(J, T)
  BY <1>2 DEF ExistsBijection, Bijection
<1>. QED
  BY <1>1, <1>3, FS_Bijection

\* The entries of the rows of one triple.
Spots(offset, from, J) == {<<from[j], Entry(offset, from, j)>> : j \in J}

LEMMA SpotsCount ==
  ASSUME NEW m \in Nat, NEW n \in Nat, NEW from \in [1 .. m -> 0 .. n - 1],
         NEW offset, offset = Offsets(from, n), NEW J, J \subseteq 1 .. m
  PROVE  Cardinality(Spots(offset, from, J)) = Cardinality(J)
<1>1. PICK f : f = [j \in J |-> <<from[j], Entry(offset, from, j)>>]
  OBVIOUS
<1>2. IsFiniteSet(J)
  BY CountPart
<1>3. ASSUME NEW j \in J, NEW k \in J, f[j] = f[k] PROVE j = k
  <2>1. from[j] = from[k] /\ Entry(offset, from, j) = Entry(offset, from, k)
    BY <1>1, <1>3
  <2>2. /\ offset[from[j]] + Entry(offset, from, j) - 1 = Place(offset, from, j)
        /\ offset[from[k]] + Entry(offset, from, k) - 1 = Place(offset, from, k)
    <3>1. j \in 1 .. m /\ k \in 1 .. m
      OBVIOUS
    <3>2. offset[from[j]] + Entry(offset, from, j) - 1 = Place(offset, from, j)
      BY <3>1, EntryOfRow, ZenonT(60)
    <3>3. offset[from[k]] + Entry(offset, from, k) - 1 = Place(offset, from, k)
      BY <3>1, EntryOfRow, ZenonT(60)
    <3>. QED
      BY <3>2, <3>3
  <2>3. Place(offset, from, j) = Place(offset, from, k)
    BY <2>1, <2>2
  <2>. QED
    <3>1. OnePlaceEach(offset, from, m)
      BY PlacesAre
    <3>2. j \in 1 .. m /\ k \in 1 .. m
      OBVIOUS
    <3>. QED
      BY ONLY <2>3, <3>1, <3>2 DEF OnePlaceEach
<1>4. f = [j \in J |-> f[j]] /\ Spots(offset, from, J) = {f[j] : j \in J}
  BY <1>1 DEF Spots
<1>5. \A j, k \in J : f[j] = f[k] => j = k
  BY <1>3
<1>. QED
  BY <1>2, <1>4, <1>5, ImageCount

\* What an entry of a node reads as.
Reads(g, reverse, v, e) ==
  [head     |-> IF reverse THEN g.entities[e.target + 1] ELSE g.entities[v + 1],
   relation |-> g.relations[e.relation + 1],
   tail     |-> IF reverse THEN g.entities[v + 1] ELSE g.entities[e.target + 1]]

\* A direction that holds the rows at their places: each entry reads as its row.
Lists(csr, v, i, e) == i \in DOMAIN Neighbors(csr, v) /\ Neighbors(csr, v)[i] = e

LEMMA EntryReads ==
  ASSUME NEW m \in Nat, NEW n \in Nat, NEW from \in [1 .. m -> 0 .. n - 1],
         NEW offset, offset = Offsets(from, n), NEW j \in 1 .. m,
         NEW to, NEW codes, NEW csr, csr.offsets = offset, Holds(csr, offset, from, to, codes, m)
  PROVE  Lists(csr, from[j], Entry(offset, from, j), [target |-> to[j], relation |-> Coded(codes[j])])
<1>1. PICK v, i, p : v = from[j] /\ i = Entry(offset, from, j) /\ p = Place(offset, from, j)
  OBVIOUS
<1>2. i \in 1 .. offset[v + 1] - offset[v] /\ offset[v] + i - 1 = p
  BY <1>1, EntryOfRow, ZenonT(60)
<1>3. csr.targets[p] = to[j] /\ csr.relations[p] = Coded(codes[j])
  BY <1>1 DEF Holds
<1>4. i \in DOMAIN Neighbors(csr, v)
      /\ Neighbors(csr, v)[i] = [target |-> csr.targets[p], relation |-> csr.relations[p]]
  BY <1>2 DEF Neighbors
<1>. QED
  BY <1>1, <1>3, <1>4 DEF Lists

\* All rows are read back, and the entries that read as one triple.
ReadsBack(g, reverse, from, to, codes, rows, m) ==
  \A j \in 1 .. m : Reads(g, reverse, from[j], [target |-> to[j], relation |-> Coded(codes[j])]) = rows[j]
RowsOf(rows, m, triple) == {j \in 1 .. m : rows[j] = triple}
Found(csr, g, reverse, triple, n) ==
  {x \in (0 .. n - 1) \X Nat : /\ x[2] \in DOMAIN Neighbors(csr, x[1])
                               /\ Reads(g, reverse, x[1], Neighbors(csr, x[1])[x[2]]) = triple}

LEMMA SpotsAre ==
  ASSUME NEW m \in Nat, NEW n \in Nat, NEW from \in [1 .. m -> 0 .. n - 1],
         NEW offset, offset = Offsets(from, n), NEW rows, NEW g, NEW reverse, NEW triple,
         NEW to, NEW codes, NEW csr, csr.offsets = offset, Holds(csr, offset, from, to, codes, m),
         ReadsBack(g, reverse, from, to, codes, rows, m), NEW J, J = RowsOf(rows, m, triple)
  PROVE  Found(csr, g, reverse, triple, n) = Spots(offset, from, J)
<1>. DEFINE L == Found(csr, g, reverse, triple, n)
<1>. USE DEF Found
<1>1. ASSUME NEW j \in 1 .. m
      PROVE  /\ Entry(offset, from, j) \in DOMAIN Neighbors(csr, from[j])
             /\ Reads(g, reverse, from[j], Neighbors(csr, from[j])[Entry(offset, from, j)]) = rows[j]
  <2>1. PICK e : e = [target |-> to[j], relation |-> Coded(codes[j])]
    OBVIOUS
  <2>2. Lists(csr, from[j], Entry(offset, from, j), e)
    BY <2>1, EntryReads
  <2>. QED
    BY <2>1, <2>2 DEF Lists, ReadsBack
<1>2. ASSUME NEW j \in J PROVE <<from[j], Entry(offset, from, j)>> \in L
  <2>1. j \in 1 .. m /\ rows[j] = triple
    BY DEF RowsOf
  <2>2. Entry(offset, from, j) \in Nat
    <3>1. Entry(offset, from, j) \in 1 .. offset[from[j] + 1] - offset[from[j]]
      BY <2>1, EntryOfRow
    <3>2. offset[from[j] + 1] \in Nat /\ offset[from[j]] \in Nat
      BY <2>1, PlaceWithin
    <3>. QED
      BY <3>1, <3>2
  <2>3. PICK v, i : v = from[j] /\ i = Entry(offset, from, j)
    OBVIOUS
  <2>4. /\ v \in 0 .. n - 1 /\ i \in Nat /\ i \in DOMAIN Neighbors(csr, v)
        /\ Reads(g, reverse, v, Neighbors(csr, v)[i]) = triple
    BY <1>1, <2>1, <2>2, <2>3
  <2>5. <<v, i>> \in (0 .. n - 1) \X Nat /\ <<v, i>>[1] = v /\ <<v, i>>[2] = i
    BY <2>4
  <2>6. <<v, i>> \in L
    BY <2>4, <2>5
  <2>. QED
    BY <2>3, <2>6
<1>3. ASSUME NEW x \in L PROVE \E j \in J : x = <<from[j], Entry(offset, from, j)>>
  <2>1. PICK v \in 0 .. n - 1, i \in Nat : x = <<v, i>>
    OBVIOUS
  <2>2. i \in DOMAIN Neighbors(csr, v) /\ Reads(g, reverse, v, Neighbors(csr, v)[i]) = triple
    BY <2>1
  <2>3. i \in 1 .. offset[v + 1] - offset[v]
    BY <2>2 DEF Neighbors
  <2>4. PICK j \in 1 .. m : from[j] = v /\ Entry(offset, from, j) = i
    <3>1. i \in Entries(offset, v)
      BY <2>3 DEF Entries
    <3>2. IsEntry(offset, from, m, v, i)
      BY <3>1, RowOfEntry
    <3>. QED
      BY <3>2 DEF IsEntry
  <2>5. rows[j] = triple
    BY <1>1, <2>2, <2>4
  <2>. QED
    BY <2>1, <2>4, <2>5 DEF RowsOf
<1>. HIDE DEF L
<1>4. L = Spots(offset, from, J)
  BY <1>2, <1>3 DEF Spots
<1>. QED
  BY <1>4 DEF L

\* Each direction holds each triple as often as the file does, and is a valid CSR.
LEMMA DirectionIs ==
  ASSUME NEW rows, IsRows(rows), Compilable(rows), NEW g, g = Compile(rows), NEW reverse \in BOOLEAN
  PROVE  /\ \A i \in DOMAIN rows :
              Copies(g, reverse, rows[i]) = Cardinality({j \in DOMAIN rows : rows[j] = rows[i]})
         /\ ValidateCsr(Direction(g, reverse), g.n, Len(rows))
<1>1. PICK m, n : m = Len(rows) /\ n = g.n
  OBVIOUS
<1>2. m \in Nat /\ n \in Nat /\ DOMAIN rows = 1 .. m
  BY <1>1, CompileIs
<1>3. PICK heads, tails, codes :
        /\ Columns(rows, g, heads, tails, codes) /\ Decoded(rows, g, heads, tails, codes)
        /\ Directions(g, heads, tails, codes)
  BY CompileIs
<1>4. PICK from, to : from = (IF reverse THEN tails ELSE heads) /\ to = (IF reverse THEN heads ELSE tails)
  OBVIOUS
<1>5. /\ heads \in [1 .. m -> 0 .. n - 1] /\ tails \in [1 .. m -> 0 .. n - 1]
      /\ codes \in [1 .. m -> 0 .. Len(g.relations) - 1] /\ Len(heads) = m /\ Len(tails) = m
  BY <1>1, <1>3 DEF Columns
<1>6. from \in [1 .. m -> 0 .. n - 1] /\ to \in [1 .. m -> 0 .. n - 1] /\ Len(from) = m
  BY <1>4, <1>5
<1>7. PICK csr, offset : csr = Direction(g, reverse) /\ offset = Offsets(from, n)
  OBVIOUS
<1>8. csr = Filled(offset, from, to, codes)
  BY <1>1, <1>3, <1>4, <1>7 DEF Directions, Direction
<1>9. Len(g.relations) \in Nat /\ Len(g.relations) <= RelationLimit
  <2>1. g.relations = RelationIds(rows)
    BY CompileIs
  <2>2. Len(RelationIds(rows)) <= RelationLimit
    BY DEF Compilable, WidthsHold
  <2>3. Len(RelationIds(rows)) \in Nat
    BY RelationIdsAre
  <2>. QED
    BY <2>1, <2>2, <2>3
<1>10. \A j \in 1 .. m : codes[j] \in Nat /\ Coded(codes[j]) = codes[j]
  <2>1. \A c \in 0 .. Len(g.relations) - 1 : c \in Nat /\ c % (RelationLimit + 1) = c
    BY <1>9, WidthAssumption
  <2>. QED
    BY <1>5, <2>1 DEF Coded
<1>11. csr \in Arrays(offset, n, m) /\ Holds(csr, offset, from, to, codes, m)
  <2>1. to \in [1 .. m -> Nat]
    BY <1>6
  <2>2. codes \in [1 .. m -> Nat]
    BY <1>5, <1>10
  <2>. QED
    BY <1>2, <1>6, <1>7, <1>8, <2>1, <2>2, FilledIs
<1>12. csr.offsets = offset
  BY <1>11 DEF Arrays
<1>13. ASSUME NEW j \in 1 .. m
       PROVE  Reads(g, reverse, from[j], [target |-> to[j], relation |-> Coded(codes[j])]) = rows[j]
  <2>1. /\ g.entities[heads[j] + 1] = rows[j].head /\ g.entities[tails[j] + 1] = rows[j].tail
        /\ g.relations[codes[j] + 1] = rows[j].relation
    BY <1>1, <1>3 DEF Decoded
  <2>2. rows[j] = [head |-> rows[j].head, relation |-> rows[j].relation, tail |-> rows[j].tail]
    BY <1>2 DEF IsRows
  <2>3. Coded(codes[j]) = codes[j]
    BY <1>10
  <2>4. Reads(g, reverse, from[j], [target |-> to[j], relation |-> codes[j]])
          = [head |-> g.entities[heads[j] + 1], relation |-> g.relations[codes[j] + 1],
             tail |-> g.entities[tails[j] + 1]]
    BY <1>4 DEF Reads
  <2>. QED
    BY <2>1, <2>2, <2>3, <2>4
<1>14. ASSUME NEW triple
       PROVE  Copies(g, reverse, triple) = Cardinality({j \in 1 .. m : rows[j] = triple})
  <2>1. PICK J : J = RowsOf(rows, m, triple)
    OBVIOUS
  <2>2. PICK L : L = Found(csr, g, reverse, triple, n)
    OBVIOUS
  <2>3. L = Spots(offset, from, J)
    <3>1. ReadsBack(g, reverse, from, to, codes, rows, m)
      BY <1>13 DEF ReadsBack
    <3>2. Found(csr, g, reverse, triple, n) = Spots(offset, from, J)
      <4>1. /\ m \in Nat /\ n \in Nat /\ from \in [1 .. m -> 0 .. n - 1] /\ offset = Offsets(from, n)
            /\ csr.offsets = offset /\ Holds(csr, offset, from, to, codes, m)
            /\ ReadsBack(g, reverse, from, to, codes, rows, m) /\ J = RowsOf(rows, m, triple)
        BY <1>2, <1>6, <1>7, <1>11, <1>12, <2>1, <3>1
      <4>. QED
        BY ONLY <4>1, SpotsAre
    <3>. QED
      BY <2>2, <3>2
  <2>4. Cardinality(Spots(offset, from, J)) = Cardinality(J)
    BY <1>2, <1>6, <1>7, <2>1, SpotsCount, SMTT(60) DEF RowsOf
  <2>. DEFINE at(v) == {i \in DOMAIN Neighbors(csr, v) : Reads(g, reverse, v, Neighbors(csr, v)[i]) = triple}
  <2>5. Copies(g, reverse, triple) = Cardinality(UNION {{v} \X at(v) : v \in 0 .. n - 1})
    BY <1>1, <1>7 DEF Copies, Reads
  <2>6. \A v : DOMAIN Neighbors(csr, v) \subseteq Nat
    BY DEF Neighbors
  <2>7. UNION {{v} \X at(v) : v \in 0 .. n - 1} = L
    BY <2>2, <2>6 DEF Found
  <2>. QED
    BY <2>1, <2>3, <2>4, <2>5, <2>7 DEF RowsOf
<1>15. ValidateCsr(csr, n, m)
  <2>1. /\ offset[0] = 0 /\ offset[n] = m
        /\ \A v, w \in 0 .. n : v <= w => offset[v] <= offset[w]
    <3>1. /\ m \in Nat /\ n \in Nat /\ from \in [1 .. m -> 0 .. n - 1] /\ offset = Offsets(from, n)
      BY <1>2, <1>6, <1>7
    <3>2. \A v, w \in 0 .. n : v <= w => offset[v] <= offset[w]
      BY ONLY <3>1, OffsetFacts
    <3>3. offset[0] = 0
      BY ONLY <3>1, OffsetFacts
    <3>4. offset[n] = m
      BY ONLY <3>1, OffsetFacts
    <3>. QED
      BY <3>2, <3>3, <3>4
  <2>2. \A v \in 0 .. n - 1 : offset[v] <= offset[v + 1] /\ offset[v + 1] <= m
    <3>1. \A v \in 0 .. n - 1 : v \in 0 .. n /\ v + 1 \in 0 .. n /\ n \in 0 .. n /\ v <= v + 1 /\ v + 1 <= n
      BY <1>2
    <3>. QED
      BY <2>1, <3>1
  <2>. QED
    BY <1>12, <2>1, <2>2 DEF ValidateCsr
<1>. QED
  BY <1>1, <1>2, <1>7, <1>14, <1>15

\* A compilation answers with the compiled file or refuses it.
CompileInv ==
  job = "compile" =>
    /\ \E rows \in RowSets : input = [rows |-> rows]
    /\ answer # None /\ answer # [refused |-> TRUE] =>
         answer = Compile(input.rows) /\ Compilable(input.rows)

(* preprocess.py:58-95, graph.py:47-54: whatever the triple file and the widths of the
   columns, a compiled graph holds in both directions the triples of the file, each as
   often, and its arrays are valid. *)
THEOREM CompiledAlwaysExactly == Spec => []CompiledExactly
<1>1. Init => CompileInv
  BY DEF Init, CompileInv
<1>2. CompileInv /\ [Next]_vars => CompileInv'
  <2>. SUFFICES ASSUME CompileInv, [Next]_vars PROVE CompileInv'
    OBVIOUS
  <2>1. CASE RunCompile
    BY <2>1 DEF RunCompile, CompileInv
  <2>2. CASE RunNearest
    BY <2>2 DEF RunNearest, CompileInv
  <2>3. CASE RunExpand
    BY <2>3 DEF RunExpand, CompileInv
  <2>4. CASE RunBaselines
    BY <2>4 DEF RunBaselines, CompileInv
  <2>5. CASE UNCHANGED vars
    BY <2>5 DEF vars, CompileInv
  <2>. QED
    BY <2>1, <2>2, <2>3, <2>4, <2>5 DEF Next
<1>3. CompileInv => CompiledExactly
  <2>. SUFFICES ASSUME CompileInv, job = "compile", answer # None, answer # [refused |-> TRUE],
                       NEW reverse \in BOOLEAN
                PROVE  /\ \A i \in DOMAIN input.rows :
                            Copies(answer, reverse, input.rows[i])
                              = Cardinality({j \in DOMAIN input.rows : input.rows[j] = input.rows[i]})
                       /\ ValidateCsr(Direction(answer, reverse), answer.n, Len(input.rows))
    BY DEF CompiledExactly
  <2>1. PICK rows \in RowSets : input = [rows |-> rows]
    BY DEF CompileInv
  <2>2. input.rows = rows /\ IsRows(rows)
    BY <2>1, RowsAssumption
  <2>3. answer = Compile(rows) /\ Compilable(rows)
    BY <2>2 DEF CompileInv
  <2>. QED
    BY <2>2, <2>3, DirectionIs
<1>. QED
  BY <1>1, <1>2, <1>3, PTL DEF Spec

-----------------------------------------------------------------------------
(* The graph an expansion walks *)

\* Arrays an expansion may walk.
IsCsr(csr, n, m) ==
  /\ \A v \in 0 .. n : csr.offsets[v] \in 0 .. m
  /\ \A v \in 0 .. n - 1 : csr.offsets[v] <= csr.offsets[v + 1]
  /\ DOMAIN csr.targets = 0 .. m - 1
  /\ \A e \in 0 .. m - 1 : csr.targets[e] \in 0 .. n - 1

LEMMA FilledIsCsr ==
  ASSUME NEW m \in Nat, NEW n \in Nat, NEW from \in [1 .. m -> 0 .. n - 1], Len(from) = m,
         NEW to \in [1 .. m -> 0 .. n - 1], NEW codes \in [1 .. m -> Nat],
         NEW csr, csr = Filled(Offsets(from, n), from, to, codes)
  PROVE  IsCsr(csr, n, m)
<1>1. PICK offset : offset = Offsets(from, n)
  OBVIOUS
<1>2. csr \in Arrays(offset, n, m) /\ Holds(csr, offset, from, to, codes, m)
  <2>1. to \in [1 .. m -> Nat]
    OBVIOUS
  <2>. QED
    BY <1>1, <2>1, FilledIs
<1>3. csr.offsets = offset /\ DOMAIN csr.targets = 0 .. m - 1
  BY <1>2 DEF Arrays
<1>4. \A v, w \in 0 .. n : v <= w => offset[v] <= offset[w]
  BY <1>1, OffsetFacts
<1>5. offset[n] = m
  BY <1>1, OffsetFacts
<1>6. \A v \in 0 .. n : offset[v] \in Nat
  BY <1>1, OffsetsAre
<1>7. \A v \in 0 .. n : offset[v] \in 0 .. m
  <2>1. \A v \in 0 .. n : v <= n /\ n \in 0 .. n
    OBVIOUS
  <2>. QED
    BY <1>4, <1>5, <1>6, <2>1
<1>8. \A v \in 0 .. n - 1 : offset[v] <= offset[v + 1]
  <2>1. \A v \in 0 .. n - 1 : v \in 0 .. n /\ v + 1 \in 0 .. n /\ v <= v + 1
    OBVIOUS
  <2>. QED
    BY <1>4, <2>1
<1>9. ASSUME NEW e \in 0 .. m - 1 PROVE csr.targets[e] \in 0 .. n - 1
  <2>1. EveryPlace(offset, from, m)
    BY <1>1, PlacesAre
  <2>2. PICK j \in 1 .. m : Place(offset, from, j) = e
    BY <2>1 DEF EveryPlace
  <2>. QED
    BY <1>2, <2>2 DEF Holds
<1>. QED
  BY <1>3, <1>7, <1>8, <1>9 DEF IsCsr

GraphOk == \E m \in Nat : /\ graph.n \in Nat
                          /\ IsCsr(graph.forward, graph.n, m) /\ IsCsr(graph.reverse, graph.n, m)

LEMMA CompiledIsOk ==
  ASSUME NEW rows, IsRows(rows), graph = Compile(rows)
  PROVE  GraphOk
<1>1. PICK m, n : m = Len(rows) /\ n = graph.n
  OBVIOUS
<1>2. m \in Nat /\ n \in Nat
  BY <1>1, CompileIs
<1>3. PICK heads, tails, codes :
        Columns(rows, graph, heads, tails, codes) /\ Directions(graph, heads, tails, codes)
  BY CompileIs
<1>4. Len(graph.relations) \in Nat
  <2>1. graph.relations = RelationIds(rows)
    BY CompileIs
  <2>2. Len(RelationIds(rows)) \in Nat
    BY RelationIdsAre
  <2>. QED
    BY <2>1, <2>2
<1>5. /\ heads \in [1 .. m -> 0 .. n - 1] /\ tails \in [1 .. m -> 0 .. n - 1]
      /\ codes \in [1 .. m -> 0 .. Len(graph.relations) - 1] /\ Len(heads) = m /\ Len(tails) = m
  BY <1>1, <1>3 DEF Columns
<1>6. codes \in [1 .. m -> Nat]
  BY <1>4, <1>5
<1>7. /\ graph.forward = Filled(Offsets(heads, n), heads, tails, codes)
      /\ graph.reverse = Filled(Offsets(tails, n), tails, heads, codes)
  BY <1>1, <1>3 DEF Directions
<1>8. IsCsr(graph.forward, n, m)
  BY <1>2, <1>5, <1>6, <1>7, FilledIsCsr
<1>9. IsCsr(graph.reverse, n, m)
  BY <1>2, <1>5, <1>6, <1>7, FilledIsCsr
<1>. QED
  BY <1>1, <1>2, <1>8, <1>9 DEF GraphOk

-----------------------------------------------------------------------------
(* The edges of an expansion *)

\* The edges of a frontier entry.
Starts(csr, frontier, i) == csr.offsets[frontier[i]]
Stops(csr, frontier, i)  == csr.offsets[frontier[i] + 1]

\* What an expansion has to return, what of it the threads have passed, and what leads to v.
Due(csr, frontier, relation) ==
  {x \in (DOMAIN frontier) \X (DOMAIN csr.targets) :
     /\ x[2] \in Starts(csr, frontier, x[1]) .. Stops(csr, frontier, x[1]) - 1
     /\ relation \in {AnyRelation, csr.relations[x[2]]}}
Passed(S, next)         == {x \in S : x[2] < next[x[1]]}
Into(S, csr, v)         == {x \in S : csr.targets[x[2]] = v}
Holding(out, count, v)  == {p \in 0 .. count - 1 : out[p] = v}

Within(csr, frontier, n) == \A i \in DOMAIN frontier : frontier[i] \in 0 .. n - 1

LEMMA DueIsFinite ==
  ASSUME NEW m \in Nat, NEW n \in Nat, NEW csr, IsCsr(csr, n, m), NEW frontier \in Seq(Nat), NEW relation
  PROVE  IsFiniteSet(Due(csr, frontier, relation))
<1>1. PICK k \in Nat : k = Len(frontier) /\ DOMAIN frontier = 1 .. k
  OBVIOUS
<1>2. IsFiniteSet(1 .. k) /\ IsFiniteSet(0 .. m - 1)
  <2>1. 1 \in Int /\ k \in Int /\ 0 \in Int /\ m - 1 \in Int
    OBVIOUS
  <2>. QED
    BY <2>1, FS_Interval
<1>3. IsFiniteSet((1 .. k) \X (0 .. m - 1))
  BY <1>2, FS_Product
<1>4. Due(csr, frontier, relation) \subseteq (1 .. k) \X (0 .. m - 1)
  BY <1>1 DEF Due, IsCsr
<1>. QED
  BY <1>3, <1>4, FS_Subset

\* A thread that takes one edge has passed that edge and no other.
PassesOne(S, next, after, x) ==
  /\ x \in S => Passed(S, after) = Passed(S, next) \cup {x} /\ x \notin Passed(S, next)
  /\ x \notin S => Passed(S, after) = Passed(S, next)

LEMMA PassOne ==
  ASSUME NEW D, NEW T, T \subseteq Nat, NEW S, S \subseteq D \X T, NEW next \in [D -> Nat], NEW i \in D,
         NEW e \in T, e = next[i], NEW after, after = [next EXCEPT ![i] = e + 1]
  PROVE  PassesOne(S, next, after, <<i, e>>)
<1>1. ASSUME NEW x \in S PROVE x \in Passed(S, after) <=> x \in Passed(S, next) \/ x = <<i, e>>
  <2>1. PICK j \in D, f \in T : x = <<j, f>>
    <3>1. x \in D \X T
      OBVIOUS
    <3>2. x = <<x[1], x[2]>> /\ x[1] \in D /\ x[2] \in T
      BY ONLY <3>1
    <3>. QED
      BY ONLY <3>2
  <2>2. x[1] = j /\ x[2] = f /\ (x = <<i, e>> <=> j = i /\ f = e)
    BY <2>1
  <2>3. f \in Nat /\ e \in Nat
    OBVIOUS
  <2>4. CASE j = i
    <3>1. after[j] = e + 1 /\ next[j] = e
      BY <2>4
    <3>2. f < e + 1 <=> f < e \/ f = e
      BY <2>3
    <3>. QED
      BY <2>2, <2>4, <3>1, <3>2 DEF Passed
  <2>5. CASE j # i
    <3>1. after[j] = next[j]
      BY <2>5
    <3>. QED
      BY <2>2, <2>5, <3>1 DEF Passed
  <2>. QED
    BY <2>4, <2>5
<1>2. <<i, e>> \notin Passed(S, next)
  <2>1. ~ (e < next[i])
    OBVIOUS
  <2>. QED
    BY <2>1 DEF Passed
<1>. QED
  BY <1>1, <1>2 DEF Passed, PassesOne

\* Once the threads are done they have passed every edge.
LEMMA PassedAll ==
  ASSUME NEW csr, NEW frontier, NEW relation, NEW next,
         \A i \in DOMAIN frontier : next[i] = Stops(csr, frontier, i) /\ next[i] \in Int
                                    /\ Starts(csr, frontier, i) \in Int
  PROVE  Passed(Due(csr, frontier, relation), next) = Due(csr, frontier, relation)
<1>1. ASSUME NEW x \in Due(csr, frontier, relation) PROVE x[2] < next[x[1]]
  <2>1. PICK i \in DOMAIN frontier : x[1] = i /\ x[2] \in Starts(csr, frontier, i) .. Stops(csr, frontier, i) - 1
    BY DEF Due
  <2>2. PICK a \in Int, b \in Int : a = Starts(csr, frontier, i) /\ b = Stops(csr, frontier, i) /\ next[i] = b
    OBVIOUS
  <2>. QED
    BY <2>1, <2>2
<1>. QED
  BY <1>1 DEF Passed

\* A result of one place less, and where its places have gone.
\* The list that is returned holds what the buffer holds, from place 1 on.
Listed(output, v) == {p \in DOMAIN output : output[p] = v}
FromZero(output, count, out) == output = [p \in 1 .. count |-> out[p - 1]]

LEMMA ShiftCount ==
  ASSUME NEW count \in Nat, NEW out, NEW v, NEW output, FromZero(output, count, out)
  PROVE  Cardinality(Listed(output, v)) = Cardinality(Holding(out, count, v))
<1>. USE DEF Listed, FromZero
<1>1. PICK J : J = {p \in DOMAIN output : output[p] = v}
  OBVIOUS
<1>2. PICK f : f = [p \in J |-> p - 1]
  OBVIOUS
<1>3. J \subseteq 1 .. count /\ IsFiniteSet(J)
  BY <1>1, CountPart
<1>4. \A p, q \in J : f[p] = f[q] => p = q
  BY <1>2, <1>3
<1>5. f = [p \in J |-> f[p]]
  BY <1>2
<1>6. {f[p] : p \in J} = Holding(out, count, v)
  <2>1. ASSUME NEW q \in 0 .. count - 1, out[q] = v PROVE q + 1 \in J /\ f[q + 1] = q
    <3>1. q + 1 \in 1 .. count /\ (q + 1) - 1 = q
      OBVIOUS
    <3>. QED
      BY <1>1, <1>2, <2>1, <3>1
  <2>2. ASSUME NEW p \in J PROVE f[p] \in 0 .. count - 1 /\ out[f[p]] = v
    BY <1>1, <1>2, <1>3
  <2>. QED
    BY <2>1, <2>2 DEF Holding
<1>7. Cardinality({f[p] : p \in J}) = Cardinality(J)
  BY ONLY <1>3, <1>4, <1>5, ImageCount
<1>. QED
  BY <1>1, <1>6, <1>7

-----------------------------------------------------------------------------
(* The threads of one kernel *)

KernelType(frontier, cap) ==
  [next : [DOMAIN frontier -> Nat], count : Nat, out : [0 .. cap - 1 -> Nat \cup {None}]]

\* The threads are within their edges and what they have passed is counted ...
Counted(csr, frontier, relation, k) ==
  /\ \A i \in DOMAIN frontier : k.next[i] \in Starts(csr, frontier, i) .. Stops(csr, frontier, i)
  /\ k.count = Cardinality(Passed(Due(csr, frontier, relation), k.next))

\* ... and, in the second pass, written.
Filling(csr, frontier, relation, n, k, cap) ==
  /\ k.count <= cap
  /\ \A p \in 0 .. k.count - 1 : k.out[p] \in 0 .. n - 1
  /\ \A v \in 0 .. n - 1 :
       Cardinality(Holding(k.out, k.count, v))
         = Cardinality(Into(Passed(Due(csr, frontier, relation), k.next), csr, v))

NewKernel(csr, frontier, cap) ==
  [next  |-> [i \in DOMAIN frontier |-> csr.offsets[frontier[i]]],
   count |-> 0, out |-> [p \in 0 .. cap - 1 |-> None]]

\* A thread starts at the first edge of its node.
LEMMA KernelStarts ==
  ASSUME NEW m \in Nat, NEW n \in Nat, NEW csr, IsCsr(csr, n, m), NEW frontier \in Seq(Nat),
         Within(csr, frontier, n), NEW relation, NEW cap \in Nat,
         NEW k, k = NewKernel(csr, frontier, cap)
  PROVE  /\ k \in KernelType(frontier, cap) /\ Counted(csr, frontier, relation, k)
         /\ Filling(csr, frontier, relation, n, k, cap)
<1>1. /\ k.next = [i \in DOMAIN frontier |-> csr.offsets[frontier[i]]] /\ k.count = 0
      /\ k.out = [p \in 0 .. cap - 1 |-> None]
      /\ k = [next |-> k.next, count |-> k.count, out |-> k.out]
  BY DEF NewKernel
<1>2. ASSUME NEW i \in DOMAIN frontier
      PROVE  /\ k.next[i] = Starts(csr, frontier, i) /\ k.next[i] \in Nat
             /\ Stops(csr, frontier, i) \in Nat /\ Starts(csr, frontier, i) <= Stops(csr, frontier, i)
  <2>1. PICK v \in 0 .. n - 1 : v = frontier[i]
    BY DEF Within
  <2>2. v \in 0 .. n /\ v + 1 \in 0 .. n
    OBVIOUS
  <2>3. csr.offsets[v] \in 0 .. m /\ csr.offsets[v + 1] \in 0 .. m /\ csr.offsets[v] <= csr.offsets[v + 1]
    BY <2>2 DEF IsCsr
  <2>4. csr.offsets[v] \in Nat /\ csr.offsets[v + 1] \in Nat
    BY <2>3
  <2>5. k.next[i] = csr.offsets[v]
    BY <1>1, <2>1
  <2>6. Starts(csr, frontier, i) = csr.offsets[v] /\ Stops(csr, frontier, i) = csr.offsets[v + 1]
    BY <2>1 DEF Starts, Stops
  <2>. QED
    BY ONLY <2>3, <2>4, <2>5, <2>6
<1>3. k.next \in [DOMAIN frontier -> Nat]
  BY <1>1, <1>2
<1>4. k \in KernelType(frontier, cap)
  <2>1. [p \in 0 .. cap - 1 |-> None] \in [0 .. cap - 1 -> Nat \cup {None}]
    OBVIOUS
  <2>2. k.count \in Nat /\ k.out \in [0 .. cap - 1 -> Nat \cup {None}]
    BY <1>1, <2>1
  <2>. QED
    BY <1>1, <1>3, <2>2 DEF KernelType
<1>5. Passed(Due(csr, frontier, relation), k.next) = {}
  <2>. SUFFICES ASSUME NEW x \in Due(csr, frontier, relation) PROVE ~ (x[2] < k.next[x[1]])
    BY DEF Passed
  <2>1. PICK i \in DOMAIN frontier : x[1] = i /\ x[2] \in Starts(csr, frontier, i) .. Stops(csr, frontier, i) - 1
    BY DEF Due
  <2>2. PICK a \in Nat, b \in Nat : a = Starts(csr, frontier, i) /\ b = Stops(csr, frontier, i) /\ k.next[i] = a
    BY <1>2
  <2>. QED
    BY <2>1, <2>2
<1>6. Counted(csr, frontier, relation, k)
  <2>1. \A i \in DOMAIN frontier : k.next[i] \in Starts(csr, frontier, i) .. Stops(csr, frontier, i)
    BY <1>2
  <2>. QED
    BY <1>1, <1>5, <2>1, FS_EmptySet DEF Counted
<1>7. Filling(csr, frontier, relation, n, k, cap)
  <2>1. \A v : Holding(k.out, 0, v) = {} /\ Into({}, csr, v) = {}
    BY DEF Holding, Into
  <2>2. k.count = 0 /\ 0 <= cap /\ \A p \in 0 .. 0 - 1 : FALSE
    BY <1>1
  <2>3. \A v : Holding(k.out, k.count, v) = {}
               /\ Into(Passed(Due(csr, frontier, relation), k.next), csr, v) = {}
    BY <1>5, <2>1, <2>2
  <2>. QED
    BY <2>2, <2>3 DEF Filling
<1>. QED
  BY <1>4, <1>6, <1>7

\* One edge of one thread.
Advanced(k, i, wanted, target) ==
  [k EXCEPT !.next[i] = k.next[i] + 1,
            !.count   = IF wanted THEN k.count + 1 ELSE @,
            !.out     = IF wanted /\ k.count \in DOMAIN @ THEN [@ EXCEPT ![k.count] = target] ELSE @]

AdvancesBy(after, k, i, wanted, target) ==
  /\ after.next = [k.next EXCEPT ![i] = k.next[i] + 1]
  /\ after.count = IF wanted THEN k.count + 1 ELSE k.count
  /\ after.out = IF wanted /\ k.count \in DOMAIN k.out THEN [k.out EXCEPT ![k.count] = target] ELSE k.out

LEMMA AdvancedIs ==
  ASSUME NEW frontier, NEW cap, NEW k \in KernelType(frontier, cap), NEW i \in DOMAIN frontier,
         NEW wanted \in BOOLEAN, NEW target \in Nat, NEW after, after = Advanced(k, i, wanted, target)
  PROVE  after \in KernelType(frontier, cap) /\ AdvancesBy(after, k, i, wanted, target)
<1>1. /\ k = [next |-> k.next, count |-> k.count, out |-> k.out]
      /\ k.next \in [DOMAIN frontier -> Nat] /\ k.count \in Nat /\ k.out \in [0 .. cap - 1 -> Nat \cup {None}]
  BY DEF KernelType
<1>2. PICK next, count, out :
        /\ next = [k.next EXCEPT ![i] = k.next[i] + 1]
        /\ count = IF wanted THEN k.count + 1 ELSE k.count
        /\ out = IF wanted /\ k.count \in DOMAIN k.out THEN [k.out EXCEPT ![k.count] = target] ELSE k.out
  OBVIOUS
<1>3. after = [next |-> next, count |-> count, out |-> out]
  BY <1>1, <1>2 DEF Advanced
<1>4. next \in [DOMAIN frontier -> Nat] /\ count \in Nat
  BY <1>1, <1>2
<1>5. out \in [0 .. cap - 1 -> Nat \cup {None}]
  <2>1. PICK o \in [0 .. cap - 1 -> Nat \cup {None}], c \in Nat : o = k.out /\ c = k.count
    BY <1>1
  <2>2. [o EXCEPT ![c] = target] \in [0 .. cap - 1 -> Nat \cup {None}]
    OBVIOUS
  <2>. QED
    BY <1>2, <2>1, <2>2
<1>. QED
  BY <1>2, <1>3, <1>4, <1>5 DEF KernelType, AdvancesBy

StillCounted(csr, frontier, relation, n, cap, k, after) ==
  /\ after \in KernelType(frontier, cap) /\ Counted(csr, frontier, relation, after)
  /\ Filling(csr, frontier, relation, n, k, cap) /\ Cardinality(Due(csr, frontier, relation)) <= cap
       => Filling(csr, frontier, relation, n, after, cap)

LEMMA KernelAdvances ==
  ASSUME NEW m \in Nat, NEW n \in Nat, NEW csr, IsCsr(csr, n, m), NEW frontier \in Seq(Nat),
         Within(csr, frontier, n), NEW relation, NEW cap \in Nat,
         NEW k \in KernelType(frontier, cap), Counted(csr, frontier, relation, k),
         NEW i \in DOMAIN frontier, k.next[i] < Stops(csr, frontier, i),
         NEW wanted \in BOOLEAN, wanted <=> relation \in {AnyRelation, csr.relations[k.next[i]]},
         NEW target, target = csr.targets[k.next[i]],
         NEW after, after = Advanced(k, i, wanted, target)
  PROVE  StillCounted(csr, frontier, relation, n, cap, k, after)
<1>1. PICK S : S = Due(csr, frontier, relation)
  OBVIOUS
<1>2. IsFiniteSet(S)
  BY <1>1, DueIsFinite
<1>3. k.next \in [DOMAIN frontier -> Nat] /\ k.count \in Nat /\ k.out \in [0 .. cap - 1 -> Nat \cup {None}]
  BY DEF KernelType
<1>4. PICK e \in Nat : e = k.next[i]
  BY <1>3
<1>5. /\ Starts(csr, frontier, i) \in 0 .. m /\ Stops(csr, frontier, i) \in 0 .. m
      /\ Starts(csr, frontier, i) <= e /\ e < Stops(csr, frontier, i)
  <2>1. PICK v \in 0 .. n - 1 : v = frontier[i]
    BY DEF Within
  <2>2. v \in 0 .. n /\ v + 1 \in 0 .. n
    OBVIOUS
  <2>3. csr.offsets[v] \in 0 .. m /\ csr.offsets[v + 1] \in 0 .. m
    BY <2>2 DEF IsCsr
  <2>4. e \in Starts(csr, frontier, i) .. Stops(csr, frontier, i)
    BY <1>4 DEF Counted
  <2>5. PICK a \in 0 .. m, b \in 0 .. m : a = Starts(csr, frontier, i) /\ b = Stops(csr, frontier, i)
    BY <2>1, <2>3 DEF Starts, Stops
  <2>. QED
    BY <1>4, <2>4, <2>5
<1>6. e \in 0 .. m - 1 /\ e \in DOMAIN csr.targets /\ target \in 0 .. n - 1
  <2>1. e \in 0 .. m - 1
    BY <1>5
  <2>. QED
    BY <1>4, <2>1 DEF IsCsr
<1>7. /\ after \in KernelType(frontier, cap)
      /\ after.next = [k.next EXCEPT ![i] = e + 1]
      /\ after.count = IF wanted THEN k.count + 1 ELSE k.count
      /\ after.out = IF wanted /\ k.count \in DOMAIN k.out THEN [k.out EXCEPT ![k.count] = target] ELSE k.out
  <2>1. target \in Nat
    BY <1>6
  <2>2. after \in KernelType(frontier, cap) /\ AdvancesBy(after, k, i, wanted, target)
    BY <2>1, AdvancedIs
  <2>. QED
    BY <1>4, <2>2 DEF AdvancesBy
<1>8. <<i, e>> \in S <=> wanted
  <2>1. e \in Starts(csr, frontier, i) .. Stops(csr, frontier, i) - 1
    BY <1>5
  <2>. QED
    BY <1>1, <1>4, <1>6, <2>1 DEF Due
<1>9. S \subseteq (DOMAIN frontier) \X (0 .. m - 1)
  BY <1>1 DEF Due, IsCsr
<1>10. /\ wanted => /\ Passed(S, after.next) = Passed(S, k.next) \cup {<<i, e>>}
                    /\ <<i, e>> \notin Passed(S, k.next)
       /\ ~ wanted => Passed(S, after.next) = Passed(S, k.next)
  <2>1. PICK D, T, next, then : /\ D = DOMAIN frontier /\ T = 0 .. m - 1
                                /\ next = k.next /\ then = after.next
    OBVIOUS
  <2>2. /\ T \subseteq Nat /\ S \subseteq D \X T /\ next \in [D -> Nat] /\ i \in D /\ e \in T /\ e = next[i]
        /\ then = [next EXCEPT ![i] = e + 1]
    BY <1>3, <1>4, <1>6, <1>7, <1>9, <2>1, SMTT(60)
  <2>3. PassesOne(S, next, then, <<i, e>>)
    BY ONLY <2>2, PassOne
  <2>. QED
    BY <1>8, <2>1, <2>3 DEF PassesOne
<1>11. IsFiniteSet(Passed(S, k.next)) /\ Cardinality(Passed(S, k.next)) \in Nat
       /\ k.count = Cardinality(Passed(S, k.next))
  <2>1. Passed(S, k.next) \subseteq S
    BY DEF Passed
  <2>. QED
    BY <1>1, <1>2, <2>1, FS_Subset, FS_CardinalityType DEF Counted
<1>12. after.count = Cardinality(Passed(S, after.next))
  <2>1. CASE wanted
    <3>1. Cardinality(Passed(S, k.next) \cup {<<i, e>>}) = Cardinality(Passed(S, k.next)) + 1
      BY <1>10, <1>11, <2>1, CountOne
    <3>. QED
      BY <1>7, <1>10, <1>11, <2>1, <3>1
  <2>2. CASE ~ wanted
    BY <1>7, <1>10, <1>11, <2>2
  <2>. QED
    BY <2>1, <2>2
<1>13. Counted(csr, frontier, relation, after)
  <2>. SUFFICES ASSUME NEW j \in DOMAIN frontier
                PROVE  after.next[j] \in Starts(csr, frontier, j) .. Stops(csr, frontier, j)
    BY <1>1, <1>12 DEF Counted
  <2>1. k.next[j] \in Starts(csr, frontier, j) .. Stops(csr, frontier, j)
    BY DEF Counted
  <2>2. CASE j = i
    <3>1. after.next[j] = e + 1
      BY <1>3, <1>7, <2>2
    <3>2. e + 1 \in Starts(csr, frontier, i) .. Stops(csr, frontier, i)
      BY <1>5
    <3>. QED
      BY <2>2, <3>1, <3>2
  <2>3. CASE j # i
    BY <1>3, <1>7, <2>1, <2>3
  <2>. QED
    BY <2>2, <2>3
<1>14. ASSUME Filling(csr, frontier, relation, n, k, cap), Cardinality(S) <= cap
       PROVE  Filling(csr, frontier, relation, n, after, cap)
  <2>1. CASE ~ wanted
    BY <1>1, <1>7, <1>10, <1>14, <2>1 DEF Filling
  <2>2. CASE wanted
    <3>1. PICK c \in Nat : c = k.count /\ after.count = c + 1
      BY <1>3, <1>7, <2>2
    <3>2. c + 1 <= cap
      <4>1. Passed(S, after.next) \subseteq S
        BY DEF Passed
      <4>2. Cardinality(Passed(S, after.next)) <= Cardinality(S)
        BY <1>2, <4>1, FS_Subset
      <4>3. Cardinality(S) \in Nat /\ c + 1 = Cardinality(Passed(S, after.next))
        BY <1>2, <1>12, <3>1, FS_CardinalityType
      <4>. QED
        BY <1>14, <4>2, <4>3
    <3>3. after.out = [k.out EXCEPT ![c] = target] /\ c \in 0 .. cap - 1
      BY <1>3, <1>7, <2>2, <3>1, <3>2, SMTT(60)
    <3>4. after.out[c] = target /\ \A p \in 0 .. c - 1 : after.out[p] = k.out[p]
      BY <1>3, <3>2, <3>3, SMTT(60)
    <3>5. ASSUME NEW p \in 0 .. (c + 1) - 1 PROVE after.out[p] \in 0 .. n - 1
      <4>1. p = c \/ p \in 0 .. c - 1
        OBVIOUS
      <4>2. \A q \in 0 .. c - 1 : k.out[q] \in 0 .. n - 1
        BY <1>14, <3>1 DEF Filling
      <4>. QED
        BY <1>6, <3>4, <4>1, <4>2
    <3>6. ASSUME NEW v \in 0 .. n - 1
          PROVE  Cardinality(Holding(after.out, c + 1, v)) = Cardinality(Into(Passed(S, after.next), csr, v))
      <4>1. Cardinality(Holding(k.out, c, v)) = Cardinality(Into(Passed(S, k.next), csr, v))
        BY <1>1, <1>14, <3>1 DEF Filling
      <4>2. IsFiniteSet(Into(Passed(S, k.next), csr, v))
        <5>1. Into(Passed(S, k.next), csr, v) \subseteq Passed(S, k.next)
          BY DEF Into
        <5>. QED
          BY <1>11, <5>1, FS_Subset
      <4>3. IsFiniteSet(Holding(k.out, c, v))
        <5>1. IsFiniteSet(0 .. c - 1)
          <6>1. 0 \in Int /\ c - 1 \in Int
            OBVIOUS
          <6>. QED
            BY <6>1, FS_Interval
        <5>2. Holding(k.out, c, v) \subseteq 0 .. c - 1
          BY DEF Holding
        <5>. QED
          BY <5>1, <5>2, FS_Subset
      <4>4. CASE target = v
        <5>1. Into(Passed(S, after.next), csr, v) = Into(Passed(S, k.next), csr, v) \cup {<<i, e>>}
              /\ <<i, e>> \notin Into(Passed(S, k.next), csr, v)
          <6>1. <<i, e>>[2] = e /\ csr.targets[e] = target
            BY <1>4
          <6>. QED
            BY <1>10, <2>2, <4>4, <6>1 DEF Into
        <5>2. Holding(after.out, c + 1, v) = Holding(k.out, c, v) \cup {c} /\ c \notin Holding(k.out, c, v)
          <6>1. \A p : p \in 0 .. (c + 1) - 1 <=> p = c \/ p \in 0 .. c - 1
            OBVIOUS
          <6>2. c \notin 0 .. c - 1
            OBVIOUS
          <6>. QED
            BY <3>4, <4>4, <6>1, <6>2 DEF Holding
        <5>3. Cardinality(Holding(k.out, c, v) \cup {c}) = Cardinality(Holding(k.out, c, v)) + 1
          BY <4>3, <5>2, CountOne
        <5>4. Cardinality(Into(Passed(S, k.next), csr, v) \cup {<<i, e>>}) = Cardinality(Into(Passed(S, k.next), csr, v)) + 1
          BY <4>2, <5>1, CountOne
        <5>. QED
          BY <4>1, <5>1, <5>2, <5>3, <5>4
      <4>5. CASE target # v
        <5>1. Into(Passed(S, after.next), csr, v) = Into(Passed(S, k.next), csr, v)
          <6>1. <<i, e>>[2] = e /\ csr.targets[e] = target
            BY <1>4
          <6>. QED
            BY <1>10, <2>2, <4>5, <6>1 DEF Into
        <5>2. Holding(after.out, c + 1, v) = Holding(k.out, c, v)
          <6>1. \A p : p \in 0 .. (c + 1) - 1 <=> p = c \/ p \in 0 .. c - 1
            OBVIOUS
          <6>2. c \notin 0 .. c - 1
            OBVIOUS
          <6>. QED
            BY <3>4, <4>5, <6>1, <6>2 DEF Holding
        <5>. QED
          BY <4>1, <5>1, <5>2
      <4>. QED
        BY <4>4, <4>5
    <3>. QED
      BY <1>1, <3>1, <3>2, <3>5, <3>6 DEF Filling
  <2>. QED
    BY <2>1, <2>2
<1>. QED
  BY <1>1, <1>7, <1>13, <1>14 DEF StillCounted

-----------------------------------------------------------------------------
(* An expansion: the session, the call, the library, its kernel and the device *)

CallType == [pc : {"idle", "probe", "fill", "done"}, resident : BOOLEAN, reverse : BOOLEAN,
             frontier : Seq(Nat), relation : Codes, capacity : Nat \cup {None}, required : Nat,
             output : Seq(Nat)]

NativeType == [pc : {"none", "allocate", "copy", "run", "free"},
               stage : {"session", "graph", "call"}, at : Nat,
               ptrs : SUBSET (SessionBuffers \cup GraphBuffers \cup CallBuffers),
               status : {"ok", "error"}, count : Nat, out : Seq(Nat)]

\* What the probe has counted is what there is to return.
CallOk ==
  /\ call \in CallType
  /\ call.pc = "idle" => ~ call.resident
  /\ call.pc \in {"probe", "fill"} => call.output = << >>
  /\ call.pc = "fill" =>
       /\ call.required = Cardinality(Due(Csr, call.frontier, call.relation))
       /\ call.capacity # None => call.required <= call.capacity

\* The library runs for a session or for a call, and a kernel for a call.
FlowOk ==
  /\ session \in {"none", "open", "closed"} /\ native \in NativeType /\ native.at \in 1 .. 4
  /\ call.resident => session = "open"
  /\ native.pc = "none" => native = NoNative
  /\ native.pc # "none" /\ native.stage = "session" => session # "open" /\ call.pc = "idle"
  /\ native.pc # "none" /\ native.stage # "session" =>
       call.pc \in {"probe", "fill"} /\ call.frontier # << >> /\ Within(Csr, call.frontier, graph.n)
  /\ native.pc # "none" /\ native.stage = "graph" => ~ call.resident
  /\ native.pc = "copy" => native.at # 4
  /\ native.pc = "run" => native.stage = "call" /\ native.at = 4
  /\ native.pc = "run" <=> kernel # NoKernel

\* The first n buffers of a stage.
First(stage, n) == {Buffers[stage][j] : j \in 1 .. n}

Held  == IF session = "open" THEN SessionBuffers ELSE {}
Outer == IF native.stage = "call" /\ ~ call.resident THEN GraphBuffers ELSE {}
InHand == IF native.pc = "copy" THEN native.at ELSE native.at - 1

\* The device holds the open session and what the library has pointers to.
DeviceOk ==
  /\ native.pc = "none" => device = Held
  /\ native.pc \in {"allocate", "copy", "run"} =>
       /\ native.ptrs = Outer \cup First(native.stage, InHand)
       /\ device = Held \cup native.ptrs
  /\ native.pc = "free" =>
       /\ native.ptrs \subseteq Outer \cup First(native.stage, 3)
       /\ device = Held \cup (native.ptrs \ First(native.stage, native.at - 1))

KernelOk ==
  kernel # NoKernel =>
    /\ kernel \in KernelType(call.frontier, Capacity)
    /\ Counted(Csr, call.frontier, call.relation, kernel)
    /\ call.pc = "fill" => Filling(Csr, call.frontier, call.relation, graph.n, kernel, Capacity)

\* What a pass brings back: the edges counted, and listed if there is room for them.
PassResult(csr, frontier, relation, n, pc, count, out) ==
  /\ count = Cardinality(Due(csr, frontier, relation))
  /\ pc = "fill" =>
       /\ DOMAIN out = 1 .. count /\ \A p \in 1 .. count : out[p] \in 0 .. n - 1
       /\ \A v \in 0 .. n - 1 :
            Cardinality(Listed(out, v)) = Cardinality(Into(Due(csr, frontier, relation), csr, v))

Brought == native.pc = "free" /\ native.status = "ok" /\ call.pc # "idle"
ResultOk ==
  Brought =>
    PassResult(Csr, call.frontier, call.relation, graph.n, call.pc, native.count, native.out)

Expansion ==
  GraphOk /\ CallOk /\ FlowOk /\ DeviceOk /\ KernelOk /\ ResultOk /\ ExpandExact

CudaInv ==
  /\ cudaCalls \in 0 .. MaxCalls /\ cudaFaults \in 0 .. MaxFaults
  /\ job = "expand" => Expansion
  /\ job # "expand" =>
       session = "none" /\ call = NoCall /\ native = NoNative /\ kernel = NoKernel /\ device = {}

LEMMA NoCallIs ==
  /\ NoCall \in CallType
  /\ NoCall.pc = "idle" /\ NoCall.resident = FALSE /\ NoCall.output = << >> /\ NoCall.frontier = << >>
BY DEF NoCall, CallType, Codes, AnyRelation

LEMMA NoNativeIs ==
  /\ NoNative \in NativeType /\ NoNative.pc = "none" /\ NoNative.at = 1 /\ NoNative.ptrs = {}
  /\ NoNative.status = "ok" /\ NoNative.count = 0 /\ NoNative.out = << >>
BY DEF NoNative, NativeType

LEMMA CapacityIsNat ==
  ASSUME call \in CallType
  PROVE  Capacity \in Nat
BY CudaAssumption DEF CallType, Capacity

\* The direction of a call is a sound one.
LEMMA CsrIs ==
  ASSUME GraphOk, call \in CallType
  PROVE  \E m \in Nat : graph.n \in Nat /\ IsCsr(Csr, graph.n, m)
<1>1. call.reverse \in BOOLEAN
  BY DEF CallType
<1>. QED
  BY <1>1 DEF GraphOk, Csr, Direction

\* The stages have three buffers each, and none in common.
LEMMA StageIs ==
  ASSUME NEW stage \in {"session", "graph", "call"}
  PROVE  /\ Len(Buffers[stage]) = 3 /\ Cleanup(stage) = Buffers[stage]
         /\ First(stage, 0) = {}
         /\ stage = "session" => First(stage, 3) = SessionBuffers
         /\ stage = "graph" => First(stage, 3) = GraphBuffers
         /\ stage = "call" => First(stage, 3) = CallBuffers
<1>1. CASE stage = "session"
  <2>1. Buffers[stage] = <<"session.offsets", "session.targets", "session.relations">>
    BY <1>1 DEF Buffers
  <2>. QED
    BY <1>1, <2>1 DEF First, SessionBuffers, Cleanup
<1>2. CASE stage = "graph"
  <2>1. Buffers[stage] = <<"offsets", "targets", "relations">>
    BY <1>2 DEF Buffers
  <2>. QED
    BY <1>2, <2>1 DEF First, GraphBuffers, Cleanup
<1>3. CASE stage = "call"
  <2>1. Buffers[stage] = <<"frontier", "output", "count">>
    BY <1>3 DEF Buffers
  <2>. QED
    BY <1>3, <2>1 DEF First, CallBuffers, Cleanup
<1>. QED
  BY <1>1, <1>2, <1>3

\* One buffer more.
LEMMA FirstIs ==
  ASSUME NEW stage \in {"session", "graph", "call"}, NEW at \in 1 .. 3
  PROVE  /\ First(stage, at) = First(stage, at - 1) \cup {Buffers[stage][at]}
         /\ Buffers[stage][at] \notin First(stage, at - 1)
         /\ First(stage, at) \subseteq First(stage, 3)
         /\ First(stage, at - 1) \subseteq First(stage, 3)
<1>1. PICK a, b, c : Buffers[stage] = <<a, b, c>> /\ a # b /\ b # c /\ a # c
  BY DEF Buffers
<1>2. Buffers[stage][1] = a /\ Buffers[stage][2] = b /\ Buffers[stage][3] = c
  BY <1>1
<1>3. /\ First(stage, 0) = {} /\ First(stage, 1) = {a} /\ First(stage, 2) = {a, b}
      /\ First(stage, 3) = {a, b, c}
  <2>1. 1 .. 0 = {} /\ 1 .. 1 = {1} /\ 1 .. 2 = {1, 2} /\ 1 .. 3 = {1, 2, 3}
    OBVIOUS
  <2>. QED
    BY <1>2, <2>1 DEF First
<1>4. at = 1 \/ at = 2 \/ at = 3
  OBVIOUS
<1>. QED
  BY <1>1, <1>2, <1>3, <1>4

LEMMA Apart ==
  /\ SessionBuffers \cap GraphBuffers = {} /\ SessionBuffers \cap CallBuffers = {}
  /\ GraphBuffers \cap CallBuffers = {}
BY DEF SessionBuffers, GraphBuffers, CallBuffers

\* The buffers of the library are not those of an open session.
LEMMA NotHeld ==
  ASSUME FlowOk, native.pc # "none"
  PROVE  (Outer \cup First(native.stage, 3)) \cap Held = {}
<1>1. native.stage \in {"session", "graph", "call"}
  BY DEF FlowOk, NativeType
<1>2. CASE native.stage = "session"
  BY <1>2 DEF FlowOk, Held
<1>3. CASE native.stage = "graph"
  BY <1>3, StageIs, Apart DEF Held, Outer
<1>4. CASE native.stage = "call"
  BY <1>4, StageIs, Apart DEF Held, Outer
<1>. QED
  BY <1>1, <1>2, <1>3, <1>4

LEMMA StageBuffers ==
  ASSUME native \in NativeType
  PROVE  /\ Len(Buffers[native.stage]) = 3 /\ Cleanup(native.stage) = Buffers[native.stage]
         /\ First(native.stage, 0) = {}
         /\ native.at \in 1 .. 3 =>
              /\ First(native.stage, native.at)
                   = First(native.stage, native.at - 1) \cup {Buffers[native.stage][native.at]}
              /\ Buffers[native.stage][native.at] \notin First(native.stage, native.at - 1)
              /\ First(native.stage, native.at) \subseteq First(native.stage, 3)
              /\ First(native.stage, native.at - 1) \subseteq First(native.stage, 3)
<1>1. native.stage \in {"session", "graph", "call"}
  BY DEF NativeType
<1>. QED
  BY <1>1, StageIs, FirstIs

-----------------------------------------------------------------------------
(* The steps of the library *)

\* A step of the library that leaves the call and the kernel alone.
LEMMA LibraryKeeps ==
  ASSUME Expansion, UNCHANGED <<graph, call, kernel>>, FlowOk', DeviceOk',
         Brought' => Brought /\ native'.count = native.count /\ native'.out = native.out
  PROVE  Expansion'
<1>1. Csr' = Csr /\ Capacity' = Capacity
  BY DEF Csr, Capacity
<1>2. \A v : Traversed(v)' = Traversed(v)
  BY <1>1 DEF Traversed
<1>3. GraphOk'
  BY DEF Expansion, GraphOk
<1>4. CallOk'
  BY <1>1 DEF Expansion, CallOk
<1>5. KernelOk'
  BY <1>1 DEF Expansion, KernelOk
<1>6. ResultOk'
  BY <1>1 DEF Expansion, ResultOk
<1>7. ExpandExact'
  BY <1>2 DEF Expansion, ExpandExact
<1>. QED
  BY <1>3, <1>4, <1>5, <1>6, <1>7 DEF Expansion

LEMMA AllocateKeeps ==
  ASSUME Expansion, Allocate
  PROVE  Expansion'
<1>1. /\ FlowOk /\ DeviceOk /\ native \in NativeType /\ native.pc = "allocate"
      /\ native.at \in 1 .. 3 /\ UNCHANGED <<graph, session, call, kernel>>
  <2>1. FlowOk /\ native \in NativeType /\ native.at \in 1 .. 4
    BY DEF Expansion, FlowOk
  <2>2. native.pc = "allocate" /\ ~ (native.at > Len(Buffers[native.stage]))
    BY DEF Allocate, Allocated
  <2>3. native.at \in 1 .. 3
    <3>1. Len(Buffers[native.stage]) = 3
      BY <2>1, StageBuffers
    <3>2. ~ (native.at > 3)
      BY <2>2, <3>1
    <3>. QED
      BY <2>1, <3>2
  <2>. QED
    BY <2>1, <2>2, <2>3 DEF Expansion, Allocate
<1>2. PICK b : b = Buffers[native.stage][native.at]
  OBVIOUS
<1>3. /\ native.ptrs = Outer \cup First(native.stage, native.at - 1)
      /\ device = Held \cup native.ptrs
      /\ First(native.stage, native.at) = First(native.stage, native.at - 1) \cup {b}
      /\ First(native.stage, native.at) \subseteq First(native.stage, 3)
      /\ First(native.stage, 0) = {}
  BY <1>1, <1>2, StageBuffers DEF DeviceOk, InHand
<1>4. b \in SessionBuffers \cup GraphBuffers \cup CallBuffers
  <2>1. native.stage \in {"session", "graph", "call"}
    BY <1>1 DEF NativeType
  <2>2. b \in First(native.stage, 3)
    BY <1>3
  <2>. QED
    BY <2>1, <2>2, StageIs
<1>5. CASE /\ device' = device \cup {b}
           /\ native' = [native EXCEPT !.pc   = IF Uploaded(b) THEN "copy" ELSE @,
                                       !.at   = IF Uploaded(b) THEN @ ELSE @ + 1,
                                       !.ptrs = @ \cup {b}]
  <2>1. /\ native' \in NativeType /\ native'.stage = native.stage
        /\ native'.ptrs = native.ptrs \cup {b}
        /\ \/ native'.pc = "copy" /\ native'.at = native.at
           \/ native'.pc = "allocate" /\ native'.at = native.at + 1
    <3>1. PICK next \in Nat : next = native.at + 1
      BY <1>1
    <3>2. PICK ptrs \in SUBSET (SessionBuffers \cup GraphBuffers \cup CallBuffers) :
            ptrs = native.ptrs \cup {b}
      <4>1. native.ptrs \in SUBSET (SessionBuffers \cup GraphBuffers \cup CallBuffers)
        BY <1>1 DEF NativeType
      <4>. QED
        BY <1>4, <4>1
    <3>3. CASE Uploaded(b)
      <4>1. native' = [native EXCEPT !.pc = "copy", !.ptrs = ptrs]
        BY <1>1, <1>5, <3>2, <3>3 DEF NativeType
      <4>. QED
        BY <1>1, <3>2, <4>1 DEF NativeType
    <3>4. CASE ~ Uploaded(b)
      <4>1. native' = [native EXCEPT !.at = next, !.ptrs = ptrs]
        BY <1>1, <1>5, <3>1, <3>2, <3>4 DEF NativeType
      <4>. QED
        BY <1>1, <3>1, <3>2, <4>1 DEF NativeType
    <3>. QED
      BY <3>3, <3>4
  <2>2. FlowOk'
    BY <1>1, <2>1 DEF FlowOk, Csr
  <2>3. DeviceOk'
    <3>1. InHand' = native.at /\ Outer' = Outer /\ Held' = Held
      BY <1>1, <2>1 DEF InHand, Outer, Held
    <3>. QED
      BY <1>3, <1>5, <2>1, <3>1 DEF DeviceOk
  <2>. QED
    BY <1>1, <2>1, <2>2, <2>3, LibraryKeeps DEF Brought
<1>6. CASE native' = Failed /\ UNCHANGED device
  <2>1. /\ native' \in NativeType /\ native'.stage = native.stage /\ native'.ptrs = native.ptrs
        /\ native'.pc = "free" /\ native'.at = 1 /\ native'.status = "error"
    BY <1>1, <1>6 DEF NativeType, Failed, Freeing
  <2>2. FlowOk'
    BY <1>1, <2>1 DEF FlowOk, Csr
  <2>3. DeviceOk'
    <3>1. Outer' = Outer /\ Held' = Held
      BY <1>1, <2>1 DEF Outer, Held
    <3>. QED
      BY <1>3, <1>6, <2>1, <3>1 DEF DeviceOk
  <2>. QED
    BY <1>1, <2>1, <2>2, <2>3, LibraryKeeps DEF Brought
<1>. QED
  BY <1>2, <1>5, <1>6 DEF Allocate, Buffer

LEMMA CopyKeeps ==
  ASSUME Expansion, Copy
  PROVE  Expansion'
<1>1. /\ FlowOk /\ DeviceOk /\ native \in NativeType /\ native.pc = "copy"
      /\ native.at \in 1 .. 3 /\ UNCHANGED <<graph, session, call, kernel>>
  BY DEF Expansion, FlowOk, Copy, NativeType
<1>2. PICK b : b = Buffers[native.stage][native.at]
  OBVIOUS
<1>3. /\ native.ptrs = Outer \cup First(native.stage, native.at)
      /\ device = Held \cup native.ptrs
      /\ First(native.stage, native.at) = First(native.stage, native.at - 1) \cup {b}
      /\ First(native.stage, native.at) \subseteq First(native.stage, 3)
      /\ First(native.stage, 0) = {}
  BY <1>1, <1>2, StageBuffers DEF DeviceOk, InHand
<1>4. b \notin Held
  BY <1>1, <1>3, NotHeld
<1>5. CASE native' = [native EXCEPT !.pc = "allocate", !.at = @ + 1] /\ UNCHANGED device
  <2>1. /\ native' \in NativeType /\ native'.stage = native.stage /\ native'.ptrs = native.ptrs
        /\ native'.pc = "allocate" /\ native'.at = native.at + 1
    <3>1. PICK next \in Nat : next = native.at + 1
      BY <1>1
    <3>2. native' = [native EXCEPT !.pc = "allocate", !.at = next]
      BY <1>5, <3>1
    <3>. QED
      BY <1>1, <3>1, <3>2 DEF NativeType
  <2>2. FlowOk'
    BY <1>1, <2>1 DEF FlowOk, Csr
  <2>3. DeviceOk'
    <3>1. InHand' = native.at /\ Outer' = Outer /\ Held' = Held
      BY <1>1, <2>1 DEF InHand, Outer, Held
    <3>. QED
      BY <1>3, <1>5, <2>1, <3>1 DEF DeviceOk
  <2>. QED
    BY <1>1, <2>1, <2>2, <2>3, LibraryKeeps DEF Brought
<1>6. CASE native' = [Failed EXCEPT !.ptrs = @ \ {b}] /\ device' = device \ {b}
  <2>1. /\ native' \in NativeType /\ native'.stage = native.stage
        /\ native'.ptrs = native.ptrs \ {b}
        /\ native'.pc = "free" /\ native'.at = 1 /\ native'.status = "error"
    BY <1>1, <1>6 DEF NativeType, Failed, Freeing
  <2>2. FlowOk'
    BY <1>1, <2>1 DEF FlowOk, Csr
  <2>3. DeviceOk'
    <3>1. Outer' = Outer /\ Held' = Held
      BY <1>1, <2>1 DEF Outer, Held
    <3>. QED
      BY <1>3, <1>4, <1>6, <2>1, <3>1 DEF DeviceOk
  <2>. QED
    BY <1>1, <2>1, <2>2, <2>3, LibraryKeeps DEF Brought
<1>. QED
  BY <1>2, <1>5, <1>6 DEF Copy, Buffer

LEMMA UploadedKeeps ==
  ASSUME Expansion, SessionCreated \/ GraphUploaded
  PROVE  Expansion'
<1>1. /\ FlowOk /\ DeviceOk /\ native \in NativeType /\ native.pc = "allocate" /\ native.at = 4
      /\ native.stage \in {"session", "graph", "call"} /\ UNCHANGED <<graph, call, kernel, device>>
  <2>1. FlowOk /\ native \in NativeType /\ native.at \in 1 .. 4
    BY DEF Expansion, FlowOk
  <2>2. native.pc = "allocate" /\ native.at > Len(Buffers[native.stage])
    BY DEF SessionCreated, GraphUploaded, Allocated
  <2>3. native.at = 4
    <3>1. Len(Buffers[native.stage]) = 3
      BY <2>1, StageBuffers
    <3>2. native.at > 3
      BY <2>2, <3>1
    <3>. QED
      BY <2>1, <3>2
  <2>. QED
    BY <2>1, <2>2, <2>3 DEF Expansion, NativeType, SessionCreated, GraphUploaded
<1>2. native.ptrs = Outer \cup First(native.stage, 3) /\ device = Held \cup native.ptrs
  BY <1>1 DEF DeviceOk, InHand
<1>3. CASE SessionCreated
  <2>1. native.stage = "session" /\ session' = "open" /\ native' = NoNative
    BY <1>3 DEF SessionCreated
  <2>2. device' = SessionBuffers
    <3>1. Outer = {} /\ Held = {} /\ First(native.stage, 3) = SessionBuffers
      BY <1>1, <2>1, StageIs DEF Outer, Held, FlowOk
    <3>. QED
      BY <1>1, <1>2, <3>1
  <2>3. FlowOk'
    BY <1>1, <2>1, NoNativeIs DEF FlowOk, Csr
  <2>4. DeviceOk'
    BY <2>1, <2>2, NoNativeIs DEF DeviceOk, Held
  <2>. QED
    BY <1>1, <2>1, <2>3, <2>4, NoNativeIs, LibraryKeeps DEF Brought
<1>4. CASE GraphUploaded
  <2>1. /\ native.stage = "graph" /\ session' = session
        /\ native' = [native EXCEPT !.pc = "allocate", !.stage = "call", !.at = 1]
    BY <1>4 DEF GraphUploaded
  <2>2. /\ native' \in NativeType /\ native'.pc = "allocate" /\ native'.stage = "call"
        /\ native'.at = 1 /\ native'.ptrs = native.ptrs
    BY <1>1, <2>1 DEF NativeType
  <2>3. ~ call.resident
    BY <1>1, <2>1 DEF FlowOk
  <2>4. FlowOk'
    BY <1>1, <2>1, <2>2, <2>3 DEF FlowOk, Csr
  <2>5. DeviceOk'
    <3>1. Outer = {} /\ First(native.stage, 3) = GraphBuffers
      BY <1>1, <2>1, StageIs DEF Outer
    <3>2. Outer' = GraphBuffers /\ InHand' = 0 /\ Held' = Held
      BY <1>1, <2>1, <2>2, <2>3 DEF Outer, InHand, Held
    <3>3. First("call", 0) = {}
      BY StageIs
    <3>. QED
      BY <1>1, <1>2, <2>2, <3>1, <3>2, <3>3 DEF DeviceOk
  <2>. QED
    BY <1>1, <2>2, <2>4, <2>5, LibraryKeeps DEF Brought
<1>. QED
  BY <1>3, <1>4

LEMMA FreeKeeps ==
  ASSUME Expansion, Free
  PROVE  Expansion'
<1>1. /\ FlowOk /\ DeviceOk /\ native \in NativeType /\ native.pc = "free"
      /\ native.at \in 1 .. 3 /\ UNCHANGED <<graph, session, call, kernel>>
  <2>1. FlowOk /\ native \in NativeType /\ native.at \in 1 .. 4
    BY DEF Expansion, FlowOk
  <2>2. native.pc = "free" /\ native.at <= Len(Cleanup(native.stage))
    BY DEF Free
  <2>3. native.at \in 1 .. 3
    <3>1. Len(Cleanup(native.stage)) = 3
      BY <2>1, StageBuffers
    <3>2. native.at <= 3
      BY <2>2, <3>1
    <3>. QED
      BY <2>1, <3>2
  <2>. QED
    BY <2>1, <2>2, <2>3 DEF Expansion, Free
<1>2. PICK b : b = Buffers[native.stage][native.at]
  OBVIOUS
<1>3. /\ native.ptrs \subseteq Outer \cup First(native.stage, 3)
      /\ device = Held \cup (native.ptrs \ First(native.stage, native.at - 1))
      /\ First(native.stage, native.at) = First(native.stage, native.at - 1) \cup {b}
      /\ First(native.stage, native.at) \subseteq First(native.stage, 3)
  BY <1>1, <1>2, StageBuffers DEF DeviceOk
<1>4. b \notin Held
  BY <1>1, <1>3, NotHeld
<1>5. device' = device \ ({b} \cap native.ptrs)
  <2>1. Cleanup(native.stage) = Buffers[native.stage]
    BY <1>1, StageBuffers
  <2>. QED
    BY <1>2, <2>1 DEF Free
<1>6. /\ native' \in NativeType /\ native'.stage = native.stage /\ native'.ptrs = native.ptrs
      /\ native'.pc = "free" /\ native'.at = native.at + 1
      /\ native'.count = native.count /\ native'.out = native.out
      /\ native'.status = "ok" => native.status = "ok"
  <2>1. PICK next \in Nat : next = native.at + 1
    BY <1>1
  <2>2. \/ native' = [native EXCEPT !.at = next]
        \/ native' = [native EXCEPT !.at = next, !.status = "error"]
    BY <2>1 DEF Free
  <2>. QED
    BY <1>1, <2>1, <2>2 DEF NativeType
<1>7. FlowOk'
  BY <1>1, <1>6 DEF FlowOk, Csr
<1>8. DeviceOk'
  <2>1. Outer' = Outer /\ Held' = Held /\ native'.at - 1 = native.at
    BY <1>1, <1>6 DEF Outer, Held
  <2>. QED
    BY <1>3, <1>4, <1>5, <1>6, <2>1 DEF DeviceOk
<1>. QED
  BY <1>1, <1>6, <1>7, <1>8, LibraryKeeps DEF Brought

\* All that a stage held is freed.
LEMMA FreedIs ==
  ASSUME Expansion, Freed
  PROVE  /\ FlowOk /\ DeviceOk /\ native \in NativeType /\ native.pc = "free" /\ native.at = 4
         /\ native.stage \in {"session", "graph", "call"}
         /\ native.ptrs \subseteq Outer \cup First(native.stage, 3)
         /\ device = Held \cup (native.ptrs \ First(native.stage, 3))
<1>1. FlowOk /\ native \in NativeType /\ native.at \in 1 .. 4
  BY DEF Expansion, FlowOk
<1>2. native.pc = "free" /\ native.at > Len(Cleanup(native.stage))
  BY DEF Freed
<1>3. native.at = 4
  <2>1. Len(Cleanup(native.stage)) = 3
    BY <1>1, StageBuffers
  <2>2. native.at > 3
    BY <1>2, <2>1
  <2>. QED
    BY <1>1, <2>2
<1>4. DeviceOk /\ native.stage \in {"session", "graph", "call"}
  BY <1>1 DEF Expansion, NativeType
<1>. QED
  BY <1>1, <1>2, <1>3, <1>4 DEF DeviceOk

LEMMA RunReturnKeeps ==
  ASSUME Expansion, RunReturn
  PROVE  Expansion'
<1>1. Freed /\ Nested /\ UNCHANGED <<graph, session, call, kernel, device>>
  BY DEF RunReturn
<1>2. /\ FlowOk /\ DeviceOk /\ native \in NativeType /\ native.pc = "free" /\ native.at = 4
      /\ native.ptrs \subseteq Outer \cup First(native.stage, 3)
      /\ device = Held \cup (native.ptrs \ First(native.stage, 3))
  BY <1>1, FreedIs
<1>3. native.stage = "call" /\ ~ call.resident
  BY <1>1 DEF Nested
<1>4. /\ native' \in NativeType /\ native'.pc = "free" /\ native'.stage = "graph" /\ native'.at = 1
      /\ native'.ptrs = native.ptrs \cap GraphBuffers /\ native'.status = native.status
      /\ native'.count = native.count /\ native'.out = native.out
  <2>1. PICK ptrs \in SUBSET (SessionBuffers \cup GraphBuffers \cup CallBuffers) :
          ptrs = native.ptrs \cap GraphBuffers
    OBVIOUS
  <2>2. native' = [native EXCEPT !.stage = "graph", !.at = 1, !.ptrs = ptrs]
    BY <2>1 DEF RunReturn
  <2>. QED
    BY <1>2, <2>1, <2>2 DEF NativeType
<1>5. FlowOk'
  BY <1>1, <1>2, <1>3, <1>4 DEF FlowOk, Csr
<1>6. DeviceOk'
  <2>1. Outer = GraphBuffers /\ Outer' = {} /\ Held' = Held
    BY <1>1, <1>3, <1>4 DEF Outer, Held
  <2>2. First("call", 3) = CallBuffers /\ First("graph", 0) = {} /\ First("graph", 3) = GraphBuffers
    BY StageIs
  <2>3. native.ptrs \ CallBuffers = native.ptrs \cap GraphBuffers
    BY <1>2, <1>3, <2>1, <2>2, Apart
  <2>. QED
    BY <1>1, <1>2, <1>3, <1>4, <2>1, <2>2, <2>3 DEF DeviceOk
<1>. QED
  BY <1>1, <1>2, <1>4, <1>5, <1>6, LibraryKeeps DEF Brought


\* A step that ends in the clean-up of a failed call.
LEMMA FailedIs ==
  ASSUME FlowOk, native.pc # "none", native' = Failed
  PROVE  /\ native' \in NativeType /\ native'.stage = native.stage /\ native'.ptrs = native.ptrs
         /\ native'.pc = "free" /\ native'.at = 1 /\ native'.status = "error"
BY DEF FlowOk, NativeType, Failed, Freeing

\* A failed call has no kernel and no result.
LEMMA FailsKeeps ==
  ASSUME Expansion, UNCHANGED <<graph, session, call, device>>, kernel' = NoKernel,
         native.pc \in {"allocate", "run"}, native.stage = "call", native.at = 4, native' = Failed
  PROVE  Expansion'
<1>1. FlowOk /\ DeviceOk /\ native \in NativeType
  BY DEF Expansion, FlowOk
<1>2. /\ native' \in NativeType /\ native'.stage = native.stage /\ native'.ptrs = native.ptrs
      /\ native'.pc = "free" /\ native'.at = 1 /\ native'.status = "error"
  BY <1>1, FailedIs
<1>3. native.ptrs = Outer \cup First(native.stage, 3) /\ device = Held \cup native.ptrs
  BY <1>1 DEF DeviceOk, InHand
<1>4. FlowOk'
  BY <1>1, <1>2 DEF FlowOk, Csr
<1>5. DeviceOk'
  <2>1. Outer' = Outer /\ Held' = Held /\ First(native.stage, 0) = {}
    BY <1>1, <1>2, StageBuffers DEF Outer, Held
  <2>. QED
    BY <1>2, <1>3, <2>1 DEF DeviceOk
<1>6. Csr' = Csr /\ Capacity' = Capacity
  BY DEF Csr, Capacity
<1>7. \A v : Traversed(v)' = Traversed(v)
  BY <1>6 DEF Traversed
<1>8. GraphOk' /\ CallOk'
  BY <1>6 DEF Expansion, GraphOk, CallOk
<1>9. KernelOk' /\ ResultOk'
  BY <1>2 DEF KernelOk, ResultOk, Brought
<1>10. ExpandExact'
  BY <1>7 DEF Expansion, ExpandExact
<1>. QED
  BY <1>4, <1>5, <1>8, <1>9, <1>10 DEF Expansion

LEMMA LaunchKeeps ==
  ASSUME Expansion, Launch
  PROVE  Expansion'
<1>1. /\ FlowOk /\ DeviceOk /\ native \in NativeType /\ native.pc = "allocate"
      /\ native.stage = "call" /\ native.at = 4 /\ kernel = NoKernel
      /\ UNCHANGED <<graph, session, call, device>>
  <2>1. FlowOk /\ native \in NativeType /\ native.at \in 1 .. 4
    BY DEF Expansion, FlowOk
  <2>2. native.pc = "allocate" /\ native.at > Len(Buffers[native.stage])
    BY DEF Launch, Allocated
  <2>3. native.at = 4
    <3>1. Len(Buffers[native.stage]) = 3
      BY <2>1, StageBuffers
    <3>2. native.at > 3
      BY <2>2, <3>1
    <3>. QED
      BY <2>1, <3>2
  <2>4. kernel = NoKernel
    BY <2>1, <2>2 DEF FlowOk
  <2>. QED
    BY <2>1, <2>2, <2>3, <2>4 DEF Expansion, Launch
<1>2. CASE native' = Failed /\ UNCHANGED kernel
  BY <1>1, <1>2, FailsKeeps
<1>3. CASE /\ native' = [native EXCEPT !.pc = "run"]
           /\ kernel' = [next  |-> [i \in DOMAIN call.frontier |-> Csr.offsets[call.frontier[i]]],
                         count |-> 0, out |-> [p \in 0 .. Capacity - 1 |-> None]]
  <2>1. call \in CallType /\ GraphOk
    BY DEF Expansion, CallOk
  <2>2. PICK m \in Nat, n \in Nat : n = graph.n /\ IsCsr(Csr, n, m)
    BY <2>1, CsrIs
  <2>3. call.frontier \in Seq(Nat) /\ Capacity \in Nat
    BY <2>1, CapacityIsNat DEF CallType
  <2>4. Within(Csr, call.frontier, n)
    BY <1>1, <2>2 DEF FlowOk
  <2>5. PICK k : k = NewKernel(Csr, call.frontier, Capacity)
    OBVIOUS
  <2>6. /\ k \in KernelType(call.frontier, Capacity) /\ Counted(Csr, call.frontier, call.relation, k)
        /\ Filling(Csr, call.frontier, call.relation, n, k, Capacity)
    BY <2>2, <2>3, <2>4, <2>5, KernelStarts
  <2>7. kernel' = k /\ k # NoKernel
    BY <1>3, <2>5 DEF NewKernel, NoKernel
  <2>8. /\ native' \in NativeType /\ native'.pc = "run" /\ native'.stage = "call" /\ native'.at = 4
        /\ native'.ptrs = native.ptrs
    BY <1>1, <1>3 DEF NativeType
  <2>9. Csr' = Csr /\ Capacity' = Capacity
    BY <1>1 DEF Csr, Capacity
  <2>10. \A v : Traversed(v)' = Traversed(v)
    BY <1>1, <2>9 DEF Traversed
  <2>11. GraphOk' /\ CallOk' /\ ExpandExact'
    BY <1>1, <2>9, <2>10 DEF Expansion, GraphOk, CallOk, ExpandExact
  <2>12. KernelOk'
    BY <1>1, <2>2, <2>6, <2>7, <2>9 DEF KernelOk
  <2>13. FlowOk'
    BY <1>1, <2>7, <2>8, <2>9 DEF FlowOk
  <2>14. DeviceOk'
    <3>1. InHand' = InHand /\ Outer' = Outer /\ Held' = Held
      BY <1>1, <2>8 DEF InHand, Outer, Held
    <3>. QED
      BY <1>1, <2>8, <3>1 DEF DeviceOk
  <2>15. ResultOk'
    BY <2>8 DEF ResultOk, Brought
  <2>. QED
    BY <2>11, <2>12, <2>13, <2>14, <2>15 DEF Expansion
<1>. QED
  BY <1>2, <1>3 DEF Launch

LEMMA ThreadKeeps ==
  ASSUME Expansion, NEW i \in DOMAIN call.frontier, ThreadStep(i)
  PROVE  Expansion'
<1>1. kernel # NoKernel /\ UNCHANGED <<graph, session, call, native, device>>
  BY DEF ThreadStep
<1>2. /\ call \in CallType /\ GraphOk /\ FlowOk /\ native.pc = "run"
      /\ Within(Csr, call.frontier, graph.n)
      /\ kernel \in KernelType(call.frontier, Capacity)
      /\ Counted(Csr, call.frontier, call.relation, kernel)
      /\ call.pc = "fill" => Filling(Csr, call.frontier, call.relation, graph.n, kernel, Capacity)
  BY <1>1 DEF Expansion, CallOk, FlowOk, KernelOk
<1>3. PICK m \in Nat, n \in Nat : n = graph.n /\ IsCsr(Csr, n, m)
  BY <1>2, CsrIs
<1>4. call.frontier \in Seq(Nat) /\ Capacity \in Nat
  BY <1>2, CapacityIsNat DEF CallType
<1>5. PICK csr, frontier, relation, cap, k :
        /\ csr = Csr /\ frontier = call.frontier /\ relation = call.relation /\ cap = Capacity /\ k = kernel
  OBVIOUS
<1>6. PICK wanted \in BOOLEAN : wanted <=> relation \in {AnyRelation, csr.relations[k.next[i]]}
  <2>1. \E w \in BOOLEAN : w <=> relation \in {AnyRelation, csr.relations[k.next[i]]}
    OBVIOUS
  <2>. QED
    BY <2>1
<1>7. PICK target : target = csr.targets[k.next[i]]
  OBVIOUS
<1>8. PICK after : after = Advanced(k, i, wanted, target)
  OBVIOUS
<1>9. kernel' = after
  <2>1. Wanted(k.next[i]) <=> wanted
    BY <1>5, <1>6 DEF Wanted
  <2>2. kernel' = [kernel EXCEPT
                     !.next[i] = kernel.next[i] + 1,
                     !.count   = IF Wanted(kernel.next[i]) THEN kernel.count + 1 ELSE @,
                     !.out     = IF Wanted(kernel.next[i]) /\ kernel.count \in DOMAIN @
                                 THEN [@ EXCEPT ![kernel.count] = Csr.targets[kernel.next[i]]] ELSE @]
    BY DEF ThreadStep
  <2>. QED
    BY <1>5, <1>7, <1>8, <2>1, <2>2 DEF Advanced
<1>10. k.next[i] < Stops(csr, frontier, i)
  BY <1>5 DEF ThreadStep, Running, Stops
<1>11. StillCounted(csr, frontier, relation, n, cap, k, after)
  <2>1. /\ m \in Nat /\ n \in Nat /\ IsCsr(csr, n, m) /\ frontier \in Seq(Nat)
        /\ Within(csr, frontier, n) /\ cap \in Nat
        /\ k \in KernelType(frontier, cap) /\ Counted(csr, frontier, relation, k)
        /\ i \in DOMAIN frontier /\ k.next[i] < Stops(csr, frontier, i)
        /\ wanted \in BOOLEAN /\ (wanted <=> relation \in {AnyRelation, csr.relations[k.next[i]]})
        /\ target = csr.targets[k.next[i]] /\ after = Advanced(k, i, wanted, target)
    BY <1>2, <1>3, <1>4, <1>5, <1>6, <1>7, <1>8, <1>10
  <2>. QED
    BY ONLY <2>1, KernelAdvances
<1>12. call.pc = "fill" => Cardinality(Due(csr, frontier, relation)) <= cap
  <2>. SUFFICES ASSUME call.pc = "fill" PROVE Cardinality(Due(csr, frontier, relation)) <= cap
    OBVIOUS
  <2>1. /\ call.required = Cardinality(Due(csr, frontier, relation))
        /\ call.capacity # None => call.required <= call.capacity
    BY <1>5 DEF Expansion, CallOk
  <2>2. cap = IF call.capacity = None THEN call.required ELSE call.capacity
    BY <1>5 DEF Capacity
  <2>3. call.required \in Nat
    BY <1>2 DEF CallType
  <2>. QED
    BY <2>1, <2>2, <2>3
<1>13. /\ Csr' = csr /\ Csr' = Csr /\ Capacity' = cap /\ graph'.n = n /\ call' = call
       /\ call.frontier = frontier /\ call.relation = relation
  BY <1>1, <1>3, <1>5 DEF Csr, Capacity
<1>14. KernelOk'
  <2>1. /\ after \in KernelType(frontier, cap) /\ Counted(csr, frontier, relation, after)
        /\ call.pc = "fill" => Filling(csr, frontier, relation, n, after, cap)
    BY <1>2, <1>3, <1>5, <1>11, <1>12 DEF StillCounted
  <2>. QED
    BY <1>9, <1>13, <2>1 DEF KernelOk
<1>15. kernel' # NoKernel
  <2>1. DOMAIN after = {"next", "count", "out"}
    BY <1>11 DEF StillCounted, KernelType
  <2>2. DOMAIN NoKernel = {}
    BY DEF NoKernel
  <2>. QED
    BY <1>9, <2>1, <2>2
<1>16. \A v : Traversed(v)' = Traversed(v)
  BY <1>1, <1>13 DEF Traversed
<1>17. GraphOk' /\ CallOk' /\ ExpandExact'
  BY <1>1, <1>13, <1>16 DEF Expansion, GraphOk, CallOk, ExpandExact
<1>18. FlowOk'
  BY <1>1, <1>2, <1>13, <1>15 DEF FlowOk
<1>19. DeviceOk'
  <2>1. InHand' = InHand /\ Outer' = Outer /\ Held' = Held
    BY <1>1 DEF InHand, Outer, Held
  <2>. QED
    BY <1>1, <2>1 DEF Expansion, DeviceOk
<1>20. ResultOk'
  BY <1>1, <1>2 DEF ResultOk, Brought
<1>. QED
  BY <1>14, <1>17, <1>18, <1>19, <1>20 DEF Expansion


\* The counts that the threads have come to are those of all edges.
LEMMA CollectedIs ==
  ASSUME GraphOk, call \in CallType, Within(Csr, call.frontier, graph.n),
         kernel \in KernelType(call.frontier, Capacity),
         Counted(Csr, call.frontier, call.relation, kernel),
         \A i \in DOMAIN call.frontier : ~ Running(i)
  PROVE  Passed(Due(Csr, call.frontier, call.relation), kernel.next)
           = Due(Csr, call.frontier, call.relation)
<1>1. PICK m \in Nat, n \in Nat : n = graph.n /\ IsCsr(Csr, n, m)
  BY CsrIs
<1>2. PICK csr, frontier, relation, k :
        csr = Csr /\ frontier = call.frontier /\ relation = call.relation /\ k = kernel
  OBVIOUS
<1>3. k.next \in [DOMAIN frontier -> Nat]
  BY <1>2 DEF KernelType
<1>4. ASSUME NEW i \in DOMAIN frontier
      PROVE  k.next[i] = Stops(csr, frontier, i) /\ k.next[i] \in Int /\ Starts(csr, frontier, i) \in Int
  <2>1. PICK v \in 0 .. n - 1 : v = frontier[i]
    BY <1>1, <1>2 DEF Within
  <2>2. v \in 0 .. n /\ v + 1 \in 0 .. n
    OBVIOUS
  <2>3. csr.offsets[v] \in 0 .. m /\ csr.offsets[v + 1] \in 0 .. m
    BY <1>1, <1>2, <2>2 DEF IsCsr
  <2>4. PICK a \in 0 .. m, b \in 0 .. m : a = Starts(csr, frontier, i) /\ b = Stops(csr, frontier, i)
    BY <2>1, <2>3 DEF Starts, Stops
  <2>5. k.next[i] \in a .. b
    BY <1>2, <2>4 DEF Counted
  <2>6. ~ (k.next[i] < b)
    BY <1>2, <2>4 DEF Running, Stops
  <2>. QED
    BY <2>4, <2>5, <2>6
<1>. QED
  BY <1>2, <1>4, PassedAll

\* A buffer that was large enough is the result of the fill.
LEMMA PassFills ==
  ASSUME NEW n \in Nat, NEW csr, NEW frontier, NEW relation, NEW k, NEW cap \in Nat,
         k \in KernelType(frontier, cap), Filling(csr, frontier, relation, n, k, cap),
         Passed(Due(csr, frontier, relation), k.next) = Due(csr, frontier, relation),
         k.count = Cardinality(Due(csr, frontier, relation)), NEW out, FromZero(out, k.count, k.out)
  PROVE  out \in Seq(Nat) /\ PassResult(csr, frontier, relation, n, "fill", k.count, out)
<1>1. k.count \in Nat
  BY DEF KernelType
<1>2. \A p \in 1 .. k.count : out[p] \in 0 .. n - 1
  <2>1. \A p \in 1 .. k.count : p - 1 \in 0 .. k.count - 1 /\ out[p] = k.out[p - 1]
    BY <1>1 DEF FromZero
  <2>. QED
    BY <2>1 DEF Filling
<1>3. out \in Seq(Nat) /\ DOMAIN out = 1 .. k.count
  <2>1. \A x : x \in 0 .. n - 1 => x \in Nat
    OBVIOUS
  <2>2. \A p \in 1 .. k.count : out[p] \in Nat
    BY <1>2, <2>1
  <2>3. out = [p \in 1 .. k.count |-> out[p]]
    BY DEF FromZero
  <2>4. out \in [1 .. k.count -> Nat]
    BY <2>2, <2>3
  <2>. QED
    BY <1>1, <2>4
<1>4. ASSUME NEW v \in 0 .. n - 1
      PROVE  Cardinality(Listed(out, v)) = Cardinality(Into(Due(csr, frontier, relation), csr, v))
  <2>1. Cardinality(Holding(k.out, k.count, v)) = Cardinality(Into(Due(csr, frontier, relation), csr, v))
    BY DEF Filling
  <2>2. Cardinality(Listed(out, v)) = Cardinality(Holding(k.out, k.count, v))
    <3>1. PICK count, buffer : count = k.count /\ buffer = k.out
      OBVIOUS
    <3>2. FromZero(out, count, buffer) /\ count \in Nat
      BY <1>1, <3>1
    <3>3. Cardinality(Listed(out, v)) = Cardinality(Holding(buffer, count, v))
      BY ONLY <3>2, ShiftCount
    <3>. QED
      BY <3>1, <3>3
  <2>. QED
    BY <2>1, <2>2
<1>5. PICK count, due : count = k.count /\ due = Due(csr, frontier, relation)
  OBVIOUS
<1>6. /\ count = Cardinality(due) /\ DOMAIN out = 1 .. count
      /\ \A p \in 1 .. count : out[p] \in 0 .. n - 1
      /\ \A v \in 0 .. n - 1 : Cardinality(Listed(out, v)) = Cardinality(Into(due, csr, v))
  BY <1>2, <1>3, <1>4, <1>5
<1>7. PassResult(csr, frontier, relation, n, "fill", count, out)
  BY ONLY <1>5, <1>6, Zenon DEF PassResult
<1>8. PassResult(csr, frontier, relation, n, "fill", k.count, out)
  BY ONLY <1>5, <1>7, Zenon
<1>. QED
  BY <1>3, <1>8

LEMMA CollectKeeps ==
  ASSUME Expansion, Collect
  PROVE  Expansion'
<1>1. /\ kernel # NoKernel /\ kernel' = NoKernel /\ UNCHANGED <<graph, session, call, device>>
      /\ \A i \in DOMAIN call.frontier : ~ Running(i)
  BY DEF Collect
<1>2. /\ call \in CallType /\ GraphOk /\ FlowOk /\ DeviceOk /\ native \in NativeType
      /\ native.pc = "run" /\ native.stage = "call" /\ native.at = 4
      /\ call.pc \in {"probe", "fill"} /\ Within(Csr, call.frontier, graph.n)
      /\ kernel \in KernelType(call.frontier, Capacity)
      /\ Counted(Csr, call.frontier, call.relation, kernel)
      /\ call.pc = "fill" => Filling(Csr, call.frontier, call.relation, graph.n, kernel, Capacity)
  BY <1>1 DEF Expansion, CallOk, FlowOk, KernelOk
<1>3. CASE native' = Failed
  BY <1>1, <1>2, <1>3, FailsKeeps
<1>4. CASE native' = [Freeing EXCEPT
                        !.count = kernel.count,
                        !.out   = IF kernel.count > Capacity THEN << >>
                                  ELSE [p \in 1 .. kernel.count |-> kernel.out[p - 1]]]
  <2>1. PICK m \in Nat, n \in Nat : n = graph.n /\ IsCsr(Csr, n, m)
    BY <1>2, CsrIs
  <2>2. PICK csr, frontier, relation, k, cap :
          /\ csr = Csr /\ frontier = call.frontier /\ relation = call.relation /\ k = kernel
          /\ cap = Capacity
    OBVIOUS
  <2>3. k.count \in Nat
    BY <1>2, <2>2 DEF KernelType
  <2>4. Passed(Due(csr, frontier, relation), k.next) = Due(csr, frontier, relation)
    BY <1>1, <1>2, <2>2, CollectedIs
  <2>5. k.count = Cardinality(Due(csr, frontier, relation))
    BY <1>2, <2>2, <2>4 DEF Counted
  <2>6. PICK out : out = IF k.count > cap THEN << >> ELSE [p \in 1 .. k.count |-> k.out[p - 1]]
    OBVIOUS
  <2>7. out \in Seq(Nat) /\ PassResult(csr, frontier, relation, n, call.pc, k.count, out)
    <3>1. CASE call.pc = "fill"
      <4>1. Filling(csr, frontier, relation, n, k, cap) /\ k \in KernelType(frontier, cap)
        BY <1>2, <2>1, <2>2, <3>1
      <4>2. k.count <= cap
        BY <4>1 DEF Filling
      <4>3. FromZero(out, k.count, k.out)
        <5>1. ~ (k.count > cap)
          BY <1>2, <2>2, <2>3, <4>2, CapacityIsNat
        <5>. QED
          BY <2>6, <5>1 DEF FromZero
      <4>4. /\ n \in Nat /\ cap \in Nat /\ k \in KernelType(frontier, cap)
            /\ Filling(csr, frontier, relation, n, k, cap)
            /\ Passed(Due(csr, frontier, relation), k.next) = Due(csr, frontier, relation)
            /\ k.count = Cardinality(Due(csr, frontier, relation)) /\ FromZero(out, k.count, k.out)
        BY <1>2, <2>1, <2>2, <2>4, <2>5, <4>1, <4>3, CapacityIsNat
      <4>5. out \in Seq(Nat) /\ PassResult(csr, frontier, relation, n, "fill", k.count, out)
        BY ONLY <4>4, PassFills
      <4>. QED
        BY <3>1, <4>5
    <3>2. CASE call.pc = "probe"
      <4>1. cap = 0
        BY <2>2, <3>2 DEF Capacity
      <4>2. out = << >>
        <5>1. CASE k.count > cap
          BY <2>6, <5>1
        <5>2. CASE ~ (k.count > cap)
          <6>1. k.count = 0
            BY <2>3, <4>1, <5>2
          <6>2. 1 .. k.count = {}
            BY <6>1
          <6>. QED
            BY <2>6, <5>2, <6>2
        <5>. QED
          BY <5>1, <5>2
      <4>. QED
        BY <2>5, <3>2, <4>2 DEF PassResult
    <3>. QED
      BY <1>2, <3>1, <3>2
  <2>8. /\ native' \in NativeType /\ native'.pc = "free" /\ native'.stage = "call" /\ native'.at = 1
        /\ native'.ptrs = native.ptrs /\ native'.count = k.count /\ native'.out = out
    <3>1. native' = [native EXCEPT !.pc = "free", !.at = 1, !.count = k.count, !.out = out]
      BY <1>2, <1>4, <2>2, <2>6 DEF Freeing, NativeType
    <3>. QED
      BY <1>2, <2>3, <2>7, <3>1 DEF NativeType
  <2>9. Csr' = Csr /\ Capacity' = Capacity
    BY <1>1 DEF Csr, Capacity
  <2>10. \A v : Traversed(v)' = Traversed(v)
    BY <1>1, <2>9 DEF Traversed
  <2>11. GraphOk' /\ CallOk' /\ ExpandExact' /\ KernelOk'
    BY <1>1, <2>9, <2>10 DEF Expansion, GraphOk, CallOk, ExpandExact, KernelOk
  <2>12. FlowOk'
    BY <1>1, <1>2, <2>8, <2>9 DEF FlowOk
  <2>13. DeviceOk'
    <3>1. Outer' = Outer /\ Held' = Held /\ First("call", 0) = {} /\ InHand = 3
      BY <1>1, <1>2, <2>8, StageIs DEF Outer, Held, InHand
    <3>2. native.ptrs = Outer \cup First("call", 3) /\ device = Held \cup native.ptrs
      BY <1>2, <3>1 DEF DeviceOk
    <3>. QED
      BY <1>1, <2>8, <3>1, <3>2 DEF DeviceOk
  <2>14. ResultOk'
    <3>1. /\ Csr' = csr /\ call'.frontier = frontier /\ call'.relation = relation /\ graph'.n = n
          /\ call'.pc = call.pc
      BY <1>1, <2>1, <2>2, <2>9
    <3>. QED
      BY <2>7, <2>8, <3>1 DEF ResultOk
  <2>. QED
    BY <2>11, <2>12, <2>13, <2>14 DEF Expansion
<1>. QED
  BY <1>3, <1>4 DEF Collect


-----------------------------------------------------------------------------
(* The steps of the session and of the call *)

\* A call that ends with an error or has returned leaves nothing running.
LEMMA EndKeeps ==
  ASSUME Expansion, call' = NoCall, native' = NoNative, kernel' = NoKernel,
         UNCHANGED <<graph, session>>, device' = Held
  PROVE  Expansion'
<1>1. GraphOk' /\ KernelOk'
  BY DEF Expansion, GraphOk, KernelOk
<1>2. CallOk' /\ ExpandExact' /\ ResultOk'
  BY NoCallIs, NoNativeIs DEF CallOk, ExpandExact, ResultOk, Brought
<1>3. FlowOk'
  BY NoCallIs, NoNativeIs DEF Expansion, FlowOk
<1>4. DeviceOk'
  <2>1. Held' = Held
    BY DEF Held
  <2>. QED
    BY <2>1, NoNativeIs DEF DeviceOk
<1>. QED
  BY <1>1, <1>2, <1>3, <1>4 DEF Expansion

\* Nothing runs in the library: no kernel, and the device holds the open session.
LEMMA Quiet ==
  ASSUME Expansion, native.pc = "none"
  PROVE  native = NoNative /\ kernel = NoKernel /\ device = Held
BY DEF Expansion, FlowOk, DeviceOk

LEMMA SessionKeeps ==
  ASSUME Expansion, CreateSession \/ CloseSession
  PROVE  Expansion'
<1>1. call.pc = "idle" /\ native = NoNative /\ UNCHANGED <<graph, call, kernel, device>>
  BY DEF CreateSession, CloseSession
<1>2. FlowOk /\ kernel = NoKernel /\ device = Held /\ ~ call.resident
  BY <1>1, NoNativeIs, Quiet DEF Expansion, CallOk
<1>3. native'.pc # "free" \/ call'.pc = "idle"
  BY <1>1
<1>4. CASE CreateSession /\ native' = Entered("session")
  <2>1. session = "none" /\ session' = session
    BY <1>4 DEF CreateSession
  <2>2. /\ native' \in NativeType /\ native'.pc = "allocate" /\ native'.stage = "session"
        /\ native'.at = 1 /\ native'.ptrs = {}
    BY <1>4, NoNativeIs DEF Entered, NoNative, NativeType
  <2>3. FlowOk'
    BY <1>1, <1>2, <2>1, <2>2 DEF FlowOk, Csr
  <2>4. DeviceOk'
    <3>1. Outer' = {} /\ InHand' = 0 /\ Held' = Held /\ First("session", 0) = {}
      BY <2>1, <2>2, StageIs DEF Outer, InHand, Held
    <3>. QED
      BY <1>1, <1>2, <2>2, <3>1 DEF DeviceOk
  <2>. QED
    BY <1>1, <1>2, <2>2, <2>3, <2>4, LibraryKeeps DEF Brought
<1>5. CASE CreateSession /\ UNCHANGED native
  <2>1. session' = session
    BY <1>5 DEF CreateSession
  <2>2. FlowOk' /\ DeviceOk'
    <3>1. Held' = Held /\ native'.pc = "none"
      BY <1>1, <1>5, <2>1, NoNativeIs DEF Held
    <3>2. DeviceOk'
      BY <1>1, <1>2, <3>1 DEF DeviceOk
    <3>3. FlowOk'
      BY <1>1, <1>2, <1>5, <2>1, <3>1, NoNativeIs DEF FlowOk
    <3>. QED
      BY <3>2, <3>3
  <2>. QED
    BY <1>1, <1>2, <1>5, <2>2, NoNativeIs, LibraryKeeps DEF Brought
<1>6. CASE CloseSession
  <2>1. /\ session = "open" /\ session' = "closed"
        /\ native' = [NoNative EXCEPT !.pc = "free", !.stage = "session", !.ptrs = SessionBuffers]
    BY <1>6 DEF CloseSession
  <2>2. /\ native' \in NativeType /\ native'.pc = "free" /\ native'.stage = "session"
        /\ native'.at = 1 /\ native'.ptrs = SessionBuffers
    BY <2>1, NoNativeIs DEF NoNative, NativeType
  <2>3. FlowOk'
    BY <1>1, <1>2, <2>1, <2>2 DEF FlowOk, Csr
  <2>4. DeviceOk'
    <3>1. /\ Outer' = {} /\ Held' = {} /\ Held = SessionBuffers /\ First("session", 0) = {}
          /\ First("session", 3) = SessionBuffers
      BY <2>1, <2>2, StageIs DEF Outer, Held
    <3>. QED
      BY <1>1, <1>2, <2>2, <3>1 DEF DeviceOk
  <2>. QED
    BY <1>1, <1>2, <2>2, <2>3, <2>4, LibraryKeeps DEF Brought
<1>. QED
  BY <1>4, <1>5, <1>6 DEF CreateSession

LEMMA StartKeeps ==
  ASSUME Expansion, NEW resident \in BOOLEAN, NEW reverse \in BOOLEAN, NEW f \in Frontiers,
         NEW r \in Codes, NEW c \in Capacities, ExpandStart(resident, reverse, f, r, c)
  PROVE  Expansion'
<1>1. f \in Seq(Nat) /\ c \in Nat \cup {None}
  BY CallsAssumption
<1>2. call' = [pc |-> "probe", resident |-> resident, reverse |-> reverse, frontier |-> f, relation |-> r,
               capacity |-> c, required |-> 0, output |-> << >>]
  BY DEF ExpandStart, NoCall
<1>3. call' \in CallType
  BY <1>1, <1>2 DEF CallType
<1>4. /\ UNCHANGED <<graph, session, native, kernel, device>> /\ call.pc = "idle" /\ native = NoNative
      /\ resident => session = "open"
  BY DEF ExpandStart
<1>5. kernel = NoKernel /\ device = Held /\ session \in {"none", "open", "closed"}
  BY <1>4, NoNativeIs, Quiet DEF Expansion, FlowOk
<1>6. GraphOk' /\ KernelOk' /\ ExpandExact'
  BY <1>2, <1>4, <1>5 DEF Expansion, GraphOk, KernelOk, ExpandExact
<1>7. CallOk'
  BY <1>2, <1>3 DEF CallOk
<1>8. native' = NoNative /\ native'.pc = "none"
  BY <1>4, NoNativeIs
<1>9. FlowOk'
  <2>1. call'.resident = resident
    BY <1>2
  <2>. QED
    BY <1>4, <1>5, <1>8, <2>1, NoNativeIs DEF FlowOk
<1>10. DeviceOk' /\ ResultOk'
  <2>1. Held' = Held
    BY <1>4 DEF Held
  <2>. QED
    BY <1>4, <1>5, <1>8, <2>1 DEF DeviceOk, ResultOk, Brought
<1>. QED
  BY <1>6, <1>7, <1>9, <1>10 DEF Expansion

LEMMA CallKeeps ==
  ASSUME Expansion, Call
  PROVE  Expansion'
<1>1. /\ call.pc \in {"probe", "fill"} /\ native = NoNative /\ call.frontier # << >>
      /\ UNCHANGED <<graph, session, kernel, device>>
  BY DEF Call
<1>2. kernel = NoKernel /\ device = Held
  BY <1>1, NoNativeIs, Quiet
<1>3. CASE Raised /\ UNCHANGED native
  BY <1>1, <1>2, <1>3, EndKeeps DEF Raised
<1>4. CASE InRange /\ native' = Entered(IF call.resident THEN "call" ELSE "graph") /\ UNCHANGED call
  <2>1. call \in CallType /\ GraphOk /\ FlowOk
    BY DEF Expansion, CallOk
  <2>2. PICK m \in Nat, n \in Nat : n = graph.n /\ IsCsr(Csr, n, m)
    BY <2>1, CsrIs
  <2>3. Within(Csr, call.frontier, graph.n)
    <3>1. call.frontier \in Seq(Nat)
      BY <2>1 DEF CallType
    <3>2. \A i \in DOMAIN call.frontier : call.frontier[i] \in Nat /\ call.frontier[i] < n
      BY <1>4, <2>2, <3>1 DEF InRange
    <3>. QED
      BY <2>2, <3>2 DEF Within
  <2>4. /\ native' \in NativeType /\ native'.pc = "allocate" /\ native'.at = 1 /\ native'.ptrs = {}
        /\ native'.stage = IF call.resident THEN "call" ELSE "graph"
    BY <1>4, NoNativeIs DEF Entered, NoNative, NativeType
  <2>5. FlowOk'
    <3>1. Csr' = Csr
      BY <1>1, <1>4 DEF Csr
    <3>. QED
      BY <1>1, <1>2, <1>4, <2>1, <2>3, <2>4, <3>1 DEF FlowOk
  <2>6. DeviceOk'
    <3>1. Outer' = {} /\ InHand' = 0 /\ Held' = Held /\ First("call", 0) = {} /\ First("graph", 0) = {}
      BY <1>1, <1>4, <2>4, StageIs DEF Outer, InHand, Held
    <3>. QED
      BY <1>1, <1>2, <2>4, <3>1 DEF DeviceOk
  <2>. QED
    BY <1>1, <1>4, <2>4, <2>5, <2>6, LibraryKeeps DEF Brought
<1>. QED
  BY <1>3, <1>4 DEF Call

LEMMA NothingKeeps ==
  ASSUME Expansion, CallNothing
  PROVE  Expansion'
<1>1. /\ call.pc \in {"probe", "fill"} /\ call.frontier = << >>
      /\ call' = [call EXCEPT !.pc = "done"] /\ UNCHANGED <<graph, session, native, kernel, device>>
  BY DEF CallNothing
<1>2. native = NoNative /\ native.pc = "none" /\ kernel = NoKernel /\ device = Held
  <2>1. native.pc = "none"
    BY <1>1 DEF Expansion, FlowOk
  <2>. QED
    BY <2>1, Quiet
<1>3. call \in CallType /\ call.output = << >>
  BY <1>1 DEF Expansion, CallOk
<1>4. /\ call' \in CallType /\ call'.pc = "done" /\ call'.output = << >> /\ call'.frontier = << >>
      /\ call'.resident = call.resident
  BY <1>1, <1>3 DEF CallType
<1>5. GraphOk' /\ KernelOk' /\ ResultOk'
  BY <1>1, <1>2 DEF Expansion, GraphOk, KernelOk, ResultOk, Brought
<1>6. FlowOk'
  BY <1>1, <1>2, <1>4 DEF Expansion, FlowOk
<1>7. DeviceOk'
  <2>1. Held' = Held
    BY <1>1 DEF Held
  <2>. QED
    BY <1>1, <1>2, <2>1 DEF DeviceOk
<1>8. CallOk'
  BY <1>4 DEF CallOk
<1>9. ExpandExact'
  <2>1. DOMAIN call'.output = {} /\ DOMAIN call'.frontier = {}
    BY <1>4
  <2>2. \A v : Traversed(v)' = {}
    BY <2>1 DEF Traversed
  <2>3. \A v : {p \in DOMAIN call'.output : call'.output[p] = v} = {}
    BY <2>1
  <2>. QED
    BY <2>1, <2>2, <2>3 DEF ExpandExact
<1>. QED
  BY <1>5, <1>6, <1>7, <1>8, <1>9 DEF Expansion

LEMMA ReturnKeeps ==
  ASSUME Expansion, ExpandReturn
  PROVE  Expansion'
<1>1. call.pc = "done" /\ call' = NoCall /\ UNCHANGED <<graph, session, native, kernel, device>>
  BY DEF ExpandReturn
<1>2. native = NoNative /\ kernel = NoKernel /\ device = Held
  <2>1. native \in NativeType /\ native.pc = "none"
    BY <1>1 DEF Expansion, FlowOk
  <2>. QED
    BY <2>1, Quiet
<1>. QED
  BY <1>1, <1>2, EndKeeps

LEMMA NativeReturnKeeps ==
  ASSUME Expansion, NativeReturn
  PROVE  Expansion'
<1>1. Freed /\ ~ Nested /\ native' = NoNative /\ UNCHANGED <<graph, session, kernel, device>>
  BY DEF NativeReturn
<1>2. /\ FlowOk /\ native \in NativeType /\ native.pc = "free"
      /\ native.stage \in {"session", "graph", "call"}
      /\ native.ptrs \subseteq Outer \cup First(native.stage, 3)
      /\ device = Held \cup (native.ptrs \ First(native.stage, 3))
  BY <1>1, FreedIs
<1>3. device' = Held /\ kernel = NoKernel
  <2>1. Outer = {}
    BY <1>1 DEF Outer, Nested
  <2>. QED
    BY <1>1, <1>2, <2>1 DEF FlowOk
<1>4. call \in CallType /\ GraphOk /\ CallOk /\ native.status \in {"ok", "error"}
  BY <1>2 DEF Expansion, CallOk, NativeType
<1>5. CASE call' = NoCall
  BY <1>1, <1>3, <1>5, EndKeeps
<1>6. ASSUME call'.resident = call.resident PROVE FlowOk' /\ DeviceOk' /\ KernelOk' /\ GraphOk' /\ ResultOk'
  <2>1. Held' = Held /\ native'.pc = "none"
    BY <1>1, NoNativeIs DEF Held
  <2>2. DeviceOk' /\ KernelOk' /\ ResultOk'
    BY <1>1, <1>3, <2>1 DEF DeviceOk, KernelOk, ResultOk, Brought
  <2>3. FlowOk'
    BY <1>1, <1>2, <1>3, <1>6, <2>1, NoNativeIs DEF FlowOk
  <2>4. GraphOk'
    BY <1>1, <1>4 DEF GraphOk
  <2>. QED
    BY <2>2, <2>3, <2>4
<1>7. CASE call.pc = "idle" /\ UNCHANGED call
  <2>1. CallOk' /\ ExpandExact'
    BY <1>1, <1>4, <1>7 DEF CallOk, ExpandExact
  <2>. QED
    BY <1>6, <1>7, <2>1 DEF Expansion
<1>8. PICK csr, frontier, relation, n, count, out :
        /\ csr = Csr /\ frontier = call.frontier /\ relation = call.relation /\ n = graph.n
        /\ count = native.count /\ out = native.out
  OBVIOUS
<1>9. count \in Nat /\ out \in Seq(Nat)
  BY <1>2, <1>8 DEF NativeType
<1>10. native.status = "ok" /\ call.pc # "idle" => PassResult(csr, frontier, relation, n, call.pc, count, out)
  BY <1>2, <1>8 DEF Expansion, ResultOk, Brought
<1>11. CASE call.pc = "probe" /\ ~ Unusable /\ call' = [call EXCEPT !.pc = "fill", !.required = native.count]
  <2>1. native.status = "ok" /\ ~ (call.capacity # None /\ call.capacity < count)
    BY <1>4, <1>8, <1>11 DEF Unusable
  <2>2. count = Cardinality(Due(csr, frontier, relation))
    BY <1>10, <1>11, <2>1 DEF PassResult
  <2>3. /\ call' \in CallType /\ call'.pc = "fill" /\ call'.required = count
        /\ call'.output = << >> /\ call'.resident = call.resident /\ call'.reverse = call.reverse
        /\ call'.frontier = frontier /\ call'.relation = relation /\ call'.capacity = call.capacity
    BY <1>4, <1>8, <1>9, <1>11 DEF CallType, CallOk
  <2>4. Csr' = csr
    BY <1>1, <1>8, <2>3 DEF Csr
  <2>5. call.capacity # None => count <= call.capacity
    <3>1. call.capacity \in Nat \cup {None}
      BY <1>4 DEF CallType
    <3>. QED
      BY <1>9, <2>1, <3>1
  <2>6. CallOk' /\ ExpandExact'
    BY <2>2, <2>3, <2>4, <2>5 DEF CallOk, ExpandExact
  <2>. QED
    BY <1>6, <2>3, <2>6 DEF Expansion
<1>12. CASE call.pc = "fill" /\ ~ Unusable /\ call' = [call EXCEPT !.pc = "done", !.output = native.out]
  <2>1. native.status = "ok"
    BY <1>4, <1>12 DEF Unusable
  <2>2. /\ DOMAIN out = 1 .. count /\ \A p \in 1 .. count : out[p] \in 0 .. n - 1
        /\ \A v \in 0 .. n - 1 :
             Cardinality(Listed(out, v)) = Cardinality(Into(Due(csr, frontier, relation), csr, v))
    BY <1>10, <1>12, <2>1 DEF PassResult
  <2>3. /\ call' \in CallType /\ call'.pc = "done" /\ call'.output = out
        /\ call'.resident = call.resident /\ call'.reverse = call.reverse
        /\ call'.frontier = frontier /\ call'.relation = relation
    BY <1>4, <1>8, <1>9, <1>12 DEF CallType
  <2>4. Csr' = csr /\ graph'.n = n
    BY <1>1, <1>8, <2>3 DEF Csr
  <2>5. ASSUME NEW v \in 0 .. n - 1
        PROVE  Cardinality({p \in DOMAIN out : out[p] = v}) = Cardinality(Traversed(v)')
    <3>1. Traversed(v)' = Into(Due(csr, frontier, relation), csr, v)
      BY <2>3, <2>4 DEF Traversed, Into, Due, Starts, Stops
    <3>. QED
      BY <2>2, <3>1 DEF Listed
  <2>6. ExpandExact'
    BY <2>2, <2>3, <2>4, <2>5 DEF ExpandExact
  <2>7. CallOk'
    BY <2>3 DEF CallOk
  <2>. QED
    BY <1>6, <2>3, <2>6, <2>7 DEF Expansion
<1>. QED
  BY <1>5, <1>7, <1>11, <1>12 DEF NativeReturn, Raised


LEMMA CudaStarts ==
  ASSUME Init
  PROVE  CudaInv
<1>1. /\ session = "none" /\ call = NoCall /\ native = NoNative /\ kernel = NoKernel /\ device = {}
      /\ cudaCalls = 0 /\ cudaFaults = 0
  BY DEF Init, CudaInit
<1>2. cudaCalls \in 0 .. MaxCalls /\ cudaFaults \in 0 .. MaxFaults
  BY <1>1, CudaAssumption
<1>3. ASSUME job = "expand" PROVE Expansion
  <2>1. PICK rows \in DeviceRows : graph = Compile(rows)
    BY <1>3 DEF Init, CudaInit
  <2>2. GraphOk
    BY <2>1, RowsAssumption, CompiledIsOk
  <2>3. CallOk /\ ExpandExact
    BY <1>1, NoCallIs DEF CallOk, ExpandExact
  <2>4. KernelOk /\ ResultOk
    BY <1>1, NoNativeIs DEF KernelOk, ResultOk, Brought
  <2>5. FlowOk
    BY <1>1, NoCallIs, NoNativeIs DEF FlowOk
  <2>6. DeviceOk
    BY <1>1, NoNativeIs DEF DeviceOk, Held
  <2>. QED
    BY <2>2, <2>3, <2>4, <2>5, <2>6 DEF Expansion
<1>. QED
  BY <1>1, <1>2, <1>3 DEF CudaInv

\* Every step of an expansion.
LEMMA ExpansionSteps ==
  ASSUME Expansion, CudaNext(Frontiers, Codes, Capacities)
  PROVE  Expansion'
<1>1. CASE CreateSession \/ CloseSession
  BY <1>1, SessionKeeps
<1>2. CASE \E resident, reverse \in BOOLEAN, f \in Frontiers, r \in Codes, c \in Capacities :
             ExpandStart(resident, reverse, f, r, c)
  BY <1>2, StartKeeps
<1>3. CASE Call \/ CallNothing
  BY <1>3, CallKeeps, NothingKeeps
<1>4. CASE Allocate \/ Copy
  BY <1>4, AllocateKeeps, CopyKeeps
<1>5. CASE SessionCreated \/ GraphUploaded
  BY <1>5, UploadedKeeps
<1>6. CASE Launch \/ Collect
  BY <1>6, LaunchKeeps, CollectKeeps
<1>7. CASE \E i \in DOMAIN call.frontier : ThreadStep(i)
  BY <1>7, ThreadKeeps
<1>8. CASE Free \/ RunReturn
  BY <1>8, FreeKeeps, RunReturnKeeps
<1>9. CASE NativeReturn \/ ExpandReturn
  BY <1>9, NativeReturnKeeps, ReturnKeeps
<1>. QED
  BY <1>1, <1>2, <1>3, <1>4, <1>5, <1>6, <1>7, <1>8, <1>9 DEF CudaNext

\* The bounds of the model are kept.
LEMMA CountersStep ==
  ASSUME cudaCalls \in 0 .. MaxCalls, cudaFaults \in 0 .. MaxFaults,
         CudaNext(Frontiers, Codes, Capacities)
  PROVE  cudaCalls' \in 0 .. MaxCalls /\ cudaFaults' \in 0 .. MaxFaults
<1>1. Fault => cudaFaults' \in 0 .. MaxFaults
  BY CudaAssumption DEF Fault
<1>2. ASSUME NEW resident \in BOOLEAN, NEW reverse \in BOOLEAN, NEW f \in Frontiers, NEW r \in Codes,
             NEW c \in Capacities, ExpandStart(resident, reverse, f, r, c)
      PROVE  cudaCalls' \in 0 .. MaxCalls /\ cudaFaults' = cudaFaults
  BY <1>2, CudaAssumption DEF ExpandStart
<1>3. CASE \E resident, reverse \in BOOLEAN, f \in Frontiers, r \in Codes, c \in Capacities :
             ExpandStart(resident, reverse, f, r, c)
  BY <1>2, <1>3
<1>4. CASE CreateSession \/ CloseSession \/ Call \/ CallNothing
  BY <1>1, <1>4 DEF CreateSession, CloseSession, Call, CallNothing
<1>5. CASE Allocate \/ Copy \/ SessionCreated \/ GraphUploaded \/ Launch
  BY <1>1, <1>5 DEF Allocate, Copy, SessionCreated, GraphUploaded, Launch
<1>6. CASE Collect \/ Free \/ RunReturn \/ NativeReturn \/ ExpandReturn
  BY <1>1, <1>6 DEF Collect, Free, RunReturn, NativeReturn, ExpandReturn
<1>7. CASE \E i \in DOMAIN call.frontier : ThreadStep(i)
  BY <1>7 DEF ThreadStep
<1>. QED
  BY <1>3, <1>4, <1>5, <1>6, <1>7 DEF CudaNext

LEMMA CudaSteps ==
  ASSUME CudaInv, [Next]_vars
  PROVE  CudaInv'
<1>1. CASE RunExpand
  <2>1. job = "expand" /\ job' = job /\ CudaNext(Frontiers, Codes, Capacities) /\ Expansion
        /\ cudaCalls \in 0 .. MaxCalls /\ cudaFaults \in 0 .. MaxFaults
    BY <1>1 DEF RunExpand, CudaInv
  <2>2. Expansion'
    BY <2>1, ExpansionSteps
  <2>3. cudaCalls' \in 0 .. MaxCalls /\ cudaFaults' \in 0 .. MaxFaults
    BY <2>1, CountersStep
  <2>. QED
    BY <2>1, <2>2, <2>3 DEF CudaInv
<1>2. CASE UNCHANGED <<job, cudaVars>>
  <2>1. UNCHANGED <<job, graph, session, call, native, kernel, device, cudaCalls, cudaFaults>>
    BY <1>2 DEF cudaVars
  <2>2. Csr' = Csr /\ Capacity' = Capacity
    BY <2>1 DEF Csr, Capacity
  <2>3. \A v : Traversed(v)' = Traversed(v)
    BY <2>1, <2>2 DEF Traversed
  <2>4. GraphOk' <=> GraphOk
    BY <2>1 DEF GraphOk
  <2>5. CallOk' <=> CallOk
    BY <2>1, <2>2 DEF CallOk
  <2>6. (FlowOk' <=> FlowOk) /\ (KernelOk' <=> KernelOk) /\ (ResultOk' <=> ResultOk)
    BY <2>1, <2>2 DEF FlowOk, KernelOk, ResultOk, Brought
  <2>7. DeviceOk' <=> DeviceOk
    <3>1. Held' = Held /\ Outer' = Outer /\ InHand' = InHand
      BY <2>1 DEF Held, Outer, InHand
    <3>. QED
      BY <2>1, <3>1 DEF DeviceOk
  <2>8. ExpandExact' <=> ExpandExact
    BY <2>1, <2>3 DEF ExpandExact
  <2>. QED
    BY <2>1, <2>4, <2>5, <2>6, <2>7, <2>8 DEF CudaInv, Expansion
<1>3. UNCHANGED <<job, cudaVars>> \/ RunExpand
  BY DEF Next, RunCompile, RunNearest, RunBaselines, vars
<1>. QED
  BY <1>1, <1>2, <1>3

(* cuda_backend.py:80-107, 165-224: whatever the graph, the frontier, the relation and
   the capacity, and in whatever order the threads run, an expansion that returns has
   returned one node per traversed edge. *)
THEOREM ExpandAlwaysExact == Spec => []ExpandExact
<1>1. CudaInv => ExpandExact
  BY NoCallIs DEF CudaInv, Expansion, ExpandExact
<1>2. Init => CudaInv
  BY CudaStarts
<1>3. CudaInv /\ [Next]_vars => CudaInv'
  BY CudaSteps
<1>. QED
  BY <1>1, <1>2, <1>3, PTL DEF Spec

\* What the three parts of NoDeviceLeak say of an expansion.
LEMMA LeaksNothing ==
  ASSUME Expansion
  PROVE  NoDeviceLeak
<1>1. FlowOk /\ DeviceOk /\ native \in NativeType /\ native.at \in 1 .. 4
      /\ native.stage \in {"session", "graph", "call"}
  BY DEF Expansion, FlowOk, NativeType
<1>2. native = NoNative => device = IF session = "open" THEN SessionBuffers ELSE {}
  BY NoNativeIs, Quiet DEF Held
<1>3. ASSUME native.pc = "free", NEW j \in native.at .. Len(Cleanup(native.stage)),
             Cleanup(native.stage)[j] \in native.ptrs
      PROVE  Cleanup(native.stage)[j] \in device
  <2>1. Len(Buffers[native.stage]) = 3 /\ Cleanup(native.stage) = Buffers[native.stage]
    BY <1>1, StageBuffers
  <2>2. PICK at \in 1 .. 4 : at = native.at
    BY <1>1
  <2>3. j \in 1 .. 3 /\ at - 1 \in 0 .. j - 1
    <3>1. PICK last : last = Len(Cleanup(native.stage)) /\ last = 3
      BY <2>1
    <3>2. j \in at .. 3
      BY <2>2, <3>1
    <3>. QED
      BY <3>2
  <2>4. Buffers[native.stage][j] \notin First(native.stage, j - 1)
    BY <1>1, <2>3, FirstIs
  <2>5. First(native.stage, at - 1) \subseteq First(native.stage, j - 1)
    <3>1. 1 .. at - 1 \subseteq 1 .. j - 1
      BY <2>2, <2>3
    <3>. QED
      BY <3>1 DEF First
  <2>6. device = Held \cup (native.ptrs \ First(native.stage, at - 1))
    BY <1>1, <1>3, <2>2 DEF DeviceOk
  <2>. QED
    BY <1>3, <2>1, <2>4, <2>5, <2>6
<1>4. ASSUME kernel # NoKernel
      PROVE  CallBuffers \cup (IF call.resident THEN SessionBuffers ELSE GraphBuffers) \subseteq device
  <2>1. native.pc = "run" /\ native.stage = "call" /\ native.at = 4 /\ (call.resident => session = "open")
    BY <1>1, <1>4 DEF FlowOk
  <2>2. First("call", 3) = CallBuffers /\ InHand = 3
    BY <2>1, StageIs DEF InHand
  <2>3. device = Held \cup Outer \cup CallBuffers
    BY <1>1, <2>1, <2>2 DEF DeviceOk
  <2>. QED
    BY <2>1, <2>3 DEF Held, Outer
<1>. QED
  BY <1>2, <1>3, <1>4 DEF NoDeviceLeak

(* neuroseek_cuda.cu:38-46, 105-125, 170-180, 194-218: whichever of the allocations,
   copies, launches and releases failed, and with however many buffers allocated by
   then, the clean-up of each function of the library brings the device back to the
   arrays of an open session, frees nothing that is not allocated, and no kernel runs
   on a buffer that is not there. *)
THEOREM DeviceNeverLeaks == Spec => []NoDeviceLeak
<1>1. CudaInv => NoDeviceLeak
  <2>. SUFFICES ASSUME CudaInv PROVE NoDeviceLeak
    OBVIOUS
  <2>1. CASE job = "expand"
    BY <2>1, LeaksNothing DEF CudaInv
  <2>2. CASE job # "expand"
    BY <2>2, NoNativeIs DEF CudaInv, NoDeviceLeak
  <2>. QED
    BY <2>1, <2>2
<1>2. Init => CudaInv
  BY CudaStarts
<1>3. CudaInv /\ [Next]_vars => CudaInv'
  BY CudaSteps
<1>. QED
  BY <1>1, <1>2, <1>3, PTL DEF Spec

LEMMA CudaTyped ==
  ASSUME CudaInv
  PROVE  CudaTypeOK
<1>1. CASE job # "expand"
  <2>1. /\ session = "none" /\ call = NoCall /\ native = NoNative /\ kernel = NoKernel /\ device = {}
        /\ cudaCalls \in 0 .. MaxCalls /\ cudaFaults \in 0 .. MaxFaults
    BY <1>1 DEF CudaInv
  <2>2. native.stage = "session"
    BY <2>1 DEF NoNative
  <2>. QED
    BY <2>1, <2>2, NoCallIs, NoNativeIs DEF CudaTypeOK, Buffers
<1>2. CASE job = "expand"
  <2>1. Expansion /\ cudaCalls \in 0 .. MaxCalls /\ cudaFaults \in 0 .. MaxFaults
    BY <1>2 DEF CudaInv
  <2>2. FlowOk /\ DeviceOk /\ native \in NativeType /\ native.at \in 1 .. 4
    BY <2>1 DEF Expansion, FlowOk
  <2>3. /\ native.pc \in {"none", "allocate", "copy", "run", "free"}
        /\ native.stage \in {"session", "graph", "call"}
        /\ native.ptrs \subseteq SessionBuffers \cup GraphBuffers \cup CallBuffers
    BY <2>2 DEF NativeType
  <2>4. device \subseteq SessionBuffers \cup GraphBuffers \cup CallBuffers
    BY <2>2, <2>3 DEF DeviceOk, Held
  <2>5. kernel # NoKernel => kernel.count \in Nat /\ DOMAIN kernel.out = 0 .. Capacity - 1
    BY <2>1 DEF Expansion, KernelOk, KernelType
  <2>6. call.pc \in {"idle", "probe", "fill", "done"}
    BY <2>1 DEF Expansion, CallOk, CallType
  <2>7. DOMAIN Buffers = {"session", "graph", "call"}
    BY DEF Buffers
  <2>8. session \in {"none", "open", "closed"} /\ (native.pc = "run" <=> kernel # NoKernel)
    BY <2>2 DEF FlowOk
  <2>. QED
    BY <2>1, <2>2, <2>3, <2>4, <2>5, <2>6, <2>7, <2>8 DEF CudaTypeOK
<1>. QED
  BY <1>1, <1>2

-----------------------------------------------------------------------------
(* The shapes *)

Reported(report, i) ==
  "plan" \in DOMAIN report /\ "credits" \in DOMAIN report /\ report.plan = Plans[i] /\ report.credits \in Nat

\* A report names the baseline whose turn it was, and a running search is the next one.
SearchInv ==
  /\ {"pc", "plan", "credits"} \subseteq DOMAIN search
  /\ search.pc \in {"idle", "hop", "constraint"}
  /\ search.pc # "idle" => search.plan = Plans[Len(reports) + 1] /\ search.credits \in Nat
                           /\ Len(reports) < 3
  /\ Len(reports) \in 0 .. 3 /\ \E R : reports \in Seq(R)
  /\ \A i \in 1 .. Len(reports) : Reported(reports[i], i)

LEMMA ResultIsReport ==
  ASSUME NEW s, NEW applicable, NEW answers, NEW valid, NEW steps, NEW proof, NEW exhausted, NEW i,
         s.plan = Plans[i], s.credits \in Nat
  PROVE  Reported(Result(s, applicable, answers, valid, steps, proof, exhausted), i)
BY DEF Reported, Result

LEMMA ReportKeeps ==
  ASSUME SearchInv, Len(reports) < 3, NEW result, Reported(result, Len(reports) + 1), Report(result)
  PROVE  SearchInv'
<1>1. reports' = Append(reports, result) /\ search' = NoSearch
  BY DEF Report
<1>2. PICK R : reports \in Seq(R)
  BY DEF SearchInv
<1>3. reports \in Seq(R \cup {result})
  BY <1>2
<1>4. /\ reports' \in Seq(R \cup {result}) /\ Len(reports') = Len(reports) + 1
      /\ \A i \in 1 .. Len(reports) : reports'[i] = reports[i]
      /\ reports'[Len(reports) + 1] = result
  BY <1>1, <1>3
<1>5. Len(reports') \in 0 .. 3
  BY <1>4 DEF SearchInv
<1>6. search'.pc = "idle" /\ {"pc", "plan", "credits"} \subseteq DOMAIN search'
  BY <1>1 DEF NoSearch
<1>7. \A i \in 1 .. Len(reports') : Reported(reports'[i], i)
  BY <1>4 DEF SearchInv
<1>. QED
  BY <1>4, <1>5, <1>6, <1>7 DEF SearchInv

\* A search that goes on is still the same baseline's.
LEMMA SearchGoesOn ==
  ASSUME SearchInv, search.pc \in {"hop", "constraint"}, search'.pc = search.pc, search'.plan = search.plan,
         search'.credits \in Nat, {"pc", "plan", "credits"} \subseteq DOMAIN search', reports' = reports
  PROVE  SearchInv'
BY DEF SearchInv

LEMMA NodesAreCounted ==
  ASSUME NEW S \in SUBSET Graph
  PROVE  Cardinality({e.dst : e \in S}) \in Nat
<1>1. {e.dst : e \in S} \subseteq Nodes
  BY TaskAssumption DEF Edge
<1>. QED
  BY <1>1, TaskAssumption, FS_Subset, FS_CardinalityType

LEMMA SearchSteps ==
  ASSUME SearchInv, BaselineNext
  PROVE  SearchInv'
<1>1. CASE SearchStart
  <2>1. search.pc = "idle" /\ Len(reports) < 3 /\ Len(reports) \in Nat
    BY <1>1 DEF SearchStart, Plans, SearchInv
  <2>2. PICK plan, s, t : /\ plan = Plans[Len(reports) + 1] /\ s = [NoSearch EXCEPT !.plan = plan]
                       /\ t = Result(s, FALSE, NoAnswer, FALSE, 0, << >>, FALSE)
    OBVIOUS
  <2>3. s.plan = plan /\ s.credits = 0
    BY <2>2 DEF NoSearch
  <2>4. CASE /\ search'.pc \in {"hop", "constraint"} /\ search'.plan = plan /\ search'.credits = 0
             /\ {"pc", "plan", "credits"} \subseteq DOMAIN search' /\ reports' = reports
    BY <2>1, <2>2, <2>4 DEF SearchInv
  <2>5. CASE query.family \in PathFamilies /\ plan = "hybrid" /\ Report([reports[1] EXCEPT !.plan = plan])
    <3>1. Len(reports) + 1 = 3
      BY <2>1, <2>2, <2>5 DEF Plans
    <3>2. Reported(reports[1], 1)
      BY <2>1, <3>1 DEF SearchInv
    <3>3. Reported([reports[1] EXCEPT !.plan = plan], Len(reports) + 1)
      BY <2>2, <3>2 DEF Reported
    <3>. QED
      BY <2>1, <2>5, <3>3, ReportKeeps
  <2>6. CASE Report(t)
    <3>1. Reported(t, Len(reports) + 1)
      <4>1. PICK i : i = Len(reports) + 1
        OBVIOUS
      <4>2. s.plan = Plans[i] /\ s.credits \in Nat
        BY <2>2, <2>3, <4>1
      <4>3. Reported(Result(s, FALSE, NoAnswer, FALSE, 0, << >>, FALSE), i)
        BY ONLY <4>2, ResultIsReport
      <4>. QED
        BY <2>2, <4>1, <4>3
    <3>. QED
      BY <2>1, <2>6, <3>1, ReportKeeps
  <2>. QED
    BY <1>1, <2>2, <2>4, <2>5, <2>6 DEF SearchStart, NoSearch
<1>2. CASE SearchHop
  <2>1. /\ search.pc = "hop" /\ search.plan = Plans[Len(reports) + 1] /\ search.credits \in Nat
        /\ Len(reports) < 3
    BY <1>2 DEF SearchHop, SearchInv
  <2>2. PICK followed, next, s :
          /\ followed = Followed(search) /\ next = {e.dst : e \in followed}
          /\ s = [search EXCEPT !.depth = @ + 1, !.frontier = next, !.parents = Parents(search, followed),
                             !.edges = @ + Cardinality(OutOf(search.frontier)),
                             !.nodes = @ + Cardinality(next), !.credits = @ + 1 + Cardinality(next)]
    OBVIOUS
  <2>3. Cardinality(next) \in Nat
    <3>1. followed \in SUBSET Graph
      BY <2>2 DEF Followed, OutOf
    <3>. QED
      BY <2>2, <3>1, NodesAreCounted
  <2>4. /\ s.plan = search.plan /\ s.pc = search.pc /\ s.credits \in Nat
        /\ {"pc", "plan", "credits"} \subseteq DOMAIN s
    BY <2>1, <2>2, <2>3 DEF SearchInv
  <2>5. CASE search' = s /\ reports' = reports
    BY <2>1, <2>4, <2>5, SearchGoesOn
  <2>6. ASSUME NEW applicable, NEW answers, NEW valid, NEW steps, NEW proof, NEW exhausted,
               Report(Result(s, applicable, answers, valid, steps, proof, exhausted))
        PROVE  SearchInv'
    <3>1. Reported(Result(s, applicable, answers, valid, steps, proof, exhausted), Len(reports) + 1)
      BY <2>1, <2>4, ResultIsReport
    <3>. QED
      BY <2>1, <2>6, <3>1, ReportKeeps
  <2>. QED
    BY <1>2, <2>2, <2>5, <2>6, ZenonT(60) DEF SearchHop
<1>3. CASE SearchConstraint
  <2>1. /\ search.pc = "constraint" /\ search.plan = Plans[Len(reports) + 1] /\ search.credits \in Nat
        /\ Len(reports) < 3
    BY <1>3 DEF SearchConstraint, SearchInv
  <2>2. PICK c, reached, s :
          /\ c = query.constraints[search.depth + 1]
          /\ reached = {e.dst : e \in {f \in Out(c[1]) : f.relation = c[2]}}
          /\ s = [search EXCEPT !.depth = @ + 1, !.frontier = Candidates(search, reached),
                             !.edges = @ + Cardinality(Out(c[1])),
                             !.nodes = @ + Cardinality(reached), !.credits = @ + 1 + Cardinality(reached)]
    OBVIOUS
  <2>3. Cardinality(reached) \in Nat
    <3>1. {f \in Out(c[1]) : f.relation = c[2]} \in SUBSET Graph
      BY DEF Out
    <3>. QED
      BY <2>2, <3>1, NodesAreCounted
  <2>4. /\ s.plan = search.plan /\ s.pc = search.pc /\ s.credits \in Nat
        /\ {"pc", "plan", "credits"} \subseteq DOMAIN s
    <3>1. PICK p \in Nat : p = search.credits + 1 + Cardinality(reached)
      BY <2>1, <2>3
    <3>2. {"pc", "plan", "credits"} \subseteq DOMAIN search
      BY DEF SearchInv
    <3>3. /\ s.plan = search.plan /\ s.pc = search.pc /\ s.credits = p
          /\ DOMAIN s = DOMAIN search
      BY ONLY <2>2, <3>1, <3>2
    <3>. QED
      BY ONLY <3>1, <3>2, <3>3
  <2>5. CASE search' = s /\ reports' = reports
    BY <2>1, <2>4, <2>5, SearchGoesOn
  <2>6. ASSUME NEW applicable, NEW answers, NEW valid, NEW steps, NEW proof, NEW exhausted,
               Report(Result(s, applicable, answers, valid, steps, proof, exhausted))
        PROVE  SearchInv'
    <3>1. Reported(Result(s, applicable, answers, valid, steps, proof, exhausted), Len(reports) + 1)
      BY <2>1, <2>4, ResultIsReport
    <3>. QED
      BY <2>1, <2>6, <3>1, ReportKeeps
  <2>. QED
    BY <1>3, <2>2, <2>5, <2>6, ZenonT(60) DEF SearchConstraint
<1>. QED
  BY <1>1, <1>2, <1>3 DEF BaselineNext

LEMMA SearchStarts ==
  ASSUME Init
  PROVE  SearchInv
<1>1. search = NoSearch /\ reports = << >>
  BY DEF Init, BaselineInit
<1>2. reports \in Seq({}) /\ Len(reports) = 0
  BY <1>1
<1>3. DOMAIN search = {"pc", "plan", "depth", "frontier", "parents", "edges", "nodes", "credits"}
      /\ search.pc = "idle"
  BY <1>1 DEF NoSearch
<1>4. \E R : reports \in Seq(R)
  BY <1>2
<1>5. \A i \in 1 .. Len(reports) : Reported(reports[i], i)
  BY <1>2
<1>. QED
  BY <1>2, <1>3, <1>4, <1>5 DEF SearchInv

LEMMA SearchGoes ==
  ASSUME SearchInv, [Next]_vars
  PROVE  SearchInv'
<1>1. CASE BaselineNext
  BY <1>1, SearchSteps
<1>2. CASE UNCHANGED baselineVars
  BY <1>2 DEF SearchInv, baselineVars
<1>. QED
  BY <1>1, <1>2 DEF Next, RunCompile, RunNearest, RunExpand, RunBaselines, vars

(* Whatever job runs, its state keeps its shape, and the reports name the baselines in
   their order. *)
THEOREM BackendsTypeOK == Spec => []TypeOK
<1>. DEFINE JobOk == job \in {"compile", "expand", "nearest", "baseline"}
<1>1. CudaInv /\ SearchInv /\ JobOk => TypeOK
  <2>. SUFFICES ASSUME CudaInv, SearchInv, JobOk PROVE TypeOK
    OBVIOUS
  <2>1. CudaTypeOK
    BY CudaTyped
  <2>2. /\ search.pc \in {"idle", "hop", "constraint"} /\ Len(reports) <= Len(Plans)
        /\ \A i \in DOMAIN reports : reports[i].plan = Plans[i] /\ reports[i].credits \in Nat
    BY DEF SearchInv, Reported, Plans
  <2>. QED
    BY <2>1, <2>2 DEF TypeOK
<1>2. Init => CudaInv /\ SearchInv /\ JobOk
  <2>. SUFFICES ASSUME Init PROVE CudaInv /\ SearchInv /\ JobOk
    OBVIOUS
  <2>. QED
    BY SearchStarts, CudaStarts DEF Init
<1>3. CudaInv /\ SearchInv /\ JobOk /\ [Next]_vars => (CudaInv /\ SearchInv /\ JobOk)'
  <2>. SUFFICES ASSUME CudaInv, SearchInv, JobOk, [Next]_vars PROVE (CudaInv /\ SearchInv /\ JobOk)'
    OBVIOUS
  <2>1. CudaInv'
    BY CudaSteps
  <2>2. SearchInv'
    BY SearchGoes
  <2>3. JobOk'
    BY DEF Next, RunCompile, RunNearest, RunExpand, RunBaselines, vars
  <2>. QED
    BY <2>1, <2>2, <2>3
<1>. QED
  BY <1>1, <1>2, <1>3, PTL DEF Spec

-----------------------------------------------------------------------------
(* Nearest vectors: the order of the rows *)

LEMMA AheadIsOrder ==
  ASSUME NEW scores \in Seq(Int), NEW a \in Rows(scores), NEW b \in Rows(scores), NEW c \in Rows(scores)
  PROVE  /\ ~ Ahead(scores, a, a)
         /\ Ahead(scores, a, b) => ~ Ahead(scores, b, a)
         /\ a # b => Ahead(scores, a, b) \/ Ahead(scores, b, a)
         /\ Ahead(scores, a, b) /\ Ahead(scores, b, c) => Ahead(scores, a, c)
<1>1. Len(scores) \in Nat /\ a + 1 \in 1 .. Len(scores) /\ b + 1 \in 1 .. Len(scores) /\ c + 1 \in 1 .. Len(scores)
      /\ a \in Int /\ b \in Int /\ c \in Int
  BY DEF Rows
<1>2. PICK x \in Int, y \in Int, z \in Int :
        x = Score(scores, a) /\ y = Score(scores, b) /\ z = Score(scores, c)
  <2>1. \A i \in 1 .. Len(scores) : scores[i] \in Int
    OBVIOUS
  <2>2. scores[a + 1] \in Int /\ scores[b + 1] \in Int /\ scores[c + 1] \in Int
    BY ONLY <1>1, <2>1
  <2>. QED
    BY <2>2 DEF Score
<1>. QED
  BY <1>1, <1>2, SMTT(60) DEF Ahead

\* The candidate that every other one is behind.
IsFirst(scores, C, a) == a \in C /\ \A b \in C \ {a} : Ahead(scores, a, b)

\* The scan of the kernel finds the first of the rows not taken yet.
ScanOf(scores, taken, best) ==
  best = [i \in 0 .. Len(scores) |->
           IF i = 0 THEN -1
           ELSE IF i - 1 \notin taken
                   /\ (best[i - 1] = -1 \/ Score(scores, i - 1) > Score(scores, best[i - 1]))
           THEN i - 1 ELSE best[i - 1]]

LEMMA ScanExists ==
  ASSUME NEW scores \in Seq(Int), NEW taken
  PROVE  \E best : ScanOf(scores, taken, best) /\ Scanned(scores, taken) = best[Len(scores)]
<1>1. PICK n \in Nat : n = Len(scores)
  OBVIOUS
<1>. DEFINE S == (0 .. n - 1) \cup {-1}
            next(x, i) == IF i - 1 \notin taken /\ (x = -1 \/ Score(scores, i - 1) > Score(scores, x))
                          THEN i - 1 ELSE x
<1>2. PICK step : step = [i \in 1 .. n |-> [x \in S |-> next(x, i)]]
  OBVIOUS
<1>3. step \in Steps(n, S)
  <2>1. \A i \in 1 .. n : \A x \in S : next(x, i) \in S
    <3>1. \A i \in 1 .. n : i - 1 \in 0 .. n - 1
      OBVIOUS
    <3>. QED
      BY <3>1
  <2>. HIDE DEF next, S
  <2>. QED
    BY <1>2, <2>1 DEF Steps
<1>4. PICK g : Follows(g, n, S, -1, step)
  <2>1. -1 \in S
    OBVIOUS
  <2>. HIDE DEF S
  <2>. QED
    BY <1>3, <2>1, StepByStep
<1>5. g = [i \in 0 .. n |-> IF i = 0 THEN -1 ELSE next(g[i - 1], i)]
  <2>. HIDE DEF next, S
  <2>1. \A i \in 1 .. n : g[i - 1] \in S
    BY ONLY <1>4, n \in Nat DEF Follows
  <2>2. \A i \in 1 .. n : step[i][g[i - 1]] = next(g[i - 1], i)
    BY <1>2, <2>1
  <2>. QED
    BY <1>4, <2>2 DEF Follows
<1>6. ScanOf(scores, taken, g)
  BY <1>1, <1>5 DEF ScanOf
<1>. DEFINE h == CHOOSE best : ScanOf(scores, taken, best)
<1>7. ScanOf(scores, taken, h)
  BY <1>6
<1>8. Scanned(scores, taken) = h[Len(scores)]
  BY DEF Scanned, ScanOf
<1>. QED
  BY <1>7, <1>8

LEMMA ScannedIs ==
  ASSUME NEW scores \in Seq(Int), NEW taken, NEW C, C = Rows(scores) \ taken
  PROVE  IF C = {} THEN Scanned(scores, taken) = -1 ELSE IsFirst(scores, C, Scanned(scores, taken))
<1>1. PICK best : ScanOf(scores, taken, best) /\ Scanned(scores, taken) = best[Len(scores)]
  BY ScanExists
<1>2. PICK n \in Nat : n = Len(scores)
  OBVIOUS
<1>. DEFINE Seen(i) == {c \in C : c < i}
            Good(i) == IF Seen(i) = {} THEN best[i] = -1 ELSE IsFirst(scores, Seen(i), best[i])
            P == {i \in 0 .. n : Good(i)}
<1>3. C \subseteq 0 .. n - 1 /\ Rows(scores) = 0 .. n - 1
  BY <1>2 DEF Rows
<1>4. 0 \in P
  <2>1. Seen(0) = {}
    BY <1>3
  <2>2. best[0] = -1
    BY <1>1, <1>2 DEF ScanOf
  <2>. QED
    BY <2>1, <2>2
<1>5. ASSUME NEW i \in 1 .. n, Good(i - 1) PROVE Good(i)
  <2>1. PICK old, new : old = best[i - 1] /\ new = best[i]
    OBVIOUS
  <2>2. PICK r \in 0 .. n - 1 : r = i - 1
    OBVIOUS
  <2>3. new = IF r \notin taken /\ (old = -1 \/ Score(scores, r) > Score(scores, old)) THEN r ELSE old
    <3>1. i \in 0 .. Len(scores) /\ i # 0
      BY <1>2
    <3>. QED
      BY <1>1, <2>1, <2>2, <3>1 DEF ScanOf
  <2>4. PICK B, D : B = Seen(r) /\ D = Seen(i)
    OBVIOUS
  <2>5. B \subseteq 0 .. n - 1 /\ D = (IF r \in taken THEN B ELSE B \cup {r}) /\ \A b \in B : b < r
    <3>1. \A c \in 0 .. n - 1 : c < i <=> c < r \/ c = r
      BY <2>2
    <3>2. r \in C <=> r \notin taken
      BY <1>3
    <3>. QED
      BY <1>3, <2>2, <2>4, <3>1, <3>2
  <2>6. IF B = {} THEN old = -1 ELSE IsFirst(scores, B, old)
    BY <1>5, <2>1, <2>2, <2>4
  <2>7. IF D = {} THEN new = -1 ELSE IsFirst(scores, D, new)
    <3>1. CASE r \in taken
      BY <2>3, <2>5, <2>6, <3>1
    <3>2. CASE r \notin taken /\ B = {}
      BY <2>3, <2>5, <2>6, <3>2 DEF IsFirst
    <3>3. CASE r \notin taken /\ B # {}
      <4>1. old \in B /\ old \in 0 .. n - 1 /\ old # -1 /\ old < r /\ \A b \in B \ {old} : Ahead(scores, old, b)
        <5>1. IsFirst(scores, B, old)
          BY <2>6, <3>3
        <5>2. old \in B /\ \A b \in B \ {old} : Ahead(scores, old, b)
          BY <5>1 DEF IsFirst
        <5>. QED
          BY <2>5, <5>2
      <4>2. PICK x \in Int, y \in Int : x = Score(scores, r) /\ y = Score(scores, old)
        <5>1. r + 1 \in 1 .. Len(scores) /\ old + 1 \in 1 .. Len(scores)
          BY <1>2, <4>1
        <5>. QED
          BY <5>1 DEF Score
      <4>3. CASE x > y
        <5>1. new = r /\ Ahead(scores, r, old)
          BY <2>3, <3>3, <4>2, <4>3 DEF Ahead
        <5>2. \A b \in B : Ahead(scores, r, b)
          <6>1. \A b \in B \ {old} : b \in Rows(scores) /\ r \in Rows(scores) /\ old \in Rows(scores)
            BY <1>3, <2>5, <4>1
          <6>. QED
            BY <4>1, <5>1, <6>1, AheadIsOrder
        <5>. QED
          BY <2>5, <3>3, <5>1, <5>2 DEF IsFirst
      <4>4. CASE ~ (x > y)
        <5>1. new = old /\ Ahead(scores, old, r)
          BY <2>3, <3>3, <4>1, <4>2, <4>4 DEF Ahead
        <5>. QED
          BY <2>5, <3>3, <4>1, <5>1 DEF IsFirst
      <4>. QED
        BY <4>3, <4>4
    <3>. QED
      BY <3>1, <3>2, <3>3
  <2>. QED
    BY <2>1, <2>4, <2>7
<1>6. \A i \in 0 .. n : i \in P
  <2>1. \A i \in 1 .. n : i - 1 \in P => i \in P
    <3>. HIDE DEF Good
    <3>. QED
      BY <1>5
  <2>. HIDE DEF P
  <2>. QED
    BY <1>4, <2>1, UpTo
<1>7. Good(n)
  <2>1. n \in P
    <3>. HIDE DEF P
    <3>. QED
      BY <1>6
  <2>. QED
    BY <2>1
<1>8. Seen(n) = C
  BY <1>3
<1>. QED
  BY <1>1, <1>2, <1>7, <1>8

\* So any candidates have a first one.
LEMMA FirstOfIs ==
  ASSUME NEW scores \in Seq(Int), NEW C, C \subseteq Rows(scores), C # {}
  PROVE  IsFirst(scores, C, FirstOf(scores, C))
<1>1. PICK taken : taken = Rows(scores) \ C
  OBVIOUS
<1>2. C = Rows(scores) \ taken
  BY <1>1
<1>3. IsFirst(scores, C, Scanned(scores, taken))
  BY <1>2, ScannedIs
<1>. QED
  BY <1>3 DEF IsFirst, FirstOf

-----------------------------------------------------------------------------
(* Nearest vectors: the selection *)

\* found takes one candidate after the other, each the first of those that are left.
Picks(scores, C, k, taken, found) ==
  /\ found = [i \in 1 .. k |-> found[i]] /\ taken[0] = {}
  /\ \A i \in 1 .. k :
       /\ C \ taken[i - 1] # {} => IsFirst(scores, C \ taken[i - 1], found[i])
       /\ taken[i] = taken[i - 1] \cup {found[i]}

Before(found, i)    == {found[j] : j \in 1 .. i}
AheadIn(scores, C, a) == {c \in C : Ahead(scores, c, a)}

\* The k best of C in their order.
IsTop(scores, C, k, found) ==
  /\ found \in [1 .. k -> C]
  /\ \A i \in 1 .. k : AheadIn(scores, C, found[i]) = Before(found, i - 1)

LEMMA CountRows ==
  ASSUME NEW scores \in Seq(Int)
  PROVE  IsFiniteSet(Rows(scores)) /\ Cardinality(Rows(scores)) = Len(scores)
<1>1. PICK n \in Nat, last \in Int : n = Len(scores) /\ last = n - 1
  OBVIOUS
<1>2. Rows(scores) = 0 .. last
  BY <1>1 DEF Rows
<1>3. IsFiniteSet(0 .. last) /\ Cardinality(0 .. last) = (IF 0 > last THEN 0 ELSE last - 0 + 1)
  BY FS_Interval
<1>. QED
  BY <1>1, <1>2, <1>3

LEMMA PickedIsTop ==
  ASSUME NEW scores \in Seq(Int), NEW C, C \subseteq Rows(scores), NEW k \in Nat, k <= Cardinality(C),
         NEW taken, NEW found, Picks(scores, C, k, taken, found)
  PROVE  IsTop(scores, C, k, found)
<1>1. IsFiniteSet(C) /\ Cardinality(C) \in Nat
  BY CountRows, FS_Subset, FS_CardinalityType
<1>. DEFINE Good(i) == /\ taken[i] = Before(found, i) /\ taken[i] \subseteq C
                       /\ IsFiniteSet(taken[i]) /\ Cardinality(taken[i]) = i
                       /\ \A t \in taken[i], c \in C \ taken[i] : Ahead(scores, t, c)
                       /\ \A j \in 1 .. i : /\ found[j] \in C
                                            /\ AheadIn(scores, C, found[j]) = Before(found, j - 1)
            P == {i \in 0 .. k : Good(i)}
<1>2. 0 \in P
  <2>1. taken[0] = {} /\ IsFiniteSet({}) /\ Cardinality({}) = 0 /\ (1 .. 0) = {}
    BY FS_EmptySet DEF Picks
  <2>2. Before(found, 0) = {}
    BY <2>1 DEF Before
  <2>3. 0 \in 0 .. k /\ \A j \in 1 .. 0 : FALSE
    OBVIOUS
  <2>4. PICK T : T = taken[0]
    OBVIOUS
  <2>5. T = {} /\ T = Before(found, 0) /\ IsFiniteSet(T) /\ Cardinality(T) = 0
    BY <2>1, <2>2, <2>4
  <2>6. Good(0)
    BY <2>3, <2>4, <2>5
  <2>. QED
    BY <2>3, <2>6
<1>3. ASSUME NEW i \in 1 .. k, Good(i - 1) PROVE Good(i)
  <2>1. PICK T, U, a : T = taken[i - 1] /\ U = taken[i] /\ a = found[i]
    OBVIOUS
  <2>2. /\ T = Before(found, i - 1) /\ T \subseteq C /\ IsFiniteSet(T) /\ Cardinality(T) = i - 1
        /\ \A t \in T, c \in C \ T : Ahead(scores, t, c)
    BY <1>3, <2>1
  <2>3. C \ T # {}
    <3>1. PICK c \in Nat : c = Cardinality(C)
      BY <1>1
    <3>2. C \ T = {} => C = T
      BY <2>2
    <3>. QED
      BY <2>2, <3>1, <3>2
  <2>4. U = T \cup {a} /\ IsFirst(scores, C \ T, a)
    BY <2>1, <2>3 DEF Picks
  <2>5. a \in C /\ a \notin T /\ \A b \in C \ T : b # a => Ahead(scores, a, b)
    BY <2>4 DEF IsFirst
  <2>6. U = Before(found, i)
    <3>1. \A j : j \in 1 .. i <=> j \in 1 .. i - 1 \/ j = i
      OBVIOUS
    <3>. QED
      BY <2>1, <2>2, <2>4, <3>1 DEF Before
  <2>7. IsFiniteSet(U) /\ Cardinality(U) = i
    <3>1. Cardinality(U) = Cardinality(T) + 1 /\ IsFiniteSet(U)
      BY <2>2, <2>4, <2>5, CountOne
    <3>. QED
      BY <2>2, <3>1
  <2>8. \A t \in U, c \in C \ U : Ahead(scores, t, c)
    BY <2>2, <2>4, <2>5
  <2>9. AheadIn(scores, C, a) = T
    <3>1. \A t \in T : t \in C /\ Ahead(scores, t, a)
      BY <2>2, <2>5
    <3>2. \A c \in C : Ahead(scores, c, a) => c \in T
      <4>1. ASSUME NEW c \in C, Ahead(scores, c, a), c \notin T PROVE FALSE
        <5>1. c \in Rows(scores) /\ a \in Rows(scores)
          BY <2>5
        <5>2. c # a /\ ~ Ahead(scores, a, c)
          BY <4>1, <5>1, AheadIsOrder
        <5>. QED
          BY <2>5, <4>1, <5>2
      <4>. QED
        BY <4>1
    <3>. QED
      BY <3>1, <3>2 DEF AheadIn
  <2>10. ASSUME NEW j \in 1 .. i PROVE found[j] \in C /\ AheadIn(scores, C, found[j]) = Before(found, j - 1)
    <3>1. CASE j = i
      BY <2>1, <2>2, <2>5, <2>9, <3>1
    <3>2. CASE j # i
      <4>1. j \in 1 .. i - 1
        BY <3>2
      <4>. QED
        BY <1>3, <4>1
    <3>. QED
      BY <3>1, <3>2
  <2>. QED
    BY <2>1, <2>2, <2>4, <2>5, <2>6, <2>7, <2>8, <2>10
<1>4. \A i \in 0 .. k : i \in P
  <2>1. \A i \in 1 .. k : i - 1 \in P => i \in P
    <3>. HIDE DEF Good
    <3>. QED
      BY <1>3
  <2>. HIDE DEF P
  <2>. QED
    BY <1>2, <2>1, UpTo
<1>5. Good(k)
  <2>1. k \in P
    <3>. HIDE DEF P
    <3>. QED
      BY <1>4
  <2>. QED
    BY <2>1
<1>6. found \in [1 .. k -> C]
  <2>1. found = [i \in 1 .. k |-> found[i]]
    BY DEF Picks
  <2>2. \A i \in 1 .. k : found[i] \in C
    BY <1>5
  <2>. QED
    BY <2>1, <2>2
<1>. QED
  BY <1>5, <1>6 DEF IsTop

\* The sets of what is taken, rank by rank.
TakenBy(taken, k, first) ==
  taken = [i \in 0 .. k |-> IF i = 0 THEN {} ELSE taken[i - 1] \cup {first[taken[i - 1]]}]

LEMMA TakenExists ==
  ASSUME NEW k \in Nat, NEW U, NEW first \in [SUBSET U -> U]
  PROVE  \E taken \in [0 .. k -> SUBSET U] : TakenBy(taken, k, first)
<1>. DEFINE next(t) == t \cup {first[t]}
<1>1. PICK step : step = [i \in 1 .. k |-> [t \in SUBSET U |-> next(t)]]
  OBVIOUS
<1>2. step \in Steps(k, SUBSET U)
  <2>1. \A t \in SUBSET U : next(t) \in SUBSET U
    OBVIOUS
  <2>. HIDE DEF next
  <2>. QED
    BY <1>1, <2>1 DEF Steps
<1>3. PICK g : Follows(g, k, SUBSET U, {}, step)
  BY <1>2, StepByStep
<1>4. g = [i \in 0 .. k |-> IF i = 0 THEN {} ELSE next(g[i - 1])]
  <2>. HIDE DEF next
  <2>1. \A i \in 1 .. k : g[i - 1] \in SUBSET U
    BY ONLY <1>3, k \in Nat DEF Follows
  <2>2. \A i \in 1 .. k : step[i][g[i - 1]] = next(g[i - 1])
    BY <1>1, <2>1
  <2>. QED
    BY <1>3, <2>2 DEF Follows
<1>5. g \in [0 .. k -> SUBSET U]
  BY <1>3 DEF Follows
<1>. QED
  BY <1>4, <1>5 DEF TakenBy

LEMMA BestIsTop ==
  ASSUME NEW scores \in Seq(Int), NEW C, C \subseteq Rows(scores), NEW k \in Nat, k <= Cardinality(C)
  PROVE  IsTop(scores, C, k, Best(scores, C, k))
<1>. DEFINE next(t) == FirstOf(scores, C \ t)
            U == C \cup {FirstOf(scores, {})}
<1>1. PICK first : first = [t \in SUBSET U |-> next(t)]
  OBVIOUS
<1>2. first \in [SUBSET U -> U]
  <2>1. ASSUME NEW t \in SUBSET U PROVE next(t) \in U
    <3>1. CASE C \ t = {}
      BY <3>1
    <3>2. CASE C \ t # {}
      <4>1. IsFirst(scores, C \ t, FirstOf(scores, C \ t))
        <5>1. PICK D : D = C \ t
          OBVIOUS
        <5>2. D \subseteq Rows(scores) /\ D # {}
          BY <3>2, <5>1
        <5>. QED
          BY <5>1, <5>2, FirstOfIs
      <4>. QED
        BY <4>1 DEF IsFirst
    <3>. QED
      BY <3>1, <3>2
  <2>. HIDE DEF next, U
  <2>. QED
    BY <1>1, <2>1
<1>3. PICK g \in [0 .. k -> SUBSET U] : TakenBy(g, k, first)
  <2>. HIDE DEF U
  <2>. QED
    BY <1>2, TakenExists
<1>. DEFINE IsTaken(t) == t = [i \in 0 .. k |-> IF i = 0 THEN {} ELSE t[i - 1] \cup {next(t[i - 1])}]
<1>4. IsTaken(g)
  <2>. HIDE DEF next, U
  <2>1. \A i \in 1 .. k : g[i - 1] \in SUBSET U
    BY <1>3
  <2>2. \A i \in 1 .. k : first[g[i - 1]] = next(g[i - 1])
    BY <1>1, <2>1
  <2>. QED
    BY <1>3, <2>2 DEF TakenBy
<1>. DEFINE h == CHOOSE t : IsTaken(t)
<1>5. IsTaken(h)
  <2>. HIDE DEF IsTaken
  <2>. QED
    BY <1>4
<1>6. PICK found : found = [i \in 1 .. k |-> next(h[i - 1])]
  OBVIOUS
<1>7. Best(scores, C, k) = found
  BY <1>6 DEF Best
<1>8. Picks(scores, C, k, h, found)
  <2>1. ASSUME NEW i \in 1 .. k, C \ h[i - 1] # {}
        PROVE  IsFirst(scores, C \ h[i - 1], next(h[i - 1]))
    <3>. HIDE DEF h, IsTaken
    <3>1. PICK D : D = C \ h[i - 1]
      OBVIOUS
    <3>2. D \subseteq Rows(scores) /\ D # {}
      BY <2>1, <3>1
    <3>. QED
      BY <3>1, <3>2, FirstOfIs
  <2>2. \A i \in 1 .. k : found[i] = next(h[i - 1])
    <3>. HIDE DEF h, next
    <3>. QED
      BY <1>6
  <2>3. h[0] = {} /\ \A i \in 1 .. k : h[i] = h[i - 1] \cup {next(h[i - 1])}
    <3>. HIDE DEF h, next
    <3>1. h[0] = {}
      BY <1>5
    <3>2. ASSUME NEW i \in 1 .. k PROVE h[i] = h[i - 1] \cup {next(h[i - 1])}
      <4>1. i \in 0 .. k /\ i # 0
        OBVIOUS
      <4>. QED
        BY <1>5, <4>1
    <3>. QED
      BY <3>1, <3>2
  <2>. HIDE DEF h, next
  <2>. QED
    BY <1>6, <2>1, <2>2, <2>3 DEF Picks
<1>. HIDE DEF h
<1>. QED
  BY <1>7, <1>8, PickedIsTop

LEMMA KernelIsTop ==
  ASSUME NEW scores \in Seq(Int), NEW k \in Nat, k <= Len(scores)
  PROVE  IsTop(scores, Rows(scores), k, KernelTopK(scores, k))
<1>. DEFINE next(t) == Scanned(scores, t)
            U == Rows(scores) \cup {-1}
<1>1. PICK first : first = [t \in SUBSET U |-> next(t)]
  OBVIOUS
<1>2. ASSUME NEW t, NEW D, D = Rows(scores) \ t
      PROVE  IF D = {} THEN next(t) = -1 ELSE IsFirst(scores, D, next(t))
  BY <1>2, ScannedIs
<1>3. first \in [SUBSET U -> U]
  <2>1. ASSUME NEW t \in SUBSET U PROVE next(t) \in U
    BY <1>2 DEF IsFirst
  <2>. HIDE DEF next, U
  <2>. QED
    BY <1>1, <2>1
<1>4. PICK g \in [0 .. k -> SUBSET U] : TakenBy(g, k, first)
  <2>. HIDE DEF U
  <2>. QED
    BY <1>3, TakenExists
<1>. DEFINE IsTaken(t) == t = [i \in 0 .. k |-> IF i = 0 THEN {} ELSE t[i - 1] \cup {next(t[i - 1])}]
<1>5. IsTaken(g)
  <2>. HIDE DEF next, U
  <2>1. \A i \in 1 .. k : g[i - 1] \in SUBSET U
    BY <1>4
  <2>2. \A i \in 1 .. k : first[g[i - 1]] = next(g[i - 1])
    BY <1>1, <2>1
  <2>. QED
    BY <1>4, <2>2, SMTT(60) DEF TakenBy
<1>. DEFINE h == CHOOSE t : IsTaken(t)
<1>6. IsTaken(h)
  <2>. HIDE DEF IsTaken
  <2>. QED
    BY <1>5
<1>7. PICK found : found = [i \in 1 .. k |-> next(h[i - 1])]
  OBVIOUS
<1>8. KernelTopK(scores, k) = found
  BY <1>7 DEF KernelTopK
<1>9. Picks(scores, Rows(scores), k, h, found)
  <2>1. \A i \in 1 .. k : found[i] = next(h[i - 1])
    <3>. HIDE DEF h, next
    <3>. QED
      BY <1>7
  <2>2. h[0] = {} /\ \A i \in 1 .. k : h[i] = h[i - 1] \cup {next(h[i - 1])}
    <3>. HIDE DEF h, next
    <3>1. h[0] = {}
      BY <1>6
    <3>2. ASSUME NEW i \in 1 .. k PROVE h[i] = h[i - 1] \cup {next(h[i - 1])}
      <4>1. i \in 0 .. k /\ i # 0
        OBVIOUS
      <4>. QED
        BY <1>6, <4>1
    <3>. QED
      BY <3>1, <3>2
  <2>3. ASSUME NEW i \in 1 .. k, Rows(scores) \ h[i - 1] # {}
        PROVE  IsFirst(scores, Rows(scores) \ h[i - 1], next(h[i - 1]))
    <3>. HIDE DEF h, next
    <3>. QED
      BY <1>2, <2>3
  <2>. HIDE DEF h, next
  <2>. QED
    BY <1>7, <2>1, <2>2, <2>3 DEF Picks
<1>10. k <= Cardinality(Rows(scores))
  <2>1. Len(scores) \in Nat
    OBVIOUS
  <2>2. Cardinality(Rows(scores)) = Len(scores)
    BY CountRows
  <2>. QED
    BY <2>1, <2>2
<1>. HIDE DEF h
<1>. QED
  BY <1>8, <1>9, <1>10, PickedIsTop

-----------------------------------------------------------------------------
(* Nearest vectors: the batches *)

\* The best differ from one another, and a candidate that is not among them is behind
\* each of them.
LEMMA TopFacts ==
  ASSUME NEW scores \in Seq(Int), NEW C, C \subseteq Rows(scores), NEW k \in Nat,
         NEW found, IsTop(scores, C, k, found)
  PROVE  /\ Before(found, k) \subseteq C /\ IsFiniteSet(Before(found, k))
         /\ Cardinality(Before(found, k)) = k
         /\ \A t \in Before(found, k), c \in C \ Before(found, k) : Ahead(scores, t, c)
<1>1. found \in [1 .. k -> C] /\ \A i \in 1 .. k : AheadIn(scores, C, found[i]) = Before(found, i - 1)
  BY DEF IsTop
<1>2. ASSUME NEW i \in 1 .. k, NEW j \in 1 .. k, i < j PROVE found[i] # found[j]
  <2>1. i \in 1 .. j - 1
    BY <1>2
  <2>2. found[i] \in AheadIn(scores, C, found[j])
    BY <1>1, <2>1 DEF Before
  <2>3. Ahead(scores, found[i], found[j]) /\ found[i] \in Rows(scores) /\ found[j] \in Rows(scores)
    BY <1>1, <2>2 DEF AheadIn
  <2>. QED
    BY <2>3, AheadIsOrder
<1>3. \A i, j \in 1 .. k : found[i] = found[j] => i = j
  <2>1. \A i, j \in 1 .. k : i = j \/ i < j \/ j < i
    OBVIOUS
  <2>. QED
    BY <1>2, <2>1
<1>4. IsFiniteSet(1 .. k) /\ Cardinality(1 .. k) = k
  BY FS_Interval
<1>5. PICK J : J = 1 .. k
  OBVIOUS
<1>6. found = [j \in J |-> found[j]] /\ IsFiniteSet(J) /\ \A i, j \in J : found[i] = found[j] => i = j
  BY <1>1, <1>3, <1>4, <1>5
<1>7. Cardinality({found[j] : j \in J}) = Cardinality(J)
  BY ONLY <1>6, ImageCount
<1>8. Before(found, k) = {found[j] : j \in J}
  BY <1>5 DEF Before
<1>9. Before(found, k) \subseteq C
  BY <1>1 DEF Before
<1>10. ASSUME NEW t \in Before(found, k), NEW c \in C \ Before(found, k) PROVE Ahead(scores, t, c)
  <2>1. PICK i \in 1 .. k : found[i] = t
    BY DEF Before
  <2>2. Before(found, i - 1) \subseteq Before(found, k)
    BY DEF Before
  <2>3. ~ Ahead(scores, c, t)
    BY <1>1, <2>1, <2>2 DEF AheadIn
  <2>4. c # t /\ c \in Rows(scores) /\ t \in Rows(scores)
    BY <1>9
  <2>. QED
    BY <2>3, <2>4, AheadIsOrder
<1>11. IsFiniteSet(Before(found, k))
  BY <1>9, CountRows, FS_Subset
<1>. QED
  BY <1>4, <1>5, <1>7, <1>8, <1>9, <1>10, <1>11

\* Every row is in a batch.
LEMMA BatchOf ==
  ASSUME NEW scores \in Seq(Int), NEW batch \in Nat, batch >= 1, NEW r \in Rows(scores)
  PROVE  \E s \in BatchStarts(scores, batch) : s <= r /\ r < BatchStop(scores, batch, s)
<1>1. PICK n \in Nat : n = Len(scores)
  OBVIOUS
<1>2. Rows(scores) = 0 .. n - 1 /\ r \in 0 .. n - 1
  BY <1>1 DEF Rows
<1>. DEFINE At(x) == \E j \in Nat, s \in Nat : s = j * batch /\ j <= x /\ s <= x /\ x < s + batch
            P == {x \in 0 .. n - 1 : At(x)}
<1>3. 0 \in P
  <2>1. 0 \in Nat /\ 0 = 0 * batch /\ 0 <= 0 /\ 0 < 0 + batch
    OBVIOUS
  <2>. QED
    BY <1>2, <2>1
<1>4. ASSUME NEW x \in 1 .. n - 1, At(x - 1) PROVE At(x)
  <2>1. PICK j \in Nat, s \in Nat : s = j * batch /\ j <= x - 1 /\ s <= x - 1 /\ x - 1 < s + batch
    BY <1>4
  <2>2. CASE x < s + batch
    <3>1. j <= x /\ s <= x
      BY <2>1
    <3>. QED
      BY <2>1, <2>2, <3>1
  <2>3. CASE ~ (x < s + batch)
    <3>1. PICK j2 \in Nat, s2 \in Nat : j2 = j + 1 /\ s2 = s + batch
      OBVIOUS
    <3>2. s2 = j2 * batch
      BY <2>1, <3>1
    <3>3. j2 <= x /\ s2 <= x /\ x < s2 + batch
      BY <2>1, <2>3, <3>1
    <3>. QED
      BY <3>2, <3>3
  <2>. QED
    BY <2>2, <2>3
<1>5. At(r)
  <2>1. PICK top \in Nat : top = n - 1
    BY <1>2
  <2>2. 0 \in P /\ \A i \in 1 .. top : i - 1 \in P => i \in P
    <3>1. \A i \in 1 .. top : i \in 1 .. n - 1 /\ i \in 0 .. n - 1
      BY <2>1
    <3>. HIDE DEF At
    <3>. QED
      BY <1>3, <1>4, <3>1
  <2>3. \A i \in 0 .. top : i \in P
    <3>. HIDE DEF P
    <3>. QED
      BY <2>2, UpTo
  <2>4. r \in P
    <3>. HIDE DEF P
    <3>. QED
      BY <1>2, <2>1, <2>3
  <2>. QED
    BY <2>4
<1>6. PICK j \in Nat, s \in Nat : s = j * batch /\ j <= r /\ s <= r /\ r < s + batch
  BY <1>5
<1>7. j \in Rows(scores) /\ s \in Rows(scores)
  BY <1>2, <1>6
<1>8. s \in BatchStarts(scores, batch)
  BY <1>6, <1>7 DEF BatchStarts
<1>9. r < BatchStop(scores, batch, s)
  BY <1>1, <1>2, <1>6 DEF BatchStop, SmallerOf
<1>. QED
  BY <1>6, <1>8, <1>9

AllKept(scores, k, batch) == UNION {Kept(scores, k, batch, s) : s \in BatchStarts(scores, batch)}

\* k rows of T that are all ahead of r.
Covers(scores, T, k, r) ==
  IsFiniteSet(T) /\ Cardinality(T) = k /\ \A t \in T : Ahead(scores, t, r)

LEMMA BatchKeeps ==
  ASSUME NEW scores \in Seq(Int), NEW k \in Nat, NEW batch \in Nat, batch >= 1,
         NEW s \in BatchStarts(scores, batch)
  PROVE  /\ Kept(scores, k, batch, s) \subseteq Rows(scores)
         /\ \A r \in Rows(scores) : s <= r /\ r < BatchStop(scores, batch, s) /\ r \notin Kept(scores, k, batch, s)
              => Covers(scores, Kept(scores, k, batch, s), k, r)
<1>1. PICK n, stop, m : n \in Nat /\ n = Len(scores) /\ stop = BatchStop(scores, batch, s) /\ m = stop - s
  OBVIOUS
<1>2. s \in 0 .. n - 1 /\ Rows(scores) = 0 .. n - 1
  BY <1>1 DEF BatchStarts, Rows
<1>3. stop \in Nat /\ m \in Nat /\ stop <= n /\ s < stop
  BY <1>1, <1>2 DEF BatchStop, SmallerOf
<1>4. PICK last, C, top : last \in Int /\ last = stop - 1 /\ C = s .. last /\ top = SmallerOf(k, m)
  BY <1>3
<1>5. top \in Nat /\ top <= m /\ top <= k /\ (top = k \/ top = m)
  BY <1>3, <1>4 DEF SmallerOf
<1>6. C \subseteq Rows(scores) /\ IsFiniteSet(C) /\ Cardinality(C) = m
  <2>1. IsFiniteSet(s .. last) /\ Cardinality(s .. last) = (IF s > last THEN 0 ELSE last - s + 1)
    <3>1. s \in Int /\ last \in Int
      BY <1>2, <1>4
    <3>. QED
      BY <3>1, FS_Interval
  <2>2. C \subseteq Rows(scores)
    BY <1>1, <1>2, <1>3, <1>4, SMTT(60)
  <2>3. ~ (s > last) /\ last - s + 1 = m
    BY <1>1, <1>2, <1>3, <1>4, SMTT(60)
  <2>. QED
    BY <1>4, <2>1, <2>2, <2>3
<1>7. PICK found : found = Best(scores, C, top)
  OBVIOUS
<1>8. IsTop(scores, C, top, found)
  BY <1>5, <1>6, <1>7, BestIsTop
<1>9. PICK T : T = Before(found, top)
  OBVIOUS
<1>10. Kept(scores, k, batch, s) = T
  <2>1. DOMAIN found = 1 .. top
    BY <1>8 DEF IsTop
  <2>2. Kept(scores, k, batch, s) = ToSet(found)
    BY <1>1, <1>4, <1>7 DEF Kept, StableTopK
  <2>. QED
    BY <1>9, <2>1, <2>2 DEF ToSet, Before
<1>11. /\ T \subseteq C /\ IsFiniteSet(T) /\ Cardinality(T) = top
       /\ \A t \in T, c \in C \ T : Ahead(scores, t, c)
  BY <1>5, <1>6, <1>8, <1>9, TopFacts
<1>12. ASSUME NEW r \in Rows(scores), s <= r, r < stop, r \notin T
       PROVE  Covers(scores, T, k, r)
  <2>1. r \in C
    BY <1>2, <1>3, <1>4, <1>12
  <2>2. top # m
    <3>. SUFFICES ASSUME top = m PROVE FALSE
      OBVIOUS
    <3>1. IsFiniteSet(C) /\ T \subseteq C /\ Cardinality(T) = Cardinality(C)
      BY <1>6, <1>11
    <3>2. T = C
      BY <3>1, FS_Subset
    <3>. QED
      BY <1>12, <2>1, <3>2
  <2>3. top = k
    BY <1>5, <2>2
  <2>. QED
    BY <1>11, <1>12, <2>1, <2>3 DEF Covers
<1>. QED
  BY <1>1, <1>6, <1>10, <1>11, <1>12

LEMMA BatchedIsTop ==
  ASSUME NEW scores \in Seq(Int), NEW k \in Nat, k <= Len(scores), NEW batch \in Nat, batch >= 1
  PROVE  IsTop(scores, Rows(scores), k, BatchedSearch(scores, k, batch))
<1>1. PICK K, R : K = AllKept(scores, k, batch) /\ R = Rows(scores)
  OBVIOUS
<1>2. K \subseteq R
  BY <1>1, BatchKeeps DEF AllKept
<1>3. \A r \in R \ K : \E T \in SUBSET K : Covers(scores, T, k, r)
  <2>1. ASSUME NEW r \in R, r \notin K PROVE \E T \in SUBSET K : Covers(scores, T, k, r)
    <3>1. PICK s \in BatchStarts(scores, batch) : s <= r /\ r < BatchStop(scores, batch, s)
      BY <1>1, BatchOf
    <3>2. PICK T : T = Kept(scores, k, batch, s)
      OBVIOUS
    <3>3. T \subseteq K
      BY <1>1, <3>2 DEF AllKept
    <3>4. Covers(scores, T, k, r)
      BY <1>1, <2>1, <3>1, <3>2, <3>3, BatchKeeps
    <3>. QED
      BY <3>3, <3>4
  <2>. QED
    BY <2>1
<1>4. IsFiniteSet(R) /\ Cardinality(R) = Len(scores)
  BY <1>1, CountRows
<1>5. IsFiniteSet(K) /\ Cardinality(K) \in Nat /\ k <= Cardinality(K)
  <2>1. IsFiniteSet(K) /\ Cardinality(K) \in Nat
    BY <1>2, <1>4, FS_Subset, FS_CardinalityType
  <2>2. CASE R \ K = {}
    <3>1. K = R
      BY <1>2, <2>2
    <3>. QED
      BY <1>4, <2>1, <3>1
  <2>3. CASE R \ K # {}
    <3>1. PICK r \in R \ K : TRUE
      BY <2>3
    <3>2. PICK T \in SUBSET K : Covers(scores, T, k, r)
      BY <1>3, <3>1
    <3>3. Cardinality(T) <= Cardinality(K)
      BY <2>1, FS_Subset
    <3>. QED
      BY <2>1, <3>2, <3>3 DEF Covers
  <2>. QED
    BY <2>2, <2>3
<1>6. PICK found : found = Best(scores, K, k)
  OBVIOUS
<1>7. IsTop(scores, K, k, found)
  BY <1>1, <1>2, <1>5, <1>6, BestIsTop
<1>8. found \in [1 .. k -> K] /\ \A i \in 1 .. k : AheadIn(scores, K, found[i]) = Before(found, i - 1)
  BY <1>7 DEF IsTop
<1>9. ASSUME NEW i \in 1 .. k, NEW c \in R, c \notin K, Ahead(scores, c, found[i]) PROVE FALSE
  <2>1. PICK T \in SUBSET K : Covers(scores, T, k, c)
    BY <1>3, <1>9
  <2>2. T \subseteq AheadIn(scores, K, found[i])
    <3>1. ASSUME NEW t \in T PROVE Ahead(scores, t, found[i])
      <4>1. t \in Rows(scores) /\ c \in Rows(scores) /\ found[i] \in Rows(scores)
        BY <1>1, <1>2, <1>8
      <4>2. Ahead(scores, t, c)
        BY <2>1 DEF Covers
      <4>. QED
        BY <1>9, <4>1, <4>2, AheadIsOrder
    <3>. QED
      BY <3>1 DEF AheadIn
  <2>3. T \subseteq Before(found, i - 1)
    BY <1>8, <2>2
  <2>4. PICK l \in Nat : l = i - 1
    OBVIOUS
  <2>5. PICK B : B = Before(found, l)
    OBVIOUS
  <2>6. IsTop(scores, K, l, [j \in 1 .. l |-> found[j]])
    <3>1. PICK g : g = [j \in 1 .. l |-> found[j]]
      OBVIOUS
    <3>2. g \in [1 .. l -> K]
      <4>1. \A j \in 1 .. l : found[j] \in K
        BY <1>8, <2>4
      <4>. QED
        BY <3>1, <4>1
    <3>3. ASSUME NEW j \in 1 .. l PROVE g[j] = found[j] /\ Before(g, j - 1) = Before(found, j - 1)
      <4>1. \A x \in 1 .. j - 1 : x \in 1 .. l
        BY <2>4
      <4>2. \A x \in 1 .. j - 1 : g[x] = found[x]
        BY <3>1, <4>1
      <4>3. g[j] = found[j]
        BY <3>1
      <4>. QED
        BY <4>2, <4>3 DEF Before
    <3>4. \A j \in 1 .. l : j \in 1 .. k
      BY <2>4
    <3>. QED
      BY <1>8, <3>1, <3>2, <3>3, <3>4 DEF IsTop
  <2>7. PICK g : g = [j \in 1 .. l |-> found[j]]
    OBVIOUS
  <2>8. IsFiniteSet(Before(g, l)) /\ Cardinality(Before(g, l)) = l
    <3>1. K \subseteq Rows(scores) /\ l \in Nat /\ IsTop(scores, K, l, g)
      BY <1>1, <1>2, <2>4, <2>6, <2>7
    <3>. QED
      BY ONLY <3>1, scores \in Seq(Int), TopFacts
  <2>9. Before(g, l) = B
    BY <2>5, <2>7 DEF Before
  <2>10. Cardinality(T) <= Cardinality(B)
    BY <2>3, <2>4, <2>5, <2>8, <2>9, FS_Subset
  <2>11. Cardinality(T) = k
    BY <2>1 DEF Covers
  <2>. QED
    BY <2>4, <2>8, <2>9, <2>10, <2>11
<1>10. ASSUME NEW i \in 1 .. k PROVE AheadIn(scores, R, found[i]) = Before(found, i - 1)
  <2>1. AheadIn(scores, R, found[i]) = AheadIn(scores, K, found[i])
    BY <1>2, <1>9 DEF AheadIn
  <2>. QED
    BY <1>8, <2>1
<1>11. found \in [1 .. k -> R]
  BY <1>2, <1>8
<1>12. BatchedSearch(scores, k, batch) = found
  BY <1>1, <1>6 DEF BatchedSearch, AllKept
<1>. QED
  BY <1>1, <1>10, <1>11, <1>12 DEF IsTop

-----------------------------------------------------------------------------
(* Nearest vectors: the entities of the rows *)

\* The entities of a store, in ascending order.
Ascending(ids, n) ==
  ids \in [1 .. n -> Nat] /\ \A i, j \in 1 .. n : i < j => ids[i] < ids[j]

LEMMA StoresAscend ==
  ASSUME NEW n \in Nat, NEW ids \in Stores(n)
  PROVE  Ascending(ids, n)
<1>1. CASE ids = [i \in 1 .. n |-> i - 1]
  <2>1. \A i \in 1 .. n : i - 1 \in Nat
    OBVIOUS
  <2>2. ids \in [1 .. n -> Nat]
    BY <1>1, <2>1
  <2>3. \A i, j \in 1 .. n : i < j => ids[i] < ids[j]
    BY <1>1
  <2>. QED
    BY <2>2, <2>3 DEF Ascending
<1>2. CASE ids = [i \in 1 .. n |-> 2 * i]
  <2>1. \A i \in 1 .. n : 2 * i \in Nat
    OBVIOUS
  <2>2. ids \in [1 .. n -> Nat]
    BY <1>2, <2>1
  <2>3. \A i, j \in 1 .. n : i < j => ids[i] < ids[j]
    BY <1>2
  <2>. QED
    BY <2>2, <2>3 DEF Ascending
<1>. QED
  BY <1>1, <1>2 DEF Stores

LEMMA EntitiesTop ==
  ASSUME NEW scores \in Seq(Int), NEW k \in Nat, NEW rows, IsTop(scores, Rows(scores), k, rows),
         NEW ids, Ascending(ids, Len(scores))
  PROVE  IsTopK(scores, ids, k, EntitiesOf(ids, rows))
<1>1. PICK n \in Nat : n = Len(scores)
  OBVIOUS
<1>2. /\ Rows(scores) = 0 .. n - 1 /\ rows \in [1 .. k -> 0 .. n - 1]
      /\ \A i \in 1 .. k : AheadIn(scores, 0 .. n - 1, rows[i]) = Before(rows, i - 1)
      /\ ids \in [1 .. n -> Nat] /\ \A i, j \in 1 .. n : i < j => ids[i] < ids[j]
  BY <1>1 DEF Rows, IsTop, Ascending
<1>3. \A i, j \in 1 .. n : ids[i] = ids[j] => i = j
  <2>1. \A i, j \in 1 .. n : i = j \/ i < j \/ j < i
    OBVIOUS
  <2>2. \A i \in 1 .. n : ids[i] \in Nat
    BY <1>2
  <2>. QED
    BY <1>2, <2>1, <2>2
<1>4. PICK E : E = {ids[i] : i \in DOMAIN ids}
  OBVIOUS
<1>5. PICK score : score = [e \in E |-> scores[CHOOSE i \in DOMAIN ids : ids[i] = e]]
  OBVIOUS
<1>6. ASSUME NEW r \in 0 .. n - 1
      PROVE  ids[r + 1] \in E /\ score[ids[r + 1]] = Score(scores, r)
  <2>1. PICK j : j \in 1 .. n /\ j = r + 1
    OBVIOUS
  <2>2. ids[j] \in E
    BY <1>2, <1>4, <2>1
  <2>3. (CHOOSE i \in DOMAIN ids : ids[i] = ids[j]) = j
    <3>1. \A i \in DOMAIN ids : ids[i] = ids[j] <=> i = j
      BY <1>2, <1>3, <2>1
    <3>. QED
      BY <1>2, <2>1, <3>1
  <2>. QED
    BY <1>5, <2>1, <2>2, <2>3 DEF Score
<1>7. \A e \in E : \E r \in 0 .. n - 1 : ids[r + 1] = e
  <2>1. ASSUME NEW e \in E PROVE \E r \in 0 .. n - 1 : ids[r + 1] = e
    <3>1. PICK i \in 1 .. n : ids[i] = e
      BY <1>2, <1>4
    <3>2. i - 1 \in 0 .. n - 1 /\ (i - 1) + 1 = i
      OBVIOUS
    <3>. QED
      BY <3>1, <3>2
  <2>. QED
    BY <2>1
<1>8. ASSUME NEW c \in 0 .. n - 1, NEW r \in 0 .. n - 1
      PROVE  /\ ids[c + 1] < ids[r + 1] <=> c < r
             /\ Ahead(scores, c, r) <=>
                  \/ score[ids[c + 1]] > score[ids[r + 1]]
                  \/ score[ids[c + 1]] = score[ids[r + 1]] /\ ids[c + 1] < ids[r + 1]
  <2>1. PICK i \in 1 .. n, j \in 1 .. n : i = c + 1 /\ j = r + 1
    OBVIOUS
  <2>2. ids[i] < ids[j] <=> i < j
    <3>1. ids[i] \in Nat /\ ids[j] \in Nat /\ (i < j => ids[i] < ids[j]) /\ (j < i => ids[j] < ids[i])
      BY <1>2
    <3>2. i = j => ids[i] = ids[j]
      OBVIOUS
    <3>. QED
      BY <3>1, <3>2
  <2>3. i < j <=> c < r
    BY <2>1
  <2>4. score[ids[i]] = Score(scores, c) /\ score[ids[j]] = Score(scores, r)
    BY <1>6, <2>1
  <2>. QED
    BY <2>1, <2>2, <2>3, <2>4 DEF Ahead
<1>9. PICK found : found = EntitiesOf(ids, rows)
  OBVIOUS
<1>10. DOMAIN found = 1 .. k /\ \A i \in 1 .. k : found[i] = ids[rows[i] + 1]
  BY <1>2, <1>9 DEF EntitiesOf
<1>11. DOMAIN score = E
  BY <1>5
<1>. DEFINE ahead(e) == {d \in DOMAIN score : score[d] > score[e] \/ (score[d] = score[e] /\ d < e)}
<1>12. ASSUME NEW i \in 1 .. k
       PROVE  found[i] \in DOMAIN score /\ ahead(found[i]) = {found[j] : j \in 1 .. i - 1}
  <2>1. PICK r \in 0 .. n - 1 : r = rows[i]
    BY <1>2
  <2>2. found[i] = ids[r + 1] /\ found[i] \in E
    BY <1>6, <1>10, <2>1
  <2>3. AheadIn(scores, 0 .. n - 1, r) = Before(rows, i - 1)
    BY <1>2, <2>1
  <2>4. \A j \in 1 .. i - 1 : j \in 1 .. k
    OBVIOUS
  <2>5. ASSUME NEW d \in ahead(found[i]) PROVE \E j \in 1 .. i - 1 : d = found[j]
    <3>1. PICK c \in 0 .. n - 1 : ids[c + 1] = d
      BY <1>7, <1>11
    <3>2. Ahead(scores, c, r)
      BY <1>8, <2>2, <3>1
    <3>3. c \in Before(rows, i - 1)
      BY <2>3, <3>2 DEF AheadIn
    <3>4. PICK j \in 1 .. i - 1 : rows[j] = c
      BY <3>3 DEF Before
    <3>. QED
      BY <1>10, <2>4, <3>1, <3>4
  <2>6. ASSUME NEW j \in 1 .. i - 1 PROVE found[j] \in ahead(found[i])
    <3>1. PICK c \in 0 .. n - 1 : c = rows[j]
      BY <1>2, <2>4
    <3>2. c \in Before(rows, i - 1)
      BY <3>1 DEF Before
    <3>3. Ahead(scores, c, r)
      BY <2>3, <3>2 DEF AheadIn
    <3>4. found[j] = ids[c + 1]
      BY <1>10, <2>4, <3>1
    <3>5. found[j] \in E
      BY <1>6, <3>4
    <3>. QED
      BY <1>8, <1>11, <2>2, <3>3, <3>4, <3>5
  <2>7. ahead(found[i]) = {found[j] : j \in 1 .. i - 1}
    <3>. HIDE DEF ahead
    <3>. QED
      BY <2>5, <2>6
  <2>. QED
    BY <1>11, <2>2, <2>7
<1>. DEFINE whole == [e \in {ids[i] : i \in DOMAIN ids} |-> scores[CHOOSE i \in DOMAIN ids : ids[i] = e]]
            before(e) == {d \in DOMAIN whole : whole[d] > whole[e] \/ (whole[d] = whole[e] /\ d < e)}
<1>13. whole = score
  BY <1>4, <1>5
<1>14. \A e : before(e) = ahead(e)
  <2>. HIDE DEF whole
  <2>. QED
    BY <1>13
<1>15. /\ DOMAIN EntitiesOf(ids, rows) = 1 .. k
       /\ \A i \in 1 .. k : /\ EntitiesOf(ids, rows)[i] \in DOMAIN whole
                           /\ before(EntitiesOf(ids, rows)[i]) = {EntitiesOf(ids, rows)[j] : j \in 1 .. i - 1}
  <2>. HIDE DEF whole, before, ahead
  <2>. QED
    BY <1>9, <1>10, <1>12, <1>13, <1>14
<1>. QED
  BY <1>15, Zenon DEF IsTopK

NearestInput ==
  \E scores \in ScoreSets : \E k \in 1 .. Len(scores), batch \in 1 .. Len(scores) :
    \E ids \in Stores(Len(scores)) :
      input = [scores |-> scores, ids |-> ids, k |-> k, batch |-> batch]

\* A search answers with the entities that each of the three found.
NearestInv ==
  job = "nearest" =>
    /\ NearestInput
    /\ answer # None =>
         \A b \in DOMAIN answer :
           \E rows \in {StableTopK(input.scores, 0, Len(input.scores) - 1, input.k),
                        BatchedSearch(input.scores, input.k, input.batch),
                        KernelTopK(input.scores, input.k)} :
             answer[b] = EntitiesOf(input.ids, rows)

LEMMA NearestSteps ==
  ASSUME NearestInv, [Next]_vars
  PROVE  NearestInv'
<1>1. CASE RunNearest
  <2>1. job = "nearest" /\ job' = job /\ input' = input /\ NearestInput
    BY <1>1 DEF RunNearest, NearestInv
  <2>2. PICK stable, batched, kernels :
          /\ stable = StableTopK(input.scores, 0, Len(input.scores) - 1, input.k)
          /\ batched = BatchedSearch(input.scores, input.k, input.batch)
          /\ kernels = KernelTopK(input.scores, input.k)
    OBVIOUS
  <2>3. PICK rows : rows = [stable |-> stable, batched |-> batched, kernel |-> kernels]
    OBVIOUS
  <2>4. answer' = [b \in DOMAIN rows |-> EntitiesOf(input.ids, rows[b])]
    BY <1>1, <2>2, <2>3 DEF RunNearest
  <2>5. DOMAIN rows = {"stable", "batched", "kernel"} /\ \A b \in DOMAIN rows : rows[b] \in {stable, batched, kernels}
    BY <2>3
  <2>6. \A b \in DOMAIN answer' : \E r \in {stable, batched, kernels} : answer'[b] = EntitiesOf(input.ids, r)
    BY <2>4, <2>5
  <2>7. NearestInput'
    BY <2>1 DEF NearestInput
  <2>. QED
    BY <2>1, <2>2, <2>6, <2>7 DEF NearestInv
<1>2. CASE UNCHANGED <<job, input, answer>>
  BY <1>2 DEF NearestInv, NearestInput
<1>3. CASE RunCompile
  BY <1>3 DEF RunCompile, NearestInv
<1>. QED
  BY <1>1, <1>2, <1>3 DEF Next, RunExpand, RunBaselines, vars

(* semantic.py:131-150, 201-211, neuroseek_cuda.cu:148-155: whatever the scores, the
   batches and the store, the reference, the batched search and the kernel return the
   exact stable top-k. *)
THEOREM TopKAlwaysExact == Spec => []TopKExact
<1>1. NearestInv => TopKExact
  <2>. SUFFICES ASSUME NearestInv, job = "nearest", answer # None, NEW b \in DOMAIN answer
                PROVE  IsTopK(input.scores, input.ids, input.k, answer[b])
    BY DEF TopKExact
  <2>1. NearestInput
    BY DEF NearestInv
  <2>2. PICK scores \in ScoreSets : \E k \in 1 .. Len(scores), batch \in 1 .. Len(scores) :
          \E ids \in Stores(Len(scores)) :
            input = [scores |-> scores, ids |-> ids, k |-> k, batch |-> batch]
    BY <2>1 DEF NearestInput
  <2>3. PICK k \in 1 .. Len(scores), batch \in 1 .. Len(scores) :
          \E ids \in Stores(Len(scores)) :
            input = [scores |-> scores, ids |-> ids, k |-> k, batch |-> batch]
    BY <2>2
  <2>4. PICK ids \in Stores(Len(scores)) :
            input = [scores |-> scores, ids |-> ids, k |-> k, batch |-> batch]
    BY <2>3
  <2>5. /\ input.scores = scores /\ input.ids = ids /\ input.k = k /\ input.batch = batch
    BY <2>4
  <2>6. scores \in Seq(Int)
    BY ScoresAssumption
  <2>7. Len(scores) \in Nat /\ k \in Nat /\ k <= Len(scores) /\ batch \in Nat /\ batch >= 1
    BY <2>6
  <2>8. PICK rows \in {StableTopK(scores, 0, Len(scores) - 1, k), BatchedSearch(scores, k, batch),
                       KernelTopK(scores, k)} : answer[b] = EntitiesOf(ids, rows)
    BY <2>5 DEF NearestInv
  <2>9. IsTop(scores, Rows(scores), k, StableTopK(scores, 0, Len(scores) - 1, k))
    <3>1. PICK R : R = Rows(scores)
      OBVIOUS
    <3>2. Cardinality(R) = Len(scores)
      BY <2>6, <3>1, CountRows
    <3>3. IsTop(scores, R, k, Best(scores, R, k))
      BY <2>6, <2>7, <3>1, <3>2, BestIsTop
    <3>. QED
      BY <3>1, <3>3 DEF StableTopK, Rows
  <2>10. IsTop(scores, Rows(scores), k, rows)
    <3>1. IsTop(scores, Rows(scores), k, BatchedSearch(scores, k, batch))
      BY <2>6, <2>7, BatchedIsTop
    <3>2. IsTop(scores, Rows(scores), k, KernelTopK(scores, k))
      BY <2>6, <2>7, KernelIsTop
    <3>. QED
      BY <2>8, <2>9, <3>1, <3>2
  <2>11. Ascending(ids, Len(scores))
    BY <2>7, StoresAscend
  <2>12. IsTopK(scores, ids, k, EntitiesOf(ids, rows))
    BY <2>6, <2>7, <2>10, <2>11, EntitiesTop
  <2>. QED
    BY <2>5, <2>8, <2>12
<1>2. Init => NearestInv
  BY DEF Init, NearestInv, NearestInput
<1>3. NearestInv /\ [Next]_vars => NearestInv'
  BY NearestSteps
<1>. QED
  BY <1>1, <1>2, <1>3, PTL DEF Spec

-----------------------------------------------------------------------------
(* Plans: what the relations of a question reach *)

\* The questions of the path families, and those of two constraints.
PathQuery(q) ==
  /\ q.family \in PathFamilies /\ Len(q.relations) \in Nat \ {0}
  /\ q.source \in Nodes /\ q.answer \in Nodes /\ q.budget \in Nat
PairQuery(q) ==
  /\ q.family = "intersection" /\ Len(q.constraints) = 2
  /\ \A i \in 1 .. 2 :
       [src |-> q.constraints[i][1], relation |-> q.constraints[i][2], dst |-> q.answer] \in Graph
  /\ q.answer \in Nodes /\ q.budget \in Nat

LEMMA WalkIsPath ==
  ASSUME NEW h \in MinHops .. MaxHops, NEW w \in Walks(h)
  PROVE  LET q == PathTask(w) IN
           /\ q.family = "path" /\ Len(q.relations) \in Nat \ {0}
           /\ q.source \in Nodes /\ q.answer \in Nodes
           /\ DOMAIN q = {"family", "source", "answer", "relations", "budget", "constraints",
                          "disabled", "proof"}
<1>1. h \in Nat \ {0} /\ w \in [1 .. h -> Graph]
  BY TaskAssumption DEF Walks
<1>2. Len(w) = h /\ w[1] \in Edge /\ w[h] \in Edge
  BY <1>1, TaskAssumption
<1>3. PICK relations : relations = [i \in 1 .. Len(w) |-> w[i].relation]
  OBVIOUS
<1>4. Len(relations) = h
  BY <1>1, <1>2, <1>3
<1>. QED
  BY <1>1, <1>2, <1>3, <1>4 DEF PathTask, Edge

LEMMA TaskIsQuestion ==
  ASSUME NEW task \in Tasks, NEW b \in Budgets
  PROVE  PathQuery([task EXCEPT !.budget = b]) \/ PairQuery([task EXCEPT !.budget = b])
<1>. DEFINE Fields == {"family", "source", "answer", "relations", "budget", "constraints",
                       "disabled", "proof"}
            Walked(t) == /\ t.family \in PathFamilies /\ Len(t.relations) \in Nat \ {0}
                         /\ t.source \in Nodes /\ t.answer \in Nodes /\ DOMAIN t = Fields
<1>1. \A t \in PathTasks : Walked(t)
  BY WalkIsPath DEF PathTasks, PathFamilies
<1>2. \A t \in DistractorTasks : Walked(t)
  <2>1. ASSUME NEW p \in PathTasks PROVE Walked([p EXCEPT !.family = "distractor"])
    <3>1. Walked(p)
      BY <1>1
    <3>. QED
      BY <3>1 DEF PathFamilies
  <2>. HIDE DEF Walked
  <2>. QED
    BY <2>1 DEF DistractorTasks
<1>3. \A t \in RobustnessTasks : Walked(t)
  <2>1. ASSUME NEW p \in DistractorTasks, NEW e
        PROVE  Walked([p EXCEPT !.family = "robustness", !.disabled = {e}])
    <3>1. Walked(p)
      BY <1>2
    <3>. QED
      BY <3>1 DEF PathFamilies
  <2>. HIDE DEF Walked
  <2>2. ASSUME NEW t \in RobustnessTasks PROVE Walked(t)
    <3>1. PICK q \in DistractorTasks :
            t \in {[q EXCEPT !.family = "robustness", !.disabled = {e}] : e \in Alternatives(q)}
      BY <2>2 DEF RobustnessTasks
    <3>2. PICK e : t = [q EXCEPT !.family = "robustness", !.disabled = {e}]
      BY <3>1
    <3>. QED
      BY <2>1, <3>2
  <2>. QED
    BY <2>2
<1>4. b \in Nat
  BY BudgetsAssumption
<1>5. CASE task \in IntersectionTasks
  <2>1. PICK p \in Graph \X Graph :
          /\ p[1].dst = p[2].dst
          /\ task = [family |-> "intersection", source |-> p[1].src, answer |-> p[1].dst,
                     relations |-> <<p[1].relation>>, budget |-> Budget,
                     constraints |-> <<<<p[1].src, p[1].relation>>, <<p[2].src, p[2].relation>>>>,
                     disabled |-> {}, proof |-> << >>]
    BY <1>5 DEF IntersectionTasks
  <2>2. p[1] \in Graph /\ p[2] \in Graph /\ p[1] \in Edge /\ p[2] \in Edge
    BY TaskAssumption
  <2>3. PICK q : q = [task EXCEPT !.budget = b]
    OBVIOUS
  <2>4. /\ q.family = "intersection" /\ q.answer = p[1].dst /\ q.budget = b
        /\ q.constraints = <<<<p[1].src, p[1].relation>>, <<p[2].src, p[2].relation>>>>
    BY <2>1, <2>3
  <2>5. /\ [src |-> p[1].src, relation |-> p[1].relation, dst |-> p[1].dst] = p[1]
        /\ [src |-> p[2].src, relation |-> p[2].relation, dst |-> p[1].dst] = p[2]
    BY <2>1, <2>2 DEF Edge
  <2>6. \A i \in 1 .. 2 :
          [src |-> q.constraints[i][1], relation |-> q.constraints[i][2], dst |-> q.answer] \in Graph
    BY <2>2, <2>4, <2>5
  <2>7. p[1].dst \in Nodes /\ Len(q.constraints) = 2
    BY <2>2, <2>4 DEF Edge
  <2>8. PairQuery(q)
    BY <1>4, <2>4, <2>6, <2>7 DEF PairQuery
  <2>. QED
    BY <2>3, <2>8
<1>6. CASE task \notin IntersectionTasks
  <2>1. Walked(task)
    BY <1>1, <1>2, <1>3, <1>6 DEF Tasks
  <2>2. PathQuery([task EXCEPT !.budget = b])
    BY <1>4, <2>1 DEF PathQuery
  <2>. QED
    BY <2>2
<1>. QED
  BY <1>5, <1>6

\* One hop along the wanted relation, and all of them.
Hop(q, S, i) ==
  {e.dst : e \in {f \in Graph : f.src \in S /\ f.relation = q.relations[i] /\ f \notin q.disabled}}
ReachOf(q, d) ==
  LET at[i \in 0 .. d] ==
        IF i = 0 THEN {q.source}
        ELSE {e.dst : e \in {f \in Graph : /\ f.src \in at[i - 1]
                                           /\ f.relation = q.relations[i]
                                           /\ f \notin q.disabled}}
  IN  at[d]

LEMMA HopInNodes ==
  ASSUME NEW q, NEW S, NEW i
  PROVE  Hop(q, S, i) \in SUBSET Nodes
BY TaskAssumption DEF Hop, Edge

LEMMA ReachIs ==
  ASSUME NEW q, PathQuery(q)
  PROVE  /\ ReachOf(q, 0) = {q.source}
         /\ \A d \in 0 .. Len(q.relations) : ReachOf(q, d) \in SUBSET Nodes
         /\ \A d \in 1 .. Len(q.relations) : ReachOf(q, d) = Hop(q, ReachOf(q, d - 1), d)
<1>1. PICK h \in Nat : h = Len(q.relations)
  BY DEF PathQuery
<1>2. PICK step : step = [i \in 1 .. h |-> [S \in SUBSET Nodes |-> Hop(q, S, i)]]
  OBVIOUS
<1>3. step \in Steps(h, SUBSET Nodes)
  BY <1>2, HopInNodes DEF Steps
<1>4. {q.source} \in SUBSET Nodes
  BY DEF PathQuery
<1>5. PICK g : Follows(g, h, SUBSET Nodes, {q.source}, step)
  BY <1>3, <1>4, StepByStep
<1>6. /\ g \in [0 .. h -> SUBSET Nodes] /\ g[0] = {q.source}
      /\ \A i \in 1 .. h : g[i] = Hop(q, g[i - 1], i)
  <2>1. /\ g \in [0 .. h -> SUBSET Nodes] /\ g[0] = {q.source}
        /\ \A i \in 1 .. h : g[i] = step[i][g[i - 1]]
    BY <1>5 DEF Follows
  <2>2. \A i \in 1 .. h : g[i - 1] \in SUBSET Nodes
    BY <2>1
  <2>. QED
    BY <1>2, <2>1, <2>2
<1>7. ASSUME NEW d \in 0 .. h PROVE ReachOf(q, d) = g[d]
  <2>. DEFINE one(S, i) == IF i = 0 THEN {q.source} ELSE Hop(q, S, i)
              at == CHOOSE f : f = [i \in 0 .. d |-> one(f[i - 1], i)]
  <2>1. [i \in 0 .. d |-> g[i]] = [i \in 0 .. d |-> one([j \in 0 .. d |-> g[j]][i - 1], i)]
    <3>1. ASSUME NEW i \in 0 .. d PROVE g[i] = one([j \in 0 .. d |-> g[j]][i - 1], i)
      <4>1. CASE i = 0
        BY <1>6, <4>1
      <4>2. CASE i # 0
        <5>1. i \in 1 .. h /\ i - 1 \in 0 .. d
          BY <1>7, <4>2
        <5>2. [j \in 0 .. d |-> g[j]][i - 1] = g[i - 1]
          BY <5>1
        <5>. QED
          BY <1>6, <4>2, <5>1, <5>2
      <4>. QED
        BY <4>1, <4>2
    <3>. HIDE DEF one
    <3>. QED
      BY <3>1
  <2>2. at = [i \in 0 .. d |-> one(at[i - 1], i)]
    <3>. HIDE DEF one
    <3>. QED
      BY <2>1
  <2>3. ReachOf(q, d) = at[d]
    BY DEF ReachOf, Hop
  <2>4. \A i \in 0 .. d : at[i] = one(at[i - 1], i)
    <3>. HIDE DEF one, at
    <3>. QED
      BY <2>2
  <2>. HIDE DEF at
  <2>5. at[0] = {q.source} /\ \A i \in 1 .. d : at[i] = Hop(q, at[i - 1], i)
    BY <2>4
  <2>. DEFINE P == {i \in 0 .. d : at[i] = g[i]}
  <2>6. \A i \in 0 .. d : i \in P
    <3>1. 0 \in P
      <4>1. at[0] = g[0] /\ 0 \in 0 .. d
        BY <1>6, <1>7, <2>5
      <4>. QED
        BY <4>1
    <3>2. ASSUME NEW i \in 1 .. d, i - 1 \in P PROVE i \in P
      BY <1>6, <1>7, <2>5, <3>2
    <3>. HIDE DEF P
    <3>. QED
      BY <3>1, <3>2, UpTo
  <2>. QED
    BY <2>3, <2>6
<1>8. ReachOf(q, 0) = {q.source}
  <2>1. ReachOf(q, 0) = g[0]
    BY <1>1, <1>7
  <2>. QED
    BY <1>6, <2>1
<1>9. \A d \in 0 .. h : ReachOf(q, d) \in SUBSET Nodes
  BY <1>6, <1>7
<1>10. ASSUME NEW d \in 1 .. h PROVE ReachOf(q, d) = Hop(q, ReachOf(q, d - 1), d)
  <2>1. ReachOf(q, d) = g[d] /\ ReachOf(q, d - 1) = g[d - 1]
    BY <1>7
  <2>. QED
    BY <1>6, <2>1
<1>. QED
  BY <1>1, <1>8, <1>9, <1>10

\* Nothing lies beyond an empty layer.
LEMMA NothingBeyond ==
  ASSUME NEW q, PathQuery(q), NEW d \in 0 .. Len(q.relations), ReachOf(q, d) = {}
  PROVE  ReachOf(q, Len(q.relations)) = {}
<1>1. PICK h \in Nat : h = Len(q.relations)
  BY DEF PathQuery
<1>. DEFINE P == {i \in 0 .. h : i >= d => ReachOf(q, i) = {}}
<1>2. \A i \in 0 .. h : i \in P
  <2>1. 0 \in P
    BY <1>1
  <2>2. ASSUME NEW i \in 1 .. h, i - 1 \in P PROVE i \in P
    <3>1. CASE i > d
      <4>1. ReachOf(q, i - 1) = {} /\ ReachOf(q, i) = Hop(q, ReachOf(q, i - 1), i)
        BY <1>1, <2>2, <3>1, ReachIs
      <4>2. Hop(q, {}, i) = {}
        BY DEF Hop
      <4>3. ReachOf(q, i) = {} /\ i \in 0 .. h
        BY <4>1, <4>2
      <4>. QED
        BY <4>3
    <3>2. CASE ~ (i > d)
      BY <1>1, <3>2
    <3>. QED
      BY <3>1, <3>2
  <2>. HIDE DEF P
  <2>. QED
    BY <2>1, <2>2, UpTo
<1>. QED
  BY <1>1, <1>2

\* A proof that is judged valid stays on what the relations reach.
LEMMA ValidIsReached ==
  ASSUME PathQuery(query), NEW proof, ValidProof(proof)
  PROVE  query.answer \in ReachOf(query, Len(query.relations))
<1>1. PICK h \in Nat : h = Len(query.relations)
  BY DEF PathQuery
<1>2. /\ Len(proof) = h + 1 /\ proof[1] = query.source /\ proof[h + 1] = query.answer
      /\ \A i \in 1 .. h : Claimed(query, proof, i) \in Graph \ query.disabled
  BY <1>1 DEF ValidProof, ValidatePathProof
<1>. DEFINE P == {i \in 0 .. h : proof[i + 1] \in ReachOf(query, i)}
<1>3. \A i \in 0 .. h : i \in P
  <2>1. 0 \in P
    BY <1>2, ReachIs
  <2>2. ASSUME NEW i \in 1 .. h, i - 1 \in P PROVE i \in P
    <3>1. PICK e : e = Claimed(query, proof, i)
      OBVIOUS
    <3>2. e \in Graph /\ e \notin query.disabled /\ e.src = proof[i]
          /\ e.relation = query.relations[i] /\ e.dst = proof[i + 1]
      BY <1>2, <3>1 DEF Claimed
    <3>3. proof[i] \in ReachOf(query, i - 1)
      BY <2>2
    <3>4. proof[i + 1] \in Hop(query, ReachOf(query, i - 1), i)
      BY <3>2, <3>3 DEF Hop
    <3>. QED
      BY <1>1, <3>4, ReachIs
  <2>. HIDE DEF P
  <2>. QED
    BY <2>1, <2>2, UpTo
<1>. QED
  BY <1>1, <1>2, <1>3

\* What the fixed plan has paid and seen after each hop.
Spending(q, f) ==
  f \in [0 .. Len(q.relations) -> Nat] /\ f[0] = 0
    /\ \A i \in 1 .. Len(q.relations) : f[i] = f[i - 1] + 1 + Cardinality(ReachOf(q, i))
Seeing(q, f) ==
  f \in [0 .. Len(q.relations) -> Nat] /\ f[0] = 0
    /\ \A i \in 1 .. Len(q.relations) : f[i] = f[i - 1] + Cardinality(OutOf(ReachOf(q, i - 1)))
Spent(q) == CHOOSE f : Spending(q, f)
Seen(q)  == CHOOSE f : Seeing(q, f)

LEMMA NodesCount ==
  ASSUME NEW S \in SUBSET Nodes, NEW T \in SUBSET Nodes, S \subseteq T
  PROVE  /\ Cardinality(S) \in Nat /\ Cardinality(T) \in Nat /\ Cardinality(S) <= Cardinality(T)
         /\ Cardinality(OutOf(S)) \in Nat /\ Cardinality(OutOf(T)) \in Nat
         /\ Cardinality(OutOf(S)) <= Cardinality(OutOf(T))
<1>1. IsFiniteSet(T) /\ IsFiniteSet(S)
  BY TaskAssumption, FS_Subset
<1>2. OutOf(S) \subseteq OutOf(T) /\ OutOf(T) \subseteq Graph
  BY DEF OutOf
<1>3. IsFiniteSet(OutOf(T)) /\ IsFiniteSet(OutOf(S))
  BY <1>2, FileAssumption, FS_Subset
<1>4. Cardinality(S) <= Cardinality(T) /\ Cardinality(OutOf(S)) <= Cardinality(OutOf(T))
  BY <1>1, <1>2, <1>3, FS_Subset
<1>. QED
  BY <1>1, <1>3, <1>4, FS_CardinalityType

LEMMA SpentIs ==
  ASSUME NEW q, PathQuery(q)
  PROVE  Spending(q, Spent(q)) /\ Seeing(q, Seen(q))
<1>1. PICK h \in Nat : h = Len(q.relations)
  BY DEF PathQuery
<1>2. \A d \in 0 .. h : ReachOf(q, d) \in SUBSET Nodes
  BY <1>1, ReachIs
<1>3. \A d \in 0 .. h : Cardinality(ReachOf(q, d)) \in Nat /\ Cardinality(OutOf(ReachOf(q, d))) \in Nat
  BY <1>2, NodesCount
<1>4. ASSUME NEW a \in [1 .. h -> Nat]
      PROVE  \E f : f \in [0 .. h -> Nat] /\ f[0] = 0 /\ \A i \in 1 .. h : f[i] = f[i - 1] + a[i]
  <2>1. PICK step : step = [i \in 1 .. h |-> [n \in Nat |-> n + a[i]]]
    OBVIOUS
  <2>2. step \in Steps(h, Nat)
    BY <1>4, <2>1 DEF Steps
  <2>3. PICK f : Follows(f, h, Nat, 0, step)
    BY <2>2, StepByStep
  <2>4. f \in [0 .. h -> Nat] /\ f[0] = 0 /\ \A i \in 1 .. h : f[i] = step[i][f[i - 1]]
    BY <2>3 DEF Follows
  <2>5. \A i \in 1 .. h : f[i - 1] \in Nat
    BY <2>4
  <2>6. \A i \in 1 .. h : f[i] = f[i - 1] + a[i]
    BY <2>1, <2>4, <2>5
  <2>. QED
    BY <2>4, <2>6
<1>5. \E f : Spending(q, f)
  <2>1. PICK a : a = [i \in 1 .. h |-> 1 + Cardinality(ReachOf(q, i))]
    OBVIOUS
  <2>2. a \in [1 .. h -> Nat]
    BY <1>3, <2>1
  <2>3. PICK f : f \in [0 .. h -> Nat] /\ f[0] = 0 /\ \A i \in 1 .. h : f[i] = f[i - 1] + a[i]
    BY <1>4, <2>2
  <2>4. ASSUME NEW i \in 1 .. h PROVE f[i] = f[i - 1] + 1 + Cardinality(ReachOf(q, i))
    <3>1. a[i] = 1 + Cardinality(ReachOf(q, i)) /\ f[i] = f[i - 1] + a[i]
      BY <2>1, <2>3
    <3>2. f[i - 1] \in Nat /\ Cardinality(ReachOf(q, i)) \in Nat
      BY <1>3, <2>3
    <3>. QED
      BY <3>1, <3>2
  <2>. QED
    BY <1>1, <2>3, <2>4 DEF Spending
<1>6. \E f : Seeing(q, f)
  <2>1. PICK a : a = [i \in 1 .. h |-> Cardinality(OutOf(ReachOf(q, i - 1)))]
    OBVIOUS
  <2>2. a \in [1 .. h -> Nat]
    BY <1>3, <2>1
  <2>3. PICK f : f \in [0 .. h -> Nat] /\ f[0] = 0 /\ \A i \in 1 .. h : f[i] = f[i - 1] + a[i]
    BY <1>4, <2>2
  <2>4. \A i \in 1 .. h : f[i] = f[i - 1] + Cardinality(OutOf(ReachOf(q, i - 1)))
    BY <2>1, <2>3
  <2>. QED
    BY <1>1, <2>3, <2>4 DEF Seeing
<1>. QED
  BY <1>5, <1>6 DEF Spent, Seen

\* A plan that pays for the last hop has paid for every one before.
LEMMA SpentGrows ==
  ASSUME NEW q, PathQuery(q), NEW d \in 0 .. Len(q.relations)
  PROVE  Spent(q)[d] <= Spent(q)[Len(q.relations)]
<1>1. PICK h \in Nat : h = Len(q.relations)
  BY DEF PathQuery
<1>2. PICK f : f = Spent(q)
  OBVIOUS
<1>3. /\ f \in [0 .. h -> Nat]
      /\ \A i \in 1 .. h : f[i] = f[i - 1] + 1 + Cardinality(ReachOf(q, i))
  BY <1>1, <1>2, SpentIs DEF Spending
<1>4. \A i \in 1 .. h : f[i - 1] <= f[i]
  <2>1. ASSUME NEW i \in 1 .. h PROVE f[i - 1] <= f[i]
    <3>1. Cardinality(ReachOf(q, i)) \in Nat
      <4>1. ReachOf(q, i) \in SUBSET Nodes
        BY <1>1, ReachIs
      <4>. QED
        BY <4>1, NodesCount
    <3>2. f[i - 1] \in Nat /\ f[i] = f[i - 1] + 1 + Cardinality(ReachOf(q, i))
      BY <1>3
    <3>. QED
      BY <3>1, <3>2
  <2>. QED
    BY <2>1
<1>. DEFINE P == {i \in 0 .. h : i >= d => f[d] <= f[i]}
<1>5. \A i \in 0 .. h : i \in P
  <2>1. 0 \in P
    <3>1. f[d] \in Nat
      BY <1>1, <1>3
    <3>. QED
      BY <1>1, <3>1
  <2>2. ASSUME NEW i \in 1 .. h, i - 1 \in P PROVE i \in P
    <3>1. f[i - 1] <= f[i]
      BY <1>4
    <3>2. i - 1 \in 0 .. h /\ i \in 0 .. h /\ d \in 0 .. h
      BY <1>1
    <3>3. f[i - 1] \in Nat /\ f[i] \in Nat /\ f[d] \in Nat
      BY <1>3, <3>2
    <3>4. i - 1 >= d => f[d] <= f[i - 1]
      BY <2>2
    <3>5. i >= d => f[d] <= f[i]
      <4>1. i >= d => i - 1 >= d \/ i = d
        BY <3>2
      <4>. QED
        BY <3>1, <3>3, <3>4, <4>1
    <3>. QED
      BY <3>2, <3>5
  <2>. HIDE DEF P
  <2>. QED
    BY <2>1, <2>2, UpTo
<1>. QED
  BY <1>1, <1>2, <1>5

\* Each node of each layer has a parent in the layer before, over a wanted edge.
Parented(q, parents, d) ==
  \A k \in 1 .. d : \A v \in ReachOf(q, k) :
    /\ <<k, v>> \in DOMAIN parents /\ parents[<<k, v>>] \in ReachOf(q, k - 1)
    /\ [src |-> parents[<<k, v>>], relation |-> q.relations[k], dst |-> v] \in Graph \ q.disabled

LEMMA LeastIn ==
  ASSUME NEW S \in SUBSET Nat, S # {}
  PROVE  LeastOf(S) \in S
BY LeastIs DEF LeastOf

\* The next layer has its parents in this one.
LEMMA ParentsFound ==
  ASSUME PathQuery(query), NEW s, s.plan # "bfs",
         s.depth \in 0 .. Len(query.relations) - 1, s.frontier = ReachOf(query, s.depth),
         Parented(query, s.parents, s.depth)
  PROVE  /\ {e.dst : e \in Followed(s)} = ReachOf(query, s.depth + 1)
         /\ Parented(query, Parents(s, Followed(s)), s.depth + 1)
<1>0. PICK h \in Nat \ {0} : h = Len(query.relations)
  BY DEF PathQuery
<1>1. PICK d \in 0 .. h - 1 : h = Len(query.relations) /\ d = s.depth
  BY <1>0
<1>2. PICK F : F = Followed(s)
  OBVIOUS
<1>3. F = {f \in Graph : f.src \in ReachOf(query, d) /\ f.relation = query.relations[d + 1]
                           /\ f \notin query.disabled}
  BY <1>1, <1>2 DEF Followed, OutOf
<1>4. {e.dst : e \in F} = ReachOf(query, d + 1)
  <2>1. ReachOf(query, d + 1) = Hop(query, ReachOf(query, d), d + 1)
    <3>1. d + 1 \in 1 .. h /\ (d + 1) - 1 = d
      BY <1>1
    <3>. QED
      BY <1>1, <3>1, ReachIs
  <2>. QED
    BY <1>3, <2>1 DEF Hop
<1>5. PICK par : par = Parents(s, F)
  OBVIOUS
<1>6. PICK keys : keys = {<<d + 1, e.dst>> : e \in F}
  OBVIOUS
<1>7. par = [key \in DOMAIN s.parents \cup keys |->
               IF key \in keys THEN LeastOf({e.src : e \in {f \in F : f.dst = key[2]}})
               ELSE s.parents[key]]
  BY <1>1, <1>5, <1>6 DEF Parents
<1>8. ASSUME NEW k \in 1 .. d, NEW v \in ReachOf(query, k)
      PROVE  /\ <<k, v>> \in DOMAIN par /\ par[<<k, v>>] \in ReachOf(query, k - 1)
             /\ [src |-> par[<<k, v>>], relation |-> query.relations[k], dst |-> v]
                  \in Graph \ query.disabled
  <2>1. /\ <<k, v>> \in DOMAIN s.parents /\ s.parents[<<k, v>>] \in ReachOf(query, k - 1)
        /\ [src |-> s.parents[<<k, v>>], relation |-> query.relations[k], dst |-> v]
             \in Graph \ query.disabled
    BY <1>1, <1>8 DEF Parented
  <2>2. <<k, v>> \notin keys
    <3>1. k # d + 1
      BY <1>1
    <3>. QED
      BY <1>6, <3>1
  <2>3. <<k, v>> \in DOMAIN par /\ par[<<k, v>>] = s.parents[<<k, v>>]
    BY <1>7, <2>1, <2>2
  <2>. QED
    BY <2>1, <2>3
<1>9. ASSUME NEW v \in ReachOf(query, d + 1)
      PROVE  /\ <<d + 1, v>> \in DOMAIN par /\ par[<<d + 1, v>>] \in ReachOf(query, d)
             /\ [src |-> par[<<d + 1, v>>], relation |-> query.relations[d + 1], dst |-> v]
                  \in Graph \ query.disabled
  <2>1. PICK S : S = {e.src : e \in {f \in F : f.dst = v}}
    OBVIOUS
  <2>2. PICK e \in F : e.dst = v
    BY <1>4, <1>9
  <2>3. <<d + 1, v>> \in keys
    BY <1>6, <2>2
  <2>4. S # {} /\ S \in SUBSET Nat
    <3>1. e.src \in S
      BY <2>1, <2>2
    <3>2. \A f \in F : f.src \in Nat
      BY <1>3, TaskAssumption DEF Edge
    <3>. QED
      BY <2>1, <3>1, <3>2
  <2>5. LeastOf(S) \in S
    BY <2>4, LeastIn
  <2>6. PICK f \in F : f.dst = v /\ f.src = LeastOf(S)
    BY <2>1, <2>5
  <2>7. <<d + 1, v>> \in DOMAIN par /\ par[<<d + 1, v>>] = LeastOf(S)
    <3>1. <<d + 1, v>>[2] = v
      OBVIOUS
    <3>. QED
      BY <1>7, <2>1, <2>3, <3>1
  <2>8. f = [src |-> f.src, relation |-> f.relation, dst |-> f.dst]
    BY <1>3, TaskAssumption DEF Edge
  <2>9. f \in Graph \ query.disabled /\ f.src \in ReachOf(query, d)
        /\ f.relation = query.relations[d + 1]
    BY <1>3
  <2>. QED
    BY <2>6, <2>7, <2>8, <2>9
<1>10. Parented(query, par, d + 1)
  <2>1. \A k \in 1 .. d + 1 : k \in 1 .. d \/ k = d + 1
    BY <1>1
  <2>2. (d + 1) - 1 = d
    BY <1>1
  <2>. QED
    BY <1>8, <1>9, <2>1, <2>2 DEF Parented
<1>. QED
  BY <1>1, <1>2, <1>4, <1>5, <1>10

\* The path back from an answer that was reached is a proof.
LEMMA PathIsProof ==
  ASSUME PathQuery(query), NEW parents, Parented(query, parents, Len(query.relations)),
         query.answer \in ReachOf(query, Len(query.relations))
  PROVE  ValidProof(PathBack(parents, Len(query.relations)))
<1>1. PICK h \in Nat \ {0} : h = Len(query.relations)
  BY DEF PathQuery
<1>2. PICK q : q = query
  OBVIOUS
<1>. DEFINE one(v, d) == IF d = h THEN q.answer ELSE parents[<<d + 1, v>>]
            node == CHOOSE f : f = [d \in 0 .. h |-> one(f[d + 1], d)]
<1>3. \A d \in 0 .. h : ReachOf(q, d) \in SUBSET Nodes
  BY <1>1, <1>2, ReachIs
<1>4. \E f : f = [d \in 0 .. h |-> one(f[d + 1], d)]
  <2>1. PICK step : step = [i \in 1 .. h |-> [v \in Nodes |->
                              IF v \in ReachOf(q, h - i + 1) THEN parents[<<h - i + 1, v>>] ELSE v]]
    OBVIOUS
  <2>2. ASSUME NEW i \in 1 .. h, NEW v \in ReachOf(q, h - i + 1)
        PROVE  parents[<<h - i + 1, v>>] \in ReachOf(q, h - i)
    <3>1. PICK k \in 1 .. h : k = h - i + 1
      BY <2>2
    <3>2. parents[<<k, v>>] \in ReachOf(q, k - 1)
      <4>1. v \in ReachOf(q, k)
        BY <2>2, <3>1
      <4>. QED
        BY <1>1, <1>2, <4>1 DEF Parented
    <3>3. k - 1 = h - i
      BY <1>1, <2>2, <3>1
    <3>. QED
      BY <3>1, <3>2, <3>3
  <2>3. step \in Steps(h, Nodes)
    <3>1. ASSUME NEW i \in 1 .. h, NEW v \in Nodes PROVE step[i][v] \in Nodes
      <4>1. step[i][v] = IF v \in ReachOf(q, h - i + 1) THEN parents[<<h - i + 1, v>>] ELSE v
        BY <2>1
      <4>2. h - i \in 0 .. h
        BY <3>1
      <4>3. ReachOf(q, h - i) \in SUBSET Nodes
        BY <1>3, <4>2
      <4>4. v \in ReachOf(q, h - i + 1) => parents[<<h - i + 1, v>>] \in Nodes
        BY <2>2, <4>3
      <4>. QED
        BY <4>1, <4>4
    <3>2. step = [i \in 1 .. h |-> step[i]] /\ \A i \in 1 .. h : step[i] = [v \in Nodes |-> step[i][v]]
      BY <2>1
    <3>. QED
      BY <3>1, <3>2 DEF Steps
  <2>4. q.answer \in Nodes
    BY <1>2 DEF PathQuery
  <2>5. PICK g : Follows(g, h, Nodes, q.answer, step)
    BY <2>3, <2>4, StepByStep
  <2>6. /\ g \in [0 .. h -> Nodes] /\ g[0] = q.answer
        /\ \A i \in 1 .. h : g[i] = step[i][g[i - 1]]
    BY <2>5 DEF Follows
  <2>. DEFINE P == {i \in 0 .. h : g[i] \in ReachOf(q, h - i)}
  <2>7. \A i \in 0 .. h : i \in P
    <3>1. 0 \in P
      <4>1. h - 0 = h
        OBVIOUS
      <4>. QED
        BY <1>1, <1>2, <2>6, <4>1
    <3>2. ASSUME NEW i \in 1 .. h, i - 1 \in P PROVE i \in P
      <4>1. h - (i - 1) = h - i + 1
        BY <3>2
      <4>2. g[i - 1] \in ReachOf(q, h - i + 1) /\ g[i - 1] \in Nodes
        BY <2>6, <3>2, <4>1
      <4>3. g[i] = parents[<<h - i + 1, g[i - 1]>>]
        BY <2>1, <2>6, <4>2
      <4>4. g[i] \in ReachOf(q, h - i)
        BY <2>2, <4>2, <4>3
      <4>. QED
        BY <4>4
    <3>. HIDE DEF P
    <3>. QED
      BY <3>1, <3>2, UpTo
  <2>8. PICK f : f = [d \in 0 .. h |-> g[h - d]]
    OBVIOUS
  <2>9. ASSUME NEW d \in 0 .. h PROVE f[d] = one(f[d + 1], d)
    <3>1. CASE d = h
      <4>1. h - h = 0
        OBVIOUS
      <4>. QED
        BY <2>6, <2>8, <3>1, <4>1
    <3>2. CASE d # h
      <4>1. PICK i \in 1 .. h : i = h - d
        BY <2>9, <3>2
      <4>2. h - i + 1 = d + 1 /\ h - (d + 1) = i - 1 /\ d + 1 \in 0 .. h /\ h - (i - 1) = d + 1
            /\ i - 1 \in 0 .. h
        BY <2>9, <3>2, <4>1
      <4>3. f[d] = g[i] /\ f[d + 1] = g[i - 1]
        BY <2>8, <4>1, <4>2
      <4>4. g[i - 1] \in ReachOf(q, d + 1) /\ g[i - 1] \in Nodes
        BY <2>6, <2>7, <4>2
      <4>5. g[i] = parents[<<d + 1, g[i - 1]>>]
        BY <2>1, <2>6, <4>2, <4>4
      <4>. QED
        BY <3>2, <4>3, <4>5
    <3>. QED
      BY <3>1, <3>2
  <2>10. f = [d \in 0 .. h |-> one(f[d + 1], d)]
    <3>1. f = [d \in 0 .. h |-> f[d]]
      BY <2>8
    <3>. HIDE DEF one
    <3>. QED
      BY <2>9, <3>1
  <2>. QED
    BY <2>10
<1>5. node = [d \in 0 .. h |-> one(node[d + 1], d)]
  <2>. HIDE DEF one
  <2>. QED
    BY <1>4
<1>6. PathBack(parents, h) = [i \in 1 .. h + 1 |-> node[i - 1]]
  BY <1>2 DEF PathBack
<1>7. \A d \in 0 .. h : node[d] = one(node[d + 1], d)
  <2>. HIDE DEF one, node
  <2>. QED
    BY <1>5
<1>. HIDE DEF node
<1>8. node[h] = q.answer /\ \A d \in 0 .. h - 1 : node[d] = parents[<<d + 1, node[d + 1]>>]
  <2>1. h \in 0 .. h /\ \A d \in 0 .. h - 1 : d \in 0 .. h /\ d # h
    OBVIOUS
  <2>2. node[h] = q.answer
    <3>1. node[h] = one(node[h + 1], h)
      <4>. HIDE DEF one
      <4>. QED
        BY <1>7, <2>1
    <3>. QED
      BY <3>1
  <2>3. ASSUME NEW d \in 0 .. h - 1 PROVE node[d] = parents[<<d + 1, node[d + 1]>>]
    <3>1. node[d] = one(node[d + 1], d)
      <4>. HIDE DEF one
      <4>. QED
        BY <1>7, <2>1
    <3>. QED
      BY <2>1, <3>1
  <2>. QED
    BY <2>2, <2>3
<1>. DEFINE P == {i \in 0 .. h : node[h - i] \in ReachOf(q, h - i)}
<1>9. \A i \in 0 .. h : i \in P
  <2>1. 0 \in P
    <3>1. h - 0 = h
      OBVIOUS
    <3>. QED
      BY <1>1, <1>2, <1>8, <3>1
  <2>2. ASSUME NEW i \in 1 .. h, i - 1 \in P PROVE i \in P
    <3>1. PICK d \in 0 .. h - 1 : d = h - i
      BY <2>2
    <3>2. d + 1 = h - (i - 1) /\ d + 1 \in 1 .. h /\ (d + 1) - 1 = d
      BY <2>2, <3>1
    <3>3. node[d + 1] \in ReachOf(q, d + 1)
      BY <2>2, <3>2
    <3>4. parents[<<d + 1, node[d + 1]>>] \in ReachOf(q, d)
      BY <1>1, <1>2, <3>2, <3>3 DEF Parented
    <3>5. node[h - i] \in ReachOf(q, h - i)
      BY <1>8, <3>1, <3>4
    <3>. QED
      BY <3>5
  <2>. HIDE DEF P
  <2>. QED
    BY <2>1, <2>2, UpTo
<1>10. ASSUME NEW d \in 0 .. h PROVE node[d] \in ReachOf(q, d)
  <2>1. h - d \in 0 .. h /\ h - (h - d) = d
    BY <1>10
  <2>. QED
    BY <1>9, <2>1
<1>11. PICK path : path = PathBack(parents, h)
  OBVIOUS
<1>12. /\ path \in [1 .. h + 1 -> Nodes] /\ Len(path) = h + 1
       /\ \A i \in 1 .. h + 1 : path[i] = node[i - 1]
  <2>1. path = [i \in 1 .. h + 1 |-> node[i - 1]]
    BY <1>6, <1>11
  <2>2. \A i \in 1 .. h + 1 : node[i - 1] \in Nodes
    <3>1. \A i \in 1 .. h + 1 : i - 1 \in 0 .. h
      OBVIOUS
    <3>. QED
      BY <1>3, <1>10, <3>1
  <2>3. path \in [1 .. h + 1 -> Nodes]
    BY <2>1, <2>2
  <2>4. Len(path) = h + 1
    BY <2>3
  <2>. QED
    BY <2>1, <2>3, <2>4
<1>13. path[1] = q.source /\ path[h + 1] = q.answer
  <2>1. path[1] = node[0] /\ path[h + 1] = node[h]
    <3>1. 1 \in 1 .. h + 1 /\ h + 1 \in 1 .. h + 1 /\ (h + 1) - 1 = h /\ 1 - 1 = 0
      OBVIOUS
    <3>. QED
      BY <1>12, <3>1
  <2>2. node[0] \in {q.source}
    <3>1. ReachOf(q, 0) = {q.source}
      BY <1>2, ReachIs
    <3>. QED
      BY <1>10, <3>1
  <2>. QED
    BY <1>8, <2>1, <2>2
<1>14. ASSUME NEW i \in 1 .. h PROVE Claimed(q, path, i) \in Graph \ q.disabled
  <2>1. path[i] = node[i - 1] /\ path[i + 1] = node[i]
    <3>1. i \in 1 .. h + 1 /\ i + 1 \in 1 .. h + 1 /\ (i + 1) - 1 = i
      BY <1>14
    <3>. QED
      BY <1>12, <3>1
  <2>2. node[i - 1] = parents[<<i, node[i]>>]
    <3>1. i - 1 \in 0 .. h - 1 /\ (i - 1) + 1 = i
      BY <1>14
    <3>. QED
      BY <1>8, <3>1
  <2>3. node[i] \in ReachOf(q, i)
    BY <1>10
  <2>4. [src |-> node[i - 1], relation |-> q.relations[i], dst |-> node[i]] \in Graph \ q.disabled
    BY <1>1, <1>2, <2>2, <2>3 DEF Parented
  <2>. QED
    BY <2>1, <2>4 DEF Claimed
<1>. QED
  BY <1>1, <1>2, <1>11, <1>12, <1>13, <1>14 DEF ValidProof, ValidatePathProof

-----------------------------------------------------------------------------
(* Plans: the searches and their reports *)

SearchFields == {"pc", "plan", "depth", "frontier", "parents", "edges", "nodes", "credits"}
ReportFields == {"plan", "applicable", "answer", "correct", "valid", "nodes", "edges", "steps",
                 "credits", "proof", "exhausted"}

\* The fixed plan is on the layer of its depth, whatever it found on the way.
ExactSearch(q, s) ==
  /\ s.frontier = ReachOf(q, s.depth) /\ Parented(q, s.parents, s.depth)
  /\ s.credits = Spent(q)[s.depth] /\ s.edges = Seen(q)[s.depth]

\* The breadth-first search is on that layer and more, and has paid for it.
WideSearch(q, s) ==
  /\ ReachOf(q, s.depth) \subseteq s.frontier /\ s.frontier \in SUBSET Nodes
  /\ s.credits \in Nat /\ s.edges \in Nat
  /\ Spent(q)[s.depth] <= s.credits /\ Seen(q)[s.depth] <= s.edges

Advancing(q, s) ==
  /\ s.pc = "hop" /\ DOMAIN s = SearchFields /\ s.depth \in 0 .. Len(q.relations) - 1
  /\ \/ s.plan = "fixed_relation" /\ ExactSearch(q, s)
     \/ s.plan = "bfs" /\ WideSearch(q, s)

Narrowing(q, s) ==
  /\ s.pc = "constraint" /\ DOMAIN s = SearchFields /\ s.depth \in 0 .. 1
  /\ s.plan = "hybrid" /\ q.answer \in s.frontier

ExactReport(q, r) ==
  /\ DOMAIN r = ReportFields
  /\ ~r.exhausted => /\ r.correct <=> q.answer \in ReachOf(q, Len(q.relations))
                     /\ r.correct => /\ r.valid /\ r.credits = Spent(q)[Len(q.relations)]
                                     /\ r.edges = Seen(q)[Len(q.relations)]
  /\ r.exhausted => q.budget < Spent(q)[Len(q.relations)]

WideReport(q, r) ==
  r.valid => /\ q.answer \in ReachOf(q, Len(q.relations))
             /\ Spent(q)[Len(q.relations)] <= r.credits /\ r.credits <= q.budget
             /\ Seen(q)[Len(q.relations)] <= r.edges

PairReport(r) == ~r.exhausted => r.correct /\ r.valid
NoReport(r)   == ~r.applicable /\ ~r.valid

\* The step of a search: one more layer, paid for.
Layered(s, t, next, edges) ==
  /\ t.pc = s.pc /\ t.plan = s.plan /\ DOMAIN t = SearchFields
  /\ t.depth = s.depth + 1 /\ t.frontier = next
  /\ t.edges = s.edges + edges /\ t.credits = s.credits + 1 + Cardinality(next)

LEMMA HopReaches ==
  ASSUME NEW q, NEW S, NEW T, NEW i, S \subseteq T
  PROVE  Hop(q, S, i) \subseteq Hop(q, T, i)
BY DEF Hop

\* The fixed plan stays on the layers.
LEMMA ExactHop ==
  ASSUME PathQuery(query), NEW s, Advancing(query, s), s.plan = "fixed_relation",
         NEW t, Layered(s, t, {e.dst : e \in Followed(s)}, Cardinality(OutOf(s.frontier))),
         t.parents = Parents(s, Followed(s))
  PROVE  ExactSearch(query, t)
<1>1. PICK h \in Nat \ {0} : h = Len(query.relations)
  BY DEF PathQuery
<1>2. PICK d \in 0 .. h - 1 : d = s.depth
  BY <1>1 DEF Advancing
<1>3. ExactSearch(query, s) /\ s.plan # "bfs"
  BY DEF Advancing
<1>4. t.depth = d + 1 /\ d + 1 \in 1 .. h /\ (d + 1) - 1 = d
  BY <1>2 DEF Layered
<1>5. /\ {e.dst : e \in Followed(s)} = ReachOf(query, d + 1)
      /\ Parented(query, Parents(s, Followed(s)), d + 1)
  BY <1>1, <1>2, <1>3, ParentsFound DEF ExactSearch
<1>6. t.frontier = ReachOf(query, d + 1) /\ t.credits = s.credits + 1 + Cardinality(ReachOf(query, d + 1))
      /\ t.edges = s.edges + Cardinality(OutOf(ReachOf(query, d)))
  BY <1>2, <1>3, <1>5 DEF Layered, ExactSearch
<1>7. s.credits = Spent(query)[d] /\ s.edges = Seen(query)[d]
  BY <1>2, <1>3 DEF ExactSearch
<1>8. /\ Spent(query)[d + 1] = Spent(query)[d] + 1 + Cardinality(ReachOf(query, d + 1))
      /\ Seen(query)[d + 1] = Seen(query)[d] + Cardinality(OutOf(ReachOf(query, d)))
  <2>1. Spending(query, Spent(query)) /\ Seeing(query, Seen(query))
    BY SpentIs
  <2>. HIDE DEF Spent, Seen
  <2>. QED
    BY <1>1, <1>4, <2>1 DEF Spending, Seeing
<1>. QED
  BY <1>4, <1>5, <1>6, <1>7, <1>8 DEF ExactSearch

\* The breadth-first search stays ahead of it.
LEMMA WideHop ==
  ASSUME PathQuery(query), NEW s, Advancing(query, s), s.plan = "bfs",
         NEW t, Layered(s, t, {e.dst : e \in Followed(s)}, Cardinality(OutOf(s.frontier)))
  PROVE  WideSearch(query, t)
<1>1. PICK h \in Nat \ {0} : h = Len(query.relations)
  BY DEF PathQuery
<1>2. PICK d \in 0 .. h - 1 : d = s.depth
  BY <1>1 DEF Advancing
<1>3. WideSearch(query, s)
  BY DEF Advancing
<1>4. t.depth = d + 1 /\ d + 1 \in 1 .. h /\ (d + 1) - 1 = d
  BY <1>2 DEF Layered
<1>5. PICK A, B : A = ReachOf(query, d) /\ B = s.frontier
  OBVIOUS
<1>6. A \in SUBSET Nodes /\ B \in SUBSET Nodes /\ A \subseteq B
  <2>1. d \in 0 .. h
    OBVIOUS
  <2>2. A \in SUBSET Nodes
    BY <1>1, <1>5, <2>1, ReachIs
  <2>. QED
    BY <1>2, <1>3, <1>5, <2>2 DEF WideSearch
<1>7. PICK C, D : C = ReachOf(query, d + 1) /\ D = {e.dst : e \in Followed(s)}
  OBVIOUS
<1>8. C = Hop(query, A, d + 1)
  BY <1>1, <1>4, <1>5, <1>7, ReachIs
<1>9. C \subseteq D /\ D \in SUBSET Nodes /\ C \in SUBSET Nodes
  <2>1. Hop(query, B, d + 1) \subseteq D
    BY <1>2, <1>5, <1>7 DEF Hop, Followed, OutOf
  <2>2. C \subseteq D
    BY <1>6, <1>8, <2>1, HopReaches
  <2>3. D \in SUBSET Nodes
    <3>1. Followed(s) \subseteq Graph
      BY DEF Followed, OutOf
    <3>2. \A e \in Graph : e.dst \in Nodes
      BY TaskAssumption DEF Edge
    <3>. QED
      BY <1>7, <3>1, <3>2
  <2>. QED
    BY <2>2, <2>3
<1>10. /\ Cardinality(C) \in Nat /\ Cardinality(D) \in Nat /\ Cardinality(C) <= Cardinality(D)
       /\ Cardinality(OutOf(A)) \in Nat /\ Cardinality(OutOf(B)) \in Nat
       /\ Cardinality(OutOf(A)) <= Cardinality(OutOf(B))
  BY <1>6, <1>9, NodesCount
<1>11. PICK f, g : f = Spent(query) /\ g = Seen(query)
  OBVIOUS
<1>12. /\ f[d + 1] = f[d] + 1 + Cardinality(C) /\ f[d] \in Nat
       /\ g[d + 1] = g[d] + Cardinality(OutOf(A)) /\ g[d] \in Nat
  <2>1. Spending(query, f) /\ Seeing(query, g)
    BY <1>11, SpentIs
  <2>2. /\ f \in [0 .. h -> Nat] /\ g \in [0 .. h -> Nat]
        /\ \A i \in 1 .. h : f[i] = f[i - 1] + 1 + Cardinality(ReachOf(query, i))
        /\ \A i \in 1 .. h : g[i] = g[i - 1] + Cardinality(OutOf(ReachOf(query, i - 1)))
    BY <1>1, <2>1 DEF Spending, Seeing
  <2>3. /\ f[d + 1] = f[d] + 1 + Cardinality(ReachOf(query, d + 1))
        /\ g[d + 1] = g[d] + Cardinality(OutOf(ReachOf(query, d)))
    BY ONLY <1>4, <2>2
  <2>4. f[d] \in Nat /\ g[d] \in Nat
    BY ONLY <1>1, <1>2, <2>2
  <2>. QED
    BY ONLY <1>5, <1>7, <2>3, <2>4
<1>13. s.credits \in Nat /\ s.edges \in Nat /\ f[d] <= s.credits /\ g[d] <= s.edges
  BY <1>2, <1>3, <1>11 DEF WideSearch
<1>14. t.credits = s.credits + 1 + Cardinality(D) /\ t.edges = s.edges + Cardinality(OutOf(B))
       /\ t.frontier = D
  BY <1>5, <1>7 DEF Layered
<1>15. t.credits \in Nat /\ t.edges \in Nat /\ f[d + 1] <= t.credits /\ g[d + 1] <= t.edges
  BY <1>10, <1>12, <1>13, <1>14
<1>. QED
  BY <1>4, <1>7, <1>9, <1>11, <1>14, <1>15 DEF WideSearch

Outcome(r, s, applicable, answers, valid, exhausted) ==
  /\ DOMAIN r = ReportFields /\ r.applicable = applicable
  /\ r.correct = (answers = query.answer) /\ r.valid = valid /\ r.exhausted = exhausted
  /\ r.credits = s.credits /\ r.edges = s.edges /\ r.plan = s.plan

LEMMA ResultIs ==
  ASSUME NEW s, NEW applicable, NEW answers, NEW valid, NEW steps, NEW proof, NEW exhausted,
         NEW r, r = Result(s, applicable, answers, valid, steps, proof, exhausted)
  PROVE  Outcome(r, s, applicable, answers, valid, exhausted)
BY DEF Result, ReportFields, Outcome

LEMMA AnswerIsNode ==
  ASSUME PathQuery(query) \/ PairQuery(query)
  PROVE  NoAnswer # query.answer
BY TaskAssumption DEF PathQuery, PairQuery, NoAnswer

\* How the fixed plan ends.
LEMMA ExactEnds ==
  ASSUME PathQuery(query), NEW t, t.depth \in 1 .. Len(query.relations), ExactSearch(query, t),
         NEW r, NEW steps,
         \/ /\ t.credits > query.budget
            /\ r = Result(t, TRUE, NoAnswer, FALSE, t.depth, << >>, TRUE)
         \/ /\ query.answer \in t.frontier /\ t.depth = Len(query.relations)
            /\ r = Result(t, TRUE, query.answer, ValidProof(PathBack(t.parents, t.depth)), steps,
                          PathBack(t.parents, t.depth), FALSE)
         \/ /\ t.frontier = {} \/ (t.depth = Len(query.relations) /\ query.answer \notin t.frontier)
            /\ r = Result(t, TRUE, NoAnswer, FALSE, steps, << >>, FALSE)
  PROVE  ExactReport(query, r)
<1>1. PICK h \in Nat \ {0} : h = Len(query.relations)
  BY DEF PathQuery
<1>2. NoAnswer # query.answer
  BY AnswerIsNode
<1>3. CASE /\ t.credits > query.budget
           /\ r = Result(t, TRUE, NoAnswer, FALSE, t.depth, << >>, TRUE)
  <2>1. DOMAIN r = ReportFields /\ r.exhausted = TRUE
    <3>1. Outcome(r, t, TRUE, NoAnswer, FALSE, TRUE)
      BY ONLY <1>3, ResultIs
    <3>. QED
      BY ONLY <3>1 DEF Outcome
  <2>2. PICK f : f = Spent(query)
    OBVIOUS
  <2>3. t.credits = f[t.depth] /\ f[t.depth] <= f[h]
    BY <1>1, <2>2, SpentGrows DEF ExactSearch
  <2>4. f[t.depth] \in Nat /\ f[h] \in Nat /\ query.budget \in Nat
    <3>1. Spending(query, f)
      BY <2>2, SpentIs
    <3>2. t.depth \in 0 .. h /\ h \in 0 .. h
      BY <1>1
    <3>. QED
      BY <1>1, <3>1, <3>2 DEF Spending, PathQuery
  <2>5. query.budget < f[h]
    BY <1>3, <2>3, <2>4
  <2>. QED
    BY <1>1, <2>1, <2>2, <2>5 DEF ExactReport
<1>4. CASE /\ query.answer \in t.frontier /\ t.depth = Len(query.relations)
           /\ r = Result(t, TRUE, query.answer, ValidProof(PathBack(t.parents, t.depth)), steps,
                         PathBack(t.parents, t.depth), FALSE)
  <2>1. /\ query.answer \in ReachOf(query, h) /\ Parented(query, t.parents, h)
        /\ t.credits = Spent(query)[h] /\ t.edges = Seen(query)[h]
    BY <1>1, <1>4 DEF ExactSearch
  <2>2. ValidProof(PathBack(t.parents, h))
    BY <1>1, <2>1, PathIsProof
  <2>3. /\ DOMAIN r = ReportFields /\ r.exhausted = FALSE /\ r.correct = (query.answer = query.answer)
        /\ r.valid = ValidProof(PathBack(t.parents, t.depth))
        /\ r.credits = t.credits /\ r.edges = t.edges
    <3>1. Outcome(r, t, TRUE, query.answer, ValidProof(PathBack(t.parents, t.depth)), FALSE)
      BY ONLY <1>4, ResultIs
    <3>. QED
      BY ONLY <3>1 DEF Outcome
  <2>4. r.correct /\ r.valid /\ ~r.exhausted
    BY <1>1, <1>4, <2>2, <2>3
  <2>. QED
    BY <1>1, <2>1, <2>3, <2>4 DEF ExactReport
<1>5. CASE /\ t.frontier = {} \/ (t.depth = Len(query.relations) /\ query.answer \notin t.frontier)
           /\ r = Result(t, TRUE, NoAnswer, FALSE, steps, << >>, FALSE)
  <2>1. query.answer \notin ReachOf(query, h)
    <3>1. CASE t.frontier = {}
      <4>1. t.depth \in 0 .. h /\ ReachOf(query, t.depth) = {}
        BY <1>1, <3>1 DEF ExactSearch
      <4>2. ReachOf(query, h) = {}
        BY <1>1, <4>1, NothingBeyond
      <4>. QED
        BY <4>2
    <3>2. CASE t.depth = Len(query.relations) /\ query.answer \notin t.frontier
      BY <1>1, <3>2 DEF ExactSearch
    <3>. QED
      BY <1>5, <3>1, <3>2
  <2>2. /\ DOMAIN r = ReportFields /\ r.exhausted = FALSE /\ r.correct = (NoAnswer = query.answer)
    <3>1. Outcome(r, t, TRUE, NoAnswer, FALSE, FALSE)
      BY ONLY <1>5, ResultIs
    <3>. QED
      BY ONLY <3>1 DEF Outcome
  <2>3. ~r.correct /\ ~r.exhausted
    BY <1>2, <2>2
  <2>. QED
    BY <1>1, <2>1, <2>2, <2>3 DEF ExactReport
<1>. QED
  BY <1>3, <1>4, <1>5

\* How the breadth-first search ends.
LEMMA WideEnds ==
  ASSUME PathQuery(query), NEW t, WideSearch(query, t), NEW r, NEW steps, NEW answers, NEW proof, NEW valid,
         NEW exhausted, r = Result(t, TRUE, answers, valid, steps, proof, exhausted),
         \/ valid = FALSE
         \/ /\ t.credits <= query.budget
            /\ valid = (t.depth = Len(query.relations) /\ ValidProof(proof))
  PROVE  WideReport(query, r)
<1>1. r.valid = valid /\ r.credits = t.credits /\ r.edges = t.edges
  <2>1. Outcome(r, t, TRUE, answers, valid, exhausted)
    BY ResultIs
  <2>. QED
    BY ONLY <2>1 DEF Outcome
<1>2. CASE valid = FALSE
  BY <1>1, <1>2 DEF WideReport
<1>3. CASE /\ t.credits <= query.budget
           /\ valid = (t.depth = Len(query.relations) /\ ValidProof(proof))
  <2>1. SUFFICES ASSUME t.depth = Len(query.relations), ValidProof(proof) PROVE WideReport(query, r)
    BY <1>1, <1>3 DEF WideReport
  <2>2. query.answer \in ReachOf(query, Len(query.relations))
    BY <2>1, ValidIsReached
  <2>. QED
    BY <1>1, <1>3, <2>1, <2>2 DEF WideReport, WideSearch
<1>. QED
  BY <1>2, <1>3

\* What has been reported on a question, and the search that is under way.
PathPlans ==
  /\ PathQuery(query)
  /\ \A i \in 1 .. Len(reports) : i # 2 => ExactReport(query, reports[i])
  /\ Len(reports) >= 2 => WideReport(query, reports[2])
  /\ search.pc = "idle" \/ Advancing(query, search)

PairPlans ==
  /\ PairQuery(query)
  /\ \A i \in 1 .. Len(reports) : IF i = 3 THEN PairReport(reports[i]) ELSE NoReport(reports[i])
  /\ search.pc = "idle" \/ Narrowing(query, search)

PlanInv == IF job = "baseline" THEN PathPlans \/ PairPlans ELSE Len(reports) = 0

LEMMA Reporting ==
  ASSUME SearchInv, NEW result, Report(result)
  PROVE  /\ Len(reports') = Len(reports) + 1 /\ reports'[Len(reports) + 1] = result
         /\ \A i \in 1 .. Len(reports) : reports'[i] = reports[i]
         /\ search'.pc = "idle" /\ query' = query
<1>1. reports' = Append(reports, result) /\ search' = NoSearch /\ query' = query
  BY DEF Report
<1>2. PICK R : reports \in Seq(R)
  BY DEF SearchInv
<1>3. reports \in Seq(R \cup {result})
  BY <1>2
<1>4. /\ Len(reports') = Len(reports) + 1
      /\ \A i \in 1 .. Len(reports) : reports'[i] = reports[i]
      /\ reports'[Len(reports) + 1] = result
  BY <1>1, <1>3
<1>. QED
  BY <1>1, <1>4 DEF NoSearch

LEMMA PathReported ==
  ASSUME SearchInv, PathPlans, NEW result, Report(result),
         IF Len(reports) = 1 THEN WideReport(query, result) ELSE ExactReport(query, result)
  PROVE  PathPlans'
<1>1. PICK n \in Nat : n = Len(reports)
  BY DEF SearchInv
<1>2. /\ Len(reports') = n + 1 /\ reports'[n + 1] = result
      /\ \A i \in 1 .. n : reports'[i] = reports[i]
      /\ search'.pc = "idle" /\ query' = query
  BY <1>1, Reporting
<1>3. ASSUME NEW i \in 1 .. n + 1, i # 2 PROVE ExactReport(query, reports'[i])
  <2>1. CASE i = n + 1
    BY <1>1, <1>2, <1>3, <2>1
  <2>2. CASE i # n + 1
    <3>1. i \in 1 .. n
      BY <2>2
    <3>. QED
      BY <1>1, <1>2, <1>3, <3>1 DEF PathPlans
  <2>. QED
    BY <2>1, <2>2
<1>4. n + 1 >= 2 => WideReport(query, reports'[2])
  <2>1. CASE n = 1
    BY <1>1, <1>2, <2>1
  <2>2. CASE n > 1
    <3>1. 2 \in 1 .. n
      BY <2>2
    <3>. QED
      BY <1>1, <1>2, <2>2, <3>1 DEF PathPlans
  <2>. QED
    BY <2>1, <2>2
<1>. QED
  BY <1>2, <1>3, <1>4 DEF PathPlans

LEMMA PairReported ==
  ASSUME SearchInv, PairPlans, NEW result, Report(result),
         IF Len(reports) = 2 THEN PairReport(result) ELSE NoReport(result)
  PROVE  PairPlans'
<1>1. PICK n \in Nat : n = Len(reports)
  BY DEF SearchInv
<1>2. /\ Len(reports') = n + 1 /\ reports'[n + 1] = result
      /\ \A i \in 1 .. n : reports'[i] = reports[i]
      /\ search'.pc = "idle" /\ query' = query
  BY <1>1, Reporting
<1>3. ASSUME NEW i \in 1 .. n + 1
      PROVE  IF i = 3 THEN PairReport(reports'[i]) ELSE NoReport(reports'[i])
  <2>1. CASE i = n + 1
    <3>1. i = 3 <=> n = 2
      BY <2>1
    <3>. QED
      BY <1>1, <1>2, <2>1, <3>1
  <2>2. CASE i # n + 1
    <3>1. i \in 1 .. n
      BY <2>2
    <3>. QED
      BY <1>1, <1>2, <3>1 DEF PairPlans
  <2>. QED
    BY <2>1, <2>2
<1>. QED
  BY <1>2, <1>3 DEF PairPlans

LEMMA PlanNames ==
  ASSUME NEW n \in {0, 1, 2}
  PROVE  /\ Plans[n + 1] = "fixed_relation" => n = 0
         /\ Plans[n + 1] = "bfs" => n = 1
         /\ Plans[n + 1] = "hybrid" => n = 2
         /\ Plans[n + 1] \in {"fixed_relation", "bfs", "hybrid"}
<1>1. Plans[1] = "fixed_relation" /\ Plans[2] = "bfs" /\ Plans[3] = "hybrid"
  BY DEF Plans
<1>2. n + 1 = 1 \/ n + 1 = 2 \/ n + 1 = 3
  OBVIOUS
<1>. QED
  BY <1>1, <1>2

LEMMA RunningIs ==
  ASSUME SearchInv, search.pc # "idle"
  PROVE  search.plan = Plans[Len(reports) + 1] /\ Len(reports) \in {0, 1, 2}
<1>1. search.plan = Plans[Len(reports) + 1] /\ Len(reports) < 3 /\ Len(reports) \in 0 .. 3
  BY DEF SearchInv
<1>. QED
  BY ONLY <1>1

LEMMA PathSteps ==
  ASSUME SearchInv, PathPlans, SearchHop
  PROVE  PathPlans'
<1>1. PICK h \in Nat \ {0} : h = Len(query.relations)
  BY DEF PathPlans, PathQuery
<1>2. Advancing(query, search) /\ PathQuery(query)
  BY DEF SearchHop, PathPlans
<1>3. PICK d \in 0 .. h - 1 : d = search.depth
  BY <1>1, <1>2 DEF Advancing
<1>4. /\ search.pc = "hop" /\ Len(reports) \in {0, 1, 2}
      /\ search.plan = "fixed_relation" => Len(reports) = 0
      /\ search.plan = "bfs" => Len(reports) = 1
  <2>1. search.pc = "hop"
    BY DEF SearchHop
  <2>2. search.plan = Plans[Len(reports) + 1] /\ Len(reports) \in {0, 1, 2}
    BY ONLY <2>1, SearchInv, RunningIs
  <2>. QED
    BY ONLY <2>1, <2>2, PlanNames
<1>5. PICK followed, next, s :
        /\ followed = Followed(search) /\ next = {e.dst : e \in followed}
        /\ s = [search EXCEPT !.depth = @ + 1, !.frontier = next, !.parents = Parents(search, followed),
                           !.edges = @ + Cardinality(OutOf(search.frontier)),
                           !.nodes = @ + Cardinality(next), !.credits = @ + 1 + Cardinality(next)]
  OBVIOUS
<1>6. Layered(search, s, next, Cardinality(OutOf(search.frontier)))
      /\ s.parents = Parents(search, followed)
  <2>1. DOMAIN search = SearchFields
    BY <1>2 DEF Advancing
  <2>. QED
    BY <1>5, <2>1 DEF Layered, SearchFields
<1>7. s.depth = d + 1 /\ d + 1 \in 1 .. h /\ s.frontier = next /\ s.plan = search.plan /\ s.pc = "hop"
      /\ DOMAIN s = SearchFields
  BY <1>3, <1>4, <1>6 DEF Layered
<1>8. CASE /\ s.depth < h /\ search' = s /\ UNCHANGED <<query, reports>>
           /\ \/ s.plan = "fixed_relation" /\ ExactSearch(query, s)
              \/ s.plan = "bfs" /\ WideSearch(query, s)
  <2>1. s.depth \in 0 .. h - 1
    BY <1>7, <1>8
  <2>2. Advancing(query, s)
    BY <1>1, <1>7, <1>8, <2>1 DEF Advancing
  <2>. QED
    BY <1>8, <2>2 DEF PathPlans
<1>9. CASE search.plan = "fixed_relation"
  <2>1. ExactSearch(query, s)
    BY <1>2, <1>5, <1>6, <1>9, ExactHop
  <2>2. Len(reports) = 0
    BY <1>4, <1>9
  <2>3. s.plan # "bfs" /\ s.plan = "fixed_relation"
    BY <1>7, <1>9
  <2>4. PICK r : \/ r = search /\ s.depth < h /\ search' = s /\ UNCHANGED <<query, reports>>
                 \/ /\ Report(r)
                    /\ \/ /\ s.credits > query.budget
                          /\ r = Result(s, TRUE, NoAnswer, FALSE, s.depth, << >>, TRUE)
                       \/ /\ query.answer \in s.frontier /\ s.depth = h
                          /\ r = Result(s, TRUE, query.answer, ValidProof(PathBack(s.parents, s.depth)), h,
                                        PathBack(s.parents, s.depth), FALSE)
                       \/ /\ s.frontier = {} \/ (s.depth = h /\ query.answer \notin s.frontier)
                          /\ r = Result(s, TRUE, NoAnswer, FALSE, h, << >>, FALSE)
    <3>1. ~(next # {} /\ s.depth < h) => next = {} \/ s.depth = h
      BY <1>7
    <3>. QED
      BY <1>1, <1>5, <1>7, <2>3, <3>1 DEF SearchHop
  <2>5. CASE search' = s /\ s.depth < h /\ UNCHANGED <<query, reports>>
    BY <1>8, <2>1, <2>3, <2>5
  <2>6. CASE Report(r)
    <3>1. CASE r = search /\ s.depth < h /\ search' = s /\ UNCHANGED <<query, reports>>
      BY <2>5, <3>1
    <3>2. CASE \/ /\ s.credits > query.budget
                  /\ r = Result(s, TRUE, NoAnswer, FALSE, s.depth, << >>, TRUE)
               \/ /\ query.answer \in s.frontier /\ s.depth = Len(query.relations)
                  /\ r = Result(s, TRUE, query.answer, ValidProof(PathBack(s.parents, s.depth)), h,
                                PathBack(s.parents, s.depth), FALSE)
               \/ /\ s.frontier = {} \/ (s.depth = Len(query.relations) /\ query.answer \notin s.frontier)
                  /\ r = Result(s, TRUE, NoAnswer, FALSE, h, << >>, FALSE)
      <4>1. s.depth \in 1 .. Len(query.relations) /\ PathQuery(query)
        BY <1>1, <1>2, <1>7
      <4>2. ExactReport(query, r)
        BY ONLY <2>1, <3>2, <4>1, ExactEnds
      <4>. QED
        BY <2>2, <2>6, <4>2, PathReported
    <3>. QED
      BY <1>1, <2>4, <3>1, <3>2
  <2>. QED
    BY <2>4, <2>5, <2>6
<1>10. CASE search.plan = "bfs"
  <2>1. WideSearch(query, s)
    BY <1>2, <1>5, <1>6, <1>10, WideHop
  <2>2. Len(reports) = 1
    BY <1>4, <1>10
  <2>3. s.plan = "bfs" /\ s.plan # "fixed_relation"
    BY <1>7, <1>10
  <2>4. ASSUME NEW answers, NEW valid, NEW steps, NEW proof, NEW exhausted,
               Report(Result(s, TRUE, answers, valid, steps, proof, exhausted)),
               \/ valid = FALSE
               \/ s.credits <= query.budget /\ valid = (s.depth = Len(query.relations) /\ ValidProof(proof))
        PROVE  PathPlans'
    <3>1. WideReport(query, Result(s, TRUE, answers, valid, steps, proof, exhausted))
      BY <1>2, <2>1, <2>4, WideEnds
    <3>. QED
      BY <2>2, <2>4, <3>1, PathReported
  <2>5. CASE search' = s /\ s.depth < h /\ UNCHANGED <<query, reports>>
    BY <1>8, <2>1, <2>3, <2>5
  <2>6. ~(s.credits > query.budget) => s.credits <= query.budget
    BY <1>2, <2>1 DEF WideSearch, PathQuery
  <2>. QED
    BY <1>1, <1>5, <2>3, <2>4, <2>5, <2>6, ZenonT(60) DEF SearchHop
<1>. QED
  BY <1>2, <1>9, <1>10 DEF Advancing

LEMMA PairSteps ==
  ASSUME SearchInv, PairPlans, SearchConstraint
  PROVE  PairPlans'
<1>1. Narrowing(query, search) /\ PairQuery(query) /\ search.pc = "constraint"
  BY DEF SearchConstraint, PairPlans
<1>2. PICK d \in 0 .. 1 : d = search.depth
  BY <1>1 DEF Narrowing
<1>3. Len(reports) = 2
  <2>1. search.plan = Plans[Len(reports) + 1] /\ Len(reports) \in {0, 1, 2}
    BY <1>1, RunningIs
  <2>2. search.plan = "hybrid"
    BY <1>1 DEF Narrowing
  <2>. QED
    BY ONLY <2>1, <2>2, PlanNames
<1>4. PICK c, reached, s :
        /\ c = query.constraints[search.depth + 1]
        /\ reached = {e.dst : e \in {f \in Out(c[1]) : f.relation = c[2]}}
        /\ s = [search EXCEPT !.depth = @ + 1, !.frontier = Candidates(search, reached),
                           !.edges = @ + Cardinality(Out(c[1])),
                           !.nodes = @ + Cardinality(reached), !.credits = @ + 1 + Cardinality(reached)]
  OBVIOUS
<1>5. /\ s.pc = "constraint" /\ s.plan = "hybrid" /\ DOMAIN s = SearchFields
      /\ s.depth = d + 1 /\ s.frontier = search.frontier \cap reached
  <2>1. DOMAIN search = SearchFields /\ search.plan = "hybrid"
    BY <1>1 DEF Narrowing
  <2>. QED
    BY <1>1, <1>2, <1>4, <2>1 DEF SearchFields, Candidates
<1>6. query.answer \in s.frontier
  <2>1. d + 1 \in 1 .. 2
    OBVIOUS
  <2>2. PICK e \in Graph : e = [src |-> c[1], relation |-> c[2], dst |-> query.answer]
    BY <1>1, <1>2, <1>4, <2>1 DEF PairQuery
  <2>3. query.answer \in reached
    BY <1>4, <2>2 DEF Out
  <2>. QED
    BY <1>1, <1>5, <2>3 DEF Narrowing
<1>7. ValidateIntersectionProof(query) /\ Len(query.constraints) = 2
  <2>1. /\ query.family = "intersection" /\ Len(query.constraints) = 2
        /\ \A i \in 1 .. 2 : [src |-> query.constraints[i][1], relation |-> query.constraints[i][2],
                              dst |-> query.answer] \in Graph
    BY <1>1 DEF PairQuery
  <2>. QED
    BY <2>1 DEF ValidateIntersectionProof
<1>8. CASE search' = s /\ s.depth < 2 /\ UNCHANGED <<query, reports>>
  <2>1. Narrowing(query, s)
    BY <1>5, <1>6, <1>8 DEF Narrowing
  <2>. QED
    BY <1>8, <2>1 DEF PairPlans
<1>9. ASSUME NEW r, Report(r),
             \/ r = Result(s, TRUE, NoAnswer, FALSE, 2, << >>, TRUE)
             \/ r = Result(s, TRUE, query.answer, ValidateIntersectionProof(query), 2, << >>, FALSE)
      PROVE  PairPlans'
  <2>1. PairReport(r)
    <3>1. CASE r = Result(s, TRUE, NoAnswer, FALSE, 2, << >>, TRUE)
      <4>1. Outcome(r, s, TRUE, NoAnswer, FALSE, TRUE)
        BY ONLY <3>1, ResultIs
      <4>2. r.exhausted = TRUE
        BY ONLY <4>1 DEF Outcome
      <4>. QED
        BY ONLY <4>2 DEF PairReport
    <3>2. CASE r = Result(s, TRUE, query.answer, ValidateIntersectionProof(query), 2, << >>, FALSE)
      <4>1. Outcome(r, s, TRUE, query.answer, ValidateIntersectionProof(query), FALSE)
        BY ONLY <3>2, ResultIs
      <4>2. r.correct = (query.answer = query.answer) /\ r.valid = ValidateIntersectionProof(query)
        BY ONLY <4>1 DEF Outcome
      <4>3. r.correct /\ r.valid
        BY ONLY <1>7, <4>2
      <4>. QED
        BY ONLY <4>3 DEF PairReport
    <3>. QED
      BY ONLY <1>9, <3>1, <3>2
  <2>. QED
    BY <1>3, <1>9, <2>1, PairReported
<1>10. PICK r : \/ search' = s /\ s.depth < 2 /\ UNCHANGED <<query, reports>>
                \/ /\ Report(r)
                   /\ \/ r = Result(s, TRUE, NoAnswer, FALSE, 2, << >>, TRUE)
                      \/ r = Result(s, TRUE, query.answer, ValidateIntersectionProof(query), 2, << >>, FALSE)
  <2>1. \/ Report(Result(s, TRUE, NoAnswer, FALSE, 2, << >>, TRUE))
        \/ s.depth < 2 /\ search' = s /\ UNCHANGED <<query, reports>>
        \/ Report(Result(s, TRUE, query.answer,
                         query.answer \in s.frontier /\ ValidateIntersectionProof(query), 2, << >>, FALSE))
    BY <1>4, <1>6, <1>7, ZenonT(60) DEF SearchConstraint
  <2>2. (query.answer \in s.frontier /\ ValidateIntersectionProof(query)) = ValidateIntersectionProof(query)
    BY <1>6, <1>7
  <2>. QED
    BY <2>1, <2>2
<1>. QED
  BY <1>8, <1>9, <1>10

\* A question of a path family is not an intersection.
LEMMA FamiliesDiffer ==
  ASSUME TRUE
  PROVE  /\ PathPlans => query.family \in PathFamilies
         /\ PairPlans => query.family = "intersection" /\ query.family \notin PathFamilies
BY DEF PathPlans, PairPlans, PathQuery, PairQuery, PathFamilies

LEMMA PathStarts ==
  ASSUME SearchInv, PathPlans, SearchStart
  PROVE  PathPlans'
<1>1. query.family \in PathFamilies /\ PathQuery(query)
  BY FamiliesDiffer DEF PathPlans
<1>2. search.pc = "idle" /\ Len(reports) \in {0, 1, 2}
  BY DEF SearchStart, Plans, SearchInv
<1>3. PICK plan, s : plan = Plans[Len(reports) + 1] /\ s = [NoSearch EXCEPT !.plan = plan]
  OBVIOUS
<1>4. CASE plan = "hybrid"
  <2>1. Len(reports) = 2
    BY ONLY <1>2, <1>3, <1>4, PlanNames
  <2>2. Report([reports[1] EXCEPT !.plan = plan])
    BY <1>1, <1>3, <1>4 DEF SearchStart
  <2>3. ExactReport(query, reports[1])
    BY <2>1 DEF PathPlans
  <2>4. ExactReport(query, [reports[1] EXCEPT !.plan = plan])
    <3>1. PICK a, b : a = reports[1] /\ b = [a EXCEPT !.plan = plan]
      OBVIOUS
    <3>2. DOMAIN a = ReportFields
      BY <2>3, <3>1 DEF ExactReport
    <3>3. /\ DOMAIN b = ReportFields /\ b.exhausted = a.exhausted /\ b.correct = a.correct
          /\ b.valid = a.valid /\ b.credits = a.credits /\ b.edges = a.edges
      BY ONLY <3>1, <3>2 DEF ReportFields
    <3>4. ExactReport(query, a)
      BY <2>3, <3>1
    <3>5. ExactReport(query, b)
      BY ONLY <3>3, <3>4 DEF ExactReport
    <3>. QED
      BY <3>1, <3>5
  <2>. QED
    BY <2>1, <2>2, <2>4, PathReported
<1>5. CASE plan # "hybrid"
  <2>1. search' = [s EXCEPT !.pc = "hop", !.frontier = {query.source}] /\ UNCHANGED <<query, reports>>
    BY <1>1, <1>3, <1>5 DEF SearchStart
  <2>2. PICK t : t = search'
    OBVIOUS
  <2>3. /\ DOMAIN t = SearchFields /\ t.plan = plan /\ t.depth = 0 /\ t.credits = 0 /\ t.edges = 0
        /\ t.pc = "hop" /\ t.frontier = {query.source}
    <3>1. /\ DOMAIN s = SearchFields /\ s.plan = plan /\ s.depth = 0 /\ s.credits = 0 /\ s.edges = 0
      BY ONLY <1>3 DEF NoSearch, SearchFields
    <3>. QED
      BY ONLY <2>1, <2>2, <3>1 DEF SearchFields
  <2>4. plan = "fixed_relation" \/ plan = "bfs"
    BY ONLY <1>2, <1>3, <1>5, PlanNames
  <2>5. ReachOf(query, 0) = {query.source} /\ query.source \in Nodes
    BY <1>1, ReachIs DEF PathQuery
  <2>6. Spent(query)[0] = 0 /\ Seen(query)[0] = 0
    <3>1. Spending(query, Spent(query)) /\ Seeing(query, Seen(query))
      BY <1>1, SpentIs
    <3>. QED
      BY ONLY <3>1 DEF Spending, Seeing
  <2>7. ExactSearch(query, t) /\ WideSearch(query, t)
    <3>1. Parented(query, t.parents, 0)
      BY DEF Parented
    <3>. QED
      BY <2>3, <2>5, <2>6, <3>1 DEF ExactSearch, WideSearch
  <2>8. 0 \in 0 .. Len(query.relations) - 1
    BY <1>1 DEF PathQuery
  <2>9. Advancing(query, t)
    BY <2>3, <2>4, <2>7, <2>8 DEF Advancing
  <2>. QED
    BY <2>1, <2>2, <2>9 DEF PathPlans
<1>. QED
  BY <1>4, <1>5

LEMMA PairStarts ==
  ASSUME SearchInv, PairPlans, SearchStart
  PROVE  PairPlans'
<1>1. query.family \notin PathFamilies /\ PairQuery(query)
  BY FamiliesDiffer DEF PairPlans
<1>2. search.pc = "idle" /\ Len(reports) \in {0, 1, 2}
  BY DEF SearchStart, Plans, SearchInv
<1>3. PICK plan, s : plan = Plans[Len(reports) + 1] /\ s = [NoSearch EXCEPT !.plan = plan]
  OBVIOUS
<1>4. CASE plan = "hybrid"
  <2>1. search' = [s EXCEPT !.pc = "constraint", !.frontier = Nodes] /\ UNCHANGED <<query, reports>>
    BY <1>1, <1>3, <1>4 DEF SearchStart
  <2>2. PICK t : t = search'
    OBVIOUS
  <2>3. /\ DOMAIN t = SearchFields /\ t.plan = "hybrid" /\ t.depth = 0
        /\ t.pc = "constraint" /\ t.frontier = Nodes
    <3>1. DOMAIN s = SearchFields /\ s.plan = plan /\ s.depth = 0
      BY ONLY <1>3 DEF NoSearch, SearchFields
    <3>. QED
      BY ONLY <1>4, <2>1, <2>2, <3>1 DEF SearchFields
  <2>4. Narrowing(query, t)
    BY <1>1, <2>3 DEF Narrowing, PairQuery
  <2>. QED
    BY <2>1, <2>2, <2>4 DEF PairPlans
<1>5. CASE plan # "hybrid"
  <2>1. PICK r : r = Result(s, FALSE, NoAnswer, FALSE, 0, << >>, FALSE)
    OBVIOUS
  <2>2. Report(r)
    BY <1>1, <1>3, <1>5, <2>1 DEF SearchStart
  <2>3. Len(reports) # 2
    BY <1>3, <1>5 DEF Plans
  <2>4. NoReport(r)
    <3>1. Outcome(r, s, FALSE, NoAnswer, FALSE, FALSE)
      BY ONLY <2>1, ResultIs
    <3>2. r.applicable = FALSE /\ r.valid = FALSE
      BY ONLY <3>1 DEF Outcome
    <3>. QED
      BY ONLY <3>2 DEF NoReport
  <2>. QED
    BY <2>2, <2>3, <2>4, PairReported
<1>. QED
  BY <1>4, <1>5

LEMMA PlanSteps ==
  ASSUME SearchInv, PlanInv, [Next]_vars
  PROVE  PlanInv'
<1>1. CASE RunBaselines
  <2>1. job = "baseline" /\ job' = job /\ BaselineNext
    BY <1>1 DEF RunBaselines
  <2>2. PathPlans \/ PairPlans
    BY <2>1 DEF PlanInv
  <2>3. PathPlans' \/ PairPlans'
    <3>1. CASE SearchStart
      BY <2>2, <3>1, PathStarts, PairStarts
    <3>2. CASE SearchHop
      <4>1. ~PairPlans
        BY <3>2 DEF SearchHop, PairPlans, Narrowing
      <4>. QED
        BY <2>2, <3>2, <4>1, PathSteps
    <3>3. CASE SearchConstraint
      <4>1. ~PathPlans
        BY <3>3 DEF SearchConstraint, PathPlans, Advancing
      <4>. QED
        BY <2>2, <3>3, <4>1, PairSteps
    <3>. QED
      BY <2>1, <3>1, <3>2, <3>3 DEF BaselineNext
  <2>. QED
    BY <2>1, <2>3 DEF PlanInv
<1>2. CASE UNCHANGED <<job, baselineVars>>
  BY <1>2 DEF PlanInv, PathPlans, PairPlans, baselineVars
<1>. QED
  BY <1>1, <1>2 DEF Next, RunCompile, RunNearest, RunExpand, vars

LEMMA PlanStarts ==
  ASSUME Init
  PROVE  PlanInv
<1>1. search.pc = "idle" /\ Len(reports) = 0
  <2>1. search = NoSearch /\ reports = << >>
    BY DEF Init, BaselineInit
  <2>. QED
    BY ONLY <2>1 DEF NoSearch
<1>2. CASE job = "baseline"
  <2>1. PICK task \in Tasks, b \in Budgets : query = [task EXCEPT !.budget = b]
    BY <1>2 DEF Init, BaselineInit
  <2>2. PathQuery(query) \/ PairQuery(query)
    BY <2>1, TaskIsQuestion
  <2>. QED
    BY <1>1, <1>2, <2>2 DEF PlanInv, PathPlans, PairPlans
<1>. QED
  BY <1>1, <1>2 DEF PlanInv

\* The breadth-first search that proves its answer paid for at least the layers of the
\* fixed plan, so the budget was enough for it too.
LEMMA CheaperPlan ==
  ASSUME PathQuery(query), NEW a, NEW b, ExactReport(query, a), WideReport(query, b), b.valid,
         b.credits \in Nat
  PROVE  a.valid /\ a.credits <= b.credits /\ a.edges <= b.edges
<1>1. PICK h \in Nat : h = Len(query.relations)
  BY DEF PathQuery
<1>2. PICK p : p = Spent(query)[h]
  OBVIOUS
<1>3. /\ query.answer \in ReachOf(query, h) /\ p <= b.credits /\ b.credits <= query.budget
      /\ Seen(query)[h] <= b.edges
  BY <1>1, <1>2 DEF WideReport
<1>4. p \in Nat /\ query.budget \in Nat
  <2>1. Spending(query, Spent(query))
    BY SpentIs
  <2>. QED
    BY <1>1, <1>2, <2>1 DEF Spending, PathQuery
<1>5. ~(query.budget < p)
  BY <1>3, <1>4
<1>6. ~a.exhausted
  BY <1>1, <1>2, <1>5 DEF ExactReport
<1>7. a.correct
  BY <1>1, <1>3, <1>6 DEF ExactReport
<1>8. a.valid /\ a.credits = p /\ a.edges = Seen(query)[h]
  BY <1>1, <1>2, <1>6, <1>7 DEF ExactReport
<1>. QED
  BY <1>3, <1>8

LEMMA PlansAreComplete ==
  ASSUME SearchInv, PlanInv
  PROVE  PlansComplete
<1>1. PICK n \in 0 .. 3 : n = Len(reports)
  BY DEF SearchInv
<1>2. DOMAIN reports = 1 .. n
  BY <1>1 DEF SearchInv
<1>3. \A i \in 1 .. n : reports[i].plan = Plans[i] /\ reports[i].credits \in Nat
  BY <1>1 DEF SearchInv, Reported
<1>4. CASE job = "baseline" /\ PathPlans
  <2>1. PathQuery(query) /\ query.family # "intersection"
    BY <1>4 DEF PathPlans, PathQuery, PathFamilies
  <2>2. Reach(Len(query.relations)) = ReachOf(query, Len(query.relations))
    BY DEF Reach, ReachOf
  <2>3. ASSUME NEW i \in 1 .. n, NEW r, r = reports[i], r.plan # "bfs", ~r.exhausted
        PROVE  /\ r.correct <=> (query.family = "intersection" \/ query.answer \in Reach(Len(query.relations)))
               /\ r.correct => r.valid
    <3>1. i # 2
      BY <1>3, <2>3 DEF Plans
    <3>2. ExactReport(query, r)
      BY <1>1, <1>4, <2>3, <3>1 DEF PathPlans
    <3>. QED
      BY <2>1, <2>2, <2>3, <3>2 DEF ExactReport
  <2>4. ASSUME n >= 2, reports[2].valid
        PROVE  reports[1].valid /\ reports[1].credits <= reports[2].credits
               /\ reports[1].edges <= reports[2].edges
    <3>1. 1 \in 1 .. n /\ 2 \in 1 .. n
      BY <2>4
    <3>2. ExactReport(query, reports[1]) /\ WideReport(query, reports[2]) /\ reports[2].credits \in Nat
      BY <1>1, <1>3, <1>4, <2>4, <3>1 DEF PathPlans
    <3>. QED
      BY <2>1, <2>4, <3>2, CheaperPlan
  <2>. QED
    BY <1>1, <1>2, <2>3, <2>4 DEF PlansComplete
<1>5. CASE job = "baseline" /\ PairPlans
  <2>1. query.family = "intersection"
    BY <1>5 DEF PairPlans, PairQuery
  <2>2. ASSUME NEW i \in 1 .. n, NEW r, r = reports[i], r.applicable, ~r.exhausted
        PROVE  r.correct /\ r.valid
    <3>1. IF i = 3 THEN PairReport(r) ELSE NoReport(r)
      BY <1>1, <1>5, <2>2 DEF PairPlans
    <3>. QED
      BY <2>2, <3>1 DEF PairReport, NoReport
  <2>3. n >= 2 => ~reports[2].valid
    <3>1. n >= 2 => 2 \in 1 .. n
      OBVIOUS
    <3>. QED
      BY <1>1, <1>5, <3>1 DEF PairPlans, NoReport
  <2>. QED
    BY <1>1, <1>2, <2>1, <2>2, <2>3 DEF PlansComplete
<1>6. CASE job # "baseline"
  <2>1. n = 0
    BY <1>1, <1>6 DEF PlanInv
  <2>. QED
    BY <1>1, <1>2, <2>1 DEF PlansComplete
<1>. QED
  BY <1>4, <1>5, <1>6 DEF PlanInv

(* Within its budget the fixed plan answers exactly the questions that have an answer
   and proves each one it answers, and the hybrid so for an intersection; and whatever
   the breadth-first search proves, the fixed plan proves for no more. *)
THEOREM PlansAlwaysComplete == Spec => []PlansComplete
<1>1. Spec => [](SearchInv /\ PlanInv)
  <2>1. Init => SearchInv /\ PlanInv
    BY SearchStarts, PlanStarts
  <2>2. SearchInv /\ PlanInv /\ [Next]_vars => (SearchInv /\ PlanInv)'
    BY SearchGoes, PlanSteps
  <2>. QED
    BY <2>1, <2>2, PTL DEF Spec
<1>2. SearchInv /\ PlanInv => PlansComplete
  BY PlansAreComplete
<1>. QED
  BY <1>1, <1>2, PTL

=============================================================================
