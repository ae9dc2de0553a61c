---------------------------- MODULE CollectProofs ----------------------------
(***************************************************************************)
(* The safety properties of Collect, for any rows, users, tokens and       *)
(* thresholds, any order in which the query gives the rows, and any number *)
(* of failures.                                                            *)
(*                                                                         *)
(* Merge and Total are folds.  What a fold computes is proved by induction *)
(* over the naturals, stated of a set of naturals (NatSetInduction): the   *)
(* set of the lengths for which the claim holds.                           *)
(***************************************************************************)
EXTENDS Collect, FiniteSetTheorems, SequenceTheorems, WellFoundedInduction, TLAPS

-----------------------------------------------------------------------------
(* Induction, and the folds as recursive functions. *)

LEMMA NatSetInduction ==
  ASSUME NEW T, 0 \in T, \A n \in Nat : n \in T => n + 1 \in T
  PROVE  \A n \in Nat : n \in T
<1> DEFINE R == OpToRel(<, Nat)
           U == Nat \ T
<1>1. IsWellFoundedOn(R, Nat)
  BY NatLessThanWellFounded
<1>2. \A x, y \in Nat : <<y, x>> \in R <=> y < x
  BY DEF OpToRel
<1> HIDE DEF R
<1>3. ASSUME U # {} PROVE FALSE
  <2>1. PICK x \in U : \A y \in U : <<y, x>> \notin R
    BY <1>1, <1>3, WFMin
  <2>2. x # 0 /\ x - 1 \in Nat
    BY <2>1
  <2> DEFINE y == x - 1
  <2>3. y \in Nat /\ y < x /\ y + 1 = x
    BY <2>2
  <2>4. <<y, x>> \in R
    BY <1>2, <2>3
  <2>5. y \in T
    BY <2>1, <2>3, <2>4
  <2> QED
    BY <2>3, <2>5
<1> QED
  BY <1>3

(* The last index of a set of indices, which is what a fold takes first. *)
LEMMA MaxOfIndices ==
  ASSUME NEW n \in Nat, NEW S \in SUBSET (1..n), S # {}
  PROVE  Max(S) \in S /\ \A x \in S : Max(S) >= x
<1> DEFINE T == {m \in Nat : \A Q \in SUBSET (1..m) :
                                Q # {} => \E x \in Q : \A y \in Q : x >= y}
<1>1. 0 \in T
  <2>1. \A Q \in SUBSET (1..0) : Q = {}
    OBVIOUS
  <2> QED
    BY <2>1
<1>2. ASSUME NEW m \in Nat, m \in T PROVE m + 1 \in T
  <2> SUFFICES ASSUME NEW Q \in SUBSET (1..m + 1), Q # {}
               PROVE  \E x \in Q : \A y \in Q : x >= y
    OBVIOUS
  <2>1. CASE m + 1 \in Q
    BY <2>1
  <2>2. CASE m + 1 \notin Q
    <3>1. Q \in SUBSET (1..m)
      BY <2>2
    <3> QED
      BY <1>2, <3>1
  <2> QED
    BY <2>1, <2>2
<1>3. \A m \in Nat : m \in T
  <2> HIDE DEF T
  <2> QED
    BY <1>1, <1>2, NatSetInduction
<1>4. \E x \in S : \A y \in S : x >= y
  BY <1>3
<1> QED
  BY <1>4 DEF Max

LEMMA IndicesBefore ==
  ASSUME NEW n \in Nat, NEW S \in SUBSET (1..n + 1), S # {}
  PROVE  S \ {Max(S)} \in SUBSET (1..n)
<1> SUFFICES ASSUME NEW x \in S, x # Max(S) PROVE x \in 1..n
  OBVIOUS
<1>1. n + 1 \in Nat
  OBVIOUS
<1>2. Max(S) \in S /\ Max(S) >= x
  BY <1>1, MaxOfIndices
<1>3. x \in 1..n + 1 /\ Max(S) \in 1..n + 1
  BY <1>2
<1> HIDE DEF Max
<1> QED
  BY <1>2, <1>3

LEMMA LastIndex ==
  ASSUME NEW n \in Nat
  PROVE  Max(1..n + 1) = n + 1 /\ (1..n + 1) \ {n + 1} = 1..n
<1>1. (1..n + 1) # {} /\ n + 1 \in Nat
  OBVIOUS
<1>2. Max(1..n + 1) \in 1..n + 1 /\ \A x \in 1..n + 1 : Max(1..n + 1) >= x
  BY <1>1, MaxOfIndices
<1> QED
  BY <1>2

(* Merge as the loop computes it: g[S] is the result after the rows at the *)
(* indices S.                                                              *)
MergesUpTo(g, order, n) ==
  /\ g[{}] = <<>>
  /\ \A S \in SUBSET (1..n) :
       S # {} => g[S] = MergeInto(g[S \ {Max(S)}], order[Max(S)])

LEMMA MergeExists ==
  ASSUME NEW order, NEW n \in Nat
  PROVE  \E g : MergesUpTo(g, order, n)
<1> DEFINE T == {m \in Nat : \E g : MergesUpTo(g, order, m)}
<1>1. 0 \in T
  <2> DEFINE g == [S \in {{}} |-> <<>>]
  <2>1. \A S \in SUBSET (1..0) : S = {}
    OBVIOUS
  <2>2. MergesUpTo(g, order, 0)
    BY <2>1 DEF MergesUpTo
  <2> QED
    BY <2>2
<1>2. ASSUME NEW m \in Nat, m \in T PROVE m + 1 \in T
  <2>1. PICK g : MergesUpTo(g, order, m)
    BY <1>2
  <2> DEFINE Step(S) == MergeInto(g[S \ {Max(S)}], order[Max(S)])
             h == [S \in SUBSET (1..m + 1) |-> IF S = {} THEN <<>> ELSE Step(S)]
  <2>2. h[{}] = <<>> /\ \A S \in SUBSET (1..m + 1) : S # {} => h[S] = Step(S)
    <3> HIDE DEF Step
    <3> QED
      OBVIOUS
  <2> HIDE DEF h
  <2>3. \A S \in SUBSET (1..m) : S # {} => g[S] = Step(S)
    BY <2>1 DEF MergesUpTo
  <2>4. \A S \in SUBSET (1..m) : h[S] = g[S]
    <3>1. g[{}] = <<>>
      BY <2>1 DEF MergesUpTo
    <3>2. \A S \in SUBSET (1..m) : S \in SUBSET (1..m + 1)
      OBVIOUS
    <3> HIDE DEF Step
    <3> QED
      BY <2>2, <2>3, <3>1, <3>2
  <2>5. \A S \in SUBSET (1..m + 1) :
          S # {} => h[S] = MergeInto(h[S \ {Max(S)}], order[Max(S)])
    <3> SUFFICES ASSUME NEW S \in SUBSET (1..m + 1), S # {}
                 PROVE  h[S] = MergeInto(h[S \ {Max(S)}], order[Max(S)])
      OBVIOUS
    <3>1. h[S \ {Max(S)}] = g[S \ {Max(S)}]
      BY <2>4, IndicesBefore
    <3> QED
      BY <2>2, <3>1
  <2>6. MergesUpTo(h, order, m + 1)
    BY <2>2, <2>5 DEF MergesUpTo
  <2>7. m + 1 \in Nat
    OBVIOUS
  <2> QED
    BY <2>6, <2>7, Zenon
<1> HIDE DEF T
<1>3. n \in T
  BY <1>1, <1>2, NatSetInduction
<1> QED
  BY <1>3 DEF T

LEMMA MergeIsLoop ==
  ASSUME NEW order \in Seq(SrcId)
  PROVE  \E g : MergesUpTo(g, order, Len(order)) /\ Merge(order) = g[1..Len(order)]
<1> DEFINE D == 1..Len(order)
           Step(g, S) == MergeInto(g[S \ {Max(S)}], order[Max(S)])
           Iter(g) == g = [S \in SUBSET D |-> IF S = {} THEN <<>> ELSE Step(g, S)]
           G == CHOOSE g : Iter(g)
<1>1. DOMAIN order = D /\ Len(order) \in Nat
  OBVIOUS
<1>2. Merge(order) = G[D]
  BY <1>1, Zenon DEF Merge, FoldLeft, MapThenFoldSet
<1>3. PICK h : MergesUpTo(h, order, Len(order))
  BY <1>1, MergeExists
<1> DEFINE H == [S \in SUBSET D |-> h[S]]
<1>4. \A S \in SUBSET D : H[S] = IF S = {} THEN <<>> ELSE Step(H, S)
  <2> SUFFICES ASSUME NEW S \in SUBSET D
               PROVE  H[S] = IF S = {} THEN <<>> ELSE Step(H, S)
    OBVIOUS
  <2>1. S \ {Max(S)} \in SUBSET D
    OBVIOUS
  <2>2. H[S] = h[S] /\ H[S \ {Max(S)}] = h[S \ {Max(S)}]
    BY <2>1
  <2> HIDE DEF H
  <2> QED
    BY <1>3, <2>2 DEF MergesUpTo
<1>5. Iter(H)
  <2> HIDE DEF Step
  <2>1. DOMAIN H = SUBSET D
    OBVIOUS
  <2> QED
    BY <1>4, <2>1
<1>6. Iter(G)
  <2> HIDE DEF Iter
  <2> QED
    BY <1>5
<1>7. MergesUpTo(G, order, Len(order))
  <2>1. \A S \in SUBSET D : G[S] = IF S = {} THEN <<>> ELSE Step(G, S)
    <3> HIDE DEF Step, G
    <3> QED
      BY <1>6
  <2> HIDE DEF G
  <2> QED
    BY <2>1 DEF MergesUpTo
<1> QED
  BY <1>2, <1>7

LEMMA RowsAreNumbered == Cardinality(SrcId) \in Nat /\ SrcId = 1..Cardinality(SrcId)
BY CollectAssumption, FS_CardinalityType

(* Total as a sum over the ids. *)
Part(table, S, i) == IF i \in S THEN table[i].origin ELSE 0

SumsUpTo(g, table, S, n) ==
  g[0] = 0 /\ \A i \in 1..n : g[i] = g[i - 1] + Part(table, S, i)

LEMMA SumExists ==
  ASSUME NEW table, NEW S, NEW n \in Nat
  PROVE  \E g : SumsUpTo(g, table, S, n)
<1> DEFINE T == {m \in Nat : \E g : SumsUpTo(g, table, S, m)}
<1>1. 0 \in T
  <2>1. SumsUpTo([i \in {0} |-> 0], table, S, 0)
    BY DEF SumsUpTo
  <2> QED
    BY <2>1
<1>2. ASSUME NEW m \in Nat, m \in T PROVE m + 1 \in T
  <2>1. PICK g : SumsUpTo(g, table, S, m)
    BY <1>2
  <2> DEFINE h == [i \in 0..m + 1 |-> IF i <= m THEN g[i] ELSE g[m] + Part(table, S, m + 1)]
  <2>2. h[0] = 0
    BY <2>1 DEF SumsUpTo
  <2>3. \A i \in 1..m + 1 : h[i] = h[i - 1] + Part(table, S, i)
    <3> SUFFICES ASSUME NEW i \in 1..m + 1 PROVE h[i] = h[i - 1] + Part(table, S, i)
      OBVIOUS
    <3>1. CASE i \in 1..m
      <4>1. h[i] = g[i] /\ h[i - 1] = g[i - 1]
        BY <3>1
      <4>2. g[i] = g[i - 1] + Part(table, S, i)
        BY <2>1, <3>1 DEF SumsUpTo
      <4> QED
        BY <4>1, <4>2
    <3>2. CASE i = m + 1
      <4>1. h[i] = g[m] + Part(table, S, i) /\ h[i - 1] = g[m]
        BY <3>2
      <4> QED
        BY <4>1
    <3> QED
      BY <3>1, <3>2
  <2> HIDE DEF h
  <2>4. SumsUpTo(h, table, S, m + 1)
    BY <2>2, <2>3 DEF SumsUpTo
  <2>5. m + 1 \in Nat
    OBVIOUS
  <2> QED
    BY <2>4, <2>5, Zenon
<1> HIDE DEF T
<1>3. n \in T
  BY <1>1, <1>2, NatSetInduction
<1> QED
  BY <1>3 DEF T

LEMMA TotalIsSum ==
  ASSUME NEW table, NEW S
  PROVE  \E g : /\ SumsUpTo(g, table, S, Cardinality(SrcId))
                /\ Total(table, S) = g[Cardinality(SrcId)]
<1> DEFINE N == Cardinality(SrcId)
           Step(g, n) == g[n - 1] + (IF n \in S THEN table[n].origin ELSE 0)
           Iter(g) == g = [n \in 0..N |-> IF n = 0 THEN 0 ELSE Step(g, n)]
           G == CHOOSE g : Iter(g)
<1>1. Total(table, S) = G[N]
  BY Zenon DEF Total
<1>2. N \in Nat
  BY RowsAreNumbered
<1>3. PICK h : SumsUpTo(h, table, S, N)
  BY <1>2, SumExists
<1> HIDE DEF N
<1> DEFINE H == [n \in 0..N |-> h[n]]
<1>4. \A n \in 0..N : H[n] = IF n = 0 THEN 0 ELSE Step(H, n)
  <2> SUFFICES ASSUME NEW n \in 0..N PROVE H[n] = IF n = 0 THEN 0 ELSE Step(H, n)
    OBVIOUS
  <2>1. CASE n = 0
    BY <1>2, <1>3, <2>1 DEF SumsUpTo
  <2>2. CASE n # 0
    <3>1. n - 1 \in 0..N /\ n \in 1..N
      BY <1>2, <2>2
    <3>2. H[n] = h[n] /\ H[n - 1] = h[n - 1]
      BY <3>1
    <3>3. h[n] = h[n - 1] + Part(table, S, n)
      BY <1>3, <3>1 DEF SumsUpTo
    <3> HIDE DEF H
    <3> QED
      BY <2>2, <3>2, <3>3 DEF Part
  <2> QED
    BY <2>1, <2>2
<1>5. Iter(H)
  <2>1. DOMAIN H = 0..N
    OBVIOUS
  <2> HIDE DEF Step
  <2> QED
    BY <1>4, <2>1
<1>6. Iter(G)
  <2> HIDE DEF Iter
  <2> QED
    BY <1>5
<1>7. SumsUpTo(G, table, S, N)
  <2>1. \A n \in 0..N : G[n] = IF n = 0 THEN 0 ELSE Step(G, n)
    <3> HIDE DEF Step, G
    <3> QED
      BY <1>6
  <2> HIDE DEF G
  <2> QED
    BY <1>2, <2>1 DEF SumsUpTo, Part
<1> QED
  BY <1>1, <1>7 DEF N

(* A total is a number, and is the same in two tables that agree on the    *)
(* rows it is made of; a row that is added counts once.                    *)
LEMMA TotalIsNat ==
  ASSUME NEW table, NEW S, \A r \in S \cap SrcId : table[r].origin \in Nat
  PROVE  Total(table, S) \in Nat
<1> DEFINE N == Cardinality(SrcId)
<1>1. PICK g : SumsUpTo(g, table, S, N) /\ Total(table, S) = g[N]
  BY TotalIsSum
<1>2. N \in Nat /\ SrcId = 1..N
  BY RowsAreNumbered
<1> HIDE DEF N
<1> DEFINE T == {n \in Nat : n \in 0..N => g[n] \in Nat}
<1>3. 0 \in T
  BY <1>1 DEF SumsUpTo
<1>4. ASSUME NEW n \in Nat, n \in T PROVE n + 1 \in T
  <2> SUFFICES ASSUME n + 1 \in 0..N PROVE g[n + 1] \in Nat
    OBVIOUS
  <2>1. n + 1 \in 1..N /\ g[n] \in Nat /\ n + 1 - 1 = n
    BY <1>2, <1>4
  <2>2. g[n + 1] = g[n] + Part(table, S, n + 1)
    BY <1>1, <2>1 DEF SumsUpTo
  <2>3. Part(table, S, n + 1) \in Nat
    BY <1>2, <2>1 DEF Part
  <2> QED
    BY <2>1, <2>2, <2>3
<1>5. N \in T
  <2> HIDE DEF T
  <2> QED
    BY <1>2, <1>3, <1>4, NatSetInduction
<1> QED
  BY <1>1, <1>2, <1>5

LEMMA TotalAdds ==
  ASSUME NEW table, NEW S, NEW r \in SrcId \ S,
         \A q \in (S \cup {r}) \cap SrcId : table[q].origin \in Nat
  PROVE  Total(table, S \cup {r}) = Total(table, S) + table[r].origin
<1> DEFINE N == Cardinality(SrcId)
           R == S \cup {r}
           c == table[r].origin
<1>1. PICK g : SumsUpTo(g, table, S, N) /\ Total(table, S) = g[N]
  BY TotalIsSum
<1>2. PICK h : SumsUpTo(h, table, R, N) /\ Total(table, R) = h[N]
  BY TotalIsSum
<1>3. N \in Nat /\ SrcId = 1..N
  BY RowsAreNumbered
<1> HIDE DEF N
<1> DEFINE T == {n \in Nat : n \in 0..N =>
                    g[n] \in Nat /\ h[n] = g[n] + (IF n >= r THEN c ELSE 0)}
<1>4. c \in Nat
  OBVIOUS
<1>5. 0 \in T
  BY <1>1, <1>2, <1>3 DEF SumsUpTo
<1>6. ASSUME NEW n \in Nat, n \in T PROVE n + 1 \in T
  <2> SUFFICES ASSUME n + 1 \in 0..N
               PROVE  /\ g[n + 1] \in Nat
                      /\ h[n + 1] = g[n + 1] + (IF n + 1 >= r THEN c ELSE 0)
    OBVIOUS
  <2>1. n + 1 \in 1..N /\ n + 1 - 1 = n /\ n \in 0..N
    BY <1>3
  <2>2. g[n] \in Nat /\ h[n] = g[n] + (IF n >= r THEN c ELSE 0)
    BY <1>6, <2>1
  <2>3. /\ g[n + 1] = g[n] + Part(table, S, n + 1)
        /\ h[n + 1] = h[n] + Part(table, R, n + 1)
    BY <1>1, <1>2, <2>1 DEF SumsUpTo
  <2>4. Part(table, S, n + 1) \in Nat
    BY <1>3, <2>1 DEF Part
  <2>5. CASE n + 1 = r
    <3>1. Part(table, S, n + 1) = 0 /\ Part(table, R, n + 1) = c
      BY <2>5 DEF Part
    <3> HIDE DEF c
    <3> QED
      BY <1>3, <1>4, <2>2, <2>3, <2>5, <3>1
  <2>6. CASE n + 1 # r
    <3>1. Part(table, R, n + 1) = Part(table, S, n + 1)
      BY <1>3, <2>1, <2>6 DEF Part
    <3>2. n >= r <=> n + 1 >= r
      BY <1>3, <2>6
    <3> HIDE DEF c
    <3> QED
      BY <1>3, <1>4, <2>2, <2>3, <2>4, <3>1, <3>2
  <2> QED
    BY <2>5, <2>6
<1>7. N \in T
  <2> HIDE DEF T
  <2> QED
    BY <1>3, <1>5, <1>6, NatSetInduction
<1> QED
  BY <1>1, <1>2, <1>3, <1>7

LEMMA TotalAgrees ==
  ASSUME NEW t1, NEW t2, NEW S, \A q \in S \cap SrcId : t1[q].origin = t2[q].origin
  PROVE  Total(t1, S) = Total(t2, S)
<1> DEFINE N == Cardinality(SrcId)
<1>1. PICK g : SumsUpTo(g, t1, S, N) /\ Total(t1, S) = g[N]
  BY TotalIsSum
<1>2. PICK h : SumsUpTo(h, t2, S, N) /\ Total(t2, S) = h[N]
  BY TotalIsSum
<1>3. N \in Nat /\ SrcId = 1..N
  BY RowsAreNumbered
<1> HIDE DEF N
<1> DEFINE T == {n \in Nat : n \in 0..N => g[n] = h[n]}
<1>4. 0 \in T
  BY <1>1, <1>2 DEF SumsUpTo
<1>5. ASSUME NEW n \in Nat, n \in T PROVE n + 1 \in T
  <2> SUFFICES ASSUME n + 1 \in 0..N PROVE g[n + 1] = h[n + 1]
    OBVIOUS
  <2>1. n + 1 \in 1..N /\ n + 1 - 1 = n /\ g[n] = h[n]
    BY <1>3, <1>5
  <2>2. Part(t1, S, n + 1) = Part(t2, S, n + 1)
    BY <1>3, <2>1 DEF Part
  <2> QED
    BY <1>1, <1>2, <2>1, <2>2 DEF SumsUpTo
<1>6. N \in T
  <2> HIDE DEF T
  <2> QED
    BY <1>3, <1>4, <1>5, NatSetInduction
<1> QED
  BY <1>1, <1>2, <1>3, <1>6

LEMMA TotalOfNone == ASSUME NEW table PROVE Total(table, {}) = 0
<1> DEFINE N == Cardinality(SrcId)
<1>1. PICK g : SumsUpTo(g, table, {}, N) /\ Total(table, {}) = g[N]
  BY TotalIsSum
<1>2. N \in Nat
  BY RowsAreNumbered
<1> HIDE DEF N
<1> DEFINE T == {n \in Nat : n \in 0..N => g[n] = 0}
<1>3. 0 \in T
  BY <1>1 DEF SumsUpTo
<1>4. ASSUME NEW n \in Nat, n \in T PROVE n + 1 \in T
  <2> SUFFICES ASSUME n + 1 \in 0..N PROVE g[n + 1] = 0
    OBVIOUS
  <2>1. n + 1 \in 1..N /\ n + 1 - 1 = n /\ g[n] = 0
    BY <1>2, <1>4
  <2> QED
    BY <1>1, <2>1 DEF SumsUpTo, Part
<1>5. N \in T
  <2> HIDE DEF T
  <2> QED
    BY <1>2, <1>3, <1>4, NatSetInduction
<1> QED
  BY <1>1, <1>2, <1>5

LEMMA TotalOfOne ==
  ASSUME NEW table, NEW r \in SrcId, table[r].origin \in Nat
  PROVE  Total(table, {r}) = table[r].origin
<1>1. Total(table, {} \cup {r}) = Total(table, {}) + table[r].origin
  BY TotalAdds
<1> QED
  BY <1>1, TotalOfNone

-----------------------------------------------------------------------------
(* What Merge makes of the Ready rows, in any order. *)

(* A total in memory: of Ready rows of one user and token, the first of    *)
(* them among them.                                                        *)
AddsUp(m) ==
  /\ m \in Merged
  /\ m.id \in m.rows
  /\ m.cnt = Total(src, m.rows)
  /\ \A r \in m.rows : SameGroup(m, r) /\ r \in Ready

OnePerGroup(ms) ==
  \A i, j \in DOMAIN ms : ms[i].user = ms[j].user /\ ms[i].token = ms[j].token => i = j

AllAddUp(ms) == ms \in Seq(Merged) /\ OnePerGroup(ms) /\ \A i \in DOMAIN ms : AddsUp(ms[i])

(* What the table is: rows, and their own counts where they are Ready. *)
TableOK == src \in [SrcId -> SrcRow \cup {NoRow}] /\ ReadyKeepsCount

LEMMA RowsAreRows ==
  ASSUME TableOK
  PROVE  /\ \A r \in SrcId : src[r].state # Absent => src[r] \in SrcRow
         /\ \A r \in Ready : r \in SrcId /\ src[r] \in SrcRow /\ src[r].cnt = src[r].origin
         /\ \A r \in SrcId : src[r] \in SrcRow => src[r].origin \in Nat /\ src[r].state # Absent
BY DEF TableOK, ReadyKeepsCount, Ready, SrcRow, NoRow, Absent, TxReadyCollectState,
       TxCollectingState

(* One row is merged that was not before. *)
LEMMA MergeIntoAddsUp ==
  ASSUME TableOK, NEW ms, AllAddUp(ms), NEW r \in Ready,
         \A i \in DOMAIN ms : r \notin ms[i].rows
  PROVE  /\ AllAddUp(MergeInto(ms, r))
         /\ \A i \in DOMAIN MergeInto(ms, r) :
              \/ MergeInto(ms, r)[i].rows = {r}
              \/ i \in DOMAIN ms /\ MergeInto(ms, r)[i].rows \subseteq ms[i].rows \cup {r}
<1>1. /\ r \in SrcId /\ src[r] \in SrcRow /\ src[r].cnt = src[r].origin
      /\ src[r].origin \in Nat /\ src[r].user \in User /\ src[r].token \in Token
  BY RowsAreRows DEF SrcRow
<1>2. ms \in Seq(Merged) /\ OnePerGroup(ms) /\ \A i \in DOMAIN ms : AddsUp(ms[i])
  BY DEF AllAddUp
<1>3. CASE \E i \in DOMAIN ms : SameGroup(ms[i], r)
  <2> DEFINE More(m) == [m EXCEPT !.cnt = @ + src[r].cnt, !.rows = @ \cup {r}]
             ns == [i \in DOMAIN ms |-> IF SameGroup(ms[i], r) THEN More(ms[i]) ELSE ms[i]]
  <2>1. MergeInto(ms, r) = ns
    BY <1>3 DEF MergeInto
  <2>2. ASSUME NEW i \in DOMAIN ms, SameGroup(ms[i], r)
        PROVE  /\ AddsUp(More(ms[i])) /\ More(ms[i]).rows = ms[i].rows \cup {r}
               /\ More(ms[i]).user = ms[i].user /\ More(ms[i]).token = ms[i].token
    <3> DEFINE m == ms[i]
    <3>1. AddsUp(m) /\ m \in Merged /\ r \notin m.rows
      BY <1>2 DEF AddsUp
    <3>2. \A q \in m.rows : q \in SrcId /\ src[q].origin \in Nat
      BY <3>1, RowsAreRows DEF AddsUp
    <3>3. Total(src, m.rows \cup {r}) = m.cnt + src[r].cnt
      <4>1. Total(src, m.rows \cup {r}) = Total(src, m.rows) + src[r].origin
        BY <1>1, <3>1, <3>2, TotalAdds
      <4> QED
        BY <1>1, <3>1, <4>1 DEF AddsUp
    <3>4. /\ More(m).id = m.id /\ More(m).user = m.user /\ More(m).token = m.token
          /\ More(m).cnt = m.cnt + src[r].cnt /\ More(m).rows = m.rows \cup {r}
      BY <3>1 DEF Merged
    <3>5. More(m) \in Merged
      <4>1. m \in Merged /\ m.cnt + src[r].cnt \in Nat /\ m.rows \cup {r} \in SUBSET SrcId
        BY <1>1, <3>1 DEF Merged, SrcRow
      <4> HIDE DEF m
      <4> QED
        BY <4>1 DEF Merged
    <3>6. \A q \in More(m).rows : SameGroup(More(m), q) /\ q \in Ready
      BY <2>2, <3>1, <3>4 DEF AddsUp, SameGroup
    <3>7. SameGroup(m, r)
      BY <2>2
    <3> HIDE DEF More, m
    <3>8. AddsUp(More(m))
      BY <3>1, <3>3, <3>4, <3>5, <3>6, <3>7 DEF AddsUp
    <3> QED
      BY <3>4, <3>8 DEF m
  <2> HIDE DEF More
  <2>3. DOMAIN ns = DOMAIN ms /\ \A i \in DOMAIN ms :
             /\ AddsUp(ns[i]) /\ ns[i].user = ms[i].user /\ ns[i].token = ms[i].token
             /\ ns[i].rows \subseteq ms[i].rows \cup {r}
    BY <1>2, <2>2
  <2>4. ns \in Seq(Merged)
    <3>1. DOMAIN ms = 1..Len(ms) /\ Len(ms) \in Nat
      BY <1>2
    <3>2. \A i \in 1..Len(ms) : ns[i] \in Merged
      BY <2>3, <3>1 DEF AddsUp
    <3>3. ns = [i \in 1..Len(ms) |-> ns[i]]
      BY <3>1
    <3> HIDE DEF ns
    <3> QED
      BY <3>1, <3>2, <3>3, IsASeq
  <2> HIDE DEF ns
  <2>5. OnePerGroup(ns)
    BY <1>2, <2>3 DEF OnePerGroup
  <2> QED
    BY <2>1, <2>3, <2>4, <2>5 DEF AllAddUp
<1>4. CASE ~\E i \in DOMAIN ms : SameGroup(ms[i], r)
  <2> DEFINE ns == Append(ms, Load(r))
  <2>1. MergeInto(ms, r) = ns
    BY <1>4 DEF MergeInto
  <2>2. AddsUp(Load(r))
    BY <1>1, TotalOfOne DEF AddsUp, Load, Merged, SameGroup
  <2>3. /\ ns \in Seq(Merged) /\ Len(ns) = Len(ms) + 1 /\ ns[Len(ms) + 1] = Load(r)
        /\ \A i \in 1..Len(ms) : ns[i] = ms[i]
        /\ DOMAIN ns = 1..Len(ms) + 1 /\ DOMAIN ms = 1..Len(ms) /\ Len(ms) \in Nat
    BY <1>2, <2>2, AppendProperties DEF AddsUp
  <2> HIDE DEF ns
  <2>4. \A i \in DOMAIN ns : AddsUp(ns[i])
    BY <1>2, <2>2, <2>3
  <2>5. OnePerGroup(ns)
    <3> SUFFICES ASSUME NEW i \in DOMAIN ns, NEW j \in DOMAIN ns,
                        ns[i].user = ns[j].user, ns[i].token = ns[j].token
                 PROVE  i = j
      BY DEF OnePerGroup
    <3>1. \A k \in 1..Len(ms) :
             ~(ns[k].user = Load(r).user /\ ns[k].token = Load(r).token)
      BY <1>4, <2>3 DEF Load, SameGroup
    <3> QED
      BY <1>2, <2>3, <3>1 DEF OnePerGroup
  <2>6. Load(r).rows = {r}
    BY DEF Load
  <2> QED
    BY <2>1, <2>3, <2>4, <2>5, <2>6 DEF AllAddUp
<1> QED
  BY <1>3, <1>4

(* Merge makes one total of every user and token. *)
LEMMA MergeAddsUp ==
  ASSUME TableOK, NEW order \in SetToSeqs(Ready)
  PROVE  AllAddUp(Merge(order))
<1> DEFINE c == Cardinality(Ready)
<1>1. c \in Nat
  <2>1. IsFiniteSet(SrcId) /\ Ready \subseteq SrcId
    BY CollectAssumption DEF Ready
  <2> QED
    BY <2>1, FS_Subset, FS_CardinalityType
<1>2. order \in [1..c -> Ready] /\ \A i, j \in 1..c : i # j => order[i] # order[j]
  BY Zenon DEF SetToSeqs
<1> HIDE DEF c
<1>3. order \in Seq(SrcId) /\ Len(order) = c
  <2>1. Ready \subseteq SrcId
    BY DEF Ready
  <2>2. order \in [1..c -> SrcId]
    BY <1>2, <2>1
  <2> QED
    BY <1>1, <2>2
<1>4. PICK g : MergesUpTo(g, order, c) /\ Merge(order) = g[1..c]
  BY <1>3, MergeIsLoop
<1> DEFINE Read(n) == {order[j] : j \in 1..n}
           Good(n) == AllAddUp(g[1..n]) /\ \A i \in DOMAIN g[1..n] : g[1..n][i].rows \subseteq Read(n)
           T == {n \in Nat : n \in 0..c => Good(n)}
<1>5. 0 \in T
  <2>1. g[1..0] = <<>>
    <3>1. 1..0 = {}
      OBVIOUS
    <3> QED
      BY <1>4, <3>1 DEF MergesUpTo
  <2>2. <<>> \in Seq(Merged) /\ DOMAIN <<>> = {}
    OBVIOUS
  <2> QED
    BY <2>1, <2>2 DEF AllAddUp, OnePerGroup
<1>6. ASSUME NEW n \in Nat, n \in T PROVE n + 1 \in T
  <2> SUFFICES ASSUME n + 1 \in 0..c PROVE Good(n + 1)
    OBVIOUS
  <2>1. n + 1 \in 1..c /\ Good(n)
    BY <1>1, <1>6
  <2> DEFINE r == order[n + 1]
             ms == g[1..n]
  <2>2. g[1..n + 1] = MergeInto(ms, r)
    <3>1. (1..n + 1) # {} /\ 1..n + 1 \in SUBSET (1..c)
      <4> HIDE DEF Good
      <4>1. n + 1 \in 1..n + 1
        OBVIOUS
      <4>2. \A i \in 1..n + 1 : i \in 1..c
        BY <1>1, <2>1
      <4> QED
        BY <4>1, <4>2
    <3>2. g[1..n + 1] = MergeInto(g[(1..n + 1) \ {Max(1..n + 1)}], order[Max(1..n + 1)])
      BY <1>4, <3>1 DEF MergesUpTo
    <3>3. Max(1..n + 1) = n + 1 /\ (1..n + 1) \ {n + 1} = 1..n
      BY LastIndex
    <3> QED
      BY <3>2, <3>3
  <2>3. r \in Ready /\ r \notin Read(n)
    BY <1>1, <1>2, <2>1
  <2>4. Read(n + 1) = Read(n) \cup {r}
    <3>1. 1..n + 1 = (1..n) \cup {n + 1}
      OBVIOUS
    <3> QED
      BY <3>1
  <2>5. AllAddUp(ms) /\ \A i \in DOMAIN ms : ms[i].rows \subseteq Read(n)
    BY <2>1
  <2> HIDE DEF ms, Read, r, Good
  <2>6. /\ AllAddUp(MergeInto(ms, r))
        /\ \A i \in DOMAIN MergeInto(ms, r) :
             \/ MergeInto(ms, r)[i].rows = {r}
             \/ i \in DOMAIN ms /\ MergeInto(ms, r)[i].rows \subseteq ms[i].rows \cup {r}
    BY <2>3, <2>5, MergeIntoAddsUp
  <2>7. \A i \in DOMAIN MergeInto(ms, r) : MergeInto(ms, r)[i].rows \subseteq Read(n + 1)
    BY <2>4, <2>5, <2>6
  <2> QED
    BY <2>2, <2>6, <2>7 DEF Good
<1>7. c \in T
  <2> HIDE DEF T
  <2> QED
    BY <1>1, <1>5, <1>6, NatSetInduction
<1>8. c \in 0..c
  BY <1>1
<1> QED
  BY <1>4, <1>7, <1>8

(* Due as the loop computes it. *)
KeepsUpTo(g, ms, n) ==
  /\ g[0] = <<>>
  /\ \A i \in 1..n : g[i] = IF Enough(ms[i]) THEN Append(g[i - 1], ms[i]) ELSE g[i - 1]

LEMMA KeepExists ==
  ASSUME NEW ms, NEW n \in Nat
  PROVE  \E g : KeepsUpTo(g, ms, n)
<1> DEFINE T == {m \in Nat : \E g : KeepsUpTo(g, ms, m)}
           Step(s, i) == IF Enough(ms[i]) THEN Append(s, ms[i]) ELSE s
<1>1. 0 \in T
  <2>1. KeepsUpTo([i \in {0} |-> <<>>], ms, 0)
    BY DEF KeepsUpTo
  <2> QED
    BY <2>1
<1>2. ASSUME NEW m \in Nat, m \in T PROVE m + 1 \in T
  <2>1. PICK g : KeepsUpTo(g, ms, m)
    BY <1>2
  <2> DEFINE h == [i \in 0..m + 1 |-> IF i <= m THEN g[i] ELSE Step(g[m], m + 1)]
  <2> HIDE DEF Step
  <2>2. h[0] = <<>>
    BY <2>1 DEF KeepsUpTo
  <2>3. \A i \in 1..m + 1 : h[i] = Step(h[i - 1], i)
    <3> SUFFICES ASSUME NEW i \in 1..m + 1 PROVE h[i] = Step(h[i - 1], i)
      OBVIOUS
    <3>1. CASE i \in 1..m
      <4>1. h[i] = g[i] /\ h[i - 1] = g[i - 1]
        BY <3>1
      <4>2. g[i] = Step(g[i - 1], i)
        BY <2>1, <3>1 DEF KeepsUpTo, Step
      <4> QED
        BY <4>1, <4>2
    <3>2. CASE i = m + 1
      <4>1. h[i] = Step(g[m], i) /\ h[i - 1] = g[m]
        BY <3>2
      <4> QED
        BY <4>1
    <3> QED
      BY <3>1, <3>2
  <2> HIDE DEF h
  <2>4. KeepsUpTo(h, ms, m + 1)
    BY <2>2, <2>3 DEF KeepsUpTo, Step
  <2>5. m + 1 \in Nat
    OBVIOUS
  <2> QED
    BY <2>4, <2>5, Zenon
<1> HIDE DEF T
<1>3. n \in T
  BY <1>1, <1>2, NatSetInduction
<1> QED
  BY <1>3 DEF T

LEMMA DueIsLoop ==
  ASSUME NEW ms \in Seq(Merged)
  PROVE  \E g : KeepsUpTo(g, ms, Len(ms)) /\ Due(ms) = g[Len(ms)]
<1> DEFINE N == Len(ms)
           Step(g, n) == IF Enough(ms[n]) THEN Append(g[n - 1], ms[n]) ELSE g[n - 1]
           Iter(g) == g = [n \in 0..N |-> IF n = 0 THEN <<>> ELSE Step(g, n)]
           G == CHOOSE g : Iter(g)
<1>1. Due(ms) = G[N]
  BY Zenon DEF Due
<1>2. N \in Nat
  OBVIOUS
<1>3. PICK h : KeepsUpTo(h, ms, N)
  BY <1>2, KeepExists
<1> HIDE DEF N
<1> DEFINE H == [n \in 0..N |-> h[n]]
<1>4. \A n \in 0..N : H[n] = IF n = 0 THEN <<>> ELSE Step(H, n)
  <2> SUFFICES ASSUME NEW n \in 0..N PROVE H[n] = IF n = 0 THEN <<>> ELSE Step(H, n)
    OBVIOUS
  <2>1. CASE n = 0
    BY <1>2, <1>3, <2>1 DEF KeepsUpTo
  <2>2. CASE n # 0
    <3>1. n - 1 \in 0..N /\ n \in 1..N
      BY <1>2, <2>2
    <3>2. H[n] = h[n] /\ H[n - 1] = h[n - 1]
      BY <3>1
    <3>3. h[n] = Step(h, n)
      BY <1>3, <3>1 DEF KeepsUpTo
    <3> HIDE DEF H
    <3> QED
      BY <2>2, <3>2, <3>3
  <2> QED
    BY <2>1, <2>2
<1>5. Iter(H)
  <2>1. DOMAIN H = 0..N
    OBVIOUS
  <2> HIDE DEF Step
  <2> QED
    BY <1>4, <2>1
<1>6. Iter(G)
  <2> HIDE DEF Iter
  <2> QED
    BY <1>5
<1>7. KeepsUpTo(G, ms, N)
  <2>1. \A n \in 0..N : G[n] = IF n = 0 THEN <<>> ELSE Step(G, n)
    <3> HIDE DEF Step, G
    <3> QED
      BY <1>6
  <2> HIDE DEF G
  <2> QED
    BY <1>2, <2>1 DEF KeepsUpTo
<1> QED
  BY <1>1, <1>7 DEF N

LEMMA DueAddsUp ==
  ASSUME NEW ms, AllAddUp(ms)
  PROVE  AllAddUp(Due(ms)) /\ \A i \in DOMAIN Due(ms) : Enough(Due(ms)[i])
<1> DEFINE N == Len(ms)
<1>1. /\ ms \in Seq(Merged) /\ N \in Nat /\ DOMAIN ms = 1..N
      /\ OnePerGroup(ms) /\ \A i \in DOMAIN ms : AddsUp(ms[i])
  BY DEF AllAddUp
<1>2. PICK g : KeepsUpTo(g, ms, N) /\ Due(ms) = g[N]
  BY <1>1, DueIsLoop
<1> HIDE DEF N
<1> DEFINE From(s, n) == \A j \in DOMAIN s : \E i \in 1..n : s[j] = ms[i] /\ Enough(ms[i])
           Good(s, n) == s \in Seq(Merged) /\ OnePerGroup(s) /\ From(s, n)
           T == {n \in Nat : n \in 0..N => Good(g[n], n)}
<1>3. 0 \in T
  <2>1. <<>> \in Seq(Merged) /\ DOMAIN <<>> = {}
    OBVIOUS
  <2>2. Good(<<>>, 0)
    BY <2>1 DEF OnePerGroup
  <2>3. g[0] = <<>>
    BY <1>2 DEF KeepsUpTo
  <2> HIDE DEF Good
  <2> QED
    BY <2>2, <2>3
<1>4. ASSUME NEW n \in Nat, n \in T PROVE n + 1 \in T
  <2> SUFFICES ASSUME n + 1 \in 0..N PROVE Good(g[n + 1], n + 1)
    OBVIOUS
  <2> DEFINE m == ms[n + 1]
             s == g[n]
             t == Append(s, m)
  <2>1. n + 1 \in 1..N /\ n + 1 - 1 = n /\ s \in Seq(Merged) /\ OnePerGroup(s) /\ From(s, n)
    BY <1>1, <1>4
  <2>2. g[n + 1] = IF Enough(m) THEN t ELSE s
    <3>1. \A i \in 1..N : g[i] = IF Enough(ms[i]) THEN Append(g[i - 1], ms[i]) ELSE g[i - 1]
      BY <1>2 DEF KeepsUpTo
    <3> QED
      BY <2>1, <3>1
  <2>3. m \in Merged
    BY <1>1, <2>1 DEF AddsUp
  <2>4. From(s, n + 1)
    BY <2>1
  <2>5. ASSUME Enough(m) PROVE Good(t, n + 1)
    <3> HIDE DEF s
    <3>1. /\ t \in Seq(Merged) /\ DOMAIN t = 1..Len(s) + 1 /\ t[Len(s) + 1] = m
          /\ \A i \in 1..Len(s) : t[i] = s[i]
          /\ DOMAIN s = 1..Len(s) /\ Len(s) \in Nat
      BY <2>1, <2>3
    <3> HIDE DEF t
    <3>2. From(t, n + 1)
      BY <2>4, <2>5, <3>1
    <3>3. \A k \in 1..Len(s) : ~(t[k].user = m.user /\ t[k].token = m.token)
      <4> SUFFICES ASSUME NEW k \in 1..Len(s), t[k].user = m.user, t[k].token = m.token
                   PROVE  FALSE
        OBVIOUS
      <4>1. PICK i \in 1..n : t[k] = ms[i]
        BY <2>1, <3>1
      <4>2. i \in 1..N /\ i # n + 1
        BY <1>1, <2>1
      <4> QED
        BY <1>1, <2>1, <4>1, <4>2 DEF OnePerGroup
    <3>4. OnePerGroup(t)
      <4> SUFFICES ASSUME NEW i \in DOMAIN t, NEW j \in DOMAIN t,
                          t[i].user = t[j].user, t[i].token = t[j].token
                   PROVE  i = j
        BY DEF OnePerGroup
      <4> QED
        BY <2>1, <3>1, <3>3 DEF OnePerGroup
    <3> QED
      BY <3>1, <3>2, <3>4
  <2>6. CASE Enough(m)
    BY <2>2, <2>5, <2>6
  <2>7. CASE ~Enough(m)
    BY <2>1, <2>2, <2>4, <2>7
  <2> QED
    BY <2>6, <2>7
<1>5. N \in T
  <2> HIDE DEF T
  <2> QED
    BY <1>1, <1>3, <1>4, NatSetInduction
<1>6. Good(Due(ms), N)
  BY <1>1, <1>2, <1>5
<1> QED
  BY <1>1, <1>6 DEF AllAddUp

-----------------------------------------------------------------------------
(* The inductive invariant. *)

BatchOK == AllAddUp(batch) /\ \A i \in DOMAIN batch : Enough(batch[i])

PcOK == pc \in {"handle", "mark"} <=> batch # <<>>

(* What an order of the collect service was made of. *)
OrdersOK ==
  \A i \in DOMAIN orders :
    orders[i].by = "Collect" =>
      /\ \A r \in orders[i].rows : src[r].state # Absent
      /\ Total(src, orders[i].rows) >= Threshold[orders[i].token]
      /\ orders[i].type = CollectTx => orders[i].amount = Total(src, orders[i].rows)

(* A row that is about to be marked has its order, or its order was lost.  *)
MarkOK ==
  pc = "mark" =>
    \/ Head(batch).id \in lost
    \/ \E i \in DOMAIN orders :
         /\ orders[i].by = "Collect"
         /\ orders[i].src = Head(batch).id
         /\ orders[i].rows = Head(batch).rows

(* The orders made from a row; all but one of them took a failure.         *)
MadeFrom(os, r) == {i \in DOMAIN os : os[i].by = "Collect" /\ os[i].src = r}

IsHandled(r) ==
  src[r].state = TxCollectingState \/ (pc = "mark" /\ Head(batch).id = r)

CountOK ==
  \A r \in SrcId :
    Cardinality(MadeFrom(orders, r)) <= faults + (IF IsHandled(r) THEN 1 ELSE 0)

CInv == /\ TypeOK
        /\ ReadyKeepsCount
        /\ BatchOK
        /\ PcOK
        /\ OrdersOK
        /\ MarkOK
        /\ CollectingIsOrdered
        /\ CountOK

-----------------------------------------------------------------------------
(* What a step may change. *)

LEMMA SrcSteps ==
  ASSUME [Next]_vars
  PROVE  \/ \E r \in SrcId, u \in User, k \in Token, c \in 1..MaxCnt : Crawl(r, u, k, c)
         \/ Mark
         \/ UNCHANGED src
BY DEF Next, vars, OrderMined, CheckReads, Tick, Crash, Query, QueryFails, Handle, HandleFails,
       InsertFails, MarkFails, CheckInserts, CheckInsertFails, CheckEnds, CheckEndFails

LEMMA OrderSteps ==
  ASSUME [Next]_vars
  PROVE  \/ \E i \in DOMAIN orders : OrderMined(i)
         \/ Handle
         \/ CheckInserts
         \/ CheckEnds
         \/ UNCHANGED orders
BY DEF Next, vars, Crawl, CheckReads, Tick, Crash, Query, QueryFails, HandleFails,
       InsertFails, Mark, MarkFails, CheckInsertFails, CheckEndFails

LEMMA BatchSteps ==
  ASSUME [Next]_vars
  PROVE  \/ Query
         \/ HandleFails
         \/ Mark
         \/ batch' = <<>> /\ pc' = "idle"
         \/ pc = "handle" /\ pc' = "mark" /\ UNCHANGED batch
         \/ pc \in {"idle", "query"} /\ pc' \in {"idle", "query"} /\ UNCHANGED batch
         \/ UNCHANGED <<pc, batch>>
BY DEF Next, vars, service, Crawl, OrderMined, CheckReads, Tick, Crash, QueryFails, Handle,
       InsertFails, MarkFails, CheckInserts, CheckInsertFails, CheckEnds, CheckEndFails

LEMMA LostSteps ==
  ASSUME [Next]_vars
  PROVE  /\ lost \subseteq lost'
         /\ faults' = faults \/ faults' = faults + 1
BY DEF Next, vars, Fault, Crawl, OrderMined, CheckReads, Tick, Crash, Query, QueryFails, Handle,
       HandleFails, InsertFails, Mark, MarkFails, CheckInserts, CheckInsertFails, CheckEnds,
       CheckEndFails

LEMMA HeadOfBatch ==
  ASSUME BatchOK, PcOK, pc \in {"handle", "mark"}
  PROVE  /\ batch \in Seq(Merged) /\ Len(batch) \in Nat \ {0} /\ DOMAIN batch = 1..Len(batch)
         /\ Head(batch) = batch[1] /\ AddsUp(Head(batch)) /\ Enough(Head(batch))
         /\ Head(batch) \in Merged /\ Head(batch).id \in SrcId
         /\ Head(batch).id \in Head(batch).rows /\ Head(batch).id \in Ready
<1>1. batch \in Seq(Merged) /\ batch # <<>>
  BY DEF BatchOK, PcOK, AllAddUp
<1>2. Len(batch) \in Nat \ {0} /\ DOMAIN batch = 1..Len(batch) /\ Head(batch) = batch[1]
  BY <1>1
<1>3. AddsUp(batch[1]) /\ Enough(batch[1])
  BY <1>2 DEF BatchOK, AllAddUp
<1> QED
  BY <1>1, <1>2, <1>3 DEF AddsUp, Merged

LEMMA TailOfBatch ==
  ASSUME BatchOK, PcOK, pc \in {"handle", "mark"}
  PROVE  /\ Tail(batch) \in Seq(Merged) /\ DOMAIN Tail(batch) = 1..Len(batch) - 1
         /\ \A i \in 1..Len(batch) - 1 : i + 1 \in DOMAIN batch /\ Tail(batch)[i] = batch[i + 1]
         /\ Tail(batch) = <<>> <=> Len(batch) = 1
<1>1. batch \in Seq(Merged) /\ Len(batch) \in Nat \ {0} /\ batch # <<>>
  BY HeadOfBatch DEF PcOK
<1>2. Tail(batch) \in Seq(Merged) /\ Len(Tail(batch)) = Len(batch) - 1
  BY <1>1
<1>3. \A i \in 1..Len(batch) - 1 : i + 1 \in DOMAIN batch /\ Tail(batch)[i] = batch[i + 1]
  BY <1>1, HeadTailProperties
<1>4. Tail(batch) = <<>> <=> Len(Tail(batch)) = 0
  BY <1>2, EmptySeq
<1> QED
  BY <1>1, <1>2, <1>3, <1>4

(* No row that was read is taken back, and it keeps what it was read for.  *)
RowsKept ==
  \A r \in SrcId :
    src[r].state # Absent =>
      /\ src'[r].state # Absent
      /\ src'[r].user = src[r].user /\ src'[r].token = src[r].token
      /\ src'[r].origin = src[r].origin

LEMMA TableStep ==
  ASSUME CInv, [Next]_vars
  PROVE  /\ TableOK' /\ RowsKept
         /\ \A r \in SrcId :
              \/ src'[r] = src[r]
              \/ src[r].state = Absent /\ src'[r].state = TxReadyCollectState
              \/ Mark /\ r = Head(batch).id /\ src'[r].state = TxCollectingState
                      /\ src'[r].cnt = Head(batch).cnt
<1>1. src \in [SrcId -> SrcRow \cup {NoRow}] /\ TableOK /\ BatchOK /\ PcOK /\ ReadyKeepsCount
  BY DEF CInv, TypeOK, TableOK
<1>2. ASSUME NEW r \in SrcId, NEW u \in User, NEW k \in Token, NEW c \in 1..MaxCnt,
             Crawl(r, u, k, c)
      PROVE  /\ src' \in [SrcId -> SrcRow \cup {NoRow}] /\ ReadyKeepsCount' /\ RowsKept
             /\ \A q \in SrcId :
                  \/ src'[q] = src[q]
                  \/ src[q].state = Absent /\ src'[q].state = TxReadyCollectState
  <2> DEFINE row == [user |-> u, token |-> k, cnt |-> c, origin |-> c,
                     state |-> TxReadyCollectState]
  <2>1. row \in SrcRow
    BY CollectAssumption DEF SrcRow
  <2>2. src' = [src EXCEPT ![r] = row] /\ src[r].state = Absent
    BY <1>2 DEF Crawl
  <2>3. row.cnt = row.origin /\ row.state = TxReadyCollectState
    OBVIOUS
  <2> HIDE DEF row
  <2> QED
    BY <1>1, <2>1, <2>2, <2>3 DEF ReadyKeepsCount, Ready, RowsKept
<1>3. ASSUME Mark
      PROVE  /\ src' \in [SrcId -> SrcRow \cup {NoRow}] /\ ReadyKeepsCount' /\ RowsKept
             /\ \A q \in SrcId :
                  \/ src'[q] = src[q]
                  \/ /\ q = Head(batch).id /\ src'[q].state = TxCollectingState
                     /\ src'[q].cnt = Head(batch).cnt
  <2> DEFINE h == Head(batch)
  <2>1. h.id \in SrcId /\ h.id \in Ready /\ h.cnt \in Nat
    BY <1>1, <1>3, HeadOfBatch DEF Mark, Merged
  <2>2. src[h.id] \in SrcRow
    BY <1>1, <2>1, RowsAreRows
  <2>3. src' = [src EXCEPT ![h.id].state = TxCollectingState, ![h.id].cnt = h.cnt]
    BY <1>3 DEF Mark
  <2> HIDE DEF h
  <2>4. /\ src'[h.id] \in SrcRow /\ src'[h.id].state = TxCollectingState
        /\ src'[h.id].cnt = h.cnt
        /\ src'[h.id].user = src[h.id].user /\ src'[h.id].token = src[h.id].token
        /\ src'[h.id].origin = src[h.id].origin
    BY <1>1, <2>1, <2>2, <2>3 DEF SrcRow
  <2>5. /\ \A q \in SrcId : q # h.id => src'[q] = src[q]
        /\ DOMAIN src' = SrcId
    BY <1>1, <2>1, <2>3
  <2>6. src' \in [SrcId -> SrcRow \cup {NoRow}]
    <3>1. \A q \in SrcId : src'[q] \in SrcRow \cup {NoRow}
      BY <1>1, <2>4, <2>5
    <3>2. src' = [q \in SrcId |-> src'[q]]
      BY <1>1, <2>3
    <3> QED
      BY <3>1, <3>2
  <2>7. ReadyKeepsCount'
    BY <1>1, <2>4, <2>5 DEF ReadyKeepsCount, Ready, TxReadyCollectState, TxCollectingState
  <2>8. RowsKept
    BY <2>4, <2>5 DEF RowsKept, Absent, TxCollectingState
  <2> QED
    BY <2>4, <2>5, <2>6, <2>7, <2>8 DEF h
<1>4. CASE UNCHANGED src
  BY <1>1, <1>4 DEF RowsKept, TableOK, ReadyKeepsCount, Ready
<1> QED
  BY <1>2, <1>3, <1>4, SrcSteps DEF TableOK

(* So its totals stay what they were. *)
LEMMA TotalsKept ==
  ASSUME RowsKept, NEW S, \A r \in S : src[r].state # Absent
  PROVE  Total(src', S) = Total(src, S)
<1>1. \A q \in S \cap SrcId : src'[q].origin = src[q].origin
  BY DEF RowsKept
<1> QED
  BY <1>1, TotalAgrees

(* The orders of the collect service stay what they were made of. *)
OrdersKept ==
  /\ orders \in Seq(Order) /\ orders' \in Seq(Order)
  /\ DOMAIN orders \subseteq DOMAIN orders'
  /\ \A i \in DOMAIN orders :
       /\ orders'[i].by = orders[i].by /\ orders'[i].src = orders[i].src
       /\ orders'[i].rows = orders[i].rows /\ orders'[i].token = orders[i].token
       /\ orders'[i].type = orders[i].type /\ orders'[i].amount = orders[i].amount

LEMMA OrdersAreOrders ==
  ASSUME TypeOK
  PROVE  /\ \A i \in DOMAIN orders :
              /\ orders[i] \in Order /\ orders[i].src \in SrcId
              /\ orders[i].rows \subseteq SrcId /\ orders[i].user \in User
         /\ check # 0 => check \in DOMAIN orders
<1>1. orders \in Seq(Order) /\ check \in 0..Len(orders)
  BY DEF TypeOK
<1>2. \A i \in DOMAIN orders : orders[i] \in Order
  BY <1>1
<1>3. check # 0 => check \in DOMAIN orders
  BY <1>1
<1> QED
  BY <1>2, <1>3 DEF Order

LEMMA OrderExcept ==
  ASSUME orders \in Seq(Order), NEW i \in DOMAIN orders, NEW p \in Order,
         orders' = [orders EXCEPT ![i] = p],
         p.by = orders[i].by, p.src = orders[i].src, p.rows = orders[i].rows,
         p.token = orders[i].token, p.type = orders[i].type, p.amount = orders[i].amount
  PROVE  OrdersKept /\ DOMAIN orders' = DOMAIN orders
<1>1. /\ DOMAIN orders' = DOMAIN orders /\ orders'[i] = p
      /\ \A j \in DOMAIN orders : j # i => orders'[j] = orders[j]
  OBVIOUS
<1>2. orders' \in Seq(Order)
  OBVIOUS
<1> QED
  BY <1>1, <1>2 DEF OrdersKept

LEMMA OrderAppend ==
  ASSUME orders \in Seq(Order), NEW p \in Order, orders' = Append(orders, p)
  PROVE  /\ OrdersKept
         /\ Len(orders) \in Nat /\ DOMAIN orders = 1..Len(orders)
         /\ DOMAIN orders' = 1..Len(orders) + 1 /\ orders'[Len(orders) + 1] = p
<1>1. /\ orders' \in Seq(Order)
      /\ Len(orders) \in Nat /\ DOMAIN orders = 1..Len(orders)
      /\ DOMAIN orders' = 1..Len(orders) + 1 /\ orders'[Len(orders) + 1] = p
      /\ \A j \in 1..Len(orders) : orders'[j] = orders[j]
  OBVIOUS
<1>2. \A j \in 1..Len(orders) : j \in 1..Len(orders) + 1
  BY <1>1
<1> QED
  BY <1>1, <1>2 DEF OrdersKept

LEMMA NewOrderIsOrder ==
  ASSUME TypeOK, NEW m \in Merged
  PROVE  NewOrder(m) \in Order
<1>1. m.user \in User /\ m.token \in Token /\ m.cnt \in Nat /\ m.id \in SrcId
      /\ m.rows \in SUBSET SrcId
  BY DEF Merged
<1> QED
  BY <1>1 DEF NewOrder, Order

(* The order made last is the one the step made, or there is none. *)
LEMMA OrdersStep ==
  ASSUME CInv, [Next]_vars
  PROVE  /\ OrdersKept
         /\ \/ DOMAIN orders' = DOMAIN orders
            \/ /\ DOMAIN orders = 1..Len(orders) /\ DOMAIN orders' = 1..Len(orders) + 1
               /\ \/ orders'[Len(orders) + 1].by = "Check"
                  \/ Handle /\ orders'[Len(orders) + 1] = NewOrder(Head(batch))
<1>1. /\ TypeOK /\ orders \in Seq(Order) /\ BatchOK /\ PcOK
      /\ held \in SrcRow \cup {NoRow} /\ check \in 0..Len(orders)
  BY DEF CInv, TypeOK
<1>2. ASSUME NEW i \in DOMAIN orders, OrderMined(i)
      PROVE  OrdersKept /\ DOMAIN orders' = DOMAIN orders
  <2>1. orders' = [orders EXCEPT ![i].paid = TRUE]
    BY <1>2 DEF OrderMined
  <2>2. orders[i] \in Order
    BY <1>1
  <2> DEFINE p == [orders[i] EXCEPT !.paid = TRUE]
  <2>3. /\ p \in Order
        /\ p.by = orders[i].by /\ p.src = orders[i].src /\ p.rows = orders[i].rows
        /\ p.token = orders[i].token /\ p.type = orders[i].type /\ p.amount = orders[i].amount
    BY <2>2 DEF Order
  <2>4. orders' = [orders EXCEPT ![i] = p]
    BY <2>1
  <2> HIDE DEF p
  <2> QED
    BY <1>1, <2>3, <2>4, OrderExcept
<1>3. ASSUME CheckEnds PROVE OrdersKept /\ DOMAIN orders' = DOMAIN orders
  <2>1. orders' = [orders EXCEPT ![check].ended = TRUE] /\ check # 0
    BY <1>3 DEF CheckEnds
  <2>2. check \in DOMAIN orders /\ orders[check] \in Order
    BY <1>1, <2>1
  <2> DEFINE p == [orders[check] EXCEPT !.ended = TRUE]
  <2>3. /\ p \in Order
        /\ p.by = orders[check].by /\ p.src = orders[check].src
        /\ p.rows = orders[check].rows /\ p.token = orders[check].token
        /\ p.type = orders[check].type /\ p.amount = orders[check].amount
    BY <2>2 DEF Order
  <2>4. orders' = [orders EXCEPT ![check] = p]
    BY <2>1
  <2> HIDE DEF p
  <2> QED
    BY <1>1, <2>2, <2>3, <2>4, OrderExcept
<1>4. ASSUME Handle
      PROVE  /\ OrdersKept
             /\ DOMAIN orders = 1..Len(orders) /\ DOMAIN orders' = 1..Len(orders) + 1
             /\ orders'[Len(orders) + 1] = NewOrder(Head(batch))
  <2>1. Head(batch) \in Merged
    BY <1>1, <1>4, HeadOfBatch DEF Handle
  <2>2. NewOrder(Head(batch)) \in Order
    BY <1>1, <2>1, NewOrderIsOrder
  <2>3. orders' = Append(orders, NewOrder(Head(batch)))
    BY <1>4 DEF Handle
  <2> QED
    BY <1>1, <2>2, <2>3, OrderAppend
<1>5. ASSUME CheckInserts
      PROVE  /\ OrdersKept
             /\ DOMAIN orders = 1..Len(orders) /\ DOMAIN orders' = 1..Len(orders) + 1
             /\ orders'[Len(orders) + 1].by = "Check"
  <2> DEFINE p == [type |-> CollectTx, by |-> "Check",
                   user |-> orders[check].user, token |-> held.token, amount |-> held.cnt,
                   src |-> orders[check].src, rows |-> orders[check].rows,
                   paid |-> FALSE, ended |-> FALSE]
  <2>1. orders' = Append(orders, p) /\ check # 0 /\ held # NoRow
    BY <1>5 DEF CheckInserts
  <2>2. orders[check] \in Order /\ held \in SrcRow
    BY <1>1, <2>1
  <2>3. p \in Order /\ p.by = "Check"
    BY <2>2 DEF Order, SrcRow
  <2> HIDE DEF p
  <2> QED
    BY <1>1, <2>1, <2>3, OrderAppend
<1>6. CASE UNCHANGED orders
  BY <1>1, <1>6 DEF OrdersKept
<1> QED
  BY <1>2, <1>3, <1>4, <1>5, <1>6, OrderSteps

-----------------------------------------------------------------------------
(* Each part of the invariant is kept. *)

(* A total in memory still adds up when none of its rows was marked. *)
TotalStays(m) ==
  /\ m.cnt = Total(src', m.rows)
  /\ \A r \in m.rows : /\ r \in SrcId /\ src'[r].state = TxReadyCollectState
                       /\ m.user = src'[r].user /\ m.token = src'[r].token

LEMMA AddsUpStays ==
  ASSUME RowsKept, NEW m, AddsUp(m),
         \A r \in m.rows : src'[r].state = TxReadyCollectState
  PROVE  TotalStays(m)
<1>1. \A r \in m.rows : r \in SrcId /\ src[r].state # Absent
  BY DEF AddsUp, Ready, Absent, TxReadyCollectState
<1>2. Total(src', m.rows) = Total(src, m.rows)
  BY <1>1, TotalsKept
<1> QED
  BY <1>1, <1>2 DEF AddsUp, SameGroup, RowsKept, TotalStays

LEMMA BatchStays ==
  ASSUME batch' \in Seq(Merged),
         \A i \in DOMAIN batch' :
           /\ batch'[i].id \in batch'[i].rows /\ Enough(batch'[i]) /\ TotalStays(batch'[i]),
         \A i, j \in DOMAIN batch' :
           batch'[i].user = batch'[j].user /\ batch'[i].token = batch'[j].token => i = j
  PROVE  BatchOK'
<1>1. \A i \in DOMAIN batch' : batch'[i] \in Merged
  OBVIOUS
<1>2. OnePerGroup(batch)'
  BY DEF OnePerGroup
<1>3. \A i \in DOMAIN batch' : AddsUp(batch[i])'
  BY <1>1 DEF AddsUp, TotalStays, Ready, SameGroup
<1>4. \A i \in DOMAIN batch' : Enough(batch[i])'
  BY DEF Enough
<1> QED
  BY <1>2, <1>3, <1>4 DEF BatchOK, AllAddUp

LEMMA BatchStep ==
  ASSUME CInv, [Next]_vars
  PROVE  BatchOK' /\ PcOK'
<1>1. /\ BatchOK /\ PcOK /\ TableOK /\ TypeOK
      /\ batch \in Seq(Merged) /\ OnePerGroup(batch)
      /\ \A i \in DOMAIN batch : AddsUp(batch[i]) /\ Enough(batch[i])
  BY DEF CInv, BatchOK, AllAddUp, TableOK, TypeOK
<1>2. RowsKept
  BY TableStep
<1>3. ~Mark => \A r \in Ready : src'[r].state = TxReadyCollectState
  BY TableStep DEF Ready, TxReadyCollectState, Absent
<1>4. ASSUME pc \in {"handle", "mark"}, NextOfBatch,
             Mark \/ UNCHANGED src
      PROVE  BatchOK' /\ PcOK'
  <2>1. /\ batch' = Tail(batch) /\ batch' \in Seq(Merged)
        /\ DOMAIN batch' = 1..Len(batch) - 1
        /\ \A i \in 1..Len(batch) - 1 : i + 1 \in DOMAIN batch /\ batch'[i] = batch[i + 1]
        /\ batch' = <<>> <=> Len(batch) = 1
    BY <1>1, <1>4, TailOfBatch DEF NextOfBatch
  <2>2. /\ Len(batch) \in Nat \ {0} /\ DOMAIN batch = 1..Len(batch) /\ Head(batch) = batch[1]
        /\ AddsUp(Head(batch)) /\ Head(batch).id \in Head(batch).rows
    BY <1>1, <1>4, HeadOfBatch
  <2>3. ASSUME NEW i \in DOMAIN batch, i # 1, NEW r \in batch[i].rows
        PROVE  src'[r].state = TxReadyCollectState
    <3>1. AddsUp(batch[i]) /\ r \in Ready /\ SameGroup(batch[i], r)
      BY <1>1, <2>3 DEF AddsUp
    <3>2. r # Head(batch).id
      <4> SUFFICES ASSUME r = Head(batch).id PROVE FALSE
        OBVIOUS
      <4>1. SameGroup(batch[1], r) /\ 1 \in DOMAIN batch
        BY <2>2 DEF AddsUp
      <4> QED
        BY <1>1, <2>3, <3>1, <4>1 DEF OnePerGroup, SameGroup
    <3>3. r \in SrcId /\ src[r].state = TxReadyCollectState
      BY <3>1 DEF Ready
    <3> QED
      BY <1>4, <3>2, <3>3, TableStep DEF TxReadyCollectState, Absent
  <2>4. \A i \in DOMAIN batch : i # 1 => TotalStays(batch[i])
    BY <1>1, <1>2, <2>3, AddsUpStays
  <2>5. \A i \in DOMAIN batch' :
           /\ i + 1 \in DOMAIN batch /\ i + 1 # 1 /\ batch'[i] = batch[i + 1]
    BY <2>1, <2>2
  <2>6. \A i \in DOMAIN batch' :
           /\ batch'[i].id \in batch'[i].rows /\ Enough(batch'[i]) /\ TotalStays(batch'[i])
    BY <1>1, <2>4, <2>5 DEF AddsUp
  <2>7. \A i, j \in DOMAIN batch' :
           batch'[i].user = batch'[j].user /\ batch'[i].token = batch'[j].token => i = j
    <3> SUFFICES ASSUME NEW i \in DOMAIN batch', NEW j \in DOMAIN batch',
                        batch'[i].user = batch'[j].user, batch'[i].token = batch'[j].token
                 PROVE  i = j
      OBVIOUS
    <3>1. i + 1 = j + 1
      BY <1>1, <2>5 DEF OnePerGroup
    <3>2. i \in Int /\ j \in Int
      BY <2>1, <2>2
    <3> QED
      BY <3>1, <3>2
  <2>8. BatchOK'
    BY <2>1, <2>6, <2>7, BatchStays
  <2>9. PcOK'
    BY <1>4, <2>1 DEF NextOfBatch, PcOK
  <2> QED
    BY <2>8, <2>9
<1>5. CASE Mark
  BY <1>4, <1>5 DEF Mark
<1>6. CASE HandleFails
  BY <1>4, <1>6 DEF HandleFails
<1>7. CASE Query
  <2>1. PICK order \in SetToSeqs(Ready) :
           /\ batch' = Due(Merge(order))
           /\ pc' = IF batch' = <<>> THEN "idle" ELSE "handle"
    BY <1>7 DEF Query
  <2>2. AllAddUp(batch') /\ \A i \in DOMAIN batch' : Enough(batch'[i])
    BY <1>1, <2>1, MergeAddsUp, DueAddsUp
  <2>3. UNCHANGED src
    BY <1>7 DEF Query
  <2>4. \A i \in DOMAIN batch' : AddsUp(batch'[i]) /\ batch'[i].id \in batch'[i].rows
    BY <2>2 DEF AllAddUp, AddsUp
  <2>5. \A i \in DOMAIN batch' : TotalStays(batch'[i])
    BY <1>2, <2>3, <2>4, AddsUpStays DEF AddsUp, Ready
  <2>6. BatchOK'
    BY <2>2, <2>4, <2>5, BatchStays DEF AllAddUp, OnePerGroup
  <2>7. PcOK'
    BY <2>1 DEF PcOK
  <2> QED
    BY <2>6, <2>7
<1>8. CASE batch' = <<>> /\ pc' = "idle"
  <2>1. batch' \in Seq(Merged) /\ DOMAIN batch' = {}
    BY <1>8
  <2> QED
    BY <1>8, <2>1, BatchStays DEF PcOK
<1>9. ASSUME ~Mark, UNCHANGED batch PROVE BatchOK'
  <2>1. \A i \in DOMAIN batch : TotalStays(batch[i])
    BY <1>1, <1>2, <1>3, <1>9, AddsUpStays DEF AddsUp
  <2> QED
    BY <1>1, <1>9, <2>1, BatchStays DEF OnePerGroup, AddsUp
<1>10. CASE ~Mark /\ pc = "handle" /\ pc' = "mark" /\ UNCHANGED batch
  BY <1>1, <1>9, <1>10 DEF PcOK
<1>11. CASE /\ ~Mark /\ pc \in {"idle", "query"} /\ pc' \in {"idle", "query"}
            /\ UNCHANGED batch
  BY <1>1, <1>9, <1>11 DEF PcOK
<1>12. CASE ~Mark /\ UNCHANGED <<pc, batch>>
  BY <1>1, <1>9, <1>12 DEF PcOK
<1> QED
  BY <1>5, <1>6, <1>7, <1>8, <1>10, <1>11, <1>12, BatchSteps

LEMMA OrdersOKStep ==
  ASSUME CInv, [Next]_vars
  PROVE  OrdersOK'
<1>1. OrdersKept /\ RowsKept
  BY OrdersStep, TableStep
<1>2. BatchOK /\ PcOK /\ OrdersOK /\ TypeOK
  BY DEF CInv
<1> DEFINE Fine(o) == o.by = "Collect" =>
               /\ \A r \in o.rows : src'[r].state # Absent
               /\ Total(src', o.rows) >= Threshold[o.token]
               /\ o.type = CollectTx => o.amount = Total(src', o.rows)
<1>3. ASSUME NEW i \in DOMAIN orders PROVE Fine(orders'[i])
  <2> SUFFICES ASSUME orders[i].by = "Collect" PROVE Fine(orders'[i])
    BY <1>1 DEF OrdersKept
  <2>1. /\ \A r \in orders[i].rows : src[r].state # Absent
        /\ Total(src, orders[i].rows) >= Threshold[orders[i].token]
        /\ orders[i].type = CollectTx => orders[i].amount = Total(src, orders[i].rows)
    BY <1>2 DEF OrdersOK
  <2>2. Total(src', orders[i].rows) = Total(src, orders[i].rows)
    BY <1>1, <2>1, TotalsKept
  <2>3. orders[i].rows \subseteq SrcId
    BY <1>2, OrdersAreOrders
  <2>4. \A r \in orders[i].rows : src'[r].state # Absent
    BY <1>1, <2>1, <2>3 DEF RowsKept
  <2> QED
    BY <1>1, <2>1, <2>2, <2>4 DEF OrdersKept
<1>4. ASSUME Handle PROVE Fine(NewOrder(Head(batch)))
  <2> DEFINE h == Head(batch)
  <2>1. AddsUp(h) /\ Enough(h)
    BY <1>2, <1>4, HeadOfBatch DEF Handle
  <2>2. UNCHANGED src
    BY <1>4 DEF Handle
  <2>3. \A r \in h.rows : src'[r].state # Absent
    BY <2>1, <2>2 DEF AddsUp, Ready, Absent, TxReadyCollectState
  <2>4. h.cnt = Total(src', h.rows) /\ h.cnt >= Threshold[h.token]
    BY <2>1, <2>2 DEF AddsUp, Enough
  <2>5. /\ NewOrder(h).rows = h.rows /\ NewOrder(h).token = h.token
        /\ NewOrder(h).type = CollectTx => NewOrder(h).amount = h.cnt
    BY DEF NewOrder, CollectTx, GasTx
  <2> HIDE DEF h
  <2> QED
    BY <2>3, <2>4, <2>5 DEF h
<1>5. ASSUME NEW o, o.by = "Check" PROVE Fine(o)
  BY <1>5
<1>6. \A i \in DOMAIN orders' : Fine(orders'[i])
  <2> HIDE DEF Fine
  <2>1. CASE DOMAIN orders' = DOMAIN orders
    BY <1>3, <2>1
  <2>2. CASE /\ DOMAIN orders = 1..Len(orders) /\ DOMAIN orders' = 1..Len(orders) + 1
             /\ Fine(orders'[Len(orders) + 1])
    <3>1. Len(orders) \in Nat
      BY <1>2 DEF TypeOK
    <3>2. \A i \in 1..Len(orders) + 1 : i \in 1..Len(orders) \/ i = Len(orders) + 1
      BY <3>1
    <3> QED
      BY <1>3, <2>2, <3>2
  <2> QED
    BY <1>4, <1>5, <2>1, <2>2, OrdersStep
<1> QED
  BY <1>6 DEF OrdersOK

LEMMA MarkOKStep ==
  ASSUME CInv, [Next]_vars
  PROVE  MarkOK'
<1>1. OrdersKept /\ lost \subseteq lost'
  BY OrdersStep, LostSteps
<1>2. MarkOK /\ BatchOK /\ PcOK /\ TypeOK
  BY DEF CInv
<1>3. ASSUME pc = "mark", UNCHANGED batch PROVE MarkOK'
  BY <1>1, <1>2, <1>3 DEF MarkOK, OrdersKept
<1>4. CASE Handle
  <2>1. orders' = Append(orders, NewOrder(Head(batch))) /\ UNCHANGED batch
    BY <1>4 DEF Handle
  <2>2. NewOrder(Head(batch)) \in Order
    BY <1>2, <1>4, HeadOfBatch, NewOrderIsOrder DEF Handle
  <2>3. orders \in Seq(Order)
    BY <1>2 DEF TypeOK
  <2>4. Len(orders) + 1 \in DOMAIN orders' /\ orders'[Len(orders) + 1] = NewOrder(Head(batch))
    BY <2>1, <2>2, <2>3
  <2> QED
    BY <2>1, <2>4 DEF MarkOK, NewOrder
<1>5. CASE InsertFails
  BY <1>5 DEF InsertFails, MarkOK
<1>6. pc' # "mark" \/ Handle \/ InsertFails \/ (pc = "mark" /\ UNCHANGED batch)
  BY DEF Next, vars, service, Crawl, OrderMined, CheckReads, Tick, Crash, Query, QueryFails,
         HandleFails, NextOfBatch, Mark, MarkFails, CheckInserts, CheckInsertFails, CheckEnds,
         CheckEndFails
<1> QED
  BY <1>3, <1>4, <1>5, <1>6 DEF MarkOK

LEMMA OrderedStep ==
  ASSUME CInv, [Next]_vars
  PROVE  CollectingIsOrdered'
<1>1. OrdersKept /\ RowsKept /\ lost \subseteq lost'
  BY OrdersStep, TableStep, LostSteps
<1>2. MarkOK /\ BatchOK /\ PcOK /\ TypeOK /\ OrdersOK /\ CollectingIsOrdered
  BY DEF CInv
<1> SUFFICES ASSUME NEW r \in SrcId, src'[r].state = TxCollectingState, r \notin lost'
             PROVE  \E i \in DOMAIN orders' :
                      /\ orders'[i].by = "Collect"
                      /\ orders'[i].src = r
                      /\ src'[r].cnt = Total(src', orders'[i].rows)
                      /\ orders'[i].type = CollectTx => orders'[i].amount = src'[r].cnt
  BY DEF CollectingIsOrdered
<1>3. ASSUME NEW i \in DOMAIN orders, orders[i].by = "Collect"
      PROVE  Total(src', orders[i].rows) = Total(src, orders[i].rows)
  BY <1>1, <1>2, <1>3, TotalsKept DEF OrdersOK
<1>4. CASE src'[r] = src[r]
  <2>1. PICK i \in DOMAIN orders :
           /\ orders[i].by = "Collect"
           /\ orders[i].src = r
           /\ src[r].cnt = Total(src, orders[i].rows)
           /\ orders[i].type = CollectTx => orders[i].amount = src[r].cnt
    BY <1>1, <1>2, <1>4 DEF CollectingIsOrdered
  <2>2. i \in DOMAIN orders' /\ Total(src', orders[i].rows) = Total(src, orders[i].rows)
    BY <1>1, <1>3, <2>1 DEF OrdersKept
  <2> QED
    BY <1>1, <1>4, <2>1, <2>2 DEF OrdersKept
<1>5. CASE Mark /\ r = Head(batch).id /\ src'[r].cnt = Head(batch).cnt
  <2>1. pc = "mark"
    BY <1>5 DEF Mark
  <2>2. PICK i \in DOMAIN orders :
           /\ orders[i].by = "Collect"
           /\ orders[i].src = r
           /\ orders[i].rows = Head(batch).rows
    BY <1>1, <1>2, <1>5, <2>1 DEF MarkOK
  <2>3. Head(batch).cnt = Total(src, orders[i].rows)
    BY <1>2, <2>1, <2>2, HeadOfBatch DEF AddsUp
  <2>4. orders[i].type = CollectTx => orders[i].amount = Total(src, orders[i].rows)
    BY <1>2, <2>2 DEF OrdersOK
  <2>5. i \in DOMAIN orders' /\ Total(src', orders[i].rows) = Total(src, orders[i].rows)
    BY <1>1, <1>3, <2>2 DEF OrdersKept
  <2> QED
    BY <1>1, <1>5, <2>2, <2>3, <2>4, <2>5 DEF OrdersKept
<1>6. \/ src'[r] = src[r]
      \/ Mark /\ r = Head(batch).id /\ src'[r].cnt = Head(batch).cnt
  BY TableStep DEF TxCollectingState, TxReadyCollectState
<1> QED
  BY <1>4, <1>5, <1>6

(* Only a failure takes a row back from being handled. *)
LEMMA HandledStep ==
  ASSUME CInv, [Next]_vars, NEW r \in SrcId
  PROVE  IsHandled(r) => IsHandled(r)' \/ faults' = faults + 1
<1>0. BatchOK /\ PcOK /\ TypeOK
  BY DEF CInv
<1>1. ASSUME src[r].state = TxCollectingState PROVE IsHandled(r)'
  BY <1>1, TableStep DEF IsHandled, TxCollectingState, Absent
<1>2. ASSUME pc = "mark", Head(batch).id = r PROVE IsHandled(r)' \/ faults' = faults + 1
  <2>1. CASE Mark
    <3>1. src[r] \in SrcRow
      BY <1>0, <1>2, HeadOfBatch, RowsAreRows DEF CInv, TableOK, TypeOK
    <3>2. src' = [src EXCEPT ![r].state = TxCollectingState, ![r].cnt = Head(batch).cnt]
      BY <1>2, <2>1 DEF Mark
    <3>3. src'[r].state = TxCollectingState
      BY <1>0, <3>1, <3>2 DEF TypeOK, SrcRow
    <3> QED
      BY <3>3 DEF IsHandled
  <2>2. CASE MarkFails \/ Crash
    BY <2>2 DEF MarkFails, Crash, Fault
  <2>3. CASE UNCHANGED <<pc, batch>>
    BY <1>2, <2>3 DEF IsHandled
  <2> QED
    BY <1>2, <2>1, <2>2, <2>3
    DEF Next, vars, service, Crawl, OrderMined, CheckReads, Tick, Query, QueryFails, Handle,
        HandleFails, InsertFails, CheckInserts, CheckInsertFails, CheckEnds, CheckEndFails
<1> QED
  BY <1>1, <1>2 DEF IsHandled

LEMMA CountOKStep ==
  ASSUME CInv, [Next]_vars
  PROVE  CountOK'
<1>1. /\ OrdersKept /\ BatchOK /\ PcOK /\ TypeOK /\ CountOK
      /\ faults \in Nat /\ (faults' = faults \/ faults' = faults + 1)
  BY OrdersStep, LostSteps, CollectAssumption DEF CInv, TypeOK
<1> SUFFICES ASSUME NEW r \in SrcId
             PROVE  Cardinality(MadeFrom(orders', r)) <= faults' + (IF IsHandled(r)' THEN 1 ELSE 0)
  BY DEF CountOK, IsHandled, MadeFrom
<1> DEFINE S == MadeFrom(orders, r)
           c == Cardinality(S)
<1>2. IsFiniteSet(S) /\ c \in Nat
  <2>1. IsFiniteSet(1..Len(orders)) /\ DOMAIN orders = 1..Len(orders)
    BY <1>1, FS_Interval DEF TypeOK
  <2>2. S \subseteq DOMAIN orders
    BY DEF MadeFrom
  <2> QED
    BY <2>1, <2>2, FS_Subset, FS_CardinalityType
<1>3. c <= faults + (IF IsHandled(r) THEN 1 ELSE 0)
  BY <1>1 DEF CountOK
<1>4. \/ MadeFrom(orders', r) = S
      \/ /\ Handle /\ r = Head(batch).id /\ MadeFrom(orders', r) = S \cup {Len(orders) + 1}
         /\ Len(orders) + 1 \notin S
  <2>1. CASE DOMAIN orders' = DOMAIN orders
    BY <1>1, <2>1 DEF MadeFrom, OrdersKept
  <2>2. CASE /\ DOMAIN orders = 1..Len(orders) /\ DOMAIN orders' = 1..Len(orders) + 1
             /\ \/ orders'[Len(orders) + 1].by = "Check"
                \/ Handle /\ orders'[Len(orders) + 1] = NewOrder(Head(batch))
    <3>1. Len(orders) \in Nat
      BY <1>1 DEF TypeOK
    <3> DEFINE n == Len(orders) + 1
    <3>2. DOMAIN orders' = DOMAIN orders \cup {n} /\ n \notin DOMAIN orders
      BY <2>2, <3>1
    <3>3. NewOrder(Head(batch)).src = Head(batch).id
      BY DEF NewOrder
    <3> HIDE DEF n
    <3>4. \A i \in DOMAIN orders : i \in MadeFrom(orders', r) <=> i \in S
      BY <1>1, <3>2 DEF MadeFrom, OrdersKept
    <3>5. MadeFrom(orders', r) = S \/ MadeFrom(orders', r) = S \cup {n}
      BY <3>2, <3>4 DEF MadeFrom
    <3>6. n \notin S
      BY <3>2 DEF MadeFrom
    <3>7. n \in MadeFrom(orders', r) => Handle /\ r = Head(batch).id
      BY <2>2, <3>3 DEF MadeFrom, n
    <3> QED
      BY <3>5, <3>6, <3>7 DEF n
  <2> QED
    BY <2>1, <2>2, OrdersStep
<1>5. CASE Handle /\ r = Head(batch).id /\ MadeFrom(orders', r) = S \cup {Len(orders) + 1}
           /\ Len(orders) + 1 \notin S
  <2>1. Cardinality(MadeFrom(orders', r)) = c + 1
    BY <1>2, <1>5, FS_AddElement
  <2>2. pc = "handle" /\ pc' = "mark" /\ UNCHANGED <<batch, faults>>
    BY <1>5 DEF Handle
  <2>3. ~IsHandled(r)
    BY <1>1, <1>5, <2>2, HeadOfBatch DEF IsHandled, Ready, TxReadyCollectState, TxCollectingState
  <2>4. IsHandled(r)'
    BY <1>5, <2>2 DEF IsHandled
  <2> HIDE DEF c
  <2> QED
    BY <1>1, <1>2, <1>3, <2>1, <2>2, <2>3, <2>4
<1>6. IsHandled(r) => IsHandled(r)' \/ faults' = faults + 1
  BY HandledStep
<1>7. CASE MadeFrom(orders', r) = S
  <2> HIDE DEF c
  <2> QED
    BY <1>1, <1>2, <1>3, <1>6, <1>7 DEF c
<1> QED
  BY <1>4, <1>5, <1>7

LEMMA TypeStep ==
  ASSUME CInv, [Next]_vars
  PROVE  TypeOK'
<1>1. TypeOK /\ BatchOK /\ PcOK
  BY DEF CInv
<1>2. src' \in [SrcId -> SrcRow \cup {NoRow}] /\ batch' \in Seq(Merged)
  BY TableStep, BatchStep DEF TableOK, BatchOK, AllAddUp
<1>3. orders' \in Seq(Order) /\ Len(orders') \in Nat /\ DOMAIN orders \subseteq DOMAIN orders'
      /\ DOMAIN orders = 1..Len(orders) /\ DOMAIN orders' = 1..Len(orders')
  BY OrdersStep DEF OrdersKept
<1>4. pc' \in {"idle", "query", "handle", "mark"}
  <2>1. pc \in {"idle", "query", "handle", "mark"}
    BY <1>1 DEF TypeOK
  <2> QED
    BY <2>1, BatchSteps DEF Query, HandleFails, NextOfBatch, Mark
<1>5. faults' \in 0..MaxFaults
  <2>1. faults \in 0..MaxFaults /\ MaxFaults \in Nat
    BY <1>1, CollectAssumption DEF TypeOK
  <2> QED
    BY <2>1 DEF Next, vars, Fault, Crawl, OrderMined, CheckReads, Tick, Crash, Query, QueryFails,
         Handle, HandleFails, InsertFails, Mark, MarkFails, CheckInserts, CheckInsertFails,
         CheckEnds, CheckEndFails
<1>6. funds' \in [User -> Nat]
  <2>1. funds \in [User -> Nat]
    BY <1>1 DEF TypeOK
  <2>2. ASSUME NEW i \in DOMAIN orders, OrderMined(i) PROVE funds' \in [User -> Nat]
    <3>1. orders[i].user \in User
      BY <1>1, OrdersAreOrders
    <3>2. funds[orders[i].user] + TopUp \in Nat
      BY <2>1, <3>1 DEF TopUp
    <3>3. CASE orders[i].type = GasTx
      BY <2>1, <2>2, <3>1, <3>2, <3>3 DEF OrderMined
    <3>4. CASE orders[i].type # GasTx
      <4>1. funds[orders[i].user] - 1 \in Nat
        BY <2>1, <2>2, <3>1, <3>4 DEF OrderMined
      <4> QED
        BY <2>1, <2>2, <3>1, <3>4, <4>1 DEF OrderMined
    <3> QED
      BY <3>3, <3>4
  <2>3. UNCHANGED funds \/ \E i \in DOMAIN orders : OrderMined(i)
    BY DEF Next, vars, Crawl, CheckReads, Tick, Crash, Query, QueryFails,
         Handle, HandleFails, InsertFails, Mark, MarkFails, CheckInserts, CheckInsertFails,
         CheckEnds, CheckEndFails
  <2> QED
    BY <2>1, <2>2, <2>3
<1>7. check' \in 0..Len(orders')
  <2>1. check \in 0..Len(orders) /\ Len(orders) \in Nat
    BY <1>1 DEF TypeOK
  <2>2. Len(orders) <= Len(orders')
    BY <1>3, <2>1
  <2>3. check' = check \/ check' = 0 \/ check' \in DOMAIN orders
    BY DEF Next, vars, checker, Crawl, OrderMined, CheckReads, Tick, Crash, Query, QueryFails,
         Handle, HandleFails, InsertFails, Mark, MarkFails, CheckInserts, CheckInsertFails,
         CheckEnds, CheckEndFails
  <2> QED
    BY <1>3, <2>1, <2>2, <2>3
<1>8. held' \in SrcRow \cup {NoRow}
  <2>1. held \in SrcRow \cup {NoRow} /\ src \in [SrcId -> SrcRow \cup {NoRow}]
    BY <1>1 DEF TypeOK
  <2>2. ASSUME NEW i \in DOMAIN orders, CheckReads(i) PROVE held' \in SrcRow \cup {NoRow}
    <3>1. orders[i].src \in SrcId
      BY <1>1, OrdersAreOrders
    <3>2. 1 \in SrcId
      BY <3>1, RowsAreNumbered
    <3> QED
      BY <2>1, <2>2, <3>2 DEF CheckReads
  <2>3. held' = held \/ held' = NoRow \/ \E i \in DOMAIN orders : CheckReads(i)
    BY DEF Next, vars, checker, Crawl, OrderMined, Tick, Crash, Query, QueryFails,
         Handle, HandleFails, InsertFails, Mark, MarkFails, CheckInserts, CheckInsertFails,
         CheckEnds, CheckEndFails
  <2> QED
    BY <2>1, <2>2, <2>3
<1>9. lost' \subseteq SrcId
  <2>1. lost \subseteq SrcId
    BY <1>1 DEF TypeOK
  <2>2. ASSUME InsertFails PROVE Head(batch).id \in SrcId
    BY <1>1, <2>2, HeadOfBatch DEF InsertFails
  <2>3. ASSUME CheckInsertFails PROVE orders[check].src \in SrcId
    BY <1>1, <2>3, OrdersAreOrders DEF CheckInsertFails
  <2> QED
    BY <2>1, <2>2, <2>3 DEF Next, vars, InsertFails, CheckInsertFails, Crawl, OrderMined, CheckReads,
         Tick, Crash, Query, QueryFails, Handle, HandleFails, Mark, MarkFails, CheckInserts,
         CheckEnds, CheckEndFails
<1> QED
  BY <1>2, <1>3, <1>4, <1>5, <1>6, <1>7, <1>8, <1>9 DEF TypeOK

LEMMA CInvInit == Init => CInv
<1> SUFFICES ASSUME Init PROVE CInv
  OBVIOUS
<1>1. /\ src = [r \in SrcId |-> NoRow] /\ orders = <<>> /\ batch = <<>> /\ pc = "idle"
      /\ check = 0 /\ held = NoRow /\ lost = {} /\ faults = 0
      /\ funds \in [User -> {0, MaxTxFee}]
  BY DEF Init
<1>2. DOMAIN <<>> = {} /\ Len(<<>>) = 0 /\ <<>> \in Seq(Merged) /\ <<>> \in Seq(Order)
  OBVIOUS
<1>3. \A r \in SrcId : src[r].state = Absent
  BY <1>1 DEF NoRow
<1>4. TypeOK
  <2>1. faults \in 0..MaxFaults
    BY <1>1, CollectAssumption
  <2>2. funds \in [User -> Nat]
    BY <1>1 DEF MaxTxFee
  <2> QED
    BY <1>1, <1>2, <2>1, <2>2 DEF TypeOK
<1>5. ReadyKeepsCount /\ CollectingIsOrdered
  BY <1>3 DEF ReadyKeepsCount, CollectingIsOrdered, Ready, Absent, TxReadyCollectState,
              TxCollectingState
<1>6. BatchOK /\ PcOK /\ OrdersOK /\ MarkOK
  BY <1>1, <1>2 DEF BatchOK, AllAddUp, OnePerGroup, PcOK, OrdersOK, MarkOK
<1>7. CountOK
  <2>1. \A r \in SrcId : MadeFrom(orders, r) = {}
    BY <1>1, <1>2 DEF MadeFrom
  <2>2. \A r \in SrcId : Cardinality(MadeFrom(orders, r)) = 0
    BY <2>1, FS_EmptySet
  <2> QED
    BY <1>1, <2>2 DEF CountOK
<1> QED
  BY <1>4, <1>5, <1>6, <1>7 DEF CInv

LEMMA CInvNext == CInv /\ [Next]_vars => CInv'
<1> SUFFICES ASSUME CInv, [Next]_vars PROVE CInv'
  OBVIOUS
<1>1. ReadyKeepsCount'
  BY TableStep DEF TableOK
<1> QED
  BY <1>1, TypeStep, BatchStep, OrdersOKStep, MarkOKStep, OrderedStep, CountOKStep DEF CInv

-----------------------------------------------------------------------------
(* The invariant holds: every claim below is a part of it. *)
THEOREM CInvHolds == Spec => []CInv
BY CInvInit, CInvNext, PTL DEF Spec

(* Types: in particular a balance for gas is never spent below zero        *)
(* (OrderMined), and the gas order followed up is in the table.            *)
THEOREM CollectTypesHold == Spec => []TypeOK
<1>1. CInv => TypeOK
  BY DEF CInv
<1> QED
  BY <1>1, CInvHolds, PTL

(* The loops of CollectService.Run (collect.go:223-257): in whatever order *)
(* the rows are read, each total in memory is that of Ready rows of one    *)
(* user and token and there is one for the two, until the pass is over.    *)
THEOREM BatchAddsUpHolds == Spec => []BatchAddsUp
<1>1. CInv => BatchAddsUp
  BY DEF CInv, BatchOK, AllAddUp, AddsUp, OnePerGroup, BatchAddsUp
<1> QED
  BY <1>1, CInvHolds, PTL

(* The two transactions of a row (collect.go:275-288): marked rows have    *)
(* their order, with the amount the row shows, or its insert failed.       *)
THEOREM CollectingIsOrderedHolds == Spec => []CollectingIsOrdered
<1>1. CInv => CollectingIsOrdered
  BY DEF CInv
<1> QED
  BY <1>1, CInvHolds, PTL

(* UpdateCollectTx (collect.go:288) writes the head of a group only: the   *)
(* counts of the others stay their own.                                    *)
THEOREM ReadyKeepsCountHolds == Spec => []ReadyKeepsCount
<1>1. CInv => ReadyKeepsCount
  BY DEF CInv
<1> QED
  BY <1>1, CInvHolds, PTL

(* The mark that ends the orders of a row (collect.go:287): each order     *)
(* but one that a row is given took a failed call or an exit.              *)
THEOREM RepeatsNeedFaultsHolds == Spec => []RepeatsNeedFaults
<1>1. CInv => RepeatsNeedFaults
  <2> SUFFICES ASSUME CInv, NEW r \in SrcId
               PROVE  Cardinality(MadeFrom(orders, r)) <= 1 + faults
    BY DEF RepeatsNeedFaults, MadeFrom
  <2>1. IsFiniteSet(1..Len(orders)) /\ DOMAIN orders = 1..Len(orders)
    BY FS_Interval DEF CInv, TypeOK
  <2>2. MadeFrom(orders, r) \subseteq DOMAIN orders
    BY DEF MadeFrom
  <2>3. Cardinality(MadeFrom(orders, r)) \in Nat
    BY <2>1, <2>2, FS_Subset, FS_CardinalityType
  <2>4. faults \in Nat
    BY CollectAssumption DEF CInv, TypeOK
  <2> QED
    BY <2>3, <2>4 DEF CInv, CountOK
<1> QED
  BY <1>1, CInvHolds, PTL

(* The filter (collect.go:242-257): an order of the collect service is for *)
(* rows that together reach the threshold of their token.                  *)
THEOREM OrdersReachThresholdHolds == Spec => []OrdersReachThreshold
<1>1. CInv => OrdersReachThreshold
  BY DEF CInv, OrdersOK, OrdersReachThreshold
<1> QED
  BY <1>1, CInvHolds, PTL

-----------------------------------------------------------------------------
(* Gas orders and what follows them up: no token that is shown as being    *)
(* collected is left without an order that moves it, and what moves it is  *)
(* not multiplied.  Module Daemon takes both to the chain.                 *)

Followed(i) ==
  \/ orders[i].src \in lost
  \/ \E j \in DOMAIN orders :
       /\ orders[j].type = CollectTx
       /\ orders[j].src = orders[i].src /\ orders[j].rows = orders[i].rows

(* Orders that move tokens of a row, or are still to bring one that does.  *)
LiveOrders(os, r) ==
  {i \in DOMAIN os : os[i].src = r /\ (os[i].type = CollectTx \/ ~os[i].ended)}

(* The check service has followed an order of the row up, and not ended it *)
(* yet.                                                                    *)
IsFollowed(r) == check # 0 /\ held = NoRow /\ orders[check].src = r

FollowOK ==
  /\ \A i \in DOMAIN orders :
       /\ orders[i].src \in orders[i].rows
       /\ orders[i].type = GasTx /\ orders[i].ended => Followed(i)
  /\ check # 0 => orders[check].type = GasTx /\ ~orders[check].ended
  /\ check # 0 /\ held = NoRow => Followed(check)

LiveOK ==
  \A r \in SrcId :
    Cardinality(LiveOrders(orders, r))
      <= 2 * faults + (IF IsHandled(r) THEN 1 ELSE 0) + (IF IsFollowed(r) THEN 1 ELSE 0)

FInv == CInv /\ FollowOK /\ LiveOK

LEMMA CheckSteps ==
  ASSUME [Next]_vars
  PROVE  \/ \E i \in DOMAIN orders : CheckReads(i)
         \/ CheckInserts
         \/ CheckInsertFails
         \/ CheckEnds
         \/ check' = 0 /\ faults' = faults + 1
         \/ UNCHANGED <<check, held>>
BY DEF Next, vars, checker, Fault, Crawl, OrderMined, Tick, Crash, Query, QueryFails, Handle,
       HandleFails, InsertFails, Mark, MarkFails, CheckEndFails

LEMMA CheckEndsEnds ==
  ASSUME CInv, CheckEnds
  PROVE  check \in DOMAIN orders /\ orders'[check].ended
<1>1. orders \in Seq(Order) /\ check \in DOMAIN orders
  BY OrdersAreOrders DEF CInv, TypeOK, CheckEnds
<1>2. orders[check] \in Order /\ orders' = [orders EXCEPT ![check].ended = TRUE]
  BY <1>1 DEF CheckEnds
<1> QED
  BY <1>1, <1>2 DEF Order

(* An order stays as it was, or is the one that is ended or paid. *)
LEMMA EndedSteps ==
  ASSUME CInv, [Next]_vars, NEW i \in DOMAIN orders
  PROVE  \/ orders'[i].ended = orders[i].ended
         \/ CheckEnds /\ i = check /\ orders'[i].ended
<1>1. TypeOK /\ orders \in Seq(Order)
  BY DEF CInv, TypeOK
<1>2. orders[i] \in Order
  BY <1>1
<1>3. ASSUME NEW j \in DOMAIN orders, OrderMined(j)
      PROVE  orders'[i].ended = orders[i].ended
  BY <1>1, <1>2, <1>3 DEF OrderMined, Order
<1>4. CASE CheckEnds
  <2>1. orders' = [orders EXCEPT ![check].ended = TRUE] /\ check \in DOMAIN orders
    BY <1>1, <1>4, OrdersAreOrders DEF CheckEnds
  <2>2. i # check => orders'[i] = orders[i]
    BY <1>1, <2>1
  <2>3. i = check => orders'[i].ended
    BY <1>4, CheckEndsEnds
  <2> QED
    BY <1>4, <2>2, <2>3
<1>5. ASSUME NEW p, orders' = Append(orders, p) PROVE orders'[i].ended = orders[i].ended
  BY <1>1, <1>5
<1>6. CASE Handle
  BY <1>5, <1>6 DEF Handle
<1>7. CASE CheckInserts
  BY <1>5, <1>7 DEF CheckInserts
<1> QED
  BY <1>3, <1>4, <1>6, <1>7, OrderSteps

LEMMA FollowOKStep ==
  ASSUME FInv, [Next]_vars
  PROVE  FollowOK'
<1>1. CInv /\ TypeOK /\ FollowOK /\ OrdersKept /\ lost \subseteq lost' /\ BatchOK /\ PcOK
  BY OrdersStep, LostSteps DEF FInv, CInv
<1>2. ASSUME NEW i \in DOMAIN orders, Followed(i) PROVE Followed(i)'
  BY <1>1, <1>2 DEF Followed, OrdersKept
<1>3. ASSUME CheckInserts \/ CheckInsertFails
      PROVE  /\ check' = check /\ held' = NoRow /\ check # 0 /\ check \in DOMAIN orders
             /\ Followed(check)'
  <2>1. check' = check /\ check # 0 /\ held' = NoRow /\ check \in DOMAIN orders
    BY <1>1, <1>3, OrdersAreOrders DEF CheckInserts, CheckInsertFails
  <2>2. CASE CheckInsertFails
    BY <1>1, <2>1, <2>2 DEF CheckInsertFails, Followed
  <2>3. CASE CheckInserts
    <3> DEFINE p == [type |-> CollectTx, by |-> "Check",
                     user |-> orders[check].user, token |-> held.token, amount |-> held.cnt,
                     src |-> orders[check].src, rows |-> orders[check].rows,
                     paid |-> FALSE, ended |-> FALSE]
    <3>1. orders' = Append(orders, p) /\ orders \in Seq(Order)
      BY <1>1, <2>3 DEF CheckInserts, TypeOK
    <3>2. p.type = CollectTx /\ p.src = orders[check].src /\ p.rows = orders[check].rows
      OBVIOUS
    <3> HIDE DEF p
    <3>3. Len(orders) + 1 \in DOMAIN orders' /\ orders'[Len(orders) + 1] = p
          /\ orders'[check] = orders[check]
      BY <2>1, <3>1
    <3> QED
      BY <2>1, <3>2, <3>3 DEF Followed
  <2> QED
    BY <1>3, <2>1, <2>2, <2>3
<1>4. ASSUME NEW i \in DOMAIN orders
      PROVE  /\ orders'[i].src \in orders'[i].rows
             /\ orders'[i].type = GasTx /\ orders'[i].ended => Followed(i)'
  <2>1. orders'[i].src \in orders'[i].rows
    BY <1>1 DEF FollowOK, OrdersKept
  <2>2. ASSUME orders'[i].type = GasTx, orders'[i].ended PROVE Followed(i)
    <3>1. orders[i].type = GasTx
      BY <1>1, <2>2 DEF OrdersKept
    <3>2. CASE orders[i].ended
      BY <1>1, <3>1, <3>2 DEF FollowOK
    <3>3. CASE CheckEnds /\ i = check
      BY <1>1, <3>3 DEF FollowOK, CheckEnds
    <3> QED
      BY <1>1, <2>2, <3>2, <3>3, EndedSteps
  <2> QED
    BY <1>2, <2>1, <2>2
<1>5. ASSUME NEW o, o = NewOrder(Head(batch)), Handle PROVE o.src \in o.rows /\ ~o.ended
  BY <1>1, <1>5, HeadOfBatch DEF Handle, NewOrder
<1>6. \A i \in DOMAIN orders' :
        /\ orders'[i].src \in orders'[i].rows
        /\ orders'[i].type = GasTx /\ orders'[i].ended => Followed(i)'
  <2> SUFFICES ASSUME NEW i \in DOMAIN orders', i \notin DOMAIN orders
               PROVE  orders'[i].src \in orders'[i].rows /\ ~orders'[i].ended
    BY <1>4
  <2>1. Len(orders) \in Nat /\ DOMAIN orders = 1..Len(orders)
    BY <1>1 DEF TypeOK
  <2>2. i = Len(orders) + 1
    BY <2>1, OrdersStep, <1>1
  <2>3. CASE Handle
    <3>1. orders' = Append(orders, NewOrder(Head(batch)))
      BY <2>3 DEF Handle
    <3>2. orders'[i] = NewOrder(Head(batch))
      BY <1>1, <2>2, <3>1 DEF TypeOK
    <3> QED
      BY <1>5, <2>3, <3>2
  <2>4. CASE CheckInserts
    <3> DEFINE p == [type |-> CollectTx, by |-> "Check",
                     user |-> orders[check].user, token |-> held.token, amount |-> held.cnt,
                     src |-> orders[check].src, rows |-> orders[check].rows,
                     paid |-> FALSE, ended |-> FALSE]
    <3>1. orders' = Append(orders, p) /\ check \in DOMAIN orders
      BY <1>1, <2>4, OrdersAreOrders DEF CheckInserts
    <3>2. orders'[i] = p
      BY <1>1, <2>2, <3>1 DEF TypeOK
    <3> QED
      BY <1>1, <3>1, <3>2 DEF FollowOK
  <2>5. Handle \/ CheckInserts
    <3>1. ASSUME NEW j \in DOMAIN orders, OrderMined(j) PROVE DOMAIN orders' = DOMAIN orders
      BY <3>1 DEF OrderMined
    <3>2. CheckEnds => DOMAIN orders' = DOMAIN orders
      BY DEF CheckEnds
    <3> QED
      BY <3>1, <3>2, OrderSteps
  <2> QED
    BY <2>3, <2>4, <2>5
<1>7. (check # 0 => orders[check].type = GasTx /\ ~orders[check].ended)'
  <2>1. CASE \E i \in DOMAIN orders : CheckReads(i)
    BY <2>1 DEF CheckReads
  <2>2. CASE check' = check /\ ~CheckEnds
    <3>1. check # 0 => check \in DOMAIN orders
      BY <1>1, OrdersAreOrders
    <3> QED
      BY <1>1, <2>2, <3>1, EndedSteps DEF FollowOK, OrdersKept
  <2>3. CASE check' = 0
    BY <2>3
  <2> QED
    BY <1>3, <2>1, <2>2, <2>3, CheckSteps DEF CheckEnds
<1>8. (check # 0 /\ held = NoRow => Followed(check))'
  <2>1. ASSUME NEW i \in DOMAIN orders, CheckReads(i) PROVE held' # NoRow
    BY <2>1 DEF CheckReads, NoRow
  <2>2. ASSUME check # 0, held = NoRow, UNCHANGED check PROVE Followed(check)'
    <3>1. check \in DOMAIN orders /\ Followed(check)
      BY <1>1, <2>2, OrdersAreOrders DEF FollowOK
    <3>2. \A i \in DOMAIN orders : i = check => Followed(i)'
      BY <1>2, <3>1
    <3> QED
      BY <1>1, <2>2, <3>1 DEF Followed, OrdersKept
  <2>3. CheckEnds => check' = 0
    BY DEF CheckEnds
  <2> QED
    BY <1>3, <2>1, <2>2, <2>3, CheckSteps
<1> QED
  BY <1>6, <1>7, <1>8 DEF FollowOK

LEMMA LiveChanges ==
  ASSUME FInv, [Next]_vars, NEW r \in SrcId
  PROVE  \/ CheckEnds /\ check \in DOMAIN orders /\ orders[check].src = r
            /\ LiveOrders(orders', r) = LiveOrders(orders, r) \ {check}
            /\ check \in LiveOrders(orders, r)
         \/ LiveOrders(orders', r) = LiveOrders(orders, r)
         \/ /\ LiveOrders(orders', r) = LiveOrders(orders, r) \cup {Len(orders) + 1}
            /\ Len(orders) + 1 \notin LiveOrders(orders, r)
            /\ \/ Handle /\ r = Head(batch).id
               \/ CheckInserts /\ r = orders[check].src
<1>1. CInv /\ TypeOK /\ FollowOK /\ OrdersKept
  BY OrdersStep DEF FInv, CInv
<1> DEFINE n == Len(orders) + 1
<1>2. Len(orders) \in Nat /\ DOMAIN orders = 1..Len(orders) /\ orders \in Seq(Order)
  BY <1>1 DEF TypeOK
<1>3. check # 0 => check \in DOMAIN orders
  BY <1>1, OrdersAreOrders
<1>4. ASSUME NEW i \in DOMAIN orders, ~(CheckEnds /\ i = check)
      PROVE  i \in LiveOrders(orders', r) <=> i \in LiveOrders(orders, r)
  <2>1. orders'[i].ended = orders[i].ended /\ i \in DOMAIN orders'
    BY <1>1, <1>4, EndedSteps DEF OrdersKept
  <2> QED
    BY <1>1, <2>1 DEF LiveOrders, OrdersKept
<1>5. \A i : i \in LiveOrders(orders, r) => i \in DOMAIN orders
  BY DEF LiveOrders
<1>6. \A i : i \in LiveOrders(orders', r) => i \in DOMAIN orders'
  BY DEF LiveOrders
<1>7. CASE CheckEnds
  <2>1. DOMAIN orders' = DOMAIN orders /\ check # 0
    BY <1>7 DEF CheckEnds
  <2>2. /\ check \in DOMAIN orders' /\ orders'[check].ended /\ orders'[check].type = GasTx
        /\ ~orders[check].ended
    BY <1>1, <1>3, <1>7, <2>1, CheckEndsEnds DEF FollowOK, OrdersKept
  <2>3. check \notin LiveOrders(orders', r)
    BY <2>2 DEF LiveOrders, GasTx, CollectTx
  <2>4. LiveOrders(orders', r) = LiveOrders(orders, r) \ {check}
    <3>1. \A i : i # check =>
             (i \in LiveOrders(orders', r) <=> i \in LiveOrders(orders, r))
      BY <1>4, <1>5, <1>6, <2>1
    <3> QED
      BY <2>3, <3>1
  <2>5. CASE orders[check].src = r
    <3>1. check \in LiveOrders(orders, r)
      BY <1>3, <2>1, <2>2, <2>5 DEF LiveOrders
    <3> QED
      BY <1>3, <1>7, <2>1, <2>4, <2>5, <3>1
  <2>6. CASE orders[check].src # r
    <3>1. check \notin LiveOrders(orders, r)
      BY <2>6 DEF LiveOrders
    <3> QED
      BY <2>4, <3>1
  <2> QED
    BY <2>5, <2>6
<1>8. CASE ~CheckEnds /\ DOMAIN orders' = DOMAIN orders
  BY <1>4, <1>5, <1>6, <1>8
<1>9. CASE /\ ~CheckEnds /\ DOMAIN orders' = DOMAIN orders \cup {n}
           /\ orders'[n].src = r => \/ Handle /\ r = Head(batch).id
                                    \/ CheckInserts /\ r = orders[check].src
  <2>1. n \notin DOMAIN orders
    BY <1>2
  <2>2. \A i : i # n =>
           (i \in LiveOrders(orders', r) <=> i \in LiveOrders(orders, r))
    BY <1>4, <1>5, <1>6, <1>9
  <2>3. n \notin LiveOrders(orders, r)
    BY <1>5, <2>1
  <2>4. n \in LiveOrders(orders', r) => orders'[n].src = r
    BY DEF LiveOrders
  <2>5. CASE n \in LiveOrders(orders', r)
    <3>1. LiveOrders(orders', r) = LiveOrders(orders, r) \cup {n}
      BY <2>2, <2>3, <2>5
    <3> QED
      BY <1>9, <2>3, <2>4, <2>5, <3>1
  <2>6. CASE n \notin LiveOrders(orders', r)
    <3>1. LiveOrders(orders', r) = LiveOrders(orders, r)
      BY <2>2, <2>3, <2>6
    <3> QED
      BY <3>1
  <2> QED
    BY <2>5, <2>6
<1>10. ASSUME NEW i \in DOMAIN orders, OrderMined(i) PROVE DOMAIN orders' = DOMAIN orders
  BY <1>10 DEF OrderMined
<1>11. ASSUME NEW p, orders' = Append(orders, p)
       PROVE  DOMAIN orders' = DOMAIN orders \cup {n} /\ orders'[n] = p
  BY <1>2, <1>11
<1>12. ASSUME Handle
       PROVE  DOMAIN orders' = DOMAIN orders \cup {n} /\ orders'[n].src = Head(batch).id
  BY <1>11, <1>12 DEF Handle, NewOrder
<1>13. ASSUME CheckInserts
       PROVE  DOMAIN orders' = DOMAIN orders \cup {n} /\ orders'[n].src = orders[check].src
  BY <1>11, <1>13 DEF CheckInserts
<1> QED
  BY <1>7, <1>8, <1>9, <1>10, <1>12, <1>13, OrderSteps

LEMMA FollowedStep ==
  ASSUME FInv, [Next]_vars, NEW r \in SrcId, IsFollowed(r)
  PROVE  \/ IsFollowed(r)'
         \/ faults' = faults + 1
         \/ CheckEnds /\ orders[check].src = r
<1>1. CInv /\ TypeOK /\ OrdersKept /\ check \in DOMAIN orders
  BY OrdersStep, OrdersAreOrders DEF FInv, CInv, IsFollowed
<1>2. CASE UNCHANGED <<check, held>>
  BY <1>1, <1>2 DEF IsFollowed, OrdersKept
<1> QED
  BY <1>2, CheckSteps DEF IsFollowed, CheckReads, CheckInserts, CheckInsertFails, CheckEnds, Fault

LEMMA LiveOKStep ==
  ASSUME FInv, [Next]_vars
  PROVE  LiveOK'
<1>1. /\ CInv /\ TypeOK /\ LiveOK /\ FollowOK /\ BatchOK /\ PcOK /\ OrdersKept
      /\ faults \in Nat /\ (faults' = faults \/ faults' = faults + 1)
  BY OrdersStep, LostSteps, CollectAssumption DEF FInv, CInv, TypeOK
<1> SUFFICES ASSUME NEW r \in SrcId
             PROVE  Cardinality(LiveOrders(orders', r))
                      <= 2 * faults' + (IF IsHandled(r)' THEN 1 ELSE 0)
                           + (IF IsFollowed(r)' THEN 1 ELSE 0)
  BY DEF LiveOK, IsHandled, IsFollowed, LiveOrders
<1> DEFINE S == LiveOrders(orders, r)
           c == Cardinality(S)
<1>2. IsFiniteSet(S) /\ c \in Nat
  <2>1. IsFiniteSet(1..Len(orders)) /\ DOMAIN orders = 1..Len(orders)
    BY <1>1, FS_Interval DEF TypeOK
  <2>2. S \subseteq DOMAIN orders
    BY DEF LiveOrders
  <2> QED
    BY <2>1, <2>2, FS_Subset, FS_CardinalityType
<1>3. c <= 2 * faults + (IF IsHandled(r) THEN 1 ELSE 0) + (IF IsFollowed(r) THEN 1 ELSE 0)
  BY <1>1 DEF LiveOK
<1> HIDE DEF S
<1>4. IsHandled(r) => IsHandled(r)' \/ faults' = faults + 1
  BY <1>1, HandledStep
<1>5. IsFollowed(r) => \/ IsFollowed(r)' \/ faults' = faults + 1
                       \/ CheckEnds /\ orders[check].src = r
  BY FollowedStep
<1>6. CASE CheckEnds /\ LiveOrders(orders', r) = S \ {check} /\ check \in S
  <2>1. Cardinality(LiveOrders(orders', r)) = c - 1
    BY <1>2, <1>6, FS_RemoveElement
  <2> HIDE DEF c
  <2> QED
    BY <1>1, <1>2, <1>3, <1>4, <2>1
<1>7. CASE LiveOrders(orders', r) = S /\ ~(CheckEnds /\ orders[check].src = r)
  <2>1. Cardinality(LiveOrders(orders', r)) = c
    BY <1>7
  <2> HIDE DEF c
  <2> QED
    BY <1>1, <1>2, <1>3, <1>4, <1>5, <1>7, <2>1
<1>8. CASE /\ LiveOrders(orders', r) = S \cup {Len(orders) + 1} /\ Len(orders) + 1 \notin S
           /\ Handle /\ r = Head(batch).id
  <2>1. Cardinality(LiveOrders(orders', r)) = c + 1
    BY <1>2, <1>8, FS_AddElement
  <2>2. pc = "handle" /\ pc' = "mark" /\ UNCHANGED <<batch, faults, check, held>>
    BY <1>8 DEF Handle, checker
  <2>3. ~IsHandled(r)
    BY <1>1, <1>8, <2>2, HeadOfBatch DEF IsHandled, Ready, TxReadyCollectState, TxCollectingState
  <2>4. IsHandled(r)'
    BY <1>8, <2>2 DEF IsHandled
  <2>5. IsFollowed(r) => IsFollowed(r)'
    <3>1. ~CheckEnds
      BY <2>2 DEF CheckEnds
    <3>2. faults + 1 # faults
      BY <1>1
    <3> QED
      BY <1>5, <2>2, <3>1, <3>2
  <2> HIDE DEF c
  <2> QED
    BY <1>1, <1>2, <1>3, <2>1, <2>2, <2>3, <2>4, <2>5
<1>9. CASE /\ LiveOrders(orders', r) = S \cup {Len(orders) + 1} /\ Len(orders) + 1 \notin S
           /\ CheckInserts /\ r = orders[check].src
  <2>1. Cardinality(LiveOrders(orders', r)) = c + 1
    BY <1>2, <1>9, FS_AddElement
  <2>2. ~IsFollowed(r) /\ UNCHANGED <<check, faults>> /\ held' = NoRow /\ check # 0
    BY <1>9 DEF CheckInserts, IsFollowed
  <2>3. check \in DOMAIN orders
    BY <1>1, <2>2, OrdersAreOrders
  <2>4. IsFollowed(r)'
    BY <1>1, <1>9, <2>2, <2>3 DEF IsFollowed, OrdersKept
  <2> HIDE DEF c
  <2> QED
    BY <1>1, <1>2, <1>3, <1>4, <2>1, <2>2, <2>4
<1>10. ASSUME LiveOrders(orders', r) = S, CheckEnds, orders[check].src = r PROVE FALSE
  <2>1. check \in DOMAIN orders /\ check # 0
    BY <1>1, <1>10, OrdersAreOrders DEF CheckEnds
  <2>2. check \in S
    BY <1>1, <1>10, <2>1 DEF S, LiveOrders, FollowOK
  <2>3. orders'[check].ended /\ orders'[check].type = GasTx
    BY <1>1, <1>10, <2>1, CheckEndsEnds DEF FollowOK, OrdersKept
  <2>4. check \notin LiveOrders(orders', r)
    BY <2>3 DEF LiveOrders, GasTx, CollectTx
  <2> QED
    BY <1>10, <2>2, <2>4
<1> QED
  BY <1>6, <1>7, <1>8, <1>9, <1>10, LiveChanges DEF S

LEMMA FInvInit == Init => FInv
<1> SUFFICES ASSUME Init PROVE FInv
  OBVIOUS
<1>1. orders = <<>> /\ check = 0 /\ faults = 0 /\ DOMAIN <<>> = {}
  BY DEF Init
<1>2. FollowOK
  BY <1>1 DEF FollowOK
<1>3. LiveOK
  <2>1. \A r \in SrcId : LiveOrders(orders, r) = {}
    BY <1>1 DEF LiveOrders
  <2>2. \A r \in SrcId : Cardinality(LiveOrders(orders, r)) = 0
    BY <2>1, FS_EmptySet
  <2> QED
    BY <1>1, <2>2 DEF LiveOK
<1> QED
  BY <1>2, <1>3, CInvInit DEF FInv

LEMMA FInvNext == FInv /\ [Next]_vars => FInv'
BY CInvNext, FollowOKStep, LiveOKStep DEF FInv

(* A failure outside the two services changes nothing here. *)
LEMMA FailureElsewhere ==
  ASSUME FInv, UNCHANGED <<src, orders, funds, service, checker, lost>>,
         faults < MaxFaults, faults' = faults + 1
  PROVE  FInv'
<1>1. /\ TypeOK /\ UNCHANGED <<src, orders, funds, pc, batch, check, held, lost>>
      /\ faults \in Nat /\ faults' \in 0..MaxFaults
  BY CollectAssumption DEF FInv, CInv, TypeOK, service, checker
<1>2. TypeOK'
  BY <1>1 DEF TypeOK
<1>3. /\ ReadyKeepsCount' /\ BatchOK' /\ PcOK' /\ OrdersOK' /\ MarkOK' /\ CollectingIsOrdered'
  BY <1>1 DEF FInv, CInv, ReadyKeepsCount, BatchOK, AllAddUp, OnePerGroup, AddsUp, SameGroup, Ready,
              Enough, PcOK, OrdersOK, MarkOK, CollectingIsOrdered
<1>4. FollowOK'
  BY <1>1 DEF FInv, FollowOK, Followed
<1>5. \A r \in SrcId : /\ MadeFrom(orders', r) = MadeFrom(orders, r)
                       /\ LiveOrders(orders', r) = LiveOrders(orders, r)
                       /\ IsHandled(r)' <=> IsHandled(r)
                       /\ IsFollowed(r)' <=> IsFollowed(r)
  BY <1>1 DEF MadeFrom, LiveOrders, IsHandled, IsFollowed
<1>6. \A r \in SrcId : IsFiniteSet(MadeFrom(orders, r)) /\ IsFiniteSet(LiveOrders(orders, r))
  <2>1. IsFiniteSet(1..Len(orders)) /\ DOMAIN orders = 1..Len(orders)
    BY <1>1, FS_Interval DEF TypeOK
  <2>2. \A r \in SrcId : /\ MadeFrom(orders, r) \subseteq DOMAIN orders
                         /\ LiveOrders(orders, r) \subseteq DOMAIN orders
    BY DEF MadeFrom, LiveOrders
  <2> QED
    BY <2>1, <2>2, FS_Subset
<1>7. CountOK'
  <2> SUFFICES ASSUME NEW r \in SrcId
               PROVE  Cardinality(MadeFrom(orders', r))
                        <= faults' + (IF IsHandled(r)' THEN 1 ELSE 0)
    BY DEF CountOK, IsHandled, MadeFrom
  <2>1. Cardinality(MadeFrom(orders, r)) \in Nat
    BY <1>6, FS_CardinalityType
  <2>2. Cardinality(MadeFrom(orders, r)) <= faults + (IF IsHandled(r) THEN 1 ELSE 0)
    BY DEF FInv, CInv, CountOK
  <2> QED
    BY <1>1, <1>5, <2>1, <2>2
<1>8. LiveOK'
  <2> SUFFICES ASSUME NEW r \in SrcId
               PROVE  Cardinality(LiveOrders(orders', r))
                        <= 2 * faults' + (IF IsHandled(r)' THEN 1 ELSE 0)
                             + (IF IsFollowed(r)' THEN 1 ELSE 0)
    BY DEF LiveOK, IsHandled, IsFollowed, LiveOrders
  <2>1. Cardinality(LiveOrders(orders, r)) \in Nat
    BY <1>6, FS_CardinalityType
  <2>2. Cardinality(LiveOrders(orders, r))
          <= 2 * faults + (IF IsHandled(r) THEN 1 ELSE 0) + (IF IsFollowed(r) THEN 1 ELSE 0)
    BY DEF FInv, LiveOK
  <2> QED
    BY <1>1, <1>5, <2>1, <2>2
<1> QED
  BY <1>2, <1>3, <1>4, <1>7, <1>8 DEF FInv, CInv

(* What module Daemon takes from here: the orders that move a row's tokens *)
(* in the end, and how many are made.                                      *)
LEMMA CollectingIsCarried ==
  ASSUME FInv, NEW r \in SrcId, src[r].state = TxCollectingState, r \notin lost
  PROVE  \E i \in DOMAIN orders :
           /\ r \in orders[i].rows
           /\ orders[i].type = CollectTx \/ (orders[i].type = GasTx /\ ~orders[i].ended)
<1>1. PICK i \in DOMAIN orders : orders[i].by = "Collect" /\ orders[i].src = r
  BY DEF FInv, CInv, CollectingIsOrdered
<1>2. r \in orders[i].rows /\ orders[i].type \in {GasTx, CollectTx}
  <2>1. orders[i] \in Order
    BY OrdersAreOrders DEF FInv, CInv
  <2> QED
    BY <1>1, <2>1 DEF FInv, FollowOK, Order
<1>3. CASE orders[i].type = GasTx /\ orders[i].ended
  BY <1>1, <1>2, <1>3 DEF FInv, FollowOK, Followed
<1> QED
  BY <1>2, <1>3

LEMMA TransfersAreFew ==
  ASSUME FInv, NEW r \in SrcId
  PROVE  LET T == {i \in DOMAIN orders : orders[i].type = CollectTx /\ orders[i].src = r}
         IN  IsFiniteSet(T) /\ Cardinality(T) <= 1 + 2 * faults
<1> DEFINE T == {i \in DOMAIN orders : orders[i].type = CollectTx /\ orders[i].src = r}
           S == LiveOrders(orders, r)
           c == Cardinality(S)
<1>1. IsFiniteSet(DOMAIN orders) /\ faults \in Nat
  <2>1. IsFiniteSet(1..Len(orders)) /\ DOMAIN orders = 1..Len(orders)
    BY FS_Interval DEF FInv, CInv, TypeOK
  <2> QED
    BY <2>1, CollectAssumption DEF FInv, CInv, TypeOK
<1>2. T \subseteq S /\ S \subseteq DOMAIN orders
  BY DEF LiveOrders
<1>3. IsFiniteSet(S) /\ c \in Nat
  BY <1>1, <1>2, FS_Subset, FS_CardinalityType
<1>4. IsFiniteSet(T) /\ Cardinality(T) \in Nat /\ Cardinality(T) <= c
  BY <1>2, <1>3, FS_Subset, FS_CardinalityType
<1>5. c <= 2 * faults + (IF IsHandled(r) THEN 1 ELSE 0) + (IF IsFollowed(r) THEN 1 ELSE 0)
  BY DEF FInv, LiveOK
<1>6. ~IsFollowed(r) => Cardinality(T) <= 1 + 2 * faults
  <2> HIDE DEF c, T
  <2> QED
    BY <1>1, <1>3, <1>4, <1>5
<1>7. ASSUME IsFollowed(r) PROVE Cardinality(T) <= 1 + 2 * faults
  <2>1. check \in S /\ check \notin T
    <3>1. check \in DOMAIN orders /\ orders[check].type = GasTx /\ ~orders[check].ended
      BY <1>7, OrdersAreOrders DEF FInv, CInv, FollowOK, IsFollowed
    <3> QED
      BY <1>7, <3>1 DEF LiveOrders, IsFollowed, GasTx, CollectTx
  <2>2. Cardinality(S \ {check}) = c - 1 /\ IsFiniteSet(S \ {check})
    BY <1>3, <2>1, FS_RemoveElement
  <2>3. T \subseteq S \ {check}
    BY <1>2, <2>1
  <2>4. Cardinality(T) <= c - 1
    BY <2>2, <2>3, FS_Subset
  <2> HIDE DEF c, T
  <2> QED
    BY <1>1, <1>3, <1>4, <1>5, <2>4
<1>8. IsFiniteSet(T) /\ Cardinality(T) <= 1 + 2 * faults
  BY <1>4, <1>6, <1>7
<1> QED
  BY <1>8

(* Every gas order that has ended was followed up (checkTx.go:65-107), and *)
(* the orders that move a row's tokens are at most two more for each       *)
(* failure than the one there should be.                                   *)
THEOREM FInvHolds == Spec => []FInv
BY FInvInit, FInvNext, PTL DEF Spec

=============================================================================
