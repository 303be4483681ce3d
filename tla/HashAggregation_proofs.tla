---------------------- MODULE HashAggregation_proofs ------------------------
(***************************************************************************)
(* Proofs about HashAggregation for any rows, any sizes of batches, arrays *)
(* and runs: each row given is in one place until it is handed out, in the *)
(* array, in the map or in one run, and the merge of the runs hands out    *)
(* each key once with all its rows.  h says of each row in which run it is *)
(* (0 is the memory), w what the runs were when they were spilled.         *)
(***************************************************************************)
EXTENDS HashAggregation, Foundations_proofs

-----------------------------------------------------------------------------
(* Groups into which rows are aggregated one after the other.              *)

\* The positions of a sequence.
Own(ks) == [i \in DOMAIN ks |-> i]

\* Aggregated folds over the positions of its sequence, the greatest last.  A step of
\* it, and the function it defines on all subsets of T.
FoldStep(m0, ks, xs, g, T) ==
  IF T = {} THEN m0
  ELSE Aggregate(g[T \ {Max(T)}], ks[Own(ks)[Max(T)]], xs[Own(ks)[Max(T)]])

IsFold(m0, ks, xs, g, T) == g = [t \in SUBSET T |-> FoldStep(m0, ks, xs, g, t)]

\* Aggregated is that fold.
LEMMA AggregatedIs ==
  ASSUME NEW m0, NEW ks, NEW xs
  PROVE  Aggregated(m0, ks, xs) = (CHOOSE g : IsFold(m0, ks, xs, g, DOMAIN ks))[DOMAIN ks]
  BY DEF Aggregated, FoldLeft, MapThenFoldSet, IsFold, FoldStep, Own

\* Two such functions agree where both are defined.
LEMMA OneFold ==
  ASSUME NEW m0, NEW ks, NEW xs, NEW n, NEW T, Upto(n, T), NEW U,
         NEW f, NEW g, IsFold(m0, ks, xs, f, T), IsFold(m0, ks, xs, g, U),
         NEW t \in SUBSET T, t \in SUBSET U
  PROVE  f[t] = g[t]
<1> DEFINE B == {r \in SUBSET t : f[r] # g[r]}
<1> SUFFICES ASSUME B # {} PROVE FALSE
  OBVIOUS
<1>1. IsFiniteSet(t)
  <2>1. IsFiniteSet(1 .. n) /\ t \in SUBSET (1 .. n)
    BY FS_Interval DEF Upto
  <2> QED
    BY <2>1, FS_Subset
<1>2. PICK m \in B : \A r \in B : r \subseteq m => r = m
  <2>1. B \in SUBSET SUBSET t
    OBVIOUS
  <2> HIDE DEF B
  <2> QED
    BY <1>1, <2>1, SmallestSubset
<1>3. f[m] = FoldStep(m0, ks, xs, f, m) /\ g[m] = FoldStep(m0, ks, xs, g, m)
  BY DEF IsFold
<1>4. CASE m = {}
  BY <1>3, <1>4 DEF FoldStep
<1>5. CASE m # {}
  <2>1. Max(m) \in m
    BY <1>5, GreatestOf DEF Upto
  <2>2. f[m \ {Max(m)}] = g[m \ {Max(m)}]
    BY <1>2, <2>1
  <2> QED
    BY <1>3, <1>5, <2>2 DEF FoldStep
<1> QED
  BY <1>4, <1>5

\* There is one for every number of rows.
LEMMA SomeFold ==
  ASSUME NEW m0, NEW ks, NEW xs, NEW n \in Nat PROVE \E g : IsFold(m0, ks, xs, g, 1 .. n)
<1> DEFINE N == 1 .. n
           B == {T \in SUBSET N : ~ \E g : IsFold(m0, ks, xs, g, T)}
           G(T) == CHOOSE g : IsFold(m0, ks, xs, g, T)
<1> SUFFICES ASSUME B # {} PROVE FALSE
  OBVIOUS
<1>1. PICK m \in B : \A r \in B : r \subseteq m => r = m
  <2>1. B \in SUBSET SUBSET N /\ IsFiniteSet(N)
    BY FS_Interval
  <2> HIDE DEF B, N
  <2> QED
    BY <2>1, SmallestSubset
<1> DEFINE rest(t) == t \ {Max(t)}
           val == [t \in SUBSET m |->
                     IF t # m THEN G(t)[t]
                     ELSE IF t = {} THEN m0
                     ELSE Aggregate(G(rest(t))[rest(t)], ks[Own(ks)[Max(t)]], xs[Own(ks)[Max(t)]])]
<1>2. ASSUME NEW t \in SUBSET m, t # m PROVE IsFold(m0, ks, xs, G(t), t)
  BY <1>1, <1>2
<1>3. ASSUME NEW t \in SUBSET m PROVE val[t] = FoldStep(m0, ks, xs, val, t)
  <2>1. CASE t = {}
    <3>1. CASE t # m
      <4>1. val[t] = G(t)[t]
        BY <3>1
      <4>2. IsFold(m0, ks, xs, G(t), t)
        BY <3>1, <1>2
      <4> HIDE DEF G
      <4>3. G(t)[t] = FoldStep(m0, ks, xs, G(t), t)
        BY <4>2 DEF IsFold
      <4> QED
        BY <4>1, <4>3, <2>1 DEF FoldStep
    <3> QED
      BY <3>1, <2>1 DEF FoldStep
  <2>2. CASE t # {}
    <3>0. t \in SUBSET N /\ m \in SUBSET N
      BY <1>1
    <3>1. Max(t) \in t /\ rest(t) \in SUBSET m /\ rest(t) # m /\ rest(t) \in SUBSET t
      BY <2>2, <3>0, GreatestOf
    <3>2. val[rest(t)] = G(rest(t))[rest(t)]
      BY <3>1
    <3>3. CASE t = m
      BY <3>2, <3>3, <2>2 DEF FoldStep
    <3>4. CASE t # m
      <4>1. IsFold(m0, ks, xs, G(t), t) /\ IsFold(m0, ks, xs, G(rest(t)), rest(t))
        BY <3>1, <3>4, <1>2
      <4>2. val[t] = G(t)[t]
        BY <3>4
      <4> HIDE DEF G, rest
      <4>3. G(t)[rest(t)] = G(rest(t))[rest(t)]
        <5> DEFINE r == rest(t)
                   f1 == G(t)
                   f2 == G(r)
        <5>1. IsFold(m0, ks, xs, f1, t) /\ IsFold(m0, ks, xs, f2, r) /\ Upto(n, t)
              /\ r \in SUBSET t /\ r \in SUBSET r
          BY <3>0, <3>1, <4>1 DEF Upto
        <5> HIDE DEF r, f1, f2, N
        <5>2. f1[r] = f2[r]
          BY <5>1, OneFold
        <5> QED
          BY <5>2 DEF r, f1, f2
      <4>4. G(t)[t] = FoldStep(m0, ks, xs, G(t), t)
        BY <4>1 DEF IsFold
      <4> QED
        BY <3>2, <2>2, <4>2, <4>3, <4>4 DEF FoldStep, rest
    <3> QED
      BY <3>3, <3>4
  <2> QED
    BY <2>1, <2>2
<1> HIDE DEF G
<1>4. val = [t \in SUBSET m |-> FoldStep(m0, ks, xs, val, t)]
  <2>1. val = [t \in SUBSET m |-> val[t]]
    OBVIOUS
  <2> HIDE DEF val
  <2> QED
    BY <2>1, <1>3
<1> HIDE DEF val
<1>5. IsFold(m0, ks, xs, val, m)
  BY <1>4 DEF IsFold
<1> QED
  BY <1>1, <1>5

\* f goes through the groups while the rows xs go into them one by one.
Aggregates(m0, ks, xs, f) ==
  /\ DOMAIN f = 0 .. Len(ks) /\ f[0] = m0
  /\ \A i \in 1 .. Len(ks) : f[i] = Aggregate(f[i - 1], ks[i], xs[i])

\* Aggregated takes the rows of a sequence one after the other.
LEMMA AggregatedSteps ==
  ASSUME NEW m0, NEW ks, NEW xs, Len(ks) \in Nat, DOMAIN ks = 1 .. Len(ks)
  PROVE  \E f : Aggregates(m0, ks, xs, f) /\ Aggregated(m0, ks, xs) = f[Len(ks)]
<1> DEFINE n == Len(ks)
           g == CHOOSE g : IsFold(m0, ks, xs, g, DOMAIN ks)
           f == [i \in 0 .. n |-> g[1 .. i]]
<1>1. IsFold(m0, ks, xs, g, 1 .. n) /\ Aggregated(m0, ks, xs) = g[1 .. n]
  BY SomeFold, AggregatedIs
<1> HIDE DEF g
<1>2. n \in Nat
  OBVIOUS
<1> HIDE DEF n
<1>3. ASSUME NEW i \in 0 .. n
      PROVE  g[1 .. i] = FoldStep(m0, ks, xs, g, 1 .. i)
  <2>1. (1 .. i) \in SUBSET (1 .. n)
    BY <1>2
  <2> QED
    BY <1>1, <2>1 DEF IsFold
<1>4. f[0] = m0
  <2>1. 1 .. 0 = {} /\ 0 \in 0 .. n
    BY <1>2
  <2>2. g[1 .. 0] = m0
    BY <1>3, <2>1 DEF FoldStep
  <2> QED
    BY <2>1, <2>2
<1>5. ASSUME NEW i \in 1 .. n PROVE f[i] = Aggregate(f[i - 1], ks[i], xs[i])
  <2>1. (1 .. i) \in SUBSET (1 .. n) /\ i \in 1 .. i /\ i \in 0 .. n /\ i - 1 \in 0 .. n
    <3>1. i \in Nat /\ i >= 1 /\ i <= n
      BY <1>2
    <3>2. \A k \in 1 .. i : k \in 1 .. n
      BY <1>2
    <3> QED
      BY <1>2, <3>1, <3>2
  <2>2. Max(1 .. i) = i
    <3>1. Max(1 .. i) \in 1 .. i /\ i <= Max(1 .. i)
      BY <1>2, <2>1, GreatestOf
    <3> QED
      BY <1>2, <3>1
  <2>3. (1 .. i) \ {i} = 1 .. (i - 1)
    BY <1>2
  <2>4. g[1 .. i] = Aggregate(g[1 .. (i - 1)], ks[i], xs[i])
    <3>1. Own(ks)[i] = i /\ 1 .. i # {} /\ i \in 0 .. n
      BY <2>1 DEF Own, n
    <3> QED
      BY <1>3, <2>2, <2>3, <3>1 DEF FoldStep
  <2> QED
    BY <2>1, <2>4
<1>6. f[n] = g[1 .. n] /\ DOMAIN f = 0 .. n
  BY <1>2
<1> HIDE DEF f
<1>7. Aggregates(m0, ks, xs, f)
  BY <1>4, <1>5, <1>6 DEF Aggregates, n
<1> QED
  BY <1>1, <1>6, <1>7 DEF n

\* It depends on the rows and their groups only.
LEMMA SameSteps ==
  ASSUME NEW m0, NEW ks, NEW xs, NEW f, Aggregates(m0, ks, xs, f), Len(ks) \in Nat,
         NEW ls, NEW ys, NEW g, Aggregates(m0, ls, ys, g), Len(ls) \in Nat,
         NEW n \in Nat, n <= Len(ks), n <= Len(ls),
         \A i \in 1 .. n : ks[i] = ls[i] /\ xs[i] = ys[i],
         NEW i \in 0 .. n
  PROVE  f[i] = g[i]
<1> DEFINE B == {j \in 0 .. n : f[j] # g[j]}
<1> SUFFICES ASSUME B # {} PROVE FALSE
  OBVIOUS
<1>1. PICK j \in B : \A k \in B : j <= k
  <2>1. B \in SUBSET Nat
    OBVIOUS
  <2> HIDE DEF B
  <2> QED
    BY <2>1, LeastNatural
<1>2. j \in 0 .. n /\ f[j] # g[j]
  BY <1>1
<1>3. j # 0
  BY <1>2 DEF Aggregates
<1>4. j \in 1 .. n /\ j \in 1 .. Len(ks) /\ j \in 1 .. Len(ls) /\ j - 1 \in 0 .. n
  BY <1>2, <1>3
<1>5. f[j - 1] = g[j - 1]
  <2>1. j - 1 \notin B
    BY <1>1, <1>4
  <2> QED
    BY <1>4, <2>1
<1>6. f[j] = Aggregate(f[j - 1], ks[j], xs[j]) /\ g[j] = Aggregate(g[j - 1], ls[j], ys[j])
  BY <1>4 DEF Aggregates
<1>7. ks[j] = ls[j] /\ xs[j] = ys[j]
  BY <1>4
<1> HIDE DEF B
<1> QED
  BY <1>2, <1>5, <1>6, <1>7

IsIndexed(ks) == Len(ks) \in Nat /\ DOMAIN ks = 1 .. Len(ks)

\* Nothing to aggregate.
LEMMA AggregatedNone ==
  ASSUME NEW m0, NEW ks, NEW xs, IsIndexed(ks), Len(ks) = 0
  PROVE  Aggregated(m0, ks, xs) = m0
<1>1. PICK f : Aggregates(m0, ks, xs, f) /\ Aggregated(m0, ks, xs) = f[Len(ks)]
  BY AggregatedSteps DEF IsIndexed
<1> QED
  BY <1>1 DEF Aggregates

\* The same rows into the same groups.
LEMMA AggregatedSame ==
  ASSUME NEW m0, NEW ks, NEW xs, NEW ls, NEW ys, IsIndexed(ks), IsIndexed(ls), Len(ks) = Len(ls),
         \A i \in 1 .. Len(ks) : ks[i] = ls[i] /\ xs[i] = ys[i]
  PROVE  Aggregated(m0, ks, xs) = Aggregated(m0, ls, ys)
<1>1. PICK f : Aggregates(m0, ks, xs, f) /\ Aggregated(m0, ks, xs) = f[Len(ks)]
  BY AggregatedSteps DEF IsIndexed
<1>2. PICK g : Aggregates(m0, ls, ys, g) /\ Aggregated(m0, ls, ys) = g[Len(ls)]
  BY AggregatedSteps DEF IsIndexed
<1> DEFINE n == Len(ks)
<1>3. n \in Nat /\ n <= Len(ks) /\ n <= Len(ls) /\ Len(ls) = n /\ n \in 0 .. n
      /\ Len(ks) \in Nat /\ Len(ls) \in Nat
  BY DEF IsIndexed
<1>4. \A i \in 1 .. n : ks[i] = ls[i] /\ xs[i] = ys[i]
  OBVIOUS
<1>5. Aggregated(m0, ks, xs) = f[n]
  BY <1>1
<1> HIDE DEF n
<1>6. f[n] = g[n]
  BY <1>1, <1>2, <1>3, <1>4, SameSteps
<1> QED
  BY <1>2, <1>3, <1>5, <1>6

\* One more.
LEMMA AggregatedMore ==
  ASSUME NEW m0, NEW ks, NEW xs, NEW ls, NEW ys, IsIndexed(ks), IsIndexed(ls),
         NEW n, n = Len(ks), Len(ls) = n + 1,
         \A i \in 1 .. n : ks[i] = ls[i] /\ xs[i] = ys[i]
  PROVE  Aggregated(m0, ls, ys) = Aggregate(Aggregated(m0, ks, xs), ls[n + 1], ys[n + 1])
<1>1. PICK f : Aggregates(m0, ks, xs, f) /\ Aggregated(m0, ks, xs) = f[Len(ks)]
  BY AggregatedSteps DEF IsIndexed
<1>2. PICK g : Aggregates(m0, ls, ys, g) /\ Aggregated(m0, ls, ys) = g[Len(ls)]
  BY AggregatedSteps DEF IsIndexed
<1>3. n \in Nat /\ n <= Len(ks) /\ n <= Len(ls) /\ n \in 0 .. n /\ n + 1 \in 1 .. Len(ls)
      /\ (n + 1) - 1 = n /\ Len(ks) \in Nat /\ Len(ls) \in Nat
  BY DEF IsIndexed
<1>4. f[n] = g[n]
  BY <1>1, <1>2, <1>3, SameSteps
<1>5. g[n + 1] = Aggregate(g[(n + 1) - 1], ls[n + 1], ys[n + 1])
  BY <1>2, <1>3 DEF Aggregates
<1> QED
  BY <1>1, <1>2, <1>3, <1>4, <1>5

\* What has a place in the groups m0 is aggregated there.
LEMMA AggregatedDomain ==
  ASSUME NEW m0, NEW ks, NEW xs, IsIndexed(ks), \A i \in 1 .. Len(ks) : ks[i] \in DOMAIN m0
  PROVE  DOMAIN Aggregated(m0, ks, xs) = DOMAIN m0
<1>1. PICK f : Aggregates(m0, ks, xs, f) /\ Aggregated(m0, ks, xs) = f[Len(ks)]
  BY AggregatedSteps DEF IsIndexed
<1> DEFINE n == Len(ks)
           B == {j \in 0 .. n : DOMAIN f[j] # DOMAIN m0}
<1>2. n \in Nat
  BY DEF IsIndexed
<1> SUFFICES ASSUME B # {} PROVE FALSE
  BY <1>1, <1>2
<1>3. PICK j \in B : \A k \in B : j <= k
  <2>1. B \in SUBSET Nat
    OBVIOUS
  <2> HIDE DEF B
  <2> QED
    BY <2>1, LeastNatural
<1>4. j # 0
  BY <1>1, <1>3 DEF Aggregates
<1>5. j \in 1 .. n /\ j - 1 \in 0 .. n
  BY <1>2, <1>3, <1>4
<1>6. DOMAIN f[j - 1] = DOMAIN m0
  <2>1. j - 1 \notin B
    BY <1>3, <1>5
  <2> QED
    BY <1>5, <2>1
<1>7. f[j] = Aggregate(f[j - 1], ks[j], xs[j]) /\ ks[j] \in DOMAIN m0
  BY <1>1, <1>5 DEF Aggregates
<1>8. DOMAIN f[j] = DOMAIN m0
  BY <1>6, <1>7 DEF Aggregate
<1> QED
  BY <1>3, <1>8

\* An empty group beside them stays empty.
LEMMA AggregatedBeside ==
  ASSUME NEW m0, NEW ks, NEW xs, IsIndexed(ks), \A i \in 1 .. Len(ks) : ks[i] \in DOMAIN m0,
         NEW k, k \notin DOMAIN m0, NEW x
  PROVE  Aggregated(Aggregate(m0, k, x), ks, xs) = Aggregate(Aggregated(m0, ks, xs), k, x)
<1> DEFINE a0 == Aggregate(m0, k, x)
<1>1. PICK f : Aggregates(m0, ks, xs, f) /\ Aggregated(m0, ks, xs) = f[Len(ks)]
  BY AggregatedSteps DEF IsIndexed
<1>2. PICK g : Aggregates(a0, ks, xs, g) /\ Aggregated(a0, ks, xs) = g[Len(ks)]
  <2> HIDE DEF a0
  <2> QED
    BY AggregatedSteps DEF IsIndexed
<1> DEFINE n == Len(ks)
           Good(j) == DOMAIN f[j] = DOMAIN m0 /\ g[j] = Aggregate(f[j], k, x)
           B == {j \in 0 .. n : ~Good(j)}
<1>3. n \in Nat
  BY DEF IsIndexed
<1> SUFFICES ASSUME B # {} PROVE FALSE
  <2>1. n \notin B => Good(n)
    BY <1>3
  <2> QED
    BY <1>1, <1>2, <2>1
<1>4. PICK j \in B : \A l \in B : j <= l
  <2>1. B \in SUBSET Nat
    OBVIOUS
  <2> HIDE DEF B
  <2> QED
    BY <2>1, LeastNatural
<1>5. j # 0
  BY <1>1, <1>2, <1>4 DEF Aggregates
<1>6. j \in 1 .. n /\ j - 1 \in 0 .. n
  BY <1>3, <1>4, <1>5
<1>7. DOMAIN f[j - 1] = DOMAIN m0 /\ g[j - 1] = Aggregate(f[j - 1], k, x)
  <2>1. j - 1 \notin B
    BY <1>4, <1>6
  <2> QED
    BY <1>6, <2>1
<1>8. /\ f[j] = Aggregate(f[j - 1], ks[j], xs[j]) /\ ks[j] \in DOMAIN m0
      /\ g[j] = Aggregate(g[j - 1], ks[j], xs[j])
  BY <1>1, <1>2, <1>6 DEF Aggregates
<1>9. Good(j)
  <2> DEFINE c == f[j - 1]
             l == ks[j]
             y == xs[j]
  <2>1. k \notin DOMAIN c /\ l \in DOMAIN c /\ k # l
    BY <1>7, <1>8
  <2>2. DOMAIN Aggregate(c, l, y) = DOMAIN c
    BY <2>1 DEF Aggregate
  <2> HIDE DEF c, l, y
  <2>3. Aggregate(Aggregate(c, k, x), l, y) = Aggregate(Aggregate(c, l, y), k, x)
    BY <2>1 DEF Aggregate
  <2> QED
    BY <1>7, <1>8, <2>2, <2>3 DEF c, l, y
<1> QED
  BY <1>4, <1>9

-----------------------------------------------------------------------------
(* The rows of a group.                                                    *)

OneToOne(s) == \A i, j \in 1 .. Len(s) : i # j => s[i] # s[j]

\* s has the rows T, each once.
IsRows(s, T) == s \in Seq(Nat) /\ OneToOne(s) /\ ToSet(s) = T

\* A group without rows, and with one.
LEMMA FewRows ==
  ASSUME NEW x \in Nat
  PROVE  IsRows(<<>>, {}) /\ IsRows(<<x>>, {x})
<1>1. IsRows(<<>>, {})
  BY DEF IsRows, OneToOne, ToSet
<1>2. IsRows(<<x>>, {x})
  <2>1. <<x>> \in Seq(Nat) /\ Len(<<x>>) = 1 /\ DOMAIN <<x>> = {1} /\ <<x>>[1] = x
    OBVIOUS
  <2>2. ToSet(<<x>>) = {x}
    BY <2>1 DEF ToSet
  <2>3. OneToOne(<<x>>)
    BY <2>1 DEF OneToOne
  <2> QED
    BY <2>1, <2>2, <2>3 DEF IsRows
<1> QED
  BY <1>1, <1>2

\* Rows are joined by concatenation.
LEMMA RowsJoin ==
  ASSUME NEW s, NEW S, IsRows(s, S), NEW t, NEW T, IsRows(t, T), S \cap T = {}
  PROVE  IsRows(s \o t, S \cup T)
<1> DEFINE r == s \o t
           m == Len(s)
           n == Len(t)
<1>1. /\ s \in Seq(Nat) /\ t \in Seq(Nat) /\ m \in Nat /\ n \in Nat
      /\ \A i, j \in 1 .. m : i # j => s[i] # s[j]
      /\ \A i, j \in 1 .. n : i # j => t[i] # t[j]
      /\ S = {s[i] : i \in 1 .. m} /\ T = {t[i] : i \in 1 .. n}
  BY DEF IsRows, OneToOne, ToSet
<1>2. r \in Seq(Nat) /\ Len(r) = m + n /\ DOMAIN r = 1 .. m + n
      /\ \A i \in 1 .. m + n : r[i] = IF i <= m THEN s[i] ELSE t[i - m]
  BY <1>1
<1> HIDE DEF r, m, n
<1>3. \A i \in 1 .. m + n : i \in 1 .. m \/ (~(i <= m) /\ i - m \in 1 .. n)
  BY <1>1
<1>4. ASSUME NEW i \in 1 .. m + n, NEW j \in 1 .. m + n, i # j PROVE r[i] # r[j]
  <2>1. CASE i \in 1 .. m /\ j \in 1 .. m
    <3>1. r[i] = s[i] /\ r[j] = s[j]
      BY <1>1, <1>2, <2>1
    <3> QED
      BY <1>1, <1>4, <2>1, <3>1
  <2>2. CASE i \in 1 .. m /\ ~(j <= m)
    <3>1. r[i] = s[i] /\ r[j] = t[j - m] /\ j - m \in 1 .. n
      BY <1>2, <1>3, <2>2
    <3>2. r[i] \in S /\ r[j] \in T
      BY <1>1, <2>2, <3>1
    <3> QED
      BY <3>2
  <2>3. CASE ~(i <= m) /\ j \in 1 .. m
    <3>1. r[j] = s[j] /\ r[i] = t[i - m] /\ i - m \in 1 .. n
      BY <1>2, <1>3, <2>3
    <3>2. r[j] \in S /\ r[i] \in T
      BY <1>1, <2>3, <3>1
    <3> QED
      BY <3>2
  <2>4. CASE ~(i <= m) /\ ~(j <= m)
    <3>1. r[j] = t[j - m] /\ r[i] = t[i - m] /\ i - m \in 1 .. n /\ j - m \in 1 .. n
      BY <1>2, <1>3, <2>4
    <3>2. i - m # j - m
      BY <1>1, <1>4
    <3> QED
      BY <1>1, <3>1, <3>2
  <2> QED
    BY <1>3, <2>1, <2>2, <2>3, <2>4
<1>5. ToSet(r) = S \cup T
  <2>1. ToSet(r) = {r[i] : i \in 1 .. m + n}
    BY <1>1, <1>2 DEF ToSet
  <2>2. \A i \in 1 .. m + n : r[i] \in S \cup T
    <3> SUFFICES ASSUME NEW i \in 1 .. m + n PROVE r[i] \in S \cup T
      OBVIOUS
    <3>1. CASE i \in 1 .. m
      <4>1. r[i] = s[i]
        BY <1>1, <1>2, <3>1
      <4> QED
        BY <1>1, <3>1, <4>1
    <3>2. CASE ~(i <= m) /\ i - m \in 1 .. n
      <4>1. r[i] = t[i - m]
        BY <1>2, <3>2
      <4> QED
        BY <1>1, <3>2, <4>1
    <3> QED
      BY <1>3, <3>1, <3>2
  <2>3. \A i \in 1 .. m : i \in 1 .. m + n /\ r[i] = s[i]
    BY <1>1, <1>2
  <2>4. \A i \in 1 .. n : m + i \in 1 .. m + n /\ r[m + i] = t[i]
    <3> SUFFICES ASSUME NEW i \in 1 .. n PROVE m + i \in 1 .. m + n /\ r[m + i] = t[i]
      OBVIOUS
    <3>1. m + i \in 1 .. m + n /\ ~(m + i <= m) /\ (m + i) - m = i
      BY <1>1
    <3> QED
      BY <1>2, <3>1
  <2>5. \A x \in S : x \in ToSet(r)
    BY <1>1, <2>1, <2>3
  <2>6. \A x \in T : x \in ToSet(r)
    BY <1>1, <2>1, <2>4, ZenonT(60)
  <2>7. \A x \in ToSet(r) : x \in S \cup T
    BY <2>1, <2>2
  <2> QED
    BY <2>5, <2>6, <2>7
<1>6. IsRows(r, S \cup T)
  BY <1>1, <1>2, <1>4, <1>5 DEF IsRows, OneToOne
<1> QED
  BY <1>6 DEF r

\* The groups m have the rows S, each once and in the group of[x].
Holds(m, S, of) ==
  /\ \A k \in DOMAIN m : IsRows(m[k], {x \in S : of[x] = k})
  /\ \A x \in S : of[x] \in DOMAIN m

AllIn(T, of, k) == \A x \in T : of[x] = k

HoldsAlso(m, S, T, of, k, new) == Holds(new, S \cup T, of) /\ DOMAIN new = DOMAIN m \cup {k}

\* Rows that are aggregated into one group.
LEMMA HoldsMore ==
  ASSUME NEW m, NEW S, NEW of, Holds(m, S, of), NEW r, NEW T, IsRows(r, T), S \cap T = {},
         NEW k, AllIn(T, of, k)
  PROVE  HoldsAlso(m, S, T, of, k, Aggregate(m, k, r))
<1> DEFINE a == Aggregate(m, k, r)
           Of(j) == {x \in S : of[x] = j}
<1>1. /\ DOMAIN a = DOMAIN m \cup {k}
      /\ \A j \in DOMAIN m \cup {k} :
           a[j] = IF j # k THEN m[j] ELSE IF k \in DOMAIN m THEN m[k] \o r ELSE r
  BY DEF Aggregate
<1> HIDE DEF a
<1>2. ASSUME NEW j \in DOMAIN a PROVE IsRows(a[j], {x \in S \cup T : of[x] = j})
  <2>1. CASE j # k
    <3>1. {x \in S \cup T : of[x] = j} = {x \in S : of[x] = j} /\ j \in DOMAIN m /\ a[j] = m[j]
      BY <1>1, <2>1 DEF AllIn
    <3> QED
      BY <3>1 DEF Holds
  <2>2. CASE j = k /\ k \in DOMAIN m
    <3>1. IsRows(m[k], Of(k)) /\ Of(k) \cap T = {} /\ a[k] = m[k] \o r
      BY <1>1, <2>2 DEF Holds
    <3>2. {x \in S \cup T : of[x] = k} = Of(k) \cup T
      BY DEF AllIn
    <3> HIDE DEF Of
    <3>3. IsRows(m[k] \o r, Of(k) \cup T)
      BY <3>1, RowsJoin
    <3> QED
      BY <2>2, <3>1, <3>2, <3>3
  <2>3. CASE j = k /\ k \notin DOMAIN m
    <3>1. {x \in S \cup T : of[x] = k} = T /\ a[k] = r
      BY <1>1, <2>3 DEF Holds, AllIn
    <3> QED
      BY <2>3, <3>1
  <2> QED
    BY <2>1, <2>2, <2>3
<1>3. \A x \in S \cup T : of[x] \in DOMAIN a
  BY <1>1 DEF Holds, AllIn
<1>4. Holds(a, S \cup T, of)
  BY <1>2, <1>3 DEF Holds
<1> QED
  BY <1>1, <1>4 DEF a, HoldsAlso

\* The rows counted of n ones after so many others.
NewIds(first, n) == IF HasAgg THEN first + 1 .. first + n ELSE {}

Emplaces(m, S, ks, first, of, new) ==
  /\ Holds(new, S \cup NewIds(first, Len(ks)), of)
  /\ DOMAIN new = DOMAIN m \cup {ks[i] : i \in 1 .. Len(ks)}

\* The rows of a batch go into their groups.
LEMMA EmplacedHolds ==
  ASSUME NEW m, NEW S, NEW of, Holds(m, S, of), NEW ks, IsIndexed(ks), NEW xs, NEW first \in Nat,
         \A i \in 1 .. Len(ks) : xs[i] = StateOf(<<first + i>>),
         \A i \in 1 .. Len(ks) : first + i \notin S /\ of[first + i] = ks[i]
  PROVE  Emplaces(m, S, ks, first, of, Aggregated(m, ks, xs))
<1> DEFINE n == Len(ks)
<1>1. PICK f : Aggregates(m, ks, xs, f) /\ Aggregated(m, ks, xs) = f[Len(ks)]
  BY AggregatedSteps DEF IsIndexed
<1> DEFINE Good(j) == /\ Holds(f[j], S \cup NewIds(first, j), of)
                      /\ DOMAIN f[j] = DOMAIN m \cup {ks[i] : i \in 1 .. j}
           B == {j \in 0 .. n : ~Good(j)}
<1>2. n \in Nat
  BY DEF IsIndexed
<1> HIDE DEF Good
<1> SUFFICES ASSUME B # {} PROVE FALSE
  <2>1. Good(n)
    <3>1. n \in 0 .. n
      BY <1>2
    <3> QED
      BY <3>1
  <2> QED
    BY <1>1, <2>1 DEF Emplaces, Good
<1>3. PICK j \in B : \A k \in B : j <= k
  <2>1. B \in SUBSET Nat
    OBVIOUS
  <2> HIDE DEF B
  <2> QED
    BY <2>1, LeastNatural
<1>4. j # 0
  <2>1. NewIds(first, 0) = {} /\ 1 .. 0 = {}
    BY DEF NewIds
  <2>2. f[0] = m
    BY <1>1 DEF Aggregates
  <2>3. S \cup NewIds(first, 0) = S /\ {ks[i] : i \in 1 .. 0} = {}
    BY <2>1
  <2>4. Good(0)
    BY <2>2, <2>3 DEF Good
  <2> QED
    BY <1>3, <2>4
<1>5. j \in 1 .. n /\ j - 1 \in 0 .. n /\ j \in Nat
  BY <1>2, <1>3, <1>4
<1>6. Good(j - 1)
  <2>1. j - 1 \notin B
    BY <1>3, <1>5
  <2> QED
    BY <1>5, <2>1
<1>7. f[j] = Aggregate(f[j - 1], ks[j], xs[j])
  BY <1>1, <1>5 DEF Aggregates
<1> DEFINE T == IF HasAgg THEN {first + j} ELSE {}
           P == S \cup NewIds(first, j - 1)
<1>8. IsRows(xs[j], T)
  <2>1. first + j \in Nat /\ xs[j] = StateOf(<<first + j>>)
    BY <1>5
  <2> QED
    BY <2>1, FewRows DEF StateOf
<1>9. P \cap T = {} /\ P \cup T = S \cup NewIds(first, j) /\ \A x \in T : of[x] = ks[j]
  <2>1. first + j \notin NewIds(first, j - 1)
    BY <1>5 DEF NewIds
  <2>2. NewIds(first, j - 1) \cup T = NewIds(first, j)
    <3>1. first + 1 .. first + j = (first + 1 .. first + (j - 1)) \cup {first + j}
      <4>1. \A x \in Int : x \in first + 1 .. first + j <=> x \in first + 1 .. first + (j - 1) \/ x = first + j
        BY <1>5
      <4>2. first + j \in Int
        BY <1>5
      <4> QED
        BY <4>1, <4>2
    <3> QED
      BY <3>1 DEF NewIds
  <2>3. T \subseteq {first + j}
    OBVIOUS
  <2>4. P \cap T = {}
    BY <1>5, <2>1, <2>3
  <2>5. P \cup T = S \cup NewIds(first, j)
    BY <2>2
  <2> QED
    BY <1>5, <2>3, <2>4, <2>5
<1>10. {ks[i] : i \in 1 .. j} = {ks[i] : i \in 1 .. (j - 1)} \cup {ks[j]}
  <2>1. \A i \in Int : i \in 1 .. j <=> i \in 1 .. (j - 1) \/ i = j
    BY <1>5
  <2> QED
    BY <2>1
<1> HIDE DEF T, P, B, n
<1>11. Holds(f[j - 1], P, of)
  BY <1>6 DEF P, Good
<1> DEFINE g == f[j - 1]
           k == ks[j]
           r == xs[j]
<1>12. HoldsAlso(g, P, T, of, k, Aggregate(g, k, r))
  <2>1. Holds(g, P, of) /\ IsRows(r, T) /\ P \cap T = {} /\ AllIn(T, of, k)
    BY <1>8, <1>9, <1>11 DEF AllIn
  <2> HIDE DEF g, k, r
  <2> QED
    BY <2>1, HoldsMore
<1>13. Good(j)
  BY <1>6, <1>7, <1>9, <1>10, <1>12 DEF Good, HoldsAlso
<1> QED
  BY <1>3, <1>13 DEF B

-----------------------------------------------------------------------------
(* Groups in another place, and one after the other.                       *)

\* new has the groups of m, that at i now at place[i].
Moves(m, place, new) ==
  /\ \A i \in DOMAIN m : place[i] \in DOMAIN new
  /\ \A j \in DOMAIN new : \E i \in DOMAIN m : place[i] = j /\ new[j] = m[i]
  /\ \A i, j \in DOMAIN m : place[i] = place[j] => i = j

\* They keep their rows.
LEMMA MovedHolds ==
  ASSUME NEW m, NEW S, NEW of, Holds(m, S, of), NEW place, NEW new, Moves(m, place, new),
         NEW of2, \A x \in S : of2[x] = place[of[x]]
  PROVE  Holds(new, S, of2)
<1>1. ASSUME NEW j \in DOMAIN new PROVE IsRows(new[j], {x \in S : of2[x] = j})
  <2>1. PICK i \in DOMAIN m : place[i] = j /\ new[j] = m[i]
    BY DEF Moves
  <2>2. ASSUME NEW x \in S PROVE of2[x] = j <=> of[x] = i
    <3>1. of[x] \in DOMAIN m /\ of2[x] = place[of[x]]
      BY DEF Holds
    <3>2. place[of[x]] = place[i] => of[x] = i
      BY <3>1 DEF Moves
    <3> QED
      BY <2>1, <3>1, <3>2
  <2>3. {x \in S : of2[x] = j} = {x \in S : of[x] = i}
    BY <2>2
  <2> QED
    BY <2>1, <2>3 DEF Holds
<1>2. \A x \in S : of2[x] \in DOMAIN new
  BY DEF Holds, Moves
<1> QED
  BY <1>1, <1>2 DEF Holds

\* s has each element of S once.
IsListing(S, s) == s \in Seq(S) /\ OneToOne(s) /\ \A x \in S : \E i \in 1 .. Len(s) : s[i] = x

\* As many numbers as elements list them all.
LEMMA ListsAll ==
  ASSUME NEW S, IsFiniteSet(S), NEW n, n = Cardinality(S), NEW s \in [1 .. n -> S],
         \A i, j \in 1 .. n : i # j => s[i] # s[j]
  PROVE  IsListing(S, s) /\ Len(s) = n
<1>1. n \in Nat
  BY FS_CardinalityType
<1>2. IsFiniteSet(1 .. n) /\ Cardinality(1 .. n) = n
  BY <1>1, FS_Interval
<1>3. s \in Injection(1 .. n, S)
  BY DEF Injection, IsInjective
<1>4. s \in Surjection(1 .. n, S)
  BY <1>2, <1>3, FS_Injection
<1>5. s \in Seq(S) /\ Len(s) = n
  BY <1>1
<1> QED
  BY <1>4, <1>5 DEF IsListing, OneToOne, Surjection

\* SetToSeq lists a set.
LEMMA SetToSeqLists ==
  ASSUME NEW S, IsFiniteSet(S)
  PROVE  IsListing(S, SetToSeq(S)) /\ Len(SetToSeq(S)) = Cardinality(S)
<1> DEFINE n == Cardinality(S)
           s == SetToSeq(S)
<1>1. \E f \in [1 .. n -> S] : IsInjective(f)
  <2>1. PICK f : f \in Bijection(1 .. n, S)
    BY FS_CardinalityType DEF ExistsBijection
  <2> QED
    BY <2>1 DEF Bijection, Injection
<1>2. s \in [1 .. n -> S] /\ IsInjective(s)
  <2>1. s = CHOOSE f \in [1 .. n -> S] : IsInjective(f)
    BY DEF SetToSeq
  <2> HIDE DEF s, n
  <2> QED
    BY <1>1, <2>1
<1>3. n = Cardinality(S)
  OBVIOUS
<1> HIDE DEF s, n
<1>4. \A i, j \in 1 .. n : i # j => s[i] # s[j]
  BY <1>2 DEF IsInjective
<1>5. IsListing(S, s) /\ Len(s) = n
  BY <1>2, <1>3, <1>4, ListsAll
<1> QED
  BY <1>5 DEF s, n

\* The elements of S with a lesser rank.
Lesser(S, rank, x) == {y \in S : rank[y] < rank[x]}

\* More rank, more of them.
LEMMA LesserRanks ==
  ASSUME NEW S, IsFiniteSet(S), NEW rank \in [S -> Int], NEW a \in S, NEW b \in S, rank[a] < rank[b]
  PROVE  Cardinality(Lesser(S, rank, a)) < Cardinality(Lesser(S, rank, b))
<1> DEFINE A == Lesser(S, rank, a)
           B == Lesser(S, rank, b)
<1>1. IsFiniteSet(B)
  BY FS_Subset DEF Lesser
<1>2. A \in SUBSET B
  BY DEF Lesser
<1>3. a \in B /\ a \notin A
  BY DEF Lesser
<1> HIDE DEF A, B
<1>4. /\ IsFiniteSet(A) /\ Cardinality(A) <= Cardinality(B)
      /\ Cardinality(A) # Cardinality(B)
  BY <1>1, <1>2, <1>3, FS_Subset
<1>5. Cardinality(A) \in Nat /\ Cardinality(B) \in Nat
  BY <1>1, <1>4, FS_CardinalityType
<1>6. Cardinality(A) < Cardinality(B)
  BY <1>4, <1>5
<1> QED
  BY <1>6 DEF A, B

\* Each rank its own.
HasRanks(S, rank) == rank \in [S -> Int] /\ \A a, b \in S : a # b => rank[a] # rank[b]

\* Every place from 0 on is some element's.
LEMMA EveryRank ==
  ASSUME NEW S, IsFiniteSet(S), NEW rank, HasRanks(S, rank), NEW n, Cardinality(S) = n,
         NEW i \in 1 .. n
  PROVE  \E x \in S : Cardinality(Lesser(S, rank, x)) = i - 1
<1> DEFINE f == [r \in S |-> Cardinality(Lesser(S, rank, r)) + 1]
<1>0. n \in Nat /\ rank \in [S -> Int]
  BY FS_CardinalityType DEF HasRanks
<1>1. ASSUME NEW r \in S PROVE Cardinality(Lesser(S, rank, r)) \in 0 .. n - 1
  <2>1. /\ IsFiniteSet(Lesser(S, rank, r)) /\ Cardinality(Lesser(S, rank, r)) <= n
        /\ Cardinality(Lesser(S, rank, r)) # n
    <3>1. Lesser(S, rank, r) \in SUBSET S /\ r \notin Lesser(S, rank, r)
      BY <1>0 DEF Lesser
    <3> QED
      BY <3>1, FS_Subset
  <2>2. Cardinality(Lesser(S, rank, r)) \in Nat
    BY <2>1, FS_CardinalityType
  <2> QED
    BY <1>0, <2>1, <2>2
<1>2. ASSUME NEW a \in S, NEW b \in S, a # b PROVE f[a] # f[b]
  <2>1. rank[a] < rank[b] \/ rank[b] < rank[a]
    BY <1>2 DEF HasRanks
  <2>2. Cardinality(Lesser(S, rank, a)) < Cardinality(Lesser(S, rank, b))
        \/ Cardinality(Lesser(S, rank, b)) < Cardinality(Lesser(S, rank, a))
    BY <1>0, <2>1, LesserRanks
  <2>3. Cardinality(Lesser(S, rank, a)) \in Nat /\ Cardinality(Lesser(S, rank, b)) \in Nat
    BY <1>1
  <2> QED
    BY <2>2, <2>3
<1>3. f \in [S -> 1 .. n]
  <2>1. \A r \in S : Cardinality(Lesser(S, rank, r)) + 1 \in 1 .. n
    BY <1>0, <1>1
  <2> QED
    BY <2>1
<1> HIDE DEF f
<1>4. f \in Injection(S, 1 .. n)
  BY <1>2, <1>3 DEF Injection, IsInjective
<1>5. IsFiniteSet(1 .. n) /\ Cardinality(1 .. n) = n
  BY <1>0, FS_Interval
<1>6. f \in Surjection(S, 1 .. n)
  BY <1>4, <1>5, FS_Injection
<1>7. PICK r \in S : f[r] = i
  BY <1>6 DEF Surjection
<1>8. Cardinality(Lesser(S, rank, r)) + 1 = i /\ Cardinality(Lesser(S, rank, r)) \in Nat
  BY <1>1, <1>7 DEF f
<1> QED
  BY <1>8

IsOrder(S, rank, s) ==
  /\ IsListing(S, s) /\ Len(s) = Cardinality(S)
  /\ \A i, j \in 1 .. Len(s) : i < j => rank[s[i]] < rank[s[j]]

\* InOrder lists a set, the ranks ascending.
LEMMA InOrderOrders ==
  ASSUME NEW S, IsFiniteSet(S), NEW rank, HasRanks(S, rank)
  PROVE  IsOrder(S, rank, InOrder(S, rank))
<1> DEFINE n == Cardinality(S)
           t == InOrder(S, rank)
<1>1. n \in Nat /\ n = Cardinality(S)
  BY FS_CardinalityType
<1>2. t = [i \in 1 .. n |-> CHOOSE x \in S : Cardinality(Lesser(S, rank, x)) = i - 1]
  BY DEF InOrder, Lesser
<1> HIDE DEF n, t
<1>3. ASSUME NEW i \in 1 .. n PROVE t[i] \in S /\ Cardinality(Lesser(S, rank, t[i])) = i - 1
  <2>1. \E x \in S : Cardinality(Lesser(S, rank, x)) = i - 1
    BY <1>1, EveryRank
  <2> QED
    BY <1>2, <2>1
<1>4. t \in [1 .. n -> S]
  BY <1>2, <1>3
<1>5. \A i, j \in 1 .. n : i # j => t[i] # t[j]
  <2> SUFFICES ASSUME NEW i \in 1 .. n, NEW j \in 1 .. n, i # j, t[i] = t[j] PROVE FALSE
    OBVIOUS
  <2>1. i - 1 = j - 1
    BY <1>3
  <2> QED
    BY <2>1
<1>6. IsListing(S, t) /\ Len(t) = n
  BY <1>1, <1>4, <1>5, ListsAll
<1>7. ASSUME NEW i \in 1 .. n, NEW j \in 1 .. n, i < j PROVE rank[t[i]] < rank[t[j]]
  <2> DEFINE a == t[i]
             b == t[j]
  <2>1. a \in S /\ b \in S /\ Cardinality(Lesser(S, rank, a)) = i - 1 /\ Cardinality(Lesser(S, rank, b)) = j - 1
        /\ a # b
    BY <1>3, <1>5, <1>7
  <2> HIDE DEF a, b
  <2>2. rank \in [S -> Int] /\ rank[a] # rank[b]
    BY <2>1 DEF HasRanks
  <2>3. ~ (rank[b] < rank[a])
    <3>1. rank[b] < rank[a] => j - 1 < i - 1
      BY <2>1, <2>2, LesserRanks
    <3> QED
      BY <1>7, <3>1
  <2>4. rank[a] < rank[b]
    BY <2>1, <2>2, <2>3
  <2> QED
    BY <2>4 DEF a, b
<1>8. IsOrder(S, rank, t)
  BY <1>1, <1>6, <1>7 DEF IsOrder
<1> QED
  BY <1>8 DEF t

-----------------------------------------------------------------------------
(* The invariant.                                                          *)

Row == [key : Keys, id : Nat]

Numbered == given \in Seq(Row) /\ \A i \in 1 .. Len(given) : given[i].id = i

\* The key of each row, by its number, and all keys.
KeyAt     == [x \in 1 .. Len(given) |-> given[x].key]
KeysGiven == {given[x].key : x \in 1 .. Len(given)}

\* Of n rows those counted in run j; 0 stands for the memory.
CountedOf(n, h, j) == {x \in 1 .. n : HasAgg /\ h[x] = j}

RunRow == [key : Nat, group : Keys, rows : Seq(Nat)]

\* r is a run of the groups of the rows S.
IsRun(r, S, of) ==
  /\ r \in Seq(RunRow)
  /\ \A p \in 1 .. Len(r) : /\ r[p].key = Rank(r[p].group)
                            /\ IsRows(r[p].rows, {x \in S : of[x] = r[p].group})
  /\ \A p, q \in 1 .. Len(r) : p < q => r[p].key < r[q].key
  /\ \A x \in S : \E p \in 1 .. Len(r) : r[p].group = of[x]

\* bs is r in pieces: piece k begins after off[k] rows.
Pieces(bs, r, off, n) ==
  /\ off \in [1 .. Len(bs) + 1 -> Nat] /\ off[1] = 0 /\ off[Len(bs) + 1] = n
  /\ \A k \in 1 .. Len(bs) :
       /\ Len(bs[k]) > 0 /\ off[k + 1] = off[k] + Len(bs[k])
       /\ \A q \in 1 .. Len(bs[k]) : bs[k][q] = r[off[k] + q]

FileRec == [disk : Seq(Seq(RunRow)), rows : Nat]

FileOf(f, r) ==
  /\ f.disk \in Seq(Seq(RunRow)) /\ f.rows = Len(r) /\ \E off : Pieces(f.disk, r, off, Len(r))

GroupsOf(r) == {r[p].group : p \in 1 .. Len(r)}

\* Of n rows, row x with key of[x], those with h[x] = j are spilled to w[j].
SpilledOf(n, of, fs, w, h) ==
  /\ h \in [1 .. n -> 0 .. Len(fs)]
  /\ \A j \in 1 .. Len(fs) : IsRun(w[j], CountedOf(n, h, j), of) /\ FileOf(fs[j], w[j])

Spilled(w, h) == SpilledOf(Len(given), KeyAt, files, w, h)

\* The others are in the map m; ks are the keys of all.
MapHas(n, of, ks, m, fs, w, h) ==
  /\ Holds(m, CountedOf(n, h, 0), of)
  /\ ks = DOMAIN m \cup UNION {GroupsOf(w[j]) : j \in 1 .. Len(fs)}

\* The range of the array: it has a slot for every key.
Slot(k, min) == IF k = Null THEN 0 ELSE k - min + 1

Fits(r) ==
  /\ r \in [init : {TRUE}, min : TMin .. TMax, max : TMin .. TMax]
  /\ r.min <= r.max /\ r.max - r.min + 2 <= RangeUpperBound /\ r.max - r.min + 2 < Word

Within(ks, r) == \A k \in ks : k # Null => k \in r.min .. r.max

\* The groups in the array t are those of n rows, all in memory.
ArrayHas(n, of, ks, t, min) ==
  /\ Holds(t.slots, IF HasAgg THEN 1 .. n ELSE {}, [x \in 1 .. n |-> Slot(of[x], min)])
  /\ DOMAIN t.slots = {Slot(k, min) : k \in ks}
  /\ DOMAIN t = {"size", "slots"}

\* What is in memory are the groups of the rows that are not in runs.
InArray ==
  /\ files = <<>> /\ map = EmptyMap
  /\ IF table = NoTable THEN given = <<>> /\ range = NoRange
     ELSE /\ given # <<>> /\ ArrayRule /\ Fits(range) /\ Within(KeysGiven, range)
          /\ ArrayHas(Len(given), KeyAt, KeysGiven, table, range.min)

InMap(w, h) == table = NoTable /\ MapHas(Len(given), KeyAt, KeysGiven, map, files, w, h)

InMem(w, h) == IF arrayMode THEN InArray ELSE InMap(w, h)

\* A stream stands at a place in its run.
Stream == [batch : Seq(RunRow), at : Nat, count : Nat, next : Nat, rowOffset : Nat]
Pos(t) == t.rowOffset - t.count + t.at

Reads(t, f, r, off) ==
  /\ t \in Stream /\ r \in Seq(RunRow) /\ f.disk \in Seq(Seq(RunRow)) /\ f.rows = Len(r)
  /\ Pieces(f.disk, r, off, Len(r))
  /\ t.next \in 1 .. Len(f.disk) + 1 /\ t.rowOffset = off[t.next]

StreamOK(t, f, r) ==
  /\ \E off : Reads(t, f, r, off)
  /\ t.count <= t.rowOffset /\ t.rowOffset <= Len(r) /\ t.count <= Len(t.batch)
  /\ \A i \in 1 .. t.count : t.batch[i] = r[t.rowOffset - t.count + i]
  /\ \/ t.at < t.count
     \/ t.at = 0 /\ t.count = 0 /\ t.rowOffset = Len(r)

GroupOut == [key : Keys, rows : Seq(Nat)]

\* Of rows with the keys of[x] those with key k that the merge has passed.
Passed(of, w, h, pos, k) ==
  {x \in DOMAIN of : /\ HasAgg /\ of[x] = k
                     /\ \E p \in 1 .. Len(w[h[x]]) : p <= pos[h[x]] /\ w[h[x]][p].group = k}

KeysAscend(out) == \A i, j \in 1 .. Len(out) : i < j => Rank(out[i].key) < Rank(out[j].key)

\* A group has the rows with its key that are passed.
HasPassed(of, w, n, h, pos, g) ==
  /\ IsRows(g.rows, Passed(of, w, h, pos, g.key))
  /\ \E j \in 1 .. n : \E p \in 1 .. Len(w[j]) : p <= pos[j] /\ w[j][p].group = g.key

\* Groups passed are out, those to come are greater, or that of the last while it is open.
IsOut(row, out) == \E i \in 1 .. Len(out) : out[i].key = row.group

ToCome(row, out, open) ==
  \A i \in 1 .. Len(out) : \/ Rank(out[i].key) < row.key
                           \/ open /\ i = Len(out) /\ out[i].key = row.group

\* While it is open a row with the key of the last is next in some run.
OpenAt(w, n, pos, out) ==
  /\ Len(out) > 0
  /\ \E j \in 1 .. n : pos[j] + 1 <= Len(w[j]) /\ w[j][pos[j] + 1].group = out[Len(out)].key

\* out are the groups of the rows before pos.
OutIs(of, w, n, h, pos, out, open) ==
  /\ out \in Seq(GroupOut) /\ KeysAscend(out)
  /\ \A i \in 1 .. Len(out) : HasPassed(of, w, n, h, pos, out[i])
  /\ \A j \in 1 .. n : \A p \in 1 .. Len(w[j]) :
       IF p <= pos[j] THEN IsOut(w[j][p], out) ELSE ToCome(w[j][p], out, open)
  /\ open => OpenAt(w, n, pos, out)

Positions == [j \in 1 .. Len(streams) |-> Pos(streams[j])]
Ref == [s : Nat, at : Nat, group : Nat]
IsOpen == pc = "merge" /\ ~nextKeyIsNew

Merged(w, h) ==
  /\ map = EmptyMap /\ Len(streams) = Len(files)
  /\ \A j \in 1 .. Len(streams) : StreamOK(streams[j], files[j], w[j])
  /\ spillRowOffset = Total(Positions, 1 .. Len(streams))
  /\ result \in Seq(GroupOut) /\ unspilled \in Seq(Ref)
  /\ \A r \in 1 .. Len(unspilled) : /\ unspilled[r].s + 1 \in 1 .. Len(streams)
                                    /\ unspilled[r].group \in 1 .. Len(result)
  /\ delivered \in Seq(GroupOut) /\ Unspilled(result, unspilled) \in Seq(GroupOut)
  /\ IsOpen => result # <<>>
  /\ OutIs(KeyAt, w, Len(streams), h, Positions, delivered \o Unspilled(result, unspilled), IsOpen)

Tree == ~finished => IsReady(Len(streams), Heads(streams), tree, TRUE)

\* Before anything is merged: handed out are the first groups in memory, or nothing.
Walked ==
  /\ spillRowOffset = 0
  /\ IF noMoreInput /\ files = <<>> /\ given # <<>>
     THEN /\ outputted \in 0 .. Len(InMemory) /\ delivered = SubSeq(InMemory, 1, outputted)
          /\ finished => outputted = Len(InMemory)
     ELSE delivered = <<>> /\ outputted = 0 /\ (finished => noMoreInput /\ given = <<>>)

Control ==
  /\ pc \in {"idle", "merge", "failed"}
  /\ {noMoreInput, finished, arrayMode, nextKeyIsNew} \subseteq BOOLEAN
  /\ Numbered /\ files \in Seq(FileRec)
  /\ streams \in Seq(Stream)

Phase ==
  /\ pc # "failed"
  /\ pc = "merge" => noMoreInput /\ ~finished /\ streams # <<>>
  /\ pc = "idle" => result = <<>> /\ unspilled = <<>>
  /\ streams # <<>> => files # <<>> /\ noMoreInput
  /\ files # <<>> => ~arrayMode

Where(w, h) ==
  /\ Spilled(w, h) /\ InMem(w, h)
  /\ IF streams = <<>> THEN Walked ELSE Merged(w, h) /\ Tree

AInv ==
  /\ Control /\ GroupsAreExact
  /\ pc # "failed" => Phase /\ \E w, h : Where(w, h)

\* A sequence without repetition has as many elements as it is long.
LEMMA CountOneToOne ==
  ASSUME NEW S, NEW s \in Seq(S), OneToOne(s)
  PROVE  IsFiniteSet(ToSet(s)) /\ Cardinality(ToSet(s)) = Len(s)
<1> DEFINE n == Len(s)
           T == ToSet(s)
<1>1. n \in Nat /\ IsFiniteSet(1 .. n) /\ Cardinality(1 .. n) = n /\ s \in [1 .. n -> S]
  BY LenProperties, FS_Interval
<1>2. T = {s[i] : i \in 1 .. n}
  BY <1>1 DEF ToSet
<1> HIDE DEF n, T
<1> DEFINE f == [i \in 1 .. n |-> s[i]]
<1>3. f \in [1 .. n -> T] /\ \A x \in T : \E i \in 1 .. n : f[i] = x
  BY <1>2
<1>4. \A i, j \in 1 .. n : i # j => f[i] # f[j]
  BY DEF OneToOne, n
<1> HIDE DEF f
<1>5. f \in Surjection(1 .. n, T) /\ f \in Injection(1 .. n, T)
  BY <1>3, <1>4 DEF Surjection, Injection, IsInjective
<1>6. IsFiniteSet(T) /\ Cardinality(T) = n
  BY <1>1, <1>5, FS_Surjection
<1> QED
  BY <1>6 DEF n, T

\* All groups of the rows given, or some of them.
Exact(out, all) ==
  /\ out \in Seq(GroupOut)
  /\ \A i, j \in 1 .. Len(out) : i # j => out[i].key # out[j].key
  /\ \A i \in 1 .. Len(out) : out[i].key \in KeysGiven
  /\ all => \A k \in KeysGiven : \E i \in 1 .. Len(out) : out[i].key = k
  /\ HasAgg => \A i \in 1 .. Len(out) :
                 IsRows(out[i].rows, {x \in 1 .. Len(given) : KeyAt[x] = out[i].key})

\* They are what GroupsAreExact asks for.
GroupsFor(d, f) ==
  LET keys == {given[i].key : i \in DOMAIN given}
      out  == {d[i].key : i \in DOMAIN d}
  IN  /\ out \subseteq keys /\ Cardinality(out) = Len(d)
      /\ f => out = keys
      /\ HasAgg => \A i \in DOMAIN d :
           LET ids == d[i].rows
           IN  /\ ToSet(ids) = {given[j].id : j \in {n \in DOMAIN given : given[n].key = d[i].key}}
               /\ Cardinality(ToSet(ids)) = Len(ids)

\* Exact groups are those GroupsAreExact asks for.
LEMMA ExactFor ==
  ASSUME Numbered, NEW d, NEW f \in BOOLEAN, Exact(d, f)
  PROVE  GroupsFor(d, f)
<1> DEFINE n == Len(d)
           N == Len(given)
           keys == {given[i].key : i \in DOMAIN given}
           out == {d[i].key : i \in DOMAIN d}
<1>1. /\ n \in Nat /\ DOMAIN d = 1 .. n /\ N \in Nat /\ DOMAIN given = 1 .. N
      /\ d \in Seq(GroupOut) /\ d \in [1 .. n -> GroupOut] /\ given \in Seq(Row)
  BY LenProperties DEF Exact, Numbered
<1>2. keys = KeysGiven /\ out = {d[i].key : i \in 1 .. n}
  BY <1>1 DEF KeysGiven
<1>3. out \subseteq keys /\ (f => out = keys)
  BY <1>2, ZenonT(60) DEF Exact
<1>4. Cardinality(out) = n
  <2> DEFINE s == [i \in 1 .. n |-> d[i].key]
  <2>1. s \in Seq(out) /\ Len(s) = n
    BY <1>1, <1>2
  <2>2. OneToOne(s)
    BY <2>1 DEF OneToOne, Exact
  <2>3. ToSet(s) = out
    BY <1>1, <1>2 DEF ToSet
  <2> HIDE DEF s, out, n
  <2> QED
    BY <2>1, <2>2, <2>3, CountOneToOne
<1>5. ASSUME HasAgg, NEW i \in DOMAIN d
      PROVE  LET ids == d[i].rows
             IN  /\ ToSet(ids) = {given[j].id : j \in {m \in DOMAIN given : given[m].key = d[i].key}}
                 /\ Cardinality(ToSet(ids)) = Len(ids)
  <2> DEFINE ids == d[i].rows
             k == d[i].key
  <2>1. IsRows(ids, {x \in 1 .. N : KeyAt[x] = k})
    BY <1>1, <1>5 DEF Exact
  <2>2. {given[j].id : j \in {m \in DOMAIN given : given[m].key = k}} = {x \in 1 .. N : KeyAt[x] = k}
    <3>1. \A x \in 1 .. N : KeyAt[x] = given[x].key /\ given[x].id = x
      BY DEF KeyAt, Numbered
    <3> HIDE DEF k
    <3> QED
      BY <1>1, <3>1
  <2> HIDE DEF ids, k
  <2>3. Cardinality(ToSet(ids)) = Len(ids)
    BY <2>1, CountOneToOne DEF IsRows
  <2>4. ToSet(ids) = {given[j].id : j \in {m \in DOMAIN given : given[m].key = k}}
    BY <2>1, <2>2 DEF IsRows
  <2> QED
    BY <2>3, <2>4 DEF ids, k
<1> QED
  BY <1>3, <1>4, <1>5 DEF GroupsFor

\* So a step that hands out such groups keeps GroupsAreExact.
LEMMA ExactGroups ==
  ASSUME Numbered, given' = given, finished' \in BOOLEAN, Exact(delivered', finished')
  PROVE  GroupsAreExact'
<1>1. GroupsFor(delivered', finished')
  BY ExactFor
<1> QED
  BY <1>1 DEF GroupsFor, GroupsAreExact

\* Nothing handed out, nothing finished without input.
LEMMA ExactNothing ==
  ASSUME NEW f \in BOOLEAN, f => given = <<>>
  PROVE  Exact(<<>>, f)
<1>1. <<>> \in Seq(GroupOut) /\ Len(<<>>) = 0 /\ 1 .. 0 = {}
  OBVIOUS
<1>2. given = <<>> => KeysGiven = {}
  BY DEF KeysGiven
<1> QED
  BY <1>1, <1>2 DEF Exact

\* Ranks are numbers, each key has its own.
LEMMA RankIs ==
  ASSUME NEW k \in Keys
  PROVE  Rank(k) \in Nat /\ \A l \in Keys : Rank(l) = Rank(k) => l = k
<1>1. TMin \in Int /\ \A l \in Keys : l # Null => l \in TMin .. TMax
  BY TypesAssumption
<1>2. \A l \in Keys : IF l = Null THEN Rank(l) = 0 ELSE Rank(l) = l - TMin + 1 /\ l \in Int /\ l >= TMin
  BY <1>1, TypesAssumption DEF Rank
<1> QED
  BY <1>1, <1>2

\* d is the beginning of out.
BeginsOut(d, out) == Len(d) <= Len(out) /\ \A i \in 1 .. Len(d) : d[i] = out[i]

\* d is exact, and when it is all of out and the runs are at their ends no group is missing.
ExactSoFar(d, out, w, n, pos) ==
  /\ Exact(d, FALSE)
  /\ (\A j \in 1 .. n : pos[j] = Len(w[j])) /\ Len(d) = Len(out) => Exact(d, TRUE)

\* The merged groups are exact as far as they go.
LEMMA OutIsExact ==
  ASSUME Numbered, NEW w, NEW h, Spilled(w, h), InMap(w, h), map = EmptyMap,
         NEW n, n = Len(files), NEW pos, NEW out, NEW open \in BOOLEAN,
         OutIs(KeyAt, w, n, h, pos, out, open),
         NEW d \in Seq(GroupOut), BeginsOut(d, out), open => Len(d) < Len(out)
  PROVE  ExactSoFar(d, out, w, n, pos)
<1> DEFINE N == Len(given)
           e == Len(out)
           l == Len(d)
<1>1. /\ N \in Nat /\ n \in Nat /\ e \in Nat /\ l \in Nat /\ l <= e
      /\ \A i \in 1 .. l : i \in 1 .. e /\ d[i] = out[i] /\ out[i] \in GroupOut
  <2>1. given \in Seq(Row) /\ out \in Seq(GroupOut)
    BY DEF Numbered, OutIs
  <2>2. N \in Nat /\ e \in Nat /\ l \in Nat /\ l <= e /\ out \in [1 .. e -> GroupOut]
    BY <2>1, LenProperties DEF BeginsOut
  <2>3. n \in Nat
    BY DEF Spilled, SpilledOf
  <2> QED
    BY <2>2, <2>3 DEF BeginsOut
<1>2. DOMAIN map = {}
  BY DEF EmptyMap
<1>3. KeysGiven = UNION {GroupsOf(w[j]) : j \in 1 .. n}
  BY <1>2 DEF InMap, MapHas
<1>4. \A i, j \in 1 .. l : i # j => d[i].key # d[j].key
  <2> SUFFICES ASSUME NEW i \in 1 .. l, NEW j \in 1 .. l, i # j, d[i].key = d[j].key PROVE FALSE
    OBVIOUS
  <2>1. i \in 1 .. e /\ j \in 1 .. e /\ (i < j \/ j < i)
    BY <1>1
  <2>2. Rank(out[i].key) < Rank(out[j].key) \/ Rank(out[j].key) < Rank(out[i].key)
    BY <2>1 DEF OutIs, KeysAscend
  <2>3. out[i].key = out[j].key /\ out[i].key \in Keys
    BY <1>1 DEF GroupOut
  <2> QED
    BY <2>2, <2>3, RankIs
<1>5. \A i \in 1 .. l : d[i].key \in KeysGiven
  <2> SUFFICES ASSUME NEW i \in 1 .. l PROVE d[i].key \in KeysGiven
    OBVIOUS
  <2>1. i \in 1 .. e /\ d[i] = out[i]
    BY <1>1
  <2>2. HasPassed(KeyAt, w, n, h, pos, out[i])
    BY <2>1 DEF OutIs
  <2>3. PICK j \in 1 .. n : \E p \in 1 .. Len(w[j]) : w[j][p].group = out[i].key
    BY <2>2 DEF HasPassed
  <2>4. out[i].key \in GroupsOf(w[j])
    BY <2>3 DEF GroupsOf
  <2> QED
    BY <1>3, <2>1, <2>4
<1>6. ASSUME HasAgg, NEW i \in 1 .. l
      PROVE  IsRows(d[i].rows, {x \in 1 .. N : KeyAt[x] = d[i].key})
  <2> DEFINE k == out[i].key
  <2>1. i \in 1 .. e /\ d[i] = out[i] /\ k \in Keys
    BY <1>1 DEF GroupOut
  <2>2. IsRows(out[i].rows, Passed(KeyAt, w, h, pos, k))
    BY <2>1 DEF OutIs, HasPassed
  <2>3. ASSUME NEW x \in 1 .. N, KeyAt[x] = k PROVE x \in Passed(KeyAt, w, h, pos, k)
    <3> DEFINE j == h[x]
    <3>1. j \in 0 .. n
      BY DEF Spilled, SpilledOf
    <3>2. j # 0
      <4>1. j = 0 => x \in CountedOf(Len(given), h, 0)
        BY <1>6 DEF CountedOf
      <4> QED
        BY <4>1, <1>2 DEF InMap, MapHas, Holds
    <3>3. j \in 1 .. n /\ x \in CountedOf(Len(given), h, j)
      BY <1>1, <1>6, <3>1, <3>2 DEF CountedOf
    <3>4. IsRun(w[j], CountedOf(Len(given), h, j), KeyAt)
      BY <3>3 DEF Spilled, SpilledOf
    <3>5. PICK p \in 1 .. Len(w[j]) : w[j][p].group = k
      BY <2>3, <3>3, <3>4 DEF IsRun
    <3>6. w[j][p].key = Rank(k)
      BY <3>4, <3>5 DEF IsRun
    <3>7. p <= pos[j]
      <4> SUFFICES ASSUME ~ (p <= pos[j]) PROVE FALSE
        OBVIOUS
      <4>0. ToCome(w[j][p], out, open)
        BY <3>3 DEF OutIs
      <4>1. Rank(k) < w[j][p].key \/ (open /\ i = e)
        BY <2>1, <4>0 DEF ToCome
      <4>2. Rank(k) < Rank(k)
        BY <1>1, <3>6, <4>1
      <4> QED
        BY <2>1, <4>2, RankIs
    <3> QED
      BY <1>6, <2>3, <3>5, <3>7 DEF Passed, KeyAt
  <2>4. Passed(KeyAt, w, h, pos, k) = {x \in 1 .. N : KeyAt[x] = k}
    BY <2>3 DEF Passed, KeyAt
  <2> QED
    BY <2>1, <2>2, <2>4
<1>7. ASSUME \A j \in 1 .. n : pos[j] = Len(w[j]), l = e, NEW k \in KeysGiven
      PROVE  \E i \in 1 .. l : d[i].key = k
  <2>0. PICK j \in 1 .. n : \E p \in 1 .. Len(w[j]) : w[j][p].group = k
    BY <1>3 DEF GroupsOf
  <2>1. PICK p \in 1 .. Len(w[j]) : w[j][p].group = k
    BY <2>0
  <2>2. p <= pos[j]
    <3>1. w[j] \in Seq(RunRow)
      BY <2>1 DEF Spilled, SpilledOf, IsRun
    <3> QED
      BY <1>7, <3>1
  <2>3. PICK i \in 1 .. e : out[i].key = k
    <3>1. IsOut(w[j][p], out)
      BY <2>1, <2>2 DEF OutIs
    <3> QED
      BY <2>1, <3>1 DEF IsOut
  <2> QED
    BY <1>1, <1>7, <2>3
<1> QED
  BY <1>4, <1>5, <1>6, <1>7 DEF Exact, ExactSoFar

-----------------------------------------------------------------------------
(* Runs in files and streams.                                              *)

Pieced == Seq(Seq(RunRow))

\* A batch read into a stream's vectors begins with the batch, whatever is left behind it.
LEMMA OverwriteBegins ==
  ASSUME NEW old \in Seq(RunRow), NEW new \in Seq(RunRow)
  PROVE  /\ Overwrite(old, new) \in Seq(RunRow) /\ Len(new) <= Len(Overwrite(old, new))
         /\ \A i \in 1 .. Len(new) : Overwrite(old, new)[i] = new[i]
<1> DEFINE rest == SubSeq(old, Len(new) + 1, Len(old))
<1>1. Len(new) \in Nat /\ Len(old) \in Nat
  BY LenProperties
<1>2. rest \in Seq(RunRow)
  <2>1. \A i \in Len(new) + 1 .. Len(old) : i \in 1 .. Len(old)
    BY <1>1
  <2>2. \A i \in Len(new) + 1 .. Len(old) : old[i] \in RunRow
    BY <2>1, ElementOfSeq
  <2> QED
    BY <1>1, <2>2, SubSeqProperties
<1>3. Overwrite(old, new) = new \o rest
  BY DEF Overwrite
<1> HIDE DEF rest
<1>4. Len(rest) \in Nat
  BY <1>2, LenProperties
<1>5. /\ new \o rest \in Seq(RunRow) /\ Len(new \o rest) = Len(new) + Len(rest)
      /\ \A i \in 1 .. Len(new) + Len(rest) :
           (new \o rest)[i] = IF i <= Len(new) THEN new[i] ELSE rest[i - Len(new)]
  BY <1>2, ConcatProperties
<1>6. \A i \in 1 .. Len(new) : i \in 1 .. Len(new) + Len(rest) /\ i <= Len(new)
  BY <1>1, <1>4
<1> QED
  BY <1>1, <1>3, <1>4, <1>5, <1>6

\* Positions in the run grow from batch to batch.
LEMMA PiecesGrow ==
  ASSUME NEW bs \in Pieced, NEW r, NEW off, NEW n, Pieces(bs, r, off, n),
         NEW i \in 1 .. Len(bs) + 1
  PROVE  off[i] \in Nat /\ n \in Nat /\ off[i] <= n
<1> DEFINE l == Len(bs)
           len == [k \in 1 .. l |-> Len(bs[k])]
<1>1. l \in Nat /\ \A k \in 1 .. l : bs[k] \in Seq(RunRow)
  BY LenProperties, ElementOfSeq DEF Pieced
<1>2. len \in [1 .. l -> Nat] /\ \A k \in 1 .. l : len[k] = Len(bs[k])
  BY <1>1, LenProperties
<1> HIDE DEF len
<1>3. /\ off \in [1 .. l + 1 -> Nat] /\ off[1] = 0 /\ off[l + 1] = n
      /\ \A k \in 1 .. l : off[k + 1] = off[k] + len[k]
  BY <1>2 DEF Pieces
<1> HIDE DEF l
<1>4. \A j, k \in 1 .. l + 1 : j <= k => off[j] <= off[k]
  BY <1>1, <1>2, <1>3, BlockFacts
<1>5. i \in 1 .. l + 1 /\ l + 1 \in 1 .. l + 1 /\ i <= l + 1
  BY <1>1 DEF l
<1> QED
  BY <1>3, <1>4, <1>5

\* Reading the next batch leaves a stream where its last one ended.
LEMMA ReadGives ==
  ASSUME NEW t, NEW f, NEW r, NEW off, Reads(t, f, r, off)
  PROVE  StreamOK(ReadVecBatch(t, f), f, r) /\ Pos(ReadVecBatch(t, f)) = t.rowOffset
<1> DEFINE t2 == ReadVecBatch(t, f)
<1>1. /\ t \in Stream /\ f.disk \in Pieced /\ r \in Seq(RunRow) /\ f.rows = Len(r)
      /\ Pieces(f.disk, r, off, Len(r))
      /\ t.next \in 1 .. Len(f.disk) + 1 /\ t.rowOffset = off[t.next]
  BY DEF Reads, Pieced
<1>0. t.batch \in Seq(RunRow)
  BY <1>1 DEF Stream
<1>2. t.rowOffset \in Nat /\ Len(r) \in Nat /\ t.rowOffset <= Len(r) /\ Len(f.disk) \in Nat
  <2>1. t.rowOffset \in Nat /\ t.rowOffset <= Len(r)
    BY <1>1, PiecesGrow
  <2> QED
    BY <1>1, <2>1, LenProperties DEF Pieced
<1>3. CASE AtEnd(t, f)
  <2>1. t2 = [t EXCEPT !.at = 0, !.count = 0]
    BY <1>3 DEF ReadVecBatch
  <2>2. /\ t2 \in Stream /\ t2.batch = t.batch /\ t2.next = t.next
        /\ t2.rowOffset = t.rowOffset /\ t2.at = 0 /\ t2.count = 0
    <3>1. t \in Stream
      BY <1>1
    <3> DEFINE x == [t EXCEPT !.at = 0, !.count = 0]
    <3>2. /\ x \in Stream /\ x.batch = t.batch /\ x.next = t.next
          /\ x.rowOffset = t.rowOffset /\ x.at = 0 /\ x.count = 0
      BY <3>1 DEF Stream
    <3> HIDE DEF x, t2
    <3>3. t2 = x
      BY <2>1 DEF x
    <3> QED
      BY <3>2, <3>3
  <2>4. t.rowOffset = Len(r)
    BY <1>1, <1>2, <1>3 DEF AtEnd
  <2> HIDE DEF t2
  <2>5. Reads(t2, f, r, off)
    BY <1>1, <2>2 DEF Reads, Pieced
  <2>6. Len(t2.batch) \in Nat
    BY <1>0, <2>2, LenProperties
  <2>7. StreamOK(t2, f, r)
    BY <1>2, <2>2, <2>4, <2>5, <2>6 DEF StreamOK
  <2>8. Pos(t2) = t.rowOffset
    BY <1>2, <2>2 DEF Pos
  <2> QED
    BY <2>7, <2>8 DEF t2
<1>4. CASE ~ AtEnd(t, f)
  <2> DEFINE b == f.disk[t.next]
             c == Overwrite(t.batch, b)
  <2>1. t2 = [t EXCEPT !.batch = c, !.at = 0, !.count = Len(b), !.next = @ + 1, !.rowOffset = @ + Len(b)]
    BY <1>4 DEF ReadVecBatch
  <2>2. /\ t2.batch = c /\ t2.next = t.next + 1
        /\ t2.rowOffset = t.rowOffset + Len(b) /\ t2.at = 0 /\ t2.count = Len(b)
    BY <1>1, <2>1 DEF Stream
  <2>4. t.next \in 1 .. Len(f.disk)
    <3>1. t.rowOffset # Len(r)
      BY <1>1, <1>2, <1>4 DEF AtEnd
    <3>2. t.next # Len(f.disk) + 1
      BY <1>1, <3>1 DEF Pieces
    <3> QED
      BY <1>1, <1>2, <3>2
  <2>5. b \in Seq(RunRow) /\ Len(b) \in Nat
    BY <1>1, <2>4, ElementOfSeq, LenProperties DEF Pieced
  <2>6. /\ Len(b) > 0 /\ off[t.next + 1] = off[t.next] + Len(b)
        /\ \A q \in 1 .. Len(b) : b[q] = r[off[t.next] + q]
    BY <1>1, <2>4 DEF Pieces
  <2> HIDE DEF t2, b
  <2>7. c \in Seq(RunRow) /\ Len(b) <= Len(c) /\ \A i \in 1 .. Len(b) : c[i] = b[i]
    BY <1>0, <2>5, OverwriteBegins
  <2> HIDE DEF c
  <2>15. t2 \in Stream
    <3>1. t.next + 1 \in Nat /\ t.rowOffset + Len(b) \in Nat
      BY <1>2, <2>4, <2>5
    <3> QED
      BY <1>1, <2>1, <2>5, <2>7, <3>1 DEF Stream
  <2>8. t2.next \in 1 .. Len(f.disk) + 1 /\ t2.rowOffset = off[t2.next]
    BY <1>1, <1>2, <2>2, <2>4, <2>6
  <2>9. Reads(t2, f, r, off)
    BY <1>1, <2>8, <2>15 DEF Reads, Pieced
  <2>10. t2.rowOffset \in Nat /\ t2.rowOffset <= Len(r)
    BY <1>1, <2>8, PiecesGrow
  <2>11. ASSUME NEW i \in 1 .. t2.count PROVE t2.batch[i] = r[t2.rowOffset - t2.count + i]
    <3>1. i \in 1 .. Len(b)
      BY <2>2
    <3>2. c[i] = r[off[t.next] + i]
      BY <2>6, <2>7, <3>1
    <3>3. t2.rowOffset - t2.count = t.rowOffset
      BY <1>2, <2>2, <2>5
    <3> QED
      BY <1>1, <2>2, <3>2, <3>3
  <2>12. t2.count <= t2.rowOffset /\ t2.at < t2.count /\ t2.count <= Len(t2.batch)
         /\ t2.at \in Nat /\ t2.count \in Nat
    BY <1>2, <2>2, <2>5, <2>6, <2>7
  <2>13. StreamOK(t2, f, r)
    BY <2>9, <2>10, <2>11, <2>12 DEF StreamOK
  <2>14. Pos(t2) = t.rowOffset
    BY <1>2, <2>2, <2>5 DEF Pos
  <2> QED
    BY <2>13, <2>14 DEF t2
<1> QED
  BY <1>3, <1>4

\* What a new stream finds.
LEMMA OpenGives ==
  ASSUME NEW f, NEW r \in Seq(RunRow), FileOf(f, r)
  PROVE  StreamOK(ReadVecBatch(NewStream, f), f, r) /\ Pos(ReadVecBatch(NewStream, f)) = 0
<1>1. PICK off : Pieces(f.disk, r, off, Len(r))
  BY DEF FileOf
<1>2. f.disk \in Seq(Seq(RunRow)) /\ Len(f.disk) \in Nat /\ f.rows = Len(r)
  BY LenProperties DEF FileOf
<1>3. 1 \in 1 .. Len(f.disk) + 1 /\ off[1] = 0
  BY <1>1, <1>2 DEF Pieces
<1>4. <<>> \in Seq(RunRow)
  BY EmptySeq
<1>5. NewStream \in Stream
  BY <1>4 DEF Stream, NewStream
<1>6. NewStream.next = 1 /\ NewStream.rowOffset = 0
  BY DEF NewStream
<1>7. Reads(NewStream, f, r, off)
  BY <1>1, <1>2, <1>3, <1>5, <1>6 DEF Reads
<1> QED
  BY <1>6, <1>7, ReadGives

\* The stream a row was taken from afterwards.
MovedOn(t, f) == IF NeedsBatch(t) THEN ReadVecBatch(t, f) ELSE [t EXCEPT !.at = t.at + 1]

MovesTo(t, f, r, t2) ==
  /\ StreamOK(t2, f, r) /\ Pos(t2) = Pos(t) + 1 /\ t2 \in Stream
  /\ NeedsBatch(t) <=> IsLastRow(t)
  /\ ~NeedsBatch(t) => t2.batch = t.batch

\* When its row is taken a stream is at the next one of its run, in the same batch, in the
\* next one, or at the end.
LEMMA MovesOn ==
  ASSUME NEW t, NEW f, NEW r, StreamOK(t, f, r), t.at < t.count
  PROVE  MovesTo(t, f, r, MovedOn(t, f))
<1>1. PICK off : Reads(t, f, r, off)
  BY DEF StreamOK
<1>2. t \in Stream /\ t.at \in Nat /\ t.count \in Nat /\ t.rowOffset \in Nat /\ t.next \in Nat
  BY <1>1 DEF Reads, Stream
<1>3. NeedsBatch(t) <=> IsLastRow(t)
  BY <1>2 DEF NeedsBatch, IsLastRow
<1>4. CASE NeedsBatch(t)
  <2> DEFINE t2 == ReadVecBatch(t, f)
  <2>1. Pos(t) + 1 = t.rowOffset
    BY <1>2, <1>4 DEF NeedsBatch, Pos
  <2>2. StreamOK(t2, f, r) /\ Pos(t2) = t.rowOffset
    BY <1>1, ReadGives
  <2> HIDE DEF t2
  <2>3. t2 \in Stream
    BY <2>2 DEF StreamOK, Reads
  <2>4. MovesTo(t, f, r, t2)
    BY <1>3, <1>4, <2>1, <2>2, <2>3 DEF MovesTo
  <2> QED
    BY <1>4, <2>4 DEF MovedOn, t2
<1>5. CASE ~ NeedsBatch(t)
  <2> DEFINE t2 == [t EXCEPT !.at = t.at + 1]
  <2>1. /\ t2 \in Stream /\ t2.batch = t.batch /\ t2.next = t.next
        /\ t2.rowOffset = t.rowOffset /\ t2.at = t.at + 1 /\ t2.count = t.count
    BY <1>2 DEF Stream
  <2> HIDE DEF t2
  <2>2. t2.at \in Nat /\ t2.at < t2.count
    BY <1>2, <1>5, <2>1 DEF NeedsBatch
  <2>3. Reads(t2, f, r, off)
    BY <1>1, <2>1 DEF Reads
  <2>4. StreamOK(t2, f, r)
    BY <2>1, <2>2, <2>3 DEF StreamOK
  <2>5. Pos(t2) = Pos(t) + 1
    BY <1>2, <2>1 DEF Pos
  <2>6. MovesTo(t, f, r, t2)
    BY <1>3, <1>5, <2>1, <2>4, <2>5 DEF MovesTo
  <2> QED
    BY <1>5, <2>6 DEF MovedOn, t2
<1> QED
  BY <1>4, <1>5

StandsAt(t, r, p) ==
  /\ r \in Seq(RunRow) /\ p \in 0 .. Len(r) /\ Len(r) \in Nat
  /\ t.at < t.count <=> p < Len(r)
  /\ t.at < t.count => p + 1 \in 1 .. Len(r) /\ t.batch[t.at + 1] = r[p + 1] /\ r[p + 1] \in RunRow

\* The row a stream is at.
LEMMA RowAt ==
  ASSUME NEW t, NEW f, NEW r, StreamOK(t, f, r)
  PROVE  StandsAt(t, r, Pos(t))
<1>1. PICK off : Reads(t, f, r, off)
  BY DEF StreamOK
<1>2. t \in Stream /\ t.at \in Nat /\ t.count \in Nat /\ t.rowOffset \in Nat /\ r \in Seq(RunRow)
  BY <1>1 DEF Reads, Stream
<1>3. Len(r) \in Nat
  BY <1>2, LenProperties
<1>4. /\ t.count <= t.rowOffset /\ t.rowOffset <= Len(r)
      /\ \A i \in 1 .. t.count : t.batch[i] = r[t.rowOffset - t.count + i]
      /\ \/ t.at < t.count
         \/ t.at = 0 /\ t.count = 0 /\ t.rowOffset = Len(r)
  BY DEF StreamOK
<1>5. CASE t.at < t.count
  <2>1. Pos(t) \in 0 .. Len(r) /\ Pos(t) < Len(r) /\ Pos(t) + 1 \in 1 .. Len(r)
    BY <1>2, <1>3, <1>4, <1>5 DEF Pos
  <2>2. t.at + 1 \in 1 .. t.count
    BY <1>2, <1>5
  <2>3. t.batch[t.at + 1] = r[t.rowOffset - t.count + (t.at + 1)]
    BY <1>4, <2>2
  <2>4. t.rowOffset - t.count + (t.at + 1) = Pos(t) + 1
    BY <1>2 DEF Pos
  <2>5. r[Pos(t) + 1] \in RunRow
    BY <1>2, <2>1, ElementOfSeq
  <2>6. t.batch[t.at + 1] = r[Pos(t) + 1]
    BY <2>3, <2>4
  <2> QED
    BY <1>2, <1>3, <1>5, <2>1, <2>5, <2>6 DEF StandsAt
<1>6. CASE ~ (t.at < t.count)
  <2>1. Pos(t) = Len(r)
    BY <1>2, <1>3, <1>4, <1>6 DEF Pos
  <2>2. Pos(t) \in 0 .. Len(r) /\ ~ (Pos(t) < Len(r))
    BY <1>3, <2>1
  <2> QED
    BY <1>2, <1>3, <1>6, <2>2 DEF StandsAt
<1> QED
  BY <1>5, <1>6

\* How many batches of b rows n rows fill.
LEMMA Ceiling ==
  ASSUME NEW n \in Nat, NEW b \in Nat \ {0}, NEW q, q = (n + b - 1) \div b
  PROVE  q \in Nat /\ q * b >= n /\ (q - 1) * b < n
<1>1. n + b - 1 \in Nat /\ q \in Int
  OBVIOUS
<1>2. q * b <= n + b - 1 /\ n + b - 1 < q * b + b
  OBVIOUS
<1>3. (q - 1) * b = q * b - b /\ q * b \in Int
  BY <1>1
<1>4. q >= 0
  BY <1>1
<1> QED
  BY <1>1, <1>2, <1>3, <1>4

\* Multiples of the batch size.
LEMMA Multiples ==
  ASSUME NEW b \in Nat \ {0}, NEW k \in Nat, NEW l \in Nat, k <= l
  PROVE  k * b \in Nat /\ k * b <= l * b /\ (k + 1) * b = k * b + b /\ (k - 1) * b = k * b - b
  OBVIOUS

InBatches(bs, r) == bs \in Seq(Seq(RunRow)) /\ \E off : Pieces(bs, r, off, Len(r))

\* The batches of a run are the run in pieces.
LEMMA BatchesAre ==
  ASSUME NEW r \in Seq(RunRow)
  PROVE  InBatches(Batches(r), r)
<1> DEFINE n == Len(r)
           b == SpillRows
           l == (n + b - 1) \div b
           bs == Batches(r)
           off == [k \in 1 .. l + 1 |-> Least((k - 1) * b, n)]
           piece(k) == SubSeq(r, (k - 1) * b + 1, Least(k * b, n))
<1>1. n \in Nat /\ b \in Nat \ {0} /\ l = (n + b - 1) \div b
  BY LenProperties, BoundsAssumption
<1>2. bs = [k \in 1 .. l |-> piece(k)]
  BY DEF Batches
<1> HIDE DEF n, b, l, bs
<1>3. l \in Nat /\ l * b >= n /\ (l - 1) * b < n
  BY <1>1, Ceiling
<1>4. ASSUME NEW k \in 1 .. l
      PROVE  /\ off[k] = (k - 1) * b /\ off[k] \in Nat /\ off[k] < n
             /\ off[k + 1] = Least(k * b, n) /\ off[k + 1] \in Nat /\ off[k + 1] <= n
             /\ off[k] < off[k + 1]
  <2>1. k \in 1 .. l + 1 /\ k + 1 \in 1 .. l + 1 /\ (k + 1) - 1 = k /\ k - 1 \in Nat /\ k \in Nat
    BY <1>3
  <2>2. (k - 1) * b \in Nat /\ k * b \in Nat /\ k * b = (k - 1) * b + b
    BY <1>1, <2>1, Multiples
  <2>3. (k - 1) * b <= (l - 1) * b /\ (l - 1) * b \in Int
    <3>1. l - 1 \in Nat /\ k - 1 \in Nat /\ k - 1 <= l - 1
      BY <1>3, <2>1
    <3> QED
      BY <1>1, <3>1, Multiples
  <2>4. (k - 1) * b < n
    BY <1>1, <1>3, <2>2, <2>3
  <2>5. off[k] = Least((k - 1) * b, n) /\ off[k + 1] = Least(k * b, n)
    BY <2>1
  <2> HIDE DEF off
  <2> QED
    BY <1>1, <2>2, <2>4, <2>5 DEF Least
<1>5. off \in [1 .. l + 1 -> Nat] /\ off[1] = 0 /\ off[l + 1] = n
  <2>1. ASSUME NEW k \in 1 .. l + 1 PROVE Least((k - 1) * b, n) \in Nat
    <3>1. (k - 1) * b \in Nat
      <4>1. k - 1 \in Nat
        BY <1>3
      <4> QED
        BY <1>1, <4>1, Multiples
    <3> QED
      BY <1>1, <3>1 DEF Least
  <2>2. 1 \in 1 .. l + 1 /\ l + 1 \in 1 .. l + 1 /\ (1 - 1) * b = 0 /\ (l + 1) - 1 = l
    BY <1>1, <1>3
  <2>3. off[1] = Least(0, n) /\ off[l + 1] = Least(l * b, n)
    BY <2>2
  <2>4. l * b \in Nat
    BY <1>1, <1>3, Multiples
  <2> QED
    BY <1>1, <1>3, <2>1, <2>3, <2>4 DEF Least
<1> HIDE DEF off
<1>6. ASSUME NEW k \in 1 .. l
      PROVE  /\ bs[k] \in Seq(RunRow) /\ Len(bs[k]) = off[k + 1] - off[k]
             /\ \A q \in 1 .. Len(bs[k]) : bs[k][q] = r[off[k] + q]
  <2> DEFINE from == off[k] + 1
             to == off[k + 1]
  <2>1. bs[k] = SubSeq(r, from, to)
    BY <1>2, <1>4
  <2>2. from \in Nat /\ to \in Nat /\ from >= 1 /\ to <= n /\ from <= to
    BY <1>4
  <2> HIDE DEF from, to
  <2>3. \A i \in from .. to : r[i] \in RunRow
    <3>1. \A i \in from .. to : i \in 1 .. Len(r)
      BY <1>1, <2>2 DEF n
    <3> QED
      BY <3>1, ElementOfSeq
  <2>4. /\ SubSeq(r, from, to) \in Seq(RunRow) /\ Len(SubSeq(r, from, to)) = to - from + 1
        /\ \A q \in 1 .. (to - from + 1) : SubSeq(r, from, to)[q] = r[from + q - 1]
    <3>1. Len(SubSeq(r, from, to)) = IF from <= to THEN to - from + 1 ELSE 0
      BY <2>2, <2>3, SubSeqProperties
    <3> QED
      BY <2>2, <2>3, <3>1, SubSeqProperties
  <2>5. to - from + 1 = off[k + 1] - off[k]
    BY <1>4 DEF from, to
  <2>6. ASSUME NEW q \in 1 .. (to - from + 1) PROVE from + q - 1 = off[k] + q
    BY <1>4 DEF from
  <2> QED
    BY <2>1, <2>4, <2>5, <2>6
<1>7. bs \in Seq(Seq(RunRow)) /\ Len(bs) = l
  <2>1. bs \in [1 .. l -> Seq(RunRow)]
    BY <1>2, <1>6
  <2> QED
    BY <1>3, <2>1
<1>8. ASSUME NEW k \in 1 .. Len(bs)
      PROVE  /\ Len(bs[k]) > 0 /\ off[k + 1] = off[k] + Len(bs[k])
             /\ \A q \in 1 .. Len(bs[k]) : bs[k][q] = r[off[k] + q]
  <2>1. k \in 1 .. l
    BY <1>7
  <2>2. off[k] \in Nat /\ off[k + 1] \in Nat /\ off[k] < off[k + 1]
    BY <1>4, <2>1
  <2>3. Len(bs[k]) = off[k + 1] - off[k]
    BY <1>6, <2>1
  <2>4. Len(bs[k]) > 0 /\ off[k + 1] = off[k] + Len(bs[k])
    BY <2>2, <2>3
  <2> QED
    BY <1>6, <2>1, <2>4
<1>9. Pieces(bs, r, off, n)
  BY <1>5, <1>7, <1>8 DEF Pieces
<1>10. InBatches(bs, r)
  BY <1>7, <1>9 DEF InBatches, n
<1> QED
  BY <1>10 DEF bs

\* Finitely many values.
LEMMA FiniteImage ==
  ASSUME NEW n \in Nat, NEW f, NEW T, T = {f[i] : i \in 1 .. n}
  PROVE  IsFiniteSet(T)
<1> DEFINE g == [i \in 1 .. n |-> f[i]]
<1>1. g \in [1 .. n -> T] /\ \A x \in T : \E i \in 1 .. n : g[i] = x
  OBVIOUS
<1> HIDE DEF g
<1>2. g \in Surjection(1 .. n, T)
  BY <1>1 DEF Surjection
<1>3. IsFiniteSet(1 .. n)
  BY FS_Interval
<1> QED
  BY <1>2, <1>3, FS_Surjection

\* The keys given are finitely many of Keys.
LEMMA FewKeys == ASSUME Numbered PROVE IsFiniteSet(KeysGiven) /\ KeysGiven \in SUBSET Keys
<1>1. Len(given) \in Nat /\ \A x \in 1 .. Len(given) : given[x] \in Row
  BY LenProperties, ElementOfSeq DEF Numbered
<1>2. KeysGiven = {KeyAt[x] : x \in 1 .. Len(given)}
  BY DEF KeysGiven, KeyAt
<1>3. IsFiniteSet(KeysGiven)
  BY <1>1, <1>2, FiniteImage
<1>4. \A x \in 1 .. Len(given) : given[x].key \in Keys
  BY <1>1 DEF Row
<1> QED
  BY <1>3, <1>4 DEF KeysGiven

SpilledAs(m, S, of, f, r) == IsRun(r, S, of) /\ FileOf(f, r) /\ GroupsOf(r) = DOMAIN m

\* SpillToDisk makes a run of the groups in memory.
LEMMA SpillFileIs ==
  ASSUME NEW m, NEW S, NEW of, Holds(m, S, of), IsFiniteSet(DOMAIN m), DOMAIN m \in SUBSET Keys
  PROVE  \E r : SpilledAs(m, S, of, SpillFile(m), r)
<1> DEFINE D == DOMAIN m
           rank == [k \in D |-> Rank(k)]
           keys == InOrder(D, rank)
           r == [i \in DOMAIN keys |-> [key |-> Rank(keys[i]), group |-> keys[i], rows |-> m[keys[i]]]]
<1>1. HasRanks(D, rank)
  <2>1. \A k \in D : k \in Keys /\ Rank(k) \in Nat
    BY RankIs
  <2>2. \A a, b \in D : a # b => Rank(a) # Rank(b)
    BY <2>1, RankIs
  <2> QED
    BY <2>1, <2>2 DEF HasRanks
<1>2. IsOrder(D, rank, keys)
  BY <1>1, InOrderOrders
<1>3. SpillFile(m) = [disk |-> Batches(r), rows |-> Len(r)]
  BY DEF SpillFile
<1> DEFINE n == Len(keys)
<1>4. /\ keys \in Seq(D) /\ n \in Nat /\ DOMAIN keys = 1 .. n /\ \A i \in 1 .. n : keys[i] \in D
      /\ \A x \in D : \E i \in 1 .. n : keys[i] = x
      /\ \A i, j \in 1 .. n : i < j => rank[keys[i]] < rank[keys[j]]
  <2>1. keys \in Seq(D)
    BY <1>2 DEF IsOrder, IsListing
  <2> HIDE DEF keys
  <2> QED
    BY <1>2, <2>1, LenProperties, ElementOfSeq DEF IsOrder, IsListing
<1> HIDE DEF keys, n
<1>5. /\ r \in [1 .. n -> RunRow]
      /\ \A i \in 1 .. n : r[i].key = Rank(keys[i]) /\ r[i].group = keys[i] /\ r[i].rows = m[keys[i]]
  <2>1. \A k \in D : Rank(k) \in Nat /\ k \in Keys /\ m[k] \in Seq(Nat)
    BY RankIs DEF Holds, IsRows
  <2> QED
    BY <1>4, <2>1 DEF RunRow
<1> HIDE DEF r
<1>6. r \in Seq(RunRow) /\ Len(r) = n
  BY <1>4, <1>5
<1>7. IsRun(r, S, of)
  <2>1. ASSUME NEW p \in 1 .. n
        PROVE  r[p].key = Rank(r[p].group) /\ IsRows(r[p].rows, {x \in S : of[x] = r[p].group})
    <3>1. keys[p] \in D
      BY <1>4
    <3> QED
      BY <1>5, <3>1 DEF Holds
  <2>2. ASSUME NEW p \in 1 .. n, NEW q \in 1 .. n, p < q PROVE r[p].key < r[q].key
    <3>1. keys[p] \in D /\ keys[q] \in D /\ rank[keys[p]] < rank[keys[q]]
      BY <1>4, <2>2
    <3> QED
      BY <1>5, <3>1
  <2>3. ASSUME NEW x \in S PROVE \E p \in 1 .. n : r[p].group = of[x]
    <3>1. of[x] \in D
      BY DEF Holds
    <3> QED
      BY <1>4, <1>5, <3>1
  <2> QED
    BY <1>6, <2>1, <2>2, <2>3 DEF IsRun
<1>8. FileOf(SpillFile(m), r)
  BY <1>3, <1>6, BatchesAre DEF FileOf, InBatches
<1>9. GroupsOf(r) = D
  <2>1. ASSUME NEW g \in GroupsOf(r) PROVE g \in D
    <3>1. PICK p \in 1 .. Len(r) : g = r[p].group
      BY <2>1 DEF GroupsOf
    <3> QED
      BY <1>4, <1>5, <1>6, <3>1
  <2>2. ASSUME NEW g \in D PROVE g \in GroupsOf(r)
    <3>1. PICK i \in 1 .. n : keys[i] = g
      BY <1>4
    <3>2. i \in 1 .. Len(r) /\ r[i].group = g
      BY <1>5, <1>6, <3>1
    <3> QED
      BY <3>2 DEF GroupsOf
  <2> HIDE DEF D
  <2> QED
    BY <2>1, <2>2
<1>10. SpilledAs(m, S, of, SpillFile(m), r)
  BY <1>7, <1>8, <1>9 DEF SpilledAs
<1> QED
  BY <1>10

-----------------------------------------------------------------------------
(* More rows, and another run.                                             *)

\* Only the keys of its rows matter to a run, and to groups.
LEMMA RunAgain ==
  ASSUME NEW r, NEW S, NEW of, IsRun(r, S, of), NEW of2, \A x \in S : of2[x] = of[x]
  PROVE  IsRun(r, S, of2)
<1>1. \A k : {x \in S : of2[x] = k} = {x \in S : of[x] = k}
  OBVIOUS
<1>2. \A x \in S : \E p \in 1 .. Len(r) : r[p].group = of2[x]
  BY DEF IsRun
<1>3. \A p \in 1 .. Len(r) : IsRows(r[p].rows, {x \in S : of2[x] = r[p].group})
  BY <1>1 DEF IsRun
<1> QED
  BY <1>2, <1>3 DEF IsRun

\* Likewise for groups in memory.
LEMMA HoldsAgain ==
  ASSUME NEW m, NEW S, NEW of, Holds(m, S, of), NEW of2, \A x \in S : of2[x] = of[x]
  PROVE  Holds(m, S, of2)
<1>1. \A k : {x \in S : of2[x] = k} = {x \in S : of[x] = k}
  OBVIOUS
<1>2. \A k \in DOMAIN m : IsRows(m[k], {x \in S : of2[x] = k})
  BY <1>1 DEF Holds
<1> QED
  BY <1>2 DEF Holds

\* Where the rows are when n more come into memory.
Longer(h, N, n) == [x \in 1 .. N + n |-> IF x <= N THEN h[x] ELSE 0]

GivenMore(N, n, of2, fs, w, h) ==
  /\ SpilledOf(N + n, of2, fs, w, Longer(h, N, n))
  /\ CountedOf(N + n, Longer(h, N, n), 0) = CountedOf(N, h, 0) \cup NewIds(N, n)

\* Rows given leave the runs as they are.
LEMMA RowsGiven ==
  ASSUME NEW N \in Nat, NEW n \in Nat, NEW of, NEW of2, \A x \in 1 .. N : of2[x] = of[x],
         NEW fs, Len(fs) \in Nat, NEW w, NEW h, SpilledOf(N, of, fs, w, h)
  PROVE  GivenMore(N, n, of2, fs, w, h)
<1> DEFINE g == Longer(h, N, n)
<1>1. /\ g \in [1 .. N + n -> 0 .. Len(fs)]
      /\ \A x \in 1 .. N : g[x] = h[x]
      /\ \A x \in N + 1 .. N + n : g[x] = 0
  BY DEF Longer, SpilledOf
<1> HIDE DEF g
<1>2. ASSUME NEW j \in 1 .. Len(fs)
      PROVE  IsRun(w[j], CountedOf(N + n, g, j), of2) /\ FileOf(fs[j], w[j])
  <2>1. IsRun(w[j], CountedOf(N, h, j), of) /\ FileOf(fs[j], w[j])
    BY DEF SpilledOf
  <2>2. \A x \in 1 .. N + n : g[x] = j <=> x \in 1 .. N /\ h[x] = j
    BY <1>1
  <2>3. CountedOf(N + n, g, j) = CountedOf(N, h, j)
    BY <2>2 DEF CountedOf
  <2>4. \A x \in CountedOf(N, h, j) : of2[x] = of[x]
    BY DEF CountedOf
  <2> QED
    BY <2>1, <2>3, <2>4, RunAgain
<1>3. CountedOf(N + n, g, 0) = CountedOf(N, h, 0) \cup NewIds(N, n)
  <2>1. \A x \in 1 .. N + n : g[x] = 0 <=> (x \in 1 .. N /\ h[x] = 0) \/ x \in N + 1 .. N + n
    BY <1>1
  <2>2. 1 .. N \subseteq 1 .. N + n /\ N + 1 .. N + n \subseteq 1 .. N + n
    OBVIOUS
  <2>3. CASE HasAgg
    BY <2>1, <2>2, <2>3 DEF CountedOf, NewIds
  <2>4. CASE ~HasAgg
    BY <2>4 DEF CountedOf, NewIds
  <2> QED
    BY <2>3, <2>4
<1> QED
  BY <1>1, <1>2, <1>3 DEF GivenMore, SpilledOf, g

SpillsTo(n, of, ks, fs) ==
  \E w, h : SpilledOf(n, of, fs, w, h) /\ MapHas(n, of, ks, EmptyMap, fs, w, h)

\* The groups in memory become another run.
LEMMA AnotherRun ==
  ASSUME NEW n \in Nat, NEW of, NEW ks \in SUBSET Keys, IsFiniteSet(ks), NEW T, NEW fs \in Seq(T),
         NEW w, NEW h, SpilledOf(n, of, fs, w, h), NEW m, MapHas(n, of, ks, m, fs, w, h)
  PROVE  SpillsTo(n, of, ks, Append(fs, SpillFile(m))) /\ SpillFile(m) \in FileRec
<1>1. IsFiniteSet(DOMAIN m) /\ DOMAIN m \in SUBSET Keys
  <2>1. DOMAIN m \subseteq ks
    BY DEF MapHas
  <2> QED
    BY <2>1, FS_Subset
<1>2. PICK r : SpilledAs(m, CountedOf(n, h, 0), of, SpillFile(m), r)
  BY <1>1, SpillFileIs DEF MapHas
<1> DEFINE f == SpillFile(m)
           L == Len(fs)
           gs == Append(fs, f)
           v == [j \in 1 .. L + 1 |-> IF j <= L THEN w[j] ELSE r]
           g == [x \in 1 .. n |-> IF h[x] # 0 THEN h[x] ELSE L + 1]
<1> HIDE DEF f
<1>3. L \in Nat /\ Len(gs) = L + 1 /\ (\A j \in 1 .. L : gs[j] = fs[j]) /\ gs[L + 1] = f
  <2>1. L \in Nat
    BY LenProperties
  <2> QED
    BY <2>1, AppendProperties
<1>4. /\ \A j \in 1 .. L : v[j] = w[j]
      /\ v[L + 1] = r
  BY <1>3
<1>5. h \in [1 .. n -> 0 .. L]
  BY DEF SpilledOf
<1>6. /\ g \in [1 .. n -> 0 .. L + 1]
      /\ \A x \in 1 .. n : g[x] # 0 /\ (g[x] = L + 1 <=> h[x] = 0) /\ (h[x] # 0 => g[x] = h[x])
  BY <1>3, <1>5
<1> HIDE DEF gs, v, g
<1>7. ASSUME NEW j \in 1 .. L PROVE IsRun(v[j], CountedOf(n, g, j), of) /\ FileOf(gs[j], v[j])
  <2>1. \A x \in 1 .. n : g[x] = j <=> h[x] = j
    BY <1>3, <1>5, <1>6
  <2>2. CountedOf(n, g, j) = CountedOf(n, h, j)
    BY <2>1 DEF CountedOf
  <2> QED
    BY <1>3, <1>4, <2>2 DEF SpilledOf
<1>8. IsRun(r, CountedOf(n, g, L + 1), of) /\ FileOf(f, r)
  <2>1. CountedOf(n, g, L + 1) = CountedOf(n, h, 0)
    BY <1>6 DEF CountedOf
  <2> QED
    BY <1>2, <2>1 DEF SpilledAs, f
<1>9. SpilledOf(n, of, gs, v, g)
  <2>1. ASSUME NEW j \in 1 .. L + 1 PROVE IsRun(v[j], CountedOf(n, g, j), of) /\ FileOf(gs[j], v[j])
    <3>1. CASE j \in 1 .. L
      BY <1>7, <3>1
    <3>2. CASE j = L + 1
      BY <1>3, <1>4, <1>8, <3>2
    <3> QED
      BY <1>3, <3>1, <3>2
  <2> QED
    BY <1>3, <1>6, <2>1 DEF SpilledOf
<1>10. MapHas(n, of, ks, EmptyMap, gs, v, g)
  <2>1. CountedOf(n, g, 0) = {}
    BY <1>6 DEF CountedOf
  <2>2. Holds(EmptyMap, {}, of)
    BY DEF Holds, EmptyMap
  <2>3. ks = UNION {GroupsOf(v[j]) : j \in 1 .. L + 1}
    <3>1. ks = DOMAIN m \cup UNION {GroupsOf(w[j]) : j \in 1 .. L}
      BY DEF MapHas
    <3>2. DOMAIN m = GroupsOf(v[L + 1])
      BY <1>2, <1>4 DEF SpilledAs
    <3>3. \A j \in 1 .. L : GroupsOf(v[j]) = GroupsOf(w[j])
      BY <1>4
    <3>4. \A j \in 1 .. L + 1 : j \in 1 .. L \/ j = L + 1
      BY <1>3
    <3>5. 1 .. L \subseteq 1 .. L + 1 /\ L + 1 \in 1 .. L + 1
      BY <1>3
    <3> HIDE DEF L
    <3> QED
      BY <3>1, <3>2, <3>3, <3>4, <3>5
  <2>4. DOMAIN EmptyMap = {}
    BY DEF EmptyMap
  <2> QED
    BY <1>3, <2>1, <2>2, <2>3, <2>4 DEF MapHas
<1>11. gs = Append(fs, SpillFile(m))
  BY DEF gs, f
<1>12. SpillFile(m) \in FileRec
  <2>1. SpillFile(m).disk \in Seq(Seq(RunRow)) /\ SpillFile(m).rows = Len(r) /\ Len(r) \in Nat
    <3>1. Len(r) \in Nat
      BY <1>2, LenProperties DEF SpilledAs, IsRun
    <3> QED
      BY <1>2, <3>1 DEF SpilledAs, FileOf
  <2>2. SpillFile(m) = [disk |-> SpillFile(m).disk, rows |-> SpillFile(m).rows]
    BY DEF SpillFile
  <2> QED
    BY <2>1, <2>2 DEF FileRec
<1> QED
  BY <1>9, <1>10, <1>11, <1>12 DEF SpillsTo

-----------------------------------------------------------------------------
(* The range of the array.                                                 *)

\* The least and the greatest element.
LEMMA Extremes ==
  ASSUME NEW a \in Int, NEW b \in Int, NEW S \in SUBSET (a .. b), S # {}
  PROVE  /\ Smallest(S) \in S /\ \A y \in S : Smallest(S) <= y
         /\ Greatest(S) \in S /\ \A y \in S : Greatest(S) >= y
<1>1. \E x \in S : \A y \in S : x <= y
  <2> DEFINE B == {n \in Nat : a + n \in S}
  <2>1. B \in SUBSET Nat /\ B # {}
    <3>1. PICK s \in S : TRUE
      OBVIOUS
    <3>2. s - a \in Nat /\ a + (s - a) = s
      BY <3>1
    <3> QED
      BY <3>1, <3>2
  <2> HIDE DEF B
  <2>2. PICK n \in B : \A k \in B : n <= k
    BY <2>1, LeastNatural
  <2>3. n \in Nat /\ a + n \in S
    BY <2>2 DEF B
  <2>4. ASSUME NEW y \in S PROVE a + n <= y
    <3>1. y \in Int /\ y - a \in Nat /\ a + (y - a) = y
      OBVIOUS
    <3>2. y - a \in B
      BY <3>1 DEF B
    <3> QED
      BY <2>2, <2>3, <3>1, <3>2
  <2> QED
    BY <2>3, <2>4
<1>2. \E x \in S : \A y \in S : x >= y
  <2> DEFINE B == {n \in Nat : b - n \in S}
  <2>1. B \in SUBSET Nat /\ B # {}
    <3>1. PICK s \in S : TRUE
      OBVIOUS
    <3>2. b - s \in Nat /\ b - (b - s) = s
      BY <3>1
    <3> QED
      BY <3>1, <3>2
  <2> HIDE DEF B
  <2>2. PICK n \in B : \A k \in B : n <= k
    BY <2>1, LeastNatural
  <2>3. n \in Nat /\ b - n \in S
    BY <2>2 DEF B
  <2>4. ASSUME NEW y \in S PROVE b - n >= y
    <3>1. y \in Int /\ b - y \in Nat /\ b - (b - y) = y
      OBVIOUS
    <3>2. b - y \in B
      BY <3>1 DEF B
    <3> QED
      BY <2>2, <2>3, <3>1, <3>2
  <2> QED
    BY <2>3, <2>4
<1> QED
  BY <1>1, <1>2 DEF Smallest, Greatest

\* The size of a range that is no more than twice the width of a word.
LEMMA Wraps ==
  ASSUME NEW W \in Nat, W > 1, NEW x \in Nat
  PROVE  (x < W => x % W = x) /\ (x = W => x % W = 0) /\ (x = W + 1 => x % W = 1)
<1>1. x < W => x % W = x
  OBVIOUS
<1>2. x = W => x % W = 0
  OBVIOUS
<1>3. x = W + 1 => x % W = 1
  OBVIOUS
<1> QED
  BY <1>1, <1>2, <1>3

\* What the code's types satisfy where the array is used: a map of fixed width to move it
\* to, lanes as wide as the array, and room for the reserve in an int64.
ArraysFit ==
  ArrayRule => /\ FixedMap
               /\ HasAgg => LaneMod >= RangeUpperBound \/ LaneMod > TMax - TMin + 1
               /\ 3 * RangeUpperBound + 2 * Reserve <= Word

\* The least and the greatest key of a batch.
Limits(V, b) ==
  /\ b.min \in V \cup {range.min} /\ b.max \in V \cup {range.max}
  /\ \A v \in V : b.min <= v /\ v <= b.max

\* BatchRange gives them.
LEMMA BatchRangeIs ==
  ASSUME NEW keys, ToSet(keys) \in SUBSET Keys, ToSet(keys) # {},
         range.min \in WMin .. WMax, range.max \in WMin .. WMax
  PROVE  Limits(ToSet(keys) \ {Null}, BatchRange(keys))
<1> DEFINE V == ToSet(keys) \ {Null}
           A == IF Null \in ToSet(keys) THEN V \cup {range.min} ELSE V
           B == IF Null \in ToSet(keys) THEN V \cup {range.max} ELSE V
<1>1. BatchRange(keys) = [min |-> Smallest(A), max |-> Greatest(B)]
  BY DEF BatchRange
<1>2. V \subseteq WMin .. WMax /\ WMin \in Int /\ WMax \in Int
  <2>1. V \subseteq TMin .. TMax
    BY TypesAssumption
  <2>2. \A x \in TMin .. TMax : x \in WMin .. WMax
    BY TypesAssumption
  <2> QED
    BY <2>1, <2>2, TypesAssumption
<1>3. A # {} /\ B # {}
  OBVIOUS
<1>4. A \in SUBSET (WMin .. WMax) /\ B \in SUBSET (WMin .. WMax)
  BY <1>2
<1>5. V \subseteq A /\ A \subseteq V \cup {range.min} /\ V \subseteq B /\ B \subseteq V \cup {range.max}
  OBVIOUS
<1> HIDE DEF A, B, V
<1>6. Smallest(A) \in A /\ \A y \in A : Smallest(A) <= y
  BY <1>2, <1>3, <1>4, Extremes
<1>7. Greatest(B) \in B /\ \A y \in B : Greatest(B) >= y
  BY <1>2, <1>3, <1>4, Extremes
<1>8. \A v \in V : v \in Int
  BY <1>2
<1>9. Limits(V, BatchRange(keys))
  <2>1. Smallest(A) \in Int /\ Greatest(B) \in Int
    <3>1. Smallest(A) \in WMin .. WMax /\ Greatest(B) \in WMin .. WMax
      BY <1>4, <1>6, <1>7
    <3>2. \A x \in WMin .. WMax : x \in Int
      BY <1>2
    <3> QED
      BY <3>1, <3>2
  <2>2. \A v \in V : Smallest(A) <= v /\ v <= Greatest(B)
    BY <1>5, <1>6, <1>7, <1>8, <2>1
  <2> QED
    BY <1>1, <1>5, <1>6, <1>7, <2>2 DEF Limits
<1> QED
  BY <1>9 DEF V

\* A new limit of the range.
NewMax(b, reserve) ==
  IF ~(~range.init \/ range.max < b.max) THEN range.max
  ELSE IF b.max <= TMax - reserve THEN b.max + reserve ELSE TMax

NewMin(b, reserve) ==
  IF ~(~range.init \/ range.min > b.min) THEN range.min
  ELSE IF b.min >= TMin + reserve THEN b.min - reserve ELSE TMin

Serves(ks, mode) ==
  /\ Fits(mode.range) /\ Within(ks, mode.range)
  /\ range # NoRange => /\ mode.range.min <= range.min /\ range.max <= mode.range.max
                        /\ ~mode.changed => mode.range = range

\* If the array serves for a batch its new range holds the keys of the batch and the old
\* range, and its size does not wrap around, unless it is resized from one that does not.
LEMMA RangeServes ==
  ASSUME ArraysFit, ArrayRule, NEW keys, ToSet(keys) \in SUBSET Keys, ToSet(keys) # {},
         range = NoRange \/ Fits(range), NEW mode, mode = CheckArrayMap(keys), mode.array,
         range # NoRange /\ mode.changed => ~(GetRange(mode.range) <= 1)
  PROVE  Serves(ToSet(keys), mode)
<1> DEFINE V == ToSet(keys) \ {Null}
           b == BatchRange(keys)
           reserve == Larger(Reserve, b.max - b.min)
           close == b.min <= b.max /\ b.max - b.min <= WMax /\ b.max - b.min <= RangeUpperBound - 2
           new == [init |-> TRUE, max |-> NewMax(b, reserve), min |-> NewMin(b, reserve)]
           moved == (~range.init \/ range.max < b.max) \/ (~range.init \/ range.min > b.min)
<1>1. /\ TMin \in Int /\ TMax \in Int /\ WMin \in Int /\ WMax \in Int
      /\ WMin <= TMin /\ TMin < 0 /\ 0 < TMax /\ TMax <= WMax
      /\ RangeUpperBound \in Nat /\ Reserve \in Nat /\ Word \in Nat /\ Word > 1
      /\ Word = WMax - WMin + 1
  BY TypesAssumption, BoundsAssumption DEF Word
<1>2. close /\ mode.range = new /\ (mode.changed <=> moved) /\ GetRange(new) <= RangeUpperBound
  <2>1. CheckArrayMap(keys) = IF ~close THEN [array |-> FALSE, range |-> range, changed |-> FALSE]
                              ELSE [array |-> GetRange(new) <= RangeUpperBound, range |-> new,
                                    changed |-> moved]
    BY DEF CheckArrayMap, NewMax, NewMin
  <2> DEFINE fits == GetRange(new) <= RangeUpperBound
  <2>2. moved \in BOOLEAN
    OBVIOUS
  <2> HIDE DEF close, new, moved, fits
  <2>3. close
    BY <2>1
  <2>4. mode = [array |-> fits, range |-> new, changed |-> moved]
    BY <2>1, <2>3 DEF fits
  <2>5. fits /\ mode.range = new
    BY <2>4
  <2>6. mode.changed = moved
    BY <2>4
  <2>7. mode.changed <=> moved
    BY <2>6
  <2> QED
    BY <2>3, <2>5, <2>7 DEF fits
<1>3. range.min \in WMin .. WMax /\ range.max \in WMin .. WMax
  <2>1. CASE range = NoRange
    BY <1>1, <2>1 DEF NoRange
  <2>2. CASE Fits(range)
    <3>1. range.min \in TMin .. TMax /\ range.max \in TMin .. TMax
      BY <2>2 DEF Fits
    <3> QED
      BY <1>1, <3>1
  <2> QED
    BY <2>1, <2>2
<1>4. Limits(V, b)
  BY <1>3, BatchRangeIs
<1>5. \A v \in V : v \in TMin .. TMax
  BY TypesAssumption
<1> HIDE DEF V, b
<1>6. CASE range = NoRange
  <2>1. ~range.init /\ range.min = WMax /\ range.max = WMin
    BY <1>6 DEF NoRange
  <2>2. /\ b.min \in V \cup {WMax} /\ b.max \in V \cup {WMin} /\ b.min <= b.max
        /\ \A v \in V : b.min <= v /\ v <= b.max
    BY <1>2, <1>4, <2>1 DEF Limits
  <2>3. b.max \in TMin .. TMax
    <3>1. CASE b.max \in V
      BY <1>5, <3>1
    <3>2. CASE b.max = WMin
      <4>1. b.min # WMax
        BY <1>1, <2>2, <3>2
      <4>2. b.min \in V
        BY <2>2, <4>1
      <4>3. b.min \in TMin .. TMax
        BY <1>5, <4>2
      <4> QED
        BY <1>1, <2>2, <3>2, <4>3
    <3> QED
      BY <2>2, <3>1, <3>2
  <2>4. b.min \in TMin .. TMax
    BY <1>1, <1>5, <2>2, <2>3
  <2> DEFINE span == b.max - b.min
             lo == new.min
             hi == new.max
             B == b
  <2>5. reserve \in Nat /\ (reserve = Reserve \/ reserve = span) /\ span \in Nat /\ span <= RangeUpperBound - 2
    BY <1>1, <1>2, <2>2, <2>3, <2>4 DEF Larger
  <2> HIDE DEF reserve
  <2>6. /\ hi = IF b.max <= TMax - reserve THEN b.max + reserve ELSE TMax
        /\ lo = IF b.min >= TMin + reserve THEN b.min - reserve ELSE TMin
    BY <2>1 DEF NewMax, NewMin
  <2>7. new = [init |-> TRUE, max |-> hi, min |-> lo]
    OBVIOUS
  <2> HIDE DEF hi, lo, new
  <2>8. /\ lo \in TMin .. TMax /\ hi \in TMin .. TMax /\ lo <= b.min /\ b.max <= hi
        /\ hi - lo <= span + 2 * reserve
    BY <1>1, <2>3, <2>4, <2>5, <2>6
  <2>9. hi - lo + 2 < Word /\ hi - lo + 2 \in Nat
    <3>1. 3 * RangeUpperBound + 2 * Reserve <= Word
      BY DEF ArraysFit
    <3> QED
      BY <1>1, <2>2, <2>3, <2>4, <2>5, <2>8, <3>1
  <2>10. GetRange(new) = hi - lo + 2
    BY <1>1, <2>7, <2>9, Wraps DEF GetRange
  <2>11. Fits(new)
    BY <1>1, <1>2, <2>2, <2>3, <2>4, <2>7, <2>8, <2>9, <2>10 DEF Fits
  <2>12. \A v \in V : v \in lo .. hi
    BY <1>1, <1>5, <2>2, <2>3, <2>4, <2>8
  <2>13. Within(ToSet(keys), new)
    BY <2>7, <2>12 DEF Within, V
  <2> QED
    BY <1>2, <1>6, <2>11, <2>13 DEF Serves
<1>7. CASE range # NoRange
  <2>1. /\ Fits(range) /\ range.init = TRUE /\ range.min \in TMin .. TMax /\ range.max \in TMin .. TMax
        /\ range = [init |-> TRUE, max |-> range.max, min |-> range.min]
        /\ range.min <= range.max
    BY <1>7 DEF Fits
  <2>2. /\ b.min \in V \cup {range.min} /\ b.max \in V \cup {range.max} /\ b.min <= b.max
        /\ \A v \in V : b.min <= v /\ v <= b.max
    BY <1>2, <1>4 DEF Limits
  <2>3. b.min \in TMin .. TMax /\ b.max \in TMin .. TMax
    BY <1>5, <2>1, <2>2
  <2> DEFINE span == b.max - b.min
             lo == new.min
             hi == new.max
  <2>4. reserve \in Nat
    BY <1>1, <2>3 DEF Larger
  <2> HIDE DEF reserve
  <2>5. /\ hi = IF ~(range.max < b.max) THEN range.max
                ELSE IF b.max <= TMax - reserve THEN b.max + reserve ELSE TMax
        /\ lo = IF ~(range.min > b.min) THEN range.min
                ELSE IF b.min >= TMin + reserve THEN b.min - reserve ELSE TMin
        /\ moved <=> range.max < b.max \/ range.min > b.min
    BY <2>1 DEF NewMax, NewMin
  <2>6. new = [init |-> TRUE, max |-> hi, min |-> lo]
    OBVIOUS
  <2> HIDE DEF hi, lo, new, moved
  <2>7. /\ lo \in TMin .. TMax /\ hi \in TMin .. TMax /\ lo <= b.min /\ b.max <= hi
        /\ lo <= range.min /\ range.max <= hi
    BY <1>1, <2>1, <2>3, <2>4, <2>5
  <2>8. ~moved => new = range
    BY <2>1, <2>5, <2>6
  <2>9. Fits(new)
    <3>1. CASE moved
      <4>1. ~(GetRange(new) <= 1)
        BY <1>2, <1>7, <3>1
      <4> DEFINE size == hi - lo + 2
      <4>2. size \in Nat /\ size <= Word + 1
        BY <1>1, <2>1, <2>7
      <4>3. GetRange(new) = size % Word
        BY <2>6 DEF GetRange
      <4> HIDE DEF size
      <4>4. size < Word /\ GetRange(new) = size
        BY <1>1, <4>1, <4>2, <4>3, Wraps
      <4>5. hi - lo + 2 <= RangeUpperBound /\ hi - lo + 2 < Word
        BY <1>2, <4>4 DEF size
      <4> QED
        BY <1>1, <2>1, <2>6, <2>7, <4>5 DEF Fits
    <3>2. CASE ~moved
      BY <2>1, <2>8, <3>2
    <3> QED
      BY <3>1, <3>2
  <2>10. \A v \in V : v \in lo .. hi
    BY <1>1, <1>5, <2>2, <2>3, <2>7
  <2>11. Within(ToSet(keys), new)
    BY <2>6, <2>10 DEF Within, V
  <2> QED
    BY <1>2, <2>6, <2>7, <2>8, <2>9, <2>11 DEF Serves
<1> QED
  BY <1>6, <1>7

-----------------------------------------------------------------------------
(* The slots of the array.                                                 *)

\* The keys that have a slot in an array that begins at min.
HaveSlots(ks, min) == min \in Int /\ ks \in SUBSET Keys /\ \A k \in ks : k # Null => k \in Int /\ k >= min

\* A key of the range has its slot, for rows of whole blocks and the others alike.
LEMMA SlotIs ==
  ASSUME ArraysFit, ArrayRule, NEW r, Fits(r), NEW keys, NEW i, keys[i] \in Keys, Within({keys[i]}, r)
  PROVE  SlotOf(keys, i, r.min) = Slot(keys[i], r.min)
<1> DEFINE k == keys[i]
           n == k - r.min + 1
<1>1. CASE k = Null
  BY <1>1 DEF SlotOf, Slot
<1>2. CASE k # Null
  <2>1. k \in r.min .. r.max /\ r.min \in TMin .. TMax /\ r.max \in TMin .. TMax
        /\ r.max - r.min + 2 <= RangeUpperBound /\ r.max - r.min + 2 < Word
    BY <1>2 DEF Within, Fits
  <2>2. TMin \in Int /\ TMax \in Int /\ Word \in Int /\ LaneMod \in Nat /\ RangeUpperBound \in Nat
    BY TypesAssumption, BoundsAssumption DEF Word
  <2>3. n \in Nat /\ n < Word /\ Word > 1 /\ n <= TMax - TMin + 1 /\ n < RangeUpperBound
    BY <2>1, <2>2
  <2>4. HasAgg => n < LaneMod
    BY <2>2, <2>3 DEF ArraysFit
  <2> HIDE DEF n
  <2>5. n % Word = n
    BY <2>2, <2>3, Wraps
  <2>6. HasAgg => n % LaneMod = n
    <3>1. CASE LaneMod > 1
      BY <2>2, <2>3, <2>4, <3>1, Wraps
    <3>2. CASE LaneMod = 1
      BY <2>2, <2>3, <2>4, <3>2
    <3> QED
      BY <2>2, BoundsAssumption, <3>1, <3>2
  <2>7. SlotOf(keys, i, r.min) = IF HasAgg /\ i <= (Len(keys) \div Lanes) * Lanes
                                 THEN n % LaneMod ELSE n % Word
    BY <1>2 DEF SlotOf, n
  <2>8. Slot(k, r.min) = n
    BY <1>2 DEF Slot, n
  <2> HIDE DEF k
  <2>9. SlotOf(keys, i, r.min) = n
    BY <2>5, <2>6, <2>7
  <2> QED
    BY <2>8, <2>9 DEF k
<1> QED
  BY <1>1, <1>2

\* A slot tells its key.
LEMMA SlotsOneToOne ==
  ASSUME NEW ks, NEW min, HaveSlots(ks, min), NEW k \in ks
  PROVE  Slot(k, min) \in Nat /\ KeyOf(Slot(k, min), min) = k
<1>1. CASE k = Null
  BY <1>1 DEF Slot, KeyOf
<1>2. CASE k # Null
  <2>1. k \in Int /\ min \in Int /\ k >= min
    BY <1>2 DEF HaveSlots
  <2> DEFINE n == k - min + 1
  <2>2. n \in Nat /\ n # 0 /\ n + min - 1 = k
    BY <2>1
  <2> HIDE DEF n
  <2>3. Slot(k, min) = n
    BY <1>2 DEF Slot, n
  <2> QED
    BY <2>2, <2>3 DEF KeyOf
<1> QED
  BY <1>1, <1>2

\* Resizing moves the groups to the places of their keys in the new range.
Shift(t, oldMin, newMin) == [i \in DOMAIN t.slots |-> IF i = 0 THEN 0 ELSE i + (oldMin - newMin)]

\* ResizeArrayMap moves each group to the slot of its key in the new range.
LEMMA ResizedMoves ==
  ASSUME NEW t, DOMAIN t.slots \in SUBSET Nat, NEW oldMin \in Int, NEW r, r.min \in Int, r.min <= oldMin
  PROVE  Moves(t.slots, Shift(t, oldMin, r.min), Resized(t, oldMin, r).slots)
<1> DEFINE D == DOMAIN t.slots
           place == Shift(t, oldMin, r.min)
           new == Resized(t, oldMin, r).slots
           offset == oldMin - r.min
<1>1. offset \in Nat
  OBVIOUS
<1>2. \A i \in D : place[i] = IF i = 0 THEN 0 ELSE i + offset
  BY DEF Shift
<1>3. new = [j \in {IF i = 0 THEN 0 ELSE i + offset : i \in D} |->
               t.slots[CHOOSE i \in D : (IF i = 0 THEN 0 ELSE i + offset) = j]]
  BY DEF Resized
<1> HIDE DEF offset, place, new
<1>4. \A i, j \in D : place[i] = place[j] => i = j
  <2>1. \A i \in D : i \in Nat
    OBVIOUS
  <2> HIDE DEF D
  <2> QED
    BY <1>1, <1>2, <2>1
<1>5. /\ DOMAIN new = {place[i] : i \in D}
      /\ \A j \in DOMAIN new : new[j] = t.slots[CHOOSE i \in D : place[i] = j]
  <2>1. \A j : (CHOOSE i \in D : (IF i = 0 THEN 0 ELSE i + offset) = j) = (CHOOSE i \in D : place[i] = j)
    BY <1>2
  <2>2. {place[i] : i \in D} = {IF i = 0 THEN 0 ELSE i + offset : i \in D}
    BY <1>2
  <2> HIDE DEF D
  <2> QED
    BY <1>3, <2>1, <2>2
<1> HIDE DEF D
<1>6. ASSUME NEW j \in DOMAIN new PROVE \E i \in D : place[i] = j /\ new[j] = t.slots[i]
  <2>1. \E i \in D : place[i] = j
    BY <1>5
  <2> DEFINE c == CHOOSE i \in D : place[i] = j
  <2>2. c \in D /\ place[c] = j
    BY <2>1
  <2> QED
    BY <1>5, <2>2
<1>7. Moves(t.slots, place, new)
  BY <1>4, <1>5, <1>6 DEF Moves, D
<1> QED
  BY <1>7 DEF place, new

\* And to the hash map, to their keys.
KeysOf(t, min) == [s \in DOMAIN t.slots |-> KeyOf(s, min)]

\* MoveEntryArrayTableToHashMap finds the key of each slot.
LEMMA ToMapMoves ==
  ASSUME FixedMap, NEW t, NEW min, NEW ks, HaveSlots(ks, min), DOMAIN t.slots = {Slot(k, min) : k \in ks}
  PROVE  Moves(t.slots, KeysOf(t, min), MovedToMap(t, min)) /\ DOMAIN MovedToMap(t, min) = ks
<1> DEFINE D == DOMAIN t.slots
           place == KeysOf(t, min)
           new == MovedToMap(t, min)
<1>1. \A s \in D : place[s] = KeyOf(s, min)
  BY DEF KeysOf
<1>2. new = [k \in {KeyOf(s, min) : s \in D} |-> t.slots[CHOOSE s \in D : KeyOf(s, min) = k]]
  BY DEF MovedToMap
<1>3. \A s \in D : \E k \in ks : s = Slot(k, min)
  OBVIOUS
<1>4. \A k \in ks : Slot(k, min) \in D /\ KeyOf(Slot(k, min), min) = k
  BY SlotsOneToOne
<1> HIDE DEF D, place, new
<1>5. \A i, j \in D : place[i] = place[j] => i = j
  BY <1>1, <1>3, <1>4
<1>6. \A j \in DOMAIN new : \E i \in D : place[i] = j /\ new[j] = t.slots[i]
  <2>1. ASSUME NEW j \in DOMAIN new PROVE \E i \in D : place[i] = j /\ new[j] = t.slots[i]
    <3>1. \E s \in D : KeyOf(s, min) = j
      BY <1>2
    <3> DEFINE c == CHOOSE s \in D : KeyOf(s, min) = j
    <3>2. c \in D /\ KeyOf(c, min) = j
      BY <3>1
    <3>3. new[j] = t.slots[c]
      BY <1>2
    <3> HIDE DEF c
    <3> QED
      BY <1>1, <3>2, <3>3
  <2> QED
    BY <2>1
<1>7. \A i \in D : place[i] \in DOMAIN new
  BY <1>1, <1>2
<1>8. DOMAIN new = ks
  <2>1. DOMAIN new = {KeyOf(s, min) : s \in D}
    BY <1>2
  <2>2. \A k \in ks : k \in DOMAIN new
    BY <1>4, <2>1
  <2>3. ASSUME NEW k \in DOMAIN new PROVE k \in ks
    <3>1. PICK s \in D : k = KeyOf(s, min)
      BY <2>1
    <3> QED
      BY <1>3, <1>4, <3>1
  <2> QED
    BY <2>2, <2>3
<1>9. Moves(t.slots, place, new)
  BY <1>5, <1>6, <1>7 DEF Moves, D
<1> QED
  BY <1>8, <1>9 DEF place, new

-----------------------------------------------------------------------------
(* AddInput.                                                               *)

Batch(keys) == [i \in DOMAIN keys |-> [key |-> keys[i], id |-> Len(given) + i]]

GivenTo(keys, n) ==
  /\ Numbered' /\ Len(given') = Len(given) + n
  /\ \A x \in 1 .. Len(given) : KeyAt'[x] = KeyAt[x]
  /\ \A i \in 1 .. n : KeyAt'[Len(given) + i] = keys[i]
  /\ KeysGiven' = KeysGiven \cup ToSet(keys)

\* The rows of a batch follow those given before.
LEMMA BatchGiven ==
  ASSUME Numbered, NEW n \in Nat, NEW keys \in [1 .. n -> Keys], given' = given \o Batch(keys)
  PROVE  GivenTo(keys, n)
<1> DEFINE N == Len(given)
           rows == Batch(keys)
           all == given \o rows
<1>1. N \in Nat /\ given \in Seq(Row) /\ \A i \in 1 .. N : given[i] \in Row /\ given[i].id = i
  BY LenProperties, ElementOfSeq DEF Numbered
<1>2. rows \in [1 .. n -> Row] /\ \A i \in 1 .. n : rows[i].key = keys[i] /\ rows[i].id = N + i
  BY <1>1 DEF Batch, Row
<1>3. rows \in Seq(Row) /\ Len(rows) = n
  BY <1>2
<1> HIDE DEF rows
<1>4. /\ all \in Seq(Row) /\ Len(all) = N + n
      /\ \A i \in 1 .. N : all[i] = given[i]
      /\ \A i \in 1 .. n : all[N + i] = rows[i]
  <2>1. all \in Seq(Row) /\ Len(all) = N + n
    BY <1>1, <1>3, ConcatProperties
  <2>2. \A i \in 1 .. N + n : all[i] = IF i <= N THEN given[i] ELSE rows[i - N]
    BY <1>1, <1>3, ConcatProperties
  <2>3. \A i \in 1 .. N : i \in 1 .. N + n /\ i <= N
    BY <1>1
  <2>4. \A i \in 1 .. n : N + i \in 1 .. N + n /\ ~(N + i <= N) /\ N + i - N = i
    BY <1>1
  <2> HIDE DEF all, N
  <2>5. \A i \in 1 .. N : all[i] = given[i]
    BY <2>2, <2>3
  <2>6. ASSUME NEW i \in 1 .. n PROVE all[N + i] = rows[i]
    <3>1. PICK j \in 1 .. N + n : j = N + i /\ ~(j <= N) /\ j - N = i
      <4>1. N \in Nat
        BY <1>1
      <4> QED
        BY <2>4, <4>1
    <3>2. all[j] = rows[j - N]
      BY <2>2, <3>1
    <3> QED
      BY <3>1, <3>2
  <2> QED
    BY <2>1, <2>5, <2>6
<1>5. given' = all
  BY DEF rows
<1> HIDE DEF all, N
<1>6. \A x \in 1 .. N + n : x \in 1 .. N \/ \E i \in 1 .. n : x = N + i
  <2>1. \A x \in 1 .. N + n : ~(x \in 1 .. N) => x - N \in 1 .. n /\ x = N + (x - N)
    BY <1>1
  <2> QED
    BY <2>1
<1>7. \A x \in 1 .. N : x \in 1 .. N + n
  BY <1>1
<1>8. \A i \in 1 .. n : N + i \in 1 .. N + n
  BY <1>1
<1>9. Numbered'
  <2>1. ASSUME NEW x \in 1 .. N + n PROVE all[x].id = x
    <3>1. CASE x \in 1 .. N
      BY <1>1, <1>4, <3>1
    <3>2. ASSUME NEW i \in 1 .. n, x = N + i PROVE all[x].id = x
      <4>1. all[x] = rows[i]
        BY <1>4, <3>2
      <4> QED
        BY <1>2, <3>2, <4>1
    <3> QED
      BY <1>6, <3>1, <3>2
  <2> QED
    BY <1>4, <1>5, <2>1 DEF Numbered
<1>10. KeyAt' = [x \in 1 .. N + n |-> all[x].key] /\ KeysGiven' = {all[x].key : x \in 1 .. N + n}
  BY <1>4, <1>5 DEF KeyAt, KeysGiven
<1>11. KeyAt = [x \in 1 .. N |-> given[x].key] /\ KeysGiven = {given[x].key : x \in 1 .. N}
  BY DEF KeyAt, KeysGiven, N
<1>12. \A x \in 1 .. N : KeyAt'[x] = KeyAt[x]
  BY <1>4, <1>7, <1>10, <1>11
<1>13. \A i \in 1 .. n : KeyAt'[N + i] = keys[i]
  BY <1>2, <1>4, <1>8, <1>10
<1>14. ToSet(keys) = {keys[i] : i \in 1 .. n}
  BY DEF ToSet
<1>15. KeysGiven' = KeysGiven \cup ToSet(keys)
  <2>1. ASSUME NEW k \in KeysGiven' PROVE k \in KeysGiven \cup ToSet(keys)
    <3>1. PICK x \in 1 .. N + n : k = all[x].key
      BY <1>10, <2>1
    <3>2. CASE x \in 1 .. N
      BY <1>4, <1>11, <3>1, <3>2
    <3>3. ASSUME NEW i \in 1 .. n, x = N + i PROVE k \in ToSet(keys)
      BY <1>2, <1>4, <1>14, <3>1, <3>3
    <3> QED
      BY <1>6, <3>2, <3>3
  <2>2. ASSUME NEW k \in KeysGiven PROVE k \in KeysGiven'
    <3>1. PICK x \in 1 .. N : k = given[x].key
      BY <1>11, <2>2
    <3> QED
      BY <1>4, <1>7, <1>10, <3>1
  <2>3. ASSUME NEW k \in ToSet(keys) PROVE k \in KeysGiven'
    <3>1. PICK i \in 1 .. n : k = keys[i]
      BY <1>14, <2>3
    <3> QED
      BY <1>2, <1>4, <1>8, <1>10, <3>1
  <2> QED
    BY <2>1, <2>2, <2>3
<1> QED
  BY <1>4, <1>5, <1>9, <1>12, <1>13, <1>15 DEF GivenTo, N

\* A batch goes into the map.
LEMMA MapWithBatch ==
  ASSUME NEW N \in Nat, NEW n \in Nat, NEW keys \in [1 .. n -> Keys], NEW of, NEW of2,
         \A x \in 1 .. N : of2[x] = of[x], \A i \in 1 .. n : of2[N + i] = keys[i],
         NEW fs, Len(fs) \in Nat, NEW w, NEW h, SpilledOf(N, of, fs, w, h),
         NEW ks, NEW m, MapHas(N, of, ks, m, fs, w, h)
  PROVE  /\ SpilledOf(N + n, of2, fs, w, Longer(h, N, n))
         /\ MapHas(N + n, of2, ks \cup ToSet(keys), Emplaced(m, keys, N), fs, w, Longer(h, N, n))
<1> DEFINE S == CountedOf(N, h, 0)
           xs == StatesOf(keys, N)
           new == Aggregated(m, keys, xs)
           g == Longer(h, N, n)
<1>1. GivenMore(N, n, of2, fs, w, h)
  BY RowsGiven
<1>2. SpilledOf(N + n, of2, fs, w, g) /\ CountedOf(N + n, g, 0) = S \cup NewIds(N, n)
  BY <1>1 DEF GivenMore
<1>3. Len(keys) = n /\ DOMAIN keys = 1 .. n /\ IsIndexed(keys)
  BY DEF IsIndexed
<1>4. Holds(m, S, of2)
  <2>1. Holds(m, S, of)
    BY DEF MapHas
  <2>2. \A x \in S : of2[x] = of[x]
    BY DEF CountedOf
  <2> HIDE DEF S
  <2> QED
    BY <2>1, <2>2, HoldsAgain
<1>5. \A i \in 1 .. n : xs[i] = StateOf(<<N + i>>)
  BY <1>3 DEF StatesOf
<1>6. \A i \in 1 .. n : N + i \notin S /\ of2[N + i] = keys[i]
  BY DEF CountedOf
<1> HIDE DEF S, xs, g
<1>7. Emplaces(m, S, keys, N, of2, new)
  BY <1>3, <1>4, <1>5, <1>6, EmplacedHolds
<1> HIDE DEF new
<1>8. Holds(new, S \cup NewIds(N, n), of2) /\ DOMAIN new = DOMAIN m \cup ToSet(keys)
  <2>1. ToSet(keys) = {keys[i] : i \in 1 .. n}
    BY <1>3 DEF ToSet
  <2> QED
    BY <1>3, <1>7, <2>1 DEF Emplaces
<1>9. MapHas(N + n, of2, ks \cup ToSet(keys), new, fs, w, g)
  <2>1. ks = DOMAIN m \cup UNION {GroupsOf(w[j]) : j \in 1 .. Len(fs)}
    BY DEF MapHas
  <2>2. ks \cup ToSet(keys) = DOMAIN new \cup UNION {GroupsOf(w[j]) : j \in 1 .. Len(fs)}
    BY <1>8, <2>1
  <2> QED
    BY <1>2, <1>8, <2>2 DEF MapHas
<1>10. new = Emplaced(m, keys, N)
  BY DEF new, xs, Emplaced
<1> QED
  BY <1>2, <1>9, <1>10 DEF g

\* A batch goes into the array, which has slots for its keys.
LEMMA ArrayWithBatch ==
  ASSUME ArraysFit, ArrayRule, NEW N \in Nat, NEW n \in Nat, NEW keys \in [1 .. n -> Keys],
         NEW of, NEW of2, \A x \in 1 .. N : of2[x] = of[x], \A i \in 1 .. n : of2[N + i] = keys[i],
         NEW ks, NEW r, Fits(r), Within(ToSet(keys), r), NEW t, ArrayHas(N, of, ks, t, r.min)
  PROVE  ArrayHas(N + n, of2, ks \cup ToSet(keys), EmplaceToArrayMap(t, keys, N, r.min), r.min)
<1> DEFINE S == IF HasAgg THEN 1 .. N ELSE {}
           slot == [i \in DOMAIN keys |-> SlotOf(keys, i, r.min)]
           xs == StatesOf(keys, N)
           new == Aggregated(t.slots, slot, xs)
           at == [x \in 1 .. N |-> Slot(of[x], r.min)]
           at2 == [x \in 1 .. N + n |-> Slot(of2[x], r.min)]
<1>1. Len(keys) = n /\ DOMAIN keys = 1 .. n
  OBVIOUS
<1>2. ToSet(keys) = {keys[i] : i \in 1 .. n}
  BY <1>1 DEF ToSet
<1>3. \A i \in 1 .. n : slot[i] = Slot(keys[i], r.min)
  <2>1. ASSUME NEW i \in 1 .. n PROVE SlotOf(keys, i, r.min) = Slot(keys[i], r.min)
    <3>1. keys[i] \in Keys /\ keys[i] \in ToSet(keys)
      BY <1>2
    <3>2. Within({keys[i]}, r)
      BY <3>1 DEF Within
    <3> QED
      BY <3>1, <3>2, SlotIs
  <2> QED
    BY <1>1, <2>1
<1>4. Len(slot) = n /\ DOMAIN slot = 1 .. n /\ IsIndexed(slot)
  <2>1. slot \in [1 .. n -> {SlotOf(keys, i, r.min) : i \in 1 .. n}]
    BY <1>1
  <2> QED
    BY <2>1 DEF IsIndexed
<1>5. \A i \in 1 .. n : xs[i] = StateOf(<<N + i>>)
  BY <1>1 DEF StatesOf
<1>6. Holds(t.slots, S, at2)
  <2>1. Holds(t.slots, S, at)
    BY DEF ArrayHas
  <2>2. \A x \in 1 .. N : x \in 1 .. N + n
    OBVIOUS
  <2>3. \A x \in S : at2[x] = at[x]
    BY <2>2
  <2> HIDE DEF S, at, at2
  <2> QED
    BY <2>1, <2>3, HoldsAgain
<1>7. \A i \in 1 .. n : N + i \notin S /\ at2[N + i] = slot[i]
  <2>1. \A i \in 1 .. n : N + i \in 1 .. N + n /\ N + i \notin 1 .. N
    OBVIOUS
  <2> HIDE DEF slot
  <2> QED
    BY <1>3, <2>1
<1>8. S \cup NewIds(N, n) = IF HasAgg THEN 1 .. N + n ELSE {}
  <2>1. 1 .. N + n = 1 .. N \cup N + 1 .. N + n
    OBVIOUS
  <2> QED
    BY <2>1 DEF NewIds
<1> HIDE DEF S, slot, xs, at, at2
<1>9. Emplaces(t.slots, S, slot, N, at2, new)
  BY <1>4, <1>5, <1>6, <1>7, EmplacedHolds
<1> HIDE DEF new
<1>10. Holds(new, IF HasAgg THEN 1 .. N + n ELSE {}, at2)
  BY <1>4, <1>8, <1>9 DEF Emplaces
<1>11. DOMAIN new = {Slot(k, r.min) : k \in ks \cup ToSet(keys)}
  <2>1. DOMAIN new = DOMAIN t.slots \cup {slot[i] : i \in 1 .. n}
    BY <1>4, <1>9 DEF Emplaces
  <2>2. DOMAIN t.slots = {Slot(k, r.min) : k \in ks}
    BY DEF ArrayHas
  <2>3. {slot[i] : i \in 1 .. n} = {Slot(k, r.min) : k \in ToSet(keys)}
    BY <1>2, <1>3
  <2> QED
    BY <2>1, <2>2, <2>3
<1>12. EmplaceToArrayMap(t, keys, N, r.min) = [t EXCEPT !.slots = new]
  BY DEF EmplaceToArrayMap, new, slot, xs
<1> DEFINE t2 == [t EXCEPT !.slots = new]
<1>13. DOMAIN t = {"size", "slots"}
  BY DEF ArrayHas
<1>14. t2.slots = new /\ DOMAIN t2 = {"size", "slots"}
  BY <1>13
<1> HIDE DEF t2
<1>15. ArrayHas(N + n, of2, ks \cup ToSet(keys), t2, r.min)
  BY <1>10, <1>11, <1>14 DEF ArrayHas, at2
<1> QED
  BY <1>12, <1>15 DEF t2

\* The array is resized.
LEMMA ArrayResized ==
  ASSUME NEW N \in Nat, NEW of, NEW ks, NEW min, HaveSlots(ks, min), \A x \in 1 .. N : of[x] \in ks,
         NEW t, ArrayHas(N, of, ks, t, min), NEW r, r.min \in Int, r.min <= min
  PROVE  ArrayHas(N, of, ks, Resized(t, min, r), r.min)
<1> DEFINE S == IF HasAgg THEN 1 .. N ELSE {}
           at == [x \in 1 .. N |-> Slot(of[x], min)]
           at2 == [x \in 1 .. N |-> Slot(of[x], r.min)]
           new == Resized(t, min, r)
           place == Shift(t, min, r.min)
<1>1. min \in Int /\ DOMAIN t.slots = {Slot(k, min) : k \in ks}
  BY DEF HaveSlots, ArrayHas
<1>2. DOMAIN t.slots \in SUBSET Nat
  BY <1>1, SlotsOneToOne
<1>3. Moves(t.slots, place, new.slots)
  BY <1>1, <1>2, ResizedMoves
<1>4. ASSUME NEW k \in ks PROVE Slot(k, min) \in DOMAIN t.slots /\ place[Slot(k, min)] = Slot(k, r.min)
  <2>1. Slot(k, min) \in DOMAIN t.slots
    BY <1>1
  <2>2. place[Slot(k, min)] = IF Slot(k, min) = 0 THEN 0 ELSE Slot(k, min) + (min - r.min)
    BY <2>1 DEF Shift
  <2>3. CASE k = Null
    BY <2>1, <2>2, <2>3 DEF Slot
  <2>4. CASE k # Null
    <3>1. k \in Int /\ k >= min /\ Slot(k, min) = k - min + 1 /\ Slot(k, r.min) = k - r.min + 1
      BY <2>4 DEF HaveSlots, Slot
    <3>2. k - min + 1 # 0 /\ k - min + 1 + (min - r.min) = k - r.min + 1
      BY <1>1, <3>1
    <3> HIDE DEF place
    <3> QED
      BY <2>1, <2>2, <3>1, <3>2
  <2> QED
    BY <2>3, <2>4
<1> HIDE DEF place
<1>5. Holds(t.slots, S, at)
  BY DEF ArrayHas
<1>6. \A x \in S : at2[x] = place[at[x]]
  BY <1>4
<1> HIDE DEF S, at, at2, new
<1>7. Holds(new.slots, S, at2)
  BY <1>3, <1>5, <1>6, MovedHolds
<1>8. DOMAIN new.slots = {Slot(k, r.min) : k \in ks}
  <2>1. ASSUME NEW j \in DOMAIN new.slots PROVE \E k \in ks : j = Slot(k, r.min)
    <3>1. PICK i \in DOMAIN t.slots : place[i] = j
      BY <1>3 DEF Moves
    <3>2. PICK k \in ks : i = Slot(k, min)
      BY <1>1
    <3> QED
      BY <1>4, <3>1, <3>2
  <2>2. ASSUME NEW k \in ks PROVE Slot(k, r.min) \in DOMAIN new.slots
    BY <1>3, <1>4 DEF Moves
  <2> QED
    BY <2>1, <2>2
<1>9. DOMAIN new = {"size", "slots"}
  BY DEF new, Resized
<1>10. ArrayHas(N, of, ks, new, r.min)
  BY <1>7, <1>8, <1>9 DEF ArrayHas, S, at2
<1> QED
  BY <1>10 DEF new

\* The rows not in runs, when there are none.
LEMMA AllInMemory ==
  ASSUME NEW n \in Nat, NEW of, NEW w, NEW h, SpilledOf(n, of, <<>>, w, h)
  PROVE  CountedOf(n, h, 0) = IF HasAgg THEN 1 .. n ELSE {}
<1>1. \A x \in 1 .. n : h[x] = 0
  BY DEF SpilledOf
<1> QED
  BY <1>1 DEF CountedOf

\* The groups of the array have slots.
LEMMA KeysHaveSlots ==
  ASSUME Numbered, Fits(range), Within(KeysGiven, range)
  PROVE  HaveSlots(KeysGiven, range.min) /\ \A x \in 1 .. Len(given) : KeyAt[x] \in KeysGiven
<1>1. range.min \in TMin .. TMax /\ range.max \in TMin .. TMax /\ TMin \in Int /\ TMax \in Int
  BY TypesAssumption DEF Fits
<1>2. \A k \in KeysGiven : k # Null => k \in Int /\ k >= range.min
  BY <1>1 DEF Within
<1>3. KeysGiven \in SUBSET Keys
  BY FewKeys
<1>4. \A x \in 1 .. Len(given) : KeyAt[x] \in KeysGiven
  BY DEF KeyAt, KeysGiven
<1> QED
  BY <1>1, <1>2, <1>3, <1>4 DEF HaveSlots

\* The groups AddToMap begins with: those of the map, or of the array moved to it.
OldGroups(newMin) == IF table = NoTable THEN map ELSE MovedToMap(table, MinOfTable(range.min, newMin))

\* They are all groups not in runs.
LEMMA OldGroupsAre ==
  ASSUME ArraysFit, Numbered, NEW w, NEW h, Spilled(w, h), InMem(w, h), NEW newMin
  PROVE  MapHas(Len(given), KeyAt, KeysGiven, OldGroups(newMin), files, w, h)
<1>1. CASE ~arrayMode
  BY <1>1 DEF InMem, InMap, OldGroups
<1>2. CASE arrayMode /\ table = NoTable
  <2>1. files = <<>> /\ map = EmptyMap /\ given = <<>>
    BY <1>2 DEF InMem, InArray
  <2>2. KeysGiven = {} /\ CountedOf(Len(given), h, 0) = {} /\ DOMAIN EmptyMap = {}
    BY <2>1 DEF KeysGiven, CountedOf, EmptyMap
  <2>3. Holds(map, {}, KeyAt)
    BY <2>1, <2>2 DEF Holds
  <2>4. {} = DOMAIN map \cup UNION {GroupsOf(w[j]) : j \in 1 .. Len(files)}
    BY <2>1, <2>2
  <2>5. OldGroups(newMin) = map
    BY <1>2 DEF OldGroups
  <2> QED
    BY <2>2, <2>3, <2>4, <2>5 DEF MapHas
<1>3. CASE arrayMode /\ table # NoTable
  <2> DEFINE N == Len(given)
             S == CountedOf(N, h, 0)
             at == [x \in 1 .. N |-> Slot(KeyAt[x], range.min)]
             new == MovedToMap(table, range.min)
             place == KeysOf(table, range.min)
  <2>1. /\ files = <<>> /\ ArrayRule /\ Fits(range) /\ Within(KeysGiven, range)
        /\ ArrayHas(N, KeyAt, KeysGiven, table, range.min)
    BY <1>3 DEF InMem, InArray
  <2>2. FixedMap
    BY <2>1 DEF ArraysFit
  <2>3. HaveSlots(KeysGiven, range.min) /\ \A x \in 1 .. N : KeyAt[x] \in KeysGiven
    BY <2>1, KeysHaveSlots
  <2>4. N \in Nat
    BY LenProperties DEF Numbered
  <2>5. S = IF HasAgg THEN 1 .. N ELSE {}
    BY <2>1, <2>4, AllInMemory DEF Spilled
  <2>6. DOMAIN table.slots = {Slot(k, range.min) : k \in KeysGiven}
    BY <2>1 DEF ArrayHas
  <2>7. Moves(table.slots, place, new) /\ DOMAIN new = KeysGiven
    BY <2>2, <2>3, <2>6, ToMapMoves
  <2>8. Holds(table.slots, S, at)
    BY <2>1, <2>5 DEF ArrayHas
  <2>9. \A x \in S : KeyAt[x] = place[at[x]]
    <3>1. ASSUME NEW x \in 1 .. N PROVE KeyAt[x] = place[Slot(KeyAt[x], range.min)]
      <4>1. KeyAt[x] \in KeysGiven
        BY <2>3
      <4>2. Slot(KeyAt[x], range.min) \in DOMAIN table.slots
        BY <2>6, <4>1
      <4>3. KeyOf(Slot(KeyAt[x], range.min), range.min) = KeyAt[x]
        BY <2>3, <4>1, SlotsOneToOne
      <4> QED
        BY <4>2, <4>3 DEF KeysOf
    <3>2. \A x \in S : x \in 1 .. N
      BY DEF CountedOf
    <3> HIDE DEF place
    <3> QED
      BY <3>1, <3>2
  <2> HIDE DEF S, at, place, new
  <2>10. Holds(new, S, KeyAt)
    BY <2>7, <2>8, <2>9, MovedHolds
  <2>11. KeysGiven = DOMAIN new \cup UNION {GroupsOf(w[j]) : j \in 1 .. Len(files)}
    BY <2>1, <2>7
  <2>12. OldGroups(newMin) = new
    BY <1>3 DEF OldGroups, MinOfTable, new
  <2> QED
    BY <2>10, <2>11, <2>12 DEF MapHas, S
<1> QED
  BY <1>1, <1>2, <1>3

Kept(w, h) == Spilled(w, h) /\ InMem(w, h)
SomeKept == \E w, h : Kept(w, h)

\* AddToMap keeps every row, in the map or in the runs.
LEMMA MapKeeps ==
  ASSUME ArraysFit, Numbered, files \in Seq(FileRec), SomeKept,
         NEW n \in Nat, NEW keys \in [1 .. n -> Keys], GivenTo(keys, n), NEW mode, AddToMap(keys, mode)
  PROVE  SomeKept' /\ files' \in Seq(FileRec)
<1> DEFINE N == Len(given)
           old == OldGroups(mode.range.min)
           new == Emplaced(old, keys, N)
           ks == KeysGiven \cup ToSet(keys)
<1>1. PICK w, h : Spilled(w, h) /\ InMem(w, h)
  BY DEF SomeKept, Kept
<1>2. N \in Nat /\ Len(files) \in Nat
  BY LenProperties DEF Numbered
<1>3. MapHas(N, KeyAt, KeysGiven, old, files, w, h)
  BY <1>1, OldGroupsAre
<1>4. SpilledOf(N, KeyAt, files, w, h)
  BY <1>1 DEF Spilled
<1>5. /\ \A x \in 1 .. N : KeyAt'[x] = KeyAt[x]
      /\ \A i \in 1 .. n : KeyAt'[N + i] = keys[i]
      /\ Len(given') = N + n /\ KeysGiven' = ks
  BY DEF GivenTo
<1>6. /\ arrayMode' = FALSE /\ table' = NoTable
      /\ \/ map' = new /\ files' = files
         \/ map' = EmptyMap /\ files' = Append(files, SpillFile(new))
  BY DEF AddToMap, OldGroups
<1> HIDE DEF old, new, ks, N
<1>a. PICK g : g = Longer(h, N, n)
  OBVIOUS
<1>7. SpilledOf(N + n, KeyAt', files, w, g) /\ MapHas(N + n, KeyAt', ks, new, files, w, g)
  BY <1>2, <1>3, <1>4, <1>5, <1>a, MapWithBatch DEF new, ks
<1>8. CASE map' = new /\ files' = files
  <2>1. Spilled(w, g)'
    BY <1>5, <1>7, <1>8 DEF Spilled
  <2>2. InMap(w, g)'
    BY <1>5, <1>6, <1>7, <1>8 DEF InMap
  <2> QED
    BY <1>6, <1>8, <2>1, <2>2 DEF SomeKept, Kept, InMem
<1>9. CASE map' = EmptyMap /\ files' = Append(files, SpillFile(new))
  <2>1. IsFiniteSet(ks) /\ ks \in SUBSET Keys
    <3>1. IsFiniteSet(KeysGiven) /\ KeysGiven \in SUBSET Keys
      BY FewKeys
    <3>2. ToSet(keys) = {keys[i] : i \in 1 .. n}
      BY DEF ToSet
    <3>3. IsFiniteSet(ToSet(keys)) /\ ToSet(keys) \in SUBSET Keys
      BY <3>2, FiniteImage
    <3> QED
      BY <3>1, <3>3, FS_Union DEF ks
  <2> DEFINE fs == Append(files, SpillFile(new))
  <2>2. SpillsTo(N + n, KeyAt', ks, fs) /\ SpillFile(new) \in FileRec
    BY <1>2, <1>7, <2>1, AnotherRun
  <2>3. fs \in Seq(FileRec)
    BY <2>2, AppendProperties
  <2> HIDE DEF fs
  <2>4. PICK v, e : SpilledOf(N + n, KeyAt', fs, v, e) /\ MapHas(N + n, KeyAt', ks, EmptyMap, fs, v, e)
    BY <2>2 DEF SpillsTo
  <2>5. files' = fs
    BY <1>9 DEF fs
  <2>6. Spilled(v, e)'
    BY <1>5, <2>4, <2>5 DEF Spilled
  <2>7. InMap(v, e)'
    BY <1>5, <1>6, <1>9, <2>4, <2>5 DEF InMap
  <2> QED
    BY <1>6, <2>3, <2>5, <2>6, <2>7 DEF SomeKept, Kept, InMem
<1> QED
  BY <1>6, <1>8, <1>9

\* AddToArray keeps every row in the array, unless the call fails.
LEMMA ArrayKeeps ==
  ASSUME ArraysFit, ArrayRule, arrayMode, Numbered, SomeKept, pc = "idle",
         NEW n \in Nat \ {0}, NEW keys \in [1 .. n -> Keys], GivenTo(keys, n),
         NEW mode, mode = CheckArrayMap(keys), mode.array, range' = mode.range, AddToArray(keys, mode)
  PROVE  pc' # "failed" => SomeKept'
<1> DEFINE N == Len(given)
           ks == KeysGiven \cup ToSet(keys)
           r == mode.range
           t == IF table = NoTable THEN [size |-> GetRange(r), slots |-> <<>>]
                ELSE IF mode.changed THEN Resized(table, range.min, r) ELSE table
           t2 == EmplaceToArrayMap(t, keys, N, r.min)
<1> SUFFICES ASSUME pc' # "failed" PROVE SomeKept'
  OBVIOUS
<1>1. PICK w, h : Spilled(w, h) /\ InMem(w, h)
  BY DEF SomeKept, Kept
<1>2. N \in Nat /\ Len(files) \in Nat
  <2>1. files = <<>>
    BY <1>1 DEF InMem, InArray
  <2> QED
    BY <2>1, LenProperties DEF Numbered
<1>3. InArray
  BY <1>1 DEF InMem
<1>4. /\ table' = t2 /\ arrayMode' = TRUE /\ map' = map /\ files' = files
      /\ ~(table # NoTable /\ mode.changed /\ ResizeFails(table, r))
  BY DEF AddToArray
<1>5. /\ \A x \in 1 .. N : KeyAt'[x] = KeyAt[x]
      /\ \A i \in 1 .. n : KeyAt'[N + i] = keys[i]
      /\ Len(given') = N + n /\ KeysGiven' = ks
  BY DEF GivenTo
<1>6. ToSet(keys) = {keys[i] : i \in 1 .. n} /\ ToSet(keys) \in SUBSET Keys /\ ToSet(keys) # {}
  BY DEF ToSet
<1>7. range = NoRange \/ Fits(range)
  BY <1>3 DEF InArray
<1>8. range # NoRange => table # NoTable /\ Fits(range) /\ Within(KeysGiven, range)
  BY <1>3 DEF InArray
<1>9. Serves(ToSet(keys), mode)
  <2>1. range # NoRange /\ mode.changed => ~(GetRange(r) <= 1)
    BY <1>4, <1>8 DEF ResizeFails
  <2> QED
    BY <1>6, <1>7, <2>1, RangeServes
<1>10. r.min \in Int /\ Fits(r) /\ Within(ToSet(keys), r)
  <2>1. Fits(r) /\ Within(ToSet(keys), r)
    BY <1>9 DEF Serves
  <2>2. r.min \in TMin .. TMax
    BY <2>1 DEF Fits
  <2> QED
    BY <2>1, <2>2, TypesAssumption
<1>11. ArrayHas(N, KeyAt, KeysGiven, t, r.min)
  <2>1. CASE table = NoTable
    <3>1. given = <<>> /\ N = 0 /\ KeysGiven = {}
      BY <1>3, <2>1 DEF InArray, KeysGiven
    <3>2. t.slots = <<>> /\ DOMAIN t = {"size", "slots"} /\ DOMAIN t.slots = {}
      BY <2>1
    <3> HIDE DEF t, r, N
    <3>3. (IF HasAgg THEN 1 .. N ELSE {}) = {}
      BY <3>1
    <3>4. Holds(t.slots, {}, [x \in 1 .. N |-> Slot(KeyAt[x], r.min)])
      BY <3>2 DEF Holds
    <3> QED
      BY <3>1, <3>2, <3>3, <3>4 DEF ArrayHas
  <2>2. CASE table # NoTable
    <3>1. Fits(range) /\ Within(KeysGiven, range) /\ ArrayHas(N, KeyAt, KeysGiven, table, range.min)
      BY <1>3, <2>2 DEF InArray
    <3>2. HaveSlots(KeysGiven, range.min) /\ \A x \in 1 .. N : KeyAt[x] \in KeysGiven
      BY <3>1, KeysHaveSlots
    <3>3. range # NoRange
      <4>1. range.init = TRUE
        BY <3>1 DEF Fits
      <4>2. NoRange.init = FALSE
        BY DEF NoRange
      <4> QED
        BY <4>1, <4>2
    <3>4. r.min <= range.min /\ (~mode.changed => r = range)
      BY <1>9, <3>3 DEF Serves
    <3>5. CASE mode.changed
      <4>1. ArrayHas(N, KeyAt, KeysGiven, Resized(table, range.min, r), r.min)
        BY <1>2, <1>10, <3>1, <3>2, <3>4, ArrayResized
      <4> QED
        BY <2>2, <3>5, <4>1
    <3>6. CASE ~mode.changed
      BY <2>2, <3>1, <3>4, <3>6
    <3> QED
      BY <3>5, <3>6
  <2> QED
    BY <2>1, <2>2
<1>12. Within(KeysGiven, r)
  <2>1. CASE table = NoTable
    <3>1. KeysGiven = {}
      BY <1>3, <2>1 DEF InArray, KeysGiven
    <3> QED
      BY <3>1 DEF Within
  <2>2. CASE table # NoTable
    <3>1. Fits(range) /\ Within(KeysGiven, range)
      BY <1>3, <2>2 DEF InArray
    <3>2. range # NoRange
      <4>1. range.init = TRUE
        BY <3>1 DEF Fits
      <4>2. NoRange.init = FALSE
        BY DEF NoRange
      <4> QED
        BY <4>1, <4>2
    <3>3. r.min <= range.min /\ range.max <= r.max
      BY <1>9, <3>2 DEF Serves
    <3>4. /\ range.min \in TMin .. TMax /\ range.max \in TMin .. TMax
          /\ r.min \in TMin .. TMax /\ r.max \in TMin .. TMax /\ TMin \in Int /\ TMax \in Int
      BY <1>10, <3>1, TypesAssumption DEF Fits
    <3> HIDE DEF r
    <3> QED
      BY <3>1, <3>3, <3>4 DEF Within
  <2> QED
    BY <2>1, <2>2
<1> HIDE DEF t, N, ks
<1>13. ArrayHas(N + n, KeyAt', ks, t2, r.min)
  BY <1>2, <1>5, <1>10, <1>11, ArrayWithBatch DEF ks
<1>14. Within(ks, r)
  BY <1>10, <1>12 DEF Within, ks
<1>15. t2 # NoTable
  <2>1. DOMAIN t2.slots # {}
    <3>1. PICK k : k \in ToSet(keys)
      BY <1>6
    <3>2. Slot(k, r.min) \in DOMAIN t2.slots
      BY <1>13, <3>1 DEF ArrayHas, ks
    <3> QED
      BY <3>2
  <2>2. NoTable.slots = <<>> /\ DOMAIN NoTable.slots = {}
    BY DEF NoTable
  <2> QED
    BY <2>1, <2>2
<1>16. given' # <<>>
  BY <1>2, <1>5 
<1> HIDE DEF t2
<1>17. InArray'
  <2>1. files' = <<>> /\ map' = EmptyMap
    BY <1>3, <1>4 DEF InArray
  <2>2. range' = r
    OBVIOUS
  <2>3. ArrayHas(Len(given'), KeyAt', KeysGiven', table', range'.min)
    BY <1>4, <1>5, <1>13
  <2>4. Fits(range') /\ Within(KeysGiven', range')
    BY <1>5, <1>10, <1>14
  <2>5. table' # NoTable
    BY <1>4, <1>15
  <2> QED
    BY <1>16, <2>1, <2>3, <2>4, <2>5 DEF InArray
<1>18. PICK g : g = Longer(h, N, n)
  OBVIOUS
<1>19. Spilled(w, g)'
  <2>1. SpilledOf(N, KeyAt, files, w, h)
    BY <1>1 DEF Spilled, N
  <2>2. n \in Nat
    OBVIOUS
  <2>3. GivenMore(N, n, KeyAt', files, w, h)
    BY <1>2, <1>5, <2>1, <2>2, RowsGiven
  <2>4. SpilledOf(N + n, KeyAt', files, w, g)
    BY <1>18, <2>3 DEF GivenMore
  <2> QED
    BY <1>4, <1>5, <2>4 DEF Spilled
<1> QED
  BY <1>4, <1>17, <1>19 DEF SomeKept, Kept, InMem

\* What is so between calls before the merger has opened its streams.
Waiting ==
  /\ pc = "idle" /\ streams = <<>> /\ result = <<>> /\ unspilled = <<>> /\ SomeKept
  /\ files # <<>> => ~arrayMode

\* Before the end of the input nothing is handed out and nothing merged.
LEMMA BeforeInput ==
  ASSUME AInv, pc = "idle", ~noMoreInput
  PROVE  Waiting /\ delivered = <<>> /\ outputted = 0 /\ finished = FALSE /\ spillRowOffset = 0
<1>1. Control /\ Phase
  BY DEF AInv
<1>2. PICK w, h : Where(w, h)
  BY DEF AInv
<1>3. streams = <<>> /\ result = <<>> /\ unspilled = <<>> /\ (files # <<>> => ~arrayMode)
  BY <1>1 DEF Phase
<1>4. Walked /\ Spilled(w, h) /\ InMem(w, h)
  BY <1>2, <1>3 DEF Where
<1>5. SomeKept
  BY <1>4 DEF SomeKept, Kept
<1>6. delivered = <<>> /\ outputted = 0 /\ ~finished /\ spillRowOffset = 0
  BY <1>4 DEF Walked
<1>7. finished \in BOOLEAN
  BY <1>1 DEF Control
<1> QED
  BY <1>3, <1>5, <1>6, <1>7 DEF Waiting

\* Nothing delivered, nothing finished.
LEMMA NothingIsExact ==
  ASSUME delivered' = <<>>, finished' = FALSE
  PROVE  GroupsAreExact'
<1>1. {delivered'[i].key : i \in DOMAIN delivered'} = {} /\ Len(delivered') = 0 /\ DOMAIN delivered' = {}
  OBVIOUS
<1>2. Cardinality({}) = 0
  BY FS_EmptySet
<1> QED
  BY <1>1, <1>2 DEF GroupsAreExact

\* AddInput keeps every row.
LEMMA AddInputStep == ASSUME ArraysFit, AInv, AddInput PROVE AInv'
<1>1. Waiting /\ delivered = <<>> /\ outputted = 0 /\ finished = FALSE /\ spillRowOffset = 0
  BY BeforeInput DEF AddInput
<1>2. Control
  BY DEF AInv
<1>3. pc = "idle" /\ ~noMoreInput
  BY DEF AddInput
<1>4. PICK keys \in UNION {[1 .. i -> Keys] : i \in 1 .. BatchRows}, dictionary \in BOOLEAN :
        LET mode == DecideHashMode(keys, dictionary)
        IN  /\ given' = given \o Batch(keys)
            /\ range' = mode.range
            /\ IF mode.array /\ ~(table # NoTable /\ mode.changed /\ resized >= 1)
               THEN AddToArray(keys, mode)
               ELSE AddToMap(keys, mode)
  BY DEF AddInput, Batch
<1>5. PICK n \in 1 .. BatchRows : keys \in [1 .. n -> Keys]
  OBVIOUS
<1> DEFINE mode == DecideHashMode(keys, dictionary)
<1>6. /\ given' = given \o Batch(keys) /\ range' = mode.range
      /\ \/ mode.array /\ AddToArray(keys, mode)
         \/ AddToMap(keys, mode)
  BY <1>4
<1>7. UNCHANGED <<noMoreInput, finished, delivered, outputted, streams, tree, mergeVars>>
  BY DEF AddInput
<1>8. Numbered /\ files \in Seq(FileRec) /\ SomeKept /\ (files # <<>> => ~arrayMode)
  BY <1>1, <1>2 DEF Control, Waiting
<1>9. GivenTo(keys, n) /\ n \in Nat \ {0}
  <2>1. n \in Nat \ {0}
    BY BoundsAssumption
  <2>2. n \in Nat
    BY <2>1
  <2> QED
    BY <1>5, <1>6, <1>8, <2>1, <2>2, BatchGiven
<1>10. mode.array => arrayMode /\ ArrayRule /\ mode = CheckArrayMap(keys)
  BY DEF DecideHashMode
<1> HIDE DEF mode
<1>11. /\ pc' # "failed" => SomeKept'
       /\ files' \in Seq(FileRec) /\ (files' # <<>> => ~arrayMode') /\ arrayMode' \in BOOLEAN
       /\ pc' \in {"idle", "failed"}
  <2>1. CASE mode.array /\ AddToArray(keys, mode)
    <3>1. pc' # "failed" => SomeKept'
      BY <1>3, <1>5, <1>6, <1>8, <1>9, <1>10, <2>1, ArrayKeeps
    <3>2. files' = files /\ pc' \in {"idle", "failed"} /\ arrayMode' = TRUE
      BY <1>3, <2>1 DEF AddToArray
    <3> QED
      BY <1>8, <1>10, <2>1, <3>1, <3>2
  <2>2. CASE AddToMap(keys, mode)
    <3>1. SomeKept' /\ files' \in Seq(FileRec)
      BY <1>5, <1>8, <1>9, <2>2, MapKeeps
    <3>2. pc' = "idle" /\ arrayMode' = FALSE
      BY <1>3, <2>2 DEF AddToMap
    <3> QED
      BY <3>1, <3>2
  <2> QED
    BY <1>6, <2>1, <2>2
<1>12. Control'
  BY <1>2, <1>7, <1>9, <1>11 DEF Control, GivenTo, mergeVars
<1>13. GroupsAreExact'
  BY <1>1, <1>7, NothingIsExact
<1>14. streams' = <<>> /\ noMoreInput' = FALSE /\ finished' = FALSE /\ delivered' = <<>>
       /\ outputted' = 0 /\ spillRowOffset' = 0 /\ result' = <<>> /\ unspilled' = <<>>
  <2>1. noMoreInput = FALSE
    BY <1>2, <1>3 DEF Control
  <2> QED
    BY <1>1, <1>7, <2>1 DEF Waiting, mergeVars
<1>15. ASSUME pc' # "failed" PROVE Phase' /\ \E w, h : Where(w, h)'
  <2>1. Phase'
    BY <1>11, <1>14, <1>15 DEF Phase
  <2>2. PICK w, h : Kept(w, h)'
    BY <1>11, <1>15 DEF SomeKept
  <2>3. Walked'
    BY <1>14 DEF Walked
  <2>4. Where(w, h)'
    BY <1>14, <2>2, <2>3 DEF Where, Kept
  <2> QED
    BY <2>1, <2>4
<1> QED
  BY <1>12, <1>13, <1>15 DEF AInv

-----------------------------------------------------------------------------
(* Output from memory.                                                     *)

\* The groups of D in some order, that at s with the key key[s] and the rows rows[s].
Listed(D, walk, key, rows) ==
  /\ IsListing(D, walk)
  /\ \A s \in D : key[s] \in KeysGiven /\ rows[s] \in Seq(Nat)
  /\ \A s, t \in D : key[s] = key[t] => s = t
  /\ \A k \in KeysGiven : \E s \in D : key[s] = k
  /\ HasAgg => \A s \in D : IsRows(rows[s], {x \in 1 .. Len(given) : KeyAt[x] = key[s]})

\* Listed in any order all groups are exact.
LEMMA ListedIsExact ==
  ASSUME Numbered, NEW D, NEW walk, NEW key, NEW rows, Listed(D, walk, key, rows), NEW out,
         out = [i \in 1 .. Len(walk) |-> Group(key[walk[i]], rows[walk[i]])]
  PROVE  Exact(out, TRUE)
<1> DEFINE n == Len(walk)
<1>1. /\ n \in Nat /\ \A i \in 1 .. n : walk[i] \in D
      /\ \A i, j \in 1 .. n : i # j => walk[i] # walk[j]
      /\ \A s \in D : \E i \in 1 .. n : walk[i] = s
  <2>1. walk \in Seq(D)
    BY DEF Listed, IsListing
  <2> QED
    BY <2>1, LenProperties, ElementOfSeq DEF Listed, IsListing, OneToOne
<1>2. KeysGiven \in SUBSET Keys
  BY FewKeys
<1> HIDE DEF n
<1>3. \A i \in 1 .. n : out[i] = [key |-> key[walk[i]], rows |-> rows[walk[i]]]
  BY DEF Group, n
<1>a. /\ \A s \in D : key[s] \in Keys /\ key[s] \in KeysGiven /\ rows[s] \in Seq(Nat)
      /\ \A s, t \in D : key[s] = key[t] => s = t
      /\ \A k \in KeysGiven : \E s \in D : key[s] = k
  BY <1>2 DEF Listed
<1>4. \A i \in 1 .. n : out[i].key = key[walk[i]] /\ out[i].rows = rows[walk[i]] /\ out[i] \in GroupOut
  <2>1. ASSUME NEW i \in 1 .. n
        PROVE  out[i].key = key[walk[i]] /\ out[i].rows = rows[walk[i]] /\ out[i] \in GroupOut
    <3>1. walk[i] \in D /\ out[i] = [key |-> key[walk[i]], rows |-> rows[walk[i]]]
      BY <1>1, <1>3
    <3>2. key[walk[i]] \in Keys /\ rows[walk[i]] \in Seq(Nat)
      BY <1>a, <3>1
    <3> QED
      BY <3>1, <3>2 DEF GroupOut
  <2> QED
    BY <2>1
<1>5. out \in Seq(GroupOut) /\ Len(out) = n
  <2>1. out \in [1 .. n -> GroupOut]
    BY <1>4 DEF n
  <2> QED
    BY <1>1, <2>1
<1>6. \A i, j \in 1 .. n : i # j => out[i].key # out[j].key
  <2>1. ASSUME NEW i \in 1 .. n, NEW j \in 1 .. n, i # j PROVE out[i].key # out[j].key
    <3>1. walk[i] \in D /\ walk[j] \in D /\ walk[i] # walk[j]
      BY <1>1, <2>1
    <3>2. key[walk[i]] # key[walk[j]]
      BY <1>a, <3>1
    <3> QED
      BY <1>4, <3>2
  <2> QED
    BY <2>1
<1>7. \A i \in 1 .. n : out[i].key \in KeysGiven
  BY <1>1, <1>4, <1>a
<1>8. \A k \in KeysGiven : \E i \in 1 .. n : out[i].key = k
  <2>1. ASSUME NEW k \in KeysGiven PROVE \E i \in 1 .. n : out[i].key = k
    <3>1. PICK s \in D : key[s] = k
      BY <1>a
    <3>2. PICK i \in 1 .. n : walk[i] = s
      BY <1>1
    <3> QED
      BY <1>4, <3>1, <3>2
  <2> QED
    BY <2>1
<1>9. ASSUME HasAgg, NEW i \in 1 .. n
      PROVE  IsRows(out[i].rows, {x \in 1 .. Len(given) : KeyAt[x] = out[i].key})
  <2>1. walk[i] \in D /\ out[i].rows = rows[walk[i]] /\ out[i].key = key[walk[i]]
    BY <1>1, <1>4
  <2>2. IsRows(rows[walk[i]], {x \in 1 .. Len(given) : KeyAt[x] = key[walk[i]]})
    BY <1>9, <2>1 DEF Listed
  <2> QED
    BY <2>1, <2>2
<1> HIDE DEF n
<1>10. HasAgg => \A i \in 1 .. Len(out) : IsRows(out[i].rows, {x \in 1 .. Len(given) : KeyAt[x] = out[i].key})
  BY <1>5, <1>9
<1>11. \A i, j \in 1 .. Len(out) : i # j => out[i].key # out[j].key
  BY <1>5, <1>6
<1>12. /\ \A i \in 1 .. Len(out) : out[i].key \in KeysGiven
       /\ \A k \in KeysGiven : \E i \in 1 .. Len(out) : out[i].key = k
  BY <1>5, <1>7, <1>8
<1> QED
  BY <1>5, <1>10, <1>11, <1>12 DEF Exact

\* The groups of the array.
LEMMA ArrayIsExact ==
  ASSUME Numbered, arrayMode, InArray, given # <<>>
  PROVE  Exact(InMemory, TRUE)
<1> DEFINE N == Len(given)
           D == DOMAIN table.slots
           walk == InOrder(D, [slot \in D |-> slot])
           min == range.min
           key == [s \in D |-> KeyOf(s, min)]
           at == [x \in 1 .. N |-> Slot(KeyAt[x], min)]
           S == IF HasAgg THEN 1 .. N ELSE {}
<1>1. Fits(range) /\ Within(KeysGiven, range) /\ ArrayHas(N, KeyAt, KeysGiven, table, min)
  BY DEF InArray
<1>2. HaveSlots(KeysGiven, min) /\ \A x \in 1 .. N : KeyAt[x] \in KeysGiven
  BY <1>1, KeysHaveSlots
<1>3. D = {Slot(k, min) : k \in KeysGiven} /\ Holds(table.slots, S, at)
  BY <1>1 DEF ArrayHas
<1>4. \A k \in KeysGiven : Slot(k, min) \in D /\ Slot(k, min) \in Nat /\ KeyOf(Slot(k, min), min) = k
  BY <1>2, <1>3, SlotsOneToOne
<1>5. \A s \in D : s \in Nat /\ KeyOf(s, min) \in KeysGiven /\ Slot(KeyOf(s, min), min) = s
  BY <1>3, <1>4
<1> HIDE DEF D, min
<1>6. IsFiniteSet(D)
  <2>1. IsFiniteSet(KeysGiven)
    BY FewKeys
  <2> DEFINE f == [k \in KeysGiven |-> Slot(k, min)]
  <2>2. f \in [KeysGiven -> D] /\ \A s \in D : \E k \in KeysGiven : f[k] = s
    BY <1>3, <1>4
  <2> HIDE DEF f
  <2>3. f \in Surjection(KeysGiven, D)
    BY <2>2 DEF Surjection
  <2> QED
    BY <2>1, <2>3, FS_Surjection
<1>7. IsListing(D, walk)
  <2> DEFINE rank == [slot \in D |-> slot]
  <2>1. HasRanks(D, rank)
    BY <1>5 DEF HasRanks
  <2> HIDE DEF rank
  <2>2. IsOrder(D, rank, InOrder(D, rank))
    BY <1>6, <2>1, InOrderOrders
  <2> QED
    BY <2>2 DEF IsOrder, rank
<1>8. DOMAIN walk = 1 .. Len(walk)
  <2>1. walk \in Seq(D)
    BY <1>7 DEF IsListing
  <2> HIDE DEF walk
  <2> QED
    BY <2>1
<1>9. InMemory = [i \in DOMAIN walk |-> Group(KeyOf(walk[i], min), table.slots[walk[i]])]
  BY DEF InMemory, D, min
<1>10. \A i \in 1 .. Len(walk) : walk[i] \in D
  <2>1. walk \in Seq(D)
    BY <1>7 DEF IsListing
  <2> HIDE DEF walk
  <2> QED
    BY <2>1, ElementOfSeq
<1> HIDE DEF walk
<1>11. InMemory = [i \in 1 .. Len(walk) |-> Group(key[walk[i]], table.slots[walk[i]])]
  BY <1>8, <1>9, <1>10
<1>12. Listed(D, walk, key, table.slots)
  <2>1. \A s \in D : key[s] = KeyOf(s, min)
    OBVIOUS
  <2> HIDE DEF key
  <2>2. \A s \in D : table.slots[s] \in Seq(Nat)
    BY <1>3 DEF Holds, IsRows, D
  <2>3. ASSUME HasAgg, NEW s \in D
        PROVE  IsRows(table.slots[s], {x \in 1 .. N : KeyAt[x] = key[s]})
    <3>1. IsRows(table.slots[s], {x \in 1 .. N : at[x] = s})
      <4>1. S = 1 .. N
        BY <2>3
      <4> HIDE DEF S, at
      <4> QED
        BY <1>3, <4>1 DEF Holds, D
    <3>2. \A x \in 1 .. N : at[x] = s <=> KeyAt[x] = key[s]
      BY <1>2, <1>4, <1>5, <2>1
    <3>3. {x \in 1 .. N : at[x] = s} = {x \in 1 .. N : KeyAt[x] = key[s]}
      BY <3>2
    <3> QED
      BY <3>1, <3>3
  <2> QED
    BY <1>4, <1>5, <1>7, <2>1, <2>2, <2>3 DEF Listed
<1> HIDE DEF key
<1> QED
  BY <1>11, <1>12, ListedIsExact

\* Those of the map, when nothing is spilled.
LEMMA MapIsExact ==
  ASSUME Numbered, ~arrayMode, NEW w, NEW h, Spilled(w, h), InMap(w, h), files = <<>>
  PROVE  Exact(InMemory, TRUE)
<1> DEFINE N == Len(given)
           D == DOMAIN map
           walk == SetToSeq(D)
           key == [k \in D |-> k]
<1>1. N \in Nat
  BY LenProperties DEF Numbered
<1>2. Holds(map, IF HasAgg THEN 1 .. N ELSE {}, KeyAt) /\ D = KeysGiven
  <2>1. CountedOf(N, h, 0) = IF HasAgg THEN 1 .. N ELSE {}
    BY <1>1, AllInMemory DEF Spilled
  <2>2. Holds(map, CountedOf(N, h, 0), KeyAt)
        /\ KeysGiven = DOMAIN map \cup UNION {GroupsOf(w[j]) : j \in 1 .. Len(files)}
    BY DEF InMap, MapHas
  <2>3. UNION {GroupsOf(w[j]) : j \in 1 .. Len(files)} = {}
    OBVIOUS
  <2> QED
    BY <2>1, <2>2, <2>3
<1>3. IsFiniteSet(D)
  BY <1>2, FewKeys
<1> HIDE DEF D
<1>4. IsListing(D, walk)
  BY <1>3, SetToSeqLists
<1>5. DOMAIN walk = 1 .. Len(walk) /\ \A i \in 1 .. Len(walk) : walk[i] \in D
  <2>1. walk \in Seq(D)
    BY <1>4 DEF IsListing
  <2> HIDE DEF walk
  <2> QED
    BY <2>1, ElementOfSeq
<1>6. InMemory = [i \in DOMAIN walk |-> Group(walk[i], map[walk[i]])]
  BY DEF InMemory, D
<1> HIDE DEF walk
<1>7. InMemory = [i \in 1 .. Len(walk) |-> Group(key[walk[i]], map[walk[i]])]
  BY <1>5, <1>6
<1>8. Listed(D, walk, key, map)
  <2>1. \A s \in D : key[s] = s
    OBVIOUS
  <2> HIDE DEF key
  <2>2. \A s \in D : map[s] \in Seq(Nat)
    BY <1>2 DEF Holds, IsRows, D
  <2>3. HasAgg => \A s \in D : IsRows(map[s], {x \in 1 .. N : KeyAt[x] = key[s]})
    BY <1>2, <2>1 DEF Holds, D
  <2> QED
    BY <1>2, <1>4, <2>1, <2>2, <2>3 DEF Listed
<1> HIDE DEF key
<1> QED
  BY <1>7, <1>8, ListedIsExact

\* What is in memory is exact, as long as nothing is spilled.
LEMMA InMemoryIsExact ==
  ASSUME Numbered, SomeKept, files = <<>>, given # <<>>
  PROVE  Exact(InMemory, TRUE)
<1>1. PICK w, h : Spilled(w, h) /\ InMem(w, h)
  BY DEF SomeKept, Kept
<1>2. CASE arrayMode
  BY <1>1, <1>2, ArrayIsExact DEF InMem
<1>3. CASE ~arrayMode
  BY <1>1, <1>3, MapIsExact DEF InMem
<1> QED
  BY <1>2, <1>3

\* The first of exact groups are exact, and all of them are all.
LEMMA FirstAreExact ==
  ASSUME NEW out, Exact(out, TRUE), NEW k \in 0 .. Len(out)
  PROVE  Exact(SubSeq(out, 1, k), k = Len(out))
<1> DEFINE s == SubSeq(out, 1, k)
<1>1. out \in Seq(GroupOut) /\ Len(out) \in Nat
  BY LenProperties DEF Exact
<1>2. s \in Seq(GroupOut) /\ Len(s) = k /\ \A i \in 1 .. k : s[i] = out[i] /\ i \in 1 .. Len(out)
  BY <1>1, SubSeqProperties
<1> HIDE DEF s
<1>3. \A i, j \in 1 .. k : i # j => s[i].key # s[j].key
  BY <1>2 DEF Exact
<1>4. \A i \in 1 .. k : s[i].key \in KeysGiven
  BY <1>2 DEF Exact
<1>5. k = Len(out) => \A l \in KeysGiven : \E i \in 1 .. k : s[i].key = l
  <2>1. \A l \in KeysGiven : \E i \in 1 .. Len(out) : out[i].key = l
    BY DEF Exact
  <2> QED
    BY <1>2, <2>1
<1>6. HasAgg => \A i \in 1 .. k : IsRows(s[i].rows, {x \in 1 .. Len(given) : KeyAt[x] = s[i].key})
  <2>1. HasAgg => \A i \in 1 .. Len(out) : IsRows(out[i].rows, {x \in 1 .. Len(given) : KeyAt[x] = out[i].key})
    BY DEF Exact
  <2> QED
    BY <1>2, <2>1
<1>7. Exact(s, k = Len(out))
  BY <1>2, <1>3, <1>4, <1>5, <1>6 DEF Exact
<1> QED
  BY <1>7 DEF s

\* The groups stay where they are.
StoreStays == UNCHANGED <<given, files, arrayMode, range, table, map>>

\* Then what is kept stays where it is, and the walk through it the same.
LEMMA KeptStays ==
  ASSUME StoreStays, NEW w, NEW h, Kept(w, h)
  PROVE  Kept(w, h)' /\ InMemory' = InMemory
<1>1. /\ given' = given /\ files' = files /\ arrayMode' = arrayMode /\ range' = range
      /\ table' = table /\ map' = map
  BY DEF StoreStays
<1>2. KeyAt' = KeyAt /\ KeysGiven' = KeysGiven
  BY <1>1 DEF KeyAt, KeysGiven
<1>3. Spilled(w, h)'
  BY <1>1, <1>2 DEF Kept, Spilled
<1>4. InMem(w, h)'
  BY <1>1, <1>2 DEF Kept, InMem, InArray, InMap
<1>5. InMemory' = InMemory
  BY <1>1 DEF InMemory
<1> QED
  BY <1>3, <1>4, <1>5 DEF Kept

\* NoMoreInput only ends the input.
LEMMA NoMoreInputStep == ASSUME AInv, NoMoreInput PROVE AInv'
<1>1. Waiting /\ delivered = <<>> /\ outputted = 0 /\ finished = FALSE /\ spillRowOffset = 0
  BY BeforeInput DEF NoMoreInput
<1>2. Control /\ GroupsAreExact
  BY DEF AInv
<1>3. /\ noMoreInput' = TRUE /\ StoreStays
      /\ UNCHANGED <<pc, finished, delivered, outputted, streams, tree, mergeVars>>
  BY DEF NoMoreInput, StoreStays, tableVars
<1>4. given' = given /\ files' = files /\ arrayMode' = arrayMode
  BY <1>3 DEF StoreStays
<1>5. /\ pc' = "idle" /\ streams' = <<>> /\ result' = <<>> /\ unspilled' = <<>> /\ finished' = FALSE
      /\ delivered' = <<>> /\ outputted' = 0 /\ spillRowOffset' = 0
  BY <1>1, <1>3 DEF Waiting, mergeVars
<1>6. Control'
  BY <1>2, <1>3, <1>4, <1>5 DEF Control, Numbered, mergeVars
<1>7. GroupsAreExact'
  BY <1>5, NothingIsExact
<1>8. Phase'
  BY <1>1, <1>4, <1>5 DEF Phase, Waiting
<1>9. PICK w, h : Kept(w, h)
  BY <1>1 DEF Waiting, SomeKept
<1>10. Kept(w, h)' /\ InMemory' = InMemory
  BY <1>3, <1>9, KeptStays
<1>11. Walked'
  <2>1. CASE files = <<>> /\ given # <<>>
    <3>1. Exact(InMemory, TRUE)
      BY <1>1, <1>2, <2>1, InMemoryIsExact DEF Control, Waiting
    <3>2. InMemory \in Seq(GroupOut)
      BY <3>1 DEF Exact
    <3>3. Len(InMemory) \in Nat
      BY <3>2, LenProperties
    <3>4. 0 \in 0 .. Len(InMemory) /\ SubSeq(InMemory, 1, 0) = <<>>
      BY <3>3, SubSeqEmpty
    <3> QED
      BY <1>4, <1>5, <1>10, <3>4 DEF Walked
  <2>2. CASE ~(files = <<>> /\ given # <<>>)
    BY <1>4, <1>5, <2>2 DEF Walked
  <2> QED
    BY <2>1, <2>2
<1>12. Where(w, h)'
  BY <1>5, <1>10, <1>11 DEF Where, Kept
<1> QED
  BY <1>6, <1>7, <1>8, <1>12 DEF AInv

\* And so does the merge.
LEMMA MergedStays ==
  ASSUME pc' = pc, StoreStays, UNCHANGED <<delivered, streams, mergeVars>>, NEW w, NEW h, Merged(w, h)
  PROVE  Merged(w, h)'
<1>1. /\ given' = given /\ files' = files /\ map' = map
      /\ delivered' = delivered /\ streams' = streams /\ nextKeyIsNew' = nextKeyIsNew
      /\ spillRowOffset' = spillRowOffset /\ result' = result /\ unspilled' = unspilled
  BY DEF StoreStays, mergeVars
<1>2. KeyAt' = KeyAt /\ Positions' = Positions /\ (IsOpen' <=> IsOpen)
  BY <1>1 DEF KeyAt, Positions, IsOpen
<1>3. Unspilled(result, unspilled)' = Unspilled(result, unspilled)
  BY <1>1 DEF Unspilled
<1> DEFINE out == delivered \o Unspilled(result, unspilled)
<1>4. OutIs(KeyAt', w, Len(streams'), h, Positions', out', IsOpen')
  <2>1. OutIs(KeyAt, w, Len(streams), h, Positions, out, IsOpen)
    BY DEF Merged
  <2>2. out' = out
    BY <1>1, <1>3
  <2>3. IsOpen' = IsOpen
    BY <1>1 DEF IsOpen
  <2> HIDE DEF out
  <2> QED
    BY <1>1, <1>2, <2>1, <2>2, <2>3
<1>5. delivered' \in Seq(GroupOut) /\ Unspilled(result, unspilled)' \in Seq(GroupOut)
  <2>1. delivered \in Seq(GroupOut) /\ Unspilled(result, unspilled) \in Seq(GroupOut)
    BY DEF Merged
  <2> QED
    BY <1>1, <1>3, <2>1
<1> HIDE DEF out
<1>6. OutIs(KeyAt', w, Len(streams'), h, Positions', (delivered \o Unspilled(result, unspilled))', IsOpen')
  BY <1>4 DEF out
<1> QED
  BY <1>1, <1>2, <1>5, <1>6 DEF Merged

\* GetOutput without input finishes.
LEMMA NoInputStep == ASSUME AInv, NoInput PROVE AInv'
<1>1. /\ Control /\ GroupsAreExact /\ Phase /\ pc = "idle" /\ noMoreInput /\ given = <<>>
  BY DEF AInv, NoInput, Output
<1>2. /\ finished' = TRUE /\ StoreStays
      /\ UNCHANGED <<pc, noMoreInput, delivered, outputted, streams, tree, mergeVars>>
  BY DEF NoInput, StoreStays, tableVars, inVars
<1>3. given' = <<>> /\ given' = given /\ files' = files /\ arrayMode' = arrayMode /\ noMoreInput' = TRUE
  <2>1. noMoreInput = TRUE
    BY <1>1 DEF Control
  <2> QED
    BY <1>1, <1>2, <2>1 DEF StoreStays
<1>4. PICK w, h : Where(w, h)
  BY <1>1 DEF AInv
<1>5. Kept(w, h)'
  BY <1>2, <1>4, KeptStays DEF Where, Kept
<1>8. Where(w, h)'
  <2>1. CASE streams = <<>>
    <3>1. Walked
      BY <1>4, <2>1 DEF Where
    <3>2. delivered = <<>> /\ outputted = 0 /\ spillRowOffset = 0
      BY <1>1, <3>1 DEF Walked
    <3>3. Walked'
      BY <1>2, <1>3, <3>2 DEF Walked, mergeVars
    <3> QED
      BY <1>2, <1>5, <2>1, <3>3 DEF Where, Kept
  <2>2. CASE streams # <<>>
    <3>1. Merged(w, h)
      BY <1>4, <2>2 DEF Where
    <3>2. Merged(w, h)'
      BY <1>2, <3>1, MergedStays
    <3>3. Tree'
      BY <1>2 DEF Tree
    <3>4. streams' # <<>>
      BY <1>2, <2>2
    <3> QED
      BY <1>5, <3>2, <3>3, <3>4 DEF Where, Kept
  <2> QED
    BY <2>1, <2>2
<1>9. Control'
  BY <1>1, <1>2, <1>3 DEF Control, Numbered, mergeVars
<1>10. Phase'
  BY <1>1, <1>2, <1>3 DEF Phase, mergeVars
<1>11. GroupsAreExact'
  <2> DEFINE out == {delivered[i].key : i \in DOMAIN delivered}
             keys == {given[i].key : i \in DOMAIN given}
  <2>1. out \subseteq keys
    BY <1>1 DEF GroupsAreExact
  <2>2. DOMAIN given = {}
    BY <1>1
  <2>3. keys = {}
    BY <2>2
  <2>4. Exact(delivered, TRUE)
    <3>1. DOMAIN delivered = {}
      BY <2>1, <2>3
    <3>2. delivered = <<>>
      BY <3>1
    <3> QED
      BY <1>1, <3>2, ExactNothing
  <2>5. Exact(delivered', finished')
    BY <1>2, <2>4
  <2> QED
    BY <1>1, <1>2, <1>3, <2>5, ExactGroups DEF Control
<1> QED
  BY <1>8, <1>9, <1>10, <1>11 DEF AInv

\* A call that hands out groups of the memory keeps to their order.
LEMMA OutputFromMemoryStep == ASSUME AInv, OutputFromMemory PROVE AInv'
<1> DEFINE M == InMemory
           o == outputted
           n == Least(RowsPerBatch, Len(M) - o)
<1>1. /\ Control /\ Phase /\ pc = "idle" /\ noMoreInput /\ ~finished /\ given # <<>> /\ files = <<>>
  BY DEF AInv, OutputFromMemory, Output, hasSpill
<1>2. /\ StoreStays
      /\ delivered' = delivered \o SubSeq(M, o + 1, o + n) /\ outputted' = o + n
      /\ finished' = (o + n = Len(M))
      /\ UNCHANGED <<pc, noMoreInput, streams, tree, mergeVars>>
  BY DEF OutputFromMemory, StoreStays, tableVars, inVars
<1>3. PICK w, h : Where(w, h)
  BY <1>1 DEF AInv
<1>4. streams = <<>> /\ Walked /\ Kept(w, h)
  <2>1. streams = <<>>
    BY <1>1 DEF Phase
  <2> QED
    BY <1>3, <2>1 DEF Where, Kept
<1>5. Kept(w, h)' /\ InMemory' = M
  BY <1>2, <1>4, KeptStays
<1>6. Exact(M, TRUE)
  BY <1>1, <1>4, InMemoryIsExact DEF Control, SomeKept
<1>7. M \in Seq(GroupOut) /\ Len(M) \in Nat
  BY <1>6, LenProperties DEF Exact
<1>8. o \in 0 .. Len(M) /\ delivered = SubSeq(M, 1, o) /\ spillRowOffset = 0
  BY <1>1, <1>4 DEF Walked
<1> HIDE DEF M, o
<1>9. n \in Nat /\ o + n \in 0 .. Len(M)
  BY <1>7, <1>8, BoundsAssumption DEF Least
<1> HIDE DEF n
<1>10. delivered' = SubSeq(M, 1, o + n)
  <2>1. SubSeq(M, 1, o) \o SubSeq(M, o + 1, o + n) = SubSeq(M, 1, o + n)
    <3> DEFINE a == SubSeq(M, 1, o)
               b == SubSeq(M, o + 1, o + n)
               c == SubSeq(M, 1, o + n)
    <3>1. a \in Seq(GroupOut) /\ Len(a) = o /\ \A i \in 1 .. o : a[i] = M[i]
      BY <1>7, <1>8, SubSeqProperties
    <3>2. b \in Seq(GroupOut) /\ Len(b) = n /\ \A i \in 1 .. n : b[i] = M[o + i]
      <4>1. \A i \in o + 1 .. o + n : M[i] \in GroupOut
        BY <1>7, <1>8, <1>9
      <4>2. b \in Seq(GroupOut) /\ Len(b) = (IF o + 1 <= o + n THEN o + n - (o + 1) + 1 ELSE 0)
            /\ \A i \in 1 .. o + n - (o + 1) + 1 : b[i] = M[o + 1 + i - 1]
        BY <1>8, <1>9, <4>1, SubSeqProperties
      <4>3. o + n - (o + 1) + 1 = n /\ \A i \in Int : o + 1 + i - 1 = o + i
        BY <1>8, <1>9
      <4>4. o + 1 <= o + n \/ n = 0
        BY <1>8, <1>9
      <4> HIDE DEF b
      <4> QED
        BY <1>8, <1>9, <4>2, <4>3, <4>4
    <3>3. c \in Seq(GroupOut) /\ Len(c) = o + n /\ \A i \in 1 .. o + n : c[i] = M[i]
      BY <1>7, <1>8, <1>9, SubSeqProperties
    <3> HIDE DEF a, b, c
    <3>4. a \o b \in Seq(GroupOut) /\ Len(a \o b) = o + n
      BY <1>8, <1>9, <3>1, <3>2, ConcatProperties
    <3>5. ASSUME NEW i \in 1 .. o + n PROVE (a \o b)[i] = c[i]
      <4>1. (a \o b)[i] = IF i <= o THEN a[i] ELSE b[i - o]
        BY <1>8, <1>9, <3>1, <3>2, ConcatProperties
      <4>2. c[i] = M[i] /\ i \in Nat /\ i >= 1
        BY <1>8, <1>9, <3>3
      <4>3. CASE i <= o
        BY <1>8, <3>1, <4>1, <4>2, <4>3
      <4>4. CASE ~(i <= o)
        <5>1. i - o \in 1 .. n /\ o + (i - o) = i
          BY <1>8, <1>9, <4>2, <4>4
        <5>2. b[i - o] = M[o + (i - o)]
          BY <3>2, <5>1
        <5> QED
          BY <4>1, <4>2, <4>4, <5>1, <5>2
      <4> QED
        BY <4>3, <4>4
    <3>6. a \o b = c
      BY <3>3, <3>4, <3>5, SeqEqual
    <3> QED
      BY <3>6 DEF a, b, c
  <2> QED
    BY <1>2, <1>8, <2>1
<1>11. finished' \in BOOLEAN
  BY <1>2
<1>12. GroupsAreExact'
  <2>1. Exact(SubSeq(M, 1, o + n), o + n = Len(M))
    BY <1>6, <1>9, FirstAreExact
  <2>2. Exact(delivered', finished')
    BY <1>2, <1>10, <2>1
  <2> QED
    BY <1>1, <1>2, <1>11, <2>2, ExactGroups DEF Control, StoreStays
<1>13. Walked'
  <2>1. outputted' \in 0 .. Len(InMemory') /\ delivered' = SubSeq(InMemory', 1, outputted')
    BY <1>2, <1>5, <1>9, <1>10
  <2>2. finished' => outputted' = Len(InMemory')
    BY <1>2, <1>5
  <2>3. noMoreInput' /\ files' = <<>> /\ given' # <<>> /\ spillRowOffset' = 0
    BY <1>1, <1>2, <1>8 DEF StoreStays, mergeVars
  <2> QED
    BY <2>1, <2>2, <2>3 DEF Walked
<1>14. Where(w, h)'
  <2>1. streams' = <<>>
    BY <1>2, <1>4
  <2> QED
    BY <1>5, <1>13, <2>1 DEF Where, Kept
<1>15. Control'
  BY <1>1, <1>2, <1>11 DEF Control, Numbered, StoreStays, mergeVars
<1>16. Phase'
  BY <1>1, <1>2 DEF Phase, StoreStays, mergeVars
<1> QED
  BY <1>12, <1>14, <1>15, <1>16 DEF AInv

-----------------------------------------------------------------------------
(* GetOutputFromDisk.                                                      *)

\* All streams at the start of their runs.
Opened(fs) == [i \in DOMAIN fs |-> ReadVecBatch(NewStream, fs[i])]

AtStart(fs, n, of, w, h) ==
  /\ Opened(fs) \in Seq(Stream) /\ Len(Opened(fs)) = Len(fs)
  /\ \A j \in 1 .. Len(fs) : StreamOK(Opened(fs)[j], fs[j], w[j]) /\ Pos(Opened(fs)[j]) = 0

\* The first ReadVecBatch of each file leaves all streams at the start.
LEMMA StreamsOpen ==
  ASSUME NEW n, NEW of, NEW fs \in Seq(FileRec), NEW w, NEW h, SpilledOf(n, of, fs, w, h)
  PROVE  AtStart(fs, n, of, w, h)
<1> DEFINE L == Len(fs)
           ss == Opened(fs)
<1>1. L \in Nat /\ DOMAIN fs = 1 .. L
  BY LenProperties
<1>2. ss = [j \in 1 .. L |-> ReadVecBatch(NewStream, fs[j])]
  BY <1>1 DEF Opened
<1>3. ASSUME NEW j \in 1 .. L
      PROVE  StreamOK(ss[j], fs[j], w[j]) /\ Pos(ss[j]) = 0 /\ ss[j] \in Stream
  <2>1. w[j] \in Seq(RunRow) /\ FileOf(fs[j], w[j])
    BY DEF SpilledOf, IsRun
  <2>2. StreamOK(ReadVecBatch(NewStream, fs[j]), fs[j], w[j]) /\ Pos(ReadVecBatch(NewStream, fs[j])) = 0
    BY <2>1, OpenGives
  <2>3. ss[j] = ReadVecBatch(NewStream, fs[j])
    BY <1>2
  <2> HIDE DEF ss
  <2>4. StreamOK(ss[j], fs[j], w[j]) /\ Pos(ss[j]) = 0
    BY <2>2, <2>3
  <2>5. ss[j] \in Stream
    BY <2>4 DEF StreamOK, Reads
  <2> QED
    BY <2>4, <2>5
<1>4. ss \in Seq(Stream) /\ Len(ss) = L
  <2>1. DOMAIN ss = 1 .. L
    BY <1>2
  <2>2. ss = [j \in 1 .. L |-> ss[j]]
    BY <1>2
  <2> HIDE DEF ss
  <2>3. ss \in [1 .. L -> Stream]
    BY <1>3, <2>1, <2>2
  <2> QED
    BY <1>1, <2>3
<1> QED
  BY <1>3, <1>4 DEF AtStart

\* Nothing is out when all streams are at the start.
LEMMA NothingOut ==
  ASSUME NEW n \in Nat, NEW of, NEW w, \A j \in 1 .. n : w[j] \in Seq(RunRow), NEW h,
         NEW pos, \A j \in 1 .. n : pos[j] = 0
  PROVE  OutIs(of, w, n, h, pos, <<>>, FALSE)
<1>1. <<>> \in Seq(GroupOut) /\ Len(<<>>) = 0 /\ 1 .. 0 = {}
  OBVIOUS
<1>2. ASSUME NEW j \in 1 .. n, NEW p \in 1 .. Len(w[j])
      PROVE  ~(p <= pos[j])
  <2>1. Len(w[j]) \in Nat
    BY LenProperties
  <2> QED
    BY <2>1
<1>3. \A row : ToCome(row, <<>>, FALSE)
  BY <1>1 DEF ToCome
<1> QED
  BY <1>1, <1>2, <1>3 DEF OutIs, KeysAscend

\* When the merger opens its streams everything is in runs, and the merge at its start.
LEMMA OpensAll ==
  ASSUME AInv, GetOutputFromDisk, streams = <<>>
  PROVE  /\ files' \in Seq(FileRec) /\ files' # <<>> /\ streams' \in Seq(Stream) /\ streams' # <<>>
         /\ \E w, h : Where(w, h)'
<1> DEFINE N == Len(given)
           ks == KeysGiven
<1>1. /\ Control /\ Phase /\ pc = "idle" /\ noMoreInput /\ ~finished /\ files # <<>>
  BY DEF AInv, GetOutputFromDisk, Output, hasSpill
<1>2. /\ files' = IF map = EmptyMap THEN files ELSE Append(files, SpillFile(map))
      /\ map' = EmptyMap /\ streams' = Opened(files') /\ tree' = NewTree(Len(files'))
      /\ pc' = "merge" /\ result' = <<>> /\ unspilled' = <<>> /\ nextKeyIsNew' = TRUE
      /\ given' = given /\ table' = table /\ arrayMode' = arrayMode /\ delivered' = delivered
      /\ spillRowOffset' = spillRowOffset /\ finished' = finished
  BY DEF GetOutputFromDisk, Opened, inVars, tableVars
<1>3. PICK w, h : Where(w, h)
  BY <1>1 DEF AInv
<1>4. /\ ~arrayMode /\ delivered = <<>> /\ spillRowOffset = 0
  <2>1. Walked
    BY <1>3 DEF Where
  <2> QED
    BY <1>1, <2>1 DEF Walked, Phase
<1>5. /\ SpilledOf(N, KeyAt, files, w, h) /\ table = NoTable
      /\ MapHas(N, KeyAt, ks, map, files, w, h)
  BY <1>3, <1>4 DEF Where, InMem, InMap, Spilled
<1>6. /\ IsFiniteSet(ks) /\ ks \in SUBSET Keys /\ N \in Nat /\ files \in Seq(FileRec)
  BY <1>1, FewKeys, LenProperties DEF Control, Numbered
<1> HIDE DEF N, ks
<1>7. SpillsTo(N, KeyAt, ks, files') /\ files' \in Seq(FileRec) /\ files' # <<>>
  <2>1. CASE map = EmptyMap
    BY <1>1, <1>2, <1>5, <1>6, <2>1 DEF SpillsTo
  <2>2. CASE map # EmptyMap
    <3>1. SpillsTo(N, KeyAt, ks, Append(files, SpillFile(map))) /\ SpillFile(map) \in FileRec
      BY <1>5, <1>6, AnotherRun
    <3>2. Append(files, SpillFile(map)) \in Seq(FileRec) /\ Append(files, SpillFile(map)) # <<>>
      BY <1>6, <3>1, AppendProperties
    <3> QED
      BY <1>2, <2>2, <3>1, <3>2
  <2> QED
    BY <2>1, <2>2
<1>8. PICK v, e : SpilledOf(N, KeyAt, files', v, e) /\ MapHas(N, KeyAt, ks, EmptyMap, files', v, e)
  BY <1>7 DEF SpillsTo
<1>9. KeyAt' = KeyAt /\ KeysGiven' = ks /\ Len(given') = N
  BY <1>2 DEF KeyAt, KeysGiven, ks, N
<1>10. PICK fs : fs = files'
  OBVIOUS
<1>11. AtStart(fs, N, KeyAt, v, e)
  BY <1>7, <1>8, <1>10, StreamsOpen
<1>12. PICK ss : ss = Opened(fs)
  OBVIOUS
<1>13. PICK n \in Nat \ {0} : n = Len(fs)
  BY <1>7, <1>10, LenProperties, EmptySeq
<1>14. /\ streams' = ss /\ ss \in Seq(Stream) /\ Len(ss) = n
       /\ \A j \in 1 .. n : StreamOK(ss[j], fs[j], v[j]) /\ Pos(ss[j]) = 0
  BY <1>2, <1>10, <1>11, <1>12, <1>13 DEF AtStart
<1>15. Spilled(v, e)' /\ InMem(v, e)'
  <2>1. Spilled(v, e)'
    BY <1>8, <1>9 DEF Spilled
  <2>2. InMap(v, e)'
    BY <1>2, <1>5, <1>8, <1>9 DEF InMap
  <2> QED
    BY <1>2, <1>4, <2>1, <2>2 DEF InMem
<1>16. PICK pos : pos = [j \in 1 .. n |-> Pos(ss[j])]
  OBVIOUS
<1>17. Positions' = pos /\ \A j \in 1 .. n : pos[j] = 0
  BY <1>14, <1>16 DEF Positions
<1>18. Total(pos, 1 .. n) = 0
  <2>1. IsFiniteSet(1 .. n)
    BY FS_Interval
  <2> QED
    BY <1>17, <2>1, TotalOfNone
<1>19. OutIs(KeyAt, v, n, e, pos, <<>>, FALSE)
  <2>1. \A j \in 1 .. n : v[j] \in Seq(RunRow)
    BY <1>8, <1>10, <1>13 DEF SpilledOf, IsRun
  <2> QED
    BY <1>17, <2>1, NothingOut
<1>20. delivered' \o Unspilled(result, unspilled)' = <<>>
  <2>1. Unspilled(result, unspilled)' = <<>>
    BY <1>2 DEF Unspilled
  <2> QED
    BY <1>2, <1>4, <2>1
<1>21. IsOpen' = FALSE
  BY <1>2 DEF IsOpen
<1>22. Merged(v, e)'
  <2>1. <<>> \in Seq(GroupOut) /\ <<>> \in Seq(Ref) /\ Len(<<>>) = 0 /\ 1 .. 0 = {}
    OBVIOUS
  <2>2. /\ map' = EmptyMap /\ Len(streams') = Len(files')
        /\ \A j \in 1 .. Len(streams') : StreamOK(streams'[j], files'[j], v[j])
    BY <1>2, <1>10, <1>13, <1>14
  <2>3. spillRowOffset' = Total(Positions', 1 .. Len(streams'))
    BY <1>2, <1>4, <1>14, <1>17, <1>18
  <2>4. OutIs(KeyAt', v, Len(streams'), e, Positions', delivered' \o Unspilled(result, unspilled)', IsOpen')
    BY <1>9, <1>14, <1>17, <1>19, <1>20, <1>21
  <2>5. result' \in Seq(GroupOut) /\ unspilled' \in Seq(Ref) /\ 1 .. Len(unspilled') = {}
    BY <1>2, <2>1
  <2>6. delivered' \in Seq(GroupOut) /\ Unspilled(result, unspilled)' \in Seq(GroupOut)
    <3>1. Unspilled(result, unspilled)' = <<>>
      BY <1>2 DEF Unspilled
    <3> QED
      BY <1>2, <1>4, <2>1, <3>1
  <2> QED
    BY <1>2, <1>4, <1>21, <2>1, <2>2, <2>3, <2>4, <2>5, <2>6 DEF Merged
<1>23. Tree'
  <2>1. IsReady(n, Heads(ss), NewTree(n), TRUE)
    BY NewTreeIsReady
  <2> QED
    BY <1>2, <1>10, <1>13, <1>14, <2>1 DEF Tree
<1>24. streams' # <<>>
  BY <1>14
<1>25. Where(v, e)'
  BY <1>15, <1>22, <1>23, <1>24 DEF Where
<1> QED
  BY <1>7, <1>14, <1>24, <1>25

\* GetOutputFromDisk opens the streams or goes on with them.
LEMMA FromDiskStep == ASSUME AInv, GetOutputFromDisk PROVE AInv'
<1>1. /\ Control /\ Phase /\ GroupsAreExact /\ pc = "idle" /\ noMoreInput /\ ~finished /\ files # <<>>
  BY DEF AInv, GetOutputFromDisk, Output, hasSpill
<1>2. /\ pc' = "merge" /\ result' = <<>> /\ unspilled' = <<>> /\ nextKeyIsNew' = TRUE
      /\ UNCHANGED <<inVars, finished, delivered, tableVars, outputted, spillRowOffset>>
      /\ streams # <<>> => UNCHANGED <<files, map, streams, tree>>
  BY DEF GetOutputFromDisk
<1>3. /\ given' = given /\ noMoreInput' = noMoreInput /\ finished' = finished /\ delivered' = delivered
      /\ arrayMode' = arrayMode /\ range' = range /\ table' = table /\ spillRowOffset' = spillRowOffset
  BY <1>2 DEF inVars, tableVars
<1>4. /\ files' \in Seq(FileRec) /\ files' # <<>> /\ streams' \in Seq(Stream) /\ streams' # <<>>
      /\ \E w, h : Where(w, h)'
  <2>1. CASE streams = <<>>
    BY <2>1, OpensAll
  <2>2. CASE streams # <<>>
    <3>1. PICK w, h : Where(w, h)
      BY <1>1 DEF AInv
    <3>2. /\ files' = files /\ map' = map /\ streams' = streams /\ tree' = tree
      BY <1>2, <2>2
    <3>3. Merged(w, h) /\ Tree /\ Kept(w, h)
      BY <2>2, <3>1 DEF Where, Kept
    <3>4. Kept(w, h)'
      BY <1>3, <3>2, <3>3, KeptStays DEF StoreStays
    <3>5. KeyAt' = KeyAt /\ Positions' = Positions /\ IsOpen = FALSE /\ IsOpen' = FALSE
      BY <1>1, <1>2, <1>3, <3>2 DEF KeyAt, Positions, IsOpen
    <3>6. Unspilled(result, unspilled) = <<>> /\ Unspilled(result, unspilled)' = <<>>
      <4>1. result = <<>> /\ result' = <<>>
        BY <1>1, <1>2 DEF Phase
      <4> QED
        BY <4>1 DEF Unspilled
    <3>7. OutIs(KeyAt', w, Len(streams'), h, Positions', delivered' \o Unspilled(result, unspilled)', IsOpen')
      <4>1. OutIs(KeyAt, w, Len(streams), h, Positions, delivered \o Unspilled(result, unspilled), IsOpen)
        BY <3>3 DEF Merged
      <4> QED
        BY <1>3, <3>2, <3>5, <3>6, <4>1
    <3>8. <<>> \in Seq(GroupOut) /\ <<>> \in Seq(Ref) /\ Len(<<>>) = 0 /\ 1 .. 0 = {}
      OBVIOUS
    <3>12. delivered' \in Seq(GroupOut) /\ Unspilled(result, unspilled)' \in Seq(GroupOut)
      <4>1. delivered \in Seq(GroupOut)
        BY <3>3 DEF Merged
      <4> QED
        BY <1>3, <3>6, <3>8, <4>1
    <3>9. Merged(w, h)'
      BY <1>2, <1>3, <3>2, <3>3, <3>5, <3>7, <3>8, <3>12 DEF Merged
    <3>10. Tree'
      BY <1>3, <3>2, <3>3 DEF Tree
    <3>11. Where(w, h)'
      BY <2>2, <3>2, <3>4, <3>9, <3>10 DEF Where, Kept
    <3> QED
      BY <1>1, <2>2, <3>2, <3>11 DEF Control
  <2> QED
    BY <2>1, <2>2
<1>5. Control'
  BY <1>1, <1>2, <1>3, <1>4 DEF Control, Numbered
<1>6. Phase'
  BY <1>1, <1>2, <1>3, <1>4 DEF Phase
<1>7. GroupsAreExact'
  BY <1>1, <1>3 DEF GroupsAreExact
<1> QED
  BY <1>2, <1>4, <1>5, <1>6, <1>7 DEF AInv

-----------------------------------------------------------------------------
(* A row of the merge.                                                     *)

RunsOf(of, w, n, h) == \A j \in 1 .. n : IsRun(w[j], {x \in DOMAIN of : HasAgg /\ h[x] = j}, of)

\* Run J has the least next row; equal tells whether another run is at the same key.
Takes(w, n, pos, J, equal) ==
  /\ \A j \in 1 .. n : pos[j] \in Nat /\ Len(w[j]) \in Nat
  /\ J \in 1 .. n /\ pos[J] + 1 <= Len(w[J])
  /\ \A j \in 1 .. n : pos[j] + 1 <= Len(w[j]) => w[J][pos[J] + 1].key <= w[j][pos[j] + 1].key
  /\ equal \in BOOLEAN
  /\ equal <=> \E j \in 1 .. n : /\ j # J /\ pos[j] + 1 <= Len(w[j])
                                 /\ w[j][pos[j] + 1].key = w[J][pos[J] + 1].key

\* The next row of J is taken.
Taken(n, pos, J, pos2) ==
  \A j \in 1 .. n : pos2[j] = IF j = J THEN pos[j] + 1 ELSE pos[j]

\* A run's rows have each its group, in ascending order.
LEMMA RunRows ==
  ASSUME NEW of, NEW w, NEW n, NEW h, RunsOf(of, w, n, h), NEW j \in 1 .. n
  PROVE  /\ Len(w[j]) \in Nat
         /\ \A p \in 1 .. Len(w[j]) : w[j][p] \in RunRow /\ w[j][p].key = Rank(w[j][p].group)
         /\ \A p, q \in 1 .. Len(w[j]) : p < q => w[j][p].key < w[j][q].key
         /\ \A p, q \in 1 .. Len(w[j]) : w[j][p].group = w[j][q].group => p = q
<1>1. IsRun(w[j], {x \in DOMAIN of : HasAgg /\ h[x] = j}, of)
  BY DEF RunsOf
<1>2. w[j] \in Seq(RunRow)
  BY <1>1 DEF IsRun
<1>3. Len(w[j]) \in Nat /\ \A p \in 1 .. Len(w[j]) : w[j][p] \in RunRow
  BY <1>2, LenProperties, ElementOfSeq
<1>4. \A p \in 1 .. Len(w[j]) : w[j][p].key = Rank(w[j][p].group)
  BY <1>1 DEF IsRun
<1>5. \A p, q \in 1 .. Len(w[j]) : p < q => w[j][p].key < w[j][q].key
  BY <1>1 DEF IsRun
<1>6. \A p \in 1 .. Len(w[j]) : w[j][p].key \in Nat
  BY <1>3 DEF RunRow
<1>7. ASSUME NEW p \in 1 .. Len(w[j]), NEW q \in 1 .. Len(w[j]), w[j][p].group = w[j][q].group
      PROVE  p = q
  <2>1. w[j][p].key = w[j][q].key
    BY <1>4, <1>7
  <2>2. ~(p < q) /\ ~(q < p)
    BY <1>5, <1>6, <2>1
  <2> QED
    BY <1>3, <2>2
<1> QED
  BY <1>3, <1>4, <1>5, <1>7

\* The rows passed with the key k are more by T if the row taken has it, else they are the same.
RowsOfRun(of, h, J, row) == {x \in DOMAIN of : HasAgg /\ h[x] = J /\ of[x] = row.group}

PassesAlso(of, w, h, pos, pos2, row, T, k) ==
  /\ k # row.group => Passed(of, w, h, pos2, k) = Passed(of, w, h, pos, k)
  /\ k = row.group => /\ Passed(of, w, h, pos2, k) = Passed(of, w, h, pos, k) \cup T
                      /\ Passed(of, w, h, pos, k) \cap T = {}
                      /\ IsRows(row.rows, T)

\* The rows passed are more by those of the row that is taken, for its key, and no others.
LEMMA PassedMore ==
  ASSUME NEW of, NEW w, NEW n \in Nat, NEW h, RunsOf(of, w, n, h),
         HasAgg => \A x \in DOMAIN of : h[x] \in 1 .. n,
         NEW pos, NEW J, NEW equal, Takes(w, n, pos, J, equal), NEW pos2, Taken(n, pos, J, pos2), NEW k
  PROVE  PassesAlso(of, w, h, pos, pos2, w[J][pos[J] + 1], RowsOfRun(of, h, J, w[J][pos[J] + 1]), k)
<1> DEFINE p == pos[J] + 1
           row == w[J][p]
           T == {x \in DOMAIN of : HasAgg /\ h[x] = J /\ of[x] = row.group}
           At(q, x) == \E i \in 1 .. Len(w[h[x]]) : i <= q[h[x]] /\ w[h[x]][i].group = k
<1>1. J \in 1 .. n /\ p \in 1 .. Len(w[J]) /\ pos[J] \in Nat /\ p = pos[J] + 1
  BY DEF Takes
<1> HIDE DEF p
<1>2. \A i \in 1 .. Len(w[J]) : w[J][i].group = row.group => i = p
  BY <1>1, RunRows
<1>3. \A x : x \in Passed(of, w, h, pos, k) <=> x \in DOMAIN of /\ HasAgg /\ of[x] = k /\ At(pos, x)
  BY DEF Passed
<1>4. \A x : x \in Passed(of, w, h, pos2, k) <=> x \in DOMAIN of /\ HasAgg /\ of[x] = k /\ At(pos2, x)
  BY DEF Passed
<1>5. ASSUME HasAgg, NEW x \in DOMAIN of
      PROVE  At(pos2, x) <=> At(pos, x) \/ (h[x] = J /\ k = row.group)
  <2>1. h[x] \in 1 .. n
    BY <1>5
  <2>2. CASE h[x] # J
    <3>1. pos2[h[x]] = pos[h[x]]
      BY <2>1, <2>2 DEF Taken
    <3> QED
      BY <2>2, <3>1
  <2>3. CASE h[x] = J
    <3>1. pos2[J] = p
      BY <1>1 DEF Taken
    <3>2. \A i \in 1 .. Len(w[J]) : i <= p <=> i <= pos[J] \/ i = p
      BY <1>1
    <3>3. At(pos2, x) <=> \E i \in 1 .. Len(w[J]) : i <= p /\ w[J][i].group = k
      BY <2>3, <3>1
    <3>4. At(pos, x) <=> \E i \in 1 .. Len(w[J]) : i <= pos[J] /\ w[J][i].group = k
      BY <2>3
    <3> HIDE DEF At
    <3>5. At(pos2, x) <=> At(pos, x) \/ w[J][p].group = k
      BY <1>1, <3>2, <3>3, <3>4
    <3> QED
      BY <2>3, <3>5
  <2> QED
    BY <2>2, <2>3
<1>6. ASSUME HasAgg, k = row.group, NEW x \in DOMAIN of, h[x] = J PROVE ~At(pos, x)
  <2>1. SUFFICES ASSUME NEW i \in 1 .. Len(w[J]), i <= pos[J], w[J][i].group = k PROVE FALSE
    BY <1>6
  <2>2. i = p
    BY <1>2, <1>6, <2>1
  <2> QED
    BY <1>1, <2>1, <2>2
<1>7. IsRows(row.rows, T)
  <2>1. IsRun(w[J], {x \in DOMAIN of : HasAgg /\ h[x] = J}, of)
    BY <1>1 DEF RunsOf
  <2>2. IsRows(row.rows, {x \in {y \in DOMAIN of : HasAgg /\ h[y] = J} : of[x] = row.group})
    BY <1>1, <2>1 DEF IsRun
  <2>3. {x \in {y \in DOMAIN of : HasAgg /\ h[y] = J} : of[x] = row.group} = T
    OBVIOUS
  <2> QED
    BY <2>2, <2>3
<1> HIDE DEF At
<1>8. k # row.group => Passed(of, w, h, pos2, k) = Passed(of, w, h, pos, k)
  BY <1>3, <1>4, <1>5
<1>9. k = row.group => Passed(of, w, h, pos2, k) = Passed(of, w, h, pos, k) \cup T
  BY <1>3, <1>4, <1>5
<1>10. k = row.group => Passed(of, w, h, pos, k) \cap T = {}
  BY <1>3, <1>6
<1> QED
  BY <1>7, <1>8, <1>9, <1>10 DEF PassesAlso, RowsOfRun, p

\* The row is collected in a new group, or in the last one while that is open.
Collects(out, open, row, V) ==
  /\ V \in Seq(GroupOut) /\ Len(V) = IF open THEN Len(out) ELSE Len(out) + 1
  /\ \A i \in 1 .. Len(V) - 1 : V[i] = out[i]
  /\ V[Len(V)].key = IF open THEN out[Len(out)].key ELSE row.group
  /\ V[Len(V)].rows = IF open THEN out[Len(out)].rows \o row.rows ELSE row.rows

\* Rows that are still to come are not before row.
NotBefore(w, n, pos, row) ==
  \A j \in 1 .. n : \A p \in 1 .. Len(w[j]) : ~(p <= pos[j]) => row.key <= w[j][p].key

\* The group of the row is the last one if that is open, or greater than all.
Follows(out, open, row) ==
  /\ Len(out) \in Nat /\ out \in Seq(GroupOut)
  /\ row.group \in Keys /\ row.key = Rank(row.group) /\ row.key \in Nat
  /\ open => Len(out) > 0 /\ out[Len(out)].key = row.group
  /\ \A i \in 1 .. Len(out) : ~(open /\ i = Len(out)) => Rank(out[i].key) < row.key

\* What run J is at next is not after anything to come.
LEMMA TakesLeast ==
  ASSUME NEW of, NEW w, NEW n \in Nat, NEW h, RunsOf(of, w, n, h), NEW pos, NEW J, NEW equal,
         Takes(w, n, pos, J, equal)
  PROVE  NotBefore(w, n, pos, w[J][pos[J] + 1])
<1> DEFINE row == w[J][pos[J] + 1]
<1> SUFFICES ASSUME NEW j \in 1 .. n, NEW p \in 1 .. Len(w[j]), ~(p <= pos[j])
             PROVE  row.key <= w[j][p].key
  BY DEF NotBefore
<1>1. pos[j] \in Nat /\ pos[J] \in Nat /\ J \in 1 .. n /\ pos[J] + 1 <= Len(w[J])
      /\ Len(w[j]) \in Nat /\ Len(w[J]) \in Nat
  BY DEF Takes
<1>2. PICK q \in Nat : q = pos[j] + 1
  BY <1>1
<1>3. q \in 1 .. Len(w[j]) /\ (q = p \/ q < p)
  BY <1>1, <1>2
<1>4. row.key <= w[j][q].key
  BY <1>1, <1>2, <1>3 DEF Takes
<1>5. pos[J] + 1 \in 1 .. Len(w[J])
  BY <1>1
<1>6. row.key \in Nat /\ w[j][q].key \in Nat /\ w[j][p].key \in Nat
  BY <1>1, <1>3, <1>5, RunRows DEF RunRow
<1>7. q < p => w[j][q].key < w[j][p].key
  BY <1>3, RunRows
<1> HIDE DEF row
<1> QED
  BY <1>3, <1>4, <1>6, <1>7

\* Its group follows the groups that are out.
LEMMA TakesFollows ==
  ASSUME NEW of, NEW w, NEW n \in Nat, NEW h, RunsOf(of, w, n, h), NEW pos, NEW out,
         NEW open \in BOOLEAN, OutIs(of, w, n, h, pos, out, open), NEW J, NEW equal,
         Takes(w, n, pos, J, equal)
  PROVE  Follows(out, open, w[J][pos[J] + 1])
<1> DEFINE row == w[J][pos[J] + 1]
           e == Len(out)
<1>1. /\ pos[J] \in Nat /\ J \in 1 .. n /\ pos[J] + 1 \in 1 .. Len(w[J]) /\ ~(pos[J] + 1 <= pos[J])
  BY DEF Takes
<1>2. row \in RunRow /\ row.key = Rank(row.group)
  BY <1>1, RunRows
<1>3. row.group \in Keys /\ row.key \in Nat
  BY <1>2 DEF RunRow
<1>4. out \in Seq(GroupOut) /\ e \in Nat
  BY LenProperties DEF OutIs
<1>5. ToCome(row, out, open)
  BY <1>1 DEF OutIs
<1> HIDE DEF row
<1>6. ASSUME open PROVE e > 0 /\ out[e].key = row.group
  <2>1. OpenAt(w, n, pos, out)
    BY <1>6 DEF OutIs
  <2>2. e > 0
    BY <2>1 DEF OpenAt
  <2>3. PICK j \in 1 .. n : pos[j] + 1 <= Len(w[j]) /\ w[j][pos[j] + 1].group = out[e].key
    BY <2>1 DEF OpenAt
  <2>8. pos[j] \in Nat /\ Len(w[j]) \in Nat
    BY DEF Takes
  <2>4. pos[j] + 1 \in 1 .. Len(w[j]) /\ ~(pos[j] + 1 <= pos[j])
    BY <2>3, <2>8
  <2>5. row.key <= w[j][pos[j] + 1].key
    BY <2>4, TakesLeast DEF NotBefore, row
  <2>6. w[j][pos[j] + 1].key = Rank(out[e].key) /\ w[j][pos[j] + 1].key \in Nat
    BY <2>3, <2>4, RunRows DEF RunRow
  <2>7. Rank(out[e].key) < row.key \/ out[e].key = row.group
    BY <1>4, <1>5, <2>2 DEF ToCome
  <2> QED
    BY <1>3, <2>2, <2>5, <2>6, <2>7
<1>7. \A i \in 1 .. e : ~(open /\ i = e) => Rank(out[i].key) < row.key
  BY <1>5 DEF ToCome
<1> QED
  BY <1>2, <1>3, <1>4, <1>6, <1>7 DEF Follows, row

\* The groups collected and the one with its rows.
AllBut(out, open, row, V, L) ==
  /\ L \in Nat /\ L > 0 /\ L = Len(V) /\ V[L].key = row.group
  /\ \A i \in 1 .. L : i = L \/ i \in 1 .. L - 1
  /\ \A i \in 1 .. L - 1 : /\ i \in 1 .. Len(out) /\ V[i] = out[i] /\ V[i].key \in Keys
                           /\ V[i].key # row.group
                           /\ Rank(V[i].key) < row.key /\ Rank(V[i].key) \in Nat
  /\ \A i \in 1 .. Len(out) : i \in 1 .. L - 1 \/ (i = L /\ open /\ out[i].key = row.group)

\* The groups out with a row collected ascend, and the row goes into the last.
LEMMA CollectsLast ==
  ASSUME NEW out, NEW open \in BOOLEAN, NEW row, Follows(out, open, row), NEW V, Collects(out, open, row, V)
  PROVE  AllBut(out, open, row, V, Len(V))
<1> DEFINE e == Len(out)
           L == Len(V)
<1>1. /\ e \in Nat /\ \A i \in 1 .. e : out[i] \in GroupOut
  BY ElementOfSeq DEF Follows
<1>2. L = IF open THEN e ELSE e + 1
  BY DEF Collects
<1>3. open => e > 0
  BY DEF Follows
<1> HIDE DEF e, L
<1>4. L \in Nat /\ L > 0
  BY <1>1, <1>2, <1>3
<1>5. \A i \in 1 .. L : i = L \/ i \in 1 .. L - 1
  BY <1>4
<1>6. V[L].key = row.group
  BY DEF Collects, Follows, L
<1>7. ASSUME NEW i \in 1 .. L - 1
      PROVE  /\ i \in 1 .. e /\ V[i] = out[i] /\ V[i].key \in Keys /\ V[i].key # row.group
             /\ Rank(V[i].key) < row.key /\ Rank(V[i].key) \in Nat
  <2>1. i \in 1 .. e /\ ~(open /\ i = e)
    BY <1>1, <1>2, <1>4
  <2>2. V[i] = out[i]
    BY DEF Collects, L
  <2>3. Rank(out[i].key) < row.key
    BY <2>1 DEF Follows, e
  <2>4. out[i].key \in Keys
    BY <1>1, <2>1 DEF GroupOut
  <2>5. Rank(out[i].key) \in Nat
    BY <2>4, RankIs
  <2>6. row.key = Rank(row.group)
    BY DEF Follows
  <2>7. out[i].key # row.group
    BY <2>3, <2>5, <2>6
  <2> QED
    BY <2>1, <2>2, <2>3, <2>4, <2>5, <2>7
<1>8. ASSUME NEW i \in 1 .. e PROVE i \in 1 .. L - 1 \/ (i = L /\ open /\ out[i].key = row.group)
  <2>1. i \in 1 .. L - 1 \/ (i = L /\ open /\ i = e)
    BY <1>1, <1>2, <1>4
  <2> QED
    BY <2>1 DEF Follows, e
<1> QED
  BY <1>4, <1>5, <1>6, <1>7, <1>8 DEF AllBut, L, e

\* Collecting the next row makes the groups those of the rows before it and itself.
LEMMA OutGrows ==
  ASSUME NEW of, NEW w, NEW n \in Nat, NEW h, RunsOf(of, w, n, h),
         HasAgg => \A x \in DOMAIN of : h[x] \in 1 .. n,
         NEW pos, NEW out, NEW open \in BOOLEAN, OutIs(of, w, n, h, pos, out, open),
         NEW J, NEW equal, Takes(w, n, pos, J, equal), NEW pos2, Taken(n, pos, J, pos2),
         NEW V, Collects(out, open, w[J][pos[J] + 1], V)
  PROVE  OutIs(of, w, n, h, pos2, V, equal)
<1> DEFINE P == pos[J] + 1
           row == w[J][P]
           k == row.group
           L == Len(V)
<1>1. /\ J \in 1 .. n /\ P \in 1 .. Len(w[J]) /\ P = pos[J] + 1 /\ equal \in BOOLEAN
      /\ \A j \in 1 .. n : pos[j] \in Nat /\ Len(w[j]) \in Nat
  BY DEF Takes
<1> DEFINE T == RowsOfRun(of, h, J, row)
<1>14. ASSUME NEW g PROVE PassesAlso(of, w, h, pos, pos2, row, T, g)
  BY PassedMore
<1> HIDE DEF P
<1>2. Follows(out, open, row)
  BY <1>1, TakesFollows
<1>3. AllBut(out, open, row, V, L) /\ V \in Seq(GroupOut) /\ Collects(out, open, row, V)
  BY <1>1, <1>2, CollectsLast DEF Collects
<1>4. NotBefore(w, n, pos, row)
  BY <1>1, TakesLeast
<1>5. \A j \in 1 .. n : pos2[j] = IF j = J THEN P ELSE pos[j]
  BY <1>1 DEF Taken
<1>6. k \in Keys /\ row.key = Rank(k) /\ row.key \in Nat
  BY <1>2 DEF Follows
<1>7. \A g : g # k => Passed(of, w, h, pos2, g) = Passed(of, w, h, pos, g)
  BY <1>14 DEF PassesAlso
<1>8. /\ Passed(of, w, h, pos2, k) = Passed(of, w, h, pos, k) \cup T
      /\ Passed(of, w, h, pos, k) \cap T = {} /\ IsRows(row.rows, T)
  BY <1>14 DEF PassesAlso
<1> HIDE DEF row, k, L, T
<1>9. KeysAscend(V)
  <2> SUFFICES ASSUME NEW i \in 1 .. L, NEW j \in 1 .. L, i < j PROVE Rank(V[i].key) < Rank(V[j].key)
    BY DEF KeysAscend, L
  <2>1. i \in 1 .. L - 1 /\ L \in Nat
    BY <1>3 DEF AllBut
  <2>2. CASE j = L
    <3>1. V[L].key = k
      BY <1>3 DEF AllBut, k
    <3>2. Rank(V[i].key) < row.key
      BY <1>3, <2>1 DEF AllBut
    <3> QED
      BY <1>6, <2>2, <3>1, <3>2
  <2>3. CASE j # L
    <3>1. j \in 1 .. L - 1
      BY <1>3, <2>3 DEF AllBut
    <3>2. /\ i \in 1 .. Len(out) /\ V[i] = out[i]
          /\ j \in 1 .. Len(out) /\ V[j] = out[j]
      BY <1>3, <2>1, <3>1 DEF AllBut
    <3>3. KeysAscend(out)
      BY DEF OutIs
    <3> QED
      BY <3>2, <3>3 DEF KeysAscend
  <2> QED
    BY <2>2, <2>3
<1>10. ASSUME NEW i \in 1 .. L PROVE HasPassed(of, w, n, h, pos2, V[i])
  <2>1. CASE i = L
    <3>1. V[i].key = k
      BY <1>3, <2>1 DEF AllBut, k
    <3>2. w[J][P].group = k /\ P <= pos2[J]
      BY <1>1, <1>5 DEF row, k
    <3>3. \E j \in 1 .. n : \E p \in 1 .. Len(w[j]) : p <= pos2[j] /\ w[j][p].group = V[i].key
      BY <1>1, <3>1, <3>2
    <3>4. IsRows(V[i].rows, Passed(of, w, h, pos2, k))
      <4>1. CASE open
        <5>1. out[Len(out)].key = k /\ Len(out) \in 1 .. Len(out)
          BY <1>2, <4>1 DEF Follows, k
        <5>2. IsRows(out[Len(out)].rows, Passed(of, w, h, pos, k))
          <6>1. HasPassed(of, w, n, h, pos, out[Len(out)])
            BY <5>1 DEF OutIs
          <6> QED
            BY <5>1, <6>1 DEF HasPassed
        <5>3. V[i].rows = out[Len(out)].rows \o row.rows
          BY <1>3, <2>1, <4>1 DEF Collects, L
        <5> QED
          BY <1>8, <5>2, <5>3, RowsJoin
      <4>2. CASE ~open
        <5>1. Passed(of, w, h, pos, k) = {}
          <6> SUFFICES ASSUME NEW x \in Passed(of, w, h, pos, k) PROVE FALSE
            OBVIOUS
          <6> DEFINE j == h[x]
          <6>1. HasAgg /\ x \in DOMAIN of
            BY DEF Passed
          <6>2. j \in 1 .. n
            BY <6>1
          <6>3. PICK p \in 1 .. Len(w[j]) : p <= pos[j] /\ w[j][p].group = k
            BY DEF Passed
          <6>4. IsOut(w[j][p], out)
            BY <6>2, <6>3 DEF OutIs
          <6>5. PICK a \in 1 .. Len(out) : out[a].key = k
            BY <6>3, <6>4 DEF IsOut
          <6>6. Rank(k) < row.key
            BY <1>2, <4>2, <6>5 DEF Follows
          <6> QED
            BY <1>6, <6>6
        <5>2. V[i].rows = row.rows
          BY <1>3, <2>1, <4>2 DEF Collects, L
        <5>3. Passed(of, w, h, pos2, k) = T
          BY <1>8, <5>1
        <5> QED
          BY <1>8, <5>2, <5>3
      <4> QED
        BY <4>1, <4>2
    <3> QED
      BY <3>1, <3>3, <3>4 DEF HasPassed
  <2>2. CASE i # L
    <3>1. i \in 1 .. L - 1
      BY <1>3, <2>2 DEF AllBut
    <3>2. i \in 1 .. Len(out) /\ V[i] = out[i] /\ V[i].key # k
      BY <1>3, <3>1 DEF AllBut, k
    <3>3. HasPassed(of, w, n, h, pos, V[i])
      BY <3>2 DEF OutIs
    <3>4. IsRows(V[i].rows, Passed(of, w, h, pos2, V[i].key))
      BY <1>7, <3>2, <3>3 DEF HasPassed
    <3>5. PICK j \in 1 .. n : \E p \in 1 .. Len(w[j]) : p <= pos[j] /\ w[j][p].group = V[i].key
      BY <3>3 DEF HasPassed
    <3>6. PICK p \in 1 .. Len(w[j]) : p <= pos[j] /\ w[j][p].group = V[i].key
      BY <3>5
    <3>7. p <= pos2[j]
      BY <1>1, <1>5, <3>6
    <3> QED
      BY <3>4, <3>6, <3>7 DEF HasPassed
  <2> QED
    BY <2>1, <2>2
<1>11. ASSUME NEW j \in 1 .. n, NEW p \in 1 .. Len(w[j]), p <= pos2[j] PROVE IsOut(w[j][p], V)
  <2>1. CASE p <= pos[j]
    <3>1. IsOut(w[j][p], out)
      BY <2>1 DEF OutIs
    <3>2. PICK i \in 1 .. Len(out) : out[i].key = w[j][p].group
      BY <3>1 DEF IsOut
    <3>3. i \in 1 .. L - 1 \/ (i = L /\ out[i].key = k)
      BY <1>3, <3>2 DEF AllBut, k
    <3>4. i \in 1 .. L /\ V[i].key = out[i].key
      BY <1>3, <3>3 DEF AllBut, k
    <3> QED
      BY <3>2, <3>4 DEF IsOut, L
  <2>2. CASE ~(p <= pos[j])
    <3>1. j = J
      BY <1>5, <1>11, <2>2
    <3>2. pos2[J] = P
      BY <1>1, <1>5
    <3>3. p = P
      BY <1>1, <1>11, <2>2, <3>1, <3>2
    <3>4. w[j][p].group = k
      BY <3>1, <3>3 DEF row, k
    <3>5. V[L].key = k /\ L \in 1 .. L
      BY <1>3 DEF AllBut, k
    <3> QED
      BY <3>4, <3>5 DEF IsOut, L
  <2> QED
    BY <2>1, <2>2
<1>12. ASSUME NEW j \in 1 .. n, NEW p \in 1 .. Len(w[j]), ~(p <= pos2[j])
       PROVE  ToCome(w[j][p], V, equal)
  <2>1. ~(p <= pos[j]) /\ (j = J => P < p) /\ p \in Nat
    BY <1>1, <1>5, <1>12
  <2>2. row.key <= w[j][p].key
    BY <1>4, <2>1 DEF NotBefore
  <2>3. w[j][p] \in RunRow /\ w[j][p].key = Rank(w[j][p].group)
    BY RunRows
  <2>4. w[j][p].key \in Nat /\ w[j][p].group \in Keys
    BY <2>3 DEF RunRow
  <2>5. row.key = w[j][p].key => equal /\ w[j][p].group = k
    <3>1. SUFFICES ASSUME row.key = w[j][p].key PROVE equal /\ w[j][p].group = k
      OBVIOUS
    <3>2. w[j][p].group = k
      BY <1>6, <2>3, <2>4, <3>1, RankIs
    <3>3. j # J
      <4>1. j = J => w[J][P].key < w[j][p].key
        BY <1>1, <2>1, RunRows
      <4>2. w[J][P].key = row.key
        BY DEF row
      <4> QED
        BY <1>6, <3>1, <4>1, <4>2
    <3>4. PICK q \in Nat : q = pos[j] + 1
      BY <1>1
    <3>5. q \in 1 .. Len(w[j]) /\ (q = p \/ q < p)
      BY <1>1, <2>1, <3>4
    <3>6. ~(q <= pos[j])
      BY <1>1, <3>4
    <3>7. row.key <= w[j][q].key /\ w[j][q].key \in Nat
      BY <1>4, <3>5, <3>6, RunRows DEF NotBefore, RunRow
    <3>8. q < p => w[j][q].key < w[j][p].key
      BY <3>5, RunRows
    <3>9. q = p
      BY <2>4, <3>1, <3>5, <3>7, <3>8
    <3>10. pos[j] + 1 <= Len(w[j]) /\ w[j][pos[j] + 1].key = w[J][pos[J] + 1].key
      BY <1>1, <3>1, <3>4, <3>5, <3>9 DEF row
    <3>11. equal
      BY <3>3, <3>10 DEF Takes
    <3> QED
      BY <3>2, <3>11
  <2>6. ASSUME NEW i \in 1 .. L
        PROVE  Rank(V[i].key) < w[j][p].key \/ (equal /\ i = L /\ V[i].key = w[j][p].group)
    <3>1. CASE i = L
      <4>1. V[i].key = k
        BY <1>3, <3>1 DEF AllBut, k
      <4> QED
        BY <1>6, <2>2, <2>4, <2>5, <3>1, <4>1
    <3>2. CASE i # L
      <4>1. Rank(V[i].key) < row.key /\ Rank(V[i].key) \in Nat
        BY <1>3, <3>2 DEF AllBut
      <4> QED
        BY <1>6, <2>2, <2>4, <4>1
    <3> QED
      BY <3>1, <3>2
  <2> QED
    BY <2>6 DEF ToCome, L
<1>13. ASSUME equal PROVE OpenAt(w, n, pos2, V)
  <2>1. PICK j \in 1 .. n : /\ j # J /\ pos[j] + 1 <= Len(w[j])
                            /\ w[j][pos[j] + 1].key = w[J][pos[J] + 1].key
    BY <1>13 DEF Takes
  <2>2. pos2[j] = pos[j]
    BY <1>5, <2>1
  <2>3. pos[j] + 1 \in 1 .. Len(w[j])
    BY <1>1, <2>1
  <2>4. w[j][pos[j] + 1].key = Rank(w[j][pos[j] + 1].group) /\ w[j][pos[j] + 1].group \in Keys
    BY <2>3, RunRows DEF RunRow
  <2>5. w[j][pos[j] + 1].key = row.key
    BY <1>1, <2>1 DEF row
  <2>6. w[j][pos[j] + 1].group = k
    BY <1>6, <2>4, <2>5, RankIs
  <2>7. V[L].key = k /\ L > 0
    BY <1>3 DEF AllBut, k
  <2> QED
    BY <2>1, <2>2, <2>6, <2>7 DEF OpenAt, L
<1> QED
  BY <1>3, <1>9, <1>10, <1>11, <1>12, <1>13 DEF OutIs, L

\* Where the streams stand, and what the tree sees of them.
HeadAt(t, r, x) ==
  /\ StandsAt(t, r, Pos(t)) /\ Pos(t) \in Nat /\ Len(r) \in Nat /\ Pos(t) <= Len(r)
  /\ x = IF Pos(t) + 1 <= Len(r) THEN r[Pos(t) + 1].key ELSE NoData
  /\ Pos(t) + 1 <= Len(r) => x \in Nat
  /\ ~(Pos(t) + 1 <= Len(r)) => Pos(t) = Len(r)

HeadsAt(sts, w, n) == IsHead(n, Heads(sts)) /\ \A j \in 1 .. n : HeadAt(sts[j], w[j], Heads(sts)[j - 1])

\* What the tree sees of the streams are the next keys of their runs.
LEMMA HeadsAre ==
  ASSUME NEW sts \in Seq(Stream), NEW n \in Nat, n = Len(sts), NEW fs, NEW w,
         \A j \in 1 .. n : StreamOK(sts[j], fs[j], w[j])
  PROVE  HeadsAt(sts, w, n)
<1> DEFINE h == Heads(sts)
<1>1. DOMAIN h = 0 .. n - 1
  BY DEF Heads
<1>2. ASSUME NEW j \in 1 .. n
      PROVE  h[j - 1] = IF sts[j].at < sts[j].count THEN sts[j].batch[sts[j].at + 1].key ELSE NoData
  <2>1. j - 1 \in 0 .. n - 1 /\ (j - 1) + 1 = j
    OBVIOUS
  <2> QED
    BY <2>1 DEF Heads
<1> HIDE DEF h
<1>3. ASSUME NEW j \in 1 .. n PROVE HeadAt(sts[j], w[j], h[j - 1])
  <2> DEFINE t == sts[j]
             r == w[j]
             p == Pos(t)
  <2>1. StandsAt(t, r, p)
    BY RowAt
  <2>2. h[j - 1] = IF t.at < t.count THEN t.batch[t.at + 1].key ELSE NoData
    BY <1>2
  <2> HIDE DEF t, r, p
  <2>3. /\ p \in Nat /\ Len(r) \in Nat /\ p <= Len(r)
        /\ t.at < t.count <=> p + 1 <= Len(r)
        /\ ~(p + 1 <= Len(r)) => p = Len(r)
    BY <2>1 DEF StandsAt
  <2>4. t.at < t.count => t.batch[t.at + 1] = r[p + 1] /\ r[p + 1].key \in Nat
    BY <2>1 DEF StandsAt, RunRow
  <2> QED
    BY <2>1, <2>2, <2>3, <2>4 DEF HeadAt, t, r, p
<1>4. ASSUME NEW s \in 0 .. n - 1 PROVE h[s] \in Nat \cup {NoData}
  <2>1. s + 1 \in 1 .. n /\ (s + 1) - 1 = s
    OBVIOUS
  <2>2. HeadAt(sts[s + 1], w[s + 1], h[(s + 1) - 1])
    BY <1>3, <2>1
  <2> QED
    BY <2>1, <2>2 DEF HeadAt
<1>5. IsHead(n, h)
  BY <1>1, <1>4 DEF IsHead
<1> QED
  BY <1>3, <1>5 DEF HeadsAt, h

\* x is what NextWithEqual has found: the run with the least next row, or that all are at
\* their end.
Finds(w, n, h, pos, x) ==
  /\ StaysReady(n, h, x.tree, TRUE)
  /\ x.tree.last # EMPTY => /\ x.tree.last \in 0 .. n - 1 /\ x.tree.last + 1 \in 1 .. n
                            /\ Takes(w, n, pos, x.tree.last + 1, x.equal)
  /\ x.tree.last = EMPTY => \A j \in 1 .. n : pos[j] = Len(w[j])

\* The stream the merge takes a row from.
LEMMA Winner ==
  ASSUME NEW sts \in Seq(Stream), NEW n \in Nat \ {0}, n = Len(sts), NEW fs, NEW w,
         \A j \in 1 .. n : StreamOK(sts[j], fs[j], w[j]),
         NEW t, IsReady(n, Heads(sts), t, TRUE), NEW pos, pos = [j \in 1 .. n |-> Pos(sts[j])]
  PROVE  Finds(w, n, Heads(sts), pos, NextWithEqual(Heads(sts), t, TRUE))
<1> DEFINE h == Heads(sts)
           x == NextWithEqual(h, t, TRUE)
           s == x.tree.last
<1>1. HeadsAt(sts, w, n)
  BY HeadsAre
<1>2. IsHead(n, h)
  BY <1>1 DEF HeadsAt
<1>3. ASSUME NEW j \in 1 .. n
      PROVE  /\ pos[j] \in Nat /\ Len(w[j]) \in Nat
             /\ h[j - 1] = IF pos[j] + 1 <= Len(w[j]) THEN w[j][pos[j] + 1].key ELSE NoData
             /\ pos[j] + 1 <= Len(w[j]) => h[j - 1] \in Nat
             /\ ~(pos[j] + 1 <= Len(w[j])) => pos[j] = Len(w[j])
  <2>1. pos[j] = Pos(sts[j]) /\ HeadAt(sts[j], w[j], h[j - 1])
    BY <1>1 DEF HeadsAt
  <2> HIDE DEF h
  <2> QED
    BY <2>1 DEF HeadAt
<1>4. IsRightNext(n, h, x, TRUE)
  BY <1>2, NextIsLeast
<1>5. IsLeast(n, h, s, x.equal, TRUE) /\ StaysReady(n, h, x.tree, TRUE)
  BY <1>4 DEF IsRightNext
<1> HIDE DEF h, x, s
<1>6. ASSUME s = EMPTY, NEW j \in 1 .. n PROVE pos[j] = Len(w[j])
  <2>1. j - 1 \in 0 .. n - 1
    OBVIOUS
  <2>2. h[j - 1] = NoData
    BY <1>5, <1>6, <2>1 DEF IsLeast
  <2> QED
    BY <1>3, <2>2 DEF NoData
<1>7. ASSUME s # EMPTY PROVE s \in 0 .. n - 1 /\ s + 1 \in 1 .. n /\ Takes(w, n, pos, s + 1, x.equal)
  <2>1. /\ s \in 0 .. n - 1 /\ h[s] # NoData
        /\ \A i \in 0 .. n - 1 : h[i] # NoData => h[s] <= h[i]
    BY <1>5, <1>7 DEF IsLeast
  <2>2. /\ x.equal \in BOOLEAN
        /\ x.equal <=> \E i \in 0 .. n - 1 : i # s /\ h[i] # NoData /\ h[i] = h[s]
    BY <1>5, <1>7 DEF IsLeast
  <2>3. PICK J \in 1 .. n : J = s + 1 /\ J - 1 = s
    BY <2>1
  <2>4. pos[J] + 1 <= Len(w[J]) /\ h[s] = w[J][pos[J] + 1].key
    BY <1>3, <2>1, <2>3
  <2>5. ASSUME NEW j \in 1 .. n, pos[j] + 1 <= Len(w[j])
        PROVE  /\ j - 1 \in 0 .. n - 1 /\ h[j - 1] # NoData /\ h[j - 1] = w[j][pos[j] + 1].key
               /\ h[s] <= h[j - 1]
    <3>1. j - 1 \in 0 .. n - 1 /\ h[j - 1] = w[j][pos[j] + 1].key /\ h[j - 1] \in Nat
      BY <1>3, <2>5
    <3>2. h[j - 1] # NoData
      BY <3>1 DEF NoData
    <3> QED
      BY <2>1, <3>1, <3>2
  <2>6. \A j \in 1 .. n : pos[j] + 1 <= Len(w[j]) => w[J][pos[J] + 1].key <= w[j][pos[j] + 1].key
    BY <2>4, <2>5
  <2> DEFINE Equal == \E j \in 1 .. n : /\ j # J /\ pos[j] + 1 <= Len(w[j])
                                       /\ w[j][pos[j] + 1].key = w[J][pos[J] + 1].key
  <2>7. x.equal => Equal
    <3>1. SUFFICES ASSUME x.equal PROVE Equal
      OBVIOUS
    <3>2. PICK i \in 0 .. n - 1 : i # s /\ h[i] # NoData /\ h[i] = h[s]
      BY <2>2, <3>1
    <3>3. PICK j \in 1 .. n : j = i + 1 /\ j - 1 = i
      OBVIOUS
    <3>4. h[j - 1] # NoData /\ j # J
      BY <2>3, <3>2, <3>3
    <3>5. pos[j] + 1 <= Len(w[j]) /\ h[j - 1] = w[j][pos[j] + 1].key
      BY <1>3, <3>4
    <3> QED
      BY <2>4, <3>2, <3>3, <3>4, <3>5
  <2>8. Equal => x.equal
    <3>1. SUFFICES ASSUME NEW j \in 1 .. n, j # J, pos[j] + 1 <= Len(w[j]),
                          w[j][pos[j] + 1].key = w[J][pos[J] + 1].key
                   PROVE  x.equal
      OBVIOUS
    <3>2. j - 1 \in 0 .. n - 1 /\ h[j - 1] # NoData /\ h[j - 1] = h[s]
      BY <2>4, <2>5, <3>1
    <3>3. j - 1 # s
      BY <2>3, <3>1
    <3> QED
      BY <2>2, <3>2, <3>3
  <2> HIDE DEF Equal
  <2>9. Takes(w, n, pos, J, x.equal)
    <3>1. \A j \in 1 .. n : pos[j] \in Nat /\ Len(w[j]) \in Nat
      BY <1>3
    <3>2. x.equal <=> Equal
      BY <2>7, <2>8
    <3> QED
      BY <2>2, <2>4, <2>6, <3>1, <3>2 DEF Takes, Equal
  <2> QED
    BY <2>1, <2>3, <2>9
<1> QED
  BY <1>5, <1>6, <1>7 DEF Finds, s, x, h

-----------------------------------------------------------------------------
(* The groups and the rows collected for them.                             *)

\* Unspilled, of the streams sts.
RowsIn(groups)    == [i \in DOMAIN groups |-> groups[i].rows]
GroupsIn(refs)    == [r \in DOMAIN refs |-> refs[r].group]
Picked(sts, refs) == [r \in DOMAIN refs |-> sts[refs[r].s + 1].batch[refs[r].at + 1].rows]

Collected(sts, groups, refs) == Aggregated(RowsIn(groups), GroupsIn(refs), Picked(sts, refs))

View(sts, groups, refs) ==
  [i \in DOMAIN groups |-> Group(groups[i].key, Collected(sts, groups, refs)[i])]

\* Each ref is of a group.
RefsOf(groups, refs) ==
  /\ groups \in Seq(GroupOut) /\ refs \in Seq(Ref)
  /\ \A r \in 1 .. Len(refs) : refs[r].group \in 1 .. Len(groups)

\* ProcessGroupUnspill hands out the groups with the rows collected for them.
LEMMA UnspilledIsView ==
  ASSUME NEW groups, NEW refs PROVE Unspilled(groups, refs) = View(streams, groups, refs)
  BY DEF Unspilled, View, Collected, RowsIn, GroupsIn, Picked

RefsFacts(groups, refs) ==
  /\ Len(groups) \in Nat /\ DOMAIN groups = 1 .. Len(groups)
  /\ \A i \in 1 .. Len(groups) : groups[i] \in GroupOut
  /\ Len(refs) \in Nat /\ DOMAIN refs = 1 .. Len(refs)
  /\ IsIndexed(GroupsIn(refs)) /\ Len(GroupsIn(refs)) = Len(refs)
  /\ \A r \in 1 .. Len(refs) : GroupsIn(refs)[r] = refs[r].group
  /\ DOMAIN RowsIn(groups) = 1 .. Len(groups)
  /\ \A r \in 1 .. Len(refs) : GroupsIn(refs)[r] \in DOMAIN RowsIn(groups)

\* References to rows name groups and streams there are.
LEMMA RefsAre == ASSUME NEW groups, NEW refs, RefsOf(groups, refs) PROVE RefsFacts(groups, refs)
<1>1. groups \in Seq(GroupOut) /\ refs \in Seq(Ref)
  BY DEF RefsOf
<1>2. /\ Len(groups) \in Nat /\ DOMAIN groups = 1 .. Len(groups)
      /\ \A i \in 1 .. Len(groups) : groups[i] \in GroupOut
      /\ Len(refs) \in Nat /\ DOMAIN refs = 1 .. Len(refs)
  BY <1>1, LenProperties, ElementOfSeq
<1> DEFINE l == Len(refs)
           gs == GroupsIn(refs)
<1>3. gs = [r \in 1 .. l |-> refs[r].group]
  BY <1>2 DEF GroupsIn
<1>4. Len(gs) = l /\ DOMAIN gs = 1 .. l /\ \A r \in 1 .. l : gs[r] = refs[r].group
  BY <1>2, <1>3
<1>5. DOMAIN RowsIn(groups) = 1 .. Len(groups)
  BY <1>2 DEF RowsIn
<1> HIDE DEF gs
<1>6. IsIndexed(gs)
  BY <1>2, <1>4 DEF IsIndexed
<1>7. \A r \in 1 .. l : gs[r] \in DOMAIN RowsIn(groups)
  BY <1>4, <1>5 DEF RefsOf
<1> QED
  BY <1>2, <1>4, <1>5, <1>6, <1>7 DEF RefsFacts, gs

\* Nothing collected leaves the groups as they are.
LEMMA ViewOfNone ==
  ASSUME NEW sts, NEW groups \in Seq(GroupOut)
  PROVE  View(sts, groups, <<>>) = groups
<1> DEFINE L == Len(groups)
<1>1. RefsOf(groups, <<>>)
  <2>1. <<>> \in Seq(Ref) /\ Len(<<>>) = 0 /\ 1 .. 0 = {}
    OBVIOUS
  <2> QED
    BY <2>1 DEF RefsOf
<1>2. RefsFacts(groups, <<>>)
  BY <1>1, RefsAre
<1>3. Collected(sts, groups, <<>>) = RowsIn(groups)
  <2>1. IsIndexed(GroupsIn(<<>>)) /\ Len(GroupsIn(<<>>)) = 0
    BY <1>2 DEF RefsFacts
  <2> QED
    BY <2>1, AggregatedNone DEF Collected
<1>4. L \in Nat /\ DOMAIN groups = 1 .. L /\ \A i \in 1 .. L : groups[i] \in GroupOut
  BY <1>2 DEF RefsFacts
<1>5. View(sts, groups, <<>>) = [i \in 1 .. L |-> Group(groups[i].key, groups[i].rows)]
  BY <1>3, <1>4 DEF View, RowsIn
<1>6. \A i \in 1 .. L : Group(groups[i].key, groups[i].rows) = groups[i]
  BY <1>4 DEF Group, GroupOut
<1>7. View(sts, groups, <<>>) = [i \in 1 .. L |-> groups[i]]
  BY <1>5, <1>6
<1> QED
  BY <1>4, <1>7

\* It has the same keys, and the rows that are collected.
ViewKeys(V, groups) ==
  /\ DOMAIN V = 1 .. Len(groups) /\ Len(V) = Len(groups)
  /\ \A i \in 1 .. Len(groups) : V[i].key = groups[i].key

ViewRows(V, groups, c) ==
  \A i \in 1 .. Len(groups) : V[i].rows = c[i] /\ V[i] = Group(groups[i].key, V[i].rows)

\* A group with the rows that were there and those collected for it.
LEMMA ViewIs ==
  ASSUME NEW sts, NEW groups \in Seq(GroupOut), NEW refs
  PROVE  /\ ViewKeys(View(sts, groups, refs), groups)
         /\ ViewRows(View(sts, groups, refs), groups, Collected(sts, groups, refs))
<1> DEFINE V == View(sts, groups, refs)
           L == Len(groups)
           c == Collected(sts, groups, refs)
<1>1. L \in Nat /\ DOMAIN groups = 1 .. L
  BY LenProperties
<1> HIDE DEF c
<1>2. V = [i \in 1 .. L |-> Group(groups[i].key, c[i])]
  BY <1>1 DEF View, c
<1>3. DOMAIN V = 1 .. L /\ Len(V) = L /\ \A i \in 1 .. L : V[i] = Group(groups[i].key, c[i])
  BY <1>1, <1>2
<1> HIDE DEF V
<1>4. \A i \in 1 .. L : V[i].key = groups[i].key /\ V[i].rows = c[i]
                        /\ V[i] = Group(groups[i].key, V[i].rows)
  BY <1>3 DEF Group
<1> QED
  BY <1>3, <1>4 DEF ViewKeys, ViewRows, V, c

\* A row that is collected goes into its group.
ViewMore(V, U, L, g, rows) ==
  /\ \A i \in 1 .. L : i # g => V[i].rows = U[i].rows
  /\ V[g].rows = U[g].rows \o rows

\* One more reference adds its row to its group.
LEMMA ViewOfMore ==
  ASSUME NEW sts, NEW groups, NEW refs, RefsOf(groups, refs), NEW ref \in Ref,
         ref.group \in 1 .. Len(groups)
  PROVE  /\ RefsOf(groups, Append(refs, ref))
         /\ ViewMore(View(sts, groups, Append(refs, ref)), View(sts, groups, refs), Len(groups),
                     ref.group, sts[ref.s + 1].batch[ref.at + 1].rows)
<1> DEFINE l == Len(refs)
           refs2 == Append(refs, ref)
           c == Collected(sts, groups, refs)
           c2 == Collected(sts, groups, refs2)
           g == ref.group
           x == sts[ref.s + 1].batch[ref.at + 1].rows
           m == RowsIn(groups)
           ks == GroupsIn(refs)
           ls == GroupsIn(refs2)
           xs == Picked(sts, refs)
           ys == Picked(sts, refs2)
<1>1. RefsFacts(groups, refs) /\ groups \in Seq(GroupOut) /\ refs \in Seq(Ref)
  BY RefsAre DEF RefsOf
<1>2. /\ l \in Nat /\ refs2 \in Seq(Ref) /\ Len(refs2) = l + 1 /\ DOMAIN refs2 = 1 .. l + 1
      /\ refs2[l + 1] = ref /\ \A i \in 1 .. l : refs2[i] = refs[i]
  BY <1>1, AppendProperties, LenProperties
<1> HIDE DEF refs2
<1>3. \A i \in 1 .. l + 1 : i = l + 1 \/ i \in 1 .. l
  BY <1>2
<1>4. RefsOf(groups, refs2)
  <2>1. \A r \in 1 .. Len(refs2) : refs2[r].group \in 1 .. Len(groups)
    BY <1>2, <1>3 DEF RefsOf
  <2> QED
    BY <1>1, <1>2, <2>1 DEF RefsOf
<1>5. RefsFacts(groups, refs2)
  BY <1>4, RefsAre
<1>6. DOMAIN refs = 1 .. l
  BY <1>1 DEF RefsFacts
<1>7. /\ \A i \in 1 .. l : xs[i] = sts[refs[i].s + 1].batch[refs[i].at + 1].rows
      /\ \A i \in 1 .. l + 1 : ys[i] = sts[refs2[i].s + 1].batch[refs2[i].at + 1].rows
  BY <1>2, <1>6 DEF Picked
<1>8. \A i \in 1 .. l : ls[i] = ks[i] /\ ys[i] = xs[i]
  <2> SUFFICES ASSUME NEW i \in 1 .. l PROVE ls[i] = ks[i] /\ ys[i] = xs[i]
    OBVIOUS
  <2>1. i \in 1 .. l + 1 /\ refs2[i] = refs[i]
    BY <1>2
  <2>2. ls[i] = refs2[i].group /\ ks[i] = refs[i].group
    BY <1>1, <1>2, <1>5, <2>1 DEF RefsFacts
  <2>3. ys[i] = xs[i]
    BY <1>7, <2>1
  <2> QED
    BY <2>1, <2>2, <2>3
<1>9. ls[l + 1] = g /\ ys[l + 1] = x
  <2>1. l + 1 \in 1 .. l + 1
    BY <1>2
  <2> QED
    BY <1>2, <1>5, <1>7, <2>1 DEF RefsFacts
<1>10. IsIndexed(ks) /\ IsIndexed(ls) /\ Len(ks) = l /\ Len(ls) = l + 1
  BY <1>1, <1>2, <1>5 DEF RefsFacts
<1> HIDE DEF ks, ls, xs, ys, m, x
<1>11. c2 = Aggregate(c, g, x)
  <2> HIDE DEF l
  <2>1. Aggregated(m, ls, ys) = Aggregate(Aggregated(m, ks, xs), ls[l + 1], ys[l + 1])
    BY ONLY <1>8, <1>10, AggregatedMore
  <2> QED
    BY <1>9, <2>1 DEF Collected, m, ks, ls, xs, ys
<1>12. DOMAIN c = 1 .. Len(groups)
  <2>1. \A i \in 1 .. Len(ks) : ks[i] \in DOMAIN m
    BY <1>1, <1>10 DEF RefsFacts, ks, m
  <2>2. DOMAIN Aggregated(m, ks, xs) = DOMAIN m
    BY <1>10, <2>1, AggregatedDomain
  <2> QED
    BY <1>1, <2>2 DEF RefsFacts, Collected, m, ks, xs
<1> HIDE DEF c, c2
<1>13. \A i \in 1 .. Len(groups) : c2[i] = IF i # g THEN c[i] ELSE c[g] \o x
  BY <1>11, <1>12 DEF Aggregate
<1>14. /\ \A i \in 1 .. Len(groups) : View(sts, groups, refs2)[i].rows = c2[i]
       /\ \A i \in 1 .. Len(groups) : View(sts, groups, refs)[i].rows = c[i]
  <2>1. /\ ViewRows(View(sts, groups, refs2), groups, Collected(sts, groups, refs2))
        /\ ViewRows(View(sts, groups, refs), groups, Collected(sts, groups, refs))
    BY <1>1, ViewIs
  <2> QED
    BY <2>1 DEF ViewRows, c, c2
<1>15. ViewMore(View(sts, groups, refs2), View(sts, groups, refs), Len(groups), g, x)
  BY <1>13, <1>14 DEF ViewMore
<1> QED
  BY <1>4, <1>15 DEF refs2, x

\* A new group is empty.
ViewNew(V, U, L) ==
  /\ \A i \in 1 .. L : V[i].rows = U[i].rows
  /\ V[L + 1].rows = <<>>

\* A new group has no rows yet, the others stay.
LEMMA ViewOfNew ==
  ASSUME NEW sts, NEW groups, NEW refs, RefsOf(groups, refs), NEW k \in Keys
  PROVE  /\ RefsOf(Append(groups, Group(k, <<>>)), refs)
         /\ ViewNew(View(sts, Append(groups, Group(k, <<>>)), refs), View(sts, groups, refs), Len(groups))
<1> DEFINE L == Len(groups)
           new == Group(k, <<>>)
           groups2 == Append(groups, new)
           c == Collected(sts, groups, refs)
           c2 == Collected(sts, groups2, refs)
           m == RowsIn(groups)
           m2 == RowsIn(groups2)
           ks == GroupsIn(refs)
           xs == Picked(sts, refs)
<1>1. RefsFacts(groups, refs) /\ groups \in Seq(GroupOut) /\ refs \in Seq(Ref)
  BY RefsAre DEF RefsOf
<1>2. new \in GroupOut /\ new.rows = <<>>
  BY DEF Group, GroupOut
<1> HIDE DEF new
<1>3. /\ L \in Nat /\ groups2 \in Seq(GroupOut) /\ Len(groups2) = L + 1 /\ DOMAIN groups2 = 1 .. L + 1
      /\ groups2[L + 1] = new /\ \A i \in 1 .. L : groups2[i] = groups[i]
  BY <1>1, <1>2, AppendProperties, LenProperties
<1> HIDE DEF groups2
<1>4. RefsOf(groups2, refs)
  <2>1. \A r \in 1 .. Len(refs) : refs[r].group \in 1 .. L + 1
    BY <1>3 DEF RefsOf
  <2> QED
    BY <1>1, <1>3, <2>1 DEF RefsOf
<1>5. DOMAIN groups = 1 .. L /\ \A i \in 1 .. L + 1 : i = L + 1 \/ (i \in 1 .. L /\ i # L + 1)
  BY <1>1, <1>3 DEF RefsFacts
<1>6. m2 = Aggregate(m, L + 1, <<>>)
  <2>1. m2 = [i \in 1 .. L + 1 |-> groups2[i].rows] /\ m = [i \in 1 .. L |-> groups[i].rows]
    BY <1>3, <1>5 DEF RowsIn
  <2>2. m2 = [i \in 1 .. L + 1 |-> IF i = L + 1 THEN <<>> ELSE m[i]]
    BY <1>2, <1>3, <1>5, <2>1
  <2>3. DOMAIN m = 1 .. L
    BY <2>1
  <2> HIDE DEF m, m2
  <2>4. DOMAIN m \cup {L + 1} = 1 .. L + 1
    BY <1>3, <2>3
  <2>5. L + 1 \notin DOMAIN m
    BY <1>3, <2>3
  <2>6. Aggregate(m, L + 1, <<>>) = [i \in 1 .. L + 1 |-> IF i # L + 1 THEN m[i] ELSE <<>>]
    BY <2>4, <2>5 DEF Aggregate
  <2> QED
    BY <2>2, <2>6
<1>7. /\ IsIndexed(ks) /\ DOMAIN m = 1 .. L
      /\ \A i \in 1 .. Len(ks) : ks[i] \in DOMAIN m
  BY <1>1 DEF RefsFacts
<1> HIDE DEF m, m2, ks, xs
<1>8. L + 1 \notin DOMAIN m
  BY <1>3, <1>7
<1>9. c2 = Aggregate(c, L + 1, <<>>)
  <2>2. PICK n, e : n = L + 1 /\ e = <<>>
    OBVIOUS
  <2>1. Aggregated(Aggregate(m, n, e), ks, xs) = Aggregate(Aggregated(m, ks, xs), n, e)
    <3>1. IsIndexed(ks) /\ n \notin DOMAIN m /\ \A i \in 1 .. Len(ks) : ks[i] \in DOMAIN m
      BY <1>7, <1>8, <2>2
    <3> QED
      BY ONLY <3>1, AggregatedBeside
  <2> QED
    BY <1>6, <2>1, <2>2 DEF Collected, m, m2, ks, xs
<1>10. DOMAIN c = 1 .. L
  <2>1. DOMAIN Aggregated(m, ks, xs) = DOMAIN m
    BY <1>7, AggregatedDomain
  <2> QED
    BY <1>7, <2>1 DEF Collected, m, ks, xs
<1> HIDE DEF c, c2
<1>11. (\A i \in 1 .. L : c2[i] = c[i]) /\ c2[L + 1] = <<>>
  <2>1. L + 1 \notin DOMAIN c /\ L + 1 \in DOMAIN c \cup {L + 1} /\ \A i \in 1 .. L : i # L + 1
    BY <1>3, <1>10
  <2> QED
    BY <1>9, <1>10, <2>1 DEF Aggregate
<1>12. /\ \A i \in 1 .. L + 1 : View(sts, groups2, refs)[i].rows = c2[i]
       /\ \A i \in 1 .. L : View(sts, groups, refs)[i].rows = c[i]
  <2>1. /\ ViewRows(View(sts, groups2, refs), groups2, Collected(sts, groups2, refs))
        /\ ViewRows(View(sts, groups, refs), groups, Collected(sts, groups, refs))
    BY <1>1, <1>3, ViewIs
  <2> QED
    BY <1>3, <2>1 DEF ViewRows, c, c2
<1>13. ViewNew(View(sts, groups2, refs), View(sts, groups, refs), L)
  <2>1. L + 1 \in 1 .. L + 1 /\ \A i \in 1 .. L : i \in 1 .. L + 1
    BY <1>3
  <2> QED
    BY <1>11, <1>12, <2>1 DEF ViewNew
<1> QED
  BY <1>4, <1>13 DEF groups2, new

\* It depends on the batches of the streams only.
LEMMA ViewOfSame ==
  ASSUME NEW sts, NEW sts2, NEW groups, NEW refs, RefsOf(groups, refs),
         \A r \in 1 .. Len(refs) : sts2[refs[r].s + 1].batch = sts[refs[r].s + 1].batch
  PROVE  View(sts2, groups, refs) = View(sts, groups, refs)
<1>1. RefsFacts(groups, refs)
  BY RefsAre
<1>2. DOMAIN refs = 1 .. Len(refs) /\ DOMAIN groups = 1 .. Len(groups)
  BY <1>1 DEF RefsFacts
<1>3. Picked(sts2, refs) = Picked(sts, refs)
  BY <1>2 DEF Picked
<1> QED
  BY <1>3 DEF View, Collected

\* A total grows with what it is the total of.
LEMMA TotalGrows ==
  ASSUME NEW S, IsFiniteSet(S), NEW f, NEW g, \A x \in S : f[x] \in Int /\ g[x] \in Int /\ f[x] <= g[x]
  PROVE  Total(f, S) <= Total(g, S)
<1> DEFINE B == {T \in SUBSET S : ~(Total(f, T) <= Total(g, T))}
<1> SUFFICES ASSUME B # {} PROVE FALSE
  OBVIOUS
<1>1. PICK m \in B : \A n \in B : n \subseteq m => n = m
  <2>1. B \in SUBSET SUBSET S
    OBVIOUS
  <2> HIDE DEF B
  <2> QED
    BY <2>1, SmallestSubset
<1>2. m \in SUBSET S /\ IsFiniteSet(m) /\ ~(Total(f, m) <= Total(g, m))
  BY <1>1, FS_Subset
<1>3. m # {}
  <2>1. m = {} => Total(f, m) = 0 /\ Total(g, m) = 0
    BY <1>2, TotalOfNone
  <2> QED
    BY <1>2, <2>1
<1>4. PICK x \in m : TRUE
  BY <1>3
<1>5. PICK r : r = m \ {x}
  OBVIOUS
<1>6. r \notin B /\ r \in SUBSET S /\ IsFiniteSet(r)
  BY <1>1, <1>2, <1>4, <1>5, FS_Subset
<1>7. Total(f, r) <= Total(g, r)
  BY <1>6
<1>8. Total(f, m) = f[x] + Total(f, r) /\ Total(g, m) = g[x] + Total(g, r)
  BY <1>2, <1>4, <1>5, TotalWithout
<1>9. Total(f, r) \in Int /\ Total(g, r) \in Int
  BY <1>6, TotalType
<1>10. f[x] \in Int /\ g[x] \in Int /\ f[x] <= g[x]
  BY <1>2, <1>4
<1> HIDE DEF B
<1> QED
  BY <1>2, <1>7, <1>8, <1>9, <1>10

NowhereMore(f, g, S) == \A x \in S : f[x] \in Int /\ g[x] \in Int /\ f[x] <= g[x]

\* Those of which none is greater, with the same total, are the same.
LEMMA TotalsEqual ==
  ASSUME NEW S, IsFiniteSet(S), NEW f, NEW g, NowhereMore(f, g, S),
         Total(f, S) = Total(g, S), NEW x \in S
  PROVE  f[x] = g[x]
<1>1. PICK r : r = S \ {x}
  OBVIOUS
<1>2. IsFiniteSet(r) /\ r \in SUBSET S
  BY <1>1, FS_Subset
<1>0. \A y \in S : f[y] \in Int /\ g[y] \in Int /\ f[y] <= g[y]
  BY DEF NowhereMore
<1>3. Total(f, r) <= Total(g, r)
  BY <1>0, <1>2, TotalGrows
<1>4. Total(f, S) = f[x] + Total(f, r) /\ Total(g, S) = g[x] + Total(g, r)
  BY <1>0, <1>1, TotalWithout
<1>5. Total(f, r) \in Int /\ Total(g, r) \in Int
  BY <1>0, <1>2, TotalType
<1>6. f[x] \in Int /\ g[x] \in Int /\ f[x] <= g[x]
  BY <1>0
<1>7. PICK a \in Int, b \in Int, c \in Int, e \in Int :
        a = f[x] /\ b = g[x] /\ c = Total(f, r) /\ e = Total(g, r)
  BY <1>5, <1>6
<1>8. a + c = b + e /\ a <= b /\ c <= e
  BY <1>3, <1>4, <1>6, <1>7
<1> QED
  BY <1>7, <1>8

\* The groups with another row collected.
RowCollects(d, U, G, groups, refs, fresh, row) ==
  /\ G \in Seq(GroupOut) /\ Len(G) = Len(groups) /\ Len(groups) \in Nat \ {0}
  /\ Collects(d \o U, ~fresh, row, d \o G) /\ Len(d \o G) > Len(d) /\ d \o G \in Seq(GroupOut)
  /\ RefsOf(groups, refs) /\ groups \in Seq(GroupOut)

\* Collecting a row in a new group or in the last one.
LEMMA RowCollected ==
  ASSUME NEW sts, NEW out, NEW refs, RefsOf(out, refs), NEW d \in Seq(GroupOut),
         NEW U, U = View(sts, out, refs), U \in Seq(GroupOut),
         NEW fresh \in BOOLEAN, ~fresh => out # <<>>, NEW row \in RunRow,
         NEW groups, groups = IF fresh THEN Append(out, Group(row.group, <<>>)) ELSE out,
         NEW ref \in Ref, ref.group = Len(groups), sts[ref.s + 1].batch[ref.at + 1] = row,
         NEW G, G = View(sts, groups, Append(refs, ref))
  PROVE  RowCollects(d, U, G, groups, Append(refs, ref), fresh, row)
<1> DEFINE l == Len(out)
           L == Len(groups)
           D == Len(d)
           k == row.group
           U0 == View(sts, groups, refs)
<1>1. /\ out \in Seq(GroupOut) /\ l \in Nat /\ D \in Nat /\ k \in Keys /\ row.rows \in Seq(Nat)
  BY LenProperties DEF RefsOf, RunRow
<1>2. ViewKeys(U, out)
  BY <1>1, ViewIs
<1>3. /\ Len(U) = l /\ \A i \in 1 .. l : U[i] = Group(U[i].key, U[i].rows) /\ U[i] \in GroupOut
                                         /\ U[i].rows \in Seq(Nat)
  <2>1. Len(U) = l /\ \A i \in 1 .. l : U[i].key = out[i].key
    BY <1>2 DEF ViewKeys
  <2>2. \A i \in 1 .. l : U[i] = Group(out[i].key, U[i].rows)
    <3>1. ViewRows(U, out, Collected(sts, out, refs))
      BY <1>1, ViewIs
    <3> QED
      BY <3>1 DEF ViewRows
  <2>3. \A i \in 1 .. l : U[i] \in GroupOut
    BY <2>1, ElementOfSeq
  <2> QED
    BY <2>1, <2>2, <2>3 DEF GroupOut
<1>4. /\ RefsOf(groups, refs) /\ groups \in Seq(GroupOut) /\ L \in Nat \ {0}
      /\ L = IF fresh THEN l + 1 ELSE l
      /\ \A i \in 1 .. l : U0[i].rows = U[i].rows /\ groups[i].key = U[i].key
      /\ fresh => U0[L].rows = <<>> /\ groups[L].key = k
  <2>1. CASE fresh
    <3> DEFINE new == Group(k, <<>>)
    <3>1. new \in GroupOut /\ new.key = k
      BY <1>1 DEF Group, GroupOut
    <3>2. RefsOf(Append(out, new), refs) /\ ViewNew(View(sts, Append(out, new), refs), View(sts, out, refs), l)
      BY <1>1, ViewOfNew
    <3> HIDE DEF new
    <3>3. /\ Append(out, new) \in Seq(GroupOut) /\ Len(Append(out, new)) = l + 1
          /\ Append(out, new)[l + 1] = new /\ \A i \in 1 .. l : Append(out, new)[i] = out[i]
      BY <1>1, <3>1, AppendProperties
    <3>4. groups = Append(out, new)
      BY <2>1 DEF new
    <3>5. /\ RefsOf(groups, refs) /\ groups \in Seq(GroupOut) /\ L = l + 1
          /\ groups[l + 1] = new /\ \A i \in 1 .. l : groups[i] = out[i]
      BY <3>2, <3>3, <3>4
    <3>6. ViewNew(U0, U, l)
      BY <3>2, <3>4
    <3>7. \A i \in 1 .. l : U[i].key = out[i].key
      BY <1>2 DEF ViewKeys
    <3> HIDE DEF U0, L
    <3>8. L \in Nat \ {0}
      BY <1>1, <3>5
    <3>9. U0[L].rows = <<>> /\ \A i \in 1 .. l : U0[i].rows = U[i].rows
      BY <3>5, <3>6 DEF ViewNew
    <3> QED
      BY <2>1, <3>1, <3>5, <3>7, <3>8, <3>9
  <2>2. CASE ~fresh
    <3>1. groups = out /\ U0 = U
      BY <2>2
    <3>2. l # 0
      BY <1>1, <2>2, EmptySeq
    <3>3. \A i \in 1 .. l : U[i].key = out[i].key
      BY <1>2 DEF ViewKeys
    <3> QED
      BY <1>1, <2>2, <3>1, <3>2, <3>3
  <2> QED
    BY <2>1, <2>2
<1> DEFINE refs2 == Append(refs, ref)
           x == sts[ref.s + 1].batch[ref.at + 1].rows
<1>5. RefsOf(groups, refs2) /\ ViewMore(G, U0, L, L, x) /\ x = row.rows
  <2>1. ref.group \in 1 .. Len(groups)
    BY <1>4
  <2>2. /\ RefsOf(groups, Append(refs, ref))
        /\ ViewMore(View(sts, groups, Append(refs, ref)), View(sts, groups, refs), Len(groups),
                    ref.group, sts[ref.s + 1].batch[ref.at + 1].rows)
    BY <1>4, <2>1, ViewOfMore
  <2> QED
    BY <2>2
<1>6. /\ Len(G) = L /\ DOMAIN G = 1 .. L
      /\ \A i \in 1 .. L : G[i].key = groups[i].key /\ G[i] = Group(groups[i].key, G[i].rows)
  <2>1. ViewKeys(G, groups)
    BY <1>4, ViewIs
  <2>2. \A i \in 1 .. L : G[i] = Group(groups[i].key, G[i].rows)
    <3>1. ViewRows(G, groups, Collected(sts, groups, refs2))
      BY <1>4, ViewIs
    <3> QED
      BY <3>1 DEF ViewRows
  <2> QED
    BY <2>1, <2>2 DEF ViewKeys
<1> HIDE DEF U0, refs2, x, l, L
<1>7. L \in 1 .. L /\ \A i \in 1 .. L : i = L \/ (i \in 1 .. l /\ i \in 1 .. L - 1 /\ i # L)
  BY <1>1, <1>4
<1>8. ASSUME NEW i \in 1 .. L - 1 PROVE G[i] = U[i] /\ i \in 1 .. l
  <2>1. i \in 1 .. l /\ i \in 1 .. L /\ i # L
    BY <1>1, <1>4
  <2>2. G[i].rows = U0[i].rows
    BY <1>5, <2>1 DEF ViewMore
  <2>3. G[i].rows = U[i].rows /\ groups[i].key = U[i].key
    BY <1>4, <2>1, <2>2
  <2>4. G[i] = Group(groups[i].key, G[i].rows) /\ U[i] = Group(U[i].key, U[i].rows)
    BY <1>3, <1>6, <2>1 DEF l
  <2>5. G[i] = U[i]
    BY ONLY <2>3, <2>4
  <2> QED
    BY <2>1, <2>5
<1>9. G[L].key = IF fresh THEN k ELSE U[L].key
  BY <1>1, <1>4, <1>6, <1>7
<1>10. G[L].rows = IF fresh THEN row.rows ELSE U[L].rows \o row.rows
  <2>1. G[L].rows = U0[L].rows \o row.rows
    BY <1>5 DEF ViewMore
  <2>2. fresh => G[L].rows = <<>> \o row.rows
    BY <1>4, <2>1
  <2>3. ~fresh => G[L].rows = U[L].rows \o row.rows
    BY <1>4, <1>7, <2>1
  <2>4. <<>> \o row.rows = row.rows
    BY <1>1
  <2> QED
    BY <2>2, <2>3, <2>4
<1>11. G[L] \in GroupOut
  <2>1. G[L].rows \in Seq(Nat)
    <3>1. ~fresh => U[L].rows \in Seq(Nat)
      BY <1>3, <1>4, <1>7 DEF l
    <3> QED
      BY <1>1, <1>10, <3>1, ConcatProperties, ZenonT(60)
  <2>2. G[L].key \in Keys
    <3>1. ~fresh => U[L].key \in Keys
      BY <1>3, <1>4, <1>7 DEF l, GroupOut
    <3> QED
      BY <1>1, <1>9, <3>1
  <2>3. G[L] = Group(G[L].key, G[L].rows)
    <3>1. G[L] = Group(groups[L].key, G[L].rows) /\ G[L].key = groups[L].key
      BY <1>6, <1>7
    <3> QED
      BY ONLY <3>1
  <2> QED
    BY <2>1, <2>2, <2>3 DEF Group, GroupOut
<1>12. G \in Seq(GroupOut)
  <2>1. \A i \in 1 .. L : G[i] \in GroupOut
    BY <1>3, <1>7, <1>8, <1>11 DEF l
  <2>2. G = [i \in 1 .. L |-> G[i]]
    BY <1>4, <1>6 DEF View, L
  <2>3. G \in [1 .. L -> GroupOut]
    BY <2>1, <2>2
  <2> QED
    BY <1>4, <2>3, SeqDef, ZenonT(60)
<1> DEFINE A == d \o U
           V == d \o G
<1>13. /\ A \in Seq(GroupOut) /\ Len(A) = D + l
       /\ \A i \in 1 .. D + l : A[i] = IF i <= D THEN d[i] ELSE U[i - D]
  <2>1. d \in Seq(GroupOut) /\ U \in Seq(GroupOut) /\ Len(U) = l
    BY <1>3 DEF l
  <2> QED
    BY ONLY <2>1, ConcatProperties DEF A, D
<1>14. /\ V \in Seq(GroupOut) /\ Len(V) = D + L
       /\ \A i \in 1 .. D + L : V[i] = IF i <= D THEN d[i] ELSE G[i - D]
  BY <1>6, <1>12, ConcatProperties
<1> HIDE DEF A, V, D
<1>15. Collects(A, ~fresh, row, V)
  <2>0. Len(V) \in Nat /\ Len(A) \in Nat /\ l \in Nat
    BY <1>1, <1>4, <1>13, <1>14 DEF D, l
  <2>1. Len(V) = IF ~fresh THEN Len(A) ELSE Len(A) + 1
    BY <1>1, <1>4, <1>13, <1>14, <2>0 DEF D, l
  <2>2. ASSUME NEW i \in 1 .. Len(V) - 1 PROVE V[i] = A[i]
    <3>1. i \in 1 .. D + L /\ i \in 1 .. D + l /\ i \in Nat /\ D \in Nat
      BY <1>1, <1>4, <1>14, <2>0 DEF D, l
    <3>2. ~(i <= D) => i - D \in 1 .. L - 1
      BY <1>4, <1>14, <3>1, SMTT(40)
    <3> QED
      BY <1>8, <1>13, <1>14, <3>1, <3>2
  <2>3. V[Len(V)] = G[L]
    <3>2. D \in Nat /\ L \in Nat \ {0}
      BY <1>1, <1>4 DEF D
    <3>1. D + L \in 1 .. D + L /\ ~(D + L <= D) /\ D + L - D = L
      BY <3>2
    <3>3. PICK q : q = D + L
      OBVIOUS
    <3>4. q \in 1 .. D + L /\ ~(q <= D) /\ q - D = L
      BY <3>2, <3>3
    <3>5. V[q] = G[q - D]
      BY <1>14, <3>4
    <3> QED
      BY <1>14, <3>3, <3>4, <3>5
  <2>4. ~fresh => A[Len(A)] = U[L]
    <3> SUFFICES ASSUME ~fresh PROVE A[Len(A)] = U[L]
      OBVIOUS
    <3>2. D \in Nat /\ L \in Nat \ {0} /\ l = L
      BY <1>1, <1>4 DEF D, l
    <3>1. D + l \in 1 .. D + l /\ ~(D + l <= D) /\ D + l - D = L
      BY <3>2
    <3>3. PICK q : q = D + l
      OBVIOUS
    <3>4. q \in 1 .. D + l /\ ~(q <= D) /\ q - D = L
      BY <3>2, <3>3
    <3>5. A[q] = U[q - D]
      BY <1>13, <3>4
    <3> QED
      BY <1>13, <3>3, <3>4, <3>5
  <2> QED
    BY <1>9, <1>10, <1>14, <2>1, <2>2, <2>3, <2>4 DEF Collects
<1>16. Len(V) > Len(d)
  BY <1>1, <1>4, <1>14 DEF D, l
<1> QED
  BY <1>4, <1>5, <1>6, <1>12, <1>14, <1>15, <1>16 DEF RowCollects, A, V, L, refs2

-----------------------------------------------------------------------------
(* MergeRow.                                                               *)

\* While the merge goes on everything is in the runs w, each read by a stream.
InRuns(w, h, n) ==
  /\ n \in Nat \ {0} /\ n = Len(streams) /\ n = Len(files) /\ streams \in Seq(Stream)
  /\ \A j \in 1 .. n : StreamOK(streams[j], files[j], w[j]) /\ files[j].rows = Len(w[j])
                       /\ w[j] \in Seq(RunRow)
  /\ RunsOf(KeyAt, w, n, h)
  /\ HasAgg => \A x \in DOMAIN KeyAt : h[x] \in 1 .. n
  /\ Positions = [j \in 1 .. n |-> Pos(streams[j])]

\* The invariant, where the merge goes on.
LEMMA MergeFacts ==
  ASSUME Control, Phase, NEW w, NEW h, Where(w, h), streams # <<>>
  PROVE  /\ InRuns(w, h, Len(streams)) /\ Merged(w, h) /\ Tree /\ InMap(w, h)
         /\ ~arrayMode /\ map = EmptyMap /\ Spilled(w, h)
<1> DEFINE n == Len(streams)
           N == Len(given)
<1>1. /\ Merged(w, h) /\ Tree /\ ~arrayMode /\ streams \in Seq(Stream) /\ Spilled(w, h)
  BY DEF Where, Phase, Control
<1>2. map = EmptyMap /\ n = Len(files) /\ InMap(w, h)
  BY <1>1 DEF Merged, Where, InMem
<1>3. n \in Nat \ {0}
  BY <1>1, LenProperties, EmptySeq
<1>4. N \in Nat /\ DOMAIN KeyAt = 1 .. N
  BY LenProperties DEF Control, Numbered, KeyAt
<1> HIDE DEF n, N
<1>5. /\ h \in [1 .. N -> 0 .. n]
      /\ \A j \in 1 .. n : IsRun(w[j], CountedOf(N, h, j), KeyAt) /\ FileOf(files[j], w[j])
  BY <1>1, <1>2 DEF Spilled, SpilledOf, N
<1>6. \A j : CountedOf(N, h, j) = {x \in DOMAIN KeyAt : HasAgg /\ h[x] = j}
  BY <1>4 DEF CountedOf
<1>7. RunsOf(KeyAt, w, n, h)
  BY <1>5, <1>6 DEF RunsOf
<1>8. ASSUME HasAgg, NEW x \in DOMAIN KeyAt PROVE h[x] \in 1 .. n
  <2>1. h[x] \in 0 .. n
    BY <1>4, <1>5
  <2>2. h[x] = 0 => x \in CountedOf(N, h, 0)
    BY <1>6, <1>8
  <2>3. Holds(map, CountedOf(N, h, 0), KeyAt) /\ DOMAIN map = {}
    BY <1>2 DEF InMap, MapHas, EmptyMap, N
  <2>4. h[x] # 0
    BY <2>2, <2>3 DEF Holds
  <2> QED
    BY <1>3, <2>1, <2>4
<1>9. \A j \in 1 .. n : StreamOK(streams[j], files[j], w[j])
  BY <1>1 DEF Merged, n
<1>10. \A j \in 1 .. n : files[j].rows = Len(w[j]) /\ w[j] \in Seq(RunRow)
  BY <1>5 DEF FileOf, IsRun
<1>11. Positions = [j \in 1 .. n |-> Pos(streams[j])]
  BY DEF Positions, n
<1>12. InRuns(w, h, n)
  BY <1>1, <1>2, <1>3, <1>7, <1>8, <1>9, <1>10, <1>11 DEF InRuns, n
<1> QED
  BY <1>1, <1>2, <1>12 DEF n

\* What NextStream of the tree finds, and the row of stream s.
NextOf   == NextWithEqual(Heads(streams), tree, TRUE)
RowOf(s) == streams[s + 1].batch[streams[s + 1].at + 1]

\* The streams and the tree after a row of stream s is taken.
MovedStreams(s) == [streams EXCEPT ![s + 1] = MovedOn(streams[s + 1], files[s + 1])]

RowTaken(w, h, n, s, next, sts2, pos2) ==
  /\ s \in Nat /\ s + 1 \in 1 .. n
  /\ Takes(w, n, Positions, s + 1, next.equal) /\ Taken(n, Positions, s + 1, pos2)
  /\ RowOf(s) = w[s + 1][Positions[s + 1] + 1] /\ RowOf(s) \in RunRow
  /\ sts2 \in Seq(Stream) /\ Len(sts2) = n
  /\ \A j \in 1 .. n : StreamOK(sts2[j], files[j], w[j])
  /\ IsReady(n, Heads(sts2), next.tree, TRUE)
  /\ Total(pos2, 1 .. n) = Total(Positions, 1 .. n) + 1
  /\ \A j \in 1 .. n : pos2[j] \in Nat /\ pos2[j] <= Len(w[j])
  /\ NeedsBatch(streams[s + 1]) <=> IsLastRow(streams[s + 1])
  /\ ~NeedsBatch(streams[s + 1]) => \A j \in 1 .. n : sts2[j].batch = streams[j].batch
  /\ streams[s + 1].at \in Nat

\* The merge takes the least row, and its stream moves on.
LEMMA TakesRow ==
  ASSUME Control, Phase, NEW w, NEW h, Where(w, h), streams # <<>>, ~finished,
         NEW n, n = Len(streams), NEW next, next = NextOf, NEW s, s = next.tree.last, s # EMPTY,
         NEW sts2, sts2 = MovedStreams(s), NEW pos2, pos2 = [j \in 1 .. n |-> Pos(sts2[j])]
  PROVE  RowTaken(w, h, n, s, next, sts2, pos2)
<1>1. InRuns(w, h, n) /\ IsReady(n, Heads(streams), tree, TRUE)
  BY MergeFacts DEF Tree
<1>2. /\ n \in Nat \ {0} /\ n = Len(files) /\ streams \in Seq(Stream)
      /\ \A j \in 1 .. n : StreamOK(streams[j], files[j], w[j]) /\ w[j] \in Seq(RunRow)
      /\ Positions = [j \in 1 .. n |-> Pos(streams[j])]
  BY <1>1 DEF InRuns
<1>3. Finds(w, n, Heads(streams), Positions, next)
  BY <1>1, <1>2, Winner DEF NextOf
<1>4. /\ s \in 0 .. n - 1 /\ s + 1 \in 1 .. n /\ s \in Nat
      /\ Takes(w, n, Positions, s + 1, next.equal) /\ StaysReady(n, Heads(streams), next.tree, TRUE)
  <2>1. /\ s \in 0 .. n - 1 /\ s + 1 \in 1 .. n
        /\ Takes(w, n, Positions, s + 1, next.equal) /\ StaysReady(n, Heads(streams), next.tree, TRUE)
    BY <1>3 DEF Finds
  <2>2. n \in Nat
    BY <1>2
  <2>3. s \in Nat
    BY <2>1, <2>2
  <2> QED
    BY ONLY <2>1, <2>3
<1>5. PICK J \in 1 .. n : J = s + 1
  BY <1>4
<1> DEFINE t == streams[J]
           f == files[J]
           t2 == MovedOn(t, f)
<1>6. Positions[J] = Pos(t) /\ StandsAt(t, w[J], Pos(t)) /\ StreamOK(t, f, w[J])
  BY <1>2, RowAt
<1>7. t.at < t.count /\ t.batch[t.at + 1] = w[J][Positions[J] + 1] /\ w[J][Positions[J] + 1] \in RunRow
  <2>1. Positions[J] + 1 <= Len(w[J]) /\ Positions[J] \in Nat /\ Len(w[J]) \in Nat
    BY <1>4, <1>5 DEF Takes
  <2>2. Pos(t) < Len(w[J])
    BY <1>6, <2>1
  <2> QED
    BY <1>6, <2>2 DEF StandsAt
<1>8. MovesTo(t, f, w[J], t2)
  BY <1>6, <1>7, MovesOn
<1> HIDE DEF t2
<1>9. /\ sts2 \in Seq(Stream) /\ Len(sts2) = n /\ sts2[J] = t2
      /\ \A j \in 1 .. n : j # J => sts2[j] = streams[j]
  <2>1. t2 \in Stream
    BY <1>8 DEF MovesTo
  <2>2. sts2 = [streams EXCEPT ![J] = t2]
    BY <1>5 DEF MovedStreams, t2
  <2>3. DOMAIN streams = 1 .. n
    BY <1>2, LenProperties
  <2>4. sts2 = [j \in 1 .. n |-> IF j = J THEN t2 ELSE streams[j]]
    BY <2>2, <2>3
  <2>5. \A j \in 1 .. n : streams[j] \in Stream
    BY <1>2, ElementOfSeq
  <2>6. sts2 \in [1 .. n -> Stream]
    BY <2>1, <2>4, <2>5
  <2>7. sts2 \in Seq(Stream) /\ Len(sts2) = n
    BY <1>2, <2>6, SMTT(40)
  <2> QED
    BY <2>4, <2>7
<1>10. ASSUME NEW j \in 1 .. n PROVE StreamOK(sts2[j], files[j], w[j])
  <2>1. j = J => StreamOK(sts2[j], files[j], w[j])
    BY <1>8, <1>9 DEF MovesTo
  <2>2. j # J => StreamOK(sts2[j], files[j], w[j])
    BY <1>2, <1>9
  <2> QED
    BY <2>1, <2>2
<1>11. HeadsAt(streams, w, n) /\ HeadsAt(sts2, w, n)
  BY <1>2, <1>9, <1>10, HeadsAre
<1>12. ASSUME NEW j \in 1 .. n PROVE pos2[j] \in Nat /\ pos2[j] <= Len(w[j]) /\ Positions[j] \in Nat
  <2>1. HeadAt(sts2[j], w[j], Heads(sts2)[j - 1]) /\ HeadAt(streams[j], w[j], Heads(streams)[j - 1])
    BY <1>11 DEF HeadsAt
  <2>2. pos2[j] = Pos(sts2[j]) /\ Positions[j] = Pos(streams[j])
    BY <1>2
  <2> QED
    BY <2>1, <2>2 DEF HeadAt
<1>13. pos2[J] = Positions[J] + 1 /\ \A j \in 1 .. n : j # J => pos2[j] = Positions[j]
  <2>1. Pos(t2) = Pos(t) + 1
    BY <1>8 DEF MovesTo
  <2>2. pos2[J] = Pos(t2)
    BY <1>9
  <2>3. \A j \in 1 .. n : j # J => pos2[j] = Pos(streams[j])
    BY <1>9
  <2> QED
    BY <1>2, <1>6, <2>1, <2>2, <2>3
<1>14. Taken(n, Positions, J, pos2)
  BY <1>13 DEF Taken
<1>15. IsReady(n, Heads(sts2), next.tree, TRUE)
  <2>1. IsHead(n, Heads(sts2))
    BY <1>11 DEF HeadsAt
  <2>2. ASSUME NEW i \in 0 .. n - 1, i # s PROVE Heads(sts2)[i] = Heads(streams)[i]
    <3>1. i + 1 \in 1 .. n /\ i + 1 # J /\ i \in 0 .. Len(sts2) - 1 /\ i \in 0 .. Len(streams) - 1
      BY <1>2, <1>4, <1>5, <1>9, <2>2
    <3>2. sts2[i + 1] = streams[i + 1]
      BY <1>9, <3>1
    <3> QED
      BY <3>1, <3>2 DEF Heads
  <2> QED
    BY <1>4, <2>1, <2>2 DEF StaysReady
<1>16. Total(pos2, 1 .. n) = Total(Positions, 1 .. n) + 1
  <2>1. IsFiniteSet(1 .. n)
    BY <1>2, FS_Interval
  <2>2. PICK p : p = Positions
    OBVIOUS
  <2>3. \A y \in 1 .. n : p[y] \in Int /\ pos2[y] \in Int
    BY <1>12, <2>2
  <2>4. \A y \in (1 .. n) \ {J} : p[y] = pos2[y]
    BY <1>13, <2>2
  <2>5. Total(pos2, 1 .. n) = Total(p, 1 .. n) - p[J] + pos2[J]
    <3>1. PICK S, q : S = 1 .. n /\ q = pos2
      OBVIOUS
    <3>2. /\ IsFiniteSet(S) /\ J \in S /\ \A y \in S : p[y] \in Int /\ q[y] \in Int
          /\ IsFiniteSet(S \ {J}) /\ \A y \in S \ {J} : p[y] = q[y] /\ p[y] \in Int
      BY <2>1, <2>3, <2>4, <3>1, FS_Subset
    <3>3. Total(q, S) = q[J] + Total(q, S \ {J}) /\ Total(p, S) = p[J] + Total(p, S \ {J})
      <4>1. Total(q, S) = q[J] + Total(q, S \ {J})
        BY <3>2, TotalWithout
      <4>2. Total(p, S) = p[J] + Total(p, S \ {J})
        BY <3>2, TotalWithout
      <4> QED
        BY <4>1, <4>2
    <3>4. Total(p, S \ {J}) = Total(q, S \ {J})
      BY <3>2, TotalOfSame
    <3>5. Total(p, S \ {J}) \in Int
      BY <3>2, TotalType
    <3> QED
      BY <3>1, <3>2, <3>3, <3>4, <3>5
  <2>6. Total(p, 1 .. n) \in Int /\ p[J] \in Int
    BY <2>1, <2>3, TotalType
  <2> QED
    BY <1>13, <2>2, <2>5, <2>6
<1>17. /\ NeedsBatch(t) <=> IsLastRow(t)
       /\ ~NeedsBatch(t) => \A j \in 1 .. n : sts2[j].batch = streams[j].batch
  BY <1>8, <1>9 DEF MovesTo
<1>18. RowOf(s) = w[J][Positions[J] + 1] /\ t.at \in Nat
  <2>1. t \in Stream
    BY <1>2, ElementOfSeq
  <2> QED
    BY <1>5, <1>7, <2>1 DEF RowOf, Stream
<1> QED
  BY <1>4, <1>5, <1>7, <1>9, <1>10, <1>12, <1>14, <1>15, <1>16, <1>17, <1>18 DEF RowTaken

\* A row of the merge, from stream s: groups and refs are those with it, G the groups with all
\* that is collected.
MergesRow(s, next, groups, refs, G) ==
  /\ tree' = next.tree /\ spillRowOffset' = spillRowOffset + 1 /\ nextKeyIsNew' = ~next.equal
  /\ streams' = MovedStreams(s)
  /\ IF ~next.equal /\ Len(groups) >= wanted
     THEN /\ pc' = "idle" /\ delivered' = delivered \o G /\ result' = <<>> /\ unspilled' = <<>>
          /\ finished' = (spillRowOffset + 1 = TotalRows(files))
     ELSE /\ pc' = "merge" /\ delivered' = delivered /\ finished' = FALSE
          /\ IF FlushNow(refs, IsLastRow(streams[s + 1])) THEN result' = G /\ unspilled' = <<>>
                                                          ELSE result' = groups /\ unspilled' = refs

GroupsWith(s)        == IF nextKeyIsNew THEN Append(result, Group(RowOf(s).group, <<>>)) ELSE result
RefOf(s, groups)     == [s |-> s, at |-> streams[s + 1].at, group |-> Len(groups)]
RefsWith(s, groups)  == Append(unspilled, RefOf(s, groups))

\* MergeRow fails or merges a row.
LEMMA MergeRowIs ==
  ASSUME MergeRow, NEW next, next = NextOf, NEW s, s = next.tree.last,
         NEW groups, groups = GroupsWith(s), NEW refs, refs = RefsWith(s, groups)
  PROVE  /\ pc = "merge" /\ s # EMPTY
         /\ UNCHANGED <<inVars, tableVars, map, outputted, files, wanted>>
         /\ \/ pc' = "failed" /\ UNCHANGED <<delivered, finished, streams, nextKeyIsNew>>
            \/ MergesRow(s, next, groups, refs, Unspilled(groups, refs))
<1>1. /\ next = NextWithEqual(Heads(streams), tree, TRUE)
      /\ groups = IF nextKeyIsNew THEN Append(result, Group(RowOf(s).group, <<>>)) ELSE result
      /\ refs = Append(unspilled, [s |-> s, at |-> streams[s + 1].at, group |-> Len(groups)])
  BY DEF NextOf, GroupsWith, RefsWith, RefOf
<1>2. /\ pc = "merge" /\ s # EMPTY /\ tree' = next.tree
      /\ UNCHANGED <<inVars, tableVars, map, outputted, files, wanted>>
  BY <1>1 DEF MergeRow
<1>3. CASE nextKeyIsNew /\ Unreadable(RowOf(s).group)
  <2>1. pc' = "failed" /\ UNCHANGED <<delivered, finished, streams, nextKeyIsNew>>
    BY <1>1, <1>3 DEF MergeRow, RowOf
  <2> QED
    BY <1>2, <2>1
<1>4. CASE ~(nextKeyIsNew /\ Unreadable(RowOf(s).group))
  <2> DEFINE full == ~next.equal /\ Len(groups) >= wanted
             new == Unspilled(groups, refs)
  <2>1. /\ spillRowOffset' = spillRowOffset + 1 /\ nextKeyIsNew' = ~next.equal
        /\ finished' = (full /\ spillRowOffset' = TotalRows(files))
    BY <1>1, <1>4 DEF MergeRow, RowOf
  <2>2. streams' = MovedStreams(s)
    BY <1>1, <1>4 DEF MergeRow, RowOf, MovedStreams, MovedOn
  <2>3. IF full THEN Return(new)
        ELSE /\ IF FlushNow(refs, IsLastRow(streams[s + 1]))
                THEN result' = new /\ unspilled' = <<>>
                ELSE result' = groups /\ unspilled' = refs
             /\ UNCHANGED <<pc, delivered>>
    BY <1>1, <1>4 DEF MergeRow, RowOf
  <2> HIDE DEF new
  <2>4. full => /\ pc' = "idle" /\ delivered' = delivered \o new /\ result' = <<>> /\ unspilled' = <<>>
                /\ finished' = (spillRowOffset + 1 = TotalRows(files))
    BY <2>1, <2>3 DEF Return
  <2>5. ~full => /\ pc' = "merge" /\ delivered' = delivered /\ finished' = FALSE
                 /\ IF FlushNow(refs, IsLastRow(streams[s + 1])) THEN result' = new /\ unspilled' = <<>>
                                                                 ELSE result' = groups /\ unspilled' = refs
    BY <1>2, <2>1, <2>3
  <2>6. MergesRow(s, next, groups, refs, new)
    BY <1>2, <2>1, <2>2, <2>4, <2>5 DEF MergesRow
  <2> QED
    BY <1>2, <2>6 DEF new
<1> QED
  BY <1>3, <1>4

\* What is merged with the row.
RowMerged(w, h, n, next, groups, refs, G, pos2) ==
  /\ OutIs(KeyAt, w, n, h, pos2, delivered \o G, next.equal)
  /\ G \in Seq(GroupOut) /\ Len(G) = Len(groups) /\ groups \in Seq(GroupOut) /\ Len(groups) \in Nat \ {0}
  /\ RefsOf(groups, refs) /\ G = View(streams, groups, refs) /\ next.equal \in BOOLEAN
  /\ delivered \in Seq(GroupOut) /\ delivered \o G \in Seq(GroupOut) /\ Len(delivered \o G) > Len(delivered)
  /\ \A r \in 1 .. Len(refs) : refs[r].s + 1 \in 1 .. n

\* The row taken is merged with the groups out and those collected.
LEMMA MergesTheRow ==
  ASSUME Control, Phase, NEW w, NEW h, Where(w, h), pc = "merge", NEW n, n = Len(streams),
         NEW next, next = NextOf, NEW s, s = next.tree.last, s # EMPTY,
         NEW groups, groups = GroupsWith(s), NEW refs, refs = RefsWith(s, groups),
         NEW G, G = Unspilled(groups, refs),
         NEW sts2, sts2 = MovedStreams(s), NEW pos2, pos2 = [j \in 1 .. n |-> Pos(sts2[j])]
  PROVE  RowTaken(w, h, n, s, next, sts2, pos2) /\ RowMerged(w, h, n, next, groups, refs, G, pos2)
<1> DEFINE row == RowOf(s)
           ref == RefOf(s, groups)
           U == Unspilled(result, unspilled)
           J == s + 1
<1>1. streams # <<>> /\ ~finished /\ nextKeyIsNew \in BOOLEAN
  BY DEF Phase, Control
<1>2. RowTaken(w, h, n, s, next, sts2, pos2)
  BY <1>1, TakesRow
<1>3. InRuns(w, h, n) /\ Merged(w, h)
  BY <1>1, MergeFacts
<1>4. /\ n \in Nat /\ RunsOf(KeyAt, w, n, h) /\ (HasAgg => \A x \in DOMAIN KeyAt : h[x] \in 1 .. n)
  BY <1>3 DEF InRuns
<1>5. /\ s \in Nat /\ J \in 1 .. n /\ row = w[J][Positions[J] + 1] /\ row \in RunRow
      /\ Takes(w, n, Positions, J, next.equal) /\ Taken(n, Positions, J, pos2) /\ streams[J].at \in Nat
  BY <1>2 DEF RowTaken
<1>6. /\ result \in Seq(GroupOut) /\ unspilled \in Seq(Ref)
      /\ \A r \in 1 .. Len(unspilled) : /\ unspilled[r].s + 1 \in 1 .. n
                                        /\ unspilled[r].group \in 1 .. Len(result)
      /\ delivered \in Seq(GroupOut) /\ U \in Seq(GroupOut)
      /\ IsOpen => result # <<>>
      /\ OutIs(KeyAt, w, n, h, Positions, delivered \o U, IsOpen)
  BY <1>3 DEF Merged
<1>7. IsOpen = ~nextKeyIsNew /\ IsOpen \in BOOLEAN
  BY <1>1 DEF IsOpen
<1>8. RefsOf(result, unspilled)
  BY <1>6 DEF RefsOf
<1>9. groups = IF nextKeyIsNew THEN Append(result, Group(row.group, <<>>)) ELSE result
  BY DEF GroupsWith
<1>10. groups \in Seq(GroupOut) /\ Len(groups) \in Nat
  <2>1. nextKeyIsNew => groups \in Seq(GroupOut)
    <3>1. Group(row.group, <<>>) \in GroupOut
      BY <1>5 DEF Group, GroupOut, RunRow
    <3> HIDE DEF row
    <3> QED
      BY <1>6, <1>9, <3>1, AppendProperties
  <2>2. groups \in Seq(GroupOut)
    BY <1>6, <1>9, <2>1
  <2> QED
    BY <2>2, LenProperties
<1>11. ref \in Ref /\ ref.group = Len(groups) /\ ref.s = s /\ ref.at = streams[s + 1].at
  BY <1>5, <1>10 DEF RefOf, Ref
<1>12. streams[ref.s + 1].batch[ref.at + 1] = row
  BY <1>11 DEF RowOf
<1>13. refs = Append(unspilled, ref)
  BY DEF RefsWith
<1>14. U = View(streams, result, unspilled) /\ G = View(streams, groups, refs)
  BY UnspilledIsView
<1> HIDE DEF row, ref, U, J
<1>15. RowCollects(delivered, U, G, groups, refs, nextKeyIsNew, row)
  BY <1>1, <1>5, <1>6, <1>7, <1>8, <1>9, <1>11, <1>12, <1>13, <1>14, RowCollected
<1>16. /\ Collects(delivered \o U, ~nextKeyIsNew, row, delivered \o G) /\ delivered \o G \in Seq(GroupOut)
       /\ G \in Seq(GroupOut) /\ Len(G) = Len(groups) /\ Len(groups) \in Nat \ {0} /\ RefsOf(groups, refs)
       /\ Len(delivered \o G) > Len(delivered)
  BY <1>15 DEF RowCollects
<1>17. OutIs(KeyAt, w, n, h, pos2, delivered \o G, next.equal)
  <2>1. PICK of, pos, out, V : of = KeyAt /\ pos = Positions /\ out = delivered \o U /\ V = delivered \o G
    OBVIOUS
  <2>2. PICK open \in BOOLEAN : open = ~nextKeyIsNew
    BY <1>1
  <2>3. /\ OutIs(of, w, n, h, pos, out, open) /\ Collects(out, open, row, V)
        /\ Takes(w, n, pos, J, next.equal) /\ Taken(n, pos, J, pos2) /\ row = w[J][pos[J] + 1]
        /\ RunsOf(of, w, n, h) /\ (HasAgg => \A x \in DOMAIN of : h[x] \in 1 .. n)
    BY <1>4, <1>5, <1>6, <1>7, <1>16, <2>1, <2>2
  <2>4. Collects(out, open, w[J][pos[J] + 1], V)
    BY <2>3
  <2>5. OutIs(of, w, n, h, pos2, V, next.equal)
    BY <1>4, <2>3, <2>4, OutGrows
  <2> QED
    BY <2>1, <2>5
<1>18. ASSUME NEW r \in 1 .. Len(refs) PROVE refs[r].s + 1 \in 1 .. n
  <2>1. /\ Len(refs) = Len(unspilled) + 1 /\ refs[Len(unspilled) + 1] = ref
        /\ \A i \in 1 .. Len(unspilled) : refs[i] = unspilled[i]
    BY <1>6, <1>11, <1>13, AppendProperties
  <2>2. r = Len(unspilled) + 1 \/ r \in 1 .. Len(unspilled)
    BY <1>6, <2>1, LenProperties
  <2>3. ref.s + 1 \in 1 .. n
    BY <1>5, <1>11 DEF J
  <2> QED
    BY <1>6, <2>1, <2>2, <2>3
<1>19. next.equal \in BOOLEAN
  BY <1>5 DEF Takes
<1> QED
  BY <1>2, <1>6, <1>10, <1>14, <1>16, <1>17, <1>18, <1>19 DEF RowMerged

\* What is out and what is collected after a row.
RowOut(delivered2, result2, unspilled2, view, open, out, n) ==
  /\ delivered2 \in Seq(GroupOut) /\ view \in Seq(GroupOut) /\ delivered2 \o view = out
  /\ result2 \in Seq(GroupOut) /\ unspilled2 \in Seq(Ref) /\ (open => result2 # <<>>)
  /\ \A r \in 1 .. Len(unspilled2) : /\ unspilled2[r].s + 1 \in 1 .. n
                                     /\ unspilled2[r].group \in 1 .. Len(result2)

\* The groups with it are handed out when the batch is full, else they stay for the next row.
LEMMA RowGoesOut ==
  ASSUME NEW w, NEW h, NEW n, NEW s, NEW next, NEW sts2, sts2 = MovedStreams(s), NEW pos2,
         RowTaken(w, h, n, s, next, sts2, pos2), NEW groups, NEW refs, NEW G,
         RowMerged(w, h, n, next, groups, refs, G, pos2), MergesRow(s, next, groups, refs, G)
  PROVE  /\ RowOut(delivered', result', unspilled', Unspilled(result, unspilled)', IsOpen',
                   delivered \o G, n)
         /\ IsOpen' = next.equal
<1> DEFINE full == ~next.equal /\ Len(groups) >= wanted
           flush == FlushNow(refs, IsLastRow(streams[s + 1]))
<1>1. /\ G \in Seq(GroupOut) /\ groups \in Seq(GroupOut) /\ Len(groups) \in Nat \ {0} /\ RefsOf(groups, refs)
      /\ Len(G) = Len(groups) /\ G = View(streams, groups, refs)
      /\ delivered \in Seq(GroupOut) /\ delivered \o G \in Seq(GroupOut) /\ next.equal \in BOOLEAN
      /\ \A r \in 1 .. Len(refs) : refs[r].s + 1 \in 1 .. n
  BY DEF RowMerged
<1>2. <<>> \in Seq(GroupOut) /\ <<>> \in Seq(Ref) /\ Len(<<>>) = 0 /\ 1 .. 0 = {}
  OBVIOUS
<1>3. /\ refs \in Seq(Ref) /\ \A r \in 1 .. Len(refs) : refs[r].group \in 1 .. Len(groups)
  BY <1>1 DEF RefsOf
<1>4. G # <<>> /\ groups # <<>>
  BY <1>1, <1>2
<1>5. nextKeyIsNew' = ~next.equal /\ streams' = sts2
  BY DEF MergesRow
<1>6. Unspilled(result, unspilled)' = View(streams', result', unspilled')
  BY DEF Unspilled, View, Collected, RowsIn, GroupsIn, Picked
<1>7. CASE full
  <2>1. pc' = "idle" /\ delivered' = delivered \o G /\ result' = <<>> /\ unspilled' = <<>> /\ next.equal = FALSE
    BY <1>1, <1>7 DEF MergesRow
  <2>2. Unspilled(result, unspilled)' = <<>>
    BY <2>1 DEF Unspilled
  <2>3. (delivered \o G) \o <<>> = delivered \o G
    BY <1>1
  <2>4. IsOpen' = FALSE
    BY <2>1 DEF IsOpen
  <2> QED
    BY <1>1, <1>2, <2>1, <2>2, <2>3, <2>4 DEF RowOut
<1>8. CASE ~full
  <2>1. /\ pc' = "merge" /\ delivered' = delivered
        /\ IF flush THEN result' = G /\ unspilled' = <<>> ELSE result' = groups /\ unspilled' = refs
    BY <1>8 DEF MergesRow
  <2>2. IsOpen' = next.equal
    BY <1>1, <1>5, <2>1 DEF IsOpen
  <2>3. CASE flush
    <3>1. result' = G /\ unspilled' = <<>>
      BY <2>1, <2>3
    <3>2. View(streams', G, <<>>) = G
      BY <1>1, ViewOfNone
    <3>3. Unspilled(result, unspilled)' = G
      BY <1>6, <3>1, <3>2
    <3> QED
      BY <1>1, <1>2, <1>4, <2>1, <2>2, <3>1, <3>3 DEF RowOut
  <2>4. CASE ~flush
    <3>1. result' = groups /\ unspilled' = refs
      BY <2>1, <2>4
    <3>2. ~NeedsBatch(streams[s + 1])
      BY <2>4 DEF FlushNow, RowTaken
    <3>3. \A r \in 1 .. Len(refs) : sts2[refs[r].s + 1].batch = streams[refs[r].s + 1].batch
      BY <1>1, <3>2 DEF RowTaken
    <3>4. View(sts2, groups, refs) = View(streams, groups, refs)
      BY <1>1, <3>3, ViewOfSame
    <3>5. Unspilled(result, unspilled)' = G
      BY <1>1, <1>5, <1>6, <3>1, <3>4
    <3> QED
      BY <1>1, <1>3, <1>4, <2>1, <2>2, <3>1, <3>5 DEF RowOut
  <2> QED
    BY <2>3, <2>4
<1> QED
  BY <1>7, <1>8

\* No run is read beyond its end.
ReadSoFar(n, fs, w, pos) ==
  /\ n = Len(fs) /\ DOMAIN fs = 1 .. n
  /\ \A j \in 1 .. n : pos[j] \in Nat /\ Len(w[j]) \in Nat /\ pos[j] <= Len(w[j]) /\ fs[j].rows = Len(w[j])

\* All rows are merged when as many are merged as there are.
LEMMA AllMerged ==
  ASSUME NEW n \in Nat, NEW fs, NEW w, NEW pos, ReadSoFar(n, fs, w, pos),
         Total(pos, 1 .. n) = TotalRows(fs)
  PROVE  \A j \in 1 .. n : pos[j] = Len(w[j])
<1> SUFFICES ASSUME NEW j \in 1 .. n PROVE pos[j] = Len(w[j])
  OBVIOUS
<1>1. PICK g : g = [i \in 1 .. n |-> fs[i].rows]
  OBVIOUS
<1>2. \A i \in 1 .. n : g[i] = Len(w[i])
  BY <1>1 DEF ReadSoFar
<1>3. TotalRows(fs) = Total(g, 1 .. n)
  BY <1>1 DEF TotalRows, ReadSoFar
<1>4. IsFiniteSet(1 .. n)
  BY FS_Interval
<1>5. \A x \in 1 .. n : pos[x] \in Int /\ g[x] \in Int /\ pos[x] <= g[x]
  BY <1>2 DEF ReadSoFar
<1>6. pos[j] = g[j]
  <2>1. PICK S : S = 1 .. n
    OBVIOUS
  <2>2. Total(pos, S) = Total(g, S) /\ IsFiniteSet(S) /\ j \in S
    BY <1>3, <1>4, <2>1
  <2>3. NowhereMore(pos, g, S)
    BY <1>5, <2>1 DEF NowhereMore
  <2> QED
    BY <2>2, <2>3, TotalsEqual
<1> QED
  BY <1>2, <1>6

\* When all streams are at their end no row is left.
LEMMA NothingLeft ==
  ASSUME NEW n \in Nat, NEW fs, NEW w, NEW pos, ReadSoFar(n, fs, w, pos),
         \A j \in 1 .. n : pos[j] = Len(w[j])
  PROVE  Total(pos, 1 .. n) = TotalRows(fs)
<1>1. PICK g : g = [i \in 1 .. n |-> fs[i].rows]
  OBVIOUS
<1>2. \A i \in 1 .. n : pos[i] = g[i]
  BY <1>1 DEF ReadSoFar
<1>3. IsFiniteSet(1 .. n)
  BY FS_Interval
<1>4. Total(pos, 1 .. n) = Total(g, 1 .. n)
  BY <1>2, <1>3, TotalOfSame
<1> QED
  BY <1>1, <1>4 DEF TotalRows, ReadSoFar

\* What the merge has out, all of it or not.
LEMMA MergeIsExact ==
  ASSUME Control, Phase, NEW w, NEW h, Where(w, h), streams # <<>>, NEW n, n = Len(streams), NEW pos,
         NEW out, out \in Seq(GroupOut), OutIs(KeyAt, w, n, h, pos, out, FALSE),
         \A j \in 1 .. n : pos[j] \in Nat /\ pos[j] <= Len(w[j]),
         NEW f, f = (Total(pos, 1 .. n) = TotalRows(files))
  PROVE  Exact(out, f)
<1>1. InRuns(w, h, n) /\ Spilled(w, h) /\ InMap(w, h) /\ map = EmptyMap
  BY MergeFacts
<1>2. Numbered /\ n = Len(files) /\ n \in Nat /\ files \in Seq(FileRec)
  BY <1>1 DEF Control, InRuns
<1>3. \A j \in 1 .. n : files[j].rows = Len(w[j]) /\ Len(w[j]) \in Nat
  BY <1>1, LenProperties DEF InRuns
<1>4. DOMAIN files = 1 .. n
  BY <1>2, LenProperties
<1>5. f => \A j \in 1 .. n : pos[j] = Len(w[j])
  <2>1. SUFFICES ASSUME Total(pos, 1 .. n) = TotalRows(files) PROVE \A j \in 1 .. n : pos[j] = Len(w[j])
    OBVIOUS
  <2>2. PICK fs : fs = files
    OBVIOUS
  <2>3. ReadSoFar(n, fs, w, pos) /\ Total(pos, 1 .. n) = TotalRows(fs)
    BY <1>2, <1>3, <1>4, <2>1, <2>2 DEF ReadSoFar
  <2> QED
    BY <1>2, <2>3, AllMerged
<1>6. \A i \in 1 .. Len(out) : out[i] = out[i]
  OBVIOUS
<1>7. Len(out) \in Nat /\ Len(out) <= Len(out)
  BY LenProperties
<1>8. Exact(out, FALSE) /\ ((\A j \in 1 .. n : pos[j] = Len(w[j])) => Exact(out, TRUE))
  <2>1. PICK open \in BOOLEAN : open = FALSE
    OBVIOUS
  <2>2. OutIs(KeyAt, w, n, h, pos, out, open) /\ ~open
    BY <2>1
  <2>3. PICK d \in Seq(GroupOut) : d = out
    OBVIOUS
  <2>4. BeginsOut(d, out) /\ Len(d) = Len(out)
    BY <1>7, <2>3 DEF BeginsOut
  <2>5. ExactSoFar(d, out, w, n, pos)
    BY <1>1, <1>2, <2>2, <2>4, OutIsExact
  <2> QED
    BY <2>3, <2>4, <2>5 DEF ExactSoFar
<1> QED
  BY <1>5, <1>8

\* A row of the merge keeps the invariant.
LEMMA MergeRowStep == ASSUME AInv, MergeRow PROVE AInv'
<1>1. PICK next : next = NextOf
  OBVIOUS
<1>2. PICK s : s = next.tree.last
  OBVIOUS
<1>3. PICK groups : groups = GroupsWith(s)
  OBVIOUS
<1>4. PICK refs : refs = RefsWith(s, groups)
  OBVIOUS
<1>5. PICK G : G = Unspilled(groups, refs)
  OBVIOUS
<1>6. /\ pc = "merge" /\ s # EMPTY
      /\ UNCHANGED <<inVars, tableVars, map, outputted, files, wanted>>
      /\ \/ pc' = "failed" /\ UNCHANGED <<delivered, finished, streams, nextKeyIsNew>>
         \/ MergesRow(s, next, groups, refs, G)
  BY <1>1, <1>2, <1>3, <1>4, <1>5, MergeRowIs
<1>7. /\ Control /\ GroupsAreExact /\ Phase
      /\ StoreStays /\ given' = given /\ noMoreInput' = noMoreInput /\ files' = files /\ arrayMode' = arrayMode
      /\ map' = map
  BY <1>6 DEF AInv, StoreStays, inVars, tableVars
<1>8. CASE pc' = "failed" /\ UNCHANGED <<delivered, finished, streams, nextKeyIsNew>>
  <2>1. Control'
    BY <1>7, <1>8 DEF Control, Numbered
  <2>2. GroupsAreExact'
    BY <1>7, <1>8, ZenonT(60) DEF GroupsAreExact
  <2> QED
    BY <1>8, <2>1, <2>2 DEF AInv
<1>9. CASE MergesRow(s, next, groups, refs, G)
  <2>1. PICK w, h : Where(w, h)
    BY <1>6, <1>7 DEF AInv
  <2>2. streams # <<>> /\ ~finished /\ noMoreInput /\ ~arrayMode /\ files # <<>>
    BY <1>6, <1>7 DEF Phase
  <2>3. PICK n : n = Len(streams)
    OBVIOUS
  <2>4. PICK sts2 : sts2 = MovedStreams(s)
    OBVIOUS
  <2>5. PICK pos2 : pos2 = [j \in 1 .. n |-> Pos(sts2[j])]
    OBVIOUS
  <2>6. RowTaken(w, h, n, s, next, sts2, pos2) /\ RowMerged(w, h, n, next, groups, refs, G, pos2)
    BY <1>1, <1>2, <1>3, <1>4, <1>5, <1>6, <1>7, <2>1, <2>3, <2>4, <2>5, MergesTheRow
  <2>7. /\ RowOut(delivered', result', unspilled', Unspilled(result, unspilled)', IsOpen', delivered \o G, n)
        /\ IsOpen' = next.equal
    BY <1>9, <2>4, <2>6, RowGoesOut
  <2>8. /\ Merged(w, h) /\ Kept(w, h) /\ n = Len(files) /\ n \in Nat \ {0} /\ streams \in Seq(Stream)
        /\ spillRowOffset = Total(Positions, 1 .. n)
    <3>1. InRuns(w, h, n) /\ Merged(w, h)
      BY <1>7, <2>1, <2>2, <2>3, MergeFacts
    <3>2. Kept(w, h)
      BY <2>1 DEF Where, Kept
    <3> QED
      BY <2>3, <3>1, <3>2 DEF InRuns, Merged
  <2>9. /\ streams' = sts2 /\ tree' = next.tree /\ spillRowOffset' = spillRowOffset + 1
        /\ nextKeyIsNew' = ~next.equal
    BY <1>9, <2>4 DEF MergesRow
  <2>10. /\ sts2 \in Seq(Stream) /\ Len(sts2) = n /\ \A j \in 1 .. n : StreamOK(sts2[j], files[j], w[j])
         /\ IsReady(n, Heads(sts2), next.tree, TRUE)
         /\ Total(pos2, 1 .. n) = Total(Positions, 1 .. n) + 1
         /\ \A j \in 1 .. n : pos2[j] \in Nat /\ pos2[j] <= Len(w[j])
    BY <2>6 DEF RowTaken
  <2>11. Positions' = pos2 /\ KeyAt' = KeyAt
    BY <1>7, <2>5, <2>9, <2>10 DEF Positions, KeyAt
  <2>12. spillRowOffset' = Total(pos2, 1 .. n)
    BY <2>8, <2>9, <2>10
  <2>13. Kept(w, h)'
    BY <1>7, <2>8, KeptStays
  <2>14. OutIs(KeyAt, w, n, h, pos2, delivered \o G, next.equal) /\ next.equal \in BOOLEAN
         /\ delivered \o G \in Seq(GroupOut)
    BY <2>6 DEF RowMerged
  <2>15. streams' \in Seq(Stream) /\ streams' # <<>>
    BY <2>8, <2>9, <2>10
  <2>16. Merged(w, h)'
    <3>1. map' = EmptyMap /\ Len(streams') = n /\ Len(files') = n
      BY <1>7, <2>8, <2>9, <2>10 DEF Merged
    <3>2. \A j \in 1 .. Len(streams') : StreamOK(streams'[j], files'[j], w[j])
      BY <1>7, <2>9, <2>10
    <3>3. spillRowOffset' = Total(Positions', 1 .. Len(streams'))
      BY <2>11, <2>12, <3>1
    <3>4. /\ result' \in Seq(GroupOut) /\ unspilled' \in Seq(Ref)
          /\ \A r \in 1 .. Len(unspilled') : /\ unspilled'[r].s + 1 \in 1 .. Len(streams')
                                             /\ unspilled'[r].group \in 1 .. Len(result')
          /\ delivered' \in Seq(GroupOut) /\ Unspilled(result, unspilled)' \in Seq(GroupOut)
          /\ IsOpen' => result' # <<>>
      BY <2>7, <3>1 DEF RowOut
    <3>5. OutIs(KeyAt', w, Len(streams'), h, Positions', delivered' \o Unspilled(result, unspilled)', IsOpen')
      <4>1. delivered' \o Unspilled(result, unspilled)' = delivered \o G
        BY <2>7 DEF RowOut
      <4> QED
        BY <2>7, <2>11, <2>14, <3>1, <4>1
    <3> QED
      BY <3>1, <3>2, <3>3, <3>4, <3>5 DEF Merged
  <2>17. Tree'
    BY <2>9, <2>10 DEF Tree
  <2>18. Where(w, h)'
    BY <2>13, <2>15, <2>16, <2>17 DEF Where, Kept
  <2>19. CASE ~next.equal /\ Len(groups) >= wanted
    <3>1. /\ pc' = "idle" /\ delivered' = delivered \o G /\ result' = <<>> /\ unspilled' = <<>>
          /\ finished' = (spillRowOffset + 1 = TotalRows(files))
      BY <1>9, <2>19 DEF MergesRow
    <3>2. PICK f : f = (Total(pos2, 1 .. n) = TotalRows(files))
      OBVIOUS
    <3>3. next.equal = FALSE
      BY <2>14, <2>19
    <3>4. OutIs(KeyAt, w, n, h, pos2, delivered \o G, FALSE)
      BY <2>14, <3>3
    <3>5. PICK out : out = delivered \o G
      OBVIOUS
    <3>6. Exact(out, f)
      <4>1. out \in Seq(GroupOut) /\ OutIs(KeyAt, w, n, h, pos2, out, FALSE)
        BY <2>14, <3>4, <3>5
      <4> QED
        BY <1>7, <2>1, <2>2, <2>3, <2>10, <3>2, <4>1, MergeIsExact
    <3>7. finished' = f /\ finished' \in BOOLEAN
      BY <2>9, <2>12, <3>1, <3>2
    <3>8. GroupsAreExact'
      <4>1. Exact(delivered', finished')
        BY <3>1, <3>5, <3>6, <3>7
      <4> QED
        BY <1>7, <3>7, <4>1, ExactGroups DEF Control
    <3>9. Control'
      BY <1>7, <2>9, <2>14, <2>15, <3>1, <3>7 DEF Control, Numbered
    <3>10. Phase'
      BY <1>7, <2>2, <2>15, <3>1 DEF Phase
    <3> QED
      BY <2>18, <3>8, <3>9, <3>10 DEF AInv
  <2>20. CASE ~(~next.equal /\ Len(groups) >= wanted)
    <3>1. pc' = "merge" /\ delivered' = delivered /\ finished' = FALSE
      BY <1>9, <2>20 DEF MergesRow
    <3>2. finished = FALSE
      BY <1>7, <2>2 DEF Control
    <3>3. GroupsAreExact'
      BY <1>7, <3>1, <3>2, ZenonT(60) DEF GroupsAreExact
    <3>4. Control'
      BY <1>7, <2>9, <2>14, <2>15, <3>1 DEF Control, Numbered
    <3>5. Phase'
      BY <1>7, <2>2, <2>15, <3>1 DEF Phase
    <3> QED
      BY <2>18, <3>3, <3>4, <3>5 DEF AInv
  <2> QED
    BY <2>19, <2>20
<1> QED
  BY <1>6, <1>8, <1>9

\* MergeEnds: the tree has found no row.
LEMMA MergeEndsIs ==
  ASSUME MergeEnds, NEW next, next = NextOf, NEW G, G = Unspilled(result, unspilled)
  PROVE  /\ pc = "merge" /\ next.tree.last = EMPTY
         /\ UNCHANGED <<inVars, tableVars, map, outputted, files, streams, wanted, nextKeyIsNew,
                        spillRowOffset>>
         /\ pc' = "idle" /\ delivered' = delivered \o G /\ result' = <<>> /\ unspilled' = <<>>
         /\ finished' = (spillRowOffset = TotalRows(files))
BY DEF MergeEnds, NextOf, Return

\* At the end of all runs the last group is complete.
LEMMA NoneOpen ==
  ASSUME NEW w, NEW n, NEW pos, NEW out, OpenAt(w, n, pos, out),
         \A j \in 1 .. n : pos[j] = Len(w[j]) /\ w[j] \in Seq(RunRow)
  PROVE  FALSE
<1>1. PICK j \in 1 .. n : pos[j] + 1 <= Len(w[j])
  BY DEF OpenAt
<1>2. Len(w[j]) \in Nat
  BY LenProperties
<1> QED
  BY <1>1, <1>2

\* Then all rows are merged, and the groups are complete.
LEMMA MergeEndsExact ==
  ASSUME AInv, NEW next, next = NextOf, next.tree.last = EMPTY, pc = "merge",
         NEW w, NEW h, Where(w, h), NEW out, out = delivered \o Unspilled(result, unspilled)
  PROVE  /\ OutIs(KeyAt, w, Len(streams), h, Positions, out, FALSE) /\ out \in Seq(GroupOut)
         /\ Exact(out, TRUE) /\ spillRowOffset = TotalRows(files)
<1>1. Control /\ Phase /\ streams # <<>> /\ ~finished
  BY DEF AInv, Phase
<1>2. PICK n : n = Len(streams)
  OBVIOUS
<1>3. InRuns(w, h, n) /\ Merged(w, h) /\ IsReady(n, Heads(streams), tree, TRUE)
  BY <1>1, <1>2, MergeFacts DEF Tree
<1>4. PICK pos : pos = Positions
  OBVIOUS
<1>5. /\ n \in Nat \ {0} /\ n = Len(files) /\ streams \in Seq(Stream) /\ files \in Seq(FileRec)
      /\ \A j \in 1 .. n : /\ StreamOK(streams[j], files[j], w[j]) /\ files[j].rows = Len(w[j])
                           /\ w[j] \in Seq(RunRow)
      /\ pos = [j \in 1 .. n |-> Pos(streams[j])]
  BY <1>1, <1>3, <1>4 DEF InRuns, Control
<1>6. Finds(w, n, Heads(streams), pos, next)
  BY <1>2, <1>3, <1>5, Winner DEF NextOf
<1>7. \A j \in 1 .. n : pos[j] = Len(w[j])
  BY <1>6 DEF Finds
<1>8. \A j \in 1 .. n : Len(w[j]) \in Nat
  BY <1>5, LenProperties
<1>9. Total(pos, 1 .. n) = TotalRows(files) /\ spillRowOffset = Total(pos, 1 .. n)
  <2>1. DOMAIN files = 1 .. n
    BY <1>5, LenProperties
  <2>2. PICK fs : fs = files
    OBVIOUS
  <2>3. ReadSoFar(n, fs, w, pos)
    BY <1>5, <1>7, <1>8, <2>1, <2>2 DEF ReadSoFar
  <2>4. Total(pos, 1 .. n) = TotalRows(fs)
    <3>1. n \in Nat
      BY <1>5
    <3> QED
      BY ONLY <1>7, <2>3, <3>1, NothingLeft
  <2>5. spillRowOffset = Total(Positions, 1 .. Len(streams))
    BY <1>3 DEF Merged
  <2> QED
    BY <1>2, <1>4, <2>2, <2>4, <2>5
<1>10. OutIs(KeyAt, w, n, h, pos, out, IsOpen)
  BY <1>2, <1>3, <1>4 DEF Merged
<1>11. IsOpen = FALSE
  <2>1. ~IsOpen
    <3> SUFFICES ASSUME IsOpen PROVE FALSE
      OBVIOUS
    <3>1. OpenAt(w, n, pos, out)
      BY <1>10 DEF OutIs
    <3> QED
      BY <1>5, <1>7, <3>1, NoneOpen
  <2> QED
    BY <2>1 DEF IsOpen
<1>12. OutIs(KeyAt, w, n, h, pos, out, FALSE)
  BY <1>10, <1>11
<1>13. out \in Seq(GroupOut)
  BY <1>12 DEF OutIs
<1>14. PICK f : f = (Total(pos, 1 .. n) = TotalRows(files))
  OBVIOUS
<1>15. Exact(out, f)
  <2>1. \A j \in 1 .. n : pos[j] \in Nat /\ pos[j] <= Len(w[j])
    BY <1>7, <1>8
  <2> QED
    BY <1>1, <1>2, <1>12, <1>13, <1>14, <2>1, MergeIsExact
<1>16. f = TRUE
  BY <1>9, <1>14
<1> QED
  BY <1>2, <1>4, <1>9, <1>12, <1>13, <1>15, <1>16

\* The end of the merge keeps the invariant.
LEMMA MergeEndsStep == ASSUME AInv, MergeEnds PROVE AInv'
<1>1. PICK next : next = NextOf
  OBVIOUS
<1>2. PICK G : G = Unspilled(result, unspilled)
  OBVIOUS
<1>3. /\ pc = "merge" /\ next.tree.last = EMPTY
      /\ UNCHANGED <<inVars, tableVars, map, outputted, files, streams, wanted, nextKeyIsNew,
                     spillRowOffset>>
      /\ pc' = "idle" /\ delivered' = delivered \o G /\ result' = <<>> /\ unspilled' = <<>>
      /\ finished' = (spillRowOffset = TotalRows(files))
  BY <1>1, <1>2, MergeEndsIs
<1>4. /\ Control /\ Phase
      /\ StoreStays /\ given' = given /\ noMoreInput' = noMoreInput /\ files' = files /\ arrayMode' = arrayMode
      /\ map' = map
  BY <1>3 DEF AInv, StoreStays, inVars, tableVars
<1>5. streams # <<>> /\ noMoreInput /\ ~arrayMode /\ files # <<>>
  BY <1>3, <1>4 DEF Phase
<1>6. PICK w, h : Where(w, h)
  BY <1>3, <1>4 DEF AInv
<1>7. PICK out : out = delivered \o G
  OBVIOUS
<1>8. /\ OutIs(KeyAt, w, Len(streams), h, Positions, out, FALSE) /\ out \in Seq(GroupOut)
      /\ Exact(out, TRUE) /\ spillRowOffset = TotalRows(files)
  BY <1>1, <1>2, <1>3, <1>6, <1>7, MergeEndsExact
<1>9. finished' = TRUE /\ delivered' = out
  BY <1>3, <1>7, <1>8
<1>10. Merged(w, h) /\ Kept(w, h)
  BY <1>5, <1>6 DEF Where, Kept
<1>11. KeyAt' = KeyAt /\ Positions' = Positions /\ IsOpen' = FALSE
  BY <1>3, <1>4 DEF KeyAt, Positions, IsOpen
<1>12. Unspilled(result, unspilled)' = <<>>
  BY <1>3 DEF Unspilled
<1>13. <<>> \in Seq(GroupOut) /\ <<>> \in Seq(Ref) /\ Len(<<>>) = 0 /\ 1 .. 0 = {}
  OBVIOUS
<1>14. Merged(w, h)'
  <2>1. delivered' \o Unspilled(result, unspilled)' = out
    BY <1>8, <1>9, <1>12
  <2>2. OutIs(KeyAt', w, Len(streams'), h, Positions', delivered' \o Unspilled(result, unspilled)', IsOpen')
    BY <1>3, <1>8, <1>11, <2>1
  <2>3. delivered' \in Seq(GroupOut) /\ Unspilled(result, unspilled)' \in Seq(GroupOut)
    BY <1>8, <1>9, <1>12, <1>13
  <2>4. spillRowOffset' = Total(Positions', 1 .. Len(streams'))
    BY <1>3, <1>10, <1>11 DEF Merged
  <2> QED
    BY <1>3, <1>4, <1>10, <1>11, <1>13, <2>2, <2>3, <2>4 DEF Merged
<1>15. Where(w, h)'
  <2>1. Kept(w, h)'
    BY <1>4, <1>10, KeptStays
  <2>2. Tree'
    BY <1>9 DEF Tree
  <2> QED
    BY <1>3, <1>5, <1>14, <2>1, <2>2 DEF Where, Kept
<1>16. GroupsAreExact'
  <2>1. Exact(delivered', finished') /\ finished' \in BOOLEAN
    BY <1>8, <1>9
  <2> QED
    BY <1>4, <2>1, ExactGroups DEF Control
<1>17. Control'
  BY <1>3, <1>4, <1>9 DEF Control, Numbered
<1>18. Phase'
  BY <1>3, <1>4, <1>5 DEF Phase
<1> QED
  BY <1>15, <1>16, <1>17, <1>18 DEF AInv

-----------------------------------------------------------------------------
(* The theorems.                                                           *)

\* Initially nothing is given, and nothing kept.
LEMMA InitKeeps == Init => AInv
<1> SUFFICES ASSUME Init PROVE AInv
  OBVIOUS
<1>1. /\ pc = "idle" /\ noMoreInput = FALSE /\ finished = FALSE /\ given = <<>> /\ delivered = <<>>
      /\ arrayMode = TRUE /\ range = NoRange /\ table = NoTable /\ map = EmptyMap /\ outputted = 0
      /\ files = <<>> /\ streams = <<>> /\ result = <<>> /\ unspilled = <<>> /\ nextKeyIsNew = TRUE
      /\ spillRowOffset = 0
  BY DEF Init
<1>2. Len(<<>>) = 0 /\ 1 .. 0 = {} /\ <<>> \in Seq(Row) /\ <<>> \in Seq(FileRec) /\ <<>> \in Seq(Stream)
  OBVIOUS
<1>3. Control
  BY <1>1, <1>2 DEF Control, Numbered
<1>4. Phase
  BY <1>1 DEF Phase
<1>5. PICK h : h = [x \in 1 .. 0 |-> 0]
  OBVIOUS
<1>6. Spilled(<<>>, h)
  <2>1. h \in [1 .. 0 -> 0 .. 0]
    BY <1>5
  <2> QED
    BY <1>1, <1>2, <2>1 DEF Spilled, SpilledOf
<1>7. InMem(<<>>, h)
  BY <1>1 DEF InMem, InArray
<1>8. Walked
  BY <1>1 DEF Walked
<1>9. Where(<<>>, h)
  BY <1>1, <1>6, <1>7, <1>8 DEF Where
<1>10. GroupsAreExact
  <2>1. Exact(<<>>, FALSE)
    BY ExactNothing
  <2>2. GroupsFor(<<>>, FALSE)
    BY <1>3, <2>1, ExactFor DEF Control
  <2> QED
    BY <1>1, <2>2 DEF GroupsFor, GroupsAreExact
<1> QED
  BY <1>3, <1>4, <1>9, <1>10 DEF AInv

\* A step of others changes nothing.
LEMMA StutterStep == ASSUME AInv, UNCHANGED vars PROVE AInv'
<1>1. /\ StoreStays /\ given' = given /\ noMoreInput' = noMoreInput /\ files' = files /\ arrayMode' = arrayMode
      /\ pc' = pc /\ finished' = finished /\ delivered' = delivered /\ outputted' = outputted
      /\ streams' = streams /\ tree' = tree /\ UNCHANGED mergeVars
  BY DEF vars, inVars, tableVars, StoreStays
<1>2. nextKeyIsNew' = nextKeyIsNew /\ result' = result /\ unspilled' = unspilled /\ spillRowOffset' = spillRowOffset
  BY <1>1 DEF mergeVars
<1>3. Control'
  BY <1>1, <1>2 DEF AInv, Control, Numbered
<1>4. GroupsAreExact'
  BY <1>1, ZenonT(60) DEF AInv, GroupsAreExact
<1>5. ASSUME pc # "failed" PROVE Phase' /\ \E w, h : Where(w, h)'
  <2>1. Phase /\ \E w, h : Where(w, h)
    BY <1>5 DEF AInv
  <2>2. Phase'
    BY <1>1, <1>2, <2>1 DEF Phase
  <2>3. PICK w, h : Where(w, h)
    BY <2>1
  <2>4. Kept(w, h)' /\ InMemory' = InMemory
    BY <1>1, <2>3, KeptStays DEF Where, Kept
  <2>5. CASE streams = <<>>
    <3>1. Walked
      BY <2>3, <2>5 DEF Where
    <3>2. Walked'
      BY <1>1, <1>2, <2>4, <3>1 DEF Walked
    <3> QED
      BY <1>1, <2>2, <2>4, <2>5, <3>2 DEF Where, Kept
  <2>6. CASE streams # <<>>
    <3>1. Merged(w, h) /\ Tree
      BY <2>3, <2>6 DEF Where
    <3>2. Merged(w, h)'
      BY <1>1, <3>1, MergedStays
    <3>3. Tree'
      BY <1>1, <3>1 DEF Tree
    <3> QED
      BY <1>1, <2>2, <2>4, <2>6, <3>2, <3>3 DEF Where, Kept
  <2> QED
    BY <2>5, <2>6
<1> QED
  BY <1>1, <1>3, <1>4, <1>5 DEF AInv

\* Every step keeps the invariant.
LEMMA StepKeeps == ASSUME ArraysFit, AInv, [AggNext]_vars PROVE AInv'
<1>1. CASE AddInput
  BY <1>1, AddInputStep
<1>2. CASE NoMoreInput
  BY <1>2, NoMoreInputStep
<1>3. CASE NoInput
  BY <1>3, NoInputStep
<1>4. CASE OutputFromMemory
  BY <1>4, OutputFromMemoryStep
<1>5. CASE GetOutputFromDisk
  BY <1>5, FromDiskStep
<1>6. CASE MergeRow
  BY <1>6, MergeRowStep
<1>7. CASE MergeEnds
  BY <1>7, MergeEndsStep
<1>8. CASE UNCHANGED vars
  BY <1>8, StutterStep
<1> QED
  BY <1>1, <1>2, <1>3, <1>4, <1>5, <1>6, <1>7, <1>8 DEF AggNext, GetOutput

\* In all states: every row given is in one place, in the array, in the map, in one run or in a
\* group handed out, with the rows of its key that are there.
THEOREM EveryRowIsKept == ASSUME ArraysFit PROVE Spec => []AInv
<1>1. AInv /\ [AggNext]_vars => AInv'
  BY StepKeeps
<1> QED
  BY <1>1, InitKeeps, PTL DEF Spec

\* GroupsAreExact: the groups handed out have each key once, with all rows of the key.
THEOREM AggregatesExactly == ASSUME ArraysFit PROVE Spec => []GroupsAreExact
<1>1. AInv => GroupsAreExact
  BY DEF AInv
<1> QED
  BY <1>1, EveryRowIsKept, PTL

Progress == pc' = "idle" /\ noMoreInput => finished' \/ Len(delivered') > Len(delivered)

\* A call that takes groups from memory takes one at least, or has reached the last.
LEMMA MemoryProgresses == ASSUME AInv, OutputFromMemory PROVE Progress
<1> DEFINE M == InMemory
           o == outputted
           n == Least(RowsPerBatch, Len(M) - o)
<1>1. /\ Control /\ Phase /\ pc = "idle" /\ noMoreInput /\ given # <<>> /\ files = <<>>
      /\ delivered' = delivered \o SubSeq(M, o + 1, o + n) /\ finished' = (o + n = Len(M))
  BY DEF AInv, OutputFromMemory, Output, hasSpill
<1>2. PICK w, h : Where(w, h)
  BY <1>1 DEF AInv
<1>3. streams = <<>> /\ Walked /\ SomeKept
  BY <1>1, <1>2 DEF Phase, Where, SomeKept, Kept
<1>4. Exact(M, TRUE)
  BY <1>1, <1>3, InMemoryIsExact DEF Control
<1>5. M \in Seq(GroupOut) /\ Len(M) \in Nat
  BY <1>4, LenProperties DEF Exact
<1>6. o \in 0 .. Len(M) /\ delivered = SubSeq(M, 1, o)
  BY <1>1, <1>3 DEF Walked
<1> HIDE DEF M, o
<1>7. n \in Nat /\ o + n \in 0 .. Len(M) /\ (n = 0 => o + n = Len(M))
  BY <1>5, <1>6, BoundsAssumption DEF Least
<1> HIDE DEF n
<1>8. delivered \in Seq(GroupOut)
  BY <1>5, <1>6, SubSeqProperties
<1>9. SubSeq(M, o + 1, o + n) \in Seq(GroupOut) /\ (n # 0 => Len(SubSeq(M, o + 1, o + n)) = n)
  <2>1. \A i \in o + 1 .. o + n : M[i] \in GroupOut
    BY <1>5, <1>6, <1>7
  <2>2. /\ SubSeq(M, o + 1, o + n) \in Seq(GroupOut)
        /\ Len(SubSeq(M, o + 1, o + n)) = (IF o + 1 <= o + n THEN o + n - (o + 1) + 1 ELSE 0)
    BY <1>6, <1>7, <2>1, SubSeqProperties
  <2> QED
    BY <1>6, <1>7, <2>2
<1>10. Len(delivered') = Len(delivered) + Len(SubSeq(M, o + 1, o + n))
  BY <1>1, <1>8, <1>9, ConcatProperties
<1>11. n = 0 => finished'
  BY <1>1, <1>7
<1>12. n # 0 => Len(delivered') > Len(delivered)
  BY <1>7, <1>8, <1>9, <1>10, LenProperties
<1> QED
  BY <1>11, <1>12 DEF Progress

\* A call that returns when its batch is full has a group in it.
LEMMA RowProgresses == ASSUME AInv, MergeRow PROVE Progress
<1> SUFFICES ASSUME pc' = "idle" PROVE Len(delivered') > Len(delivered)
  BY DEF Progress
<1>1. PICK next : next = NextOf
  OBVIOUS
<1>2. PICK s : s = next.tree.last
  OBVIOUS
<1>3. PICK groups : groups = GroupsWith(s)
  OBVIOUS
<1>4. PICK refs : refs = RefsWith(s, groups)
  OBVIOUS
<1>5. PICK G : G = Unspilled(groups, refs)
  OBVIOUS
<1>6. pc = "merge" /\ s # EMPTY /\ (pc' = "failed" \/ MergesRow(s, next, groups, refs, G))
  BY <1>1, <1>2, <1>3, <1>4, <1>5, MergeRowIs
<1>7. delivered' = delivered \o G
  BY <1>6 DEF MergesRow
<1>8. Control /\ Phase /\ \E w, h : Where(w, h)
  BY <1>6 DEF AInv
<1>9. PICK w, h : Where(w, h)
  BY <1>8
<1>10. PICK n : n = Len(streams)
  OBVIOUS
<1>11. PICK sts2 : sts2 = MovedStreams(s)
  OBVIOUS
<1>12. PICK pos2 : pos2 = [j \in 1 .. n |-> Pos(sts2[j])]
  OBVIOUS
<1>13. RowMerged(w, h, n, next, groups, refs, G, pos2)
  BY <1>1, <1>2, <1>3, <1>4, <1>5, <1>6, <1>8, <1>9, <1>10, <1>11, <1>12, MergesTheRow
<1> QED
  BY <1>7, <1>13 DEF RowMerged

\* The call that ends the merge finishes the operator.
LEMMA EndProgresses == ASSUME AInv, MergeEnds PROVE Progress
<1>1. PICK next : next = NextOf
  OBVIOUS
<1>2. PICK G : G = Unspilled(result, unspilled)
  OBVIOUS
<1>3. pc = "merge" /\ next.tree.last = EMPTY /\ finished' = (spillRowOffset = TotalRows(files))
  BY <1>1, <1>2, MergeEndsIs
<1>4. PICK w, h : Where(w, h)
  BY <1>3 DEF AInv
<1>5. PICK out : out = delivered \o Unspilled(result, unspilled)
  OBVIOUS
<1>6. spillRowOffset = TotalRows(files)
  BY <1>1, <1>3, <1>4, <1>5, MergeEndsExact
<1> QED
  BY <1>3, <1>6 DEF Progress

\* Each step that ends a call does so.
LEMMA StepProgresses == ASSUME AInv, AggNext PROVE Progress
<1>1. CASE AddInput
  BY <1>1 DEF AddInput, Progress
<1>2. CASE NoMoreInput
  BY <1>2 DEF NoMoreInput, Progress
<1>3. CASE NoInput
  BY <1>3 DEF NoInput, Progress
<1>4. CASE OutputFromMemory
  BY <1>4, MemoryProgresses
<1>5. CASE GetOutputFromDisk
  BY <1>5 DEF GetOutputFromDisk, Progress
<1>6. CASE MergeRow
  BY <1>6, RowProgresses
<1>7. CASE MergeEnds
  BY <1>7, EndProgresses
<1> QED
  BY <1>1, <1>2, <1>3, <1>4, <1>5, <1>6, <1>7 DEF AggNext, GetOutput

\* CallsMakeProgress: a call of GetOutput that returns has handed out a group, or finished.
THEOREM CallsProgress == ASSUME ArraysFit PROVE Spec => CallsMakeProgress
<1>1. AInv /\ [AggNext]_vars => [Progress]_vars
  BY StepProgresses
<1>2. [][Progress]_vars => CallsMakeProgress
  BY PTL DEF CallsMakeProgress, Progress
<1> QED
  BY <1>1, <1>2, EveryRowIsKept, PTL DEF Spec

=============================================================================
