------------------------- MODULE Foundations_proofs --------------------------
(***************************************************************************)
(* What the proofs of the other modules need to know of sets, sums and     *)
(* sequences, and of the tree of losers, for any number of streams: the    *)
(* inner nodes are as many as it takes, First plays a tournament,          *)
(* Propagate repeats the games of one stream, and NextStream returns the   *)
(* stream with the least key.                                              *)
(***************************************************************************)
EXTENDS LoserTree, Sums, FiniteSetTheorems, SequenceTheorems,
        WellFoundedInduction, TLAPS

-----------------------------------------------------------------------------
(* Induction by the least counterexample: a set of natural numbers that is *)
(* not empty has a least element, and a set of subsets of a finite set one *)
(* that includes no other.  A proof by induction assumes that the set of   *)
(* what does not have the property is not empty and contradicts its least  *)
(* element.                                                                *)

\* A set of natural numbers has a least element, unless it is empty.
LEMMA LeastNatural ==
  ASSUME NEW S \in SUBSET Nat, S # {}
  PROVE \E m \in S : \A n \in S : m <= n
<1> DEFINE R == OpToRel(<, Nat)
<1>1. \A m, n \in Nat : <<n, m>> \in R <=> n < m
  BY DEF OpToRel
<1>2. IsWellFoundedOn(R, Nat)
  BY NatLessThanWellFounded
<1> HIDE DEF R
<1>3. \E m \in S : \A n \in S : ~ (<<n, m>> \in R)
  BY <1>2, WFMin
<1>4. PICK m \in S : \A n \in S : ~ (<<n, m>> \in R)
  BY <1>3
<1>5. ASSUME NEW n \in S PROVE m <= n
  <2>1. m \in Nat /\ n \in Nat
    OBVIOUS
  <2>2. ~ (n < m)
    BY <1>1, <1>4, <2>1
  <2> QED
    BY <2>1, <2>2
<1> QED BY <1>5

\* Of some subsets of a finite set one includes no other.
LEMMA SmallestSubset ==
  ASSUME NEW F, IsFiniteSet(F), NEW B \in SUBSET SUBSET F, B # {}
  PROVE \E m \in B : \A n \in B : n \subseteq m => n = m
<1> DEFINE R == StrictSubsetOrdering(F)
<1>1. \A m, n \in SUBSET F : <<n, m>> \in R <=> n \subseteq m /\ n # m
  BY DEF StrictSubsetOrdering
<1>2. IsWellFoundedOn(R, SUBSET F)
  BY FS_StrictSubsetOrderingWellFounded, FS_FiniteSubsetsOfFinite
<1> HIDE DEF R
<1>3. \E m \in B : \A n \in B : ~ (<<n, m>> \in R)
  BY <1>2, WFMin
<1>4. QED BY <1>1, <1>3

\* So has a set of natural numbers that is bounded a greatest one.
LEMMA GreatestNatural ==
  ASSUME NEW bound \in Nat, NEW S \in SUBSET (0 .. bound), S # {}
  PROVE  \E m \in S : \A n \in S : n <= m
<1> DEFINE U == {u \in Nat : \A n \in S : n <= u}
<1>1. \A n \in S : n \in Nat /\ n <= bound
  OBVIOUS
<1>2. PICK u \in U : \A v \in U : u <= v
  <2>1. bound \in U /\ U \in SUBSET Nat
    BY <1>1
  <2> HIDE DEF U
  <2>2. QED BY <2>1, LeastNatural
<1>3. u \in S
  <2>1. SUFFICES ASSUME u \notin S PROVE FALSE
    OBVIOUS
  <2>2. \A n \in S : n <= u - 1
    BY <1>1, <2>1
  <2>3. u - 1 \in Nat
    <3>1. PICK n \in S : n <= u - 1
      BY <2>2
    <3>2. QED BY <1>1, <3>1
  <2>4. QED BY <1>2, <2>2, <2>3
<1>4. QED BY <1>3

\* T is a set of numbers up to n.
Upto(n, T) == n \in Nat /\ T \in SUBSET (1 .. n)

\* Max is the greatest of them.
LEMMA GreatestOf ==
  ASSUME NEW n \in Nat, NEW T \in SUBSET (1 .. n), T # {}
  PROVE  Max(T) \in T /\ \A x \in T : x <= Max(T)
<1>1. T \in SUBSET (0 .. n)
  OBVIOUS
<1>2. PICK m \in T : \A x \in T : x <= m
  BY <1>1, GreatestNatural
<1>3. \A x \in T : m >= x
  BY <1>2
<1>4. Max(T) \in T /\ \A x \in T : Max(T) >= x
  BY <1>3 DEF Max
<1> QED
  BY <1>4

-----------------------------------------------------------------------------
(* What a sum over a finite set is: a summand and the rest, whichever the  *)
(* summand, so that a change of one summand changes the sum by as much.    *)

Pick(s) == CHOOSE x \in s : TRUE
Summand(f, sum, s) == IF s = {} THEN 0 ELSE f[Pick(s)] + sum[s \ {Pick(s)}]
IsSum(f, sum, S) == sum = [s \in SUBSET S |-> Summand(f, sum, s)]

LEMMA TotalIsSum == ASSUME NEW f, NEW S PROVE Total(f, S) = (CHOOSE sum : IsSum(f, sum, S))[S]
  BY DEF Total, MapThenSumSet, MapThenFoldSet, IsSum, Summand, Pick

LEMMA OneSum ==
  ASSUME NEW f, NEW T, NEW U, IsFiniteSet(T), NEW g, NEW h, IsSum(f, g, T), IsSum(f, h, U),
         NEW s \in SUBSET T, s \in SUBSET U
  PROVE  g[s] = h[s]
<1> DEFINE B == {r \in SUBSET s : g[r] # h[r]}
<1> SUFFICES ASSUME B # {} PROVE FALSE
  OBVIOUS
<1>1. IsFiniteSet(s)
  BY FS_Subset
<1>2. PICK m \in B : \A n \in B : n \subseteq m => n = m
  <2>1. B \in SUBSET SUBSET s
    OBVIOUS
  <2> HIDE DEF B
  <2> QED
    BY <1>1, <2>1, SmallestSubset
<1>3. g[m] = Summand(f, g, m) /\ h[m] = Summand(f, h, m)
  BY DEF IsSum
<1>4. CASE m = {}
  BY <1>3, <1>4 DEF Summand
<1>5. CASE m # {}
  <2>1. Pick(m) \in m
    BY <1>5 DEF Pick
  <2>2. g[m \ {Pick(m)}] = h[m \ {Pick(m)}]
    BY <1>2, <2>1
  <2> QED
    BY <1>3, <1>5, <2>2 DEF Summand
<1> QED
  BY <1>4, <1>5

LEMMA SomeSum ==
  ASSUME NEW f, NEW S, IsFiniteSet(S) PROVE \E sum : IsSum(f, sum, S)
<1> DEFINE B == {T \in SUBSET S : ~ \E sum : IsSum(f, sum, T)}
           G(T) == CHOOSE sum : IsSum(f, sum, T)
<1> SUFFICES ASSUME B # {} PROVE FALSE
  OBVIOUS
<1>1. PICK m \in B : \A n \in B : n \subseteq m => n = m
  <2>1. B \in SUBSET SUBSET S
    OBVIOUS
  <2> HIDE DEF B
  <2> QED
    BY <2>1, SmallestSubset
<1> DEFINE rest(s) == s \ {Pick(s)}
           val == [s \in SUBSET m |-> IF s # m THEN G(s)[s]
                                      ELSE IF s = {} THEN 0 ELSE f[Pick(s)] + G(rest(s))[rest(s)]]
<1>2. ASSUME NEW s \in SUBSET m, s # m PROVE IsSum(f, G(s), s) /\ IsFiniteSet(s)
  BY <1>1, <1>2, FS_Subset
<1>3. ASSUME NEW s \in SUBSET m PROVE val[s] = Summand(f, val, s)
  <2>1. CASE s = {}
    <3>1. CASE s # m
      <4>1. val[s] = G(s)[s]
        BY <3>1
      <4>2. IsSum(f, G(s), s)
        BY <3>1, <1>2
      <4> HIDE DEF G
      <4>3. G(s)[s] = Summand(f, G(s), s)
        BY <4>2 DEF IsSum
      <4> QED
        BY <4>1, <4>3, <2>1 DEF Summand
    <3> QED
      BY <3>1, <2>1 DEF Summand
  <2>2. CASE s # {}
    <3>1. Pick(s) \in s /\ rest(s) \in SUBSET m /\ rest(s) # m /\ rest(s) \in SUBSET s
      BY <2>2 DEF Pick
    <3>2. val[rest(s)] = G(rest(s))[rest(s)]
      BY <3>1
    <3>3. CASE s = m
      BY <3>2, <3>3, <2>2 DEF Summand
    <3>4. CASE s # m
      <4>1. IsSum(f, G(s), s) /\ IsSum(f, G(rest(s)), rest(s)) /\ IsFiniteSet(s)
        BY <3>1, <3>4, <1>2
      <4>2. val[s] = G(s)[s]
        BY <3>4
      <4> HIDE DEF G, rest
      <4>3. G(s)[rest(s)] = G(rest(s))[rest(s)]
        BY <4>1, <3>1, OneSum
      <4>4. G(s)[s] = Summand(f, G(s), s)
        BY <4>1 DEF IsSum
      <4> QED
        BY <3>2, <2>2, <4>2, <4>3, <4>4 DEF Summand, rest
    <3> QED
      BY <3>3, <3>4
  <2> QED
    BY <2>1, <2>2
<1> HIDE DEF G
<1>4. val = [s \in SUBSET m |-> Summand(f, val, s)]
  <2>1. val = [s \in SUBSET m |-> val[s]]
    OBVIOUS
  <2> HIDE DEF val
  <2> QED
    BY <2>1, <1>3
<1> HIDE DEF val
<1>5. IsSum(f, val, m)
  BY <1>4 DEF IsSum
<1> QED
  BY <1>1, <1>5

LEMMA TotalByPick ==
  ASSUME NEW f, NEW S, IsFiniteSet(S)
  PROVE  Total(f, S) = IF S = {} THEN 0 ELSE f[Pick(S)] + Total(f, S \ {Pick(S)})
<1> DEFINE G(T) == CHOOSE sum : IsSum(f, sum, T)
           R == S \ {Pick(S)}
<1>1. IsFiniteSet(R)
  BY FS_Subset
<1>2. IsSum(f, G(S), S) /\ IsSum(f, G(R), R)
  BY <1>1, SomeSum
<1>3. Total(f, S) = G(S)[S] /\ Total(f, R) = G(R)[R]
  BY TotalIsSum
<1> HIDE DEF G
<1>4. G(S)[S] = Summand(f, G(S), S)
  BY <1>2 DEF IsSum
<1>5. G(S)[R] = G(R)[R]
  <2>1. R \in SUBSET S /\ R \in SUBSET R
    OBVIOUS
  <2> HIDE DEF R
  <2> QED
    BY <1>1, <1>2, <2>1, OneSum
<1> QED
  BY <1>3, <1>4, <1>5 DEF Summand

LEMMA TotalType ==
  ASSUME NEW S, IsFiniteSet(S), NEW f, \A x \in S : f[x] \in Int
  PROVE  Total(f, S) \in Int
<1> DEFINE B == {T \in SUBSET S : Total(f, T) \notin Int}
<1> SUFFICES ASSUME B # {} PROVE FALSE
  OBVIOUS
<1>1. PICK m \in B : \A n \in B : n \subseteq m => n = m
  <2>1. B \in SUBSET SUBSET S
    OBVIOUS
  <2> HIDE DEF B
  <2> QED
    BY <2>1, SmallestSubset
<1>2. IsFiniteSet(m)
  BY FS_Subset
<1>3. CASE m # {}
  <2>1. Pick(m) \in m
    BY <1>3 DEF Pick
  <2>2. Total(f, m \ {Pick(m)}) \in Int
    BY <1>1, <2>1
  <2> QED
    BY <1>2, <1>3, <2>1, <2>2, TotalByPick
<1>4. CASE m = {}
  <2>1. Total(f, m) = 0
    BY <1>2, <1>4, TotalByPick
  <2> QED
    BY <2>1
<1> QED
  BY <1>3, <1>4

LEMMA TotalWithout ==
  ASSUME NEW S, IsFiniteSet(S), NEW f, \A x \in S : f[x] \in Int, NEW x \in S
  PROVE  Total(f, S) = f[x] + Total(f, S \ {x})
<1> DEFINE B == {T \in SUBSET S : \E y \in T : Total(f, T) # f[y] + Total(f, T \ {y})}
<1> SUFFICES ASSUME B # {} PROVE FALSE
  OBVIOUS
<1>1. PICK m \in B : \A n \in B : n \subseteq m => n = m
  <2>1. B \in SUBSET SUBSET S
    OBVIOUS
  <2> HIDE DEF B
  <2> QED
    BY <2>1, SmallestSubset
<1>2. PICK y \in m : Total(f, m) # f[y] + Total(f, m \ {y})
  BY <1>1
<1>3. IsFiniteSet(m) /\ IsFiniteSet(m \ {y})
  BY FS_Subset
<1> DEFINE p == Pick(m)
<1>4. p \in m
  BY <1>2 DEF Pick
<1>5. Total(f, m) = f[p] + Total(f, m \ {p})
  BY <1>2, <1>3, TotalByPick
<1> HIDE DEF p
<1>6. p # y
  BY <1>2, <1>5
<1>7. /\ Total(f, m \ {p}) = f[y] + Total(f, (m \ {p}) \ {y})
      /\ Total(f, m \ {y}) = f[p] + Total(f, (m \ {y}) \ {p})
  <2>1. m \ {p} \notin B /\ m \ {y} \notin B
    <3> HIDE DEF B
    <3> QED
      BY <1>1, <1>4
  <2>2. m \ {p} \in SUBSET S /\ m \ {y} \in SUBSET S /\ y \in m \ {p} /\ p \in m \ {y}
    BY <1>4, <1>6
  <2> QED
    BY <2>1, <2>2
<1>8. (m \ {p}) \ {y} = (m \ {y}) \ {p}
  OBVIOUS
<1>9. Total(f, (m \ {y}) \ {p}) \in Int /\ f[p] \in Int /\ f[y] \in Int
  <2>1. IsFiniteSet((m \ {y}) \ {p})
    BY FS_Subset
  <2> QED
    BY <2>1, <1>4, TotalType
<1> DEFINE rest == Total(f, (m \ {y}) \ {p})
<1>10. Total(f, m) = f[p] + (f[y] + rest) /\ f[y] + Total(f, m \ {y}) = f[y] + (f[p] + rest)
  BY <1>5, <1>7, <1>8
<1> HIDE DEF rest
<1>11. rest \in Int
  BY <1>9 DEF rest
<1> QED
  BY <1>2, <1>9, <1>10, <1>11

LEMMA TotalOfNone ==
  ASSUME NEW S, IsFiniteSet(S), NEW f, \A x \in S : f[x] = 0
  PROVE  Total(f, S) = 0
<1> DEFINE B == {T \in SUBSET S : Total(f, T) # 0}
<1> SUFFICES ASSUME B # {} PROVE FALSE
  OBVIOUS
<1>1. PICK m \in B : \A n \in B : n \subseteq m => n = m
  <2>1. B \in SUBSET SUBSET S
    OBVIOUS
  <2> HIDE DEF B
  <2> QED
    BY <2>1, SmallestSubset
<1>2. IsFiniteSet(m)
  BY FS_Subset
<1>3. CASE m # {}
  <2>1. Pick(m) \in m
    BY <1>3 DEF Pick
  <2>2. Total(f, m \ {Pick(m)}) = 0 /\ f[Pick(m)] = 0
    BY <1>1, <2>1
  <2> QED
    BY <1>2, <1>3, <2>2, TotalByPick
<1>4. CASE m = {}
  BY <1>2, <1>4, TotalByPick
<1> QED
  BY <1>3, <1>4

LEMMA TotalOfSame ==
  ASSUME NEW S, IsFiniteSet(S), NEW f, NEW g, \A x \in S : f[x] = g[x]
  PROVE  Total(f, S) = Total(g, S)
<1> DEFINE B == {T \in SUBSET S : Total(f, T) # Total(g, T)}
<1> SUFFICES ASSUME B # {} PROVE FALSE
  OBVIOUS
<1>1. PICK m \in B : \A n \in B : n \subseteq m => n = m
  <2>1. B \in SUBSET SUBSET S
    OBVIOUS
  <2> HIDE DEF B
  <2> QED
    BY <2>1, SmallestSubset
<1>2. IsFiniteSet(m)
  BY FS_Subset
<1>3. CASE m # {}
  <2>1. Pick(m) \in m
    BY <1>3 DEF Pick
  <2>2. Total(f, m \ {Pick(m)}) = Total(g, m \ {Pick(m)})
    BY <1>1, <2>1
  <2> QED
    BY <1>2, <1>3, <2>1, <2>2, TotalByPick
<1>4. CASE m = {}
  BY <1>2, <1>4, TotalByPick
<1> QED
  BY <1>3, <1>4

LEMMA TotalOfChange ==
  ASSUME NEW S, IsFiniteSet(S), NEW f, NEW g, NEW x \in S,
         \A y \in S : f[y] \in Int /\ g[y] \in Int,
         \A y \in S \ {x} : f[y] = g[y]
  PROVE  Total(g, S) = Total(f, S) - f[x] + g[x]
<1>1. Total(f, S) = f[x] + Total(f, S \ {x}) /\ Total(g, S) = g[x] + Total(g, S \ {x})
  BY TotalWithout
<1>2. IsFiniteSet(S \ {x})
  BY FS_Subset
<1>3. Total(f, S \ {x}) = Total(g, S \ {x}) /\ Total(f, S \ {x}) \in Int
  BY <1>2, TotalOfSame, TotalType
<1> QED
  BY <1>1, <1>3

-----------------------------------------------------------------------------
(* Concatenation of sequences.                                             *)

\* Concatenating the sequences of ss one after the other: the step, and the
\* sequence of what there is after 1 .. n of them.
FlatStep(ss, f, i)     == IF i = 1 THEN ss[i] ELSE f[i - 1] \o ss[i]
IsFlattening(ss, f, n) == f = [i \in 1 .. n |-> FlatStep(ss, f, i)]

\* FlattenSeq takes the last of those, once they exist.
LEMMA FlattenIs ==
  ASSUME NEW ss, Len(ss) # 0
  PROVE  FlattenSeq(ss) = (CHOOSE f : IsFlattening(ss, f, Len(ss)))[Len(ss)]
  BY DEF FlattenSeq, IsFlattening, FlatStep

\* They do, for a sequence of sequences of any length.
LEMMA SomeFlattening == ASSUME NEW ss, NEW n \in Nat PROVE \E f : IsFlattening(ss, f, n)
<1> DEFINE B == {k \in Nat : ~ \E f : IsFlattening(ss, f, k)}
<1> SUFFICES ASSUME B # {} PROVE FALSE
  OBVIOUS
<1>1. PICK m \in B : \A k \in B : m <= k
  <2>1. B \in SUBSET Nat
    OBVIOUS
  <2> HIDE DEF B
  <2> QED
    BY <2>1, LeastNatural
<1>2. m # 0
  <2>1. IsFlattening(ss, [i \in 1 .. 0 |-> 0], 0)
    BY DEF IsFlattening
  <2> QED
    BY <2>1, <1>1
<1>3. PICK g : IsFlattening(ss, g, m - 1)
  BY <1>1, <1>2
<1> DEFINE h == [i \in 1 .. m |-> IF i = m THEN FlatStep(ss, g, m) ELSE g[i]]
<1>4. ASSUME NEW i \in 1 .. m PROVE h[i] = FlatStep(ss, h, i)
  <2>1. m \in Nat
    OBVIOUS
  <2>2. i # 1 => h[i - 1] = g[i - 1]
    BY <2>1
  <2>3. h[i] = FlatStep(ss, g, i)
    <3>1. CASE i = m
      BY <3>1
    <3>2. CASE i # m
      BY <1>3, <2>1, <3>2 DEF IsFlattening
    <3> QED
      BY <3>1, <3>2
  <2> HIDE DEF h
  <2> QED
    BY <2>2, <2>3 DEF FlatStep
<1>5. h = [i \in 1 .. m |-> FlatStep(ss, h, i)]
  <2>1. h = [i \in 1 .. m |-> h[i]]
    OBVIOUS
  <2> HIDE DEF h
  <2> QED
    BY <1>4, <2>1
<1> HIDE DEF h
<1>6. IsFlattening(ss, h, m)
  BY <1>5 DEF IsFlattening
<1> QED
  BY <1>1, <1>6

\* Blocks of lengths len[1], len[2], ... laid out one after the other: the offsets
\* grow, and every position is in some block.
LEMMA BlockFacts ==
  ASSUME NEW n \in Nat, NEW off \in [1 .. n + 1 -> Nat], NEW len \in [1 .. n -> Nat],
         off[1] = 0, \A i \in 1 .. n : off[i + 1] = off[i] + len[i]
  PROVE  /\ \A i, j \in 1 .. n + 1 : i <= j => off[i] <= off[j]
         /\ \A p \in 1 .. off[n + 1] : \E i \in 1 .. n : \E q \in 1 .. len[i] : p = off[i] + q
<1>1. ASSUME NEW i \in 1 .. n + 1, NEW j \in 1 .. n + 1, i <= j PROVE off[i] <= off[j]
  <2> DEFINE B == {k \in i .. n + 1 : ~ (off[i] <= off[k])}
  <2> SUFFICES ASSUME B # {} PROVE FALSE
    <3>1. j \in i .. n + 1
      BY <1>1
    <3> QED
      BY <3>1
  <2>1. PICK m \in B : \A k \in B : m <= k
    <3>1. B \in SUBSET Nat
      OBVIOUS
    <3> HIDE DEF B
    <3> QED
      BY <3>1, LeastNatural
  <2>2. m # i
    BY <2>1
  <2>3. m - 1 \in i .. n + 1 /\ m - 1 \notin B /\ m - 1 \in 1 .. n
    BY <2>1, <2>2
  <2>4. off[i] <= off[m - 1]
    BY <2>3
  <2>5. off[(m - 1) + 1] = off[m - 1] + len[m - 1]
    BY <2>3
  <2>6. off[m] = off[m - 1] + len[m - 1] /\ len[m - 1] \in Nat /\ off[m] \in Nat
        /\ off[m - 1] \in Nat /\ off[i] \in Nat
    BY <2>3, <2>5
  <2>7. ~ (off[i] <= off[m])
    BY <2>1
  <2> HIDE DEF B
  <2> QED
    BY <2>4, <2>6, <2>7, SMTT(30)
<1>2. ASSUME NEW p \in 1 .. off[n + 1]
      PROVE  \E i \in 1 .. n : \E q \in 1 .. len[i] : p = off[i] + q
  <2>0. n + 1 \in 1 .. n + 1 /\ off[n + 1] \in Nat /\ p \in Nat /\ p > 0 /\ p <= off[n + 1]
    <3>1. off[n + 1] \in Nat
      OBVIOUS
    <3> QED
      BY <3>1
  <2> DEFINE B == {k \in 1 .. n + 1 : p <= off[k]}
  <2>1. PICK m \in B : \A k \in B : m <= k
    <3>1. B \in SUBSET Nat /\ n + 1 \in B
      BY <2>0
    <3> HIDE DEF B
    <3> QED
      BY <3>1, LeastNatural
  <2>2. m # 1
    <3>1. p <= off[m]
      BY <2>1
    <3> QED
      BY <2>0, <3>1
  <2>3. m - 1 \in 1 .. n /\ m - 1 \notin B /\ (m - 1) + 1 = m
    BY <2>1, <2>2
  <2>4. off[m] = off[m - 1] + len[m - 1] /\ off[m - 1] < p /\ p <= off[m]
    <3>1. off[(m - 1) + 1] = off[m - 1] + len[m - 1]
      BY <2>3
    <3> QED
      BY <2>1, <2>3, <3>1, SMTT(30)
  <2>5. len[m - 1] \in Nat /\ off[m - 1] \in Nat
    BY <2>3
  <2>6. p - off[m - 1] \in 1 .. len[m - 1] /\ p = off[m - 1] + (p - off[m - 1])
    BY <2>4, <2>5, SMTT(30)
  <2> QED
    BY <2>3, <2>6
<1> QED
  BY <1>1, <1>2

\* Where each of the sequences of ss begins in flat, their concatenation.
Offsets(ss, flat, off) ==
  /\ off \in [1 .. Len(ss) + 1 -> Nat] /\ off[1] = 0 /\ off[Len(ss) + 1] = Len(flat)
  /\ \A i \in 1 .. Len(ss) : off[i + 1] = off[i] + Len(ss[i])
  /\ \A i \in 1 .. Len(ss) : \A q \in 1 .. Len(ss[i]) : flat[off[i] + q] = ss[i][q]

\* The concatenation of sequences over A is one, and each of them is found in it.
LEMMA Flattened ==
  ASSUME NEW A, NEW ss \in Seq(Seq(A)), Len(ss) > 0
  PROVE  FlattenSeq(ss) \in Seq(A) /\ \E off : Offsets(ss, FlattenSeq(ss), off)
<1> DEFINE n == Len(ss)
           f == CHOOSE g : IsFlattening(ss, g, n)
<1>1. n \in Nat \ {0} /\ \A i \in 1 .. n : ss[i] \in Seq(A)
  BY ElementOfSeq, LenProperties
<1>2. IsFlattening(ss, f, n) /\ FlattenSeq(ss) = f[n]
  BY <1>1, FlattenIs, SomeFlattening
<1> HIDE DEF f, n
<1>3. f[1] = ss[1] /\ \A i \in 2 .. n : f[i] = f[i - 1] \o ss[i]
  <2>1. \A i \in 1 .. n : f[i] = FlatStep(ss, f, i)
    BY <1>2 DEF IsFlattening
  <2>2. f[1] = ss[1]
    BY <1>1, <2>1, SMTT(30) DEF FlatStep
  <2>3. ASSUME NEW i \in 2 .. n PROVE f[i] = f[i - 1] \o ss[i]
    <3>1. i \in 1 .. n /\ i # 1
      BY <1>1
    <3> QED
      BY <2>1, <3>1 DEF FlatStep
  <2> QED
    BY <2>2, <2>3
<1>4. \A i \in 1 .. n : f[i] \in Seq(A)
  <2> DEFINE B == {i \in 1 .. n : f[i] \notin Seq(A)}
  <2> SUFFICES ASSUME B # {} PROVE FALSE
    OBVIOUS
  <2>1. PICK m \in B : \A k \in B : m <= k
    <3>1. B \in SUBSET Nat
      BY <1>1
    <3> HIDE DEF B
    <3> QED
      BY <3>1, LeastNatural
  <2>2. m # 1
    BY <1>1, <1>3
  <2>3. m - 1 \in 1 .. n /\ m - 1 \notin B /\ m \in 2 .. n
    BY <1>1, <2>1, <2>2
  <2>4. f[m] = f[m - 1] \o ss[m] /\ f[m - 1] \in Seq(A) /\ ss[m] \in Seq(A)
    <3>1. f[m] = f[m - 1] \o ss[m]
      BY <1>3, <2>3
    <3>2. f[m - 1] \in Seq(A)
      BY <2>3
    <3>3. ss[m] \in Seq(A)
      BY <1>1, <2>1
    <3> QED
      BY <3>1, <3>2, <3>3
  <2> QED
    BY <2>4, ConcatProperties
<1> DEFINE off == [i \in 1 .. n + 1 |-> IF i = 1 THEN 0 ELSE Len(f[i - 1])]
           len == [i \in 1 .. n |-> Len(ss[i])]
<1>5. off \in [1 .. n + 1 -> Nat] /\ len \in [1 .. n -> Nat]
  <2>1. \A i \in 1 .. n : Len(f[i]) \in Nat /\ Len(ss[i]) \in Nat
    BY <1>1, <1>4, LenProperties
  <2>2. \A i \in 1 .. n + 1 : i # 1 => i - 1 \in 1 .. n
    BY <1>1
  <2> QED
    BY <2>1, <2>2
<1>6. off[1] = 0 /\ \A i \in 1 .. n : off[i + 1] = Len(f[i])
  BY <1>1
<1>7. \A i \in 1 .. n : off[i + 1] = off[i] + Len(ss[i])
  <2> SUFFICES ASSUME NEW i \in 1 .. n PROVE off[i + 1] = off[i] + Len(ss[i])
    OBVIOUS
  <2> HIDE DEF off
  <2>1. CASE i = 1
    BY <1>1, <1>3, <1>5, <1>6, <2>1, LenProperties
  <2>2. CASE i # 1
    <3>1. f[i] = f[i - 1] \o ss[i] /\ f[i - 1] \in Seq(A) /\ ss[i] \in Seq(A)
          /\ off[i] = Len(f[i - 1])
      <4>1. i - 1 \in 1 .. n /\ (i - 1) + 1 = i /\ i \in 2 .. n
        BY <1>1, <2>2
      <4>2. off[(i - 1) + 1] = Len(f[i - 1])
        BY <1>6, <4>1
      <4>3. off[i] = Len(f[i - 1])
        BY <4>1, <4>2
      <4>4. f[i] = f[i - 1] \o ss[i]
        BY <1>3, <4>1
      <4>5. f[i - 1] \in Seq(A) /\ ss[i] \in Seq(A)
        BY <1>1, <1>4, <4>1
      <4> QED
        BY <4>3, <4>4, <4>5
    <3>2. Len(f[i]) = Len(f[i - 1]) + Len(ss[i])
      BY <3>1, ConcatProperties
    <3> QED
      BY <1>6, <3>1, <3>2
  <2> QED
    BY <2>1, <2>2
<1>8. /\ \A i, j \in 1 .. n + 1 : i <= j => off[i] <= off[j]
  <2>1. \A i \in 1 .. n : off[i + 1] = off[i] + len[i]
    BY <1>7
  <2> HIDE DEF off, len
  <2> QED
    BY <1>1, <1>5, <1>6, <2>1, BlockFacts
<1> HIDE DEF off, len
<1>9. ASSUME NEW i \in 1 .. n, NEW q \in 1 .. Len(ss[i])
      PROVE  f[n][off[i] + q] = ss[i][q]
  <2> DEFINE B == {j \in i .. n : f[j][off[i] + q] # ss[i][q]}
  <2> SUFFICES ASSUME B # {} PROVE FALSE
    BY <1>1, SMTT(30)
  <2>1. PICK m \in B : \A k \in B : m <= k
    <3>1. B \in SUBSET Nat
      BY <1>1
    <3> HIDE DEF B
    <3> QED
      BY <3>1, LeastNatural
  <2>5. /\ m \in i .. n /\ f[m][off[i] + q] # ss[i][q]
        /\ \A k \in i .. n : k < m => f[k][off[i] + q] = ss[i][q]
    BY <1>1, <2>1
  <2> HIDE DEF B
  <2>2. m \in 1 .. n /\ i \in 1 .. n + 1 /\ off[i] \in Nat /\ Len(ss[i]) \in Nat /\ q \in Nat
        /\ ss[m] \in Seq(A) /\ ss[i] \in Seq(A) /\ f[m] \in Seq(A)
    <3>1. m \in 1 .. n /\ i \in 1 .. n + 1 /\ q \in Nat
      BY <1>1, <2>5
    <3>2. ss[m] \in Seq(A) /\ ss[i] \in Seq(A) /\ f[m] \in Seq(A)
      BY <1>1, <1>4, <3>1
    <3>3. Len(ss[i]) \in Nat
      BY <3>2, LenProperties
    <3>4. off[i] \in Nat
      BY <1>5, <3>1
    <3> QED
      BY <3>1, <3>2, <3>3, <3>4
  <2>3. CASE m = 1
    <3>1. i = 1 /\ off[i] = 0 /\ f[m] = ss[1]
      BY <1>3, <1>6, <2>2, <2>3, <2>5
    <3> QED
      BY <2>5, <2>2, <3>1
  <2>4. CASE m # 1
    <3>1. /\ f[m] = f[m - 1] \o ss[m] /\ f[m - 1] \in Seq(A)
          /\ off[m] = Len(f[m - 1]) /\ m - 1 \in 1 .. n
      <4>1. m - 1 \in 1 .. n /\ (m - 1) + 1 = m /\ m \in 2 .. n
        BY <1>1, <2>2, <2>4
      <4>2. off[(m - 1) + 1] = Len(f[m - 1])
        BY <1>6, <4>1
      <4>3. f[m] = f[m - 1] \o ss[m]
        BY <1>3, <4>1
      <4>4. f[m - 1] \in Seq(A)
        BY <1>4, <4>1
      <4> QED
        BY <4>1, <4>2, <4>3, <4>4
    <3>2. \A p \in 1 .. Len(f[m - 1]) + Len(ss[m]) :
            f[m][p] = IF p <= Len(f[m - 1]) THEN f[m - 1][p] ELSE ss[m][p - Len(f[m - 1])]
      BY <2>2, <3>1, ConcatProperties
    <3>3. Len(f[m - 1]) \in Nat /\ Len(ss[m]) \in Nat
      BY <2>2, <3>1, LenProperties
    <3> DEFINE a == Len(f[m - 1])
               c == Len(ss[m])
    <3> HIDE DEF a, c
    <3>6. a \in Nat /\ c \in Nat /\ off[m] = a /\ off[i] \in Nat /\ q \in Nat
          /\ \A p \in 1 .. a + c : f[m][p] = IF p <= a THEN f[m - 1][p] ELSE ss[m][p - a]
      BY <2>2, <3>1, <3>2, <3>3 DEF a, c
    <3>4. CASE m = i
      <4>0. q \in 1 .. c
        BY <3>4 DEF c
      <4>1. off[i] + q \in 1 .. a + c /\ ~ (off[i] + q <= a) /\ (off[i] + q) - a = q
        BY <3>4, <3>6, <4>0
      <4> QED
        BY <2>5, <3>6, <3>4, <4>1
    <3>5. CASE m # i
      <4>1. i + 1 \in 1 .. n + 1 /\ m \in 1 .. n + 1 /\ i + 1 <= m
        <5>1. n \in Nat /\ i \in 1 .. n /\ m \in 1 .. n
          BY <1>1, <2>2
        <5>2. i <= m
          BY <2>5, <5>1
        <5>3. i # m
          BY <3>5
        <5> QED
          BY <5>1, <5>2, <5>3
      <4>2. off[i + 1] <= off[m] /\ off[i + 1] = off[i] + Len(ss[i])
        BY <1>7, <1>8, <4>1
      <4>5. q <= Len(ss[i]) /\ q > 0
        BY <2>2
      <4>3. off[i] + q \in 1 .. a + c /\ off[i] + q <= a
        <5> DEFINE d == off[i]
                   u == Len(ss[i])
        <5>1. d \in Nat /\ u \in Nat /\ q <= u /\ d + u <= a
          BY <2>2, <3>6, <4>2, <4>5
        <5> HIDE DEF d, u
        <5>2. d + q <= a /\ d + q > 0 /\ d + q \in Nat /\ a <= a + c
          BY <5>1, <3>6, <4>5
        <5> QED
          BY <5>2, <3>6 DEF d
      <4>4. f[m - 1][off[i] + q] = ss[i][q]
        <5>1. m - 1 \in i .. n /\ m - 1 < m
          BY <1>1, <2>5, <2>2, <3>1, <3>5
        <5> QED
          BY <2>5, <5>1
      <4> QED
        BY <2>5, <3>6, <4>3, <4>4
    <3> QED
      BY <3>4, <3>5
  <2> QED
    BY <2>3, <2>4
<1>10. Len(f[n]) = off[n + 1] /\ f[n] \in Seq(A)
  BY <1>1, <1>4, <1>6
<1>11. FlattenSeq(ss) = f[n]
  BY <1>2
<1>12. Offsets(ss, f[n], off)
  BY <1>5, <1>6, <1>7, <1>9, <1>10 DEF n, Offsets
<1> QED
  BY <1>10, <1>11, <1>12

\* Where each of the sequences of ss begins in flat, which is nothing but they.
Spread(ss, flat, off) ==
  /\ Offsets(ss, flat, off)
  /\ \A i \in 1 .. Len(ss) : \A q \in 1 .. Len(ss[i]) : off[i] + q \in 1 .. Len(flat)
  /\ \A p \in 1 .. Len(flat) : \E i \in 1 .. Len(ss) : \E q \in 1 .. Len(ss[i]) : p = off[i] + q

\* So it is with their concatenation.
LEMMA Spreads ==
  ASSUME NEW A, NEW ss \in Seq(Seq(A)), Len(ss) > 0
  PROVE  FlattenSeq(ss) \in Seq(A) /\ \E off : Spread(ss, FlattenSeq(ss), off)
<1> DEFINE flat == FlattenSeq(ss)
           n == Len(ss)
<1>1. flat \in Seq(A) /\ \E off : Offsets(ss, flat, off)
  BY Flattened
<1>2. PICK off : Offsets(ss, flat, off)
  BY <1>1
<1>3. n \in Nat \ {0} /\ \A i \in 1 .. n : ss[i] \in Seq(A)
  BY ElementOfSeq, LenProperties
<1> HIDE DEF flat, n
<1>4. /\ off \in [1 .. n + 1 -> Nat] /\ off[1] = 0 /\ off[n + 1] = Len(flat)
      /\ \A i \in 1 .. n : off[i + 1] = off[i] + Len(ss[i])
  BY <1>2 DEF Offsets, n
<1> DEFINE len == [i \in 1 .. n |-> Len(ss[i])]
<1>5. len \in [1 .. n -> Nat] /\ \A i \in 1 .. n : len[i] = Len(ss[i])
  BY <1>3, LenProperties
<1> HIDE DEF len
<1>6. /\ \A i, j \in 1 .. n + 1 : i <= j => off[i] <= off[j]
      /\ \A p \in 1 .. off[n + 1] : \E i \in 1 .. n : \E q \in 1 .. len[i] : p = off[i] + q
  <2>1. \A i \in 1 .. n : off[i + 1] = off[i] + len[i]
    BY <1>4, <1>5
  <2> QED
    BY <1>3, <1>4, <1>5, <2>1, BlockFacts
<1>7. ASSUME NEW i \in 1 .. n, NEW q \in 1 .. Len(ss[i])
      PROVE  off[i] + q \in 1 .. Len(flat)
  <2>1. i \in 1 .. n + 1 /\ i + 1 \in 1 .. n + 1 /\ n + 1 \in 1 .. n + 1 /\ i + 1 <= n + 1
    BY <1>3
  <2>2. off[i + 1] <= off[n + 1] /\ off[i + 1] = off[i] + Len(ss[i])
    BY <1>4, <1>6, <2>1
  <2> DEFINE a == off[i]
             c == off[n + 1]
             l == Len(ss[i])
  <2>3. a \in Nat /\ c \in Nat /\ l \in Nat /\ a + l <= c /\ q \in 1 .. l /\ c = Len(flat)
    <3>1. a \in Nat /\ c \in Nat /\ c = Len(flat)
      BY <1>4, <2>1
    <3>2. l \in Nat
      BY <1>5
    <3> QED
      BY <2>2, <3>1, <3>2
  <2> HIDE DEF a, c, l
  <2>4. a + q \in 1 .. c
    BY <2>3
  <2> QED
    BY <2>3, <2>4 DEF a
<1>8. \A p \in 1 .. Len(flat) : \E i \in 1 .. n : \E q \in 1 .. Len(ss[i]) : p = off[i] + q
  BY <1>4, <1>5, <1>6
<1>9. Spread(ss, flat, off)
  BY <1>2, <1>7, <1>8 DEF Spread, n
<1> QED
  BY <1>1, <1>9 DEF flat

\* flat has the elements of the sequences of ss and no others.
Gathers(ss, flat) ==
  /\ \A p \in 1 .. Len(flat) : \E i \in 1 .. Len(ss) : \E q \in 1 .. Len(ss[i]) :
       flat[p] = ss[i][q]
  /\ \A i \in 1 .. Len(ss) : \A q \in 1 .. Len(ss[i]) : \E p \in 1 .. Len(flat) :
       flat[p] = ss[i][q]

\* So has the concatenation.
LEMMA SpreadElements ==
  ASSUME NEW ss, NEW flat, NEW off, Spread(ss, flat, off)
  PROVE  Gathers(ss, flat)
<1>1. \A i \in 1 .. Len(ss) : \A q \in 1 .. Len(ss[i]) :
        off[i] + q \in 1 .. Len(flat) /\ flat[off[i] + q] = ss[i][q]
  BY DEF Spread, Offsets
<1>2. ASSUME NEW p \in 1 .. Len(flat)
      PROVE  \E i \in 1 .. Len(ss) : \E q \in 1 .. Len(ss[i]) : flat[p] = ss[i][q]
  <2>1. PICK i \in 1 .. Len(ss) : \E q \in 1 .. Len(ss[i]) : p = off[i] + q
    BY DEF Spread
  <2>2. PICK q \in 1 .. Len(ss[i]) : p = off[i] + q
    BY <2>1
  <2>3. flat[p] = ss[i][q]
    BY <1>1, <2>2
  <2> QED
    BY <2>3
<1>3. ASSUME NEW i \in 1 .. Len(ss), NEW q \in 1 .. Len(ss[i])
      PROVE  \E p \in 1 .. Len(flat) : flat[p] = ss[i][q]
  BY <1>1
<1> QED
  BY <1>2, <1>3 DEF Gathers

-----------------------------------------------------------------------------
(* The shape of the tree.                                                  *)

\* The powers of two, as FirstStream counts them.
IsPower(power, S) == power = [k \in S |-> IF k = 0 THEN 1 ELSE 2 * power[k - 1]]

\* The powers of two up to any n are a function.
LEMMA PowersTo == ASSUME NEW n \in Nat PROVE \E g : IsPower(g, 0 .. n)
<1> DEFINE B == {k \in Nat : ~ \E g : IsPower(g, 0 .. k)}
<1> SUFFICES ASSUME B # {} PROVE FALSE
  OBVIOUS
<1>1. PICK m \in B : \A k \in B : m <= k
  <2>1. B \in SUBSET Nat
    OBVIOUS
  <2> HIDE DEF B
  <2> QED
    BY <2>1, LeastNatural
<1>2. m # 0
  <2>1. IsPower([k \in 0 .. 0 |-> 1], 0 .. 0)
    BY DEF IsPower
  <2> QED
    BY <2>1, <1>1
<1>3. PICK g : IsPower(g, 0 .. m - 1)
  BY <1>1, <1>2
<1> DEFINE h == [k \in 0 .. m |-> IF k = m THEN 2 * g[m - 1] ELSE g[k]]
<1>4. ASSUME NEW k \in 0 .. m PROVE h[k] = IF k = 0 THEN 1 ELSE 2 * h[k - 1]
  <2>1. m \in Nat \ {0}
    BY <1>1, <1>2
  <2>2. k # 0 => h[k - 1] = g[k - 1]
    BY <2>1
  <2>3. CASE k = m
    BY <2>1, <2>2, <2>3
  <2>4. CASE k # m
    <3>1. k \in 0 .. m - 1 /\ h[k] = g[k]
      BY <2>1, <2>4
    <3>2. g[k] = IF k = 0 THEN 1 ELSE 2 * g[k - 1]
      BY <1>3, <3>1 DEF IsPower
    <3> QED
      BY <2>2, <3>1, <3>2
  <2> QED
    BY <2>3, <2>4
<1>5. IsPower(h, 0 .. m)
  <2>1. h = [k \in 0 .. m |-> h[k]]
    OBVIOUS
  <2> HIDE DEF h
  <2> QED
    BY <1>4, <2>1 DEF IsPower
<1> HIDE DEF h
<1> QED
  BY <1>1, <1>5

\* Two such functions agree where both are defined.
LEMMA PowersAgree ==
  ASSUME NEW n \in Nat, NEW p \in Nat, NEW g, NEW h, IsPower(g, 0 .. n), IsPower(h, 0 .. p),
         NEW i \in 0 .. n, i <= p
  PROVE  g[i] = h[i]
<1> DEFINE B == {k \in 0 .. i : g[k] # h[k]}
<1> SUFFICES ASSUME B # {} PROVE FALSE
  OBVIOUS
<1>1. PICK m \in B : \A k \in B : m <= k
  <2>1. B \in SUBSET Nat
    OBVIOUS
  <2> HIDE DEF B
  <2> QED
    BY <2>1, LeastNatural
<1>2. /\ g[m] = IF m = 0 THEN 1 ELSE 2 * g[m - 1]
      /\ h[m] = IF m = 0 THEN 1 ELSE 2 * h[m - 1]
  <2>1. m \in 0 .. n /\ m \in 0 .. p
    BY <1>1
  <2> QED
    BY <2>1 DEF IsPower
<1>3. m # 0
  BY <1>1, <1>2
<1>4. g[m - 1] = h[m - 1]
  BY <1>1, <1>3
<1> QED
  BY <1>1, <1>2, <1>3, <1>4

\* All powers of two are a function, so that the one FirstStream chooses is it.
LEMMA AllPowers == \E g : IsPower(g, Nat)
<1> DEFINE G(k) == CHOOSE g : IsPower(g, 0 .. k)
           power == [k \in Nat |-> G(k)[k]]
<1>1. ASSUME NEW k \in Nat PROVE IsPower(G(k), 0 .. k)
  BY PowersTo
<1> HIDE DEF G
<1>2. ASSUME NEW k \in Nat PROVE power[k] = IF k = 0 THEN 1 ELSE 2 * power[k - 1]
  <2>1. G(k)[k] = IF k = 0 THEN 1 ELSE 2 * G(k)[k - 1]
    <3>1. k \in 0 .. k
      OBVIOUS
    <3> QED
      BY <1>1, <3>1 DEF IsPower
  <2>2. k # 0 => G(k)[k - 1] = G(k - 1)[k - 1]
    <3> SUFFICES ASSUME k # 0 PROVE G(k)[k - 1] = G(k - 1)[k - 1]
      OBVIOUS
    <3> DEFINE j == k - 1
               g == G(k)
               h == G(j)
    <3>1. j \in Nat /\ IsPower(g, 0 .. k) /\ IsPower(h, 0 .. j) /\ j \in 0 .. k /\ j <= j
      BY <1>1
    <3> HIDE DEF j, g, h
    <3>2. g[j] = h[j]
      BY <3>1, PowersAgree
    <3> QED
      BY <3>2 DEF j, g, h
  <2> QED
    BY <2>1, <2>2
<1>3. IsPower(power, Nat)
  <2>1. power = [k \in Nat |-> power[k]]
    OBVIOUS
  <2> HIDE DEF power
  <2> QED
    BY <1>2, <2>1 DEF IsPower
<1> HIDE DEF power
<1> QED
  BY <1>3

SizePerLevel(power, n) == CHOOSE p \in {power[k] : k \in 0 .. n} : p >= n /\ p < 2 * n

\* FirstStream, over the powers of two.
LEMMA FirstStreamIs ==
  ASSUME NEW n
  PROVE  FirstStream(n) =
           LET size == SizePerLevel(CHOOSE power : IsPower(power, Nat), n)
               half == size \div 2
           IN  IF n = size THEN size - 1 ELSE (size - 1 - half) + (n - half)
  BY DEF FirstStream, IsPower, SizePerLevel

\* A power of two is 1 or even.
LEMMA EvenPowers ==
  ASSUME NEW g, IsPower(g, Nat), NEW k \in Nat
  PROVE  g[k] \in Nat \ {0} /\ (k # 0 => g[k] = 2 * g[k - 1])
<1> DEFINE B == {i \in Nat : g[i] \notin Nat \ {0}}
<1>0. g[0] = 1 /\ \A i \in Nat : i # 0 => g[i] = 2 * g[i - 1]
  BY DEF IsPower
<1>1. B = {}
  <2> SUFFICES ASSUME B # {} PROVE FALSE
    OBVIOUS
  <2>1. PICK m \in B : \A i \in B : m <= i
    <3>1. B \in SUBSET Nat
      OBVIOUS
    <3> HIDE DEF B
    <3> QED
      BY <3>1, LeastNatural
  <2>2. m # 0
    BY <1>0, <2>1
  <2>3. g[m - 1] \in Nat \ {0}
    BY <2>1, <2>2
  <2> QED
    BY <1>0, <2>1, <2>2, <2>3
<1> QED
  BY <1>0, <1>1

\* For every n there is a power of two that is at least n and less than 2 * n.
LEMMA PowerBetween ==
  ASSUME NEW g, IsPower(g, Nat), NEW n \in Nat \ {0}
  PROVE  \E k \in 0 .. n - 1 : g[k] >= n /\ g[k] < 2 * n
<1> DEFINE B == {i \in Nat \ {0} : ~ \E k \in 0 .. i - 1 : g[k] >= i /\ g[k] < 2 * i}
<1> SUFFICES ASSUME B # {} PROVE FALSE
  OBVIOUS
<1>1. PICK m \in B : \A i \in B : m <= i
  <2>1. B \in SUBSET Nat
    OBVIOUS
  <2> HIDE DEF B
  <2> QED
    BY <2>1, LeastNatural
<1>2. m # 1
  <2>1. g[0] = 1
    BY DEF IsPower
  <2> QED
    BY <1>1, <2>1
<1>3. PICK k \in 0 .. (m - 1) - 1 : g[k] >= m - 1 /\ g[k] < 2 * (m - 1)
  BY <1>1, <1>2
<1>4. g[k] \in Nat /\ g[k + 1] = 2 * g[k] /\ k \in Nat /\ m \in Nat /\ m > 1
  <2>1. k \in Nat /\ k + 1 \in Nat /\ (k + 1) - 1 = k /\ m \in Nat /\ m > 1
    BY <1>1, <1>2
  <2> QED
    BY <2>1, EvenPowers
<1>5. CASE g[k] >= m
  BY <1>1, <1>3, <1>4, <1>5
<1>6. CASE g[k] = m - 1
  BY <1>1, <1>3, <1>4, <1>6
<1> QED
  BY <1>3, <1>4, <1>5, <1>6

\* The tree has one inner node less than there are streams.
LEMMA InnerNodes == ASSUME NEW n \in Nat \ {0} PROVE FirstStream(n) = n - 1
<1> DEFINE g == CHOOSE power : IsPower(power, Nat)
           size == SizePerLevel(g, n)
<1>1. IsPower(g, Nat)
  BY AllPowers
<1> HIDE DEF g
<1>2. PICK k \in 0 .. n : size = g[k] /\ size >= n /\ size < 2 * n
  <2>1. \E p \in {g[k] : k \in 0 .. n} : p >= n /\ p < 2 * n
    BY <1>1, PowerBetween
  <2> QED
    BY <2>1 DEF SizePerLevel
<1> HIDE DEF size
<1>3. size \in Nat /\ (k # 0 => size = 2 * g[k - 1] /\ g[k - 1] \in Nat) /\ (k = 0 => size = 1)
  <2>1. k \in Nat /\ (k # 0 => k - 1 \in Nat)
    OBVIOUS
  <2>2. g[0] = 1
    BY <1>1 DEF IsPower
  <2> QED
    BY <1>1, <1>2, <2>1, <2>2, EvenPowers
<1>4. k # 0 => size - (size \div 2) = size \div 2
  BY <1>3
<1>5. k = 0 => n = size
  BY <1>2, <1>3
<1>6. FirstStream(n) = IF n = size THEN size - 1
                       ELSE (size - 1 - size \div 2) + (n - size \div 2)
  BY FirstStreamIs DEF size, g
<1>7. n # size => size \div 2 \in Nat /\ size - (size \div 2) = size \div 2
  BY <1>3, <1>5
<1> QED
  BY <1>3, <1>6, <1>7

\* The way up from node a to the root, node by node.
Climbs(a, u, K) ==
  /\ K \in Nat /\ u \in [0 .. K -> Nat] /\ u[0] = a /\ u[K] = 0
  /\ \A k \in 1 .. K : u[k - 1] > 0 /\ u[k] = Parent(u[k - 1])

\* PathFrom's recursive function.
IsPath(up, S) ==
  up = [node \in S |-> IF node = 0 THEN <<>> ELSE <<Parent(node)>> \o up[Parent(node)]]

\* A node that is not the root is one of the two children of its parent, which comes first.
LEMMA ParentIsLess ==
  ASSUME NEW v \in Nat \ {0}
  PROVE  Parent(v) \in Nat /\ Parent(v) < v /\ (v = 2 * Parent(v) + 1 \/ v = 2 * Parent(v) + 2)
  BY DEF Parent

\* The paths from the nodes up to any n are a function.
LEMMA PathsTo == ASSUME NEW n \in Nat PROVE \E up : IsPath(up, 0 .. n)
<1> DEFINE B == {k \in Nat : ~ \E g : IsPath(g, 0 .. k)}
<1> SUFFICES ASSUME B # {} PROVE FALSE
  OBVIOUS
<1>1. PICK m \in B : \A k \in B : m <= k
  <2>1. B \in SUBSET Nat
    OBVIOUS
  <2> HIDE DEF B
  <2> QED
    BY <2>1, LeastNatural
<1>2. m # 0
  <2>1. IsPath([k \in 0 .. 0 |-> <<>>], 0 .. 0)
    BY DEF IsPath
  <2> QED
    BY <2>1, <1>1
<1>3. PICK g : IsPath(g, 0 .. m - 1)
  BY <1>1, <1>2
<1> DEFINE h == [k \in 0 .. m |-> IF k = m THEN <<Parent(m)>> \o g[Parent(m)] ELSE g[k]]
<1>4. ASSUME NEW k \in 0 .. m
      PROVE  h[k] = IF k = 0 THEN <<>> ELSE <<Parent(k)>> \o h[Parent(k)]
  <2>1. m \in Nat \ {0}
    BY <1>1, <1>2
  <2>2. k # 0 => Parent(k) \in 0 .. m /\ Parent(k) # m
    BY <2>1, ParentIsLess
  <2>5. k # 0 => h[Parent(k)] = g[Parent(k)]
    BY <2>2
  <2>3. CASE k = m
    <3>1. h[k] = <<Parent(k)>> \o g[Parent(k)]
      BY <2>3
    <3> HIDE DEF h
    <3> QED
      BY <2>1, <2>5, <2>3, <3>1
  <2>4. CASE k # m
    <3>1. k \in 0 .. m - 1 /\ h[k] = g[k]
      BY <2>1, <2>4
    <3>2. g[k] = IF k = 0 THEN <<>> ELSE <<Parent(k)>> \o g[Parent(k)]
      BY <1>3, <3>1 DEF IsPath
    <3> HIDE DEF h
    <3> QED
      BY <2>5, <3>1, <3>2
  <2> QED
    BY <2>3, <2>4
<1>5. IsPath(h, 0 .. m)
  <2>1. h = [k \in 0 .. m |-> h[k]]
    OBVIOUS
  <2> HIDE DEF h
  <2> QED
    BY <1>4, <2>1 DEF IsPath
<1> HIDE DEF h
<1> QED
  BY <1>1, <1>5

\* A path p is the way up along u.
Along(p, u, K) == p \in Seq(Nat) /\ Len(p) = K /\ \A k \in 1 .. K : p[k] = u[k]

\* Such a path climbs from parent to parent to the root.
LEMMA PathClimbs ==
  ASSUME NEW n \in Nat, NEW up, IsPath(up, 0 .. n), NEW a \in 0 .. n
  PROVE  \E K, u : Climbs(a, u, K) /\ Along(up[a], u, K)
<1> DEFINE Good(v) == \E K, u : Climbs(v, u, K) /\ Along(up[v], u, K)
           B == {v \in 0 .. n : ~ Good(v)}
<1> SUFFICES ASSUME B # {} PROVE FALSE
  OBVIOUS
<1>1. PICK m \in B : \A v \in B : m <= v
  <2>1. B \in SUBSET Nat
    OBVIOUS
  <2> HIDE DEF B
  <2> QED
    BY <2>1, LeastNatural
<1>2. m # 0
  <2> SUFFICES ASSUME m = 0 PROVE FALSE
    OBVIOUS
  <2>1. up[0] = <<>>
    BY DEF IsPath
  <2>2. Climbs(0, [k \in 0 .. 0 |-> 0], 0)
    BY DEF Climbs
  <2>3. Along(<<>>, [k \in 0 .. 0 |-> 0], 0)
    BY EmptySeq DEF Along
  <2> QED
    BY <1>1, <2>1, <2>2, <2>3
<1> DEFINE b == Parent(m)
<1>3. b \in 0 .. n /\ b < m /\ m \in Nat \ {0} /\ m \in 0 .. n
  BY <1>1, <1>2, ParentIsLess
<1>4. Good(b)
  BY <1>1, <1>3
<1>5. up[m] = <<b>> \o up[b]
  BY <1>2, <1>3 DEF IsPath
<1> HIDE DEF b
<1>6. PICK K, u : Climbs(b, u, K) /\ Along(up[b], u, K)
  BY <1>4
<1> DEFINE w == [k \in 0 .. K + 1 |-> IF k = 0 THEN m ELSE u[k - 1]]
<1>7. K \in Nat /\ u \in [0 .. K -> Nat] /\ u[0] = b /\ u[K] = 0
      /\ \A k \in 1 .. K : u[k - 1] > 0 /\ u[k] = Parent(u[k - 1])
  BY <1>6 DEF Climbs
<1>8. Climbs(m, w, K + 1)
  <2>1. w \in [0 .. K + 1 -> Nat] /\ w[0] = m /\ w[K + 1] = 0
    BY <1>3, <1>7
  <2>2. ASSUME NEW k \in 1 .. K + 1 PROVE w[k - 1] > 0 /\ w[k] = Parent(w[k - 1])
    <3>1. CASE k = 1
      BY <1>3, <1>7, <3>1 DEF b
    <3>2. CASE k # 1
      <4>1. k - 1 \in 1 .. K /\ k \in 0 .. K + 1 /\ k - 1 \in 0 .. K + 1 /\ k # 0 /\ k - 1 # 0
        BY <1>7, <3>2
      <4>2. w[k] = u[k - 1] /\ w[k - 1] = u[(k - 1) - 1]
        BY <4>1
      <4> HIDE DEF w
      <4> QED
        BY <1>7, <4>1, <4>2
    <3> QED
      BY <3>1, <3>2
  <2> HIDE DEF w
  <2> QED
    BY <1>7, <2>1, <2>2 DEF Climbs
<1>9. Along(up[m], w, K + 1)
  <2> DEFINE one == <<b>>
             t   == up[b]
             p   == one \o t
  <2>1. t \in Seq(Nat) /\ Len(t) = K /\ \A k \in 1 .. K : t[k] = u[k]
    BY <1>6 DEF Along
  <2>2. one \in Seq(Nat) /\ Len(one) = 1 /\ one[1] = b
    BY <1>3
  <2>5. up[m] = p
    BY <1>5
  <2>6. w[1] = u[0] /\ \A k \in 2 .. K + 1 : w[k] = u[k - 1]
    BY <1>7
  <2> HIDE DEF one, t
  <2>3. p \in Seq(Nat) /\ Len(p) = Len(one) + Len(t)
        /\ \A k \in 1 .. Len(one) + Len(t) : p[k] = IF k <= Len(one) THEN one[k]
                                                    ELSE t[k - Len(one)]
    BY <2>1, <2>2, ConcatProperties
  <2> HIDE DEF w, p
  <2>4. ASSUME NEW k \in 1 .. K + 1 PROVE p[k] = w[k]
    <3>0. k \in 1 .. Len(one) + Len(t)
      BY <1>7, <2>1, <2>2
    <3>1. CASE k = 1
      BY <1>7, <2>2, <2>3, <2>6, <3>0, <3>1
    <3>2. CASE k # 1
      <4>1. k - 1 \in 1 .. K /\ k \in 2 .. K + 1 /\ ~ (k <= 1)
        BY <1>7, <3>2
      <4>2. p[k] = t[k - 1] /\ w[k] = u[k - 1]
        BY <2>2, <2>3, <2>6, <3>0, <4>1
      <4> QED
        BY <2>1, <4>1, <4>2
    <3> QED
      BY <3>1, <3>2
  <2> QED
    BY <1>7, <2>1, <2>2, <2>3, <2>4, <2>5 DEF Along
<1> HIDE DEF w
<1> QED
  BY <1>1, <1>8, <1>9

\* PathFrom, over the paths of all nodes.
LEMMA PathFromIs ==
  ASSUME NEW n, NEW s
  PROVE  PathFrom(n, s) = (CHOOSE up : IsPath(up, 0 .. 2 * n))[FirstStream(n) + s]
  BY DEF PathFrom, IsPath

\* PathFrom goes up from the leaf of stream s to the root.
LEMMA PathFacts ==
  ASSUME NEW n \in Nat \ {0}, NEW s \in 0 .. n - 1
  PROVE  \E K, u : Climbs(n - 1 + s, u, K) /\ Along(PathFrom(n, s), u, K)
<1> DEFINE up == CHOOSE up : IsPath(up, 0 .. 2 * n)
           a == n - 1 + s
<1>1. IsPath(up, 0 .. 2 * n)
  BY PathsTo
<1> HIDE DEF up
<1>2. a \in 0 .. 2 * n /\ 2 * n \in Nat
  OBVIOUS
<1>3. PathFrom(n, s) = up[a]
  BY InnerNodes, PathFromIs DEF up
<1> HIDE DEF a
<1>4. \E K, u : Climbs(a, u, K) /\ Along(up[a], u, K)
  BY <1>1, <1>2, PathClimbs
<1> QED
  BY <1>3, <1>4 DEF a

\* The nodes of such a way get smaller.
LEMMA ClimbDecreases ==
  ASSUME NEW a, NEW K, NEW u, Climbs(a, u, K), NEW i \in 0 .. K, NEW j \in 0 .. K, i < j
  PROVE  u[j] < u[i]
<1> DEFINE B == {k \in i + 1 .. K : ~ (u[k] < u[i])}
<1> SUFFICES ASSUME B # {} PROVE FALSE
  <2>1. j \in i + 1 .. K
    BY DEF Climbs
  <2> QED
    BY <2>1
<1>1. PICK m \in B : \A k \in B : m <= k
  <2>1. B \in SUBSET Nat
    BY DEF Climbs
  <2> HIDE DEF B
  <2> QED
    BY <2>1, LeastNatural
<1>2. /\ m \in 1 .. K /\ m - 1 \in 0 .. K /\ m - 1 >= i /\ u[m - 1] \in Nat \ {0} /\ u[i] \in Nat
      /\ u[m] = Parent(u[m - 1])
  BY <1>1 DEF Climbs
<1>3. u[m] \in Nat /\ u[m] < u[m - 1]
  BY <1>2, ParentIsLess
<1>4. CASE m - 1 = i
  BY <1>1, <1>3, <1>4
<1>5. CASE m - 1 # i
  <2>1. m - 1 \in i + 1 .. K /\ m - 1 \notin B
    BY <1>1, <1>2, <1>5 DEF Climbs
  <2> QED
    BY <1>1, <1>2, <1>3, <2>1
<1> QED
  BY <1>4, <1>5

\* So a leaf is below one child of a node only.
LEMMA OneChild ==
  ASSUME NEW a, NEW K, NEW u, Climbs(a, u, K), NEW i \in 0 .. K, NEW j \in 0 .. K, NEW v \in Nat,
         u[i] = LeftChild(v), u[j] = RightChild(v)
  PROVE  FALSE
<1>1. /\ K \in Nat /\ u \in [0 .. K -> Nat] /\ u[K] = 0
      /\ \A k \in 1 .. K : u[k - 1] > 0 /\ u[k] = Parent(u[k - 1])
  BY DEF Climbs
<1>2. u[i] = 2 * v + 1 /\ u[j] = 2 * v + 2
  BY DEF LeftChild, RightChild
<1>3. i + 1 \in 1 .. K /\ j + 1 \in 1 .. K /\ i # j
  BY <1>1, <1>2
<1>4. u[i + 1] = v /\ u[j + 1] = v
  <2>1. u[i + 1] = Parent(u[(i + 1) - 1]) /\ u[j + 1] = Parent(u[(j + 1) - 1])
    BY <1>1, <1>3
  <2>2. (i + 1) - 1 = i /\ (j + 1) - 1 = j
    OBVIOUS
  <2> QED
    BY <1>2, <2>1, <2>2 DEF Parent
<1>5. i + 1 \in 0 .. K /\ j + 1 \in 0 .. K /\ (i + 1 < j + 1 \/ j + 1 < i + 1)
  BY <1>1, <1>3
<1> QED
  BY <1>4, <1>5, ClimbDecreases

\* What comes up at the end of the path h.
Upwards(head, s, h) == FoldLeft(LAMBDA c, node : Climb(head, c, node), s, h)

\* Upwards folds over the positions of its sequence, the greatest last.  A step of
\* it, and the function it defines on all subsets of T.
ClimbStep(head, s, h, g, T) == IF T = {} THEN s ELSE Climb(head, g[T \ {Max(T)}], h[Max(T)])

IsClimbing(head, s, h, g, T) == g = [t \in SUBSET T |-> ClimbStep(head, s, h, g, t)]

\* Upwards is that fold.
LEMMA UpwardsIsClimbing ==
  ASSUME NEW head, NEW s, NEW h
  PROVE  Upwards(head, s, h) = (CHOOSE g : IsClimbing(head, s, h, g, DOMAIN h))[DOMAIN h]
  BY DEF Upwards, FoldLeft, MapThenFoldSet, IsClimbing, ClimbStep

\* Two such functions agree where both are defined.
LEMMA OneClimbing ==
  ASSUME NEW head, NEW s, NEW h, NEW n, NEW T, Upto(n, T), NEW U,
         NEW f, NEW g, IsClimbing(head, s, h, f, T), IsClimbing(head, s, h, g, U),
         NEW t \in SUBSET T, t \in SUBSET U
  PROVE  f[t] = g[t]
<1> DEFINE B == {r \in SUBSET t : f[r] # g[r]}
<1> SUFFICES ASSUME B # {} PROVE FALSE
  OBVIOUS
<1>1. IsFiniteSet(t)
  <2>1. IsFiniteSet(1 .. n) /\ t \in SUBSET (1 .. n)
    BY FS_Interval DEF Upto
  <2> QED
    BY <2>1, FS_Subset
<1>2. PICK m \in B : \A r \in B : r \subseteq m => r = m
  <2>1. B \in SUBSET SUBSET t
    OBVIOUS
  <2> HIDE DEF B
  <2> QED
    BY <1>1, <2>1, SmallestSubset
<1>3. f[m] = ClimbStep(head, s, h, f, m) /\ g[m] = ClimbStep(head, s, h, g, m)
  BY DEF IsClimbing
<1>4. CASE m = {}
  BY <1>3, <1>4 DEF ClimbStep
<1>5. CASE m # {}
  <2>1. Max(m) \in m
    BY <1>5, GreatestOf DEF Upto
  <2>2. f[m \ {Max(m)}] = g[m \ {Max(m)}]
    BY <1>2, <2>1
  <2> QED
    BY <1>3, <1>5, <2>2 DEF ClimbStep
<1> QED
  BY <1>4, <1>5

\* There is one for every number of batches.
LEMMA SomeClimbing ==
  ASSUME NEW head, NEW s, NEW h, NEW n \in Nat PROVE \E g : IsClimbing(head, s, h, g, 1 .. n)
<1> DEFINE N == 1 .. n
           B == {T \in SUBSET N : ~ \E g : IsClimbing(head, s, h, g, T)}
           G(T) == CHOOSE g : IsClimbing(head, s, h, g, T)
<1> SUFFICES ASSUME B # {} PROVE FALSE
  OBVIOUS
<1>1. PICK m \in B : \A r \in B : r \subseteq m => r = m
  <2>1. B \in SUBSET SUBSET N /\ IsFiniteSet(N)
    BY FS_Interval
  <2> HIDE DEF B, N
  <2> QED
    BY <2>1, SmallestSubset
<1> DEFINE rest(t) == t \ {Max(t)}
           val == [t \in SUBSET m |->
                     IF t # m THEN G(t)[t]
                     ELSE IF t = {} THEN s ELSE Climb(head, G(rest(t))[rest(t)], h[Max(t)])]
<1>2. ASSUME NEW t \in SUBSET m, t # m PROVE IsClimbing(head, s, h, G(t), t)
  BY <1>1, <1>2
<1>3. ASSUME NEW t \in SUBSET m PROVE val[t] = ClimbStep(head, s, h, val, t)
  <2>1. CASE t = {}
    <3>1. CASE t # m
      <4>1. val[t] = G(t)[t]
        BY <3>1
      <4>2. IsClimbing(head, s, h, G(t), t)
        BY <3>1, <1>2
      <4> HIDE DEF G
      <4>3. G(t)[t] = ClimbStep(head, s, h, G(t), t)
        BY <4>2 DEF IsClimbing
      <4> QED
        BY <4>1, <4>3, <2>1 DEF ClimbStep
    <3> QED
      BY <3>1, <2>1 DEF ClimbStep
  <2>2. CASE t # {}
    <3>0. t \in SUBSET N /\ m \in SUBSET N
      BY <1>1
    <3>1. Max(t) \in t /\ rest(t) \in SUBSET m /\ rest(t) # m /\ rest(t) \in SUBSET t
      BY <2>2, <3>0, GreatestOf
    <3>2. val[rest(t)] = G(rest(t))[rest(t)]
      BY <3>1
    <3>3. CASE t = m
      BY <3>2, <3>3, <2>2 DEF ClimbStep
    <3>4. CASE t # m
      <4>1. IsClimbing(head, s, h, G(t), t) /\ IsClimbing(head, s, h, G(rest(t)), rest(t))
        BY <3>1, <3>4, <1>2
      <4>2. val[t] = G(t)[t]
        BY <3>4
      <4> HIDE DEF G, rest
      <4>3. G(t)[rest(t)] = G(rest(t))[rest(t)]
        <5> DEFINE r == rest(t)
                   f1 == G(t)
                   f2 == G(r)
        <5>1. IsClimbing(head, s, h, f1, t) /\ IsClimbing(head, s, h, f2, r) /\ Upto(n, t)
              /\ r \in SUBSET t /\ r \in SUBSET r
          BY <3>0, <3>1, <4>1 DEF Upto
        <5> HIDE DEF r, f1, f2, N
        <5>2. f1[r] = f2[r]
          BY <5>1, OneClimbing
        <5> QED
          BY <5>2 DEF r, f1, f2
      <4>4. G(t)[t] = ClimbStep(head, s, h, G(t), t)
        BY <4>1 DEF IsClimbing
      <4> QED
        BY <3>2, <2>2, <4>2, <4>3, <4>4 DEF ClimbStep, rest
    <3> QED
      BY <3>3, <3>4
  <2> QED
    BY <2>1, <2>2
<1> HIDE DEF G
<1>4. val = [t \in SUBSET m |-> ClimbStep(head, s, h, val, t)]
  <2>1. val = [t \in SUBSET m |-> val[t]]
    OBVIOUS
  <2> HIDE DEF val
  <2> QED
    BY <2>1, <1>3
<1> HIDE DEF val
<1>5. IsClimbing(head, s, h, val, m)
  BY <1>4 DEF IsClimbing
<1> QED
  BY <1>1, <1>5

\* f goes through the stores while the batches of h are freed one by one.
ClimbsEach(head, s, h, f) ==
  /\ DOMAIN f = 0 .. Len(h) /\ f[0] = s
  /\ \A i \in 1 .. Len(h) : f[i] = Climb(head, f[i - 1], h[i])

\* Upwards frees the batches of a sequence one after the other.
LEMMA UpwardsClimbs ==
  ASSUME NEW head, NEW s, NEW h, Len(h) \in Nat, DOMAIN h = 1 .. Len(h)
  PROVE  \E f : ClimbsEach(head, s, h, f) /\ Upwards(head, s, h) = f[Len(h)]
<1> DEFINE n == Len(h)
           g == CHOOSE g : IsClimbing(head, s, h, g, DOMAIN h)
           f == [i \in 0 .. n |-> g[1 .. i]]
<1>1. IsClimbing(head, s, h, g, 1 .. n) /\ Upwards(head, s, h) = g[1 .. n]
  BY SomeClimbing, UpwardsIsClimbing
<1> HIDE DEF g
<1>2. n \in Nat
  OBVIOUS
<1> HIDE DEF n
<1>3. ASSUME NEW i \in 0 .. n
      PROVE  g[1 .. i] = ClimbStep(head, s, h, g, 1 .. i)
  <2>1. (1 .. i) \in SUBSET (1 .. n)
    BY <1>2
  <2> QED
    BY <1>1, <2>1 DEF IsClimbing
<1>4. f[0] = s
  <2>1. 1 .. 0 = {} /\ 0 \in 0 .. n
    BY <1>2
  <2>2. g[1 .. 0] = s
    BY <1>3, <2>1 DEF ClimbStep
  <2> QED
    BY <2>1, <2>2
<1>5. ASSUME NEW i \in 1 .. n PROVE f[i] = Climb(head, f[i - 1], h[i])
  <2>1. /\ (1 .. i) \in SUBSET (1 .. n) /\ 1 .. i # {} /\ i \in 1 .. i
        /\ i \in 0 .. n /\ i - 1 \in 0 .. n
    BY <1>2, SMTT(30)
  <2>2. Max(1 .. i) = i
    <3>1. Max(1 .. i) \in 1 .. i /\ i <= Max(1 .. i)
      BY <1>2, <2>1, GreatestOf
    <3> QED
      BY <1>2, <3>1
  <2>3. (1 .. i) \ {i} = 1 .. (i - 1)
    BY <1>2
  <2>4. g[1 .. i] = Climb(head, g[1 .. (i - 1)], h[i])
    BY <1>3, <2>1, <2>2, <2>3 DEF ClimbStep
  <2> QED
    BY <2>1, <2>4
<1>6. f[n] = g[1 .. n] /\ DOMAIN f = 0 .. n
  BY <1>2
<1> HIDE DEF f
<1>7. ClimbsEach(head, s, h, f)
  BY <1>4, <1>5, <1>6 DEF ClimbsEach, n
<1> QED
  BY <1>1, <1>6, <1>7 DEF n


\* Propagate: the last stream is played against each node of its way up.
LEMMA PropagateIs ==
  ASSUME NEW head, NEW tree
  PROVE  Propagate(head, tree) =
           LET last  == tree.last
               start == [tree |-> tree, value |-> IF head[last] = NoData THEN EMPTY ELSE last,
                         equal |-> FALSE]
               end   == Upwards(head, start, PathFrom(Cardinality(DOMAIN head), last))
           IN  [tree |-> [end.tree EXCEPT !.last = end.value], equal |-> end.equal]
  BY DEF Propagate, Upwards

\* The function of First: a step of it, and what it is on the nodes S.
WinStep(head, first, withEqual, win, node) ==
  IF node >= first
  THEN [s |-> IF head[node - first] = NoData THEN EMPTY ELSE node - first, equal |-> FALSE]
  ELSE LET l == win[LeftChild(node)]
           r == win[RightChild(node)]
       IN  IF l.s = EMPTY THEN r
           ELSE IF r.s = EMPTY THEN l
           ELSE IF ~LeftWins(head, l.s, r.s, withEqual) THEN r
           ELSE [l EXCEPT !.equal = @ \/ head[l.s] = head[r.s]]

IsWinning(head, first, withEqual, win, S) ==
  win = [node \in S |-> WinStep(head, first, withEqual, win, node)]

\* A function of the winners of all nodes exists, so that the one First chooses is one.
LEMMA SomeWinning ==
  ASSUME NEW head, NEW first \in Nat, NEW withEqual
  PROVE  \E win : IsWinning(head, first, withEqual, win, 0 .. 2 * first)
<1> DEFINE N == 2 * first
           From(k) == k .. N
           B == {k \in 0 .. N + 1 : ~ \E g : IsWinning(head, first, withEqual, g, From(k))}
<1>0. N \in Nat
  OBVIOUS
<1> SUFFICES ASSUME B # {} PROVE FALSE
  <2>1. 0 \in 0 .. N + 1 /\ 0 \notin B
    BY <1>0
  <2>2. From(0) = 0 .. 2 * first
    OBVIOUS
  <2> HIDE DEF From, N
  <2> QED
    BY <2>1, <2>2
<1>1. PICK m \in B : \A k \in B : k <= m
  <2>1. B \in SUBSET (0 .. N + 1) /\ N + 1 \in Nat
    OBVIOUS
  <2> HIDE DEF B, N
  <2> QED
    BY <2>1, GreatestNatural
<1>2. m # N + 1
  <2>1. From(N + 1) = {}
    BY <1>0
  <2>2. IsWinning(head, first, withEqual, [k \in {} |-> 0], {})
    BY DEF IsWinning
  <2> QED
    BY <1>1, <2>1, <2>2
<1>3. m + 1 \in 0 .. N + 1 /\ m + 1 \notin B /\ m \in 0 .. N
  BY <1>0, <1>1, <1>2
<1>4. PICK g : IsWinning(head, first, withEqual, g, From(m + 1))
  BY <1>3
<1> DEFINE h == [k \in From(m) |-> IF k = m THEN WinStep(head, first, withEqual, g, m) ELSE g[k]]
<1>5. ASSUME NEW k \in From(m) PROVE h[k] = WinStep(head, first, withEqual, h, k)
  <2>1. k < first => /\ LeftChild(k) \in From(m + 1) /\ RightChild(k) \in From(m + 1)
                     /\ LeftChild(k) \in From(m) /\ RightChild(k) \in From(m)
                     /\ LeftChild(k) # m /\ RightChild(k) # m
    BY <1>3 DEF LeftChild, RightChild
  <2>2. k < first => h[LeftChild(k)] = g[LeftChild(k)] /\ h[RightChild(k)] = g[RightChild(k)]
    BY <2>1
  <2>3. h[k] = WinStep(head, first, withEqual, g, k)
    <3>1. CASE k = m
      BY <3>1
    <3>2. CASE k # m
      <4>1. k \in From(m + 1) /\ h[k] = g[k]
        BY <1>3, <3>2
      <4> QED
        BY <1>4, <4>1 DEF IsWinning
    <3> QED
      BY <3>1, <3>2
  <2>4. k \in Int
    BY <1>3
  <2> HIDE DEF h
  <2>5. CASE k >= first
    BY <2>3, <2>5 DEF WinStep
  <2>6. CASE k < first
    BY <2>2, <2>3, <2>6 DEF WinStep
  <2> QED
    BY <2>4, <2>5, <2>6
<1>6. IsWinning(head, first, withEqual, h, From(m))
  <2>1. h = [k \in From(m) |-> h[k]]
    OBVIOUS
  <2> HIDE DEF h, From
  <2> QED
    BY <1>5, <2>1 DEF IsWinning
<1> HIDE DEF h
<1> QED
  BY <1>1, <1>6

\* First in terms of that function.
Loser(win, node) == IF win[node].s = win[LeftChild(node)].s THEN win[RightChild(node)]
                                                            ELSE win[LeftChild(node)]
IsPlayed(win, node) == win[LeftChild(node)].s # EMPTY /\ win[RightChild(node)].s # EMPTY

BuiltTree(tree, win, withEqual) ==
  [values |-> [node \in DOMAIN tree.values |->
                 IF IsPlayed(win, node) THEN Loser(win, node).s ELSE tree.values[node]],
   equals |-> [node \in DOMAIN tree.equals |->
                 IF withEqual /\ IsPlayed(win, node) THEN Loser(win, node).equal
                                                     ELSE tree.equals[node]],
   last   |-> win[0].s]

\* First: the tree built from the winners of all nodes.
LEMMA FirstIs ==
  ASSUME NEW head, NEW tree, NEW withEqual
  PROVE  First(head, tree, withEqual) =
           LET first == FirstStream(Cardinality(DOMAIN head))
               win == CHOOSE win : IsWinning(head, first, withEqual, win, 0 .. 2 * first)
           IN  [tree  |-> BuiltTree(tree, win, withEqual), equal |-> withEqual /\ win[0].equal]
  BY DEF First, IsWinning, WinStep, Loser, IsPlayed, BuiltTree

-----------------------------------------------------------------------------
(* The tournament.                                                         *)

\* The leaf of stream s is below node v.
Below(n, s, v) == \A K, u : Climbs(n - 1 + s, u, K) => \E k \in 0 .. K : u[k] = v

\* At a node the winner w of child c beats that of child d, who stays there as
\* values[node] = x, with equals[node] = q.
Beats(head, withEqual, c, d, w, x, q) ==
  /\ w.s = c.s /\ x = d.s
  /\ d.s # EMPTY => c.s # EMPTY /\ head[c.s] <= head[d.s]
  /\ withEqual => /\ q = d.equal
                  /\ w.equal = (c.equal \/ (d.s # EMPTY /\ head[c.s] = head[d.s]))

\* What a winner is: a stream below its node.
Contender(n, head, r, v) ==
  /\ DOMAIN r = {"s", "equal"} /\ r.s \in {EMPTY} \cup 0 .. n - 1 /\ r.equal \in BOOLEAN
  /\ r.s = EMPTY => ~ r.equal
  /\ r.s # EMPTY => head[r.s] # NoData /\ Below(n, r.s, v)

IsHead(n, head) == DOMAIN head = 0 .. n - 1 /\ \A s \in 0 .. n - 1 : head[s] \in Nat \cup {NoData}

IsTreeOf(n, tree) ==
  /\ DOMAIN tree = {"values", "equals", "last"}
  /\ DOMAIN tree.values = 0 .. n - 2 /\ tree.equals \in [0 .. n - 2 -> BOOLEAN]

\* win gives the winner at each node, when the streams are at head.
Wins(n, head, tree, win, withEqual) ==
  /\ DOMAIN win = 0 .. 2 * (n - 1)
  /\ \A v \in 0 .. 2 * (n - 1) : Contender(n, head, win[v], v)
  /\ \A s \in 0 .. n - 1 : /\ win[n - 1 + s].s = IF head[s] = NoData THEN EMPTY ELSE s
                          /\ ~ win[n - 1 + s].equal
  /\ \A v \in 0 .. n - 2 :
       \/ Beats(head, withEqual, win[LeftChild(v)], win[RightChild(v)], win[v],
                tree.values[v], tree.equals[v])
       \/ Beats(head, withEqual, win[RightChild(v)], win[LeftChild(v)], win[v],
                tree.values[v], tree.equals[v])

\* A leaf is below itself, and below the parent of every node it is below.
LEMMA BelowItself == ASSUME NEW n \in Nat \ {0}, NEW s \in 0 .. n - 1 PROVE Below(n, s, n - 1 + s)
  BY DEF Below, Climbs

\* A leaf below a child of a node is below the node.
LEMMA BelowParent ==
  ASSUME NEW n, NEW s, NEW v \in Nat, NEW c \in {LeftChild(v), RightChild(v)}, Below(n, s, c)
  PROVE  Below(n, s, v)
<1> DEFINE a == n - 1 + s
<1> SUFFICES ASSUME NEW K, NEW u, Climbs(a, u, K) PROVE \E k \in 0 .. K : u[k] = v
  BY DEF Below
<1>1. PICK k \in 0 .. K : u[k] = c
  BY DEF Below
<1> HIDE DEF a
<1>2. K \in Nat /\ u[K] = 0 /\ c > 0 /\ c \in Nat /\ Parent(c) = v
  BY DEF Climbs, LeftChild, RightChild, Parent
<1>3. k + 1 \in 1 .. K /\ (k + 1) - 1 = k
  BY <1>1, <1>2
<1>4. u[k + 1] = Parent(u[(k + 1) - 1])
  BY <1>3 DEF Climbs
<1> QED
  BY <1>1, <1>2, <1>3, <1>4

\* A tree nothing has gone through yet.
IsFresh(n, tree) ==
  /\ IsTreeOf(n, tree) /\ tree.last = EMPTY
  /\ \A v \in 0 .. n - 2 : tree.values[v] = EMPTY /\ tree.equals[v] = FALSE

\* A new tree has as many nodes as its constructor makes, none of them played yet.
LEMMA NewTreeIsFresh == ASSUME NEW n \in Nat \ {0} PROVE IsFresh(n, NewTree(n))
<1>1. FirstStream(n) = n - 1
  BY InnerNodes
<1> QED
  BY <1>1 DEF IsFresh, IsTreeOf, NewTree

\* First makes a tree of the winners.
LEMMA FirstWins ==
  ASSUME NEW n \in Nat, n > 1, NEW head, IsHead(n, head), NEW tree, IsFresh(n, tree),
         NEW withEqual \in BOOLEAN
  PROVE  LET r == First(head, tree, withEqual)
         IN  /\ IsTreeOf(n, r.tree)
             /\ \E win : /\ Wins(n, head, r.tree, win, withEqual)
                         /\ r.tree.last = win[0].s /\ r.equal = (withEqual /\ win[0].equal)
<1> DEFINE first == n - 1
           win == CHOOSE win : IsWinning(head, first, withEqual, win, 0 .. 2 * first)
           t == BuiltTree(tree, win, withEqual)
<1>1. first \in Nat \ {0} /\ FirstStream(Cardinality(DOMAIN head)) = first
  <2>1. Cardinality(0 .. n - 1) = n
    BY FS_Interval
  <2> QED
    BY <2>1, InnerNodes DEF IsHead
<1>2. IsWinning(head, first, withEqual, win, 0 .. 2 * first)
  BY <1>1, SomeWinning
<1>3. First(head, tree, withEqual) = [tree |-> t, equal |-> withEqual /\ win[0].equal]
  BY <1>1, FirstIs
<1> HIDE DEF win
<1>4. \A v \in 0 .. 2 * first : win[v] = WinStep(head, first, withEqual, win, v)
  BY <1>2 DEF IsWinning
<1>5. DOMAIN win = 0 .. 2 * first
  BY <1>2 DEF IsWinning
<1>6. ASSUME NEW v \in 0 .. first - 1
      PROVE  /\ LeftChild(v) \in v + 1 .. 2 * first /\ RightChild(v) \in v + 1 .. 2 * first
             /\ LeftChild(v) \in 0 .. 2 * first /\ RightChild(v) \in 0 .. 2 * first
             /\ v \in 0 .. 2 * first /\ v \in Nat
  BY <1>1 DEF LeftChild, RightChild
<1>7. \A v \in 0 .. 2 * first : Contender(n, head, win[v], v)
  <2> DEFINE B == {v \in 0 .. 2 * first : ~ Contender(n, head, win[v], v)}
  <2> SUFFICES ASSUME B # {} PROVE FALSE
    OBVIOUS
  <2>1. PICK m \in B : \A k \in B : k <= m
    <3>1. B \in SUBSET (0 .. 2 * first) /\ 2 * first \in Nat
      BY <1>1
    <3> HIDE DEF B
    <3> QED
      BY <3>1, GreatestNatural
  <2>2. win[m] = WinStep(head, first, withEqual, win, m) /\ m \in 0 .. 2 * first
    BY <1>4, <2>1
  <2>3. CASE m >= first
    <3>1. m - first \in 0 .. n - 1 /\ n - 1 + (m - first) = m
      BY <1>1, <2>2, <2>3
    <3>2. Below(n, m - first, m)
      BY <3>1, BelowItself
    <3>3. win[m] = [s |-> IF head[m - first] = NoData THEN EMPTY ELSE m - first, equal |-> FALSE]
      BY <2>2, <2>3 DEF WinStep
    <3>4. Contender(n, head, win[m], m)
      BY <3>1, <3>2, <3>3 DEF Contender, EMPTY
    <3> QED
      BY <2>1, <3>4
  <2>4. CASE ~ (m >= first)
    <3> DEFINE l == win[LeftChild(m)]
               r == win[RightChild(m)]
    <3>1. m \in 0 .. first - 1
      BY <1>1, <2>2, <2>4
    <3>2. Contender(n, head, l, LeftChild(m)) /\ Contender(n, head, r, RightChild(m))
      <4>1. LeftChild(m) \notin B /\ RightChild(m) \notin B
        BY <1>1, <1>6, <2>1, <3>1
      <4> QED
        BY <1>6, <3>1, <4>1
    <3>3. win[m] = IF l.s = EMPTY THEN r
                   ELSE IF r.s = EMPTY THEN l
                   ELSE IF ~LeftWins(head, l.s, r.s, withEqual) THEN r
                   ELSE [l EXCEPT !.equal = @ \/ head[l.s] = head[r.s]]
      BY <2>2, <2>4 DEF WinStep
    <3>4. /\ l.s # EMPTY => Below(n, l.s, m)
          /\ r.s # EMPTY => Below(n, r.s, m)
      BY <1>6, <3>1, <3>2, BelowParent DEF Contender
    <3> HIDE DEF l, r
    <3>5. Contender(n, head, l, m) /\ Contender(n, head, r, m)
      BY <3>2, <3>4 DEF Contender
    <3> DEFINE x == [l EXCEPT !.equal = @ \/ head[l.s] = head[r.s]]
    <3>6. l.s # EMPTY => Contender(n, head, x, m)
      BY <3>5 DEF Contender
    <3> HIDE DEF x
    <3>7. Contender(n, head, win[m], m)
      <4>1. win[m] = r \/ win[m] = l \/ (l.s # EMPTY /\ win[m] = x)
        BY <3>3 DEF x
      <4> QED
        BY <3>5, <3>6, <4>1
    <3> QED
      BY <2>1, <3>7
  <2> QED
    BY <2>3, <2>4
<1>8. IsTreeOf(n, t)
  <2>1. \A v \in 0 .. n - 2 : Loser(win, v).equal \in BOOLEAN
    <3> SUFFICES ASSUME NEW v \in 0 .. n - 2 PROVE Loser(win, v).equal \in BOOLEAN
      OBVIOUS
    <3>1. Contender(n, head, win[LeftChild(v)], LeftChild(v))
          /\ Contender(n, head, win[RightChild(v)], RightChild(v))
      BY <1>1, <1>6, <1>7
    <3> QED
      BY <3>1 DEF Loser, Contender
  <2> QED
    BY <1>1, <2>1 DEF IsFresh, IsTreeOf, BuiltTree
<1>9. ASSUME NEW v \in 0 .. n - 2
      PROVE  \/ Beats(head, withEqual, win[LeftChild(v)], win[RightChild(v)], win[v],
                      t.values[v], t.equals[v])
             \/ Beats(head, withEqual, win[RightChild(v)], win[LeftChild(v)], win[v],
                      t.values[v], t.equals[v])
  <2> DEFINE l == win[LeftChild(v)]
             r == win[RightChild(v)]
             w == win[v]
             x == t.values[v]
             q == t.equals[v]
  <2>1. v \in 0 .. first - 1 /\ ~ (v >= first)
    BY <1>1
  <2>2. w = IF l.s = EMPTY THEN r
            ELSE IF r.s = EMPTY THEN l
            ELSE IF ~LeftWins(head, l.s, r.s, withEqual) THEN r
            ELSE [l EXCEPT !.equal = @ \/ head[l.s] = head[r.s]]
    <3>1. w = WinStep(head, first, withEqual, win, v)
      BY <1>4, <1>6, <2>1
    <3> HIDE DEF w
    <3> QED
      BY <2>1, <3>1 DEF WinStep
  <2>3. Contender(n, head, l, LeftChild(v)) /\ Contender(n, head, r, RightChild(v))
    BY <1>6, <1>7, <2>1
  <2>4. /\ x = IF l.s # EMPTY /\ r.s # EMPTY THEN (IF w.s = l.s THEN r ELSE l).s ELSE EMPTY
        /\ q = IF withEqual /\ l.s # EMPTY /\ r.s # EMPTY THEN (IF w.s = l.s THEN r ELSE l).equal
               ELSE FALSE
    BY DEF IsFresh, IsTreeOf, BuiltTree, Loser, IsPlayed
  <2>5. /\ l.s # EMPTY => head[l.s] \in Nat
        /\ r.s # EMPTY => head[r.s] \in Nat
    BY <2>3 DEF Contender, IsHead
  <2>6. DOMAIN l = {"s", "equal"} /\ l.equal \in BOOLEAN /\ r.equal \in BOOLEAN
        /\ (l.s = EMPTY => ~ l.equal) /\ (r.s = EMPTY => ~ r.equal)
    BY <2>3 DEF Contender
  <2> HIDE DEF l, r, w, x, q
  <2>7. Beats(head, withEqual, l, r, w, x, q) \/ Beats(head, withEqual, r, l, w, x, q)
    <3>1. CASE l.s = EMPTY
      <4>1. w = r /\ x = EMPTY /\ q = FALSE
        BY <2>2, <2>4, <3>1
      <4> QED
        BY <2>6, <3>1, <4>1 DEF Beats
    <3>2. CASE l.s # EMPTY /\ r.s = EMPTY
      <4>1. w = l /\ x = EMPTY /\ q = FALSE
        BY <2>2, <2>4, <3>2
      <4> QED
        BY <2>6, <3>2, <4>1 DEF Beats
    <3>3. CASE l.s # EMPTY /\ r.s # EMPTY /\ ~LeftWins(head, l.s, r.s, withEqual)
      <4>1. w = r
        BY <2>2, <3>3
      <4>2. head[r.s] <= head[l.s] /\ (withEqual => l.s # r.s /\ head[r.s] # head[l.s])
        BY <2>5, <3>3 DEF LeftWins
      <4>3. x = l.s /\ (withEqual => q = l.equal)
        BY <2>4, <3>3, <4>1, <4>2
      <4>4. Beats(head, withEqual, r, l, w, x, q)
        BY <2>6, <3>3, <4>1, <4>2, <4>3 DEF Beats
      <4> QED
        BY <4>4
    <3>4. CASE l.s # EMPTY /\ r.s # EMPTY /\ LeftWins(head, l.s, r.s, withEqual)
      <4>1. w.s = l.s /\ w.equal = (l.equal \/ head[l.s] = head[r.s])
        BY <2>2, <2>6, <3>4
      <4>2. head[l.s] <= head[r.s]
        BY <2>5, <3>4 DEF LeftWins
      <4>3. x = r.s /\ (withEqual => q = r.equal)
        BY <2>4, <3>4, <4>1
      <4>4. Beats(head, withEqual, l, r, w, x, q)
        BY <2>6, <3>4, <4>1, <4>2, <4>3 DEF Beats
      <4> QED
        BY <4>4
    <3> QED
      BY <3>1, <3>2, <3>3, <3>4
  <2> QED
    BY <2>7 DEF l, r, w, x, q
<1>10. ASSUME NEW s \in 0 .. n - 1
       PROVE  /\ win[n - 1 + s].s = IF head[s] = NoData THEN EMPTY ELSE s
              /\ ~ win[n - 1 + s].equal
  <2>1. n - 1 + s \in 0 .. 2 * first /\ n - 1 + s >= first /\ (n - 1 + s) - first = s
    BY <1>1
  <2>2. win[n - 1 + s] = WinStep(head, first, withEqual, win, n - 1 + s)
    BY <1>4, <2>1
  <2> QED
    BY <2>1, <2>2 DEF WinStep
<1>11. t.last = win[0].s
  BY DEF BuiltTree
<1> HIDE DEF t
<1>12. Wins(n, head, t, win, withEqual)
  BY <1>5, <1>7, <1>9, <1>10 DEF Wins
<1> QED
  BY <1>3, <1>8, <1>11, <1>12

\* The winner of all has won at every node above its leaf.
WonAlong(win, s, u, K) == \A i \in 0 .. K : win[u[i]].s = s

\* The winner of the whole tree has won every node on its leaf's way up.
LEMMA WinOnPath ==
  ASSUME NEW n \in Nat, n > 1, NEW head, NEW tree, NEW win, NEW withEqual,
         Wins(n, head, tree, win, withEqual), NEW s \in 0 .. n - 1, s = win[0].s,
         s # EMPTY,
         NEW K, NEW u, Climbs(n - 1 + s, u, K)
  PROVE  WonAlong(win, s, u, K)
<1> DEFINE a == n - 1 + s
           B == {k \in 0 .. K : win[u[k]].s # s}
<1>0. /\ K \in Nat /\ u \in [0 .. K -> Nat] /\ u[0] = a /\ u[K] = 0
      /\ \A k \in 1 .. K : u[k - 1] > 0 /\ u[k] = Parent(u[k - 1])
  BY DEF Climbs
<1> SUFFICES ASSUME B # {} PROVE FALSE
  BY DEF WonAlong
<1>1. PICK m \in B : \A k \in B : k <= m
  <2>1. B \in SUBSET (0 .. K)
    OBVIOUS
  <2> HIDE DEF B
  <2> QED
    BY <1>0, <2>1, GreatestNatural
<1>2. m # K
  BY <1>0, <1>1
<1>3. m + 1 \in 1 .. K /\ m + 1 \in 0 .. K /\ m + 1 \notin B /\ (m + 1) - 1 = m
  BY <1>0, <1>1, <1>2
<1> DEFINE v == u[m + 1]
           p == u[m]
<1>4. v \in Nat /\ p \in Nat \ {0} /\ v = Parent(p) /\ win[v].s = s
  BY <1>0, <1>1, <1>3
<1>5. s \in 0 .. n - 1
  OBVIOUS
<1>6. a \in Nat /\ a <= 2 * (n - 1) /\ p <= a
  <2>1. a \in Nat /\ a <= 2 * (n - 1)
    BY <1>5
  <2>2. m = 0 => p = a
    BY <1>0
  <2>3. m # 0 => p < a
    <3> SUFFICES ASSUME m # 0 PROVE p < a
      OBVIOUS
    <3>1. 0 \in 0 .. K /\ m \in 0 .. K /\ 0 < m
      BY <1>0, <1>1
    <3> HIDE DEF a
    <3>2. Climbs(a, u, K)
      BY DEF a
    <3>3. u[m] < u[0]
      BY <3>1, <3>2, ClimbDecreases
    <3> QED
      BY <1>0, <3>3
  <2> QED
    BY <1>4, <2>1, <2>2, <2>3
<1>7. v \in 0 .. n - 2 /\ p \in {LeftChild(v), RightChild(v)}
  <2>1. v < p /\ (p = 2 * v + 1 \/ p = 2 * v + 2)
    BY <1>4, ParentIsLess
  <2> QED
    BY <1>4, <1>6, <2>1 DEF LeftChild, RightChild
<1>8. PICK c \in {LeftChild(v), RightChild(v)} : win[c].s = s
  BY <1>4, <1>7 DEF Wins, Beats
<1>9. Below(n, s, c)
  <2>1. c \in 0 .. 2 * (n - 1)
    BY <1>7 DEF LeftChild, RightChild
  <2> QED
    BY <1>8, <2>1 DEF Wins, Contender
<1>10. PICK j \in 0 .. K : u[j] = c
  BY <1>9 DEF Below
<1>11. c # p
  BY <1>1, <1>8
<1> HIDE DEF v, p, a
<1>12. Climbs(a, u, K) /\ m \in 0 .. K /\ u[m] = p
  BY <1>1 DEF a, p
<1> QED
  BY <1>4, <1>7, <1>8, <1>10, <1>11, <1>12, OneChild

\* Another loser at a node.
NodeSet(t, v, x, y) == [t EXCEPT !.values[v] = x, !.equals[v] = y]

\* One node of the tree is written, the others stay.
LEMMA SetNode ==
  ASSUME NEW n \in Nat, NEW t, IsTreeOf(n, t), NEW v \in 0 .. n - 2, NEW x, NEW y \in BOOLEAN
  PROVE  LET t2 == NodeSet(t, v, x, y)
         IN  /\ IsTreeOf(n, t2) /\ t2.last = t.last
             /\ t2.values[v] = x /\ t2.equals[v] = y
             /\ \A i \in 0 .. n - 2 : i # v => t2.values[i] = t.values[i]
                                            /\ t2.equals[i] = t.equals[i]
<1>1. DOMAIN t = {"values", "equals", "last"} /\ DOMAIN t.values = 0 .. n - 2
      /\ t.equals \in [0 .. n - 2 -> BOOLEAN]
  BY DEF IsTreeOf
<1> DEFINE f == [t.values EXCEPT ![v] = x]
           g == [t.equals EXCEPT ![v] = y]
           t1 == [t EXCEPT !.values[v] = x]
           t2 == [t EXCEPT !.values[v] = x, !.equals[v] = y]
<1>2. DOMAIN f = 0 .. n - 2 /\ f[v] = x /\ \A i \in 0 .. n - 2 : i # v => f[i] = t.values[i]
  BY <1>1
<1>3. g \in [0 .. n - 2 -> BOOLEAN] /\ g[v] = y /\ \A i \in 0 .. n - 2 : i # v => g[i] = t.equals[i]
  BY <1>1
<1>4. t1.values = f /\ t1.equals = t.equals /\ t1.last = t.last /\ DOMAIN t1 = DOMAIN t
  BY <1>1
<1>5. t2 = [t1 EXCEPT !.equals[v] = y] /\ t2 = NodeSet(t, v, x, y)
  BY DEF NodeSet
<1> HIDE DEF f, t1
<1>6. t2.values = f /\ t2.equals = g /\ t2.last = t.last /\ DOMAIN t2 = DOMAIN t
  BY <1>1, <1>4, <1>5
<1> HIDE DEF g, t2
<1> QED
  BY <1>1, <1>2, <1>3, <1>5, <1>6 DEF IsTreeOf

\* What a node does with the winner p of the child that has changed, when the winner
\* of the other one, d, has stayed there.
Fights(n, head, withEqual, c, d, v) ==
  LET c2 == Climb(head, c, v)
      p == [s |-> c.value, equal |-> c.equal]
      w == [s |-> c2.value, equal |-> c2.equal]
  IN  /\ IsTreeOf(n, c2.tree) /\ DOMAIN c2 = {"tree", "value", "equal"}
      /\ \A i \in 0 .. n - 2 : i # v => c2.tree.values[i] = c.tree.values[i]
                                     /\ c2.tree.equals[i] = c.tree.equals[i]
      /\ c2.value \in {c.value, d.s} /\ c2.equal \in BOOLEAN
      /\ c2.value = EMPTY => ~ c2.equal
      /\ \/ Beats(head, withEqual, p, d, w, c2.tree.values[v], c2.tree.equals[v])
         \/ Beats(head, withEqual, d, p, w, c2.tree.values[v], c2.tree.equals[v])

\* A step of Propagate leaves the loser and its isEqual in the node and carries the winner
\* on.
LEMMA ClimbBeats ==
  ASSUME NEW n \in Nat, NEW head, NEW c, IsTreeOf(n, c.tree), DOMAIN c = {"tree", "value", "equal"},
         NEW v \in 0 .. n - 2, NEW withEqual \in BOOLEAN, NEW d, c.tree.values[v] = d.s,
         withEqual => c.tree.equals[v] = d.equal,
         d.s # EMPTY => head[d.s] \in Nat, c.value # EMPTY => head[c.value] \in Nat,
         c.equal \in BOOLEAN, d.equal \in BOOLEAN,
         c.value = EMPTY => ~ c.equal, d.s = EMPTY => ~ d.equal
  PROVE  Fights(n, head, withEqual, c, d, v)
<1> DEFINE c2 == Climb(head, c, v)
           p == [s |-> c.value, equal |-> c.equal]
           w == [s |-> c2.value, equal |-> c2.equal]
           t == c.tree
           a == c.value
           b == d.s
<1>1. DOMAIN t = {"values", "equals", "last"} /\ DOMAIN t.values = 0 .. n - 2
      /\ t.equals \in [0 .. n - 2 -> BOOLEAN]
  BY DEF IsTreeOf
<1>2. CASE b = EMPTY \/ (a # EMPTY /\ b # EMPTY /\ head[a] < head[b])
  <2>1. c2 = c
    BY <1>2 DEF Climb
  <2>2. Beats(head, withEqual, p, d, w, t.values[v], t.equals[v])
    BY <1>2, <2>1 DEF Beats
  <2> QED
    BY <2>1, <2>2 DEF Fights
<1>3. CASE b # EMPTY /\ a = EMPTY
  <2>1. c2 = [tree  |-> [t EXCEPT !.values[v] = EMPTY, !.equals[v] = FALSE],
              value |-> b, equal |-> t.equals[v]]
    BY <1>3 DEF Climb
  <2>2. /\ IsTreeOf(n, c2.tree) /\ DOMAIN c2 = {"tree", "value", "equal"}
        /\ c2.tree.values[v] = EMPTY /\ c2.tree.equals[v] = FALSE
        /\ \A i \in 0 .. n - 2 : i # v => c2.tree.values[i] = t.values[i]
                                       /\ c2.tree.equals[i] = t.equals[i]
        /\ c2.value = b /\ c2.equal = t.equals[v] /\ t.equals[v] \in BOOLEAN
    <3> DEFINE t2 == NodeSet(t, v, EMPTY, FALSE)
    <3>1. /\ IsTreeOf(n, t2) /\ t2.last = t.last /\ t2.values[v] = EMPTY /\ t2.equals[v] = FALSE
          /\ \A i \in 0 .. n - 2 : i # v => t2.values[i] = t.values[i]
                                         /\ t2.equals[i] = t.equals[i]
      <4> DEFINE y == FALSE
                 t3 == NodeSet(t, v, EMPTY, y)
      <4>1. IsTreeOf(n, t) /\ y \in BOOLEAN
        OBVIOUS
      <4> HIDE DEF y, t, c2, a, b
      <4>2. /\ IsTreeOf(n, t3) /\ t3.last = t.last /\ t3.values[v] = EMPTY /\ t3.equals[v] = y
            /\ \A i \in 0 .. n - 2 : i # v => t3.values[i] = t.values[i]
                                           /\ t3.equals[i] = t.equals[i]
        BY <4>1, SetNode
      <4>3. t2 = t3 /\ y = FALSE
        BY DEF y
      <4> HIDE DEF t2, t3
      <4> QED
        BY <4>2, <4>3
    <3>2. c2 = [tree |-> t2, value |-> b, equal |-> t.equals[v]]
      BY <2>1 DEF NodeSet
    <3>3. t.equals[v] \in BOOLEAN
      BY <1>1
    <3> HIDE DEF t2, c2, t
    <3> QED
      BY <3>1, <3>2, <3>3
  <2> HIDE DEF c2
  <2>3. Beats(head, withEqual, d, p, w, c2.tree.values[v], c2.tree.equals[v])
    BY <1>3, <2>2 DEF Beats
  <2> QED
    BY <1>3, <2>2, <2>3 DEF c2, Fights
<1>4. CASE b # EMPTY /\ a # EMPTY /\ head[a] = head[b]
  <2>1. c2 = [c EXCEPT !.equal = TRUE]
    BY <1>4 DEF Climb
  <2>2. Beats(head, withEqual, p, d, w, t.values[v], t.equals[v])
    <3>1. w.s = a /\ w.equal = TRUE /\ p.s = a
      BY <2>1
    <3>2. head[a] <= head[b]
      BY <1>4
    <3> HIDE DEF w, c2
    <3> QED
      BY <1>4, <3>1, <3>2 DEF Beats
  <2> QED
    BY <1>4, <2>1, <2>2 DEF Fights
<1>5. CASE b # EMPTY /\ a # EMPTY /\ head[b] < head[a]
  <2>0. head[b] # head[a]
    BY <1>5
  <2>1. c2 = [tree  |-> [t EXCEPT !.values[v] = a, !.equals[v] = c.equal],
              value |-> b, equal |-> t.equals[v]]
    BY <1>5, <2>0 DEF Climb
  <2>2. /\ IsTreeOf(n, c2.tree) /\ DOMAIN c2 = {"tree", "value", "equal"}
        /\ c2.tree.values[v] = a /\ c2.tree.equals[v] = c.equal
        /\ \A i \in 0 .. n - 2 : i # v => c2.tree.values[i] = t.values[i]
                                       /\ c2.tree.equals[i] = t.equals[i]
        /\ c2.value = b /\ c2.equal = t.equals[v] /\ t.equals[v] \in BOOLEAN
    <3> DEFINE t2 == NodeSet(t, v, a, c.equal)
    <3>1. /\ IsTreeOf(n, t2) /\ t2.values[v] = a /\ t2.equals[v] = c.equal
          /\ \A i \in 0 .. n - 2 : i # v => t2.values[i] = t.values[i]
                                         /\ t2.equals[i] = t.equals[i]
      <4>1. IsTreeOf(n, t) /\ c.equal \in BOOLEAN
        OBVIOUS
      <4> HIDE DEF t, c2, a, b
      <4> QED
        BY <4>1, SetNode
    <3>2. c2 = [tree |-> t2, value |-> b, equal |-> t.equals[v]]
      BY <2>1 DEF NodeSet
    <3>3. t.equals[v] \in BOOLEAN
      BY <1>1
    <3> HIDE DEF t2, c2, t
    <3> QED
      BY <3>1, <3>2, <3>3
  <2> HIDE DEF c2
  <2>3. Beats(head, withEqual, d, p, w, c2.tree.values[v], c2.tree.equals[v])
    BY <1>5, <2>0, <2>2 DEF Beats
  <2> QED
    BY <1>5, <2>2, <2>3 DEF c2, Fights
<1> QED
  BY <1>2, <1>3, <1>4, <1>5

\* The nodes on the way up from a leaf, and the other child of each.
IsWayUp(n, u, K) ==
  /\ K \in Nat \ {0} /\ \A k \in 0 .. K : u[k] \in 0 .. 2 * (n - 1)
  /\ \A k \in 1 .. K : /\ u[k] \in 0 .. n - 2
                       /\ u[k - 1] \in {LeftChild(u[k]), RightChild(u[k])}
  /\ \A j, k \in 0 .. K : j # k => u[j] # u[k]
  /\ \A k \in 0 .. K : \A v \in 0 .. n - 2 :
       u[k] \in {LeftChild(v), RightChild(v)} => k + 1 \in 1 .. K /\ u[k + 1] = v

\* The way up from a leaf stays among the nodes and meets none of them twice.
LEMMA WayUp ==
  ASSUME NEW n \in Nat, n > 1, NEW s \in 0 .. n - 1, NEW K, NEW u, Climbs(n - 1 + s, u, K)
  PROVE  IsWayUp(n, u, K)
<1> DEFINE a == n - 1 + s
<1>0. /\ K \in Nat /\ u \in [0 .. K -> Nat] /\ u[0] = a /\ u[K] = 0
      /\ \A k \in 1 .. K : u[k - 1] > 0 /\ u[k] = Parent(u[k - 1])
  BY DEF Climbs
<1>1. K # 0 /\ a \in Nat /\ a <= 2 * (n - 1)
  BY <1>0
<1> HIDE DEF a
<1>2. Climbs(a, u, K)
  BY DEF a
<1>3. ASSUME NEW j \in 0 .. K, NEW k \in 0 .. K, j < k PROVE u[k] < u[j]
  BY <1>2, <1>3, ClimbDecreases
<1>4. ASSUME NEW j \in 0 .. K, NEW k \in 0 .. K, j # k PROVE u[j] # u[k]
  <2>1. j < k \/ k < j
    BY <1>0, <1>4
  <2>2. u[j] \in Nat /\ u[k] \in Nat
    BY <1>0
  <2> QED
    BY <1>3, <2>1, <2>2
<1>5. ASSUME NEW k \in 0 .. K PROVE u[k] \in 0 .. 2 * (n - 1)
  <2>1. k = 0 \/ (0 \in 0 .. K /\ 0 < k)
    BY <1>0
  <2>2. u[k] \in Nat /\ u[k] <= a
    BY <1>0, <1>1, <1>3, <2>1
  <2> QED
    BY <1>1, <2>2
<1>6. ASSUME NEW k \in 1 .. K
      PROVE  u[k] \in 0 .. n - 2 /\ u[k - 1] \in {LeftChild(u[k]), RightChild(u[k])}
  <2>1. k - 1 \in 0 .. K /\ k \in 0 .. K
    BY <1>0
  <2>2. u[k - 1] \in Nat \ {0} /\ u[k] = Parent(u[k - 1]) /\ u[k - 1] \in 0 .. 2 * (n - 1)
    BY <1>0, <1>5, <2>1
  <2>3. u[k] \in Nat /\ (u[k - 1] = 2 * u[k] + 1 \/ u[k - 1] = 2 * u[k] + 2)
    BY <2>2, ParentIsLess
  <2> QED
    BY <2>2, <2>3 DEF LeftChild, RightChild
<1>7. ASSUME NEW k \in 0 .. K, NEW v \in 0 .. n - 2, u[k] \in {LeftChild(v), RightChild(v)}
      PROVE  k + 1 \in 1 .. K /\ u[k + 1] = v
  <2>1. u[k] > 0 /\ Parent(u[k]) = v
    BY <1>7 DEF LeftChild, RightChild, Parent
  <2>2. k + 1 \in 1 .. K /\ (k + 1) - 1 = k
    BY <1>0, <2>1
  <2>3. u[k + 1] = Parent(u[(k + 1) - 1])
    BY <1>0, <2>2
  <2> QED
    BY <2>1, <2>2, <2>3
<1> QED
  BY <1>0, <1>1, <1>4, <1>5, <1>6, <1>7 DEF IsWayUp

Sibling(u, k) == IF u[k - 1] = LeftChild(u[k]) THEN RightChild(u[k]) ELSE LeftChild(u[k])

\* No leaf is below both children.
SiblingOff(n, u, K, k) ==
  /\ Sibling(u, k) \in 0 .. 2 * (n - 1) /\ \A j \in 0 .. K : u[j] # Sibling(u, k)
  /\ \/ u[k - 1] = LeftChild(u[k]) /\ Sibling(u, k) = RightChild(u[k])
     \/ u[k - 1] = RightChild(u[k]) /\ Sibling(u, k) = LeftChild(u[k])

\* The sibling of a node on the way up is not on it, and no leaf below it is the one the way
\* starts from.
LEMMA SiblingIsOff ==
  ASSUME NEW n \in Nat, n > 1, NEW s \in 0 .. n - 1, NEW K, NEW u, Climbs(n - 1 + s, u, K),
         NEW k \in 1 .. K
  PROVE  SiblingOff(n, u, K, k)
<1> DEFINE a == n - 1 + s
           v == u[k]
           p == u[k - 1]
<1>1. K \in Nat /\ v \in 0 .. n - 2 /\ p \in {LeftChild(v), RightChild(v)} /\ k - 1 \in 0 .. K
  <2>1. /\ K \in Nat \ {0}
        /\ \A i \in 1 .. K : u[i] \in 0 .. n - 2 /\ u[i - 1] \in {LeftChild(u[i]), RightChild(u[i])}
    BY WayUp DEF IsWayUp
  <2>2. k - 1 \in 0 .. K
    BY <2>1
  <2> QED
    BY <2>1, <2>2
<1> HIDE DEF a
<1>2. Climbs(a, u, K) /\ u[k - 1] = p
  BY DEF a
<1> HIDE DEF v, p
<1>3. LeftChild(v) # RightChild(v) /\ LeftChild(v) \in 0 .. 2 * (n - 1)
      /\ RightChild(v) \in 0 .. 2 * (n - 1) /\ v \in Nat
  BY <1>1 DEF LeftChild, RightChild
<1>4. Sibling(u, k) = IF p = LeftChild(v) THEN RightChild(v) ELSE LeftChild(v)
  BY DEF Sibling, v, p
<1>5. ASSUME NEW j \in 0 .. K, u[j] = Sibling(u, k) PROVE FALSE
  <2>1. CASE p = LeftChild(v)
    <3>1. u[j] = RightChild(v) /\ u[k - 1] = LeftChild(v)
      BY <1>2, <1>4, <1>5, <2>1
    <3> QED
      BY <1>1, <1>2, <1>3, <3>1, OneChild
  <2>2. CASE p = RightChild(v)
    <3>1. u[j] = LeftChild(v) /\ u[k - 1] = RightChild(v)
      BY <1>2, <1>3, <1>4, <1>5, <2>2
    <3> QED
      BY <1>1, <1>2, <1>3, <3>1, OneChild
  <2> QED
    BY <1>1, <2>1, <2>2
<1> QED
  BY <1>1, <1>3, <1>4, <1>5 DEF v, p, SiblingOff

\* Who comes up at step k of a way c.
Comer(c, k) == [s |-> c[k].value, equal |-> c[k].equal]

\* After k steps along the way u the tree is right at the nodes passed, and as before at
\* the others.
Climbed(n, head, tree, win, withEqual, u, c, k) ==
  /\ IsTreeOf(n, c[k].tree) /\ DOMAIN c[k] = {"tree", "value", "equal"}
  /\ Contender(n, head, Comer(c, k), u[k])
  /\ \A v \in 0 .. n - 2 : (\A j \in 1 .. k : u[j] # v) =>
       c[k].tree.values[v] = tree.values[v] /\ c[k].tree.equals[v] = tree.equals[v]
  /\ \A j \in 1 .. k :
       \/ Beats(head, withEqual, Comer(c, j - 1), win[Sibling(u, j)], Comer(c, j),
                c[k].tree.values[u[j]], c[k].tree.equals[u[j]])
       \/ Beats(head, withEqual, win[Sibling(u, j)], Comer(c, j - 1), Comer(c, j),
                c[k].tree.values[u[j]], c[k].tree.equals[u[j]])

\* If the sibling's winner lies in a node of the way, the step through that node makes its
\* winner and its loser those of the new heads.
LEMMA ClimbStepIsRight ==
  ASSUME NEW n \in Nat, n > 1, NEW head, IsHead(n, head), NEW tree, NEW win, NEW withEqual \in BOOLEAN,
         NEW s \in 0 .. n - 1, NEW K, NEW u, Climbs(n - 1 + s, u, K), NEW c, NEW k \in 1 .. K,
         Climbed(n, head, tree, win, withEqual, u, c, k - 1),
         c[k] = Climb(head, c[k - 1], u[k]),
         Contender(n, head, win[Sibling(u, k)], Sibling(u, k)),
         tree.values[u[k]] = win[Sibling(u, k)].s,
         withEqual => tree.equals[u[k]] = win[Sibling(u, k)].equal
  PROVE  Climbed(n, head, tree, win, withEqual, u, c, k)
<1> DEFINE v == u[k]
           d == win[Sibling(u, k)]
           b == c[k - 1]
           t == b.tree
           t2 == c[k].tree
<1>1. /\ K \in Nat /\ k \in 1 .. k /\ k - 1 \in 0 .. K /\ v \in 0 .. n - 2
      /\ \A j \in 1 .. k - 1 : u[j] # v /\ j \in 1 .. k
      /\ \A j \in 1 .. k : u[j] \in 0 .. n - 2 /\ (j # k => j \in 1 .. k - 1)
  <2>1. /\ K \in Nat \ {0} /\ \A j \in 1 .. K : u[j] \in 0 .. n - 2
        /\ \A i, j \in 0 .. K : i # j => u[i] # u[j]
    BY WayUp DEF IsWayUp
  <2>2. /\ k \in 1 .. k /\ k - 1 \in 0 .. K /\ k \in 0 .. K
        /\ \A j \in 1 .. k - 1 : j \in 0 .. K /\ j # k /\ j \in 1 .. k
        /\ \A j \in 1 .. k : j \in 1 .. K /\ (j # k => j \in 1 .. k - 1)
    BY <2>1
  <2> QED
    BY <2>1, <2>2
<1>2. /\ IsTreeOf(n, t) /\ DOMAIN b = {"tree", "value", "equal"}
      /\ Contender(n, head, Comer(c, k - 1), u[k - 1])
      /\ \A i \in 0 .. n - 2 : (\A j \in 1 .. k - 1 : u[j] # i) =>
           t.values[i] = tree.values[i] /\ t.equals[i] = tree.equals[i]
  BY DEF Climbed
<1>3. t.values[v] = d.s /\ (withEqual => t.equals[v] = d.equal)
  BY <1>1, <1>2
<1>4. /\ b.value \in {EMPTY} \cup 0 .. n - 1 /\ b.equal \in BOOLEAN
      /\ (b.value = EMPTY => ~ b.equal) /\ (b.value # EMPTY => head[b.value] \in Nat)
      /\ d.s \in {EMPTY} \cup 0 .. n - 1 /\ d.equal \in BOOLEAN
      /\ (d.s = EMPTY => ~ d.equal) /\ (d.s # EMPTY => head[d.s] \in Nat)
  BY <1>2 DEF Contender, Comer, IsHead
<1>5. /\ b.value # EMPTY => Below(n, b.value, v) /\ head[b.value] # NoData
      /\ d.s # EMPTY => Below(n, d.s, v) /\ head[d.s] # NoData
  <2>1. /\ b.value # EMPTY => Below(n, b.value, u[k - 1]) /\ head[b.value] # NoData
        /\ d.s # EMPTY => Below(n, d.s, Sibling(u, k)) /\ head[d.s] # NoData
    BY <1>2 DEF Contender, Comer
  <2>2. u[k - 1] \in {LeftChild(v), RightChild(v)} /\ Sibling(u, k) \in {LeftChild(v), RightChild(v)}
    <3>1. \/ u[k - 1] = LeftChild(u[k]) /\ Sibling(u, k) = RightChild(u[k])
          \/ u[k - 1] = RightChild(u[k]) /\ Sibling(u, k) = LeftChild(u[k])
      <4>1. SiblingOff(n, u, K, k)
        BY SiblingIsOff
      <4> QED
        BY <4>1 DEF SiblingOff
    <3> QED
      BY <3>1
  <2>3. v \in Nat
    BY <1>1
  <2> HIDE DEF v, b, d
  <2> QED
    BY <2>1, <2>2, <2>3, BelowParent
<1> DEFINE c2 == Climb(head, b, v)
           p == [s |-> b.value, equal |-> b.equal]
           w == [s |-> c2.value, equal |-> c2.equal]
<1>6. c[k] = c2 /\ Comer(c, k - 1) = p /\ Comer(c, k) = w /\ t2 = c2.tree
  BY DEF Comer
<1> HIDE DEF v, d, b
<1>7. /\ IsTreeOf(n, c2.tree) /\ DOMAIN c2 = {"tree", "value", "equal"}
      /\ \A i \in 0 .. n - 2 : i # v => c2.tree.values[i] = b.tree.values[i]
                                     /\ c2.tree.equals[i] = b.tree.equals[i]
      /\ c2.value \in {b.value, d.s} /\ c2.equal \in BOOLEAN
      /\ (c2.value = EMPTY => ~ c2.equal)
      /\ \/ Beats(head, withEqual, p, d, w, c2.tree.values[v], c2.tree.equals[v])
         \/ Beats(head, withEqual, d, p, w, c2.tree.values[v], c2.tree.equals[v])
  <2>1. Fights(n, head, withEqual, b, d, v)
    BY <1>1, <1>2, <1>3, <1>4, ClimbBeats
  <2> QED
    BY <2>1 DEF Fights
<1> HIDE DEF c2, p
<1>8. Contender(n, head, Comer(c, k), v)
  BY <1>4, <1>5, <1>6, <1>7 DEF Contender
<1>9. ASSUME NEW i \in 0 .. n - 2, \A j \in 1 .. k : u[j] # i
      PROVE  t2.values[i] = tree.values[i] /\ t2.equals[i] = tree.equals[i]
  <2>1. i # v /\ \A j \in 1 .. k - 1 : u[j] # i
    BY <1>1, <1>9 DEF v
  <2> QED
    BY <1>2, <1>6, <1>7, <2>1
<1>10. ASSUME NEW j \in 1 .. k
       PROVE  \/ Beats(head, withEqual, Comer(c, j - 1), win[Sibling(u, j)], Comer(c, j),
                       t2.values[u[j]], t2.equals[u[j]])
              \/ Beats(head, withEqual, win[Sibling(u, j)], Comer(c, j - 1), Comer(c, j),
                       t2.values[u[j]], t2.equals[u[j]])
  <2>1. CASE j = k
    BY <1>6, <1>7, <2>1 DEF v, d
  <2>2. CASE j # k
    <3>1. j \in 1 .. k - 1 /\ u[j] # v /\ u[j] \in 0 .. n - 2
      BY <1>1, <2>2
    <3>2. t2.values[u[j]] = t.values[u[j]] /\ t2.equals[u[j]] = t.equals[u[j]]
      BY <1>6, <1>7, <3>1
    <3> QED
      BY <3>1, <3>2 DEF Climbed, b
  <2> QED
    BY <2>1, <2>2
<1> QED
  BY <1>6, <1>7, <1>8, <1>9, <1>10 DEF Climbed, v

\* Propagate keeps the tree right when only the stream it returned last has moved on.
LEMMA PropagateWins ==
  ASSUME NEW n \in Nat, n > 1, NEW head0, IsHead(n, head0), NEW head, IsHead(n, head),
         NEW tree, IsTreeOf(n, tree), NEW win, NEW withEqual \in BOOLEAN,
         Wins(n, head0, tree, win, withEqual), NEW s, s = tree.last, s = win[0].s, s # EMPTY,
         \A i \in 0 .. n - 1 : i # s => head[i] = head0[i]
  PROVE  LET r == Propagate(head, tree)
         IN  /\ IsTreeOf(n, r.tree)
             /\ \E w : /\ Wins(n, head, r.tree, w, withEqual)
                       /\ r.tree.last = w[0].s /\ r.equal = w[0].equal
<1> DEFINE a == n - 1 + s
           start == [tree |-> tree, value |-> IF head[s] = NoData THEN EMPTY ELSE s,
                     equal |-> FALSE]
           path == PathFrom(n, s)
<1>1. s \in 0 .. n - 1 /\ Cardinality(DOMAIN head) = n
  <2>1. Cardinality(0 .. n - 1) = n
    BY FS_Interval
  <2>2. Contender(n, head0, win[0], 0)
    BY DEF Wins
  <2> QED
    BY <2>1, <2>2 DEF IsHead, Contender
<1>2. PICK K, u : Climbs(a, u, K) /\ Along(path, u, K)
  <2>1. n \in Nat \ {0}
    OBVIOUS
  <2> QED
    BY <1>1, <2>1, PathFacts
<1>3. Len(path) = K /\ K \in Nat \ {0} /\ DOMAIN path = 1 .. K /\ \A k \in 1 .. K : path[k] = u[k]
  <2>1. path \in Seq(Nat) /\ Len(path) = K /\ \A k \in 1 .. K : path[k] = u[k]
    BY <1>2 DEF Along
  <2>2. K \in Nat \ {0}
    BY <1>1, <1>2, WayUp DEF IsWayUp
  <2> HIDE DEF path
  <2> QED
    BY <2>1, <2>2
<1>4. Propagate(head, tree) =
        LET end == Upwards(head, start, path)
        IN  [tree |-> [end.tree EXCEPT !.last = end.value], equal |-> end.equal]
  BY <1>1, PropagateIs
<1> HIDE DEF path, start
<1>5. PICK c : ClimbsEach(head, start, path, c) /\ Upwards(head, start, path) = c[K]
  <2>1. Len(path) \in Nat /\ DOMAIN path = 1 .. Len(path)
    BY <1>3
  <2>2. \E c : ClimbsEach(head, start, path, c) /\ Upwards(head, start, path) = c[Len(path)]
    BY <2>1, UpwardsClimbs
  <2> QED
    BY <1>3, <2>2
<1>6. /\ c[0] = start
      /\ \A k \in 1 .. K : c[k] = Climb(head, c[k - 1], u[k])
  BY <1>3, <1>5 DEF ClimbsEach
<1>7. /\ \A k \in 0 .. K : u[k] \in 0 .. 2 * (n - 1)
      /\ \A k \in 1 .. K : u[k] \in 0 .. n - 2 /\ k - 1 \in 0 .. K /\ k \in 0 .. K
      /\ \A j, k \in 0 .. K : j # k => u[j] # u[k]
      /\ \A k \in 0 .. K : \A v \in 0 .. n - 2 :
           u[k] \in {LeftChild(v), RightChild(v)} => k + 1 \in 1 .. K /\ u[k + 1] = v
      /\ u[0] = a /\ u[K] = 0
  <2>1. /\ \A k \in 0 .. K : u[k] \in 0 .. 2 * (n - 1)
        /\ \A k \in 1 .. K : u[k] \in 0 .. n - 2
        /\ \A j, k \in 0 .. K : j # k => u[j] # u[k]
        /\ \A k \in 0 .. K : \A v \in 0 .. n - 2 :
             u[k] \in {LeftChild(v), RightChild(v)} => k + 1 \in 1 .. K /\ u[k + 1] = v
    <3>1. IsWayUp(n, u, K)
      BY <1>1, <1>2, WayUp
    <3> QED
      BY <3>1 DEF IsWayUp
  <2>2. u[0] = a /\ u[K] = 0
    BY <1>2 DEF Climbs
  <2>3. \A k \in 1 .. K : k - 1 \in 0 .. K /\ k \in 0 .. K
    BY <1>3
  <2> QED
    BY <2>1, <2>2, <2>3
<1>24. WonAlong(win, s, u, K)
  BY <1>1, <1>2, WinOnPath
<1> DEFINE Off(v) == \A k \in 0 .. K : u[k] # v
<1>8. ASSUME NEW v \in 0 .. 2 * (n - 1), Off(v)
      PROVE  win[v].s # s /\ Contender(n, head, win[v], v)
  <2>1. Contender(n, head0, win[v], v)
    BY DEF Wins
  <2>2. win[v].s # s
    <3> SUFFICES ASSUME win[v].s = s PROVE FALSE
      OBVIOUS
    <3>1. Below(n, s, v)
      BY <2>1 DEF Contender
    <3> QED
      BY <1>2, <1>8, <3>1 DEF Below
  <2> QED
    BY <2>1, <2>2 DEF Contender
<1>9. ASSUME NEW k \in 1 .. K
      PROVE  /\ Sibling(u, k) \in 0 .. 2 * (n - 1) /\ Off(Sibling(u, k))
             /\ \/ u[k - 1] = LeftChild(u[k]) /\ Sibling(u, k) = RightChild(u[k])
                \/ u[k - 1] = RightChild(u[k]) /\ Sibling(u, k) = LeftChild(u[k])
             /\ Contender(n, head, win[Sibling(u, k)], Sibling(u, k))
             /\ tree.values[u[k]] = win[Sibling(u, k)].s
             /\ withEqual => tree.equals[u[k]] = win[Sibling(u, k)].equal
  <2>1. SiblingOff(n, u, K, k)
    BY <1>1, <1>2, SiblingIsOff
  <2> DEFINE b == Sibling(u, k)
             v == u[k]
  <2>2. /\ b \in 0 .. 2 * (n - 1) /\ Off(b)
        /\ \/ u[k - 1] = LeftChild(v) /\ b = RightChild(v)
           \/ u[k - 1] = RightChild(v) /\ b = LeftChild(v)
    BY <2>1 DEF SiblingOff
  <2> HIDE DEF b
  <2>3. win[b].s # s /\ Contender(n, head, win[b], b)
    BY <1>8, <2>2
  <2>4. win[v].s = s
    BY <1>7, <1>24 DEF WonAlong
  <2>5. \/ Beats(head0, withEqual, win[LeftChild(v)], win[RightChild(v)], win[v],
                 tree.values[v], tree.equals[v])
        \/ Beats(head0, withEqual, win[RightChild(v)], win[LeftChild(v)], win[v],
                 tree.values[v], tree.equals[v])
    BY <1>7 DEF Wins
  <2>6. tree.values[v] = win[b].s /\ (withEqual => tree.equals[v] = win[b].equal)
    BY <2>2, <2>3, <2>4, <2>5 DEF Beats
  <2> HIDE DEF Off
  <2> QED
    BY <2>2, <2>3, <2>6 DEF b
<1> HIDE DEF Off
<1> DEFINE Good(k) == Climbed(n, head, tree, win, withEqual, u, c, k)
<1>10. Good(0)
  <2>1. c[0].tree = tree /\ DOMAIN c[0] = {"tree", "value", "equal"}
        /\ Comer(c, 0) = [s |-> IF head[s] = NoData THEN EMPTY ELSE s, equal |-> FALSE]
    BY <1>6 DEF start, Comer
  <2>2. Below(n, s, a)
    <3>1. n \in Nat \ {0}
      OBVIOUS
    <3> QED
      BY <1>1, <3>1, BelowItself
  <2>3. Contender(n, head, Comer(c, 0), u[0])
    <3> DEFINE r == Comer(c, 0)
    <3>1. r.s = (IF head[s] = NoData THEN EMPTY ELSE s) /\ r.equal = FALSE
          /\ DOMAIN r = {"s", "equal"}
      BY <2>1
    <3>2. Below(n, s, u[0])
      BY <1>7, <2>2
    <3> HIDE DEF r, a
    <3>3. Contender(n, head, r, u[0])
      BY <1>1, <3>1, <3>2 DEF Contender
    <3> QED
      BY <3>3 DEF r
  <2> QED
    BY <2>1, <2>3 DEF Climbed
<1>11. ASSUME NEW k \in 1 .. K, Good(k - 1) PROVE Good(k)
  BY <1>1, <1>2, <1>6, <1>9, <1>11, ClimbStepIsRight
<1>12. \A k \in 0 .. K : Good(k)
  <2> DEFINE B == {k \in 0 .. K : ~ Good(k)}
  <2> SUFFICES ASSUME B # {} PROVE FALSE
    OBVIOUS
  <2>1. PICK m \in B : \A k \in B : m <= k
    <3>1. B \in SUBSET Nat
      OBVIOUS
    <3> HIDE DEF B
    <3> QED
      BY <3>1, LeastNatural
  <2>2. m # 0
    BY <1>10, <2>1
  <2>3. m \in 1 .. K /\ m - 1 \in 0 .. K /\ m - 1 < m
    BY <1>3, <2>1, <2>2
  <2>4. Good(m - 1)
    BY <2>1, <2>3
  <2> HIDE DEF Good
  <2> QED
    BY <1>11, <2>1, <2>3, <2>4
<1> DEFINE At(v) == CHOOSE k \in 0 .. K : u[k] = v
           w == [v \in 0 .. 2 * (n - 1) |-> IF Off(v) THEN win[v] ELSE Comer(c, At(v))]
           t == [c[K].tree EXCEPT !.last = c[K].value]
<1>13. /\ \A k \in 0 .. K : w[u[k]] = Comer(c, k)
       /\ \A v \in 0 .. 2 * (n - 1) : Off(v) => w[v] = win[v]
  <2>1. ASSUME NEW k \in 0 .. K PROVE At(u[k]) = k /\ ~ Off(u[k])
    BY <1>7 DEF Off
  <2> HIDE DEF At
  <2> QED
    BY <1>7, <2>1
<1>14. DOMAIN w = 0 .. 2 * (n - 1)
  OBVIOUS
<1> HIDE DEF w, At
<1>15. Good(K) /\ K \in 0 .. K
  BY <1>3, <1>12
<1>16. /\ DOMAIN t = {"values", "equals", "last"} /\ t.last = c[K].value
       /\ t.values = c[K].tree.values /\ t.equals = c[K].tree.equals
       /\ DOMAIN t.values = 0 .. n - 2 /\ t.equals \in [0 .. n - 2 -> BOOLEAN]
  BY <1>15 DEF Climbed, IsTreeOf
<1>17. Propagate(head, tree) = [tree |-> t, equal |-> c[K].equal]
  BY <1>4, <1>5
<1> HIDE DEF t
<1>18. IsTreeOf(n, t)
  BY <1>16 DEF IsTreeOf
<1>19. ASSUME NEW v \in 0 .. 2 * (n - 1) PROVE Contender(n, head, w[v], v)
  <2>1. CASE Off(v)
    BY <1>8, <1>13, <2>1
  <2>2. CASE ~ Off(v)
    <3>1. PICK k \in 0 .. K : u[k] = v
      BY <2>2 DEF Off
    <3> QED
      BY <1>12, <1>13, <3>1 DEF Climbed
  <2> QED
    BY <2>1, <2>2
<1>20. ASSUME NEW i \in 0 .. n - 1
       PROVE  /\ w[n - 1 + i].s = IF head[i] = NoData THEN EMPTY ELSE i
              /\ ~ w[n - 1 + i].equal
  <2> DEFINE v == n - 1 + i
  <2>1. v \in 0 .. 2 * (n - 1) /\ v > n - 2
    OBVIOUS
  <2>2. CASE i = s
    <3>1. w[v] = Comer(c, 0)
      BY <1>3, <1>7, <1>13, <2>2
    <3> QED
      BY <1>6, <2>2, <3>1 DEF Comer, start
  <2>3. CASE i # s
    <3>1. Off(v)
      <4> SUFFICES ASSUME NEW k \in 0 .. K, u[k] = v PROVE FALSE
        BY DEF Off
      <4>1. k = 0 \/ k \in 1 .. K
        BY <1>3
      <4>2. u[k] = a \/ u[k] \in 0 .. n - 2
        BY <1>7, <4>1
      <4> QED
        BY <1>1, <2>1, <2>3, <4>2
    <3>2. w[v] = win[v]
      BY <1>13, <2>1, <3>1
    <3>3. win[v].s = (IF head0[i] = NoData THEN EMPTY ELSE i) /\ ~ win[v].equal
      BY DEF Wins
    <3> QED
      BY <2>3, <3>2, <3>3
  <2> QED
    BY <2>2, <2>3
<1>21. ASSUME NEW v \in 0 .. n - 2
       PROVE  \/ Beats(head, withEqual, w[LeftChild(v)], w[RightChild(v)], w[v],
                       t.values[v], t.equals[v])
              \/ Beats(head, withEqual, w[RightChild(v)], w[LeftChild(v)], w[v],
                       t.values[v], t.equals[v])
  <2>0. /\ v \in 0 .. 2 * (n - 1) /\ LeftChild(v) \in 0 .. 2 * (n - 1)
        /\ RightChild(v) \in 0 .. 2 * (n - 1)
    BY DEF LeftChild, RightChild
  <2>1. CASE Off(v)
    <3>1. Off(LeftChild(v)) /\ Off(RightChild(v))
      <4> SUFFICES ASSUME NEW k \in 0 .. K, u[k] \in {LeftChild(v), RightChild(v)} PROVE FALSE
        BY DEF Off
      <4>1. k + 1 \in 1 .. K /\ u[k + 1] = v
        BY <1>7
      <4>2. k + 1 \in 0 .. K
        BY <1>7, <4>1
      <4> QED
        BY <2>1, <4>1, <4>2 DEF Off
    <3>2. w[v] = win[v] /\ w[LeftChild(v)] = win[LeftChild(v)] /\ w[RightChild(v)] = win[RightChild(v)]
      BY <1>13, <2>0, <2>1, <3>1
    <3>3. t.values[v] = tree.values[v] /\ t.equals[v] = tree.equals[v]
      <4>1. \A k \in 1 .. K : u[k] # v
        BY <1>7, <2>1 DEF Off
      <4> QED
        BY <1>15, <1>16, <4>1 DEF Climbed
    <3> DEFINE l == win[LeftChild(v)]
               r == win[RightChild(v)]
    <3>4. l.s # s /\ r.s # s /\ Contender(n, head, l, LeftChild(v)) /\ Contender(n, head, r, RightChild(v))
      BY <1>8, <2>0, <3>1
    <3>5. /\ l.s # EMPTY => head[l.s] = head0[l.s]
          /\ r.s # EMPTY => head[r.s] = head0[r.s]
      BY <3>4 DEF Contender
    <3>6. \/ Beats(head0, withEqual, l, r, win[v], tree.values[v], tree.equals[v])
          \/ Beats(head0, withEqual, r, l, win[v], tree.values[v], tree.equals[v])
      BY DEF Wins
    <3> HIDE DEF l, r
    <3>7. \/ Beats(head, withEqual, l, r, win[v], tree.values[v], tree.equals[v])
          \/ Beats(head, withEqual, r, l, win[v], tree.values[v], tree.equals[v])
      BY <3>5, <3>6 DEF Beats
    <3> QED
      BY <3>2, <3>3, <3>7 DEF l, r
  <2>2. CASE ~ Off(v)
    <3>1. PICK k \in 0 .. K : u[k] = v
      BY <2>2 DEF Off
    <3>2. k \in 1 .. K
      <4>1. k # 0
        BY <1>1, <1>7, <3>1
      <4> QED
        BY <1>3, <4>1
    <3>3. k - 1 \in 0 .. K
      BY <1>7, <3>2
    <3> DEFINE b == Sibling(u, k)
    <3>4. w[v] = Comer(c, k) /\ w[u[k - 1]] = Comer(c, k - 1) /\ w[b] = win[b]
      BY <1>9, <1>13, <3>1, <3>2, <3>3
    <3>5. \/ u[k - 1] = LeftChild(v) /\ b = RightChild(v)
          \/ u[k - 1] = RightChild(v) /\ b = LeftChild(v)
      BY <1>9, <3>1, <3>2
    <3>6. \/ Beats(head, withEqual, Comer(c, k - 1), win[b], Comer(c, k), t.values[v], t.equals[v])
          \/ Beats(head, withEqual, win[b], Comer(c, k - 1), Comer(c, k), t.values[v], t.equals[v])
      BY <1>15, <1>16, <3>1, <3>2 DEF Climbed
    <3> HIDE DEF b
    <3> QED
      BY <3>4, <3>5, <3>6
  <2> QED
    BY <2>1, <2>2
<1>22. Wins(n, head, t, w, withEqual)
  BY <1>14, <1>19, <1>20, <1>21 DEF Wins
<1>23. t.last = w[0].s /\ c[K].equal = w[0].equal
  <2>1. w[0] = Comer(c, K)
    BY <1>7, <1>13, <1>15
  <2>2. Comer(c, K).s = c[K].value /\ Comer(c, K).equal = c[K].equal
    BY DEF Comer
  <2> HIDE DEF Good
  <2> QED
    BY <1>16, <2>1, <2>2
<1> QED
  BY <1>17, <1>18, <1>22, <1>23

\* Going up from the leaf of a stream that has data, the winners are no greater; one with
\* an equal key is another one's equal.
NoGreater(head, withEqual, win, s, u, K) ==
  \A k \in 0 .. K :
    /\ win[u[k]].s # EMPTY /\ head[win[u[k]].s] <= head[s]
    /\ withEqual => win[u[k]].s = s \/ head[win[u[k]].s] < head[s] \/ win[u[k]].equal

\* The winners on the way up from a stream that has a row are no greater than that row.
LEMMA WinnersAbove ==
  ASSUME NEW n \in Nat, n > 1, NEW head, IsHead(n, head), NEW tree, NEW win,
         NEW withEqual \in BOOLEAN, Wins(n, head, tree, win, withEqual),
         NEW s \in 0 .. n - 1, head[s] # NoData, NEW K, NEW u, Climbs(n - 1 + s, u, K)
  PROVE  NoGreater(head, withEqual, win, s, u, K)
<1> DEFINE Good(k) ==
      /\ win[u[k]].s # EMPTY /\ head[win[u[k]].s] <= head[s]
      /\ withEqual => win[u[k]].s = s \/ head[win[u[k]].s] < head[s] \/ win[u[k]].equal
           B == {k \in 0 .. K : ~ Good(k)}
<1> SUFFICES ASSUME B # {} PROVE FALSE
  BY DEF NoGreater
<1>0. IsWayUp(n, u, K) /\ K \in Nat /\ u[0] = n - 1 + s
  BY WayUp DEF Climbs
<1>1. PICK m \in B : \A k \in B : m <= k
  <2>1. B \in SUBSET Nat
    BY <1>0
  <2> HIDE DEF B
  <2> QED
    BY <2>1, LeastNatural
<1>2. head[s] \in Nat
  BY DEF IsHead
<1>3. m # 0
  <2>1. win[u[0]].s = s
    BY <1>0 DEF Wins
  <2>2. s # EMPTY
    BY DEF EMPTY
  <2>3. Good(0)
    BY <1>2, <2>1, <2>2
  <2> HIDE DEF Good
  <2> QED
    BY <1>1, <2>3
<1>4. m \in 1 .. K /\ m - 1 \in 0 .. K /\ Good(m - 1)
  <2>1. m \in 1 .. K /\ m - 1 \in 0 .. K /\ m - 1 < m
    BY <1>0, <1>1, <1>3
  <2> HIDE DEF Good
  <2> QED
    BY <1>1, <2>1
<1> DEFINE v == u[m]
           p == win[u[m - 1]]
           b == Sibling(u, m)
           d == win[b]
           w == win[v]
<1>5. v \in 0 .. n - 2 /\ SiblingOff(n, u, K, m) /\ u[m - 1] \in 0 .. 2 * (n - 1)
  BY <1>0, <1>4, SiblingIsOff DEF IsWayUp
<1>6. /\ Contender(n, head, p, u[m - 1]) /\ Contender(n, head, d, b)
  <2>1. b \in 0 .. 2 * (n - 1)
    BY <1>5 DEF SiblingOff
  <2> HIDE DEF b
  <2> QED
    BY <1>5, <2>1 DEF Wins
<1>7. \/ Beats(head, withEqual, p, d, w, tree.values[v], tree.equals[v])
      \/ Beats(head, withEqual, d, p, w, tree.values[v], tree.equals[v])
  <2>1. \/ Beats(head, withEqual, win[LeftChild(v)], win[RightChild(v)], w,
                 tree.values[v], tree.equals[v])
        \/ Beats(head, withEqual, win[RightChild(v)], win[LeftChild(v)], w,
                 tree.values[v], tree.equals[v])
    BY <1>5 DEF Wins
  <2>2. \/ u[m - 1] = LeftChild(v) /\ b = RightChild(v)
        \/ u[m - 1] = RightChild(v) /\ b = LeftChild(v)
    BY <1>5 DEF SiblingOff
  <2> HIDE DEF b, v
  <2> QED
    BY <2>1, <2>2
<1>8. /\ p.s # EMPTY /\ head[p.s] <= head[s] /\ head[p.s] \in Nat
      /\ (withEqual => p.s = s \/ head[p.s] < head[s] \/ p.equal)
      /\ (d.s # EMPTY => head[d.s] \in Nat)
  BY <1>4, <1>6 DEF Contender, IsHead
<1> HIDE DEF p, d, b, w
<1>9. /\ w.s # EMPTY /\ head[w.s] <= head[s]
      /\ (withEqual => w.s = s \/ head[w.s] < head[s] \/ w.equal)
  <2>1. CASE Beats(head, withEqual, p, d, w, tree.values[v], tree.equals[v])
    BY <1>8, <2>1 DEF Beats
  <2>2. CASE Beats(head, withEqual, d, p, w, tree.values[v], tree.equals[v])
    <3>1. /\ w.s = d.s /\ d.s # EMPTY /\ head[d.s] <= head[p.s]
          /\ (withEqual => w.equal = (d.equal \/ (p.s # EMPTY /\ head[d.s] = head[p.s])))
      BY <1>8, <2>2 DEF Beats
    <3>2. head[w.s] <= head[s] /\ (head[d.s] < head[p.s] => head[w.s] < head[s])
      BY <1>2, <1>8, <3>1
    <3>3. head[d.s] < head[p.s] \/ head[d.s] = head[p.s]
      BY <1>8, <3>1
    <3> QED
      BY <1>8, <3>1, <3>2, <3>3
  <2> QED
    BY <1>7, <2>1, <2>2
<1>10. Good(m)
  BY <1>9 DEF w
<1> HIDE DEF Good
<1> QED
  BY <1>1, <1>10

\* Another stream below node v is at the key of its winner.
HasEqual(n, head, win, v) ==
  \E s \in 0 .. n - 1 : s # win[v].s /\ head[s] # NoData /\ head[s] = head[win[v].s] /\ Below(n, s, v)

\* isEqual at the root: another stream has the same key as the winner.
LEMMA EqualsBelow ==
  ASSUME NEW n \in Nat, n > 1, NEW head, IsHead(n, head), NEW tree, NEW win,
         Wins(n, head, tree, win, TRUE), win[0].equal
  PROVE  HasEqual(n, head, win, 0)
<1> DEFINE B == {v \in 0 .. 2 * (n - 1) : win[v].equal /\ ~ HasEqual(n, head, win, v)}
<1> SUFFICES ASSUME B # {} PROVE FALSE
  <2>1. 0 \in 0 .. 2 * (n - 1)
    OBVIOUS
  <2> QED
    BY <2>1
<1>1. PICK m \in B : \A k \in B : k <= m
  <2>1. B \in SUBSET (0 .. 2 * (n - 1)) /\ 2 * (n - 1) \in Nat
    OBVIOUS
  <2> HIDE DEF B
  <2> QED
    BY <2>1, GreatestNatural
<1>2. m \in 0 .. n - 2
  <2> SUFFICES ASSUME m \notin 0 .. n - 2 PROVE FALSE
    OBVIOUS
  <2>1. m - (n - 1) \in 0 .. n - 1 /\ n - 1 + (m - (n - 1)) = m
    BY <1>1
  <2>2. ~ win[m].equal
    BY <2>1 DEF Wins
  <2> QED
    BY <1>1, <2>2
<1> DEFINE l == LeftChild(m)
           r == RightChild(m)
<1>3. l \in 0 .. 2 * (n - 1) /\ r \in 0 .. 2 * (n - 1) /\ l > m /\ r > m /\ m \in Nat
  BY <1>2 DEF LeftChild, RightChild
<1>4. Contender(n, head, win[l], l) /\ Contender(n, head, win[r], r)
  BY <1>3 DEF Wins
<1>5. PICK c \in {l, r}, d \in {l, r} :
        c # d /\ Beats(head, TRUE, win[c], win[d], win[m], tree.values[m], tree.equals[m])
  <2>1. \/ Beats(head, TRUE, win[l], win[r], win[m], tree.values[m], tree.equals[m])
        \/ Beats(head, TRUE, win[r], win[l], win[m], tree.values[m], tree.equals[m])
    BY <1>2 DEF Wins
  <2>2. l # r
    BY <1>2 DEF LeftChild, RightChild
  <2> HIDE DEF l, r
  <2> QED
    BY <2>1, <2>2
<1>6. win[c].equal \/ (win[d].s # EMPTY /\ head[win[c].s] = head[win[d].s])
  BY <1>1, <1>5 DEF Beats
<1>7. win[m].s = win[c].s /\ (win[d].s # EMPTY => win[c].s # EMPTY)
  BY <1>5 DEF Beats
<1>8. CASE win[c].equal
  <2>1. HasEqual(n, head, win, c)
    <3>1. c \in 0 .. 2 * (n - 1) /\ c > m
      BY <1>3, <1>5
    <3>2. c \notin B
      BY <1>1, <1>3, <3>1
    <3> QED
      BY <1>8, <3>1, <3>2
  <2>2. PICK s \in 0 .. n - 1 : /\ s # win[c].s /\ head[s] # NoData /\ head[s] = head[win[c].s]
                                /\ Below(n, s, c)
    BY <2>1 DEF HasEqual
  <2>3. Below(n, s, m)
    BY <1>3, <1>5, <2>2, BelowParent
  <2>4. HasEqual(n, head, win, m)
    BY <1>7, <2>2, <2>3 DEF HasEqual
  <2> QED
    BY <1>1, <2>4
<1>9. CASE win[d].s # EMPTY /\ head[win[c].s] = head[win[d].s]
  <2> DEFINE s == win[d].s
  <2>1. s \in 0 .. n - 1 /\ head[s] # NoData /\ Below(n, s, d)
    BY <1>4, <1>5, <1>9 DEF Contender
  <2>2. Below(n, win[c].s, c)
    BY <1>4, <1>5, <1>7, <1>9 DEF Contender
  <2>3. s # win[c].s
    <3> SUFFICES ASSUME s = win[c].s PROVE FALSE
      OBVIOUS
    <3>1. Below(n, s, c)
      BY <2>2
    <3> HIDE DEF s
    <3> DEFINE a == n - 1 + s
    <3>2. PICK K, u : Climbs(a, u, K)
      <4>1. n \in Nat \ {0}
        OBVIOUS
      <4> QED
        BY <2>1, <4>1, PathFacts
    <3>3. PICK i \in 0 .. K, j \in 0 .. K : u[i] = c /\ u[j] = d
      BY <2>1, <3>1, <3>2 DEF Below
    <3> HIDE DEF a, l, r
    <3>4. (c = l /\ d = r) \/ (c = r /\ d = l)
      BY <1>5
    <3> QED
      BY <1>3, <3>2, <3>3, <3>4, OneChild DEF l, r
  <2>4. Below(n, s, m)
    <3>1. d \in {LeftChild(m), RightChild(m)} /\ m \in Nat
      BY <1>3, <1>5
    <3> HIDE DEF s
    <3> QED
      BY <2>1, <3>1, BelowParent
  <2> HIDE DEF l, r
  <2>5. HasEqual(n, head, win, m)
    BY <1>7, <1>9, <2>1, <2>3, <2>4 DEF HasEqual
  <2> QED
    BY <1>1, <2>5
<1> QED
  BY <1>6, <1>8, <1>9

-----------------------------------------------------------------------------
(* What NextStream promises.                                               *)

\* r names the stream with the least key, if one has data, and tells whether another one
\* is at the same key.
IsLeast(n, head, last, equal, withEqual) ==
  /\ last = EMPTY => \A i \in 0 .. n - 1 : head[i] = NoData
  /\ last # EMPTY => /\ last \in 0 .. n - 1 /\ head[last] # NoData
                     /\ \A i \in 0 .. n - 1 : head[i] # NoData => head[last] <= head[i]
  /\ withEqual => /\ equal \in BOOLEAN
                  /\ equal <=> /\ last # EMPTY
                               /\ \E i \in 0 .. n - 1 : i # last /\ head[i] # NoData
                                                       /\ head[i] = head[last]

\* The winner of the tree is a least stream, and isEqual is true if and only if another one
\* equals it.
LEMMA WinnerIsLeast ==
  ASSUME NEW n \in Nat, n > 1, NEW head, IsHead(n, head), NEW tree, NEW win,
         NEW withEqual \in BOOLEAN, Wins(n, head, tree, win, withEqual)
  PROVE  IsLeast(n, head, win[0].s, win[0].equal, withEqual)
<1> DEFINE last == win[0].s
           equal == win[0].equal
<1>1. Contender(n, head, win[0], 0)
  BY DEF Wins
<1>2. ASSUME NEW i \in 0 .. n - 1, head[i] # NoData
      PROVE  /\ last # EMPTY /\ head[last] <= head[i]
             /\ withEqual => last = i \/ head[last] < head[i] \/ equal
  <2>1. PICK K, u : Climbs(n - 1 + i, u, K)
    <3>1. n \in Nat \ {0}
      OBVIOUS
    <3> QED
      BY <3>1, PathFacts
  <2>2. NoGreater(head, withEqual, win, i, u, K)
    BY <1>2, <2>1, WinnersAbove
  <2>3. K \in 0 .. K /\ u[K] = 0
    BY <2>1 DEF Climbs
  <2> QED
    BY <2>2, <2>3 DEF NoGreater
<1>3. last # EMPTY => last \in 0 .. n - 1 /\ head[last] # NoData
  BY <1>1 DEF Contender
<1>4. equal \in BOOLEAN /\ (equal => last # EMPTY)
  BY <1>1 DEF Contender
<1>5. ASSUME withEqual, equal
      PROVE  \E i \in 0 .. n - 1 : i # last /\ head[i] # NoData /\ head[i] = head[last]
  <2>1. Wins(n, head, tree, win, TRUE)
    BY <1>5
  <2>2. HasEqual(n, head, win, 0)
    BY <1>5, <2>1, EqualsBelow
  <2> QED
    BY <2>2 DEF HasEqual
<1>6. ASSUME withEqual, NEW i \in 0 .. n - 1, i # last, head[i] # NoData, head[i] = head[last]
      PROVE  equal
  <2>1. head[last] \in Nat
    BY <1>6 DEF IsHead
  <2>2. ~ (head[last] < head[i])
    BY <1>6, <2>1
  <2> QED
    BY <1>2, <1>6, <2>2
<1> HIDE DEF last, equal
<1>7. IsLeast(n, head, last, equal, withEqual)
  BY <1>2, <1>3, <1>4, <1>5, <1>6 DEF IsLeast
<1> QED
  BY <1>7 DEF last, equal

\* The tree nothing has gone through, or the one NextStream left when only the stream it
\* returned has moved on.
IsReady(n, head, tree, withEqual) ==
  /\ IsTreeOf(n, tree)
  /\ \/ n = 1
     \/ IsFresh(n, tree)
     \/ /\ tree.last # EMPTY
        /\ \E was, win : /\ IsHead(n, was) /\ Wins(n, was, tree, win, withEqual)
                         /\ tree.last = win[0].s
                         /\ \A i \in 0 .. n - 1 : i # tree.last => head[i] = was[i]

StaysReady(n, head, tree, withEqual) ==
  tree.last # EMPTY => \A next : IsHead(n, next) /\ (\A i \in 0 .. n - 1 : i # tree.last => next[i] = head[i])
                                   => IsReady(n, next, tree, withEqual)

\* A new tree is ready for NextStream, whatever the streams begin with.
LEMMA NewTreeIsReady ==
  ASSUME NEW n \in Nat \ {0}, NEW head, NEW withEqual PROVE IsReady(n, head, NewTree(n), withEqual)
<1>1. IsFresh(n, NewTree(n))
  BY NewTreeIsFresh
<1> QED
  BY <1>1 DEF IsReady, IsFresh

IsRightNext(n, head, r, withEqual) ==
  IsLeast(n, head, r.tree.last, r.equal, withEqual) /\ StaysReady(n, head, r.tree, withEqual)

\* NextWithEqual returns the stream with the least key and whether another stream is at
\* it, for any number of streams and any keys, from any tree that merging has made so
\* far; and the tree it leaves is good for the next call.
THEOREM NextIsLeast ==
  ASSUME NEW n \in Nat \ {0}, NEW head, IsHead(n, head), NEW tree, NEW withEqual \in BOOLEAN,
         IsReady(n, head, tree, withEqual)
  PROVE  IsRightNext(n, head, NextWithEqual(head, tree, withEqual), withEqual)
<1> DEFINE r == NextWithEqual(head, tree, withEqual)
<1>0. Cardinality(DOMAIN head) = n
  <2>1. Cardinality(0 .. n - 1) = n
    BY FS_Interval
  <2> QED
    BY <2>1 DEF IsHead
<1>1. CASE n = 1
  <2> DEFINE last == IF head[0] = NoData THEN EMPTY ELSE 0
             t == [tree EXCEPT !.last = last]
  <2>1. r = [tree |-> t, equal |-> FALSE]
    BY <1>0, <1>1 DEF NextWithEqual
  <2>2. DOMAIN t = DOMAIN tree /\ t.values = tree.values /\ t.equals = tree.equals
    OBVIOUS
  <2>3. IsTreeOf(n, t)
    <3> HIDE DEF t
    <3> QED
      BY <2>2 DEF IsReady, IsTreeOf
  <2>4. t.last = last
    BY DEF IsReady, IsTreeOf
  <2> HIDE DEF t
  <2>5. StaysReady(n, head, t, withEqual)
    BY <1>1, <2>3 DEF StaysReady, IsReady
  <2>6. 0 .. n - 1 = {0}
    BY <1>1
  <2>7. last # EMPTY => last = 0 /\ head[0] # NoData /\ head[0] \in Nat
    BY <2>6 DEF IsHead
  <2>8. last = EMPTY => head[0] = NoData
    BY DEF EMPTY
  <2> HIDE DEF last
  <2>9. IsLeast(n, head, last, FALSE, withEqual)
    BY <2>6, <2>7, <2>8 DEF IsLeast
  <2> HIDE DEF r
  <2>10. r.tree = t /\ r.equal = FALSE
    BY <2>1
  <2> QED
    BY <2>4, <2>5, <2>9, <2>10 DEF IsRightNext, r
<1>2. CASE n > 1
  <2> DEFINE Chose(x) == /\ IsTreeOf(n, x.tree)
                         /\ \E win : /\ Wins(n, head, x.tree, win, withEqual)
                                     /\ x.tree.last = win[0].s
                                     /\ withEqual => x.equal = win[0].equal
  <2>1. ASSUME Chose(r)
        PROVE  IsRightNext(n, head, r, withEqual)
    <3> HIDE DEF r
    <3>1. PICK win : /\ Wins(n, head, r.tree, win, withEqual) /\ r.tree.last = win[0].s
                     /\ withEqual => r.equal = win[0].equal
      BY <2>1
    <3>2. IsLeast(n, head, win[0].s, win[0].equal, withEqual)
      BY <1>2, <3>1, WinnerIsLeast
    <3>3. IsLeast(n, head, r.tree.last, r.equal, withEqual)
      BY <3>1, <3>2 DEF IsLeast
    <3>4. StaysReady(n, head, r.tree, withEqual)
      BY <2>1, <3>1 DEF StaysReady, IsReady
    <3> QED
      BY <3>3, <3>4 DEF IsRightNext
  <2>2. CASE tree.last # EMPTY
    <3>1. r = Propagate(head, tree)
      BY <1>0, <1>2, <2>2 DEF NextWithEqual
    <3>2. PICK was, win : /\ IsHead(n, was) /\ Wins(n, was, tree, win, withEqual)
                          /\ tree.last = win[0].s
                          /\ \A i \in 0 .. n - 1 : i # tree.last => head[i] = was[i]
      BY <1>2, <2>2 DEF IsReady, IsFresh
    <3>3. IsTreeOf(n, tree)
      BY DEF IsReady
    <3> DEFINE s == tree.last
               p == Propagate(head, tree)
    <3>4. s = tree.last /\ s = win[0].s /\ s # EMPTY /\ \A i \in 0 .. n - 1 : i # s => head[i] = was[i]
      BY <2>2, <3>2
    <3>5. /\ IsTreeOf(n, p.tree)
          /\ \E w : /\ Wins(n, head, p.tree, w, withEqual)
                    /\ p.tree.last = w[0].s /\ p.equal = w[0].equal
      <4> HIDE DEF s
      <4> QED
        BY <1>2, <3>2, <3>3, <3>4, PropagateWins
    <3> HIDE DEF p, r
    <3>6. r = p
      BY <3>1 DEF p
    <3>7. Chose(r)
      BY <3>5, <3>6
    <3> QED
      BY <2>1, <3>7 DEF r
  <2>3. CASE tree.last = EMPTY
    <3>1. r = First(head, tree, withEqual)
      BY <1>0, <1>2, <2>3 DEF NextWithEqual
    <3>2. IsFresh(n, tree)
      BY <1>2, <2>3 DEF IsReady
    <3> DEFINE p == First(head, tree, withEqual)
    <3>3. /\ IsTreeOf(n, p.tree)
          /\ \E win : /\ Wins(n, head, p.tree, win, withEqual)
                      /\ p.tree.last = win[0].s /\ p.equal = (withEqual /\ win[0].equal)
      BY <1>2, <3>2, FirstWins
    <3> HIDE DEF p, r
    <3>4. PICK win : /\ Wins(n, head, p.tree, win, withEqual)
                     /\ p.tree.last = win[0].s /\ p.equal = (withEqual /\ win[0].equal)
      BY <3>3
    <3>5. win[0].equal \in BOOLEAN
      BY <3>4 DEF Wins, Contender
    <3>6. withEqual => p.equal = win[0].equal
      BY <3>4, <3>5
    <3>7. r = p
      BY <3>1 DEF p
    <3>8. Chose(r)
      BY <3>3, <3>4, <3>6, <3>7
    <3> QED
      BY <2>1, <3>8 DEF r
  <2>4. tree.last = EMPTY \/ tree.last # EMPTY
    OBVIOUS
  <2> HIDE DEF r, Chose
  <2> QED
    BY <2>2, <2>3, <2>4
<1>3. n = 1 \/ n > 1
  OBVIOUS
<1> QED
  BY <1>1, <1>2, <1>3
=============================================================================
