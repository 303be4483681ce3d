-------------------------- MODULE SpillSort_proofs --------------------------
(***************************************************************************)
(* Proofs about SpillSort for any input, any number of rows in a batch, in *)
(* a write and in the buffer, any memory threshold, and exceptions at any  *)
(* write, open or read: what comes out is the beginning of a sort of what  *)
(* went in, all of it when the operator says it is finished; the files     *)
(* that outlive Close are those without a reader when GetOutput gave up    *)
(* its spiller; no reader is closed before it is opened.                   *)
(*                                                                         *)
(* The invariant speaks of runs that the program no longer has: w[j] is    *)
(* the sequence of rows that was sorted when file j was begun.  What is on *)
(* the disk, in the buffer and still to be written is w[j] in pieces, a    *)
(* stream stands at a place of it, and the rows that are out are those     *)
(* before these places, in order.                                          *)
(***************************************************************************)
EXTENDS SpillSort, Foundations_proofs

-----------------------------------------------------------------------------
(* Sequences of rows.                                                      *)

Row == [key : Nat, id : Nat]

\* In the order of their keys; no row twice; no number twice.
Ascending(s)   == \A i, j \in 1 .. Len(s) : i < j => s[i].key <= s[j].key
Distinct(s)    == \A i, j \in 1 .. Len(s) : i # j => s[i] # s[j]
OwnIds(s)      == \A i, j \in 1 .. Len(s) : i # j => s[i].id # s[j].id

\* s is the set S of rows, sorted.
IsSorting(S, s) ==
  s \in Seq(S) /\ Ascending(s) /\ Distinct(s) /\ \A x \in S : \E i \in 1 .. Len(s) : s[i] = x

\* Numbers up to i do not all have one less.
LEMMA NoSqueeze ==
  ASSUME NEW n \in Nat, NEW m \in Nat, m < n, NEW f \in [1 .. n -> 1 .. m]
  PROVE  \E i, j \in 1 .. n : i # j /\ f[i] = f[j]
<1>1. IsFiniteSet(1 .. n) /\ Cardinality(1 .. n) = n /\ IsFiniteSet(1 .. m) /\ Cardinality(1 .. m) = m
  BY FS_Interval
<1> QED
  BY <1>1, FS_PigeonHole

\* What ToSet holds.
LEMMA ElementsOf ==
  ASSUME NEW S, NEW s \in Seq(S)
  PROVE  /\ ToSet(s) \in SUBSET S /\ \A x : x \in ToSet(s) <=> \E i \in 1 .. Len(s) : s[i] = x
  BY DEF ToSet

\* The rows before r in S.
Before(S, r) == {q \in S : Earlier(q, r)}

\* A row that is earlier has fewer rows before it.
LEMMA EarlierRanks ==
  ASSUME NEW S \in SUBSET Row, IsFiniteSet(S), NEW a \in S, NEW b \in S, Earlier(a, b)
  PROVE  Cardinality(Before(S, a)) < Cardinality(Before(S, b))
<1> DEFINE A == Before(S, a)
           B == Before(S, b)
<1>1. IsFiniteSet(B)
  BY FS_Subset DEF Before
<1>2. A \in SUBSET B
  BY DEF Before, Earlier, Row
<1>3. a \in B /\ a \notin A
  BY DEF Before, Earlier, Row
<1> HIDE DEF A, B
<1>4. /\ IsFiniteSet(A) /\ Cardinality(A) <= Cardinality(B)
      /\ Cardinality(A) # Cardinality(B)
  BY <1>1, <1>2, <1>3, FS_Subset
<1>5. Cardinality(A) \in Nat /\ Cardinality(B) \in Nat
  BY <1>1, <1>4, FS_CardinalityType
<1>6. Cardinality(A) < Cardinality(B)
  BY <1>4, <1>5
<1> QED
  BY <1>6 DEF A, B

\* In a set of rows with numbers of their own every place from 0 on is some row's.
LEMMA EveryRank ==
  ASSUME NEW S \in SUBSET Row, IsFiniteSet(S), NEW n \in Nat, Cardinality(S) = n,
         \A a, b \in S : a # b => a.id # b.id, NEW i \in 1 .. n
  PROVE  \E r \in S : Cardinality(Before(S, r)) = i - 1
<1> DEFINE f == [r \in S |-> Cardinality(Before(S, r)) + 1]
<1>1. ASSUME NEW r \in S PROVE Cardinality(Before(S, r)) \in 0 .. n - 1
  <2>1. IsFiniteSet(Before(S, r)) /\ Cardinality(Before(S, r)) <= n /\ Cardinality(Before(S, r)) # n
    <3>1. Before(S, r) \in SUBSET S /\ r \notin Before(S, r)
      BY DEF Before, Earlier, Row
    <3> QED
      BY <3>1, FS_Subset
  <2>2. Cardinality(Before(S, r)) \in Nat
    BY <2>1, FS_CardinalityType
  <2> QED
    BY <2>1, <2>2
<1>2. ASSUME NEW a \in S, NEW b \in S, a # b PROVE f[a] # f[b]
  <2>1. Earlier(a, b) \/ Earlier(b, a)
    BY <1>2 DEF Earlier, Row
  <2>2. Cardinality(Before(S, a)) < Cardinality(Before(S, b))
        \/ Cardinality(Before(S, b)) < Cardinality(Before(S, a))
    BY <2>1, EarlierRanks
  <2>3. Cardinality(Before(S, a)) \in Nat /\ Cardinality(Before(S, b)) \in Nat
    BY <1>1
  <2> QED
    BY <2>2, <2>3
<1>3. f \in [S -> 1 .. n]
  BY <1>1
<1> HIDE DEF f
<1>4. f \in Injection(S, 1 .. n)
  BY <1>2, <1>3 DEF Injection, IsInjective
<1>5. IsFiniteSet(1 .. n) /\ Cardinality(1 .. n) = n
  BY FS_Interval
<1>6. f \in Surjection(S, 1 .. n)
  BY <1>4, <1>5, FS_Injection
<1>7. PICK r \in S : f[r] = i
  BY <1>6 DEF Surjection
<1>8. Cardinality(Before(S, r)) + 1 = i /\ Cardinality(Before(S, r)) \in Nat
  BY <1>1, <1>7 DEF f
<1> QED
  BY <1>8

\* There are as many rows in a sequence as it is long if their numbers are their own.
LEMMA SizeOfRows ==
  ASSUME NEW s \in Seq(Row), OwnIds(s)
  PROVE  IsFiniteSet(ToSet(s)) /\ Cardinality(ToSet(s)) = Len(s)
<1> DEFINE n == Len(s)
           S == ToSet(s)
<1>1. n \in Nat /\ IsFiniteSet(1 .. n) /\ Cardinality(1 .. n) = n /\ s \in [1 .. n -> Row]
  BY LenProperties, FS_Interval
<1>2. S = {s[i] : i \in 1 .. n}
  BY <1>1 DEF ToSet
<1> HIDE DEF n, S
<1> DEFINE f == [i \in 1 .. n |-> s[i]]
<1>3. f \in [1 .. n -> S] /\ \A x \in S : \E i \in 1 .. n : f[i] = x
  BY <1>2
<1>4. \A i, j \in 1 .. n : i # j => f[i] # f[j]
  BY DEF OwnIds, n
<1> HIDE DEF f
<1>5. f \in Surjection(1 .. n, S) /\ f \in Injection(1 .. n, S)
  BY <1>3, <1>4 DEF Surjection, Injection, IsInjective
<1>6. IsFiniteSet(S) /\ Cardinality(S) = n
  BY <1>1, <1>5, FS_Surjection
<1> QED
  BY <1>6 DEF n, S

\* Sorting by key sorts.
LEMMA ByKeySorts ==
  ASSUME NEW s \in Seq(Row), OwnIds(s)
  PROVE  IsSorting(ToSet(s), ByKey(s)) /\ Len(ByKey(s)) = Len(s)
<1> DEFINE n == Len(s)
           S == ToSet(s)
           t == ByKey(s)
<1>1. n \in Nat /\ DOMAIN s = 1 .. n /\ S \in SUBSET Row /\ IsFiniteSet(S) /\ Cardinality(S) = n
  BY LenProperties, ElementsOf, SizeOfRows
<1>2. \A a, b \in S : a # b => a.id # b.id
  <2> SUFFICES ASSUME NEW a \in S, NEW b \in S, a # b PROVE a.id # b.id
    OBVIOUS
  <2>1. PICK i \in 1 .. n, j \in 1 .. n : a = s[i] /\ b = s[j]
    BY <1>1 DEF ToSet
  <2> QED
    BY <2>1 DEF OwnIds
<1>3. t = [i \in 1 .. n |-> CHOOSE r \in S : Cardinality(Before(S, r)) = i - 1]
  BY <1>1 DEF ByKey, Before
<1> HIDE DEF n, S, t
<1>4. ASSUME NEW i \in 1 .. n PROVE t[i] \in S /\ Cardinality(Before(S, t[i])) = i - 1
  <2>1. \E r \in S : Cardinality(Before(S, r)) = i - 1
    BY <1>1, <1>2, EveryRank
  <2> QED
    BY <1>3, <2>1
<1>5. t \in Seq(S) /\ Len(t) = n
  <2>1. t \in [1 .. n -> S]
    BY <1>3, <1>4
  <2> QED
    BY <1>1, <2>1
<1>6. Distinct(t)
  <2> SUFFICES ASSUME NEW i \in 1 .. n, NEW j \in 1 .. n, i # j, t[i] = t[j] PROVE FALSE
    BY <1>5 DEF Distinct
  <2>1. i - 1 = j - 1
    BY <1>4
  <2> QED
    BY <2>1
<1>7. Ascending(t)
  <2> SUFFICES ASSUME NEW i \in 1 .. n, NEW j \in 1 .. n, i < j, ~ (t[i].key <= t[j].key) PROVE FALSE
    BY <1>5 DEF Ascending
  <2> DEFINE a == t[i]
             b == t[j]
  <2>1. a \in S /\ b \in S /\ Cardinality(Before(S, a)) = i - 1 /\ Cardinality(Before(S, b)) = j - 1
    BY <1>4
  <2> HIDE DEF a, b
  <2>2. a \in Row /\ b \in Row
    BY <1>1, <2>1
  <2>3. ~ (a.key <= b.key)
    BY DEF a, b
  <2>4. Earlier(b, a)
    BY <2>2, <2>3 DEF Row, Earlier
  <2>5. Cardinality(Before(S, b)) < Cardinality(Before(S, a))
    BY <1>1, <2>1, <2>4, EarlierRanks
  <2> QED
    BY <2>1, <2>5
<1>8. \A x \in S : \E i \in 1 .. Len(t) : t[i] = x
  <2> DEFINE f == [i \in 1 .. n |-> t[i]]
  <2>1. f \in [1 .. n -> S] /\ \A i, j \in 1 .. n : i # j => f[i] # f[j]
    BY <1>4, <1>5, <1>6 DEF Distinct
  <2>2. \A i \in 1 .. n : f[i] = t[i]
    OBVIOUS
  <2> HIDE DEF f
  <2>3. f \in Injection(1 .. n, S)
    BY <2>1 DEF Injection, IsInjective
  <2>4. Cardinality(1 .. n) = n
    BY <1>1, FS_Interval
  <2>5. f \in Surjection(1 .. n, S)
    BY <1>1, <2>3, <2>4, FS_Injection
  <2> QED
    BY <1>5, <2>2, <2>5 DEF Surjection
<1>9. IsSorting(S, t) /\ Len(t) = n
  BY <1>5, <1>6, <1>7, <1>8 DEF IsSorting
<1> QED
  BY <1>9 DEF n, S, t

\* d is the beginning of a sorting of the rows S, up to the order of equal keys.
IsBeginning(S, d) ==
  /\ d \in Seq(S) /\ Ascending(d) /\ Distinct(d)
  /\ \A x \in S : (\A i \in 1 .. Len(d) : d[i] # x) => \A i \in 1 .. Len(d) : d[i].key <= x.key

\* Its keys are those every sorting of S begins with.
LEMMA SameKeys ==
  ASSUME NEW S \in SUBSET Row, NEW s, IsSorting(S, s), NEW d, IsBeginning(S, d),
         NEW p \in 1 .. Len(d)
  PROVE  p <= Len(s) /\ d[p].key = s[p].key
<1> DEFINE n == Len(s)
           m == Len(d)
<1>1. /\ n \in Nat /\ m \in Nat /\ s \in [1 .. n -> S] /\ d \in [1 .. m -> S]
  BY LenProperties DEF IsSorting, IsBeginning
<1>2. /\ \A i \in 1 .. n : s[i] \in S /\ s[i].key \in Nat
      /\ \A i \in 1 .. m : d[i] \in S /\ d[i].key \in Nat
  <2>1. \A x \in S : x.key \in Nat
    BY DEF Row
  <2> HIDE DEF n, m
  <2> QED
    BY <1>1, <2>1
<1>3. \A x \in S : \E i \in 1 .. n : s[i] = x
  BY DEF IsSorting
<1>4. /\ \A i, j \in 1 .. n : i < j => s[i].key <= s[j].key
      /\ \A i, j \in 1 .. n : i # j => s[i] # s[j]
      /\ \A i, j \in 1 .. m : i < j => d[i].key <= d[j].key
      /\ \A i, j \in 1 .. m : i # j => d[i] # d[j]
  BY DEF IsSorting, IsBeginning, Ascending, Distinct
<1>5. \A x \in S : (\A i \in 1 .. m : d[i] # x) => \A i \in 1 .. m : d[i].key <= x.key
  BY DEF IsBeginning
<1>6. p \in 1 .. m
  OBVIOUS
<1> HIDE DEF n, m
<1>7. ASSUME p > n \/ d[p].key < s[p].key PROVE FALSE   \* too few rows to come before
  <2> DEFINE f == [i \in 1 .. p |-> CHOOSE j \in 1 .. n : s[j] = d[i]]
  <2>1. ASSUME NEW i \in 1 .. p PROVE f[i] \in 1 .. n /\ s[f[i]] = d[i]
    <3>1. i \in 1 .. m
      BY <1>1, <1>6
    <3> QED
      BY <1>2, <1>3, <3>1
  <2> HIDE DEF f
  <2>2. ASSUME NEW i \in 1 .. p PROVE f[i] \in 1 .. p - 1
    <3>1. i \in 1 .. m /\ (i = p \/ i < p)
      BY <1>1, <1>6
    <3>2. d[i].key <= d[p].key
      BY <1>2, <1>4, <1>6, <3>1
    <3>3. CASE p > n
      BY <1>1, <1>6, <2>1, <3>3
    <3>4. CASE p <= n
      <4>1. d[p].key < s[p].key /\ p \in 1 .. n
        BY <1>1, <1>6, <1>7, <3>4
      <4>2. f[i] >= p => s[p].key <= s[f[i]].key
        BY <1>1, <1>2, <1>4, <2>1, <4>1
      <4>3. ~ (f[i] >= p)
        <5>1. s[f[i]].key = d[i].key
          BY <2>1
        <5> QED
          BY <1>2, <1>6, <3>1, <3>2, <4>1, <4>2, <5>1
      <4> QED
        BY <1>1, <1>6, <2>1, <4>3
    <3> QED
      BY <1>1, <1>6, <3>3, <3>4
  <2>3. f \in [1 .. p -> 1 .. p - 1]
    <3>1. DOMAIN f = 1 .. p /\ f = [i \in 1 .. p |-> f[i]]
      BY DEF f
    <3> QED
      BY <2>2, <3>1
  <2>4. PICK i \in 1 .. p, j \in 1 .. p : i # j /\ f[i] = f[j]
    <3>1. p \in Nat /\ p - 1 \in Nat /\ p - 1 < p
      BY <1>1, <1>6
    <3> QED
      BY <2>3, <3>1, NoSqueeze
  <2>5. d[i] = d[j] /\ i \in 1 .. m /\ j \in 1 .. m
    BY <1>1, <1>6, <2>1, <2>4
  <2> QED
    BY <1>4, <2>4, <2>5
<1>8. ASSUME p <= n, s[p].key < d[p].key PROVE FALSE   \* a row that comes before is missing
  <2> DEFINE f == [i \in 1 .. p |-> CHOOSE j \in 1 .. m : d[j] = s[i]]
  <2>0. \A i \in 1 .. p : i \in 1 .. n /\ p \in 1 .. n
    BY <1>1, <1>6, <1>8
  <2>1. ASSUME NEW i \in 1 .. p PROVE f[i] \in 1 .. m /\ d[f[i]] = s[i] /\ s[i].key < d[p].key
    <3>1. s[i].key <= s[p].key
      <4>1. i < p \/ i = p
        BY <1>1, <1>6
      <4> QED
        BY <1>2, <1>4, <2>0, <4>1
    <3>2. s[i].key < d[p].key
      BY <1>2, <1>6, <1>8, <2>0, <3>1
    <3>3. ~ (d[p].key <= s[i].key)
      BY <1>2, <1>6, <2>0, <3>2
    <3>4. \E j \in 1 .. m : d[j] = s[i]
      BY <1>2, <1>5, <1>6, <2>0, <3>3
    <3> QED
      BY <3>2, <3>4
  <2> HIDE DEF f
  <2>2. ASSUME NEW i \in 1 .. p PROVE f[i] \in 1 .. p - 1
    <3>1. f[i] >= p => d[p].key <= d[f[i]].key
      BY <1>1, <1>2, <1>4, <1>6, <2>1
    <3>2. ~ (f[i] >= p)
      <4>1. d[f[i]].key = s[i].key /\ s[i].key < d[p].key
        BY <2>1
      <4> QED
        BY <1>2, <1>6, <2>0, <3>1, <4>1
    <3> QED
      BY <1>1, <1>6, <2>1, <3>2
  <2>3. f \in [1 .. p -> 1 .. p - 1]
    <3>1. DOMAIN f = 1 .. p /\ f = [i \in 1 .. p |-> f[i]]
      BY DEF f
    <3> QED
      BY <2>2, <3>1
  <2>4. PICK i \in 1 .. p, j \in 1 .. p : i # j /\ f[i] = f[j]
    <3>1. p \in Nat /\ p - 1 \in Nat /\ p - 1 < p
      BY <1>1, <1>6
    <3> QED
      BY <2>3, <3>1, NoSqueeze
  <2>5. s[i] = s[j] /\ i \in 1 .. n /\ j \in 1 .. n
    BY <2>0, <2>1, <2>4
  <2> QED
    BY <1>4, <2>4, <2>5
<1>9. p <= n /\ d[p].key = s[p].key
  <2>1. p <= n
    BY <1>1, <1>6, <1>7
  <2>2. p \in 1 .. n
    BY <1>1, <1>6, <2>1
  <2>3. d[p].key \in Nat /\ s[p].key \in Nat
    BY <1>2, <1>6, <2>2
  <2>4. ~ (d[p].key < s[p].key) /\ ~ (s[p].key < d[p].key)
    BY <1>7, <1>8, <2>1
  <2> QED
    BY <2>1, <2>3, <2>4
<1> QED
  BY <1>9 DEF n

-----------------------------------------------------------------------------
(* What was given and what was delivered.                                  *)

Numbered == given \in Seq(Row) /\ \A i \in 1 .. Len(given) : given[i].id = i

Delivered ==
  /\ Numbered /\ IsBeginning(ToSet(given), delivered)
  /\ finished => Len(delivered) = Len(given)

\* A row that was given is found at its number.
LEMMA NumberedRows ==
  ASSUME Numbered
  PROVE  /\ OwnIds(given) /\ ToSet(given) \in SUBSET Row
         /\ \A x \in ToSet(given) : x.id \in 1 .. Len(given) /\ given[x.id] = x
<1>1. OwnIds(given)
  BY DEF Numbered, OwnIds
<1>2. ToSet(given) \in SUBSET Row /\ \A x : x \in ToSet(given) <=> \E i \in 1 .. Len(given) : given[i] = x
  BY ElementsOf DEF Numbered
<1>3. ASSUME NEW x \in ToSet(given) PROVE x.id \in 1 .. Len(given) /\ given[x.id] = x
  <2>1. PICK i \in 1 .. Len(given) : given[i] = x
    BY <1>2
  <2>2. x.id = i
    BY <2>1 DEF Numbered
  <2> QED
    BY <2>1, <2>2
<1> QED
  BY <1>1, <1>2, <1>3

\* The beginning of a sort that Delivered keeps is what OutputIsSorted asks of the output.
LEMMA DeliveredIsSorted == ASSUME Delivered PROVE OutputIsSorted
<1> DEFINE S == ToSet(given)
           t == ByKey(given)
           d == delivered
           keysOf(rows) == [i \in DOMAIN rows |-> rows[i].key]
<1>1. /\ OwnIds(given) /\ S \in SUBSET Row /\ given \in Seq(Row)
      /\ \A x \in S : x.id \in 1 .. Len(given) /\ given[x.id] = x
  BY NumberedRows DEF Delivered, Numbered
<1>2. IsSorting(S, t) /\ Len(t) = Len(given)
  BY <1>1, ByKeySorts
<1>3. IsBeginning(S, d) /\ (finished => Len(d) = Len(given))
  BY DEF Delivered
<1> HIDE DEF S, t, d
<1>4. /\ t \in Seq(S) /\ d \in Seq(S) /\ Len(t) \in Nat /\ Len(d) \in Nat
      /\ DOMAIN t = 1 .. Len(t) /\ DOMAIN d = 1 .. Len(d)
      /\ \A i \in 1 .. Len(t) : t[i] \in S
      /\ \A i \in 1 .. Len(d) : d[i] \in S
  BY <1>2, <1>3, LenProperties, ElementOfSeq DEF IsSorting, IsBeginning
<1>5. \A p \in 1 .. Len(d) : p <= Len(t) /\ d[p].key = t[p].key
  BY <1>1, <1>2, <1>3, SameKeys, SMTT(40)
<1>6. Len(d) <= Len(t)
  <2>1. Len(d) # 0 => Len(d) \in 1 .. Len(d)
    BY <1>4
  <2> QED
    BY <1>4, <1>5, <2>1
<1>7. keysOf(d) = SubSeq(keysOf(t), 1, Len(d))
  <2> DEFINE kd == keysOf(d)
             kt == keysOf(t)
             sub == SubSeq(kt, 1, Len(d))
  <2>0. \A x \in S : x.key \in Nat
    BY <1>1 DEF Row
  <2>1. /\ kd \in Seq(Nat) /\ Len(kd) = Len(d) /\ \A i \in 1 .. Len(d) : kd[i] = d[i].key
        /\ \A i \in 1 .. Len(t) : kt[i] = t[i].key /\ kt[i] \in Nat
    BY <1>4, <2>0
  <2> HIDE DEF kd, kt
  <2>2. \A i \in 1 .. Len(d) : kt[i] \in Nat /\ kt[i] = d[i].key
    BY <1>4, <1>5, <1>6, <2>1
  <2>3. /\ sub \in Seq(Nat) /\ Len(sub) = IF 1 <= Len(d) THEN Len(d) - 1 + 1 ELSE 0
        /\ \A i \in 1 .. Len(d) - 1 + 1 : sub[i] = kt[1 + i - 1]
    <3>1. 1 \in Int /\ Len(d) \in Int
      BY <1>4
    <3>2. \A i \in 1 .. Len(d) : kt[i] \in Nat
      BY <2>2
    <3> QED
      BY <3>1, <3>2, SubSeqProperties
  <2>4. Len(sub) = Len(d) /\ \A i \in 1 .. Len(d) : sub[i] = kt[i]
    BY <1>4, <2>3
  <2> HIDE DEF sub
  <2>5. kd = sub
    BY <2>1, <2>2, <2>3, <2>4, SeqEqual
  <2> QED
    BY <2>5 DEF kd, sub, kt
<1>8. Cardinality({d[i].id : i \in DOMAIN d}) = Len(d)
  <2> DEFINE I == {d[i].id : i \in 1 .. Len(d)}
             f == [i \in 1 .. Len(d) |-> d[i].id]
  <2>1. \A i, j \in 1 .. Len(d) : i # j => f[i] # f[j]
    <3> SUFFICES ASSUME NEW i \in 1 .. Len(d), NEW j \in 1 .. Len(d), i # j, d[i].id = d[j].id
                 PROVE  FALSE
      OBVIOUS
    <3>1. d[i] = d[j]
      BY <1>1, <1>4
    <3> QED
      BY <1>3, <3>1 DEF IsBeginning, Distinct
  <2>2. f \in [1 .. Len(d) -> I] /\ \A x \in I : \E i \in 1 .. Len(d) : f[i] = x
    OBVIOUS
  <2> HIDE DEF f, I
  <2>3. f \in Surjection(1 .. Len(d), I) /\ f \in Injection(1 .. Len(d), I)
    BY <2>1, <2>2 DEF Surjection, Injection, IsInjective
  <2>4. IsFiniteSet(1 .. Len(d)) /\ Cardinality(1 .. Len(d)) = Len(d)
    <3> DEFINE m == Len(d)
    <3>1. m \in Nat
      BY <1>4
    <3> HIDE DEF m
    <3>2. IsFiniteSet(1 .. m) /\ Cardinality(1 .. m) = m
      BY <3>1, FS_Interval
    <3> QED
      BY <3>2 DEF m
  <2>5. Cardinality(I) = Len(d)
    BY <2>3, <2>4, FS_Surjection
  <2> QED
    BY <1>4, <2>5 DEF I
<1>9. \A i \in DOMAIN d : d[i] = given[d[i].id]
  BY <1>1, <1>4
<1> QED
  BY <1>3, <1>7, <1>8, <1>9 DEF OutputIsSorted, d, t

\* A beginning that leaves a row out is shorter, one that leaves none out is all.
LEMMA AllOrFewer ==
  ASSUME Numbered, NEW d, IsBeginning(ToSet(given), d)
  PROVE  /\ Len(d) \in Nat /\ Len(d) <= Len(given)
         /\ Len(d) = Len(given) <=> \A x \in ToSet(given) : \E i \in 1 .. Len(d) : d[i] = x
<1> DEFINE n == Len(given)
           m == Len(d)
           S == ToSet(given)
<1>1. /\ n \in Nat /\ m \in Nat
      /\ \A i \in 1 .. m : d[i] \in S
      /\ \A i \in 1 .. n : given[i] \in S /\ given[i].id = i
      /\ \A x \in S : x.id \in 1 .. n /\ given[x.id] = x
  <2>1. given \in Seq(Row) /\ \A i \in 1 .. n : given[i].id = i
    BY DEF Numbered
  <2>2. \A i \in 1 .. n : given[i] \in S
    BY <2>1, ElementsOf
  <2>3. \A x \in S : x.id \in 1 .. n /\ given[x.id] = x
    BY NumberedRows
  <2>4. \A i \in 1 .. m : d[i] \in S
    BY ElementOfSeq DEF IsBeginning
  <2>5. n \in Nat /\ m \in Nat
    BY <2>1, LenProperties DEF IsBeginning
  <2> QED
    BY <2>1, <2>2, <2>3, <2>4, <2>5
<1>2. \A i, j \in 1 .. m : i # j => d[i] # d[j]
  BY DEF IsBeginning, Distinct
<1> HIDE DEF n, m, S
<1>3. m <= n
  <2> SUFFICES ASSUME n < m PROVE FALSE
    BY <1>1
  <2> DEFINE f == [i \in 1 .. m |-> d[i].id]
  <2>1. f \in [1 .. m -> 1 .. n]
    BY <1>1
  <2>4. \A i \in 1 .. m : f[i] = d[i].id
    OBVIOUS
  <2> HIDE DEF f
  <2>2. PICK i, j \in 1 .. m : i # j /\ f[i] = f[j]
    BY <1>1, <2>1, NoSqueeze
  <2>3. d[i] = d[j]
    BY <1>1, <2>2, <2>4
  <2> QED
    BY <1>2, <2>2, <2>3
<1>4. ASSUME \A x \in S : \E i \in 1 .. m : d[i] = x PROVE m = n
  <2> SUFFICES ASSUME m < n PROVE FALSE
    BY <1>1, <1>3
  <2> DEFINE f == [k \in 1 .. n |-> CHOOSE i \in 1 .. m : d[i] = given[k]]
  <2>1. \A k \in 1 .. n : f[k] \in 1 .. m /\ d[f[k]] = given[k]
    BY <1>1, <1>4
  <2>2. f \in [1 .. n -> 1 .. m]
    BY <2>1
  <2> HIDE DEF f
  <2>3. PICK i, j \in 1 .. n : i # j /\ f[i] = f[j]
    BY <1>1, <2>2, NoSqueeze
  <2>4. given[i] = given[j]
    BY <2>1, <2>3
  <2> QED
    BY <1>1, <2>3, <2>4
<1>5. ASSUME NEW x \in S, \A i \in 1 .. m : d[i] # x, m = n PROVE FALSE
  <2> DEFINE y == x.id
             f == [i \in 1 .. m |-> IF d[i].id < y THEN d[i].id ELSE d[i].id - 1]
  <2>1. y \in 1 .. n /\ given[y] = x
    BY <1>1
  <2>2. ASSUME NEW i \in 1 .. m PROVE d[i].id \in 1 .. n /\ d[i].id # y
    BY <1>1, <1>5, <2>1
  <2> HIDE DEF y
  <2>3. ASSUME NEW i \in 1 .. m PROVE f[i] \in 1 .. m - 1
    BY <1>1, <1>5, <2>1, <2>2
  <2>4. f \in [1 .. m -> 1 .. m - 1] /\ m - 1 \in Nat /\ m - 1 < m
    BY <1>1, <1>5, <2>1, <2>3
  <2>5. ASSUME NEW i \in 1 .. m, NEW j \in 1 .. m, i # j PROVE f[i] # f[j]
    <3>1. d[i].id # d[j].id
      BY <1>1, <1>2, <2>5
    <3>2. f[i] = (IF d[i].id < y THEN d[i].id ELSE d[i].id - 1)
          /\ f[j] = (IF d[j].id < y THEN d[j].id ELSE d[j].id - 1)
      OBVIOUS
    <3>3. d[i].id \in Nat /\ d[j].id \in Nat /\ d[i].id # y /\ d[j].id # y /\ y \in Nat
      BY <1>1, <2>1, <2>2
    <3> HIDE DEF f
    <3> QED
      BY <3>1, <3>2, <3>3
  <2> HIDE DEF f
  <2>6. PICK i, j \in 1 .. m : i # j /\ f[i] = f[j]
    BY <1>1, <2>4, NoSqueeze, ZenonT(60)
  <2> QED
    BY <2>5, <2>6
<1> QED
  BY <1>1, <1>3, <1>4, <1>5 DEF n, m, S

-----------------------------------------------------------------------------
(* Runs and the batches they are written in.                               *)

Batches == Seq(Seq(Row))

\* The batches bs hold the first n rows of r, none being empty: batch k the ones behind
\* off[k].
Pieces(bs, r, off, n) ==
  /\ off \in [1 .. Len(bs) + 1 -> Nat] /\ off[1] = 0 /\ off[Len(bs) + 1] = n
  /\ \A k \in 1 .. Len(bs) :
       /\ Len(bs[k]) > 0 /\ off[k + 1] = off[k] + Len(bs[k])
       /\ \A q \in 1 .. Len(bs[k]) : bs[k][q] = r[off[k] + q]

InPieces(bs, r, n) == bs \in Batches /\ n \in Nat /\ \E off : Pieces(bs, r, off, n)

\* No batch holds no row.
LEMMA NoPieces == ASSUME NEW r PROVE InPieces(<<>>, r, 0)
<1> DEFINE off == [k \in 1 .. 1 |-> 0]
<1>1. Len(<<>>) = 0 /\ <<>> \in Batches
  BY EmptySeq DEF Batches
<1>2. off \in [1 .. Len(<<>>) + 1 -> Nat] /\ off[1] = 0 /\ off[Len(<<>>) + 1] = 0
  BY <1>1
<1>3. \A k \in 1 .. Len(<<>>) : FALSE
  BY <1>1
<1> HIDE DEF off
<1>4. Pieces(<<>>, r, off, 0)
  BY <1>2, <1>3 DEF Pieces
<1> QED
  BY <1>1, <1>4 DEF InPieces

\* A batch of the next rows makes one piece more.
LEMMA AnotherPiece ==
  ASSUME NEW bs, NEW r, NEW n, InPieces(bs, r, n), NEW b \in Seq(Row), Len(b) > 0,
         \A q \in 1 .. Len(b) : b[q] = r[n + q]
  PROVE  InPieces(Append(bs, b), r, n + Len(b))
<1>1. PICK off : Pieces(bs, r, off, n)
  BY DEF InPieces
<1> DEFINE l == Len(bs)
           cs == Append(bs, b)
           m == n + Len(b)
           off2 == [k \in 1 .. l + 2 |-> IF k = l + 2 THEN m ELSE off[k]]
<1>2. /\ l \in Nat /\ n \in Nat /\ Len(b) \in Nat /\ cs \in Batches /\ Len(cs) = l + 1
      /\ cs[l + 1] = b /\ \A k \in 1 .. l : cs[k] = bs[k]
  <2>1. bs \in Seq(Seq(Row)) /\ n \in Nat
    BY DEF InPieces, Batches
  <2>2. l \in Nat /\ Len(b) \in Nat
    BY <2>1, LenProperties
  <2> QED
    BY <2>1, <2>2, AppendProperties DEF Batches
<1>3. /\ off \in [1 .. l + 1 -> Nat] /\ off[1] = 0 /\ off[l + 1] = n
      /\ \A k \in 1 .. l : /\ Len(bs[k]) > 0 /\ off[k + 1] = off[k] + Len(bs[k])
                           /\ \A q \in 1 .. Len(bs[k]) : bs[k][q] = r[off[k] + q]
  BY <1>1 DEF Pieces
<1> HIDE DEF l, cs
<1>4. m \in Nat /\ m = n + Len(b)
  BY <1>2
<1> HIDE DEF m
<1>5. /\ off2 \in [1 .. l + 2 -> Nat] /\ off2[1] = 0 /\ off2[l + 2] = m
      /\ \A k \in 1 .. l + 1 : off2[k] = off[k]
  BY <1>2, <1>3, <1>4
<1> HIDE DEF off2
<1>6. ASSUME NEW k \in 1 .. l + 1
      PROVE  /\ Len(cs[k]) > 0 /\ off2[k + 1] = off2[k] + Len(cs[k])
             /\ \A q \in 1 .. Len(cs[k]) : cs[k][q] = r[off2[k] + q]
  <2>1. CASE k = l + 1
    <3>1. cs[k] = b /\ off2[k] = n /\ off2[k + 1] = m
      <4>1. k + 1 = l + 2
        BY <1>2, <2>1
      <4> QED
        BY <1>2, <1>3, <1>5, <2>1, <4>1
    <3> QED
      BY <1>4, <3>1
  <2>2. CASE k # l + 1
    <3>1. k \in 1 .. l /\ k + 1 \in 1 .. l + 1
      BY <1>2, <2>2
    <3>2. cs[k] = bs[k] /\ off2[k] = off[k] /\ off2[k + 1] = off[k + 1]
      BY <1>2, <1>5, <3>1
    <3> QED
      BY <1>3, <3>1, <3>2
  <2> QED
    BY <2>1, <2>2
<1>7. Pieces(cs, r, off2, m)
  <2>1. Len(cs) + 1 = l + 2
    BY <1>2
  <2> QED
    BY <1>2, <1>5, <1>6, <2>1 DEF Pieces
<1> QED
  BY <1>2, <1>4, <1>7 DEF InPieces, cs, m

\* Whatever is buffered, a batch that is written comes behind those before.
LEMMA PutAppends ==
  ASSUME NEW f, f.disk \in Batches, DOMAIN f = DOMAIN NewFile, buffer \in Batches, NEW batch \in Seq(Row)
  PROVE  LET put == Put(f, batch)
         IN  /\ put.buffer \in Batches /\ put.file.disk \in Batches
             /\ put.file.disk \o put.buffer = Append(f.disk \o buffer, batch)
             /\ \E disk : put.file = [f EXCEPT !.disk = disk]
<1> DEFINE size == SizeOf(buffer)
           l == Len(batch)
           d == f.disk
           put == Put(f, batch)
<1>1. size \in Nat /\ l \in Nat
  <2>1. buffer \in Seq(Seq(Row)) /\ Len(buffer) \in Nat
    BY LenProperties DEF Batches
  <2>2. CASE Len(buffer) > 0
    <3>1. FlattenSeq(buffer) \in Seq(Row)
      BY <2>1, <2>2, Flattened
    <3> QED
      BY <3>1, LenProperties DEF SizeOf
  <2>3. CASE Len(buffer) = 0
    <3>1. FlattenSeq(buffer) = buffer
      BY <2>3 DEF FlattenSeq
    <3> QED
      BY <2>1, <3>1, LenProperties DEF SizeOf
  <2> QED
    BY <2>1, <2>2, <2>3, LenProperties
<1> DEFINE full == size + l > WriteBufferSize
           kept == IF full THEN <<>> ELSE buffer
           out  == IF full THEN buffer ELSE <<>>
<1>2. put = IF l > WriteBufferSize
            THEN [buffer |-> kept, file |-> [f EXCEPT !.disk = @ \o out \o <<batch>>]]
            ELSE [buffer |-> Append(kept, batch), file |-> [f EXCEPT !.disk = @ \o out]]
  BY DEF Put
<1>3. WriteBufferSize \in Nat
  BY SizesAssumption
<1>4. l > WriteBufferSize => full
  BY <1>1, <1>3
<1> HIDE DEF size, full, put, l
<1>5. d \in Seq(Seq(Row)) /\ buffer \in Seq(Seq(Row)) /\ <<batch>> \in Seq(Seq(Row))
      /\ <<>> \in Seq(Seq(Row)) /\ kept \in Seq(Seq(Row)) /\ out \in Seq(Seq(Row))
      /\ d \o out \in Seq(Seq(Row)) /\ d \o buffer \in Seq(Seq(Row))
  <2>1. d \in Seq(Seq(Row)) /\ buffer \in Seq(Seq(Row)) /\ <<batch>> \in Seq(Seq(Row))
        /\ <<>> \in Seq(Seq(Row))
    BY EmptySeq DEF Batches
  <2> QED
    BY <2>1, ConcatProperties
<1>6. CASE l > WriteBufferSize
  <2>1. /\ put.buffer = <<>> /\ put.file = [f EXCEPT !.disk = d \o buffer \o <<batch>>]
    BY <1>2, <1>4, <1>6
  <2>2. put.file.disk = (d \o buffer) \o <<batch>>
    BY <2>1 DEF NewFile
  <2>3. put.file.disk \in Seq(Seq(Row))
    BY <1>5, <2>2, ConcatProperties
  <2>4. put.file.disk \o put.buffer = put.file.disk
    BY <2>1, <2>3, ConcatEmptySeq
  <2>5. Append(d \o buffer, batch) = (d \o buffer) \o <<batch>>
    BY <1>5, AppendIsConcat
  <2> QED
    BY <1>5, <2>1, <2>2, <2>3, <2>4, <2>5 DEF Batches, put
<1>7. CASE ~ (l > WriteBufferSize)
  <2>1. /\ put.buffer = Append(kept, batch) /\ put.file = [f EXCEPT !.disk = d \o out]
    BY <1>2, <1>7
  <2>2. put.file.disk = d \o out
    BY <2>1 DEF NewFile
  <2>3. put.buffer \in Seq(Seq(Row)) /\ put.buffer = kept \o <<batch>>
    BY <1>5, <2>1, AppendProperties, AppendIsConcat
  <2>4. (d \o out) \o (kept \o <<batch>>) = ((d \o out) \o kept) \o <<batch>>
    <3> DEFINE x == d \o out
               y == kept
               z == <<batch>>
    <3>1. x \in Seq(Seq(Row)) /\ y \in Seq(Seq(Row)) /\ z \in Seq(Seq(Row))
      BY <1>5
    <3> HIDE DEF x, y, z
    <3>2. (x \o y) \o z = x \o (y \o z)
      BY <3>1, ConcatAssociative, SMTT(40)
    <3> QED
      BY <3>2 DEF x, y, z
  <2>5. (d \o out) \o kept = d \o buffer
    <3>1. CASE full
      BY <1>5, <3>1, ConcatEmptySeq
    <3>2. CASE ~ full
      BY <1>5, <3>2, ConcatEmptySeq
    <3> QED
      BY <3>1, <3>2
  <2>6. Append(d \o buffer, batch) = (d \o buffer) \o <<batch>>
    BY <1>5, AppendIsConcat
  <2> QED
    BY <1>5, <2>1, <2>2, <2>3, <2>4, <2>5, <2>6 DEF Batches, put
<1> QED
  BY <1>6, <1>7

-----------------------------------------------------------------------------
(* Streams.                                                                *)

Stream == [batch : Seq(Row), at : Nat, count : Nat, next : Nat, rowOffset : Nat]
File   == [fd : {"none", "open", "closed"}, reader : {"none", "open", "closed", "failed"},
           exists : BOOLEAN, named : BOOLEAN, disk : Batches, rows : Nat]

\* How many rows of its run a stream has gone past.
Pos(t) == t.rowOffset - t.count + t.at

\* The stream t reads file f, which holds the run r.
Reads(t, f, r, off) ==
  /\ t \in Stream /\ f \in File
  /\ f.disk \in Batches /\ r \in Seq(Row) /\ f.rows = Len(r) /\ Pieces(f.disk, r, off, f.rows)
  /\ t.next \in 1 .. Len(f.disk) + 1 /\ t.rowOffset = off[t.next]

\* At a row that is not consumed yet, or at the end with its file removed.
StreamOK(t, f, r) ==
  /\ \E off : Reads(t, f, r, off)
  /\ f.reader \in {"open", "closed"}
  /\ t.at \in Nat /\ t.count \in Nat /\ t.rowOffset \in Nat
  /\ t.count <= t.rowOffset /\ t.rowOffset <= Len(r) /\ t.count <= Len(t.batch)
  /\ \A i \in 1 .. t.count : t.batch[i] = r[t.rowOffset - t.count + i]
  /\ \/ t.at < t.count
     \/ /\ t.at = 0 /\ t.count = 0 /\ t.rowOffset = Len(r)
        /\ f.reader = "closed" /\ f.exists = FALSE

\* A batch read into a stream's vectors begins with the batch, whatever is left behind it.
LEMMA OverwriteBegins ==
  ASSUME NEW old \in Seq(Row), NEW new \in Seq(Row)
  PROVE  /\ Overwrite(old, new) \in Seq(Row) /\ Len(new) <= Len(Overwrite(old, new))
         /\ \A i \in 1 .. Len(new) : Overwrite(old, new)[i] = new[i]
<1> DEFINE rest == SubSeq(old, Len(new) + 1, Len(old))
<1>1. Len(new) \in Nat /\ Len(old) \in Nat
  BY LenProperties
<1>2. rest \in Seq(Row)
  <2>1. \A i \in Len(new) + 1 .. Len(old) : i \in 1 .. Len(old)
    BY <1>1
  <2>2. \A i \in Len(new) + 1 .. Len(old) : old[i] \in Row
    BY <2>1, ElementOfSeq
  <2> QED
    BY <1>1, <2>2, SubSeqProperties
<1>3. Overwrite(old, new) = new \o rest
  BY DEF Overwrite
<1> HIDE DEF rest
<1>4. Len(rest) \in Nat
  BY <1>2, LenProperties
<1>5. /\ new \o rest \in Seq(Row) /\ Len(new \o rest) = Len(new) + Len(rest)
      /\ \A i \in 1 .. Len(new) + Len(rest) :
           (new \o rest)[i] = IF i <= Len(new) THEN new[i] ELSE rest[i - Len(new)]
  BY <1>2, ConcatProperties
<1>6. \A i \in 1 .. Len(new) : i \in 1 .. Len(new) + Len(rest) /\ i <= Len(new)
  BY <1>1, <1>4
<1> QED
  BY <1>1, <1>3, <1>4, <1>5, <1>6

\* Positions in the run grow from batch to batch.
LEMMA PiecesGrow ==
  ASSUME NEW bs \in Batches, NEW r, NEW off, NEW n, Pieces(bs, r, off, n),
         NEW i \in 1 .. Len(bs) + 1
  PROVE  off[i] \in Nat /\ n \in Nat /\ off[i] <= n
<1> DEFINE l == Len(bs)
           len == [k \in 1 .. l |-> Len(bs[k])]
<1>1. l \in Nat /\ \A k \in 1 .. l : bs[k] \in Seq(Row)
  BY LenProperties, ElementOfSeq DEF Batches
<1>2. len \in [1 .. l -> Nat] /\ \A k \in 1 .. l : len[k] = Len(bs[k])
  BY <1>1, LenProperties
<1> HIDE DEF len
<1>3. /\ off \in [1 .. l + 1 -> Nat] /\ off[1] = 0 /\ off[l + 1] = n
      /\ \A k \in 1 .. l : off[k + 1] = off[k] + len[k]
  BY <1>2 DEF Pieces
<1> HIDE DEF l
<1>4. \A j, k \in 1 .. l + 1 : j <= k => off[j] <= off[k]
  BY <1>1, <1>2, <1>3, BlockFacts
<1>5. i \in 1 .. l + 1 /\ l + 1 \in 1 .. l + 1 /\ i <= l + 1
  BY <1>1 DEF l
<1> QED
  BY <1>3, <1>4, <1>5

\* Reading the next batch leaves a stream where its last one ended.
LEMMA ReadGives ==
  ASSUME NEW t, NEW f, NEW r, NEW off, Reads(t, f, r, off)
  PROVE  /\ StreamOK(ReadVecBatch(t, f), AfterRead(t, f), r)
         /\ Pos(ReadVecBatch(t, f)) = t.rowOffset
<1> DEFINE t2 == ReadVecBatch(t, f)
           f2 == AfterRead(t, f)
<1>1. /\ t \in Stream /\ f \in File
      /\ f.disk \in Batches /\ r \in Seq(Row) /\ f.rows = Len(r) /\ Pieces(f.disk, r, off, f.rows)
      /\ t.next \in 1 .. Len(f.disk) + 1 /\ t.rowOffset = off[t.next]
  BY DEF Reads
<1>0. t.batch \in Seq(Row)
  BY <1>1 DEF Stream
<1>2. t.rowOffset \in Nat /\ Len(r) \in Nat /\ t.rowOffset <= Len(r) /\ Len(f.disk) \in Nat
  <2>1. t.rowOffset \in Nat /\ t.rowOffset <= f.rows
    BY <1>1, PiecesGrow
  <2> QED
    BY <1>1, <2>1, LenProperties DEF Batches
<1>3. CASE AtEnd(t, f)
  <2>1. t2 = [t EXCEPT !.at = 0, !.count = 0] /\ f2 = [f EXCEPT !.reader = "closed", !.exists = FALSE]
    BY <1>3 DEF ReadVecBatch, AfterRead
  <2>2. /\ t2 \in Stream /\ t2.batch = t.batch /\ t2.next = t.next
        /\ t2.rowOffset = t.rowOffset /\ t2.at = 0 /\ t2.count = 0
    <3>1. t \in Stream
      BY <1>1
    <3> DEFINE x == [t EXCEPT !.at = 0, !.count = 0]
    <3>2. /\ x \in Stream /\ x.batch = t.batch /\ x.next = t.next
          /\ x.rowOffset = t.rowOffset /\ x.at = 0 /\ x.count = 0
      BY <3>1 DEF Stream
    <3> HIDE DEF x, t2
    <3>3. t2 = x
      BY <2>1 DEF x
    <3> QED
      BY <3>2, <3>3
  <2>3. /\ f2 \in File /\ f2.disk = f.disk /\ f2.rows = f.rows
        /\ f2.reader = "closed" /\ f2.exists = FALSE
    BY <1>1, <2>1 DEF File
  <2>4. t.rowOffset = Len(r)
    BY <1>1, <1>2, <1>3 DEF AtEnd
  <2> HIDE DEF t2, f2
  <2>5. Reads(t2, f2, r, off)
    BY <1>1, <2>2, <2>3 DEF Reads
  <2>6. Len(t2.batch) \in Nat
    BY <1>0, <2>2, LenProperties
  <2>7. StreamOK(t2, f2, r)
    BY <1>2, <2>2, <2>3, <2>4, <2>5, <2>6 DEF StreamOK
  <2>8. Pos(t2) = t.rowOffset
    BY <1>2, <2>2 DEF Pos
  <2> QED
    BY <2>7, <2>8 DEF t2, f2
<1>4. CASE ~ AtEnd(t, f)
  <2> DEFINE b == f.disk[t.next]
             c == Overwrite(t.batch, b)
  <2>1. t2 = [t EXCEPT !.batch = c, !.at = 0, !.count = Len(b), !.next = @ + 1, !.rowOffset = @ + Len(b)]
        /\ f2 = [f EXCEPT !.reader = "open"]
    BY <1>4 DEF ReadVecBatch, AfterRead
  <2>2. /\ t2.batch = c /\ t2.next = t.next + 1
        /\ t2.rowOffset = t.rowOffset + Len(b) /\ t2.at = 0 /\ t2.count = Len(b)
    BY <1>1, <2>1 DEF Stream
  <2>3. /\ f2 \in File /\ f2.disk = f.disk /\ f2.rows = f.rows
        /\ f2.reader = "open"
    BY <1>1, <2>1 DEF File
  <2>4. t.next \in 1 .. Len(f.disk)
    <3>1. t.rowOffset # f.rows
      BY <1>1, <1>2, <1>4 DEF AtEnd
    <3>2. t.next # Len(f.disk) + 1
      BY <1>1, <3>1 DEF Pieces
    <3> QED
      BY <1>1, <1>2, <3>2
  <2>5. b \in Seq(Row) /\ Len(b) \in Nat
    BY <1>1, <2>4, ElementOfSeq, LenProperties DEF Batches
  <2>6. /\ Len(b) > 0 /\ off[t.next + 1] = off[t.next] + Len(b)
        /\ \A q \in 1 .. Len(b) : b[q] = r[off[t.next] + q]
    BY <1>1, <2>4 DEF Pieces
  <2> HIDE DEF t2, f2, b
  <2>7. c \in Seq(Row) /\ Len(b) <= Len(c) /\ \A i \in 1 .. Len(b) : c[i] = b[i]
    BY <1>0, <2>5, OverwriteBegins
  <2> HIDE DEF c
  <2>15. t2 \in Stream
    <3>1. t.next + 1 \in Nat /\ t.rowOffset + Len(b) \in Nat
      BY <1>2, <2>4, <2>5
    <3> QED
      BY <1>1, <2>1, <2>5, <2>7, <3>1 DEF Stream
  <2>8. t2.next \in 1 .. Len(f.disk) + 1 /\ t2.rowOffset = off[t2.next]
    BY <1>1, <1>2, <2>2, <2>4, <2>6
  <2>9. Reads(t2, f2, r, off)
    BY <1>1, <2>3, <2>8, <2>15 DEF Reads
  <2>10. t2.rowOffset \in Nat /\ t2.rowOffset <= Len(r)
    BY <1>1, <2>8, PiecesGrow
  <2>11. ASSUME NEW i \in 1 .. t2.count PROVE t2.batch[i] = r[t2.rowOffset - t2.count + i]
    <3>1. i \in 1 .. Len(b)
      BY <2>2
    <3>2. c[i] = r[off[t.next] + i]
      BY <2>6, <2>7, <3>1
    <3>3. t2.rowOffset - t2.count = t.rowOffset
      BY <1>2, <2>2, <2>5
    <3> QED
      BY <1>1, <2>2, <3>2, <3>3
  <2>12. t2.count <= t2.rowOffset /\ t2.at < t2.count /\ t2.count <= Len(t2.batch)
         /\ t2.at \in Nat /\ t2.count \in Nat
    BY <1>2, <2>2, <2>5, <2>6, <2>7
  <2>13. StreamOK(t2, f2, r)
    BY <2>3, <2>9, <2>10, <2>11, <2>12 DEF StreamOK
  <2>14. Pos(t2) = t.rowOffset
    BY <1>2, <2>2, <2>5 DEF Pos
  <2> QED
    BY <2>13, <2>14 DEF t2, f2
<1> QED
  BY <1>3, <1>4

\* What a new stream finds: a run that is not empty.
LEMMA OpenGives ==
  ASSUME NEW f \in File, NEW r \in Seq(Row), Len(r) > 0,
         InPieces(f.disk, r, f.rows), f.rows = Len(r)
  PROVE  /\ StreamOK(ReadVecBatch(NewStream, f), AfterRead(NewStream, f), r)
         /\ Pos(ReadVecBatch(NewStream, f)) = 0 /\ AfterRead(NewStream, f) = [f EXCEPT !.reader = "open"]
<1>1. PICK off : Pieces(f.disk, r, off, f.rows)
  BY DEF InPieces
<1>2. Len(f.disk) \in Nat /\ f.disk \in Batches
  BY LenProperties DEF InPieces, Batches
<1>3. 1 \in 1 .. Len(f.disk) + 1 /\ off[1] = 0
  BY <1>1, <1>2 DEF Pieces
<1>4. <<>> \in Seq(Row)
  BY EmptySeq
<1>9. NewStream \in Stream
  BY <1>4 DEF Stream, NewStream
<1>5. Reads(NewStream, f, r, off)
  <2>1. NewStream.next = 1 /\ NewStream.rowOffset = 0
    BY DEF NewStream
  <2> QED
    BY <1>1, <1>2, <1>3, <1>9, <2>1 DEF Reads
<1>6. ~ AtEnd(NewStream, f)
  <2>1. Len(r) \in Nat
    BY LenProperties
  <2> QED
    BY <2>1 DEF AtEnd, NewStream
<1>7. AfterRead(NewStream, f) = [f EXCEPT !.reader = "open"]
  BY <1>6 DEF AfterRead
<1>8. NewStream.rowOffset = 0
  BY DEF NewStream
<1> QED
  BY <1>5, <1>7, <1>8, ReadGives

\* The stream a row was taken from, and its file, afterwards.
Moved(t, f)     == IF NeedsBatch(t) THEN ReadVecBatch(t, f) ELSE [t EXCEPT !.at = @ + 1]
MovedFile(t, f) == IF NeedsBatch(t) THEN AfterRead(t, f) ELSE f

\* When its row is taken a stream is at the next one of its run, in the same batch, in the
\* next one, or at the end with its file removed.
LEMMA MovesOn ==
  ASSUME NEW t, NEW f, NEW r, StreamOK(t, f, r), t.at < t.count
  PROVE  StreamOK(Moved(t, f), MovedFile(t, f), r) /\ Pos(Moved(t, f)) = Pos(t) + 1
<1>1. PICK off : Reads(t, f, r, off)
  BY DEF StreamOK
<1>2. t.at \in Nat /\ t.count \in Nat /\ t.rowOffset \in Nat
  BY DEF StreamOK
<1>3. CASE NeedsBatch(t)
  <2>1. Pos(t) + 1 = t.rowOffset
    BY <1>2, <1>3 DEF NeedsBatch, Pos
  <2> QED
    BY <1>1, <1>3, <2>1, ReadGives DEF Moved, MovedFile
<1>4. CASE ~ NeedsBatch(t)
  <2> DEFINE t2 == [t EXCEPT !.at = @ + 1]
  <2>1. /\ t2 \in Stream /\ t2.batch = t.batch /\ t2.next = t.next
        /\ t2.rowOffset = t.rowOffset /\ t2.at = t.at + 1 /\ t2.count = t.count
    BY <1>1, <1>2, SMTT(40) DEF Reads, Stream
  <2> HIDE DEF t2
  <2>2. t2.at \in Nat /\ t2.at < t2.count
    BY <1>2, <1>4, <2>1 DEF NeedsBatch
  <2>3. Reads(t2, f, r, off)
    BY <1>1, <2>1 DEF Reads
  <2>4. StreamOK(t2, f, r)
    BY <2>1, <2>2, <2>3 DEF StreamOK
  <2>5. Pos(t2) = Pos(t) + 1
    BY <1>2, <2>1 DEF Pos
  <2> QED
    BY <1>4, <2>4, <2>5 DEF Moved, MovedFile, t2
<1> QED
  BY <1>3, <1>4

\* The row a stream is at.
LEMMA RowAt ==
  ASSUME NEW t, NEW f, NEW r, StreamOK(t, f, r)
  PROVE  /\ r \in Seq(Row) /\ Pos(t) \in 0 .. Len(r) /\ Len(r) \in Nat
         /\ t.at < t.count <=> Pos(t) < Len(r)
         /\ t.at < t.count => t.batch[t.at + 1] = r[Pos(t) + 1]
         /\ ~ (t.at < t.count) => f.reader = "closed" /\ f.exists = FALSE
<1>1. /\ t.at \in Nat /\ t.count \in Nat /\ t.rowOffset \in Nat
      /\ t.count <= t.rowOffset /\ t.rowOffset <= Len(r)
      /\ \A i \in 1 .. t.count : t.batch[i] = r[t.rowOffset - t.count + i]
      /\ \/ t.at < t.count
         \/ /\ t.at = 0 /\ t.count = 0 /\ t.rowOffset = Len(r)
            /\ f.reader = "closed" /\ f.exists = FALSE
  BY DEF StreamOK
<1>2. r \in Seq(Row) /\ Len(r) \in Nat
  BY LenProperties DEF StreamOK, Reads
<1>3. Pos(t) \in 0 .. Len(r) /\ (t.at < t.count <=> Pos(t) < Len(r))
  BY <1>1, <1>2 DEF Pos
<1>4. ASSUME t.at < t.count PROVE t.batch[t.at + 1] = r[Pos(t) + 1]
  <2>1. t.at + 1 \in 1 .. t.count
    BY <1>1, <1>4
  <2>2. t.rowOffset - t.count + (t.at + 1) = Pos(t) + 1
    BY <1>1 DEF Pos
  <2>3. t.batch[t.at + 1] = r[t.rowOffset - t.count + (t.at + 1)]
    BY <1>1, <2>1
  <2> QED
    BY <2>2, <2>3
<1> QED
  BY <1>1, <1>2, <1>3, <1>4

-----------------------------------------------------------------------------
(* Which rows are in which run.                                            *)

IsRun(r) == r \in Seq(Row) /\ Len(r) > 0 /\ Ascending(r) /\ Distinct(r)

\* Each of the rows all is in one of the n runs w or in memory, and in one place.
Shared(w, n, all, memory) ==
  /\ n \in Nat /\ all \in SUBSET Row /\ memory \in SUBSET all
  /\ \A j \in 1 .. n : IsRun(w[j]) /\ ToSet(w[j]) \in SUBSET all /\ ToSet(w[j]) \cap memory = {}
  /\ \A j, k \in 1 .. n : j # k => ToSet(w[j]) \cap ToSet(w[k]) = {}
  /\ \A x \in all : x \in memory \/ \E j \in 1 .. n : x \in ToSet(w[j])

\* Rows that come in are in memory only.
LEMMA SharedMore ==
  ASSUME NEW w, NEW n, NEW all, NEW memory, Shared(w, n, all, memory),
         NEW more \in SUBSET Row, more \cap all = {}
  PROVE  Shared(w, n, all \cup more, memory \cup more)
<1> DEFINE a == all \cup more
           m == memory \cup more
<1>1. n \in Nat /\ a \in SUBSET Row /\ m \in SUBSET a
  BY DEF Shared
<1>2. ASSUME NEW j \in 1 .. n
      PROVE  IsRun(w[j]) /\ ToSet(w[j]) \in SUBSET a /\ ToSet(w[j]) \cap m = {}
  <2>1. IsRun(w[j]) /\ ToSet(w[j]) \in SUBSET all /\ ToSet(w[j]) \cap memory = {}
    BY DEF Shared
  <2> QED
    BY <2>1
<1>3. \A x \in a : x \in m \/ \E j \in 1 .. n : x \in ToSet(w[j])
  BY DEF Shared
<1>4. \A j, k \in 1 .. n : j # k => ToSet(w[j]) \cap ToSet(w[k]) = {}
  BY DEF Shared
<1> HIDE DEF a, m
<1>5. Shared(w, n, a, m)
  BY <1>1, <1>2, <1>3, <1>4 DEF Shared
<1> QED
  BY <1>5 DEF a, m

\* One run more.
More(w, n, r) == [j \in 1 .. n + 1 |-> IF j = n + 1 THEN r ELSE w[j]]

\* The runs and one more.
LEMMA MoreIs ==
  ASSUME NEW w, NEW n \in Nat, NEW r
  PROVE  /\ More(w, n, r)[n + 1] = r
         /\ \A j \in 1 .. n : j \in 1 .. n + 1 /\ j # n + 1 /\ More(w, n, r)[j] = w[j]
         /\ \A j \in 1 .. n + 1 : j = n + 1 \/ j \in 1 .. n
  BY DEF More

\* Sorting what is in memory into a new run leaves each row in one place.
LEMMA SharedSpilled ==
  ASSUME NEW w, NEW n, NEW all, NEW memory, Shared(w, n, all, memory), NEW r, IsSorting(memory, r),
         Len(r) > 0
  PROVE  Shared(More(w, n, r), n + 1, all, {})
<1> DEFINE v == More(w, n, r)
<1>1. n \in Nat /\ n + 1 \in Nat /\ all \in SUBSET Row /\ memory \in SUBSET all
  BY DEF Shared
<1>2. /\ v[n + 1] = r /\ \A j \in 1 .. n : j \in 1 .. n + 1 /\ v[j] = w[j]
      /\ \A j \in 1 .. n + 1 : j = n + 1 \/ j \in 1 .. n
  <2>1. n \in Nat
    BY <1>1
  <2>2. v[n + 1] = r
    BY <2>1, MoreIs
  <2>3. \A j \in 1 .. n : j \in 1 .. n + 1 /\ v[j] = w[j]
    BY <2>1, MoreIs
  <2>4. \A j \in 1 .. n + 1 : j = n + 1 \/ j \in 1 .. n
    BY <2>1
  <2> QED
    BY <2>2, <2>3, <2>4
<1> HIDE DEF v
<1>3. IsRun(r) /\ \A x : x \in ToSet(r) <=> x \in memory
  <2>1. r \in Seq(memory) /\ memory \in SUBSET Row
    BY <1>1 DEF IsSorting
  <2>2. r \in Seq(Row)
    BY <2>1, SeqMonotonic
  <2>3. ToSet(r) \in SUBSET memory /\ \A x : x \in ToSet(r) <=> \E i \in 1 .. Len(r) : r[i] = x
    BY <2>1, ElementsOf
  <2>4. \A x \in memory : \E i \in 1 .. Len(r) : r[i] = x
    BY DEF IsSorting
  <2> QED
    BY <2>2, <2>3, <2>4 DEF IsRun, IsSorting
<1>4. ASSUME NEW j \in 1 .. n
      PROVE  IsRun(w[j]) /\ ToSet(w[j]) \in SUBSET all /\ ToSet(w[j]) \cap memory = {}
  BY DEF Shared
<1>5. ASSUME NEW j \in 1 .. n + 1
      PROVE  IsRun(v[j]) /\ ToSet(v[j]) \in SUBSET all /\ ToSet(v[j]) \cap {} = {}
  BY <1>1, <1>2, <1>3, <1>4
<1>6. ASSUME NEW j \in 1 .. n + 1, NEW k \in 1 .. n + 1, j # k
      PROVE  ToSet(v[j]) \cap ToSet(v[k]) = {}
  <2>1. \A i, h \in 1 .. n : i # h => ToSet(w[i]) \cap ToSet(w[h]) = {}
    BY DEF Shared
  <2>2. CASE j = n + 1
    BY <1>2, <1>3, <1>4, <1>6, <2>2
  <2>3. CASE k = n + 1
    BY <1>2, <1>3, <1>4, <1>6, <2>3
  <2>4. CASE j \in 1 .. n /\ k \in 1 .. n
    BY <1>2, <1>6, <2>1, <2>4
  <2> QED
    BY <1>2, <2>2, <2>3, <2>4
<1>7. ASSUME NEW x \in all PROVE \E j \in 1 .. n + 1 : x \in ToSet(v[j])
  <2>1. CASE x \in memory
    <3>1. n + 1 \in 1 .. n + 1
      BY <1>1
    <3> QED
      BY <1>2, <1>3, <2>1, <3>1
  <2>2. CASE x \notin memory
    <3>1. PICK j \in 1 .. n : x \in ToSet(w[j])
      BY <2>2 DEF Shared
    <3> QED
      BY <1>2, <3>1
  <2> QED
    BY <2>1, <2>2
<1>8. Shared(v, n + 1, all, {})
  BY <1>1, <1>5, <1>6, <1>7 DEF Shared
<1> QED
  BY <1>8 DEF v

-----------------------------------------------------------------------------
(* What has been written of a run.                                         *)

\* File f and the batches more hold run r up to the rows rest.
WrittenIs(f, more, rest, r) ==
  /\ more \in Batches /\ rest \in Seq(Row)
  /\ InPieces(f.disk \o more, r, f.rows)
  /\ f.rows + Len(rest) = Len(r) /\ \A i \in 1 .. Len(rest) : rest[i] = r[f.rows + i]

\* Only the last file may have rows in the buffer or still to come.
Written(fs, w, more, rest) ==
  \A j \in 1 .. Len(fs) : WrittenIs(fs[j], IF j = Len(fs) THEN more ELSE <<>>,
                                           IF j = Len(fs) THEN rest ELSE <<>>, w[j])

\* Of a run that is not begun everything is to be written.
LEMMA NothingWritten ==
  ASSUME NEW r \in Seq(Row)
  PROVE  WrittenIs(NewFile, <<>>, r, r)
<1>1. <<>> \in Batches /\ <<>> \o <<>> = <<>> /\ Len(r) \in Nat
  BY EmptySeq, ConcatEmptySeq, LenProperties DEF Batches
<1>2. NewFile.disk = <<>> /\ NewFile.rows = 0
  BY DEF NewFile
<1>3. InPieces(<<>>, r, 0)
  BY NoPieces
<1>4. 0 + Len(r) = Len(r) /\ \A i \in 1 .. Len(r) : r[i] = r[0 + i]
  BY <1>1
<1> QED
  BY <1>1, <1>2, <1>3, <1>4 DEF WrittenIs

\* When the buffer is on the disk and no row is left the file holds the whole run.
LEMMA WholeRun ==
  ASSUME NEW f \in File, NEW r, WrittenIs(f, <<>>, <<>>, r)
  PROVE  InPieces(f.disk, r, f.rows) /\ f.rows = Len(r)
<1>1. f.disk \in Seq(Seq(Row)) /\ f.rows \in Nat
  BY DEF File, Batches
<1>2. f.disk \o <<>> = f.disk
  BY <1>1, ConcatEmptySeq
<1>3. Len(<<>>) = 0
  BY EmptySeq
<1> QED
  BY <1>1, <1>2, <1>3 DEF WrittenIs

-----------------------------------------------------------------------------
(* The rows that come out.                                                 *)

\* out has the first pos[j] rows of each run j in order, and no row behind comes before
\* them.
OutIs(w, n, all, pos, out) ==
  /\ out \in Seq(all) /\ Ascending(out) /\ Distinct(out)
  /\ \A j \in 1 .. n : \A p \in 1 .. Len(w[j]) :
       IF p <= pos[j] THEN \E i \in 1 .. Len(out) : out[i] = w[j][p]
                      ELSE \A i \in 1 .. Len(out) : out[i] # w[j][p] /\ out[i].key <= w[j][p].key

\* The rows that have come out of the runs begin a sorting of all rows.
LEMMA OutBegins ==
  ASSUME NEW w, NEW n, NEW all, Shared(w, n, all, {}), NEW pos, NEW out, OutIs(w, n, all, pos, out)
  PROVE  IsBeginning(all, out)
<1>1. ASSUME NEW x \in all, \A i \in 1 .. Len(out) : out[i] # x, NEW i \in 1 .. Len(out)
      PROVE  out[i].key <= x.key
  <2>1. PICK j \in 1 .. n : x \in ToSet(w[j])
    BY DEF Shared
  <2>2. w[j] \in Seq(Row)
    BY DEF Shared, IsRun
  <2>3. PICK p \in 1 .. Len(w[j]) : w[j][p] = x
    BY <2>1, <2>2, ElementsOf
  <2> QED
    BY <1>1, <2>3 DEF OutIs
<1> QED
  BY <1>1 DEF IsBeginning, OutIs

\* The least of the next rows comes out.
LEMMA OutGrows ==
  ASSUME NEW w, NEW n, NEW all, Shared(w, n, all, {}), NEW pos, NEW out, OutIs(w, n, all, pos, out),
         NEW s \in 1 .. n, \A j \in 1 .. n : pos[j] \in Nat,
         pos[s] + 1 <= Len(w[s]),
         \A j \in 1 .. n : pos[j] + 1 <= Len(w[j]) => w[s][pos[s] + 1].key <= w[j][pos[j] + 1].key,
         NEW pos2, pos2[s] = pos[s] + 1, \A j \in 1 .. n : j # s => pos2[j] = pos[j]
  PROVE  OutIs(w, n, all, pos2, Append(out, w[s][pos[s] + 1]))
<1> DEFINE x == w[s][pos[s] + 1]
           l == Len(out)
           out2 == Append(out, x)
<1>1. ASSUME NEW j \in 1 .. n
      PROVE  /\ w[j] \in Seq(Row) /\ Len(w[j]) \in Nat
             /\ \A p \in 1 .. Len(w[j]) : w[j][p] \in all /\ w[j][p] \in Row
             /\ \A p, q \in 1 .. Len(w[j]) : p < q => w[j][p].key <= w[j][q].key
             /\ \A p, q \in 1 .. Len(w[j]) : p # q => w[j][p] # w[j][q]
  <2>1. w[j] \in Seq(Row) /\ ToSet(w[j]) \in SUBSET all /\ Ascending(w[j]) /\ Distinct(w[j])
        /\ all \in SUBSET Row
    BY DEF Shared, IsRun
  <2>2. \A p \in 1 .. Len(w[j]) : w[j][p] \in ToSet(w[j])
    BY <2>1, ElementsOf
  <2> QED
    BY <2>1, <2>2, LenProperties DEF Ascending, Distinct
<1>2. pos[s] + 1 \in 1 .. Len(w[s]) /\ ~ (pos[s] + 1 <= pos[s]) /\ pos[s] \in Nat
  BY <1>1
<1>3. x \in all /\ x \in Row /\ all \in SUBSET Row
  BY <1>1, <1>2 DEF Shared
<1>4. out \in Seq(all) /\ l \in Nat /\ \A i \in 1 .. l : out[i] \in all
  BY LenProperties, ElementOfSeq DEF OutIs
<1>5. /\ out2 \in Seq(all) /\ Len(out2) = l + 1 /\ out2[l + 1] = x
      /\ \A i \in 1 .. l : out2[i] = out[i]
  BY <1>3, <1>4, AppendProperties
<1>6. \A i \in 1 .. l : out[i] # x /\ out[i].key <= x.key
  BY <1>2 DEF OutIs
<1> HIDE DEF x, out2, l
<1>7. \A i \in 1 .. l + 1 : i \in 1 .. l \/ i = l + 1
  BY <1>4
<1>8. Ascending(out2)
  <2> SUFFICES ASSUME NEW i \in 1 .. l + 1, NEW j \in 1 .. l + 1, i < j
               PROVE  out2[i].key <= out2[j].key
    BY <1>5 DEF Ascending
  <2>1. i \in 1 .. l
    BY <1>4
  <2>2. CASE j = l + 1
    BY <1>5, <1>6, <2>1, <2>2
  <2>3. CASE j \in 1 .. l
    BY <1>5, <2>1, <2>3 DEF OutIs, Ascending, l
  <2> QED
    BY <1>7, <2>2, <2>3
<1>9. Distinct(out2)
  <2> SUFFICES ASSUME NEW i \in 1 .. l + 1, NEW j \in 1 .. l + 1, i # j
               PROVE  out2[i] # out2[j]
    BY <1>5 DEF Distinct
  <2>1. CASE i \in 1 .. l /\ j \in 1 .. l
    BY <1>5, <2>1 DEF OutIs, Distinct, l
  <2>2. CASE i = l + 1 \/ j = l + 1
    BY <1>4, <1>5, <1>6, <1>7, <2>2
  <2> QED
    BY <1>7, <2>1, <2>2
<1>10. ASSUME NEW j \in 1 .. n, NEW p \in 1 .. Len(w[j]), p <= pos2[j]
       PROVE  \E i \in 1 .. l + 1 : out2[i] = w[j][p]
  <2>1. CASE p <= pos[j]
    <3>1. PICK i \in 1 .. l : out[i] = w[j][p]
      BY <2>1 DEF OutIs, l
    <3>2. i \in 1 .. l + 1
      BY <1>4
    <3> QED
      BY <1>5, <3>1, <3>2
  <2>2. CASE ~ (p <= pos[j])
    <3>1. j = s /\ p = pos[s] + 1
      <4>1. j = s
        BY <1>10, <2>2
      <4>2. p <= pos[s] + 1 /\ ~ (p <= pos[s])
        BY <1>10, <2>2, <4>1
      <4>3. p \in Nat
        OBVIOUS
      <4> QED
        BY <1>2, <4>1, <4>2, <4>3
    <3>2. l + 1 \in 1 .. l + 1
      BY <1>4
    <3> QED
      BY <1>5, <3>1, <3>2 DEF x
  <2> QED
    BY <2>1, <2>2
<1>11. ASSUME NEW j \in 1 .. n, NEW p \in 1 .. Len(w[j]), ~ (p <= pos2[j])
       PROVE  \A i \in 1 .. l + 1 : out2[i] # w[j][p] /\ out2[i].key <= w[j][p].key
  <2>1. ~ (p <= pos[j]) /\ (j = s => p # pos[s] + 1) /\ p \in Nat /\ pos[j] \in Nat
    <3>1. p \in Nat /\ pos[j] \in Nat
      OBVIOUS
    <3>2. CASE j = s
      <4>1. ~ (p <= pos[s] + 1)
        BY <1>11, <3>2
      <4> QED
        BY <1>2, <3>1, <3>2, <4>1
    <3>3. CASE j # s
      BY <1>11, <3>1, <3>3
    <3> QED
      BY <3>2, <3>3
  <2>2. \A i \in 1 .. l : out[i] # w[j][p] /\ out[i].key <= w[j][p].key
    BY <2>1 DEF OutIs, l
  <2>3. x # w[j][p]
    <3>1. CASE j = s
      BY <1>1, <1>2, <2>1, <3>1 DEF x
    <3>2. CASE j # s
      <4>1. ToSet(w[s]) \cap ToSet(w[j]) = {}
        BY <3>2 DEF Shared
      <4>2. x \in ToSet(w[s]) /\ w[j][p] \in ToSet(w[j])
        BY <1>1, <1>2, ElementsOf DEF x
      <4> QED
        BY <4>1, <4>2
    <3> QED
      BY <3>1, <3>2
  <2>4. x.key <= w[j][p].key
    <3>1. pos[j] + 1 <= p /\ pos[j] + 1 \in 1 .. Len(w[j]) /\ pos[j] + 1 <= Len(w[j])
      BY <1>1, <2>1
    <3>2. x.key <= w[j][pos[j] + 1].key
      BY <3>1 DEF x
    <3>3. w[j][pos[j] + 1].key <= w[j][p].key
      <4>1. w[j][p].key \in Nat
        BY <1>1 DEF Row
      <4>2. pos[j] + 1 < p \/ pos[j] + 1 = p
        BY <2>1, <3>1
      <4> QED
        BY <1>1, <3>1, <4>1, <4>2
    <3>4. x.key \in Nat /\ w[j][p].key \in Nat /\ w[j][pos[j] + 1].key \in Nat
      BY <1>1, <1>3, <3>1 DEF Row
    <3> QED
      BY <3>2, <3>3, <3>4, SMTT(40)
  <2> QED
    BY <1>5, <1>7, <2>2, <2>3, <2>4
<1>12. OutIs(w, n, all, pos2, out2)
  BY <1>5, <1>8, <1>9, <1>10, <1>11 DEF OutIs
<1> QED
  BY <1>12 DEF out2, x

-----------------------------------------------------------------------------
(* The inductive invariant.                                                *)

Active  == pc \in {"idle", "spill", "create", "merge"} /\ ~finished
Merging == streams # <<>> /\ pc \in {"idle", "merge"}

Control ==
  /\ pc \in {"idle", "spill", "create", "merge", "failed", "closed"}
  /\ noMoreInput \in BOOLEAN /\ finished \in BOOLEAN /\ spiller \in BOOLEAN /\ abandoned \in BOOLEAN
  /\ files \in Seq(File)
  /\ pc \in {"create", "merge"} \/ streams # <<>> => noMoreInput
  /\ finished => noMoreInput /\ pc \in {"idle", "closed"}
  /\ ~noMoreInput => delivered = <<>>
  /\ pc = "spill" => files # <<>>
  /\ abandoned => pc \in {"failed", "closed"}
  /\ pc # "closed" /\ ~abandoned /\ files # <<>> /\ streams = <<>> => spiller

\* A file that is known and waits for its reader is in the directory.
Held(f) == f.named /\ f.reader = "none" => f.exists
Kept(fs) == \A j \in DOMAIN fs : Held(fs[j])

\* Of the known files just those are in the directory that have no reader.
Orphans(fs) == \A j \in DOMAIN fs : fs[j].named => (fs[j].exists <=> fs[j].reader = "none")

\* Who answers for the files.
Directory ==
  /\ finished => \A i \in DOMAIN files :
                   files[i].fd = "closed" /\ files[i].reader = "closed" /\ ~files[i].exists
  /\ abandoned => ~spiller /\ streams = <<>> /\ Orphans(files)
  /\ ~abandoned /\ pc = "closed" => \A i \in DOMAIN files : ~(files[i].named /\ files[i].exists)
  /\ ~abandoned /\ pc # "closed" => Kept(files)

\* What is where in each phase.
Phase ==
  /\ pagesIndex \in Seq(Row) /\ OwnIds(pagesIndex)
  /\ pc # "spill" => run = <<>> /\ buffer = <<>>
  /\ pc = "spill" => streams = <<>> /\ pagesIndex # <<>>
  /\ pc = "create" => /\ Len(streams) < Len(files)
                      /\ \A j \in 1 .. Len(streams) : Pos(streams[j]) = 0
  /\ pc = "merge" => streams # <<>>
  /\ pc \in {"idle", "merge"} => streams = <<>> \/ Len(streams) = Len(files)
  /\ pc = "create" \/ streams # <<>> => pagesIndex = <<>>
  /\ pc # "merge" => picked = <<>> /\ result = <<>>
  /\ \A j \in 1 .. Len(files) : files[j].fd = "closed" \/ (pc = "spill" /\ j = Len(files))
  /\ ~Merging /\ files # <<>> => delivered = <<>>
  /\ files = <<>> => /\ pagesIndex = given /\ Len(delivered) <= Len(given)
                     /\ delivered = SubSeq(ByKey(given), 1, Len(delivered))

\* The rows in memory that are in no run yet.
Memory == IF pc = "spill" THEN {} ELSE ToSet(pagesIndex)

\* File j holds the run w[j], and stream j reads it.
Runs(w) ==
  /\ Shared(w, Len(files), ToSet(given), Memory)
  /\ Written(files, w, buffer, run)
  /\ streams \in Seq(Stream) /\ Len(streams) <= Len(files)
  /\ \A j \in 1 .. Len(streams) : StreamOK(streams[j], files[j], w[j])
  /\ \A j \in 1 .. Len(files) : j > Len(streams) => files[j].reader = "none"

CopyOf(sts, refs) == [i \in DOMAIN refs |-> sts[refs[i].s + 1].batch[refs[i].at + 1]]
Positions == [j \in 1 .. Len(streams) |-> Pos(streams[j])]
Ref == [s : Nat, at : Nat]

\* What has come out of the merge so far.
Merged(w) ==
  /\ result \in Seq(Row) /\ picked \in Seq(Ref) /\ Copy(picked) \in Seq(Row)
  /\ OutIs(w, Len(streams), ToSet(given), Positions, (delivered \o result) \o Copy(picked))
  /\ IsReady(Len(streams), Heads(streams), tree, FALSE)

Working == \E w : Runs(w) /\ (Merging => Merged(w))

SInv == Control /\ Delivered /\ Directory /\ (Active => Phase /\ Working)

-----------------------------------------------------------------------------
(* Rows come in.                                                           *)

LEMMA JoinRows ==
  ASSUME NEW a \in Seq(Row), NEW b \in Seq(Row)
  PROVE  /\ a \o b \in Seq(Row) /\ Len(a \o b) = Len(a) + Len(b) /\ Len(a) \in Nat /\ Len(b) \in Nat
         /\ \A i \in 1 .. Len(a) : (a \o b)[i] = a[i]
         /\ \A i \in 1 .. Len(b) : (a \o b)[Len(a) + i] = b[i]
         /\ ToSet(a \o b) = ToSet(a) \cup ToSet(b)
<1> DEFINE c == a \o b
           n == Len(a)
           m == Len(b)
<1>1. n \in Nat /\ m \in Nat
  BY LenProperties
<1>2. /\ c \in Seq(Row) /\ Len(c) = n + m
      /\ \A i \in 1 .. n + m : c[i] = IF i <= n THEN a[i] ELSE b[i - n]
  BY ConcatProperties
<1>3. \A x : x \in ToSet(a) <=> \E i \in 1 .. n : a[i] = x
  BY ElementsOf
<1>4. \A x : x \in ToSet(b) <=> \E i \in 1 .. m : b[i] = x
  BY ElementsOf
<1>5. \A x : x \in ToSet(c) <=> \E i \in 1 .. n + m : c[i] = x
  <2> HIDE DEF c
  <2> QED
    BY <1>2, ElementsOf
<1> HIDE DEF c, n, m
<1>6. \A i \in 1 .. n : i \in 1 .. n + m /\ c[i] = a[i]
  BY <1>1, <1>2
<1>7. \A i \in 1 .. m : n + i \in 1 .. n + m /\ c[n + i] = b[i]
  BY <1>1, <1>2
<1>8. \A i \in 1 .. n + m : i \in 1 .. n \/ (i - n \in 1 .. m /\ c[i] = b[i - n])
  BY <1>1, <1>2
<1>9. ASSUME NEW x PROVE x \in ToSet(c) <=> x \in ToSet(a) \/ x \in ToSet(b)
  <2>1. CASE x \in ToSet(c)
    <3>1. PICK i \in 1 .. n + m : c[i] = x
      BY <1>5, <2>1
    <3> QED
      BY <1>3, <1>4, <1>6, <1>8, <2>1, <3>1
  <2>2. CASE x \in ToSet(a)
    BY <1>3, <1>5, <1>6, <2>2
  <2>3. CASE x \in ToSet(b)
    BY <1>4, <1>5, <1>7, <2>3
  <2> QED
    BY <2>1, <2>2, <2>3
<1> QED
  BY <1>1, <1>2, <1>6, <1>7, <1>9 DEF c, n, m

\* The rows new, numbered on from those given.
AreNew(new) ==
  /\ new \in Seq(Row) /\ Len(new) > 0
  /\ \A i \in 1 .. Len(new) : new[i].id = Len(given) + i

\* A batch's rows are numbered on from those given.
LEMMA NewRows ==
  ASSUME Numbered, NEW n \in 1 .. BatchRows, NEW rows \in [1 .. n -> Keys]
  PROVE  AreNew([i \in DOMAIN rows |-> [key |-> rows[i], id |-> Len(given) + i]])
<1> DEFINE new == [i \in DOMAIN rows |-> [key |-> rows[i], id |-> Len(given) + i]]
<1>1. n \in Nat /\ n > 0 /\ Keys \subseteq Nat
  BY SizesAssumption
<1>2. Len(given) \in Nat
  BY LenProperties DEF Numbered
<1>3. DOMAIN new = 1 .. n /\ \A i \in 1 .. n : new[i] = [key |-> rows[i], id |-> Len(given) + i]
  OBVIOUS
<1>4. \A i \in 1 .. n : new[i] \in Row /\ new[i].id = Len(given) + i
  <2> SUFFICES ASSUME NEW i \in 1 .. n
               PROVE  new[i] \in Row /\ new[i].id = Len(given) + i
    OBVIOUS
  <2>1. rows[i] \in Nat /\ Len(given) + i \in Nat
    <3>1. rows[i] \in Keys /\ i \in Nat
      BY <1>1
    <3>2. rows[i] \in Nat
      BY <1>1, <3>1
    <3>3. Len(given) + i \in Nat
      BY <1>2, <3>1
    <3> QED
      BY <3>2, <3>3
  <2>2. new[i] = [key |-> rows[i], id |-> Len(given) + i]
    BY <1>3
  <2> QED
    BY <2>1, <2>2 DEF Row
<1>5. new = [i \in 1 .. n |-> new[i]]
  BY <1>3
<1> HIDE DEF new
<1>6. new \in Seq(Row) /\ Len(new) = n
  <2>1. new \in [1 .. n -> Row]
    BY <1>4, <1>5
  <2>2. new \in Seq(Row)
    BY <1>1, <2>1, SeqDef
  <2> QED
    BY <1>1, <1>3, <2>2, LenProperties
<1>7. AreNew(new)
  BY <1>1, <1>4, <1>6 DEF AreNew
<1> QED
  BY <1>7 DEF new

\* What is given stays numbered, and the new rows are none of the old ones.
LEMMA GivenMore ==
  ASSUME Numbered, NEW new, AreNew(new)
  PROVE  /\ given \o new \in Seq(Row) /\ \A i \in 1 .. Len(given \o new) : (given \o new)[i].id = i
         /\ ToSet(given \o new) = ToSet(given) \cup ToSet(new) /\ ToSet(new) \in SUBSET Row
         /\ ToSet(new) \cap ToSet(given) = {}
<1> DEFINE n == Len(given)
           m == Len(new)
           c == given \o new
<1>1. given \in Seq(Row) /\ new \in Seq(Row)
  BY DEF Numbered, AreNew
<1>2. /\ c \in Seq(Row) /\ Len(c) = n + m /\ n \in Nat /\ m \in Nat
      /\ \A i \in 1 .. n : c[i] = given[i]
      /\ \A i \in 1 .. m : c[n + i] = new[i]
      /\ ToSet(c) = ToSet(given) \cup ToSet(new)
  BY <1>1, JoinRows
<1>3. \A i \in 1 .. m : new[i].id = n + i
  BY DEF AreNew
<1>4. \A i \in 1 .. n : given[i].id = i
  BY DEF Numbered
<1>5. \A x \in ToSet(given) : x.id \in 1 .. n
  BY NumberedRows
<1>6. ToSet(new) \in SUBSET Row /\ \A x : x \in ToSet(new) <=> \E i \in 1 .. m : new[i] = x
  BY <1>1, ElementsOf
<1> HIDE DEF n, m, c
<1>7. ASSUME NEW i \in 1 .. n + m PROVE c[i].id = i
  <2>1. CASE i \in 1 .. n
    BY <1>2, <1>4, <2>1
  <2>2. CASE ~ (i \in 1 .. n)
    <3>1. i - n \in 1 .. m /\ n + (i - n) = i
      BY <1>2, <2>2
    <3> QED
      BY <1>2, <1>3, <3>1
  <2> QED
    BY <2>1, <2>2
<1>8. ASSUME NEW x \in ToSet(new), x \in ToSet(given) PROVE FALSE
  <2>1. PICK i \in 1 .. m : new[i] = x
    BY <1>6
  <2>2. x.id = n + i /\ x.id \in 1 .. n
    BY <1>3, <1>5, <1>8, <2>1
  <2> QED
    BY <1>2, <2>2
<1> QED
  BY <1>2, <1>6, <1>7, <1>8 DEF c

\* Numbers stay unique among the rows in memory.
LEMMA PagesMore ==
  ASSUME Numbered, NEW pages \in Seq(Row), OwnIds(pages), ToSet(pages) \in SUBSET ToSet(given),
         NEW new, AreNew(new)
  PROVE  OwnIds(pages \o new)
<1> DEFINE g == Len(given)
           n == Len(pages)
           m == Len(new)
           c == pages \o new
<1>1. new \in Seq(Row)
  BY DEF AreNew
<1>2. /\ Len(c) = n + m /\ n \in Nat /\ m \in Nat
      /\ \A i \in 1 .. n : c[i] = pages[i]
      /\ \A i \in 1 .. m : c[n + i] = new[i]
  BY <1>1, JoinRows
<1>3. \A i \in 1 .. m : new[i].id = g + i
  BY DEF AreNew
<1>4. \A i \in 1 .. n : pages[i].id \in 1 .. g
  <2>1. \A x \in ToSet(given) : x.id \in 1 .. g
    BY NumberedRows
  <2>2. \A i \in 1 .. n : pages[i] \in ToSet(pages)
    BY ElementsOf
  <2> QED
    BY <2>1, <2>2
<1>5. g \in Nat
  BY LenProperties DEF Numbered
<1>6. \A i, j \in 1 .. n : i # j => pages[i].id # pages[j].id
  BY DEF OwnIds
<1> HIDE DEF g, n, m, c
<1>7. \A i \in 1 .. n + m : \/ i \in 1 .. n /\ c[i].id = pages[i].id /\ c[i].id \in 1 .. g
                            \/ i \notin 1 .. n /\ c[i].id = g + (i - n) /\ i - n \in 1 .. m
  <2> SUFFICES ASSUME NEW i \in 1 .. n + m, i \notin 1 .. n
               PROVE  c[i].id = g + (i - n) /\ i - n \in 1 .. m
    BY <1>2, <1>4
  <2>1. i - n \in 1 .. m /\ n + (i - n) = i
    BY <1>2
  <2> QED
    BY <1>2, <1>3, <2>1
<1>8. ASSUME NEW i \in 1 .. n + m, NEW j \in 1 .. n + m, i # j PROVE c[i].id # c[j].id
  <2>1. CASE i \in 1 .. n /\ j \in 1 .. n
    BY <1>6, <1>7, <1>8, <2>1
  <2>2. CASE i \in 1 .. n /\ j \notin 1 .. n
    BY <1>2, <1>5, <1>7, <2>2
  <2>3. CASE i \notin 1 .. n /\ j \in 1 .. n
    BY <1>2, <1>5, <1>7, <2>3
  <2>4. CASE i \notin 1 .. n /\ j \notin 1 .. n
    BY <1>2, <1>5, <1>7, <1>8, <2>4
  <2> QED
    BY <2>1, <2>2, <2>3, <2>4
<1> QED
  BY <1>2, <1>8 DEF OwnIds, c

-----------------------------------------------------------------------------
(* Rows go into a new run.                                                 *)

LEMMA NewFileIsFile == NewFile \in File
<1>1. <<>> \in Batches
  BY EmptySeq DEF Batches
<1> QED
  BY <1>1 DEF NewFile, File

\* A new file is the last one.
LEMMA MoreFiles ==
  ASSUME NEW fs \in Seq(File)
  PROVE  /\ Append(fs, NewFile) \in Seq(File) /\ Len(Append(fs, NewFile)) = Len(fs) + 1 /\ Len(fs) \in Nat
         /\ Append(fs, NewFile)[Len(fs) + 1] = NewFile
         /\ \A j \in 1 .. Len(fs) : Append(fs, NewFile)[j] = fs[j]
BY NewFileIsFile, AppendProperties, LenProperties

\* SpillToDisk: all rows in memory are the new run, of which nothing is written yet.
LEMMA SpillBegins ==
  ASSUME NEW fs \in Seq(File), NEW w, NEW all, NEW rows \in Seq(Row), OwnIds(rows), rows # <<>>,
         Shared(w, Len(fs), all, ToSet(rows)), Written(fs, w, <<>>, <<>>)
  PROVE  LET v == More(w, Len(fs), ByKey(rows))
         IN  /\ Shared(v, Len(fs) + 1, all, {})
             /\ Written(Append(fs, NewFile), v, <<>>, ByKey(rows))
<1> DEFINE n == Len(fs)
           r == ByKey(rows)
           v == More(w, n, r)
           gs == Append(fs, NewFile)
<1>1. /\ Len(gs) = n + 1 /\ gs[n + 1] = NewFile /\ n \in Nat
      /\ \A j \in 1 .. n : gs[j] = fs[j]
  BY MoreFiles
<1>2. IsSorting(ToSet(rows), r) /\ Len(r) = Len(rows) /\ Len(r) > 0
  <2>1. Len(rows) \in Nat /\ Len(rows) # 0
    BY EmptySeq, LenProperties
  <2> QED
    BY <2>1, ByKeySorts
<1>3. Shared(v, n + 1, all, {})
  BY <1>2, SharedSpilled
<1>4. r \in Seq(Row)
  <2>1. ToSet(rows) \in SUBSET Row
    BY ElementsOf
  <2>2. r \in Seq(ToSet(rows))
    BY <1>2 DEF IsSorting
  <2> QED
    BY <2>1, <2>2, SeqMonotonic
<1> HIDE DEF r, gs
<1>5. v[n + 1] = r /\ \A j \in 1 .. n : v[j] = w[j]
  BY <1>1, MoreIs
<1> HIDE DEF v, n
<1>6. ASSUME NEW j \in 1 .. n + 1
      PROVE  WrittenIs(gs[j], IF j = n + 1 THEN <<>> ELSE <<>>, IF j = n + 1 THEN r ELSE <<>>, v[j])
  <2>1. CASE j = n + 1
    <3>1. WrittenIs(NewFile, <<>>, r, r)
      BY <1>4, NothingWritten
    <3> QED
      BY <1>1, <1>5, <2>1, <3>1
  <2>2. CASE j # n + 1
    <3>1. j \in 1 .. n
      BY <1>1, <2>2
    <3>2. WrittenIs(fs[j], <<>>, <<>>, w[j])
      BY <3>1 DEF Written, n
    <3> QED
      BY <1>1, <1>5, <2>2, <3>1, <3>2
  <2> QED
    BY <2>1, <2>2
<1>7. Written(gs, v, <<>>, r)
  BY <1>1, <1>6 DEF Written
<1> QED
  BY <1>3, <1>7 DEF gs, r, v, n

-----------------------------------------------------------------------------
(* What keeps holding when little changes.                                 *)

LEMMA DeliveredStays ==
  ASSUME Delivered, UNCHANGED <<given, delivered, finished>>
  PROVE  Delivered'
BY DEF Delivered, Numbered

\* After an exception only the files and what is left of them matters.
LEMMA Failed ==
  ASSUME SInv, pc \in {"spill", "create", "merge"}, pc' = "failed", files' \in Seq(File),
         UNCHANGED <<noMoreInput, finished, given, delivered>>,
         spiller' \in BOOLEAN, abandoned' \in BOOLEAN,
         streams' # <<>> => noMoreInput,
         ~abandoned' /\ files' # <<>> /\ streams' = <<>> => spiller',
         IF abandoned' THEN ~spiller' /\ streams' = <<>> /\ Orphans(files') ELSE Kept(files')
  PROVE  SInv'
<1>1. Control /\ Delivered
  BY DEF SInv
<1>2. Delivered'
  BY <1>1, DeliveredStays
<1>3. Control'
  BY <1>1 DEF Control
<1>4. ~ finished'
  BY <1>1 DEF Control
<1>5. Directory'
  BY <1>4 DEF Directory, Orphans, Kept
<1>6. ~ Active'
  BY DEF Active
<1> QED
  BY <1>2, <1>3, <1>5, <1>6 DEF SInv

\* One file is changed, the others stay.
LEMMA FileChanged ==
  ASSUME NEW fs \in Seq(File), NEW i \in 1 .. Len(fs), NEW f \in File
  PROVE  /\ [fs EXCEPT ![i] = f] \in Seq(File) /\ Len([fs EXCEPT ![i] = f]) = Len(fs)
         /\ [fs EXCEPT ![i] = f][i] = f
         /\ \A j \in 1 .. Len(fs) : j # i => [fs EXCEPT ![i] = f][j] = fs[j]
BY ExceptSeq

\* The last file is a file.
LEMMA LastFile ==
  ASSUME Control, files # <<>>
  PROVE  Len(files) \in Nat /\ Len(files) \in 1 .. Len(files) /\ Last(files) = files[Len(files)]
         /\ files[Len(files)] \in File
<1>1. files \in Seq(File)
  BY DEF Control
<1>2. Len(files) \in Nat /\ Len(files) # 0
  BY <1>1, EmptySeq, LenProperties
<1>3. Len(files) \in 1 .. Len(files)
  BY <1>2
<1> QED
  BY <1>1, <1>2, <1>3, ElementOfSeq DEF Last

\* No file is forgotten by a step that changes one file.
LEMMA KeptIfHeld ==
  ASSUME NEW fs \in Seq(File), NEW gs \in Seq(File), Len(gs) = Len(fs), NEW i \in 1 .. Len(fs),
         \A j \in 1 .. Len(fs) : j # i => gs[j] = fs[j], Kept(fs), Held(gs[i])
  PROVE  Kept(gs)
<1>1. DOMAIN fs = 1 .. Len(fs) /\ DOMAIN gs = 1 .. Len(fs)
  BY LenProperties
<1> QED
  BY <1>1 DEF Kept

\* As long as nothing ends the known files only have to be kept.
LEMMA DirectoryStays ==
  ASSUME Kept(files'), ~finished', ~abandoned', pc' # "closed"
  PROVE  Directory'
BY DEF Directory, Kept

\* Opening the file for writing touches neither its rows nor its reader.
LEMMA CreatedIs ==
  ASSUME NEW f \in File
  PROVE  /\ Created(f) \in File /\ Created(f).disk = f.disk /\ Created(f).rows = f.rows
         /\ Created(f).reader = f.reader /\ Created(f).exists
BY DEF Created, File

\* Init.
LEMMA Begins == Init => SInv
<1> SUFFICES ASSUME Init PROVE SInv
  OBVIOUS
<1>1. /\ <<>> \in Seq(File) /\ <<>> \in Seq(Row) /\ <<>> \in Seq(Stream) /\ Len(<<>>) = 0
      /\ \A S : <<>> \in Seq(S)
  BY EmptySeq
<1>2. Control
  BY <1>1 DEF Init, Control
<1>3. Delivered
  <2>1. ToSet(given) = {}
    <3>1. ToSet(given) \in SUBSET Row /\ \A x : x \in ToSet(given) <=> \E i \in 1 .. Len(given) : given[i] = x
      BY <1>1, ElementsOf DEF Init
    <3> QED
      BY <1>1, <3>1 DEF Init
  <2>2. IsBeginning(ToSet(given), delivered)
    BY <1>1, <2>1 DEF Init, IsBeginning, Ascending, Distinct
  <2> QED
    BY <1>1, <2>2 DEF Init, Delivered, Numbered
<1>4. Directory
  <2>1. \A j \in DOMAIN files : FALSE
    BY DEF Init
  <2> QED
    BY <2>1 DEF Init, Directory, Kept
<1>5. Phase
  <2>1. delivered = SubSeq(ByKey(given), 1, Len(delivered))
    <3>1. OwnIds(given) /\ given \in Seq(Row)
      BY <1>3, NumberedRows DEF Delivered, Numbered
    <3>2. ByKey(given) \in Seq(ToSet(given))
      BY <3>1, ByKeySorts DEF IsSorting
    <3>3. SubSeq(ByKey(given), 1, 0) = <<>>
      BY <3>2, SubSeqEmpty
    <3> QED
      BY <1>1, <3>3 DEF Init
  <2>2. OwnIds(pagesIndex)
    BY <1>1 DEF Init, OwnIds
  <2> QED
    BY <1>1, <2>1, <2>2 DEF Init, Phase, Merging
<1>6. Working
  <2> DEFINE w == [j \in 1 .. 0 |-> <<>>]
  <2>1. Shared(w, Len(files), ToSet(given), Memory)
    <3>1. Memory = ToSet(given) /\ Len(files) = 0
      BY <1>1 DEF Init, Memory
    <3>2. ToSet(given) \in SUBSET Row
      BY <1>3, NumberedRows DEF Delivered
    <3> QED
      BY <3>1, <3>2 DEF Shared
  <2>2. Written(files, w, buffer, run)
    BY <1>1 DEF Init, Written
  <2>3. Runs(w)
    BY <1>1, <2>1, <2>2 DEF Runs, Init
  <2>4. ~ Merging
    BY DEF Init, Merging
  <2> QED
    BY <2>3, <2>4 DEF Working
<1> QED
  BY <1>2, <1>3, <1>4, <1>5, <1>6 DEF SInv

-----------------------------------------------------------------------------
(* Exceptions.                                                             *)

LEMMA Thrown ==
  ASSUME SInv, pc \in {"spill", "create"}, Throw, files # <<>>, files' \in Seq(File),
         UNCHANGED <<noMoreInput, finished, given, delivered>>, streams' = <<>>, Orphans(files')
  PROVE  SInv'
<1>1. Control
  BY DEF SInv
<1>2. pc' = "failed" /\ spiller' = (spiller /\ ~noMoreInput) /\ abandoned' = noMoreInput
  BY DEF Throw
<1>3. spiller' \in BOOLEAN /\ abandoned' \in BOOLEAN
  BY <1>1, <1>2 DEF Control
<1>4. ~abandoned' /\ files' # <<>> /\ streams' = <<>> => spiller'
  <2>1. ~noMoreInput => streams = <<>> /\ ~abandoned
    BY <1>1 DEF Control
  <2> QED
    BY <1>1, <1>2, <2>1 DEF Control
<1>5. Kept(files')
  BY DEF Kept, Orphans, Held
<1>6. IF abandoned' THEN ~spiller' /\ streams' = <<>> /\ Orphans(files') ELSE Kept(files')
  BY <1>2, <1>5
<1> QED
  BY <1>2, <1>3, <1>4, <1>6, Failed

\* While a run is written no file has a reader, and every known file is kept.
LEMMA NotReadYet ==
  ASSUME SInv, pc = "spill"
  PROVE  /\ files \in Seq(File) /\ streams = <<>> /\ Orphans(files) /\ ~abandoned
         /\ \A j \in DOMAIN files : files[j].reader = "none"
<1>1. Control /\ Directory /\ files \in Seq(File) /\ Active /\ ~abandoned
  BY DEF SInv, Control, Active
<1>2. streams = <<>>
  BY <1>1 DEF SInv, Phase
<1>3. PICK w : Runs(w)
  BY <1>1 DEF SInv, Working
<1>4. Len(streams) = 0 /\ DOMAIN files = 1 .. Len(files)
  BY <1>1, <1>2, EmptySeq, LenProperties
<1>5. \A j \in DOMAIN files : files[j].reader = "none"
  BY <1>3, <1>4 DEF Runs
<1>6. Kept(files)
  BY <1>1 DEF Directory
<1> QED
  BY <1>1, <1>2, <1>5, <1>6 DEF Orphans, Kept, Held

\* The same after the last file has been changed by its writer.
LEMMA StillNotRead ==
  ASSUME SInv, pc = "spill", files # <<>>, NEW f \in File, files' = [files EXCEPT ![Len(files)] = f],
         f.reader = files[Len(files)].reader,
         f.exists \/ (f.named = files[Len(files)].named /\ f.exists = files[Len(files)].exists)
  PROVE  files' \in Seq(File) /\ Orphans(files')
<1> DEFINE n == Len(files)
<1>1. /\ files \in Seq(File) /\ Orphans(files) /\ \A j \in DOMAIN files : files[j].reader = "none"
      /\ DOMAIN files = 1 .. n /\ n \in 1 .. n
  BY NotReadYet, LastFile, LenProperties DEF SInv
<1>2. /\ files' \in Seq(File) /\ Len(files') = n /\ files'[n] = f
      /\ \A j \in 1 .. n : j # n => files'[j] = files[j]
  BY <1>1, FileChanged
<1>3. DOMAIN files' = 1 .. n
  BY <1>2, LenProperties
<1> HIDE DEF n
<1>4. files[n].reader = "none" /\ (files[n].named => files[n].exists)
  BY <1>1 DEF Orphans
<1>5. f.reader = "none" /\ (f.named => f.exists)
  BY <1>4 DEF n
<1> QED
  BY <1>1, <1>2, <1>3, <1>5 DEF Orphans

\* The memory limit is exceeded, which throws.
LEMMA ExceedKeeps == ASSUME SInv, ExceedSpillLimit PROVE SInv'
<1>1. Control /\ pc = "spill" /\ files # <<>> /\ files' = files /\ files \in Seq(File)
  BY DEF SInv, Control, ExceedSpillLimit
<1>2. streams' = <<>> /\ Orphans(files')
  BY <1>1, NotReadYet DEF ExceedSpillLimit
<1> QED
  BY <1>1, <1>2, Thrown DEF ExceedSpillLimit

\* The file cannot be created, which throws.
LEMMA FailToCreateKeeps == ASSUME SInv, FailToCreate PROVE SInv'
<1>1. Control /\ pc = "spill" /\ files # <<>> /\ files \in Seq(File)
  BY DEF SInv, Control, FailToCreate
<1>2. Len(files) \in 1 .. Len(files) /\ files[Len(files)] \in File
  BY <1>1, LastFile
<1> DEFINE n == Len(files)
           f == [files[n] EXCEPT !.fd = "open", !.exists = TRUE]
<1>3. f \in File /\ f.reader = files[n].reader /\ f.exists
  BY <1>2 DEF File
<1>4. files' = files \/ files' = [files EXCEPT ![n] = f]
  BY <1>1, <1>2 DEF FailToCreate
<1> HIDE DEF f
<1>5. files' \in Seq(File) /\ Orphans(files') /\ streams' = <<>>
  BY <1>1, <1>2, <1>3, <1>4, NotReadYet, StillNotRead DEF FailToCreate
<1> QED
  BY <1>1, <1>5, Thrown DEF FailToCreate

\* A batch cannot be written, which throws.
LEMMA FailToWriteKeeps == ASSUME SInv, FailToWrite PROVE SInv'
<1>1. Control /\ pc = "spill" /\ files # <<>> /\ files \in Seq(File)
  BY DEF SInv, Control, FailToWrite
<1>2. Len(files) \in 1 .. Len(files) /\ Last(files) \in File
  BY <1>1, LastFile
<1> DEFINE f == Created(Last(files))
<1>3. f \in File /\ f.reader = files[Len(files)].reader /\ f.exists
  BY <1>1, <1>2, CreatedIs, LastFile
<1>4. files' = [files EXCEPT ![Len(files)] = f]
  BY DEF FailToWrite
<1> HIDE DEF f
<1>5. files' \in Seq(File) /\ Orphans(files') /\ streams' = <<>>
  BY <1>1, <1>3, <1>4, NotReadYet, StillNotRead DEF FailToWrite
<1> QED
  BY <1>1, <1>5, Thrown DEF FailToWrite

\* The last batch cannot be written when the writer is closed, which throws.
LEMMA FailToCloseKeeps == ASSUME SInv, FailToClose PROVE SInv'
<1>1. Control /\ pc = "spill" /\ files # <<>> /\ files \in Seq(File)
  BY DEF SInv, Control, FailToClose
<1>2. Len(files) \in 1 .. Len(files) /\ files[Len(files)] \in File
  BY <1>1, LastFile
<1> DEFINE f == [files[Len(files)] EXCEPT !.fd = "closed"]
<1>3. /\ f \in File /\ f.reader = files[Len(files)].reader /\ f.exists = files[Len(files)].exists
      /\ f.named = files[Len(files)].named
  BY <1>2 DEF File
<1>4. files' = [files EXCEPT ![Len(files)] = f]
  BY <1>1, <1>2 DEF FailToClose
<1> HIDE DEF f
<1>5. files' \in Seq(File) /\ Orphans(files') /\ streams' = <<>>
  BY <1>1, <1>2, <1>3, <1>4, NotReadYet, StillNotRead DEF FailToClose
<1> QED
  BY <1>1, <1>5, Thrown DEF FailToClose

\* Files whose directory entries go.
Gone(fs, X) == [j \in DOMAIN fs |-> IF j \in X THEN [fs[j] EXCEPT !.exists = FALSE] ELSE fs[j]]

\* Removing directory entries changes nothing else of the files.
LEMMA FilesGone ==
  ASSUME NEW fs \in Seq(File), NEW X
  PROVE  /\ Gone(fs, X) \in Seq(File) /\ Len(Gone(fs, X)) = Len(fs) /\ DOMAIN Gone(fs, X) = 1 .. Len(fs)
         /\ \A j \in 1 .. Len(fs) :
              /\ Gone(fs, X)[j].fd = fs[j].fd /\ Gone(fs, X)[j].reader = fs[j].reader
              /\ Gone(fs, X)[j].named = fs[j].named
              /\ Gone(fs, X)[j].exists = (fs[j].exists /\ j \notin X)
<1> DEFINE n == Len(fs)
           gs == Gone(fs, X)
<1>1. n \in Nat /\ DOMAIN fs = 1 .. n /\ \A j \in 1 .. n : fs[j] \in File
  BY LenProperties, ElementOfSeq
<1>2. \A j \in 1 .. n : gs[j] = IF j \in X THEN [fs[j] EXCEPT !.exists = FALSE] ELSE fs[j]
  BY <1>1 DEF Gone
<1>3. DOMAIN gs = 1 .. n /\ gs = [j \in 1 .. n |-> gs[j]]
  BY <1>1 DEF Gone
<1> HIDE DEF gs
<1>4. ASSUME NEW j \in 1 .. n
      PROVE  /\ gs[j] \in File
             /\ gs[j].fd = fs[j].fd /\ gs[j].reader = fs[j].reader /\ gs[j].named = fs[j].named
             /\ gs[j].exists = (fs[j].exists /\ j \notin X)
  <2>1. CASE j \in X
    <3>1. gs[j] = [fs[j] EXCEPT !.exists = FALSE]
      BY <1>2, <2>1
    <3> QED
      BY <1>1, <2>1, <3>1 DEF File
  <2>2. CASE j \notin X
    <3>1. gs[j] = fs[j]
      BY <1>2, <2>2
    <3> QED
      BY <1>1, <2>2, <3>1 DEF File
  <2> QED
    BY <2>1, <2>2
<1>5. gs \in Seq(File) /\ Len(gs) = n
  <2>1. gs \in [1 .. n -> File]
    BY <1>3, <1>4
  <2>2. gs \in Seq(File)
    BY <1>1, <2>1, SeqDef
  <2> QED
    BY <1>1, <1>3, <2>2, LenProperties
<1> QED
  BY <1>3, <1>4, <1>5 DEF gs

LEMMA StreamTypes ==
  ASSUME NEW t, NEW f, NEW r, StreamOK(t, f, r)
  PROVE  t \in Stream /\ f \in File /\ f.reader # "none"
BY DEF StreamOK, Reads

\* A removed file, and the files when reader i is the first that cannot be made.
Dropped(f, x) == [f EXCEPT !.exists = FALSE, !.reader = x]
Lost(fs, i) ==
  [j \in DOMAIN fs |->
     IF j > i THEN fs[j] ELSE Dropped(fs[j], IF j = i THEN "failed" ELSE fs[j].reader)]

\* A removed file with another state of its reader is a file.
LEMMA LostFile ==
  ASSUME NEW f \in File, NEW x \in {"none", "open", "closed", "failed"}
  PROVE  Dropped(f, x) \in File /\ ~Dropped(f, x).exists /\ Dropped(f, x).reader = x
BY DEF File, Dropped

\* It removes the files up to i and touches no other reader than that of file i.
LEMMA FilesLost ==
  ASSUME NEW fs \in Seq(File), NEW i \in 1 .. Len(fs)
  PROVE  /\ Lost(fs, i) \in Seq(File) /\ DOMAIN Lost(fs, i) = 1 .. Len(fs)
         /\ \A j \in 1 .. Len(fs) :
              /\ j > i => Lost(fs, i)[j] = fs[j]
              /\ j <= i => ~Lost(fs, i)[j].exists
              /\ j < i => Lost(fs, i)[j].reader = fs[j].reader
         /\ Lost(fs, i)[i].reader = "failed"
<1> DEFINE n == Len(fs)
           gs == Lost(fs, i)
<1>1. n \in Nat /\ DOMAIN fs = 1 .. n /\ \A j \in 1 .. n : fs[j] \in File
  BY LenProperties, ElementOfSeq
<1>2. \A j \in 1 .. n :
        gs[j] = IF j > i THEN fs[j]
                ELSE Dropped(fs[j], IF j = i THEN "failed" ELSE fs[j].reader)
  BY <1>1 DEF Lost
<1>3. DOMAIN gs = 1 .. n /\ gs = [j \in 1 .. n |-> gs[j]]
  BY <1>1 DEF Lost
<1> HIDE DEF gs
<1>4. ASSUME NEW j \in 1 .. n
      PROVE  /\ gs[j] \in File
             /\ j > i => gs[j] = fs[j]
             /\ j <= i => ~gs[j].exists
             /\ j < i => gs[j].reader = fs[j].reader
             /\ j = i => gs[j].reader = "failed"
  <2>1. CASE j > i
    <3>1. gs[j] = fs[j]
      BY <1>2, <2>1
    <3> QED
      BY <1>1, <2>1, <3>1
  <2>2. CASE j = i
    <3>1. gs[j] = Dropped(fs[j], "failed")
      BY <1>2, <2>2
    <3>2. gs[j] \in File /\ ~gs[j].exists /\ gs[j].reader = "failed"
      BY <1>1, <3>1, LostFile
    <3> QED
      BY <1>1, <2>2, <3>2
  <2>3. CASE j < i
    <3>1. gs[j] = Dropped(fs[j], fs[j].reader)
      BY <1>2, <2>3
    <3>2. fs[j].reader \in {"none", "open", "closed", "failed"}
      BY <1>1 DEF File
    <3>3. gs[j] \in File /\ ~gs[j].exists /\ gs[j].reader = fs[j].reader
      BY <1>1, <3>1, <3>2, LostFile
    <3> QED
      BY <1>1, <2>3, <3>3
  <2> QED
    BY <1>1, <2>1, <2>2, <2>3
<1>5. gs \in Seq(File)
  <2>1. gs \in [1 .. n -> File]
    BY <1>3, <1>4
  <2> QED
    BY <1>1, <2>1, SeqDef
<1> QED
  BY <1>3, <1>4, <1>5 DEF gs

\* A file cannot be opened for reading, which throws.
LEMMA FailToOpenKeeps == ASSUME SInv, FailToOpen PROVE SInv'
<1>1. Control /\ Directory /\ pc = "create" /\ Active /\ files \in Seq(File) /\ ~abandoned
  BY DEF SInv, Control, Active, FailToOpen
<1>2. Phase
  BY <1>1 DEF SInv
<1>3. PICK w : Runs(w)
  BY <1>1 DEF SInv, Working
<1> DEFINE n == Len(files)
           l == Len(streams)
           i == l + 1
<1>4. l \in Nat /\ n \in Nat /\ l < n /\ DOMAIN files = 1 .. n
  BY <1>1, <1>2, <1>3, LenProperties DEF Phase, Runs
<1>5. files' = Lost(files, i)
  BY DEF FailToOpen, Lost, Dropped
<1>6. \A j \in 1 .. l : files[j].reader # "none"
  BY <1>3, StreamTypes DEF Runs
<1>7. \A j \in 1 .. n : (j > l => files[j].reader = "none") /\ Held(files[j])
  BY <1>1, <1>3, <1>4 DEF Runs, Directory, Kept
<1>8. files # <<>>
  BY <1>4, EmptySeq
<1>9. i \in 1 .. n /\ \A j \in 1 .. n : (j < i => j \in 1 .. l) /\ (j > i => j > l)
  BY <1>4
<1> HIDE DEF i, l
<1>10. /\ files' \in Seq(File) /\ DOMAIN files' = 1 .. n
       /\ \A j \in 1 .. n :
            /\ j > i => files'[j] = files[j]
            /\ j <= i => ~files'[j].exists
            /\ j < i => files'[j].reader = files[j].reader
       /\ files'[i].reader = "failed"
  BY <1>1, <1>5, <1>9, FilesLost
<1> HIDE DEF n
<1>11. ASSUME NEW j \in 1 .. n, files'[j].named
       PROVE  files'[j].exists <=> files'[j].reader = "none"
  <2>1. CASE j > i
    BY <1>7, <1>9, <1>10, <1>11, <2>1 DEF Held
  <2>2. CASE j = i
    BY <1>9, <1>10, <2>2
  <2>3. CASE j < i
    BY <1>6, <1>9, <1>10, <2>3
  <2> QED
    BY <1>4, <1>9, <2>1, <2>2, <2>3
<1>12. Orphans(files')
  BY <1>10, <1>11 DEF Orphans
<1> QED
  BY <1>1, <1>8, <1>10, <1>12, Thrown DEF FailToOpen

-----------------------------------------------------------------------------
(* What stays of the runs and of the merge.                                *)

LEMMA RunsStay ==
  ASSUME NEW w, Runs(w), UNCHANGED <<files, given, buffer, run, streams, pagesIndex>>,
         pc = "spill" <=> pc' = "spill"
  PROVE  Runs(w)'
<1>1. Memory' = Memory
  BY DEF Memory
<1> QED
  BY <1>1 DEF Runs

\* What Merged says of the merge depends on nothing else.
LEMMA MergedStays ==
  ASSUME NEW w, Merged(w), UNCHANGED <<given, delivered, result, picked, streams, tree>>
  PROVE  Merged(w)'
<1>1. Positions' = Positions /\ Copy(picked)' = Copy(picked)
  BY DEF Positions, Copy
<1> QED
  BY <1>1 DEF Merged

\* Without a file there is no stream.
LEMMA NoStreamsWithoutFiles ==
  ASSUME Control, NEW w, Runs(w), files = <<>>
  PROVE  streams = <<>>
<1>1. Len(streams) \in Nat /\ Len(streams) <= 0 /\ streams \in Seq(Stream)
  <2>1. streams \in Seq(Stream) /\ Len(streams) <= Len(files)
    BY DEF Runs
  <2> QED
    BY <2>1, LenProperties, EmptySeq
<1>2. Len(streams) = 0
  BY <1>1
<1> QED
  BY <1>1, <1>2, EmptySeq

\* The input ends.
LEMMA NoMoreInputKeeps == ASSUME SInv, NoMoreInput PROVE SInv'
<1>1. Control /\ Delivered /\ Directory /\ pc = "idle" /\ ~noMoreInput
  BY DEF SInv, NoMoreInput
<1>2. ~finished /\ Active
  BY <1>1 DEF Control, Active
<1>3. Phase
  BY <1>2 DEF SInv
<1>4. PICK w : Runs(w) /\ (Merging => Merged(w))
  BY <1>2 DEF SInv, Working
<1>5. Control'
  BY <1>1 DEF Control, NoMoreInput
<1>6. Delivered'
  BY <1>1, DeliveredStays DEF NoMoreInput
<1>7. Directory'
  BY <1>1, <1>2 DEF Control, Directory, Kept, NoMoreInput
<1>8. Phase'
  BY <1>3 DEF Phase, Merging, NoMoreInput
<1>9. Runs(w)'
  BY <1>4, RunsStay DEF NoMoreInput
<1>10. ~ Merging'
  BY <1>1 DEF Control, Merging, NoMoreInput
<1>11. Working'
  BY <1>9, <1>10 DEF Working
<1> QED
  BY <1>5, <1>6, <1>7, <1>8, <1>11 DEF SInv

-----------------------------------------------------------------------------
(* SpillToDisk, AddInput and GetOutput up to its loops.                    *)

LEMMA SpillStarts ==
  ASSUME Control, Directory, pc = "idle", ~finished, streams = <<>>, picked = <<>>, result = <<>>, buffer = <<>>,
         delivered = <<>>,
         \A j \in 1 .. Len(files) : files[j].fd = "closed" /\ files[j].reader = "none",
         pagesIndex' \in Seq(Row), OwnIds(pagesIndex'), pagesIndex' # <<>>,
         NEW w, Shared(w, Len(files), ToSet(given'), ToSet(pagesIndex')), Written(files, w, <<>>, <<>>),
         SpillToDisk(pagesIndex'),
         UNCHANGED <<noMoreInput, finished, delivered, buffer, streams, picked, result, abandoned>>
  PROVE  Control' /\ Directory' /\ Phase' /\ Working'
<1> DEFINE n == Len(files)
           r == ByKey(pagesIndex')
<1>1. run' = r /\ files' = Append(files, NewFile) /\ spiller' = TRUE /\ pc' = "spill"
  BY DEF SpillToDisk
<1>2. files \in Seq(File) /\ n \in Nat
  BY LenProperties DEF Control
<1>3. /\ files' \in Seq(File) /\ Len(files') = n + 1 /\ files'[n + 1] = NewFile
      /\ \A j \in 1 .. n : files'[j] = files[j]
  BY <1>1, <1>2, MoreFiles
<1>4. files' # <<>>
  BY <1>2, <1>3, EmptySeq
<1>5. PICK v : Shared(v, n + 1, ToSet(given'), {}) /\ Written(Append(files, NewFile), v, <<>>, r)
  <2>1. /\ Shared(More(w, n, r), n + 1, ToSet(given'), {})
        /\ Written(Append(files, NewFile), More(w, n, r), <<>>, r)
    BY <1>2, SpillBegins
  <2> QED
    BY <2>1
<1> HIDE DEF r, n
<1>6. Control'
  BY <1>1, <1>3, <1>4 DEF Control
<1>7. \A j \in 1 .. n + 1 : j \in 1 .. n \/ j = n + 1
  BY <1>2
<1>8. Directory'
  <2>1. ~abandoned /\ Kept(files)
    BY DEF Control, Directory
  <2>2. DOMAIN files = 1 .. n /\ DOMAIN files' = 1 .. n + 1
    BY <1>2, <1>3, LenProperties DEF n
  <2>3. Held(NewFile)
    BY DEF Held, NewFile
  <2>4. Kept(files')
    BY <1>3, <1>7, <2>1, <2>2, <2>3 DEF Kept
  <2> QED
    BY <1>1, <2>1, <2>4, DirectoryStays
<1>9. Phase'
  BY <1>1, <1>3, <1>4, <1>7 DEF Phase, Merging, n
<1>10. Runs(v)'
  <2>1. Memory' = {}
    BY <1>1 DEF Memory
  <2>2. Shared(v, Len(files'), ToSet(given'), Memory')
    BY <1>3, <1>5, <2>1
  <2>3. Written(files', v, buffer', run')
    BY <1>1, <1>5
  <2>4. streams' \in Seq(Stream) /\ Len(streams') = 0
    BY EmptySeq
  <2>5. \A j \in 1 .. n + 1 : files'[j].reader = "none"
    BY <1>3, <1>7 DEF NewFile, n
  <2>6. Len(streams') <= Len(files') /\ \A j \in 1 .. Len(streams') : FALSE
    BY <1>2, <1>3, <2>4
  <2>7. \A j \in 1 .. Len(files') : files'[j].reader = "none"
    BY <1>3, <2>5
  <2>8. \A j \in 1 .. Len(streams') : StreamOK(streams'[j], files'[j], v[j])
    BY <2>6
  <2>9. \A j \in 1 .. Len(files') : j > Len(streams') => files'[j].reader = "none"
    BY <2>7
  <2> QED
    BY <2>2, <2>3, <2>4, <2>6, <2>8, <2>9 DEF Runs
<1>11. ~ Merging'
  BY DEF Merging
<1>12. Working'
  BY <1>10, <1>11 DEF Working
<1> QED
  BY <1>6, <1>8, <1>9, <1>12

\* A batch comes in and is spilled or stays in memory.
LEMMA AddInputKeeps == ASSUME SInv, AddInput PROVE SInv'
<1>1. Control /\ Delivered /\ Directory /\ pc = "idle" /\ ~noMoreInput
  BY DEF SInv, AddInput
<1>2. ~finished /\ streams = <<>> /\ delivered = <<>> /\ Active
  BY <1>1 DEF Control, Active
<1>3. Phase
  BY <1>2 DEF SInv
<1>4. PICK w : Runs(w) /\ (Merging => Merged(w))
  BY <1>2 DEF SInv, Working
<1>5. PICK rows \in UNION {[1 .. n -> Keys] : n \in 1 .. BatchRows}, needSpill \in BOOLEAN :
        LET new == [i \in DOMAIN rows |-> [key |-> rows[i], id |-> Len(given) + i]]
        IN  /\ given' = given \o new
            /\ pagesIndex' = pagesIndex \o new
            /\ IF needSpill THEN SpillToDisk(pagesIndex') ELSE UNCHANGED <<run, files, spiller, pc>>
  BY DEF AddInput
<1> DEFINE new == [i \in DOMAIN rows |-> [key |-> rows[i], id |-> Len(given) + i]]
<1>6. /\ given' = given \o new /\ pagesIndex' = pagesIndex \o new
      /\ IF needSpill THEN SpillToDisk(pagesIndex') ELSE UNCHANGED <<run, files, spiller, pc>>
  BY <1>5
<1>7. AreNew(new)
  <2>1. PICK n \in 1 .. BatchRows : rows \in [1 .. n -> Keys]
    BY <1>5
  <2> QED
    BY <1>1, <2>1, NewRows DEF Delivered
<1> HIDE DEF new
<1>8. UNCHANGED <<noMoreInput, finished, delivered, buffer, spilledBytes, streams, tree, picked,
                  result, abandoned>>
  BY DEF AddInput
<1>9. /\ given' \in Seq(Row) /\ \A i \in 1 .. Len(given') : given'[i].id = i
      /\ ToSet(given') = ToSet(given) \cup ToSet(new) /\ ToSet(new) \in SUBSET Row
      /\ ToSet(new) \cap ToSet(given) = {}
  BY <1>1, <1>6, <1>7, GivenMore DEF Delivered
<1>10. Delivered'
  <2>1. Numbered'
    BY <1>9 DEF Numbered
  <2>2. IsBeginning(ToSet(given'), <<>>)
    BY EmptySeq DEF IsBeginning, Ascending, Distinct
  <2> QED
    BY <1>2, <1>8, <2>1, <2>2 DEF Delivered
<1>11. /\ Memory = ToSet(pagesIndex) /\ run = <<>> /\ buffer = <<>> /\ picked = <<>> /\ result = <<>>
       /\ pagesIndex \in Seq(Row) /\ OwnIds(pagesIndex)
       /\ \A j \in 1 .. Len(files) : files[j].fd = "closed"
  BY <1>1, <1>3 DEF Memory, Phase
<1>12. Shared(w, Len(files), ToSet(given), ToSet(pagesIndex)) /\ Written(files, w, <<>>, <<>>)
  BY <1>4, <1>11 DEF Runs
<1>13. pagesIndex' \in Seq(Row) /\ ToSet(pagesIndex') = ToSet(pagesIndex) \cup ToSet(new) /\ pagesIndex' # <<>>
  <2>1. new \in Seq(Row) /\ Len(new) > 0
    BY <1>7 DEF AreNew
  <2>2. /\ pagesIndex \o new \in Seq(Row) /\ ToSet(pagesIndex \o new) = ToSet(pagesIndex) \cup ToSet(new)
        /\ Len(pagesIndex \o new) = Len(pagesIndex) + Len(new) /\ Len(pagesIndex) \in Nat /\ Len(new) \in Nat
    BY <1>11, <2>1, JoinRows
  <2>3. pagesIndex \o new # <<>>
    BY <2>1, <2>2, EmptySeq
  <2> QED
    BY <1>6, <2>2, <2>3
<1>14. Shared(w, Len(files), ToSet(given'), ToSet(pagesIndex'))
  <2>1. Shared(w, Len(files), ToSet(given) \cup ToSet(new), ToSet(pagesIndex) \cup ToSet(new))
    BY <1>9, <1>12, SharedMore
  <2> QED
    BY <1>9, <1>13, <2>1
<1>15. OwnIds(pagesIndex')
  <2>1. ToSet(pagesIndex) \in SUBSET ToSet(given)
    BY <1>12 DEF Shared
  <2> QED
    BY <1>1, <1>6, <1>7, <1>11, <2>1, PagesMore DEF Delivered
<1>16. \A j \in 1 .. Len(files) : files[j].reader = "none"
  <2>1. Len(streams) = 0
    BY <1>2, EmptySeq
  <2> QED
    BY <1>4, <2>1 DEF Runs
<1>17. CASE needSpill
  <2>1. SpillToDisk(pagesIndex')
    BY <1>6, <1>17
  <2>2. Control' /\ Directory' /\ Phase' /\ Working'
    BY <1>1, <1>2, <1>8, <1>11, <1>12, <1>13, <1>14, <1>15, <1>16, <2>1, SpillStarts
  <2> QED
    BY <1>10, <2>2 DEF SInv
<1>18. CASE ~needSpill
  <2>1. UNCHANGED <<run, files, spiller, pc>>
    BY <1>6, <1>18
  <2>2. Control'
    BY <1>1, <1>8, <2>1 DEF Control
  <2>3. Directory'
    BY <1>1, <1>2, <1>8, <2>1 DEF Control, Directory, Kept
  <2>4. ~Merging /\ ~Merging'
    BY <1>2, <1>8 DEF Merging
  <2>5. Len(<<>>) = 0
    BY EmptySeq
  <2>6. files' = <<>> => /\ pagesIndex' = given' /\ Len(delivered') <= Len(given')
                         /\ delivered' = SubSeq(ByKey(given'), 1, Len(delivered'))
    <3> SUFFICES ASSUME files = <<>>
                 PROVE  /\ pagesIndex' = given' /\ Len(delivered') <= Len(given')
                        /\ delivered' = SubSeq(ByKey(given'), 1, Len(delivered'))
      BY <2>1
    <3>1. pagesIndex' = given'
      BY <1>3, <1>6 DEF Phase
    <3>2. Len(given') \in Nat
      BY <1>9, LenProperties
    <3>3. SubSeq(ByKey(given'), 1, 0) = <<>>
      BY SubSeqEmpty
    <3> QED
      BY <1>2, <1>8, <2>5, <3>1, <3>2, <3>3
  <2>7. Phase'
    BY <1>1, <1>2, <1>3, <1>8, <1>13, <1>15, <2>1, <2>4, <2>6 DEF Phase
  <2>8. Runs(w)'
    <3>1. Memory' = ToSet(pagesIndex')
      BY <1>1, <2>1 DEF Memory
    <3> QED
      BY <1>4, <1>8, <1>14, <2>1, <3>1 DEF Runs
  <2>9. Working'
    BY <2>4, <2>8 DEF Working
  <2> QED
    BY <1>10, <2>2, <2>3, <2>7, <2>9 DEF SInv
<1> QED
  BY <1>17, <1>18

-----------------------------------------------------------------------------

\* What GetOutputFromMemory hands out continues a sorting.
LEMMA SubSeqBegins ==
  ASSUME NEW S, NEW s, IsSorting(S, s), NEW k \in 0 .. Len(s)
  PROVE  IsBeginning(S, SubSeq(s, 1, k)) /\ Len(SubSeq(s, 1, k)) = k
<1> DEFINE t == SubSeq(s, 1, k)
<1>1. s \in Seq(S) /\ Len(s) \in Nat /\ \A i \in 1 .. Len(s) : s[i] \in S
  BY LenProperties, ElementOfSeq DEF IsSorting
<1>2. k \in Nat /\ \A i \in 1 .. k : i \in 1 .. Len(s)
  BY <1>1
<1>3. t \in Seq(S) /\ Len(t) = k /\ \A i \in 1 .. k : t[i] = s[i]
  <2>1. \A i \in 1 .. k : s[i] \in S
    BY <1>1, <1>2
  <2>2. /\ t \in Seq(S) /\ Len(t) = IF 1 <= k THEN k - 1 + 1 ELSE 0
        /\ \A i \in 1 .. k - 1 + 1 : t[i] = s[1 + i - 1]
    BY <1>2, <2>1, SubSeqProperties
  <2> HIDE DEF t
  <2>3. \A i \in 1 .. k : i \in 1 .. k - 1 + 1 /\ 1 + i - 1 = i
    BY <1>2
  <2> QED
    BY <1>2, <2>2, <2>3
<1> HIDE DEF t
<1>4. Ascending(t) /\ Distinct(t)
  BY <1>2, <1>3 DEF IsSorting, Ascending, Distinct
<1>5. ASSUME NEW x \in S, \A i \in 1 .. k : t[i] # x, NEW i \in 1 .. k PROVE t[i].key <= x.key
  <2>1. PICK j \in 1 .. Len(s) : s[j] = x
    BY DEF IsSorting
  <2>2. ~ (j \in 1 .. k)
    BY <1>3, <1>5, <2>1
  <2>3. i < j /\ i \in 1 .. Len(s)
    BY <1>1, <1>2, <2>2
  <2> QED
    BY <1>3, <2>1, <2>3 DEF IsSorting, Ascending
<1>6. IsBeginning(S, t)
  BY <1>3, <1>4, <1>5 DEF IsBeginning
<1> QED
  BY <1>3, <1>6 DEF t

\* The next part of a sequence continues its beginning.
LEMMA SubSeqGoesOn ==
  ASSUME NEW S, NEW s \in Seq(S), NEW l \in Nat, NEW k \in Nat, l <= k, k <= Len(s)
  PROVE  SubSeq(s, 1, l) \o SubSeq(s, l + 1, k) = SubSeq(s, 1, k)
<1> DEFINE a == SubSeq(s, 1, l)
           b == SubSeq(s, l + 1, k)
           c == SubSeq(s, 1, k)
<1>1. Len(s) \in Nat /\ \A i \in 1 .. Len(s) : s[i] \in S
  BY LenProperties, ElementOfSeq
<1>2. \A i \in 1 .. k : s[i] \in S
  BY <1>1
<1>3. a \in Seq(S) /\ Len(a) = l /\ \A i \in 1 .. l : a[i] = s[i]
  <2>1. /\ a \in Seq(S) /\ Len(a) = IF 1 <= l THEN l - 1 + 1 ELSE 0
        /\ \A i \in 1 .. l - 1 + 1 : a[i] = s[1 + i - 1]
    <3>1. \A i \in 1 .. l : s[i] \in S
      BY <1>2
    <3> QED
      BY <3>1, SubSeqProperties
  <2> HIDE DEF a
  <2>2. \A i \in 1 .. l : i \in 1 .. l - 1 + 1 /\ 1 + i - 1 = i
    OBVIOUS
  <2> QED
    BY <2>1, <2>2
<1>4. c \in Seq(S) /\ Len(c) = k /\ \A i \in 1 .. k : c[i] = s[i]
  <2>1. /\ c \in Seq(S) /\ Len(c) = IF 1 <= k THEN k - 1 + 1 ELSE 0
        /\ \A i \in 1 .. k - 1 + 1 : c[i] = s[1 + i - 1]
    BY <1>2, SubSeqProperties
  <2> HIDE DEF c
  <2>2. \A i \in 1 .. k : i \in 1 .. k - 1 + 1 /\ 1 + i - 1 = i
    OBVIOUS
  <2> QED
    BY <2>1, <2>2
<1>5. b \in Seq(S) /\ Len(b) = k - l /\ \A i \in 1 .. k - l : b[i] = s[l + i]
  <2>1. /\ b \in Seq(S) /\ Len(b) = IF l + 1 <= k THEN k - (l + 1) + 1 ELSE 0
        /\ \A i \in 1 .. k - (l + 1) + 1 : b[i] = s[l + 1 + i - 1]
    <3>1. \A i \in l + 1 .. k : s[i] \in S
      BY <1>2
    <3>2. l + 1 \in Int /\ k \in Int
      OBVIOUS
    <3> QED
      BY <3>1, <3>2, SubSeqProperties
  <2> HIDE DEF b
  <2>2. \A i \in 1 .. k - l : i \in 1 .. k - (l + 1) + 1 /\ l + 1 + i - 1 = l + i
    OBVIOUS
  <2>3. Len(b) = k - l
    BY <2>1
  <2> QED
    BY <2>1, <2>2, <2>3
<1> HIDE DEF a, b, c
<1>6. /\ a \o b \in Seq(S) /\ Len(a \o b) = l + (k - l)
      /\ \A i \in 1 .. l + (k - l) : (a \o b)[i] = IF i <= l THEN a[i] ELSE b[i - l]
  <2>1. /\ a \o b \in Seq(S) /\ Len(a \o b) = Len(a) + Len(b)
        /\ \A i \in 1 .. Len(a) + Len(b) : (a \o b)[i] = IF i <= Len(a) THEN a[i] ELSE b[i - Len(a)]
    BY <1>3, <1>5, ConcatProperties, ZenonT(60)
  <2> QED
    BY <1>3, <1>5, <2>1
<1>7. Len(a \o b) = Len(c)
  BY <1>4, <1>6
<1>8. ASSUME NEW i \in 1 .. k PROVE (a \o b)[i] = c[i]
  <2>1. CASE i <= l
    <3>1. i \in 1 .. l /\ i \in 1 .. l + (k - l)
      BY <2>1
    <3> QED
      BY <1>3, <1>4, <1>6, <2>1, <3>1
  <2>2. CASE ~ (i <= l)
    <3>1. i - l \in 1 .. k - l /\ l + (i - l) = i /\ i \in 1 .. l + (k - l)
      BY <2>2
    <3> QED
      BY <1>4, <1>5, <1>6, <2>2, <3>1
  <2> QED
    BY <2>1, <2>2
<1>9. a \o b = c
  BY <1>4, <1>6, <1>7, <1>8, SeqEqual
<1> QED
  BY <1>9 DEF a, b, c

\* Without a spill the next batch is the next part of the sorted PagesIndex.
LEMMA GetOutputFromMemoryKeeps == ASSUME SInv, GetOutputFromMemory PROVE SInv'
<1>1. Control /\ Delivered /\ Directory /\ pc = "idle" /\ noMoreInput /\ ~finished /\ files = <<>> /\ Active
  BY DEF SInv, GetOutputFromMemory, Output, hasSpill, Active
<1>2. Phase
  BY <1>1 DEF SInv
<1>3. PICK w : Runs(w) /\ (Merging => Merged(w))
  BY <1>1 DEF SInv, Working
<1>4. streams = <<>>
  BY <1>1, <1>3, NoStreamsWithoutFiles
<1> DEFINE b == ByKey(given)
           g == Len(given)
           l == Len(delivered)
           k == l + rowCount
<1>5. given \in Seq(Row) /\ OwnIds(given) /\ g \in Nat
  BY <1>1, NumberedRows, LenProperties DEF Delivered, Numbered
<1>6. IsSorting(ToSet(given), b) /\ Len(b) = g
  BY <1>5, ByKeySorts
<1>7. pagesIndex = given /\ l <= g /\ delivered = SubSeq(b, 1, l)
  BY <1>1, <1>2 DEF Phase
<1>8. l \in Nat
  BY <1>1, LenProperties DEF Delivered, IsBeginning
<1>9. rowCount \in Nat /\ k <= g /\ k \in Nat
  <2>1. Chunk \in Nat
    BY SizesAssumption DEF Chunk
  <2> QED
    BY <1>5, <1>7, <1>8, <2>1 DEF rowCount, Least
<1>10. /\ delivered' = delivered \o SubSeq(b, l + 1, k)
       /\ finished' = (Len(delivered') = Len(given)) /\ pc' = "idle"
       /\ pagesIndex' = IF finished' THEN <<>> ELSE pagesIndex
       /\ UNCHANGED <<noMoreInput, given, run, buffer, files, spiller, spilledBytes, streams,
                      tree, picked, result, abandoned>>
  BY <1>7 DEF GetOutputFromMemory, Deliver
<1> HIDE DEF b, g, l, k
<1>11. delivered' = SubSeq(b, 1, k)
  <2>1. b \in Seq(ToSet(given))
    BY <1>6 DEF IsSorting
  <2>2. l <= k
    BY <1>8, <1>9 DEF k
  <2>3. SubSeq(b, 1, l) \o SubSeq(b, l + 1, k) = SubSeq(b, 1, k)
    BY <1>6, <1>8, <1>9, <2>1, <2>2, SubSeqGoesOn
  <2> QED
    BY <1>7, <1>10, <2>3
<1>12. IsBeginning(ToSet(given), delivered') /\ Len(delivered') = k
  <2>1. k \in 0 .. Len(b)
    BY <1>5, <1>6, <1>9
  <2> QED
    BY <1>6, <1>11, <2>1, SubSeqBegins
<1>13. Delivered'
  BY <1>1, <1>10, <1>12 DEF Delivered, Numbered
<1>14. Control'
  <2>1. finished' \in BOOLEAN
    BY <1>10
  <2> QED
    BY <1>1, <1>10, <2>1 DEF Control
<1>15. Directory'
  BY <1>1, <1>10 DEF Control, Directory, Kept
<1>16. ASSUME Active' PROVE Phase' /\ Working'
  <2>1. pagesIndex' = pagesIndex
    BY <1>10, <1>16 DEF Active
  <2>2. ~Merging'
    BY <1>4, <1>10 DEF Merging
  <2>3. pagesIndex' = given' /\ Len(delivered') <= Len(given') /\ delivered' = SubSeq(ByKey(given'), 1, Len(delivered'))
    BY <1>7, <1>9, <1>10, <1>11, <1>12, <2>1 DEF g, b
  <2>4. Phase'
    BY <1>1, <1>2, <1>4, <1>10, <2>1, <2>2, <2>3 DEF Phase
  <2>5. Runs(w)'
    BY <1>1, <1>3, <1>10, <2>1, RunsStay
  <2> QED
    BY <2>2, <2>4, <2>5 DEF Working
<1> QED
  BY <1>13, <1>14, <1>15, <1>16 DEF SInv

\* With a spill the first call for output spills the rest, or starts to make the merger.
LEMMA GetOutputFromDiskKeeps == ASSUME SInv, GetOutputFromDisk PROVE SInv'
<1>1. Control /\ Delivered /\ Directory /\ pc = "idle" /\ noMoreInput /\ ~finished /\ files # <<>> /\ Active
  BY DEF SInv, GetOutputFromDisk, Output, hasSpill, Active
<1>2. Phase
  BY <1>1 DEF SInv
<1>3. PICK w : Runs(w) /\ (Merging => Merged(w))
  BY <1>1 DEF SInv, Working
<1>4. UNCHANGED <<noMoreInput, finished, given, delivered, pagesIndex, buffer, spilledBytes,
                  streams, tree, picked, result, abandoned>>
  BY DEF GetOutputFromDisk
<1>5. Delivered'
  BY <1>1, <1>4, DeliveredStays
<1>6. CASE streams # <<>>
  <2>1. pc' = "merge" /\ UNCHANGED <<run, files, spiller>>
    BY <1>6 DEF GetOutputFromDisk
  <2>2. Merging /\ Merging'
    BY <1>1, <1>4, <1>6, <2>1 DEF Merging
  <2>3. Control'
    BY <1>1, <1>4, <2>1 DEF Control
  <2>4. Directory'
    BY <1>1, <1>4, <2>1 DEF Control, Directory, Kept
  <2>5. Phase'
    BY <1>1, <1>2, <1>4, <1>6, <2>1, <2>2 DEF Phase
  <2>6. Runs(w)'
    BY <1>1, <1>3, <1>4, <2>1, RunsStay
  <2>7. Merged(w)'
    BY <1>3, <1>4, <2>2, MergedStays
  <2> QED
    BY <1>5, <2>3, <2>4, <2>5, <2>6, <2>7 DEF SInv, Working
<1>7. CASE streams = <<>>
  <2>1. delivered = <<>> /\ picked = <<>> /\ result = <<>> /\ run = <<>> /\ buffer = <<>>
        /\ pagesIndex \in Seq(Row) /\ OwnIds(pagesIndex)
        /\ \A j \in 1 .. Len(files) : files[j].fd = "closed"
    BY <1>1, <1>2, <1>7 DEF Phase, Merging
  <2>2. \A j \in 1 .. Len(files) : files[j].reader = "none"
    <3>1. Len(streams) = 0
      BY <1>7, EmptySeq
    <3> QED
      BY <1>3, <3>1 DEF Runs
  <2>3. CASE AnotherRun
    <3>1. SpillToDisk(pagesIndex') /\ pagesIndex' # <<>>
      BY <1>4, <1>7, <2>3 DEF GetOutputFromDisk, AnotherRun
    <3>2. Shared(w, Len(files), ToSet(given'), ToSet(pagesIndex')) /\ Written(files, w, <<>>, <<>>)
      BY <1>1, <1>3, <1>4, <2>1 DEF Runs, Memory
    <3>3. pagesIndex' \in Seq(Row) /\ OwnIds(pagesIndex')
      BY <1>4, <2>1
    <3>4. Control' /\ Directory' /\ Phase' /\ Working'
      BY <1>1, <1>4, <1>7, <2>1, <2>2, <3>1, <3>2, <3>3, SpillStarts
    <3> QED
      BY <1>5, <3>4 DEF SInv
  <2>4. CASE ~AnotherRun
    <3>1. pc' = "create" /\ UNCHANGED <<run, files, spiller>> /\ pagesIndex = <<>>
      BY <1>7, <2>4 DEF GetOutputFromDisk, AnotherRun
    <3>2. ~Merging'
      BY <3>1 DEF Merging
    <3>3. Control'
      BY <1>1, <1>4, <3>1 DEF Control
    <3>4. Directory'
      BY <1>1, <1>4, <3>1 DEF Control, Directory, Kept
    <3>5. Len(streams) < Len(files) /\ Len(streams) = 0
      <4>1. Len(files) \in Nat /\ Len(files) \in 1 .. Len(files)
        BY <1>1, LastFile
      <4>2. Len(streams) = 0
        BY <1>7, EmptySeq
      <4> QED
        BY <4>1, <4>2
    <3>6. Phase'
      BY <1>1, <1>2, <1>4, <1>7, <2>1, <3>1, <3>2, <3>5 DEF Phase
    <3>7. Runs(w)'
      BY <1>1, <1>3, <1>4, <3>1, RunsStay
    <3> QED
      BY <1>5, <3>2, <3>3, <3>4, <3>6, <3>7 DEF SInv, Working
  <2> QED
    BY <2>3, <2>4
<1> QED
  BY <1>6, <1>7

-----------------------------------------------------------------------------
(* Writing a run.                                                          *)

\* A batch of the run is written behind those before.
LEMMA WrittenMore ==
  ASSUME NEW f \in File, NEW more, NEW rest, NEW r, WrittenIs(f, more, rest, r), more = buffer,
         NEW n \in Nat, n > 0, n <= Len(rest)
  PROVE  LET put == Put(Created(f), SubSeq(rest, 1, n))
             g   == [put.file EXCEPT !.rows = @ + n]
         IN  /\ g \in File /\ g.reader = f.reader /\ g.exists
             /\ WrittenIs(g, put.buffer, SubSeq(rest, n + 1, Len(rest)), r)
<1> DEFINE l == Len(rest)
           b == SubSeq(rest, 1, n)
           c == SubSeq(rest, n + 1, l)
           h == Created(f)
           put == Put(h, b)
           g == [put.file EXCEPT !.rows = @ + n]
<1>1. /\ more \in Batches /\ rest \in Seq(Row) /\ InPieces(f.disk \o more, r, f.rows)
      /\ f.rows + l = Len(r) /\ \A i \in 1 .. l : rest[i] = r[f.rows + i]
      /\ l \in Nat /\ f.rows \in Nat /\ f.disk \in Batches
  BY LenProperties DEF WrittenIs, File
<1>2. \A i \in 1 .. l : rest[i] \in Row
  BY <1>1, ElementOfSeq
<1>3. b \in Seq(Row) /\ Len(b) = n /\ \A i \in 1 .. n : b[i] = rest[i]
  <2>1. /\ b \in Seq(Row) /\ Len(b) = IF 1 <= n THEN n - 1 + 1 ELSE 0
        /\ \A i \in 1 .. n - 1 + 1 : b[i] = rest[1 + i - 1]
    <3>1. \A i \in 1 .. n : rest[i] \in Row
      BY <1>1, <1>2
    <3> QED
      BY <3>1, SubSeqProperties
  <2> HIDE DEF b
  <2>2. \A i \in 1 .. n : i \in 1 .. n - 1 + 1 /\ 1 + i - 1 = i
    OBVIOUS
  <2> QED
    BY <2>1, <2>2
<1>4. c \in Seq(Row) /\ Len(c) = l - n /\ \A i \in 1 .. l - n : c[i] = rest[n + i]
  <2>1. /\ c \in Seq(Row) /\ Len(c) = IF n + 1 <= l THEN l - (n + 1) + 1 ELSE 0
        /\ \A i \in 1 .. l - (n + 1) + 1 : c[i] = rest[n + 1 + i - 1]
    <3>1. \A i \in n + 1 .. l : rest[i] \in Row
      BY <1>1, <1>2
    <3>2. n + 1 \in Int /\ l \in Int
      BY <1>1
    <3> QED
      BY <3>1, <3>2, SubSeqProperties
  <2> HIDE DEF c, l
  <2>2. \A i \in 1 .. l - n : i \in 1 .. l - (n + 1) + 1 /\ n + 1 + i - 1 = n + i
    BY <1>1
  <2>3. Len(c) = l - n
    BY <1>1, <2>1 DEF l
  <2> QED
    BY <2>1, <2>2, <2>3
<1>5. h \in File /\ h.disk = f.disk /\ h.rows = f.rows /\ h.reader = f.reader /\ h.exists
  BY CreatedIs
<1>6. /\ put.buffer \in Batches /\ put.file.disk \in Batches
      /\ put.file.disk \o put.buffer = Append(h.disk \o buffer, b)
      /\ \E disk : put.file = [h EXCEPT !.disk = disk]
  <2>1. DOMAIN h = DOMAIN NewFile
    BY <1>5 DEF File, NewFile
  <2> HIDE DEF b, h
  <2> QED
    BY <1>1, <1>3, <1>5, <2>1, PutAppends
<1> HIDE DEF b, c, put, h, l
<1>7. PICK disk : put.file = [h EXCEPT !.disk = disk]
  BY <1>6
<1>8. /\ g \in File /\ g.reader = f.reader /\ g.exists /\ g.disk = put.file.disk /\ g.rows = f.rows + n
  <2>1. put.file.disk = disk
    BY <1>5, <1>7 DEF File
  <2>2. disk \in Batches
    BY <1>6, <2>1
  <2>3. put.file \in File /\ put.file.rows = f.rows /\ put.file.reader = f.reader
        /\ put.file.exists
    BY <1>5, <1>7, <2>2 DEF File
  <2>4. f.rows + n \in Nat
    BY <1>1
  <2> QED
    BY <2>3, <2>4 DEF File
<1>9. InPieces(put.file.disk \o put.buffer, r, f.rows + n)
  <2>1. \A q \in 1 .. Len(b) : b[q] = r[f.rows + q]
    <3> SUFFICES ASSUME NEW q \in 1 .. n PROVE b[q] = r[f.rows + q]
      BY <1>3
    <3>1. q \in 1 .. l
      BY <1>1 DEF l
    <3> QED
      BY <1>1, <1>3, <3>1
  <2>2. InPieces(Append(f.disk \o more, b), r, f.rows + Len(b))
    <3> DEFINE bs == f.disk \o more
    <3> HIDE DEF bs
    <3>1. InPieces(bs, r, f.rows) /\ Len(b) > 0
      BY <1>1, <1>3 DEF bs
    <3>2. InPieces(Append(bs, b), r, f.rows + Len(b))
      BY <1>3, <2>1, <3>1, AnotherPiece
    <3> QED
      BY <3>2 DEF bs
  <2> QED
    BY <1>3, <1>5, <1>6, <2>2
<1>10. /\ f.rows + n + Len(c) = Len(r)
       /\ \A i \in 1 .. Len(c) : c[i] = r[f.rows + n + i]
  <2>1. f.rows + n + Len(c) = Len(r)
    BY <1>1, <1>4
  <2>2. ASSUME NEW i \in 1 .. Len(c) PROVE c[i] = r[f.rows + n + i]
    <3>1. i \in 1 .. l - n /\ n + i \in 1 .. l /\ f.rows + (n + i) = f.rows + n + i
      BY <1>1, <1>4
    <3> QED
      BY <1>1, <1>4, <3>1
  <2> QED
    BY <2>1, <2>2
<1> HIDE DEF g
<1>11. WrittenIs(g, put.buffer, c, r)
  BY <1>4, <1>6, <1>8, <1>9, <1>10 DEF WrittenIs
<1> QED
  BY <1>8, <1>11 DEF g, put, h, b, c, l

\* A batch of rows is buffered and may be written.
LEMMA WriteVecBatchKeeps == ASSUME SInv, WriteVecBatch PROVE SInv'
<1>1. Control /\ Delivered /\ pc = "spill" /\ run # <<>> /\ ~finished /\ files # <<>> /\ Active
  BY DEF SInv, WriteVecBatch, Control, Active
<1>2. Phase
  BY <1>1 DEF SInv
<1>3. PICK w : Runs(w)
  BY <1>1 DEF SInv, Working
<1> DEFINE k == Len(files)
           n == Least(SpillRows, Len(run))
           f == files[k]
           put == Put(Created(f), SubSeq(run, 1, n))
           g == [put.file EXCEPT !.rows = @ + n]
<1>4. k \in Nat /\ k \in 1 .. k /\ Last(files) = f /\ f \in File /\ files \in Seq(File)
  BY <1>1, LastFile DEF Control
<1>5. /\ run' = SubSeq(run, n + 1, Len(run)) /\ buffer' = put.buffer
      /\ files' = [files EXCEPT ![k] = g]
      /\ UNCHANGED <<pc, noMoreInput, finished, given, delivered, pagesIndex, spiller, streams,
                     tree, picked, result, abandoned>>
  BY <1>4 DEF WriteVecBatch
<1>6. \A j \in 1 .. k : WrittenIs(files[j], IF j = k THEN buffer ELSE <<>>, IF j = k THEN run ELSE <<>>, w[j])
  BY <1>3 DEF Runs, Written
<1>7. WrittenIs(f, buffer, run, w[k])
  BY <1>4, <1>6
<1>8. n \in Nat /\ n > 0 /\ n <= Len(run)
  <2>1. run \in Seq(Row)
    BY <1>7 DEF WrittenIs
  <2>2. Len(run) \in Nat /\ Len(run) # 0
    BY <1>1, <2>1, EmptySeq, LenProperties
  <2>3. SpillRows \in Nat /\ SpillRows # 0
    BY SizesAssumption
  <2> QED
    BY <2>2, <2>3 DEF Least
<1> HIDE DEF n, f
<1>9. g \in File /\ g.reader = f.reader /\ g.exists /\ WrittenIs(g, put.buffer, SubSeq(run, n + 1, Len(run)), w[k])
  BY <1>4, <1>7, <1>8, WrittenMore
<1> HIDE DEF g, put, k
<1>10. /\ files' \in Seq(File) /\ Len(files') = k /\ files'[k] = g
       /\ \A j \in 1 .. k : j # k => files'[j] = files[j]
  BY <1>4, <1>5, <1>9, FileChanged DEF k
<1>11. files' # <<>>
  BY <1>4, <1>10, EmptySeq
<1>12. Control'
  BY <1>1, <1>5, <1>10, <1>11 DEF Control
<1>13. Delivered'
  BY <1>1, <1>5, DeliveredStays
<1>14. Directory'
  <2>1. ~abandoned /\ Kept(files) /\ Held(files'[k])
    BY <1>1, <1>9, <1>10 DEF SInv, Control, Directory, Held
  <2>2. Kept(files')
    BY <1>1, <1>4, <1>10, <2>1, KeptIfHeld DEF Control, k
  <2> QED
    BY <1>1, <1>5, <2>1, <2>2, DirectoryStays
<1>15. Phase'
  <2>1. \A j \in 1 .. k : files[j].fd = "closed" \/ j = k
    BY <1>2 DEF Phase, k
  <2>2. \A j \in 1 .. k : files'[j].fd = "closed" \/ j = k
    BY <1>10, <2>1
  <2> QED
    BY <1>1, <1>2, <1>5, <1>10, <1>11, <2>2 DEF Phase, Merging
<1>16. Runs(w)'
  <2>1. Shared(w, Len(files'), ToSet(given'), Memory')
    <3>1. Memory' = {} /\ Memory = {}
      BY <1>1, <1>5 DEF Memory
    <3>2. Shared(w, Len(files), ToSet(given), Memory)
      BY <1>3 DEF Runs
    <3> QED
      BY <1>5, <1>10, <3>1, <3>2 DEF k
  <2>2. Written(files', w, buffer', run')
    <3>1. ASSUME NEW j \in 1 .. k
          PROVE  WrittenIs(files'[j], IF j = k THEN buffer' ELSE <<>>, IF j = k THEN run' ELSE <<>>, w[j])
      BY <1>5, <1>6, <1>9, <1>10
    <3> QED
      BY <1>10, <3>1 DEF Written
  <2>3. streams' = streams /\ streams = <<>> /\ Len(streams) = 0
    BY <1>1, <1>2, <1>5, EmptySeq DEF Phase
  <2>4. \A j \in 1 .. Len(streams') : StreamOK(streams'[j], files'[j], w[j])
    BY <2>3
  <2>5. \A j \in 1 .. Len(files') : files'[j].reader = "none"
    <3>1. \A j \in 1 .. k : files[j].reader = "none"
      BY <1>3, <2>3 DEF Runs, k
    <3>2. f.reader = "none"
      BY <1>4, <3>1 DEF f
    <3> QED
      BY <1>9, <1>10, <3>1, <3>2
  <2>6. streams' \in Seq(Stream) /\ Len(streams') <= Len(files')
    BY <1>4, <1>10, <2>3, EmptySeq
  <2> QED
    BY <2>1, <2>2, <2>4, <2>5, <2>6 DEF Runs
<1>17. ~Merging'
  BY <1>1, <1>5 DEF Merging
<1> QED
  BY <1>12, <1>13, <1>14, <1>15, <1>16, <1>17 DEF SInv, Working

\* With what was buffered on the disk the last run is written.
LEMMA WrittenAll ==
  ASSUME NEW f \in File, NEW more, NEW r, WrittenIs(f, more, <<>>, r)
  PROVE  LET g == [f EXCEPT !.fd = "closed", !.disk = @ \o more]
         IN  /\ g \in File /\ g.reader = f.reader /\ g.fd = "closed" /\ (Held(f) => Held(g))
             /\ WrittenIs(g, <<>>, <<>>, r)
<1> DEFINE d == f.disk \o more
           g == [f EXCEPT !.fd = "closed", !.disk = @ \o more]
<1>1. /\ more \in Seq(Seq(Row)) /\ f.disk \in Seq(Seq(Row)) /\ InPieces(d, r, f.rows)
      /\ f.rows + Len(<<>>) = Len(r) /\ \A i \in 1 .. Len(<<>>) : <<>>[i] = r[f.rows + i]
  BY DEF WrittenIs, Batches, File
<1>2. d \in Seq(Seq(Row)) /\ d \in Batches
  BY <1>1, ConcatProperties DEF Batches
<1>3. g = [f EXCEPT !.fd = "closed", !.disk = d]
  BY DEF File
<1> HIDE DEF d, g
<1>4. g \in File /\ g.reader = f.reader /\ (Held(f) => Held(g)) /\ g.fd = "closed" /\ g.disk = d /\ g.rows = f.rows
  BY <1>2, <1>3 DEF File, Held
<1>5. d \o <<>> = d /\ <<>> \in Seq(Row) /\ <<>> \in Batches
  BY <1>2, ConcatEmptySeq, EmptySeq DEF Batches
<1>6. WrittenIs(g, <<>>, <<>>, r)
  BY <1>1, <1>4, <1>5 DEF WrittenIs
<1> QED
  BY <1>4, <1>6 DEF g

\* The run ends: what is buffered is written and the file closed.
LEMMA CloseWriterKeeps == ASSUME SInv, CloseWriter PROVE SInv'
<1>1. Control /\ Delivered /\ pc = "spill" /\ run = <<>> /\ ~finished /\ files # <<>> /\ Active
  BY DEF SInv, CloseWriter, Control, Active
<1>2. Phase
  BY <1>1 DEF SInv
<1>3. PICK w : Runs(w)
  BY <1>1 DEF SInv, Working
<1> DEFINE k == Len(files)
           f == files[k]
           g == [f EXCEPT !.fd = "closed", !.disk = @ \o buffer]
<1>4. k \in Nat /\ k \in 1 .. k /\ f \in File /\ files \in Seq(File)
  BY <1>1, LastFile DEF Control
<1>5. /\ buffer' = <<>> /\ pagesIndex' = <<>> /\ pc' = (IF noMoreInput THEN "create" ELSE "idle")
      /\ UNCHANGED <<noMoreInput, finished, given, delivered, run, spiller, spilledBytes, streams,
                     tree, picked, result, abandoned>>
  BY DEF CloseWriter
<1>6. files' = [files EXCEPT ![k] = g]
  BY <1>4 DEF CloseWriter
<1>7. \A j \in 1 .. k : WrittenIs(files[j], IF j = k THEN buffer ELSE <<>>, IF j = k THEN run ELSE <<>>, w[j])
  BY <1>3 DEF Runs, Written
<1>8. WrittenIs(f, buffer, <<>>, w[k])
  BY <1>1, <1>4, <1>7
<1> HIDE DEF f
<1>9. g \in File /\ g.reader = f.reader /\ (Held(f) => Held(g)) /\ g.fd = "closed" /\ WrittenIs(g, <<>>, <<>>, w[k])
  BY <1>4, <1>8, WrittenAll
<1> HIDE DEF g, k
<1>10. /\ files' \in Seq(File) /\ Len(files') = k /\ files'[k] = g
       /\ \A j \in 1 .. k : j # k => files'[j] = files[j]
  BY <1>4, <1>6, <1>9, FileChanged DEF k
<1>11. files' # <<>>
  BY <1>4, <1>10, EmptySeq
<1>12. streams' = streams /\ streams = <<>> /\ Len(streams) = 0
  BY <1>1, <1>2, <1>5, EmptySeq DEF Phase
<1>13. Control'
  BY <1>1, <1>5, <1>10, <1>11 DEF Control
<1>14. Delivered'
  BY <1>1, <1>5, DeliveredStays
<1>15. Directory'
  <2>1. ~abandoned /\ Kept(files) /\ DOMAIN files = 1 .. k
    BY <1>1, <1>4, LenProperties DEF SInv, Control, Directory, k
  <2>2. Held(files'[k])
    BY <1>4, <1>9, <1>10, <2>1 DEF Kept, f
  <2>3. Kept(files')
    BY <1>1, <1>4, <1>10, <2>1, <2>2, KeptIfHeld DEF Control, k
  <2> QED
    BY <1>1, <1>5, <2>1, <2>3, DirectoryStays
<1>16. ~Merging' /\ ~Merging
  BY <1>12 DEF Merging
<1>17. Phase'
  <2>1. \A j \in 1 .. k : files[j].fd = "closed" \/ j = k
    BY <1>2 DEF Phase, k
  <2>2. \A j \in 1 .. k : files'[j].fd = "closed"
    BY <1>9, <1>10, <2>1
  <2>3. pagesIndex' \in Seq(Row) /\ OwnIds(pagesIndex')
    BY <1>5, EmptySeq DEF OwnIds
  <2>4. delivered' = <<>> /\ picked' = <<>> /\ result' = <<>>
    BY <1>1, <1>2, <1>5, <1>16 DEF Phase
  <2>5. pc' \in {"create", "idle"}
    BY <1>5
  <2>6. Len(streams') < Len(files')
    BY <1>4, <1>10, <1>12
  <2> QED
    BY <1>1, <1>5, <1>10, <1>11, <1>12, <2>2, <2>3, <2>4, <2>5, <2>6 DEF Phase
<1>18. Runs(w)'
  <2>1. Shared(w, Len(files'), ToSet(given'), Memory')
    <3>1. Memory = {}
      BY <1>1 DEF Memory
    <3>2. Memory' = {}
      <4>1. ToSet(<<>>) = {}
        BY EmptySeq DEF ToSet
      <4> QED
        BY <1>5, <4>1 DEF Memory
    <3>3. Shared(w, Len(files), ToSet(given), Memory)
      BY <1>3 DEF Runs
    <3> QED
      BY <1>5, <1>10, <3>1, <3>2, <3>3 DEF k
  <2>2. Written(files', w, buffer', run')
    <3>1. ASSUME NEW j \in 1 .. k
          PROVE  WrittenIs(files'[j], IF j = k THEN <<>> ELSE <<>>, IF j = k THEN <<>> ELSE <<>>, w[j])
      BY <1>7, <1>9, <1>10
    <3> QED
      BY <1>1, <1>5, <1>10, <3>1 DEF Written
  <2>3. \A j \in 1 .. Len(streams') : StreamOK(streams'[j], files'[j], w[j])
    BY <1>12
  <2>4. \A j \in 1 .. Len(files') : files'[j].reader = "none"
    <3>1. \A j \in 1 .. k : files[j].reader = "none"
      BY <1>3, <1>12 DEF Runs, k
    <3>2. f.reader = "none"
      BY <1>4, <3>1 DEF f
    <3> QED
      BY <1>9, <1>10, <3>1, <3>2
  <2>5. streams' \in Seq(Stream) /\ Len(streams') <= Len(files')
    BY <1>4, <1>10, <1>12, EmptySeq
  <2> QED
    BY <2>1, <2>2, <2>3, <2>4, <2>5 DEF Runs
<1> QED
  BY <1>13, <1>14, <1>15, <1>16, <1>17, <1>18 DEF SInv, Working

-----------------------------------------------------------------------------
(* The merger is made.                                                     *)

\* A new stream is the last one.
LEMMA AppendStream ==
  ASSUME NEW sts \in Seq(Stream), NEW t \in Stream
  PROVE  /\ Append(sts, t) \in Seq(Stream) /\ Len(Append(sts, t)) = Len(sts) + 1 /\ Len(sts) \in Nat
         /\ Append(sts, t)[Len(sts) + 1] = t /\ \A j \in 1 .. Len(sts) : Append(sts, t)[j] = sts[j]
BY AppendProperties, LenProperties

\* When no stream has gone past a row nothing is out.
LEMMA NothingOut ==
  ASSUME NEW w, NEW n, NEW all, NEW pos, \A j \in 1 .. n : pos[j] = 0
  PROVE  OutIs(w, n, all, pos, <<>>)
<1>1. <<>> \in Seq(all) /\ Len(<<>>) = 0
  BY EmptySeq
<1>2. \A j \in 1 .. n : \A p \in 1 .. Len(w[j]) : ~ (p <= pos[j])
  BY LenProperties
<1> QED
  BY <1>1, <1>2 DEF OutIs, Ascending, Distinct

\* What is written depends on the batches on the disk and the rows counted.
LEMMA WrittenKept ==
  ASSUME NEW f, NEW g, g.disk = f.disk, g.rows = f.rows, NEW more, NEW rest, NEW r,
         WrittenIs(f, more, rest, r)
  PROVE  WrittenIs(g, more, rest, r)
BY DEF WrittenIs

\* The next file to open has a run, so its reader stays open.
LEMMA OpenedIs ==
  ASSUME Control, Phase, pc = "create", NEW w, Runs(w), NEW i, i = Len(streams) + 1
  PROVE  /\ i \in 1 .. Len(files) /\ files[i] \in File
         /\ StreamOK(ReadVecBatch(NewStream, files[i]), AfterRead(NewStream, files[i]), w[i])
         /\ Pos(ReadVecBatch(NewStream, files[i])) = 0
         /\ AfterRead(NewStream, files[i]) = [files[i] EXCEPT !.reader = "open"]
<1> DEFINE k == Len(files)
           f == files[i]
<1>1. Len(streams) < k /\ pagesIndex = <<>> /\ run = <<>> /\ buffer = <<>>
  BY DEF Phase
<1>2. files \in Seq(File) /\ k \in Nat /\ Len(streams) \in Nat
  BY LenProperties DEF Control, Runs
<1>3. i \in 1 .. k
  BY <1>1, <1>2
<1>4. f \in File
  BY <1>2, <1>3, ElementOfSeq
<1>5. WrittenIs(f, <<>>, <<>>, w[i])
  <2>1. \A j \in 1 .. k : WrittenIs(files[j], IF j = k THEN <<>> ELSE <<>>, IF j = k THEN <<>> ELSE <<>>, w[j])
    BY <1>1 DEF Runs, Written
  <2> QED
    BY <1>3, <2>1
<1> HIDE DEF f
<1>6. InPieces(f.disk, w[i], f.rows) /\ f.rows = Len(w[i])
  BY <1>4, <1>5, WholeRun
<1>7. w[i] \in Seq(Row) /\ Len(w[i]) > 0
  BY <1>3 DEF Runs, Shared, IsRun
<1>8. /\ StreamOK(ReadVecBatch(NewStream, f), AfterRead(NewStream, f), w[i])
      /\ Pos(ReadVecBatch(NewStream, f)) = 0 /\ AfterRead(NewStream, f) = [f EXCEPT !.reader = "open"]
  BY <1>4, <1>6, <1>7, OpenGives
<1> QED
  BY <1>3, <1>4, <1>8 DEF f

\* The next stream of the merger is made; with the last one the merge begins.
LEMMA OpenStreamKeeps == ASSUME SInv, OpenStream PROVE SInv'
<1>1. Control /\ Delivered /\ pc = "create" /\ ~finished /\ noMoreInput /\ Active /\ ~Merging
  BY DEF SInv, OpenStream, Control, Active, Merging
<1>2. Phase
  BY <1>1 DEF SInv
<1>3. PICK w : Runs(w)
  BY <1>1 DEF SInv, Working
<1> DEFINE k == Len(files)
           l == Len(streams)
           i == l + 1
           f == files[i]
           t == ReadVecBatch(NewStream, f)
           g == AfterRead(NewStream, f)
<1>4. /\ l < k /\ pagesIndex = <<>> /\ run = <<>> /\ buffer = <<>> /\ picked = <<>> /\ result = <<>>
      /\ \A j \in 1 .. l : Pos(streams[j]) = 0
      /\ \A j \in 1 .. k : files[j].fd = "closed"
  BY <1>1, <1>2 DEF Phase
<1>5. files \in Seq(File) /\ k \in Nat /\ streams \in Seq(Stream) /\ l \in Nat
  BY <1>1, <1>3, LenProperties DEF Control, Runs
<1>6. i \in 1 .. k /\ f \in File /\ files # <<>>
  <2>1. i \in 1 .. k
    BY <1>4, <1>5
  <2>2. f \in File
    BY <1>5, <2>1, ElementOfSeq
  <2>3. files # <<>>
    BY <2>1, EmptySeq
  <2> QED
    BY <2>1, <2>2, <2>3
<1>7. delivered = <<>>
  BY <1>1, <1>2, <1>6 DEF Phase
<1>8. /\ streams' = Append(streams, t) /\ files' = [files EXCEPT ![i] = g]
      /\ IF i = k THEN pc' = "merge" /\ spiller' = FALSE /\ tree' = NewTree(i)
                  ELSE UNCHANGED <<pc, spiller, tree>>
      /\ UNCHANGED <<noMoreInput, finished, given, delivered, pagesIndex, run, buffer,
                     spilledBytes, picked, result, abandoned>>
  BY <1>6 DEF OpenStream
<1>9. Shared(w, k, ToSet(given), {}) /\ Memory = {} /\ Memory' = {}
  <2>1. ToSet(<<>>) = {}
    BY EmptySeq DEF ToSet
  <2>2. Memory = {} /\ Memory' = {}
    BY <1>4, <1>8, <2>1 DEF Memory
  <2> QED
    BY <1>3, <2>2 DEF Runs
<1>10. \A j \in 1 .. k : WrittenIs(files[j], <<>>, <<>>, w[j])
  <2>1. \A j \in 1 .. k : WrittenIs(files[j], IF j = k THEN <<>> ELSE <<>>, IF j = k THEN <<>> ELSE <<>>, w[j])
    BY <1>3, <1>4 DEF Runs, Written
  <2> QED
    BY <2>1
<1> HIDE DEF f
<1>11. StreamOK(t, g, w[i]) /\ Pos(t) = 0 /\ g = [f EXCEPT !.reader = "open"]
  <2> HIDE DEF i
  <2>1. i = Len(streams) + 1
    BY DEF i
  <2> QED
    BY <1>1, <1>2, <1>3, <2>1, OpenedIs DEF f
<1> HIDE DEF t, g
<1>12. t \in Stream /\ g \in File /\ g.fd = f.fd /\ g.disk = f.disk /\ g.rows = f.rows
  <2>1. t \in Stream /\ g \in File
    BY <1>11, StreamTypes
  <2> QED
    BY <1>6, <1>11, <2>1 DEF File
<1>13. /\ streams' \in Seq(Stream) /\ Len(streams') = i /\ streams'[i] = t
       /\ \A j \in 1 .. l : streams'[j] = streams[j]
  BY <1>5, <1>8, <1>12, AppendStream
<1>14. /\ files' \in Seq(File) /\ Len(files') = k /\ files'[i] = g
       /\ \A j \in 1 .. k : j # i => files'[j] = files[j]
  BY <1>5, <1>6, <1>8, <1>12, FileChanged
<1> HIDE DEF k, l
<1>15. files' # <<>> /\ streams' # <<>>
  <2>1. Len(files') # 0 /\ Len(streams') # 0
    BY <1>5, <1>6, <1>13, <1>14
  <2> QED
    BY <2>1, EmptySeq
<1>16. Control'
  <2>1. pc' \in {"create", "merge"} /\ spiller' \in BOOLEAN
    BY <1>1, <1>8 DEF Control
  <2> QED
    BY <1>1, <1>8, <1>14, <1>15, <2>1 DEF Control
<1>17. Delivered'
  BY <1>1, <1>8, DeliveredStays
<1>18. Directory'
  <2>1. ~abandoned /\ Kept(files) /\ pc' # "closed" /\ ~finished' /\ abandoned' = abandoned
    BY <1>1, <1>8 DEF SInv, Control, Directory
  <2>2. Held(files'[i])
    BY <1>6, <1>11, <1>14 DEF Held, File
  <2>3. Kept(files')
    BY <1>5, <1>6, <1>14, <2>1, <2>2, KeptIfHeld DEF k
  <2> QED
    BY <2>1, <2>3, DirectoryStays
<1>19. \A j \in 1 .. i : j \in 1 .. l \/ j = i
  BY <1>5
<1>20. \A j \in 1 .. i : Pos(streams'[j]) = 0
  BY <1>4, <1>11, <1>13, <1>19
<1>21. Phase'
  <2>1. \A j \in 1 .. k : files'[j].fd = "closed"
    BY <1>4, <1>6, <1>12, <1>14 DEF f
  <2>2. pagesIndex' = <<>> /\ pagesIndex' \in Seq(Row) /\ OwnIds(pagesIndex')
    BY <1>4, <1>8, EmptySeq DEF OwnIds
  <2>3. (pc' = "create" /\ i < k) \/ (pc' = "merge" /\ i = k)
    <3>1. i < k \/ i = k
      BY <1>5, <1>6
    <3> QED
      BY <1>1, <1>8, <3>1
  <2> QED
    BY <1>4, <1>7, <1>8, <1>13, <1>14, <1>15, <1>20, <2>1, <2>2, <2>3 DEF Phase
<1>22. Runs(w)'
  <2>1. Shared(w, Len(files'), ToSet(given'), Memory')
    BY <1>8, <1>9, <1>14
  <2>2. Written(files', w, buffer', run')
    <3>1. ASSUME NEW j \in 1 .. k PROVE WrittenIs(files'[j], <<>>, <<>>, w[j])
      <4>1. CASE j = i
        <5>1. WrittenIs(g, <<>>, <<>>, w[i])
          <6>1. WrittenIs(f, <<>>, <<>>, w[i])
            BY <1>6, <1>10 DEF f
          <6> QED
            BY <1>12, <6>1, WrittenKept
        <5> QED
          BY <1>14, <4>1, <5>1
      <4>2. CASE j # i
        BY <1>10, <1>14, <4>2
      <4> QED
        BY <4>1, <4>2
    <3>2. ASSUME NEW j \in 1 .. k
          PROVE  WrittenIs(files'[j], IF j = k THEN <<>> ELSE <<>>, IF j = k THEN <<>> ELSE <<>>, w[j])
      BY <3>1
    <3> QED
      BY <1>4, <1>8, <1>14, <3>2 DEF Written
  <2>3. ASSUME NEW j \in 1 .. i PROVE StreamOK(streams'[j], files'[j], w[j])
    <3>1. CASE j = i
      BY <1>11, <1>13, <1>14, <3>1
    <3>2. CASE j \in 1 .. l
      <4>1. StreamOK(streams[j], files[j], w[j])
        BY <1>3, <3>2 DEF Runs, l
      <4>2. j # i /\ j \in 1 .. k
        BY <1>5, <1>6, <3>2
      <4> QED
        BY <1>13, <1>14, <3>2, <4>1, <4>2
    <3> QED
      BY <1>19, <3>1, <3>2
  <2>4. ASSUME NEW j \in 1 .. k, j > i PROVE files'[j].reader = "none"
    <3>1. j > l /\ j # i
      BY <1>5, <2>4
    <3> QED
      BY <1>3, <1>14, <3>1 DEF Runs, k, l
  <2>5. i <= k
    BY <1>6
  <2>6. \A j \in 1 .. Len(streams') : StreamOK(streams'[j], files'[j], w[j])
    BY <1>13, <2>3
  <2>7. \A j \in 1 .. Len(files') : j > Len(streams') => files'[j].reader = "none"
    BY <1>13, <1>14, <2>4
  <2>8. Len(streams') <= Len(files')
    BY <1>13, <1>14, <2>5
  <2> QED
    BY <1>13, <2>1, <2>2, <2>6, <2>7, <2>8 DEF Runs
<1>23. ASSUME Merging' PROVE Merged(w)'
  <2>1. i = k /\ tree' = NewTree(i)
    BY <1>1, <1>8, <1>23 DEF Merging
  <2>2. result' = <<>> /\ picked' = <<>> /\ delivered' = <<>>
    BY <1>4, <1>7, <1>8
  <2>3. Copy(picked)' = <<>>
    BY <2>2, EmptySeq DEF Copy
  <2>4. /\ <<>> \o <<>> = <<>> /\ <<>> \in Seq(Row) /\ <<>> \in Seq(Ref)
    BY EmptySeq, ConcatEmptySeq
  <2>5. OutIs(w, i, ToSet(given'), Positions', <<>>)
    <3>1. \A j \in 1 .. i : Positions'[j] = 0
      BY <1>13, <1>20 DEF Positions
    <3> QED
      BY <3>1, NothingOut
  <2>6. IsReady(i, Heads(streams'), tree', FALSE)
    <3>1. i \in Nat \ {0}
      BY <1>5
    <3> QED
      BY <2>1, <3>1, NewTreeIsReady
  <2> QED
    BY <1>13, <2>2, <2>3, <2>4, <2>5, <2>6 DEF Merged
<1> QED
  BY <1>16, <1>17, <1>18, <1>21, <1>22, <1>23 DEF SInv, Working

-----------------------------------------------------------------------------
(* The merge.                                                              *)

\* What the tree sees of the streams.
LEMMA HeadsAre ==
  ASSUME NEW sts \in Seq(Stream), NEW fs, NEW w,
         \A j \in 1 .. Len(sts) : StreamOK(sts[j], fs[j], w[j])
  PROVE  /\ IsHead(Len(sts), Heads(sts))
         /\ \A j \in 1 .. Len(sts) :
              /\ w[j] \in Seq(Row) /\ Len(w[j]) \in Nat /\ Pos(sts[j]) \in 0 .. Len(w[j])
              /\ sts[j].at < sts[j].count <=> Pos(sts[j]) < Len(w[j])
              /\ Pos(sts[j]) < Len(w[j]) =>
                   /\ sts[j].batch[sts[j].at + 1] = w[j][Pos(sts[j]) + 1]
                   /\ Heads(sts)[j - 1] = w[j][Pos(sts[j]) + 1].key
                   /\ w[j][Pos(sts[j]) + 1] \in Row
              /\ ~ (Pos(sts[j]) < Len(w[j])) =>
                   Heads(sts)[j - 1] = NoData /\ fs[j].reader = "closed" /\ ~fs[j].exists
<1> DEFINE n == Len(sts)
           h == Heads(sts)
<1>1. n \in Nat
  BY LenProperties
<1>2. DOMAIN h = 0 .. n - 1
  BY DEF Heads
<1>3. ASSUME NEW j \in 1 .. n
      PROVE  h[j - 1] = IF sts[j].at < sts[j].count THEN sts[j].batch[sts[j].at + 1].key ELSE NoData
  <2>1. j - 1 \in 0 .. n - 1 /\ (j - 1) + 1 = j
    BY <1>1
  <2> QED
    BY <2>1 DEF Heads
<1> HIDE DEF h
<1>4. ASSUME NEW j \in 1 .. n
      PROVE  /\ w[j] \in Seq(Row) /\ Len(w[j]) \in Nat /\ Pos(sts[j]) \in 0 .. Len(w[j])
             /\ sts[j].at < sts[j].count <=> Pos(sts[j]) < Len(w[j])
             /\ Pos(sts[j]) < Len(w[j]) =>
                  /\ sts[j].batch[sts[j].at + 1] = w[j][Pos(sts[j]) + 1]
                  /\ h[j - 1] = w[j][Pos(sts[j]) + 1].key
                  /\ w[j][Pos(sts[j]) + 1] \in Row
             /\ ~ (Pos(sts[j]) < Len(w[j])) =>
                  h[j - 1] = NoData /\ fs[j].reader = "closed" /\ ~fs[j].exists
             /\ h[j - 1] \in Nat \cup {NoData}
  <2> DEFINE t == sts[j]
             r == w[j]
             p == Pos(t)
  <2>1. StreamOK(t, fs[j], r)
    OBVIOUS
  <2>2. /\ r \in Seq(Row) /\ p \in 0 .. Len(r) /\ Len(r) \in Nat
        /\ t.at < t.count <=> p < Len(r)
        /\ t.at < t.count => t.batch[t.at + 1] = r[p + 1]
        /\ ~ (t.at < t.count) => fs[j].reader = "closed" /\ fs[j].exists = FALSE
    BY <2>1, RowAt
  <2>3. h[j - 1] = IF t.at < t.count THEN t.batch[t.at + 1].key ELSE NoData
    BY <1>3
  <2> HIDE DEF t, r, p
  <2>4. ASSUME p < Len(r) PROVE r[p + 1] \in Row /\ r[p + 1].key \in Nat
    <3>1. p + 1 \in 1 .. Len(r)
      BY <2>2, <2>4
    <3>2. r[p + 1] \in Row
      BY <2>2, <3>1, ElementOfSeq
    <3> QED
      BY <3>2 DEF Row
  <2>5. /\ r \in Seq(Row) /\ Len(r) \in Nat /\ p \in 0 .. Len(r)
        /\ t.at < t.count <=> p < Len(r)
        /\ p < Len(r) => t.batch[t.at + 1] = r[p + 1] /\ h[j - 1] = r[p + 1].key /\ r[p + 1] \in Row
        /\ ~ (p < Len(r)) => h[j - 1] = NoData /\ fs[j].reader = "closed" /\ ~fs[j].exists
        /\ h[j - 1] \in Nat \cup {NoData}
    BY <2>2, <2>3, <2>4
  <2> QED
    BY <2>5 DEF t, r, p
<1>5. IsHead(n, h)
  <2>1. ASSUME NEW s \in 0 .. n - 1 PROVE h[s] \in Nat \cup {NoData}
    <3>1. s + 1 \in 1 .. n /\ (s + 1) - 1 = s
      BY <1>1
    <3> QED
      BY <1>4, <3>1
  <2> QED
    BY <1>2, <2>1 DEF IsHead
<1> QED
  BY <1>4, <1>5 DEF h, n

\* Rows picked from the streams' batches.
LEMMA CopyAppends ==
  ASSUME NEW sts, NEW refs \in Seq(Ref), NEW ref \in Ref, CopyOf(sts, refs) \in Seq(Row),
         sts[ref.s + 1].batch[ref.at + 1] \in Row
  PROVE  /\ CopyOf(sts, Append(refs, ref)) = Append(CopyOf(sts, refs), sts[ref.s + 1].batch[ref.at + 1])
         /\ CopyOf(sts, Append(refs, ref)) \in Seq(Row) /\ Append(refs, ref) \in Seq(Ref)
         /\ Len(CopyOf(sts, refs)) = Len(refs)
<1> DEFINE x == sts[ref.s + 1].batch[ref.at + 1]
           c == CopyOf(sts, refs)
           refs2 == Append(refs, ref)
           c2 == CopyOf(sts, refs2)
           l == Len(refs)
<1>1. l \in Nat /\ DOMAIN refs = 1 .. l /\ \A i \in 1 .. l : refs[i] \in Ref
  BY LenProperties, ElementOfSeq
<1>2. /\ refs2 \in Seq(Ref) /\ Len(refs2) = l + 1 /\ DOMAIN refs2 = 1 .. l + 1
      /\ refs2[l + 1] = ref /\ \A i \in 1 .. l : refs2[i] = refs[i]
  BY AppendProperties, LenProperties
<1> HIDE DEF refs2
<1>3. DOMAIN c = 1 .. l /\ \A i \in 1 .. l : c[i] = sts[refs[i].s + 1].batch[refs[i].at + 1]
  BY <1>1 DEF CopyOf
<1>4. DOMAIN c2 = 1 .. l + 1 /\ \A i \in 1 .. l + 1 : c2[i] = sts[refs2[i].s + 1].batch[refs2[i].at + 1]
  BY <1>2 DEF CopyOf
<1>5. c2 = [i \in 1 .. l + 1 |-> c2[i]]
  BY <1>2 DEF CopyOf
<1> HIDE DEF c, c2, x
<1>6. c \in Seq(Row) /\ x \in Row /\ Len(c) = l
  <2>1. c \in Seq(Row) /\ x \in Row
    BY DEF c, x
  <2> QED
    BY <1>1, <1>3, <2>1, LenProperties
<1>7. l + 1 \in 1 .. l + 1 /\ \A i \in 1 .. l + 1 : i = l + 1 \/ i \in 1 .. l
  BY <1>1
<1>8. c2[l + 1] = x /\ \A i \in 1 .. l : c2[i] = c[i]
  <2>1. c2[l + 1] = x
    BY <1>2, <1>4, <1>7 DEF x
  <2>2. ASSUME NEW i \in 1 .. l PROVE c2[i] = c[i]
    <3>1. i \in 1 .. l + 1
      BY <1>1
    <3> QED
      BY <1>2, <1>3, <1>4, <3>1
  <2> QED
    BY <2>1, <2>2
<1>9. /\ Append(c, x) \in Seq(Row) /\ Len(Append(c, x)) = l + 1 /\ Append(c, x)[l + 1] = x
      /\ \A i \in 1 .. l : Append(c, x)[i] = c[i]
  BY <1>6, AppendProperties
<1>10. c2 \in Seq(Row) /\ Len(c2) = l + 1
  <2>1. \A i \in 1 .. l : c[i] \in Row
    BY <1>6, ElementOfSeq
  <2>2. \A i \in 1 .. l + 1 : c2[i] \in Row
    BY <1>6, <1>7, <1>8, <2>1
  <2>3. c2 \in [1 .. l + 1 -> Row]
    BY <1>5, <2>2
  <2>4. c2 \in Seq(Row)
    BY <1>1, <2>3, SeqDef
  <2> QED
    BY <1>1, <1>4, <2>4, LenProperties
<1>11. c2 = Append(c, x)
  <2>1. \A i \in 1 .. l + 1 : c2[i] = Append(c, x)[i]
    BY <1>7, <1>8, <1>9
  <2> QED
    BY <1>9, <1>10, <2>1, SeqEqual
<1> QED
  BY <1>2, <1>6, <1>10, <1>11 DEF c, x, c2, refs2, l

Out == (delivered \o result) \o Copy(picked)

\* In the merge there are as many streams as files, and what is out begins a sort of all
\* rows.
LEMMA MergeFacts ==
  ASSUME Control, Delivered, Phase, Merging, NEW w, Runs(w), Merged(w)
  PROVE  /\ Len(streams) = Len(files) /\ Len(streams) \in Nat \ {0}
         /\ Shared(w, Len(streams), ToSet(given), {}) /\ IsBeginning(ToSet(given), Out)
         /\ delivered \in Seq(Row) /\ Len(delivered) \in Nat
         /\ Len(result) \in Nat /\ Len(picked) \in Nat /\ Len(Copy(picked)) = Len(picked)
         /\ Len(Out) = Len(delivered) + (Len(result) + Len(picked))
<1>1. Len(streams) = Len(files) /\ streams # <<>> /\ pagesIndex = <<>> /\ pc # "spill"
  BY DEF Phase, Merging
<1>2. Len(streams) \in Nat \ {0}
  <2>1. streams \in Seq(Stream)
    BY DEF Runs
  <2> QED
    BY <1>1, <2>1, EmptySeq, LenProperties
<1>3. Shared(w, Len(streams), ToSet(given), {})
  <2>1. ToSet(<<>>) = {}
    BY EmptySeq DEF ToSet
  <2>2. Memory = {}
    BY <1>1, <2>1 DEF Memory
  <2> QED
    BY <1>1, <2>2 DEF Runs
<1>4. OutIs(w, Len(streams), ToSet(given), Positions, Out) /\ result \in Seq(Row)
      /\ picked \in Seq(Ref) /\ Copy(picked) \in Seq(Row)
  BY DEF Merged, Out
<1>5. IsBeginning(ToSet(given), Out)
  BY <1>3, <1>4, OutBegins
<1>6. delivered \in Seq(Row)
  <2>1. delivered \in Seq(ToSet(given)) /\ ToSet(given) \in SUBSET Row
    BY NumberedRows DEF Delivered, IsBeginning
  <2> QED
    BY <2>1, SeqMonotonic
<1>7. Len(delivered) \in Nat /\ Len(result) \in Nat /\ Len(picked) \in Nat /\ Len(Copy(picked)) = Len(picked)
  <2>1. DOMAIN Copy(picked) = DOMAIN picked
    BY DEF Copy
  <2> QED
    BY <1>4, <1>6, <2>1, LenProperties
<1>8. Len(Out) = Len(delivered) + (Len(result) + Len(picked))
  <2>1. delivered \o result \in Seq(Row) /\ Len(delivered \o result) = Len(delivered) + Len(result)
    BY <1>4, <1>6, ConcatProperties
  <2>2. Len((delivered \o result) \o Copy(picked)) = Len(delivered \o result) + Len(Copy(picked))
    BY <1>4, <2>1, ConcatProperties
  <2> QED
    BY <1>7, <2>1, <2>2 DEF Out
<1> QED
  BY <1>1, <1>2, <1>3, <1>5, <1>6, <1>7, <1>8

\* The stream s that is next has a row, and none of the others has a lesser one.
IsWinner(w, s) ==
  /\ s \in Nat /\ s + 1 \in 1 .. Len(streams) /\ Pos(streams[s + 1]) < Len(w[s + 1])
  /\ \A j \in 1 .. Len(streams) :
       Pos(streams[j]) < Len(w[j]) => w[s + 1][Pos(streams[s + 1]) + 1].key <= w[j][Pos(streams[j]) + 1].key

\* The tree's last stream has a row that comes before those of all others, and the tree stays
\* ready.
LEMMA Winner ==
  ASSUME Control, Delivered, Phase, Merging, NEW w, Runs(w), Merged(w),
         Len(result) + Len(picked) < rowCount
  PROVE  /\ IsWinner(w, NextStream(head, tree).last)
         /\ StaysReady(Len(streams), Heads(streams), NextStream(head, tree), FALSE)
<1> DEFINE n == Len(streams)
           h == Heads(streams)
           x == NextWithEqual(h, tree, FALSE)
           s == x.tree.last
           P(j) == Pos(streams[j])
<1>1. /\ n \in Nat \ {0} /\ Shared(w, n, ToSet(given), {}) /\ IsBeginning(ToSet(given), Out)
      /\ Len(delivered) \in Nat /\ Len(result) \in Nat /\ Len(picked) \in Nat
      /\ Len(Out) = Len(delivered) + (Len(result) + Len(picked))
  BY MergeFacts
<1>2. /\ IsHead(n, h)
      /\ \A j \in 1 .. n :
           /\ Len(w[j]) \in Nat /\ P(j) \in 0 .. Len(w[j])
           /\ P(j) < Len(w[j]) => h[j - 1] = w[j][P(j) + 1].key /\ w[j][P(j) + 1] \in Row
           /\ ~ (P(j) < Len(w[j])) => h[j - 1] = NoData
  <2>1. streams \in Seq(Stream) /\ \A j \in 1 .. Len(streams) : StreamOK(streams[j], files[j], w[j])
    BY DEF Runs
  <2> QED
    BY <2>1, HeadsAre
<1>3. IsReady(n, h, tree, FALSE)
  BY DEF Merged
<1> HIDE DEF h
<1>4. IsRightNext(n, h, x, FALSE)
  BY <1>1, <1>2, <1>3, NextIsLeast
<1>5. IsLeast(n, h, s, x.equal, FALSE) /\ StaysReady(n, h, x.tree, FALSE)
  BY <1>4 DEF IsRightNext
<1>6. NextStream(head, tree) = x.tree
  BY DEF NextStream, head, h
<1> HIDE DEF x, s
<1>7. \E j \in 1 .. n : P(j) < Len(w[j])
  <2>1. Len(Out) < Len(given)
    <3>1. Chunk \in Nat /\ Len(given) \in Nat
      <4>1. given \in Seq(Row)
        BY DEF Delivered, Numbered
      <4> QED
        BY <4>1, SizesAssumption, LenProperties DEF Chunk
    <3>2. rowCount <= Len(given) - Len(delivered)
      BY <1>1, <3>1 DEF rowCount, Least
    <3>3. rowCount \in Int
      BY <1>1, <3>1 DEF rowCount, Least
    <3> QED
      BY <1>1, <3>1, <3>2, <3>3
  <2>2. PICK y \in ToSet(given) : \A i \in 1 .. Len(Out) : Out[i] # y
    <3>1. /\ Len(Out) \in Nat
          /\ Len(Out) = Len(given) <=> \A z \in ToSet(given) : \E i \in 1 .. Len(Out) : Out[i] = z
      BY <1>1, AllOrFewer DEF Delivered
    <3>2. Len(Out) # Len(given)
      BY <2>1, <3>1
    <3> QED
      BY <3>1, <3>2
  <2>3. PICK j \in 1 .. n : y \in ToSet(w[j])
    BY <1>1 DEF Shared
  <2>4. w[j] \in Seq(Row)
    BY <1>1 DEF Shared, IsRun
  <2>5. PICK p \in 1 .. Len(w[j]) : w[j][p] = y
    BY <2>3, <2>4, ElementsOf
  <2>6. ~ (p <= Positions[j])
    <3>1. OutIs(w, n, ToSet(given), Positions, Out)
      BY DEF Merged, Out
    <3> QED
      BY <2>2, <2>5, <3>1 DEF OutIs
  <2>7. Positions[j] = P(j)
    BY DEF Positions
  <2>8. P(j) \in Nat /\ p \in Nat /\ p <= Len(w[j]) /\ Len(w[j]) \in Nat
    BY <1>2
  <2>9. P(j) < Len(w[j])
    BY <2>6, <2>7, <2>8
  <2> QED
    BY <2>9
<1>8. s # EMPTY /\ s \in 0 .. n - 1 /\ h[s] # NoData
      /\ \A i \in 0 .. n - 1 : h[i] # NoData => h[s] <= h[i]
  <2>1. PICK j \in 1 .. n : P(j) < Len(w[j])
    BY <1>7
  <2>2. h[j - 1] \in Nat /\ j - 1 \in 0 .. n - 1
    <3>1. h[j - 1] = w[j][P(j) + 1].key /\ w[j][P(j) + 1] \in Row
      BY <1>2, <2>1
    <3>2. h[j - 1] \in Nat
      BY <3>1 DEF Row
    <3> QED
      BY <1>1, <3>2
  <2>3. h[j - 1] # NoData
    BY <2>2 DEF NoData
  <2>4. s # EMPTY
    BY <1>5, <2>2, <2>3 DEF IsLeast
  <2> QED
    BY <1>5, <2>4 DEF IsLeast
<1>9. s \in Nat /\ s + 1 \in 1 .. n /\ (s + 1) - 1 = s
  BY <1>1, <1>8
<1>10. P(s + 1) < Len(w[s + 1]) /\ h[s] = w[s + 1][P(s + 1) + 1].key
  BY <1>2, <1>8, <1>9
<1>11. ASSUME NEW j \in 1 .. n, P(j) < Len(w[j])
       PROVE  w[s + 1][P(s + 1) + 1].key <= w[j][P(j) + 1].key
  <2>1. j - 1 \in 0 .. n - 1 /\ h[j - 1] = w[j][P(j) + 1].key /\ h[j - 1] \in Nat
    BY <1>1, <1>2, <1>11, SMTT(40) DEF Row
  <2>2. h[j - 1] # NoData
    BY <2>1 DEF NoData
  <2>3. h[s] <= h[j - 1]
    BY <1>8, <2>1, <2>2
  <2> QED
    BY <1>10, <2>1, <2>3
<1>12. IsWinner(w, s)
  BY <1>9, <1>10, <1>11 DEF IsWinner
<1> QED
  BY <1>5, <1>6, <1>12 DEF s, h

\* Concatenation of rows is associative.
LEMMA RowsAssociate ==
  ASSUME NEW a \in Seq(Row), NEW b \in Seq(Row), NEW c \in Seq(Row)
  PROVE  (a \o b) \o c = a \o (b \o c)
BY ConcatAssociative

\* One row more, whether it is copied at once or not.
CopiedAtOnce(a, b, c, x) == (a \o (b \o Append(c, x))) \o <<>> = Append((a \o b) \o c, x)

\* A row picked, or copied with those picked before it, comes at the end of what is out.
LEMMA OneMoreOut ==
  ASSUME NEW a \in Seq(Row), NEW b \in Seq(Row), NEW c \in Seq(Row), NEW x \in Row
  PROVE  /\ (a \o b) \o Append(c, x) = Append((a \o b) \o c, x)
         /\ CopiedAtOnce(a, b, c, x)
         /\ b \o Append(c, x) \in Seq(Row)
         /\ a \o (b \o c) = (a \o b) \o c /\ (((a \o b) \o c) \o <<>>) \o <<>> = (a \o b) \o c
<1> DEFINE ab == a \o b
           e == <<x>>
           ce == c \o e
           d == Append(c, x)
<1>1. e \in Seq(Row) /\ ab \in Seq(Row) /\ d \in Seq(Row) /\ d = ce
  BY ConcatProperties, AppendProperties, AppendIsConcat
<1>2. ab \o c \in Seq(Row) /\ a \o (b \o c) = ab \o c
  <2>1. ab \o c \in Seq(Row)
    BY <1>1, ConcatProperties
  <2>2. (a \o b) \o c = a \o (b \o c)
    BY ConcatAssociative
  <2> QED
    BY <2>1, <2>2
<1> HIDE DEF ab, e
<1>3. ab \o ce = (ab \o c) \o e
  <2>1. ab \in Seq(Row) /\ e \in Seq(Row)
    BY <1>1
  <2> QED
    BY <2>1, RowsAssociate, ZenonT(60)
<1>4. (ab \o c) \o e = Append(ab \o c, x)
  <2> DEFINE y == ab \o c
  <2>1. y \in Seq(Row)
    BY <1>2
  <2> HIDE DEF y
  <2>2. Append(y, x) = y \o <<x>>
    BY <2>1, AppendIsConcat
  <2> QED
    BY <2>2 DEF y, e
<1> HIDE DEF d, ce
<1>5. ab \o d = Append(ab \o c, x)
  BY <1>1, <1>3, <1>4 DEF ce
<1>6. b \o d \in Seq(Row) /\ a \o (b \o d) = ab \o d /\ a \o (b \o d) \in Seq(Row)
  <2>1. b \o d \in Seq(Row)
    BY <1>1, ConcatProperties
  <2>2. (a \o b) \o d = a \o (b \o d)
    <3>1. d \in Seq(Row)
      BY <1>1
    <3> QED
      BY <3>1, RowsAssociate
  <2>3. ab \o d \in Seq(Row)
    BY <1>1, ConcatProperties
  <2> QED
    BY <2>1, <2>2, <2>3 DEF ab
<1>7. (a \o (b \o d)) \o <<>> = a \o (b \o d)
  BY <1>6, ConcatEmptySeq
<1>8. ((ab \o c) \o <<>>) \o <<>> = ab \o c
  <2>1. (ab \o c) \o <<>> = ab \o c
    BY <1>2, ConcatEmptySeq
  <2> QED
    BY <2>1
<1>9. (a \o (b \o d)) \o <<>> = Append(ab \o c, x)
  BY <1>5, <1>6, <1>7
<1>10. CopiedAtOnce(a, b, c, x)
  BY <1>9 DEF CopiedAtOnce, ab, d
<1> QED
  BY <1>2, <1>5, <1>6, <1>8, <1>10 DEF ab, d

\* The stream that is next, and its file, after its row is taken.
LEMMA MovedIs ==
  ASSUME NEW t, NEW f, NEW r, StreamOK(t, f, r), t.at < t.count
  PROVE  /\ StreamOK(Moved(t, f), MovedFile(t, f), r) /\ Pos(Moved(t, f)) = Pos(t) + 1
         /\ Moved(t, f) \in Stream /\ MovedFile(t, f) \in File
         /\ MovedFile(t, f).fd = f.fd /\ MovedFile(t, f).disk = f.disk /\ MovedFile(t, f).rows = f.rows
         /\ MovedFile(t, f).reader # "none"
         /\ NeedsBatch(t) <=> IsLastRow(t)
         /\ ~NeedsBatch(t) => Moved(t, f).batch = t.batch
         /\ t.at \in Nat
<1>1. t \in Stream /\ f \in File
  BY StreamTypes
<1>2. StreamOK(Moved(t, f), MovedFile(t, f), r) /\ Pos(Moved(t, f)) = Pos(t) + 1
  BY MovesOn
<1>3. Moved(t, f) \in Stream /\ MovedFile(t, f) \in File /\ MovedFile(t, f).reader # "none"
  BY <1>2, StreamTypes
<1>4. t.at \in Nat /\ t.count \in Nat
  BY <1>1 DEF Stream
<1>5. NeedsBatch(t) <=> IsLastRow(t)
  BY <1>4 DEF NeedsBatch, IsLastRow
<1>6. MovedFile(t, f).fd = f.fd /\ MovedFile(t, f).disk = f.disk /\ MovedFile(t, f).rows = f.rows
  BY <1>1 DEF MovedFile, AfterRead, File
<1>7. ~NeedsBatch(t) => Moved(t, f).batch = t.batch
  BY <1>1 DEF Moved, Stream
<1> QED
  BY <1>2, <1>3, <1>4, <1>5, <1>6, <1>7

\* One stream is changed, the others stay.
LEMMA StreamChanged ==
  ASSUME NEW sts \in Seq(Stream), NEW i \in 1 .. Len(sts), NEW t \in Stream
  PROVE  /\ [sts EXCEPT ![i] = t] \in Seq(Stream) /\ Len([sts EXCEPT ![i] = t]) = Len(sts)
         /\ [sts EXCEPT ![i] = t][i] = t
         /\ \A j \in 1 .. Len(sts) : j # i => [sts EXCEPT ![i] = t][j] = sts[j]
BY ExceptSeq

\* One turn of the merge loop: the least row is picked and its stream goes on.
LEMMA MergeRowKeeps == ASSUME SInv, MergeRow PROVE SInv'
<1>1. Control /\ Delivered /\ pc = "merge" /\ ~finished /\ noMoreInput /\ Active
      /\ Len(result) + Len(picked) < rowCount
  BY DEF SInv, MergeRow, Control, Active
<1>2. Phase
  BY <1>1 DEF SInv
<1>3. Merging
  BY <1>1, <1>2 DEF Phase, Merging
<1>4. PICK w : Runs(w) /\ Merged(w)
  BY <1>1, <1>3 DEF SInv, Working
<1> DEFINE n == Len(streams)
           winner == NextStream(head, tree)
           s == winner.last
           i == s + 1
           t == streams[i]
           f == files[i]
           t2 == Moved(t, f)
           f2 == MovedFile(t, f)
           ref == [s |-> s, at |-> t.at]
           refs == Append(picked, ref)
           x == t.batch[t.at + 1]
<1>5. /\ n = Len(files) /\ n \in Nat \ {0} /\ Shared(w, n, ToSet(given), {})
      /\ delivered \in Seq(Row)
  BY <1>1, <1>2, <1>3, <1>4, MergeFacts
<1>6. IsWinner(w, s) /\ StaysReady(n, Heads(streams), winner, FALSE)
  BY <1>1, <1>2, <1>3, <1>4, Winner
<1>7. /\ tree' = winner
      /\ picked' = IF IsLastRow(t) THEN <<>> ELSE refs
      /\ result' = IF IsLastRow(t) THEN result \o Copy(refs) ELSE result
      /\ streams' = [streams EXCEPT ![i] = t2]
      /\ files' = IF NeedsBatch(t) THEN [files EXCEPT ![i] = f2] ELSE files
      /\ UNCHANGED <<pc, noMoreInput, finished, given, delivered, pagesIndex, run, buffer,
                     spiller, spilledBytes, abandoned>>
  <2>1. /\ tree' = winner
        /\ picked' = IF IsLastRow(t) THEN <<>> ELSE refs
        /\ result' = IF IsLastRow(t) THEN result \o Copy(refs) ELSE result
        /\ UNCHANGED <<pc, noMoreInput, finished, given, delivered, pagesIndex, run, buffer,
                       spiller, spilledBytes, abandoned>>
    BY DEF MergeRow
  <2>2. streams \in Seq(Stream) /\ files \in Seq(File) /\ i \in DOMAIN streams /\ i \in DOMAIN files
    BY <1>1, <1>4, <1>5, <1>6, LenProperties DEF Control, Runs, IsWinner
  <2>3. streams' = [streams EXCEPT ![i] = IF NeedsBatch(t) THEN ReadVecBatch(t, f) ELSE [t EXCEPT !.at = @ + 1]]
    BY DEF MergeRow
  <2>4. files' = IF NeedsBatch(t) THEN [files EXCEPT ![i] = AfterRead(t, f)] ELSE files
    BY <2>2 DEF MergeRow
  <2>5. files' = IF NeedsBatch(t) THEN [files EXCEPT ![i] = f2] ELSE files
    BY <2>4 DEF MovedFile
  <2>6. streams' = [streams EXCEPT ![i] = t2]
    <3> HIDE DEF winner, s, i, f, t
    <3> QED
      BY <2>3 DEF Moved
  <2> QED
    BY <2>1, <2>5, <2>6
<1> HIDE DEF winner, s
<1>8. /\ streams \in Seq(Stream) /\ files \in Seq(File)
      /\ \A j \in 1 .. n : StreamOK(streams[j], files[j], w[j])
      /\ \A j \in 1 .. n : WrittenIs(files[j], <<>>, <<>>, w[j])
      /\ run = <<>> /\ buffer = <<>> /\ pagesIndex = <<>>
  <2>1. run = <<>> /\ buffer = <<>> /\ pagesIndex = <<>>
    BY <1>1, <1>2, <1>3 DEF Phase, Merging
  <2>2. \A j \in 1 .. n : WrittenIs(files[j], IF j = n THEN <<>> ELSE <<>>, IF j = n THEN <<>> ELSE <<>>, w[j])
    BY <1>4, <1>5, <2>1 DEF Runs, Written
  <2>3. \A j \in 1 .. n : WrittenIs(files[j], <<>>, <<>>, w[j])
    BY <2>2
  <2> QED
    BY <1>1, <1>4, <2>1, <2>3 DEF Runs, Control
<1>9. /\ i \in 1 .. n /\ s \in Nat /\ Pos(t) < Len(w[i])
      /\ \A j \in 1 .. n : Pos(streams[j]) < Len(w[j]) => w[i][Pos(t) + 1].key <= w[j][Pos(streams[j]) + 1].key
  BY <1>6 DEF IsWinner
<1>10. \A j \in 1 .. n :
         /\ Len(w[j]) \in Nat /\ Pos(streams[j]) \in 0 .. Len(w[j])
         /\ streams[j].at < streams[j].count <=> Pos(streams[j]) < Len(w[j])
         /\ Pos(streams[j]) < Len(w[j]) => /\ streams[j].batch[streams[j].at + 1] = w[j][Pos(streams[j]) + 1]
                                           /\ w[j][Pos(streams[j]) + 1] \in Row
  BY <1>8, HeadsAre
<1>11. t.at < t.count /\ x = w[i][Pos(t) + 1] /\ x \in Row
  BY <1>9, <1>10
<1>12. /\ StreamOK(t2, f2, w[i]) /\ Pos(t2) = Pos(t) + 1 /\ t2 \in Stream /\ f2 \in File
       /\ f2.fd = f.fd /\ f2.disk = f.disk /\ f2.rows = f.rows /\ f2.reader # "none"
       /\ NeedsBatch(t) <=> IsLastRow(t)
       /\ ~NeedsBatch(t) => t2.batch = t.batch
       /\ t.at \in Nat
  <2>1. StreamOK(t, f, w[i])
    BY <1>8, <1>9
  <2> QED
    BY <1>11, <2>1, MovedIs
<1>13. ~NeedsBatch(t) => f2 = f
  BY DEF MovedFile
<1> HIDE DEF t2, f2
<1>14. /\ streams' \in Seq(Stream) /\ Len(streams') = n /\ streams'[i] = t2
       /\ \A j \in 1 .. n : j # i => streams'[j] = streams[j]
  BY <1>7, <1>8, <1>9, <1>12, StreamChanged
<1>15. /\ files' \in Seq(File) /\ Len(files') = n /\ files'[i] = f2
       /\ \A j \in 1 .. n : j # i => files'[j] = files[j]
  <2>1. CASE NeedsBatch(t)
    BY <1>5, <1>7, <1>8, <1>9, <1>12, <2>1, FileChanged
  <2>2. CASE ~NeedsBatch(t)
    BY <1>5, <1>7, <1>8, <1>9, <1>13, <2>2
  <2> QED
    BY <2>1, <2>2
<1> HIDE DEF n, i, t, f
<1>16. streams' # <<>> /\ files' # <<>>
  <2>1. Len(streams') # 0 /\ Len(files') # 0
    BY <1>5, <1>14, <1>15
  <2> QED
    BY <2>1, EmptySeq
<1>17. Control'
  BY <1>1, <1>7, <1>15, <1>16 DEF Control
<1>18. Delivered'
  BY <1>1, <1>7, DeliveredStays
<1>19. Directory'
  <2>1. ~abandoned /\ Kept(files) /\ pc' # "closed" /\ ~finished' /\ abandoned' = abandoned
    BY <1>1, <1>7 DEF SInv, Control, Directory
  <2>2. Held(files'[i])
    BY <1>12, <1>15 DEF Held
  <2>3. Kept(files')
    BY <1>5, <1>8, <1>9, <1>15, <2>1, <2>2, KeptIfHeld
  <2> QED
    BY <2>1, <2>3, DirectoryStays
<1>20. Merging'
  BY <1>1, <1>7, <1>16 DEF Merging
<1>21. Phase'
  <2>1. \A j \in 1 .. n : files[j].fd = "closed"
    BY <1>1, <1>2, <1>5 DEF Phase
  <2>2. \A j \in 1 .. n : files'[j].fd = "closed"
    <3>1. i \in 1 .. n /\ f2.fd = f.fd /\ files'[i] = f2 /\ \A j \in 1 .. n : j # i => files'[j] = files[j]
      BY <1>9, <1>12, <1>15
    <3> QED
      BY <2>1, <3>1 DEF f
  <2>3. pagesIndex \in Seq(Row) /\ OwnIds(pagesIndex)
    BY <1>2 DEF Phase
  <2> QED
    BY <1>1, <1>7, <1>8, <1>14, <1>15, <1>16, <1>20, <2>2, <2>3 DEF Phase
<1>22. Runs(w)'
  <2>1. Shared(w, Len(files'), ToSet(given'), Memory')
    <3>1. Memory' = {}
      <4>1. ToSet(<<>>) = {}
        BY EmptySeq DEF ToSet
      <4> QED
        BY <1>7, <1>8, <4>1 DEF Memory
    <3> QED
      BY <1>5, <1>7, <1>15, <3>1
  <2>2. Written(files', w, buffer', run')
    <3>1. ASSUME NEW j \in 1 .. n PROVE WrittenIs(files'[j], <<>>, <<>>, w[j])
      <4>1. CASE j = i
        <5>1. WrittenIs(f, <<>>, <<>>, w[i])
          BY <1>8, <1>9 DEF f
        <5>2. WrittenIs(f2, <<>>, <<>>, w[i])
          <6>1. f2.disk = f.disk /\ f2.rows = f.rows
            BY <1>12
          <6> QED
            BY <5>1, <6>1, WrittenKept
        <5> QED
          BY <1>15, <4>1, <5>2
      <4>2. CASE j # i
        BY <1>8, <1>15, <4>2
      <4> QED
        BY <4>1, <4>2
    <3>2. ASSUME NEW j \in 1 .. n
          PROVE  WrittenIs(files'[j], IF j = n THEN <<>> ELSE <<>>, IF j = n THEN <<>> ELSE <<>>, w[j])
      BY <3>1
    <3> QED
      BY <1>7, <1>8, <1>15, <3>2 DEF Written
  <2>3. ASSUME NEW j \in 1 .. n PROVE StreamOK(streams'[j], files'[j], w[j])
    <3>1. CASE j = i
      BY <1>12, <1>14, <1>15, <3>1
    <3>2. CASE j # i
      BY <1>8, <1>14, <1>15, <3>2
    <3> QED
      BY <3>1, <3>2
  <2>4. \A j \in 1 .. Len(streams') : StreamOK(streams'[j], files'[j], w[j])
    BY <1>14, <2>3
  <2>5. \A j \in 1 .. Len(files') : j > Len(streams') => files'[j].reader = "none"
    BY <1>5, <1>14, <1>15
  <2>6. Len(streams') <= Len(files')
    BY <1>5, <1>14, <1>15
  <2> QED
    BY <1>14, <2>1, <2>2, <2>4, <2>5, <2>6 DEF Runs
<1>23. Merged(w)'
  <2> DEFINE c == Copy(picked)
  <2>1. result \in Seq(Row) /\ picked \in Seq(Ref) /\ c \in Seq(Row) /\ ref \in Ref
    BY <1>4, <1>9, <1>12 DEF Merged, Ref
  <2>2. Copy(refs) = Append(c, x) /\ Copy(refs) \in Seq(Row) /\ refs \in Seq(Ref)
    <3>1. CopyOf(streams, picked) \in Seq(Row)
      BY <2>1 DEF Copy, CopyOf
    <3>2. ref.s + 1 = i /\ ref.at = t.at
      BY DEF i
    <3>3. streams[ref.s + 1].batch[ref.at + 1] = x
      BY <3>2 DEF t
    <3>4. /\ CopyOf(streams, refs) = Append(CopyOf(streams, picked), x)
          /\ CopyOf(streams, refs) \in Seq(Row) /\ refs \in Seq(Ref)
      <4> HIDE DEF ref, x
      <4> QED
        BY <1>11, <2>1, <3>1, <3>3, CopyAppends
    <3> QED
      BY <3>4 DEF Copy, CopyOf
  <2>3. OutIs(w, n, ToSet(given), Positions', Append(Out, x))
    <3>1. OutIs(w, n, ToSet(given), Positions, Out)
      BY <1>4 DEF Merged, Out, n
    <3>2. /\ \A j \in 1 .. n : Positions[j] = Pos(streams[j]) /\ Positions'[j] = Pos(streams'[j])
          /\ \A j \in 1 .. n : Positions[j] \in Nat
      <4>1. \A j \in 1 .. n : Positions[j] = Pos(streams[j]) /\ Positions'[j] = Pos(streams'[j])
        BY <1>14 DEF Positions, n
      <4> QED
        BY <1>10, <4>1
    <3>3. Positions[i] = Pos(t) /\ Positions'[i] = Positions[i] + 1
      BY <1>9, <1>12, <1>14, <3>2 DEF t
    <3>4. \A j \in 1 .. n : j # i => Positions'[j] = Positions[j]
      BY <1>14, <3>2
    <3>5. Positions[i] + 1 <= Len(w[i])
      <4>1. Pos(t) < Len(w[i]) /\ Len(w[i]) \in Nat /\ Positions[i] \in Nat
        BY <1>9, <1>10, <3>2
      <4> QED
        BY <3>3, <4>1
    <3>6. \A j \in 1 .. n : Positions[j] + 1 <= Len(w[j]) => w[i][Positions[i] + 1].key <= w[j][Positions[j] + 1].key
      <4> SUFFICES ASSUME NEW j \in 1 .. n, Positions[j] + 1 <= Len(w[j])
                   PROVE  w[i][Positions[i] + 1].key <= w[j][Positions[j] + 1].key
        OBVIOUS
      <4>1. Positions[j] = Pos(streams[j]) /\ Positions[j] \in Nat /\ Len(w[j]) \in Nat
        BY <1>10, <3>2
      <4>2. Pos(streams[j]) < Len(w[j])
        BY <4>1
      <4> QED
        BY <1>9, <3>3, <4>1, <4>2
    <3>7. x = w[i][Positions[i] + 1]
      BY <1>11, <3>3
    <3> HIDE DEF x
    <3>8. OutIs(w, n, ToSet(given), Positions', Append(Out, w[i][Positions[i] + 1]))
      <4>1. PICK pos : pos = Positions
        OBVIOUS
      <4>2. \A j \in 1 .. n : pos[j] \in Nat
        BY <3>2, <4>1
      <4>3. pos[i] + 1 <= Len(w[i]) /\ Positions'[i] = pos[i] + 1 /\ \A j \in 1 .. n : j # i => Positions'[j] = pos[j]
        BY <3>3, <3>4, <3>5, <4>1
      <4>4. \A j \in 1 .. n : pos[j] + 1 <= Len(w[j]) => w[i][pos[i] + 1].key <= w[j][pos[j] + 1].key
        BY <3>6, <4>1
      <4>5. OutIs(w, n, ToSet(given), pos, Out)
        BY <3>1, <4>1
      <4>6. OutIs(w, n, ToSet(given), Positions', Append(Out, w[i][pos[i] + 1]))
        BY <1>5, <1>9, <4>2, <4>3, <4>4, <4>5, OutGrows
      <4> QED
        BY <4>1, <4>6
    <3> QED
      BY <3>7, <3>8
  <2>4. /\ result' \in Seq(Row) /\ picked' \in Seq(Ref) /\ Copy(picked)' \in Seq(Row)
        /\ (delivered' \o result') \o Copy(picked)' = Append(Out, x)
    <3>1. /\ (delivered \o result) \o Append(c, x) = Append((delivered \o result) \o c, x)
          /\ (delivered \o (result \o Append(c, x))) \o <<>> = Append((delivered \o result) \o c, x)
          /\ result \o Append(c, x) \in Seq(Row)
      <4>1. delivered \in Seq(Row) /\ result \in Seq(Row) /\ c \in Seq(Row) /\ x \in Row
        BY <1>5, <1>11, <2>1
      <4> HIDE DEF c, x
      <4>2. (delivered \o result) \o Append(c, x) = Append((delivered \o result) \o c, x)
        BY <4>1, OneMoreOut
      <4>3. (delivered \o (result \o Append(c, x))) \o <<>> = Append((delivered \o result) \o c, x)
        <5>1. CopiedAtOnce(delivered, result, c, x)
          BY <4>1, OneMoreOut
        <5> QED
          BY <5>1 DEF CopiedAtOnce
      <4>4. result \o Append(c, x) \in Seq(Row)
        BY <4>1, OneMoreOut
      <4> QED
        BY <4>2, <4>3, <4>4
    <3>2. CASE IsLastRow(t)
      <4>1. picked' = <<>> /\ result' = result \o Append(c, x)
        BY <1>7, <2>2, <3>2
      <4>2. Copy(picked)' = <<>>
        <5>1. picked' = <<>>
          BY <4>1
        <5> QED
          BY <5>1, EmptySeq DEF Copy
      <4>3. <<>> \in Seq(Row) /\ <<>> \in Seq(Ref)
        BY EmptySeq
      <4> QED
        BY <1>7, <3>1, <4>1, <4>2, <4>3 DEF Out
    <3>3. CASE ~IsLastRow(t)
      <4>1. picked' = refs /\ result' = result
        BY <1>7, <3>3
      <4>2. Copy(picked)' = Copy(refs)
        <5>1. \A j \in 1 .. n : streams'[j].batch = streams[j].batch
          <6>1. t2.batch = t.batch /\ streams'[i] = t2 /\ \A j \in 1 .. n : j # i => streams'[j] = streams[j]
            BY <1>12, <1>14, <3>3
          <6> QED
            BY <6>1 DEF t
        <5>2. \A q \in DOMAIN refs : streams'[refs[q].s + 1].batch = streams[refs[q].s + 1].batch
          <6>1. \A j : j \in 1 .. n \/ streams'[j] = streams[j]
            <7>1. streams \in Seq(Stream) /\ DOMAIN streams = 1 .. n
              BY <1>8, LenProperties DEF n
            <7> QED
              BY <1>7, <7>1
          <6> QED
            BY <5>1, <6>1
        <5> HIDE DEF refs
        <5>3. Copy(picked)' = [q \in DOMAIN refs |-> streams'[refs[q].s + 1].batch[refs[q].at + 1]]
          BY <4>1 DEF Copy
        <5>4. Copy(refs) = [q \in DOMAIN refs |-> streams[refs[q].s + 1].batch[refs[q].at + 1]]
          BY DEF Copy
        <5> QED
          BY <5>2, <5>3, <5>4
      <4> QED
        BY <1>7, <2>1, <2>2, <3>1, <4>1, <4>2 DEF Out
    <3> QED
      BY <3>2, <3>3
  <2>5. IsReady(n, Heads(streams'), tree', FALSE)
    <3>1. IsHead(n, Heads(streams'))
      <4>1. \A j \in 1 .. Len(streams') : StreamOK(streams'[j], files'[j], w[j])
        BY <1>22 DEF Runs
      <4> QED
        BY <1>14, <4>1, HeadsAre
    <3>2. ASSUME NEW j \in 0 .. n - 1, j # s PROVE Heads(streams')[j] = Heads(streams)[j]
      <4>1. j + 1 \in 1 .. n /\ j + 1 # i
        BY <1>5, <1>9, <3>2 DEF i
      <4>2. streams'[j + 1] = streams[j + 1]
        BY <1>14, <4>1
      <4> QED
        BY <1>14, <4>2 DEF Heads, n
    <3>3. tree'.last = s /\ s # EMPTY
      BY <1>7, <1>9 DEF s, EMPTY
    <3> QED
      BY <1>6, <1>7, <3>1, <3>2, <3>3 DEF StaysReady
  <2> HIDE DEF refs, x
  <2> QED
    BY <1>7, <1>14, <2>3, <2>4, <2>5 DEF Merged
<1> QED
  BY <1>17, <1>18, <1>19, <1>21, <1>22, <1>23 DEF SInv, Working

\* The next batch of a stream cannot be read, which throws.
LEMMA FailToReadKeeps == ASSUME SInv, FailToRead PROVE SInv'
<1>1. Control /\ Delivered /\ pc = "merge" /\ ~finished /\ Active /\ Len(result) + Len(picked) < rowCount
  BY DEF SInv, FailToRead, Control, Active
<1>2. Phase
  BY <1>1 DEF SInv
<1>3. Merging
  BY <1>1, <1>2 DEF Phase, Merging
<1>4. PICK w : Runs(w) /\ Merged(w)
  BY <1>1, <1>3 DEF SInv, Working
<1> DEFINE i == NextStream(head, tree).last + 1
           f == [files[i] EXCEPT !.reader = "closed"]
<1>5. i \in 1 .. Len(files)
  <2>1. i \in 1 .. Len(streams)
    BY <1>1, <1>2, <1>3, <1>4, Winner DEF IsWinner
  <2>2. Len(streams) = Len(files)
    BY <1>1, <1>2, <1>3, <1>4, MergeFacts
  <2> QED
    BY <2>1, <2>2
<1>6. files \in Seq(File) /\ files[i] \in File
  <2>1. files \in Seq(File)
    BY <1>1 DEF Control
  <2> HIDE DEF i
  <2> QED
    BY <1>5, <2>1, ElementOfSeq
<1>7. f \in File /\ f.reader = "closed"
  BY <1>6 DEF File
<1>8. files' = [files EXCEPT ![i] = f]
  BY DEF FailToRead
<1> HIDE DEF f, i
<1>9. /\ files' \in Seq(File) /\ Len(files') = Len(files) /\ files'[i] = f
      /\ \A j \in 1 .. Len(files) : j # i => files'[j] = files[j]
  BY <1>5, <1>6, <1>7, <1>8, FileChanged
<1>10. /\ pc' = "failed" /\ streams # <<>> /\ noMoreInput
       /\ UNCHANGED <<noMoreInput, finished, given, delivered, spiller, streams, abandoned>>
  BY <1>1, <1>3 DEF FailToRead, Control, Merging
<1>11. spiller' \in BOOLEAN /\ abandoned' \in BOOLEAN
  BY <1>1, <1>10 DEF Control
<1>12. ~abandoned' /\ Kept(files')
  <2>1. ~abandoned /\ Kept(files) /\ Held(files'[i])
    BY <1>1, <1>7, <1>9 DEF SInv, Control, Directory, Held
  <2> QED
    BY <1>5, <1>6, <1>9, <1>10, <2>1, KeptIfHeld
<1> QED
  BY <1>1, <1>9, <1>10, <1>11, <1>12, Failed

\* When all rows have come out every stream is at its end.
LEMMA AllAtEnd ==
  ASSUME Control, Delivered, Phase, Merging, NEW w, Runs(w), Merged(w), Len(Out) = Len(given)
  PROVE  \A j \in 1 .. Len(files) : files[j].reader = "closed" /\ ~files[j].exists
<1>1. Len(streams) = Len(files) /\ Shared(w, Len(streams), ToSet(given), {}) /\ IsBeginning(ToSet(given), Out)
  BY MergeFacts
<1>2. \A y \in ToSet(given) : \E i \in 1 .. Len(Out) : Out[i] = y
  BY <1>1, AllOrFewer DEF Delivered
<1>3. OutIs(w, Len(streams), ToSet(given), Positions, Out)
  BY DEF Merged, Out
<1> SUFFICES ASSUME NEW j \in 1 .. Len(streams)
             PROVE  files[j].reader = "closed" /\ ~files[j].exists
  BY <1>1
<1>4. /\ w[j] \in Seq(Row) /\ Len(w[j]) \in Nat /\ Pos(streams[j]) \in 0 .. Len(w[j])
      /\ ~ (Pos(streams[j]) < Len(w[j])) => files[j].reader = "closed" /\ ~files[j].exists
  <2>1. streams \in Seq(Stream) /\ \A k \in 1 .. Len(streams) : StreamOK(streams[k], files[k], w[k])
    BY DEF Runs
  <2> QED
    BY <2>1, HeadsAre
<1>5. ASSUME Pos(streams[j]) < Len(w[j]) PROVE FALSE
  <2> DEFINE p == Pos(streams[j]) + 1
  <2>1. p \in 1 .. Len(w[j]) /\ ~ (p <= Pos(streams[j]))
    BY <1>4, <1>5
  <2>2. Positions[j] = Pos(streams[j])
    BY DEF Positions
  <2> HIDE DEF p
  <2>3. w[j][p] \in ToSet(given)
    <3>1. ToSet(w[j]) \in SUBSET ToSet(given)
      BY <1>1 DEF Shared
    <3>2. w[j][p] \in ToSet(w[j])
      BY <1>4, <2>1, ElementsOf
    <3> QED
      BY <3>1, <3>2
  <2>4. \A i \in 1 .. Len(Out) : Out[i] # w[j][p]
    BY <1>3, <2>1, <2>2 DEF OutIs
  <2> QED
    BY <1>2, <2>3, <2>4
<1> QED
  BY <1>4, <1>5

\* The batch that was merged is handed out, and after the last one the sort is finished.
LEMMA ReturnMergedKeeps == ASSUME SInv, ReturnMerged PROVE SInv'
<1>1. Control /\ Delivered /\ pc = "merge" /\ ~finished /\ noMoreInput /\ Active
  BY DEF SInv, ReturnMerged, Control, Active
<1>2. Phase
  BY <1>1 DEF SInv
<1>3. Merging
  BY <1>1, <1>2 DEF Phase, Merging
<1>4. PICK w : Runs(w) /\ Merged(w)
  BY <1>1, <1>3 DEF SInv, Working
<1>5. /\ delivered' = delivered \o (result \o Copy(picked)) /\ finished' = (Len(delivered') = Len(given))
      /\ pc' = "idle" /\ picked' = <<>> /\ result' = <<>>
      /\ UNCHANGED <<noMoreInput, given, pagesIndex, run, buffer, files, spiller, spilledBytes,
                     streams, tree, abandoned>>
  BY DEF ReturnMerged, Deliver
<1>6. delivered' = Out /\ (Out \o <<>>) \o <<>> = Out
  <2>1. delivered \in Seq(Row) /\ result \in Seq(Row) /\ Copy(picked) \in Seq(Row)
    BY <1>1, <1>2, <1>3, <1>4, MergeFacts DEF Merged
  <2>2. /\ delivered \o (result \o Copy(picked)) = Out
        /\ Out \o <<>> = Out
    <3> DEFINE c == Copy(picked)
    <3> HIDE DEF c
    <3>1. c \in Seq(Row)
      BY <2>1 DEF c
    <3>2. (delivered \o result) \o c = delivered \o (result \o c)
      BY <2>1, <3>1, RowsAssociate
    <3>3. delivered \o result \in Seq(Row)
      BY <2>1, ConcatProperties
    <3>4. (delivered \o result) \o c \in Seq(Row)
      BY <3>1, <3>3, ConcatProperties
    <3>5. Out = (delivered \o result) \o c
      BY DEF Out, c
    <3>6. Out \o <<>> = Out
      BY <3>4, <3>5, ConcatEmptySeq
    <3> QED
      BY <3>2, <3>5, <3>6 DEF c
  <2> QED
    BY <1>5, <2>2
<1>7. IsBeginning(ToSet(given), Out)
  BY <1>1, <1>2, <1>3, <1>4, MergeFacts
<1>8. Delivered'
  BY <1>1, <1>5, <1>6, <1>7 DEF Delivered, Numbered
<1>9. Control'
  <2>1. finished' \in BOOLEAN
    BY <1>5
  <2> QED
    BY <1>1, <1>5, <2>1 DEF Control
<1>10. Directory'
  <2>1. ASSUME finished'
        PROVE  \A j \in DOMAIN files' : files'[j].fd = "closed" /\ files'[j].reader = "closed" /\ ~files'[j].exists
    <3>1. Len(Out) = Len(given)
      BY <1>5, <1>6, <2>1
    <3>2. \A j \in 1 .. Len(files) : files[j].reader = "closed" /\ ~files[j].exists
      BY <1>1, <1>2, <1>3, <1>4, <3>1, AllAtEnd
    <3>3. \A j \in 1 .. Len(files) : files[j].fd = "closed"
      BY <1>1, <1>2 DEF Phase
    <3>4. DOMAIN files = 1 .. Len(files)
      BY <1>1, LenProperties DEF Control
    <3> QED
      BY <1>5, <3>2, <3>3, <3>4
  <2>2. pc' # "closed" /\ ~abandoned' /\ Kept(files')
    BY <1>1, <1>5 DEF SInv, Control, Directory, Kept
  <2> QED
    BY <2>1, <2>2 DEF Directory
<1>11. Merging'
  BY <1>3, <1>5 DEF Merging
<1>12. Phase'
  <2>1. files # <<>>
    <3>1. Len(streams) = Len(files) /\ Len(streams) \in Nat \ {0}
      BY <1>1, <1>2, <1>3, <1>4, MergeFacts
    <3> QED
      BY <3>1, EmptySeq
  <2> QED
    BY <1>1, <1>2, <1>5, <1>11, <2>1 DEF Phase
<1>13. Runs(w)'
  BY <1>1, <1>4, <1>5, RunsStay
<1>14. Merged(w)'
  <2>1. Copy(picked)' = <<>>
    <3>1. picked' = <<>>
      BY <1>5
    <3> QED
      BY <3>1, EmptySeq DEF Copy
  <2>2. (delivered' \o result') \o Copy(picked)' = Out
    BY <1>5, <1>6, <2>1
  <2>3. Positions' = Positions
    BY <1>5 DEF Positions
  <2>4. <<>> \in Seq(Row) /\ <<>> \in Seq(Ref)
    BY EmptySeq
  <2>5. OutIs(w, Len(streams), ToSet(given), Positions, Out) /\ IsReady(Len(streams), Heads(streams), tree, FALSE)
    BY <1>4 DEF Merged, Out
  <2> QED
    BY <1>5, <2>1, <2>2, <2>3, <2>4, <2>5 DEF Merged
<1> QED
  BY <1>8, <1>9, <1>10, <1>12, <1>13, <1>14 DEF SInv, Working

\* Close removes the files that are still there.
LEMMA CloseKeeps == ASSUME SInv, Close PROVE SInv'
<1>1. Control /\ Delivered /\ Directory /\ pc \in {"idle", "failed"}
  BY DEF SInv, Close
<1> DEFINE X == {i \in DOMAIN files : RemovedByClose(i)}
<1>2. /\ pc' = "closed" /\ files' = Gone(files, X)
      /\ spiller' = FALSE /\ streams' = <<>>
      /\ UNCHANGED <<noMoreInput, finished, given, delivered, run, buffer, spilledBytes, tree,
                     picked, result, abandoned>>
  BY DEF Close, Gone
<1>3. files \in Seq(File) /\ DOMAIN files = 1 .. Len(files)
  BY <1>1, LenProperties DEF Control
<1>4. \A i \in DOMAIN files : i \in X <=> (spiller /\ files[i].named) \/ streams # <<>>
  BY DEF RemovedByClose
<1> HIDE DEF X
<1>5. /\ files' \in Seq(File) /\ DOMAIN files' = 1 .. Len(files)
      /\ \A j \in 1 .. Len(files) :
           /\ files'[j].fd = files[j].fd /\ files'[j].reader = files[j].reader
           /\ files'[j].named = files[j].named
           /\ files'[j].exists = (files[j].exists /\ j \notin X)
  BY <1>2, <1>3, FilesGone
<1>6. Control'
  BY <1>1, <1>2, <1>5 DEF Control
<1>7. Delivered'
  BY <1>1, <1>2, DeliveredStays
<1>8. Directory'
  <2>1. ASSUME finished', NEW i \in DOMAIN files'
        PROVE  files'[i].fd = "closed" /\ files'[i].reader = "closed" /\ ~files'[i].exists
    <3>1. files[i].fd = "closed" /\ files[i].reader = "closed" /\ ~files[i].exists
      BY <1>1, <1>2, <1>3, <1>5, <2>1 DEF Directory
    <3> QED
      BY <1>5, <3>1
  <2>2. ASSUME ~abandoned', NEW i \in DOMAIN files'
        PROVE  ~(files'[i].named /\ files'[i].exists)
    <3>1. i \in DOMAIN files /\ files # <<>>
      BY <1>3, <1>5, EmptySeq
    <3>2. streams = <<>> => spiller
      BY <1>1, <1>2, <2>2, <3>1 DEF Control
    <3>3. files[i].named => i \in X
      BY <1>4, <3>1, <3>2
    <3> QED
      BY <1>3, <1>5, <3>1, <3>3
  <2>3. ASSUME abandoned' PROVE Orphans(files')
    <3>1. ~spiller /\ streams = <<>> /\ Orphans(files)
      BY <1>1, <1>2, <2>3 DEF Directory
    <3>2. \A i \in DOMAIN files : i \notin X
      BY <1>4, <3>1
    <3> QED
      BY <1>3, <1>5, <3>1, <3>2 DEF Orphans
  <2> QED
    BY <1>2, <2>1, <2>2, <2>3 DEF Directory
<1>9. ~Active'
  BY <1>2 DEF Active
<1> QED
  BY <1>6, <1>7, <1>8, <1>9 DEF SInv

\* Steps that change none of the variables keep the invariant.
LEMMA StutterKeeps == ASSUME SInv, UNCHANGED vars PROVE SInv'
<1>1. /\ UNCHANGED <<pc, noMoreInput, finished, given, delivered, pagesIndex, run, buffer, files>>
      /\ UNCHANGED <<spiller, spilledBytes, streams, tree, picked, result, abandoned>>
  BY DEF vars
<1>2. Control' /\ Delivered' /\ Directory'
  <2>1. Control /\ Delivered /\ Directory
    BY DEF SInv
  <2>2. Control'
    BY <1>1, <2>1 DEF Control
  <2>3. Directory'
    BY <1>1, <2>1 DEF Directory, Kept, Orphans
  <2> QED
    BY <1>1, <2>1, <2>2, <2>3, DeliveredStays
<1>3. ASSUME Active' PROVE Phase' /\ Working'
  <2>1. Active
    BY <1>1, <1>3 DEF Active
  <2>2. Phase
    BY <2>1 DEF SInv
  <2>3. PICK w : Runs(w) /\ (Merging => Merged(w))
    BY <2>1 DEF SInv, Working
  <2>4. Merging' <=> Merging
    BY <1>1 DEF Merging
  <2>5. Phase'
    BY <1>1, <2>2, <2>4 DEF Phase
  <2>6. Runs(w)'
    BY <1>1, <2>3, RunsStay
  <2>7. Merging' => Merged(w)'
    BY <1>1, <2>3, <2>4, MergedStays
  <2> QED
    BY <2>5, <2>6, <2>7 DEF Working
<1> QED
  BY <1>2, <1>3 DEF SInv

\* Every step keeps the invariant.
LEMMA StepKeeps == SInv /\ [SortNext]_vars => SInv'
<1> SUFFICES ASSUME SInv, [SortNext]_vars PROVE SInv'
  OBVIOUS
<1>1. CASE AddInput
  BY <1>1, AddInputKeeps
<1>2. CASE NoMoreInput
  BY <1>2, NoMoreInputKeeps
<1>3. CASE GetOutputFromMemory
  BY <1>3, GetOutputFromMemoryKeeps
<1>4. CASE GetOutputFromDisk
  BY <1>4, GetOutputFromDiskKeeps
<1>5. CASE Spill
  BY <1>5, WriteVecBatchKeeps, ExceedKeeps, FailToCreateKeeps, FailToWriteKeeps, CloseWriterKeeps,
     FailToCloseKeeps DEF Spill
<1>6. CASE Merge
  BY <1>6, OpenStreamKeeps, FailToOpenKeeps, MergeRowKeeps, FailToReadKeeps, ReturnMergedKeeps
     DEF Merge
<1>7. CASE Close
  BY <1>7, CloseKeeps
<1>8. CASE UNCHANGED vars
  BY <1>8, StutterKeeps
<1> QED
  BY <1>1, <1>2, <1>3, <1>4, <1>5, <1>6, <1>7, <1>8 DEF SortNext

\* SInv is an inductive invariant.
THEOREM RunsAreKept == Spec => []SInv
<1>1. Init => SInv
  BY Begins
<1>2. SInv /\ [SortNext]_vars => SInv'
  BY StepKeeps
<1> QED
  BY <1>1, <1>2, PTL DEF Spec

\* What comes out is the beginning of a sort of what went in.
THEOREM AlwaysSorted == Spec => []OutputIsSorted
<1>1. SInv => OutputIsSorted
  BY DeliveredIsSorted DEF SInv
<1> QED
  BY <1>1, RunsAreKept, PTL

\* The files that outlive the operator are those that had no reader when GetOutput threw its
\* spiller away; an operator that has handed everything out leaves none.
THEOREM FilesThatStay == Spec => []OnlyOrphansStay
<1>1. SInv => OnlyOrphansStay
  <2> SUFFICES ASSUME SInv PROVE OnlyOrphansStay
    OBVIOUS
  <2>1. Directory
    BY DEF SInv
  <2>2. ASSUME pc = "closed", NEW i \in DOMAIN files, files[i].named
        PROVE  files[i].exists <=> abandoned /\ files[i].reader = "none"
    <3>1. CASE abandoned
      BY <2>1, <2>2, <3>1 DEF Directory, Orphans
    <3>2. CASE ~abandoned
      BY <2>1, <2>2, <3>2 DEF Directory
    <3> QED
      BY <3>1, <3>2
  <2> QED
    BY <2>1, <2>2 DEF OnlyOrphansStay, Directory
<1> QED
  BY <1>1, RunsAreKept, PTL

-----------------------------------------------------------------------------
(* Readers.                                                                *)

OpensFirst == \A i \in DOMAIN files : files[i].reader = "none" => files'[i].reader # "closed"

\* A step that changes one file.
LEMMA OneFile ==
  ASSUME Control, NEW k \in 1 .. Len(files), NEW f \in File, files' = [files EXCEPT ![k] = f],
         files[k].reader = "none" => f.reader # "closed"
  PROVE  OpensFirst
<1>1. DOMAIN files = 1 .. Len(files)
  BY LenProperties DEF Control
<1>2. files'[k] = f /\ \A j \in 1 .. Len(files) : j # k => files'[j] = files[j]
  BY FileChanged DEF Control
<1> QED
  BY <1>1, <1>2 DEF OpensFirst

\* No reader is closed where no file changes.
LEMMA SameFiles == ASSUME files' = files PROVE OpensFirst
BY DEF OpensFirst

\* A spill closes no reader.
LEMMA SpillOpensFirst == ASSUME Control, NEW rows, SpillToDisk(rows) PROVE OpensFirst
<1>1. files \in Seq(File) /\ DOMAIN files = 1 .. Len(files)
  BY LenProperties DEF Control
<1>2. \A j \in 1 .. Len(files) : files'[j] = files[j]
  BY <1>1, MoreFiles DEF SpillToDisk
<1> QED
  BY <1>1, <1>2 DEF OpensFirst

\* Only the last file is written.
LEMMA WriteOpensFirst == ASSUME SInv, Spill PROVE OpensFirst
<1>1. Control /\ pc = "spill" /\ files # <<>>
  <2>1. Control /\ pc = "spill"
    BY DEF SInv, Spill, WriteVecBatch, ExceedSpillLimit, FailToCreate, FailToWrite, CloseWriter,
           FailToClose
  <2> QED
    BY <2>1 DEF Control
<1> DEFINE k == Len(files)
           f == files[k]
<1>2. k \in 1 .. k /\ Last(files) = f /\ f \in File
  BY <1>1, LastFile
<1>3. DOMAIN files = 1 .. k /\ files \in Seq(File)
  BY <1>1, LenProperties DEF Control
<1>4. ASSUME NEW g, g.reader = f.reader, files' = [files EXCEPT ![k] = g] PROVE OpensFirst
  <2>1. files'[k] = g /\ \A j \in 1 .. k : j # k => files'[j] = files[j]
    BY <1>2, <1>3, <1>4
  <2> QED
    BY <1>3, <1>4, <2>1 DEF OpensFirst
<1>5. Created(f).reader = f.reader
  BY <1>2, CreatedIs
<1>6. CASE WriteVecBatch
  <2> DEFINE n == Least(SpillRows, Len(run))
             put == Put(Created(f), SubSeq(run, 1, n))
             g == [put.file EXCEPT !.rows = @ + n]
  <2>1. files' = [files EXCEPT ![k] = g]
    BY <1>2, <1>6 DEF WriteVecBatch
  <2>2. g.reader = f.reader
    <3>1. PICK w : Runs(w)
      BY <1>1, <1>6 DEF SInv, Working, Active, Control, WriteVecBatch
    <3>2. \A j \in 1 .. k : WrittenIs(files[j], IF j = k THEN buffer ELSE <<>>, IF j = k THEN run ELSE <<>>, w[j])
      BY <3>1 DEF Runs, Written
    <3>3. WrittenIs(f, buffer, run, w[k])
      BY <1>2, <3>2
    <3>4. n \in Nat /\ n > 0 /\ n <= Len(run)
      <4>1. run \in Seq(Row) /\ run # <<>>
        BY <1>6, <3>3 DEF WrittenIs, WriteVecBatch
      <4>2. Len(run) \in Nat /\ Len(run) # 0
        BY <4>1, EmptySeq, LenProperties
      <4>3. SpillRows \in Nat /\ SpillRows # 0
        BY SizesAssumption
      <4> QED
        BY <4>2, <4>3 DEF Least
    <3> HIDE DEF n, f
    <3>5. g \in File /\ g.reader = f.reader /\ WrittenIs(g, put.buffer, SubSeq(run, n + 1, Len(run)), w[k])
      BY <1>2, <3>3, <3>4, WrittenMore
    <3> QED
      BY <3>5
  <2> HIDE DEF g, k, f
  <2> QED
    BY <1>4, <2>1, <2>2
<1>7. CASE ExceedSpillLimit
  BY <1>7, SameFiles DEF ExceedSpillLimit
<1>8. CASE FailToCreate
  <2>1. CASE files' = files
    BY <2>1, SameFiles
  <2>2. CASE files' # files
    <3> DEFINE g == [f EXCEPT !.fd = "open", !.exists = TRUE]
    <3>1. files' = [files EXCEPT ![k] = g]
      BY <1>2, <1>8, <2>2 DEF FailToCreate
    <3>2. g.reader = f.reader
      BY <1>2 DEF File
    <3> HIDE DEF g, k, f
    <3> QED
      BY <1>4, <3>1, <3>2
  <2> QED
    BY <2>1, <2>2
<1>9. CASE FailToWrite
  <2>1. files' = [files EXCEPT ![k] = Created(f)]
    BY <1>2, <1>9 DEF FailToWrite
  <2> HIDE DEF k, f
  <2> QED
    BY <1>4, <1>5, <2>1
<1>10. CASE CloseWriter
  <2> DEFINE g == [f EXCEPT !.fd = "closed", !.disk = @ \o buffer]
  <2>1. files' = [files EXCEPT ![k] = g]
    BY <1>2, <1>10 DEF CloseWriter
  <2>2. g.reader = f.reader
    BY <1>2 DEF File
  <2> HIDE DEF g, k, f
  <2> QED
    BY <1>4, <2>1, <2>2
<1>11. CASE FailToClose
  <2> DEFINE g == [f EXCEPT !.fd = "closed"]
  <2>1. files' = [files EXCEPT ![k] = g]
    BY <1>2, <1>11 DEF FailToClose
  <2>2. g.reader = f.reader
    BY <1>2 DEF File
  <2> HIDE DEF g, k, f
  <2> QED
    BY <1>4, <2>1, <2>2
<1> QED
  BY <1>6, <1>7, <1>8, <1>9, <1>10, <1>11 DEF Spill

\* Making a stream opens the reader before the first batch is read.
LEMMA OpenOpensFirst == ASSUME SInv, OpenStream PROVE OpensFirst
<1>1. Control /\ pc = "create" /\ Active
  BY DEF SInv, OpenStream, Control, Active
<1>2. Phase
  BY <1>1 DEF SInv
<1>3. PICK w : Runs(w)
  BY <1>1 DEF SInv, Working
<1> DEFINE i == Len(streams) + 1
           g == AfterRead(NewStream, files[i])
<1> HIDE DEF i
<1>4. i \in 1 .. Len(files) /\ files[i] \in File /\ g = [files[i] EXCEPT !.reader = "open"]
  <2>1. i = Len(streams) + 1
    BY DEF i
  <2> QED
    BY <1>1, <1>2, <1>3, <2>1, OpenedIs
<1>5. files' = [files EXCEPT ![i] = g]
  BY DEF OpenStream, i
<1> HIDE DEF g
<1>6. g \in File /\ g.reader = "open"
  BY <1>4 DEF File
<1> QED
  BY <1>1, <1>4, <1>5, <1>6, OneFile

\* The streams that are read have opened their files.
LEMMA MergeOpensFirst == ASSUME SInv, MergeRow \/ FailToRead PROVE OpensFirst
<1>1. Control /\ Delivered /\ pc = "merge" /\ Active /\ Len(result) + Len(picked) < rowCount
  BY DEF SInv, MergeRow, FailToRead, Control, Active
<1>2. Phase
  BY <1>1 DEF SInv
<1>3. Merging
  BY <1>1, <1>2 DEF Phase, Merging
<1>4. PICK w : Runs(w) /\ Merged(w)
  BY <1>1, <1>3 DEF SInv, Working
<1> DEFINE i == NextStream(head, tree).last + 1
<1>5. i \in 1 .. Len(files) /\ i \in 1 .. Len(streams)
  <2>1. i \in 1 .. Len(streams)
    BY <1>1, <1>2, <1>3, <1>4, Winner DEF IsWinner
  <2>2. Len(streams) = Len(files)
    BY <1>1, <1>2, <1>3, <1>4, MergeFacts
  <2> QED
    BY <2>1, <2>2
<1>6. files[i].reader # "none"
  <2>1. StreamOK(streams[i], files[i], w[i])
    BY <1>4, <1>5 DEF Runs
  <2> QED
    BY <2>1, StreamTypes
<1>7. \A j \in DOMAIN files : j # i => files'[j] = files[j]
  <2>1. \/ files' = files
        \/ files' = [files EXCEPT ![i] = AfterRead(streams[i], files[i])]
        \/ files' = [files EXCEPT ![i].reader = "closed"]
    BY DEF MergeRow, FailToRead
  <2> HIDE DEF i
  <2> QED
    BY <2>1
<1> HIDE DEF i
<1> QED
  BY <1>6, <1>7 DEF OpensFirst

\* Removing directory entries closes no reader.
LEMMA GoneOpensFirst == ASSUME Control, NEW X, files' = Gone(files, X) PROVE OpensFirst
<1>1. files \in Seq(File) /\ DOMAIN files = 1 .. Len(files)
  BY LenProperties DEF Control
<1>2. \A j \in 1 .. Len(files) : files'[j].reader = files[j].reader
  BY <1>1, FilesGone
<1> QED
  BY <1>1, <1>2 DEF OpensFirst

\* A file that could not be opened has no reader to close.
LEMMA FailOpensFirst == ASSUME SInv, FailToOpen PROVE OpensFirst
<1>1. Control /\ pc = "create" /\ Active /\ files \in Seq(File)
  BY DEF SInv, Control, Active, FailToOpen
<1>2. Phase
  BY <1>1 DEF SInv
<1>3. PICK w : Runs(w)
  BY <1>1 DEF SInv, Working
<1> DEFINE i == Len(streams) + 1
<1>4. i \in 1 .. Len(files) /\ DOMAIN files = 1 .. Len(files) /\ Len(files) \in Nat
  BY <1>1, <1>2, <1>3, LenProperties DEF Phase, Runs
<1>5. files' = Lost(files, i)
  BY DEF FailToOpen, Lost, Dropped
<1> HIDE DEF i
<1>6. /\ \A j \in 1 .. Len(files) :
           /\ j > i => files'[j] = files[j]
           /\ j < i => files'[j].reader = files[j].reader
      /\ files'[i].reader = "failed"
  BY <1>1, <1>4, <1>5, FilesLost
<1> SUFFICES ASSUME NEW j \in 1 .. Len(files), files[j].reader = "none" PROVE files'[j].reader # "closed"
  BY <1>4 DEF OpensFirst
<1>7. CASE j > i
  BY <1>6, <1>7
<1>8. CASE j < i
  BY <1>6, <1>8
<1>9. CASE j = i
  BY <1>6, <1>9
<1> QED
  BY <1>4, <1>7, <1>8, <1>9

\* No step closes a reader that was not open.
LEMMA StepOpensFirst == ASSUME SInv, SortNext PROVE OpensFirst
<1>1. Control
  BY DEF SInv
<1>2. CASE AddInput
  <2>1. PICK rows \in UNION {[1 .. n -> Keys] : n \in 1 .. BatchRows}, needSpill \in BOOLEAN :
          IF needSpill THEN SpillToDisk(pagesIndex') ELSE UNCHANGED <<run, files, spiller, pc>>
    BY <1>2 DEF AddInput
  <2>2. CASE needSpill
    <3>1. SpillToDisk(pagesIndex')
      BY <2>1, <2>2
    <3> QED
      BY <1>1, <3>1, SpillOpensFirst
  <2>3. CASE ~needSpill
    BY <2>1, <2>3, SameFiles
  <2> QED
    BY <2>2, <2>3
<1>3. CASE NoMoreInput \/ GetOutputFromMemory
  BY <1>3, SameFiles DEF NoMoreInput, GetOutputFromMemory
<1>4. CASE GetOutputFromDisk
  BY <1>1, <1>4, SameFiles, SpillOpensFirst DEF GetOutputFromDisk
<1>5. CASE Spill
  BY <1>5, WriteOpensFirst
<1>6. CASE Merge
  <2>1. CASE FailToOpen
    BY <2>1, FailOpensFirst
  <2>2. CASE ReturnMerged
    BY <2>2, SameFiles DEF ReturnMerged
  <2> QED
    BY <1>6, <2>1, <2>2, OpenOpensFirst, MergeOpensFirst DEF Merge
<1>7. CASE Close
  <2> DEFINE X == {i \in DOMAIN files : RemovedByClose(i)}
  <2>1. files' = Gone(files, X)
    BY <1>7 DEF Close, Gone
  <2> QED
    BY <1>1, <2>1, GoneOpensFirst
<1> QED
  BY <1>2, <1>3, <1>4, <1>5, <1>6, <1>7 DEF SortNext

\* A reader never closes a file that it has not opened.
THEOREM ReadersOpenFirst == Spec => ClosesWhatItOpened
<1>1. SInv /\ [SortNext]_vars => [OpensFirst]_vars
  BY StepOpensFirst
<1>2. [OpensFirst]_vars <=> [\A i \in DOMAIN files :
                               files[i].reader = "none" => files'[i].reader # "closed"]_vars
  BY DEF OpensFirst
<1> QED
  BY <1>1, <1>2, RunsAreKept, PTL DEF Spec, ClosesWhatItOpened
=============================================================================
