---------------------------- MODULE Task_proofs -----------------------------
(***************************************************************************)
(* Proofs about Task for every plan that is a tree, with unions, joins and *)
(* the other operators in any number and any order, every input, every     *)
(* number of rows in a batch, and a caller who stops reading whenever it   *)
(* likes.  They begin with what LocalPlanner makes of the plan.            *)
(* planDetail goes up from the sources to the root, so a proof by          *)
(* induction over the nodes takes the last node without the property.      *)
(***************************************************************************)
EXTENDS Task, Foundations_proofs

-----------------------------------------------------------------------------
(* The pipelines of a plan.                                                *)

\* What an operator of a plan may be called: a node, and one of its sources.
Places(query) ==
  {o \in (DOMAIN query) \X (Nat \ {0}) : o[2] = 1 \/ o[2] <= Len(query[o[1]].src)}

\* The pipelines of a subtree in the order in which planDetail collects them: none is
\* empty, only the first operator of a pipeline has no source, and behind every
\* pipeline are those that build what its operators take from their other sources.
Ordered(query, ps) ==
  /\ ps \in Seq(Seq(Places(query))) /\ Len(ps) > 0
  /\ \A d \in 1 .. Len(ps) : Len(ps[d]) > 0
  /\ \A d \in 1 .. Len(ps) : \A k \in 2 .. Len(ps[d]) : Len(query[ps[d][k][1]].src) > 0
  /\ \A d \in 1 .. Len(ps) : \A k \in 1 .. Len(ps[d]) : ps[d][k][2] = 1 =>
       \A i \in 2 .. Len(query[ps[d][k][1]].src) :
         \E e \in d + 1 .. Len(ps) : ps[e][Len(ps[e])] = <<ps[d][k][1], i>>

\* What planDetail makes of the pipelines below a node's i-th source, and of a node,
\* when f gives the pipelines of the nodes after it.
Built(query, f, n, i) ==
  <<Append(Head(f[query[n].src[i]]), <<n, i>>)>> \o Tail(f[query[n].src[i]])

Planned(query, f, n) ==
  IF query[n].src = <<>> THEN << << <<n, 1>> >> >>
  ELSE FlattenSeq([i \in 1 .. Len(query[n].src) |-> Built(query, f, n, i)])

\* f plans the nodes of T.
IsPlanning(query, f, T) == f = [n \in T |-> Planned(query, f, n)]

\* planDetail chooses what plans all nodes.
LEMMA PlanDetailIs ==
  ASSUME NEW query PROVE planDetail(query) = CHOOSE f : IsPlanning(query, f, DOMAIN query)
  BY DEF planDetail, IsPlanning, Planned, Built

\* The sources of a node are nodes after it.
LEMMA SourcesOf ==
  ASSUME NEW query, IsPlan(query), NEW n \in DOMAIN query
  PROVE  /\ query[n].src \in Seq(n + 1 .. Len(query)) /\ Len(query[n].src) \in Nat
         /\ \A i \in 1 .. Len(query[n].src) : query[n].src[i] \in n + 1 .. Len(query)
         /\ DOMAIN query = 1 .. Len(query) /\ Len(query) \in Nat
         /\ query[n].src = <<>> <=> Len(query[n].src) = 0
<1>1. query[n].src \in Seq(n + 1 .. Len(query)) /\ DOMAIN query = 1 .. Len(query) /\ Len(query) \in Nat
  BY DEF IsPlan
<1> DEFINE s == query[n].src
           S == n + 1 .. Len(query)
<1> HIDE DEF s, S
<1>2. s \in Seq(S)
  BY <1>1 DEF s, S
<1>3. Len(s) \in Nat /\ \A i \in 1 .. Len(s) : s[i] \in S
  BY <1>2, LenProperties, ElementOfSeq
<1>4. s = <<>> <=> Len(s) = 0
  BY <1>2, EmptySeq
<1> QED
  BY <1>1, <1>2, <1>3, <1>4 DEF s, S

\* Planning a node looks only at the nodes after it.
LEMMA PlannedAlike ==
  ASSUME NEW query, IsPlan(query), NEW n \in DOMAIN query, NEW f, NEW g,
         \A k \in n + 1 .. Len(query) : f[k] = g[k]
  PROVE  Planned(query, f, n) = Planned(query, g, n)
<1>1. \A i \in 1 .. Len(query[n].src) : Built(query, f, n, i) = Built(query, g, n, i)
  BY SourcesOf DEF Built
<1>2. [i \in 1 .. Len(query[n].src) |-> Built(query, f, n, i)]
      = [i \in 1 .. Len(query[n].src) |-> Built(query, g, n, i)]
  BY <1>1
<1> QED
  BY <1>2 DEF Planned

\* So there is something that plans all nodes: the last node first.
LEMMA SomePlanning ==
  ASSUME NEW query, IsPlan(query)
  PROVE  \E f : IsPlanning(query, f, DOMAIN query)
<1> DEFINE L == Len(query)
           From(j) == L + 1 - j .. L
           B == {j \in 0 .. L : ~ \E f : IsPlanning(query, f, From(j))}
<1>1. L \in Nat /\ DOMAIN query = 1 .. L
  BY DEF IsPlan
<1> HIDE DEF L
<1> SUFFICES ASSUME B # {} PROVE FALSE
  <2>1. L \in 0 .. L /\ From(L) = 1 .. L
    BY <1>1
  <2> QED
    BY <1>1, <2>1
<1>2. PICK m \in B : \A j \in B : m <= j
  <2>1. B \in SUBSET Nat
    BY <1>1
  <2> HIDE DEF B
  <2> QED
    BY <2>1, LeastNatural
<1>3. m \in 0 .. L /\ ~ \E f : IsPlanning(query, f, From(m))
  BY <1>2
<1>4. m # 0
  <2>1. From(0) = {}
    BY <1>1
  <2>2. IsPlanning(query, [n \in {} |-> 0], {})
    BY DEF IsPlanning
  <2> HIDE DEF From
  <2> QED
    BY <1>3, <2>1, <2>2
<1>5. m - 1 \in 0 .. L /\ m - 1 \notin B
  BY <1>1, <1>2, <1>3, <1>4, SMTT(30)
<1>6. PICK g : IsPlanning(query, g, From(m - 1))
  BY <1>5
<1> HIDE DEF B
<1> DEFINE c == L + 1 - m
           h == [n \in From(m) |-> IF n = c THEN Planned(query, g, c) ELSE g[n]]
<1>7. c \in 1 .. L /\ From(m) = c .. L /\ From(m - 1) = c + 1 .. L
  BY <1>1, <1>3, <1>4
<1> HIDE DEF c, From
<1>8. ASSUME NEW n \in From(m) PROVE h[n] = Planned(query, h, n)
  <2>1. n \in DOMAIN query /\ n \in c .. L
    BY <1>1, <1>7
  <2>2. h[n] = Planned(query, g, n)
    <3>1. CASE n = c
      BY <3>1
    <3>2. CASE n # c
      <4>1. n \in From(m - 1)
        BY <1>1, <1>7, <2>1, <3>2
      <4>2. g[n] = Planned(query, g, n)
        BY <1>6, <4>1 DEF IsPlanning
      <4> QED
        BY <3>2, <4>2
    <3> QED
      BY <3>1, <3>2
  <2>3. \A k \in n + 1 .. L : h[k] = g[k]
    BY <1>1, <1>7, <2>1
  <2> HIDE DEF h
  <2> QED
    BY <2>1, <2>2, <2>3, PlannedAlike DEF L
<1>9. h = [n \in From(m) |-> h[n]]
  OBVIOUS
<1> HIDE DEF h
<1>10. IsPlanning(query, h, From(m))
  BY <1>8, <1>9 DEF IsPlanning
<1> QED
  BY <1>3, <1>10

\* The builder of a source becomes the last operator of the subtree's own pipeline.
LEMMA BuiltFacts ==
  ASSUME NEW query, NEW n \in DOMAIN query, NEW f, NEW i \in 1 .. Len(query[n].src),
         i \in Nat, Ordered(query, f[query[n].src[i]])
  PROVE  LET below == f[query[n].src[i]]
             b == Built(query, f, n, i)
         IN  /\ b \in Seq(Seq(Places(query))) /\ Len(b) = Len(below)
             /\ \A q \in 2 .. Len(b) : b[q] = below[q]
             /\ Len(b[1]) = Len(below[1]) + 1 /\ b[1][Len(b[1])] = <<n, i>>
             /\ \A k \in 1 .. Len(below[1]) : b[1][k] = below[1][k]
<1> DEFINE below == f[query[n].src[i]]
           b == Built(query, f, n, i)
           P == Places(query)
           o == <<n, i>>
           first == Append(Head(below), o)
<1>1. below \in Seq(Seq(P)) /\ Len(below) > 0 /\ below # <<>> /\ b = <<first>> \o Tail(below)
  <2>1. below \in Seq(Seq(P)) /\ Len(below) > 0
    BY DEF Ordered
  <2>2. b = <<first>> \o Tail(below)
    BY DEF Built
  <2> HIDE DEF P, b, below
  <2>3. below # <<>>
    BY <2>1, EmptySeq
  <2> QED
    BY <2>1, <2>2, <2>3
<1>2. o \in P
  BY DEF Places
<1> HIDE DEF P, o, below, b
<1>3. below[1] \in Seq(P) /\ Head(below) = below[1] /\ Tail(below) \in Seq(Seq(P))
      /\ Len(Tail(below)) = Len(below) - 1 /\ Len(below) \in Nat
      /\ \A q \in 1 .. Len(Tail(below)) : Tail(below)[q] = below[q + 1]
  BY <1>1, HeadTailProperties, LenProperties, ElementOfSeq
<1>4. first \in Seq(P) /\ Len(first) = Len(below[1]) + 1 /\ first[Len(below[1]) + 1] = o
      /\ \A k \in 1 .. Len(below[1]) : first[k] = below[1][k]
  BY <1>2, <1>3, AppendProperties
<1> HIDE DEF first
<1>5. <<first>> \in Seq(Seq(P)) /\ Len(<<first>>) = 1 /\ <<first>>[1] = first
  BY <1>4
<1>6. b \in Seq(Seq(P)) /\ Len(b) = 1 + Len(Tail(below))
      /\ \A q \in 1 .. 1 + Len(Tail(below)) :
           b[q] = IF q <= 1 THEN <<first>>[q] ELSE Tail(below)[q - 1]
  BY <1>1, <1>3, <1>5, ConcatProperties
<1>7. b[1] = first /\ Len(b) = Len(below)
  BY <1>3, <1>5, <1>6
<1>8. ASSUME NEW q \in 2 .. Len(b) PROVE b[q] = below[q]
  <2>1. q - 1 \in 1 .. Len(Tail(below)) /\ q \in 1 .. 1 + Len(Tail(below)) /\ ~(q <= 1)
        /\ (q - 1) + 1 = q
    <3>1. Len(b) = 1 + Len(Tail(below)) /\ Len(Tail(below)) \in Nat
      BY <1>3, <1>6, LenProperties
    <3> QED
      BY <3>1
  <2> QED
    BY <1>3, <1>6, <2>1
<1> QED
  BY <1>4, <1>6, <1>7, <1>8 DEF P, o, below, b

\* b is low with operator o at the end of its first pipeline.
Grown(P, low, b, o) ==
  /\ b \in Seq(Seq(P)) /\ Len(b) = Len(low) /\ Len(low) \in Nat \ {0}
  /\ \A q \in 2 .. Len(low) : b[q] = low[q]
  /\ Len(b[1]) = Len(low[1]) + 1 /\ b[1][Len(b[1])] = o
  /\ \A k \in 1 .. Len(low[1]) : b[1][k] = low[1][k]
  /\ Len(low[1]) \in Nat \ {0}

\* The positions of a sequence and of the same one with an element more.
LEMMA LastOne ==
  ASSUME NEW l \in Nat \ {0}, NEW m, m = l \/ m = l + 1
  PROVE  m > 0 /\ m \in Nat /\ \A k \in 1 .. m : k \notin 1 .. l => k = l + 1 /\ m = l + 1
  OBVIOUS

\* The heart of it: the pipelines of the sources of node n, each ended by its builder
\* and laid one after the other, are ordered again.  What node n waits for are the
\* last operators of the first pipelines of its second, third, ... source.
LEMMA JoinedOrdered ==
  ASSUME NEW query, NEW n, NEW L \in Nat \ {0}, Len(query[n].src) = L, NEW P, P = Places(query),
         NEW below, \A i \in 1 .. L : Ordered(query, below[i]),
         NEW bs \in Seq(Seq(Seq(P))), Len(bs) = L,
         \A i \in 1 .. L : Grown(P, below[i], bs[i], <<n, i>>)
  PROVE  Ordered(query, FlattenSeq(bs))
<1>6. /\ \A i \in 1 .. L : Len(bs[i]) \in Nat \ {0} /\ Len(bs[i]) = Len(below[i]) /\ i \in Nat
      /\ 1 \in 1 .. L
  <2>1. ASSUME NEW i \in 1 .. L
        PROVE  Len(bs[i]) \in Nat \ {0} /\ Len(bs[i]) = Len(below[i])
    BY DEF Grown
  <2> QED
    BY <2>1
<1> DEFINE flat == FlattenSeq(bs)
<1>1. PICK off \in [1 .. L + 1 -> Nat] :
        /\ off[1] = 0 /\ \A i \in 1 .. L : off[i + 1] = off[i] + Len(bs[i])
        /\ flat \in Seq(Seq(P)) /\ Len(flat) = off[L + 1]
        /\ \A i \in 1 .. L : \A q \in 1 .. Len(bs[i]) : flat[off[i] + q] = bs[i][q]
  <2> DEFINE A == Seq(P)
  <2> HIDE DEF A, flat
  <2>1. bs \in Seq(Seq(A)) /\ Len(bs) > 0
    BY DEF A
  <2>2. FlattenSeq(bs) \in Seq(A) /\ \E off : Offsets(bs, FlattenSeq(bs), off)
    BY <2>1, Flattened
  <2>3. PICK off : Offsets(bs, flat, off)
    BY <2>2 DEF flat
  <2> HIDE DEF A
  <2>4. /\ off \in [1 .. L + 1 -> Nat]
        /\ off[1] = 0 /\ \A i \in 1 .. L : off[i + 1] = off[i] + Len(bs[i])
        /\ Len(flat) = off[L + 1]
        /\ \A i \in 1 .. L : \A q \in 1 .. Len(bs[i]) : flat[off[i] + q] = bs[i][q]
    BY <2>3 DEF Offsets
  <2>5. flat \in Seq(Seq(P))
    BY <2>2 DEF A, flat
  <2> QED
    BY <2>4, <2>5
<1> HIDE DEF flat
<1> DEFINE len == [i \in 1 .. L |-> Len(bs[i])]
<1>2. /\ \A i, j \in 1 .. L + 1 : i <= j => off[i] <= off[j]
      /\ \A p \in 1 .. off[L + 1] : \E i \in 1 .. L : \E q \in 1 .. Len(bs[i]) : p = off[i] + q
  <2>1. len \in [1 .. L -> Nat] /\ \A i \in 1 .. L : len[i] = Len(bs[i])
    BY <1>6
  <2>2. \A i \in 1 .. L : off[i + 1] = off[i] + len[i]
    BY <1>1, <2>1
  <2> HIDE DEF len
  <2>3. /\ \A i, j \in 1 .. L + 1 : i <= j => off[i] <= off[j]
        /\ \A p \in 1 .. off[L + 1] : \E i \in 1 .. L : \E q \in 1 .. len[i] : p = off[i] + q
    BY <1>1, <2>1, <2>2, BlockFacts
  <2> QED
    BY <2>1, <2>3
<1>3. ASSUME NEW i \in 1 .. L, NEW q \in 1 .. Len(bs[i])
      PROVE  off[i] + q \in 1 .. Len(flat) /\ off[i] \in Nat /\ q \in Nat
  <2>1. off[i + 1] <= off[L + 1] /\ off[i + 1] = off[i] + Len(bs[i])
    BY <1>1, <1>2
  <2>2. off[i] \in Nat /\ off[i + 1] \in Nat /\ off[L + 1] \in Nat /\ Len(bs[i]) \in Nat
    OBVIOUS
  <2>3. Len(flat) = off[L + 1]
    BY <1>1
  <2> DEFINE a == off[i]
             c == off[L + 1]
             l == Len(bs[i])
  <2>4. a \in Nat /\ c \in Nat /\ l \in Nat /\ a + l <= c /\ q \in 1 .. l
    BY <2>1, <2>2
  <2> HIDE DEF a, c, l
  <2>5. a + q \in 1 .. c /\ q \in Nat
    BY <2>4
  <2> QED
    BY <2>2, <2>3, <2>5 DEF a, c
<1>4. Len(flat) > 0
  <2>1. 1 \in 1 .. L /\ 1 \in 1 .. Len(bs[1])
    BY <1>6
  <2>2. off[1] + 1 \in 1 .. Len(flat)
    BY <1>3, <2>1
  <2> QED
    BY <1>1, <2>2
<1>5. ASSUME NEW d \in 1 .. Len(flat)
      PROVE  /\ Len(flat[d]) > 0
             /\ \A k \in 2 .. Len(flat[d]) : Len(query[flat[d][k][1]].src) > 0
             /\ \A k \in 1 .. Len(flat[d]) : flat[d][k][2] = 1 =>
                  \A j \in 2 .. Len(query[flat[d][k][1]].src) :
                    \E e \in d + 1 .. Len(flat) :
                       flat[e][Len(flat[e])] = <<flat[d][k][1], j>>
  <2>1. PICK i \in 1 .. L : \E q \in 1 .. Len(bs[i]) : d = off[i] + q
    BY <1>1, <1>2
  <2>2. PICK q \in 1 .. Len(bs[i]) : d = off[i] + q
    BY <2>1
  <2>3. flat[d] = bs[i][q]
    BY <1>1, <2>2
  <2>4. Ordered(query, below[i])
    OBVIOUS
  <2>5. off[i] \in Nat /\ q \in Nat /\ Len(bs[i]) = Len(below[i]) /\ Len(below[i]) \in Nat \ {0}
        /\ i \in Nat /\ Grown(P, below[i], bs[i], <<n, i>>)
    BY <1>3, <1>6
  <2> DEFINE l == Len(below[i][q])
  <2>6. /\ l \in Nat \ {0} /\ \A k \in 1 .. l : flat[d][k] = below[i][q][k]
        /\ \/ Len(flat[d]) = l
           \/ q = 1 /\ Len(flat[d]) = l + 1 /\ flat[d][l + 1] = <<n, i>>
    <3>1. CASE q = 1
      BY <2>3, <2>5, <3>1 DEF Grown
    <3>2. CASE q # 1
      <4>1. q \in 2 .. Len(below[i]) /\ q \in 1 .. Len(below[i])
        BY <2>5, <3>2
      <4>2. bs[i][q] = below[i][q]
        BY <2>5, <4>1 DEF Grown
      <4>3. below[i] \in Seq(Seq(P)) /\ Len(below[i][q]) > 0
        BY <2>4, <4>1 DEF Ordered
      <4>4. below[i][q] \in Seq(P)
        BY <4>1, <4>3, ElementOfSeq
      <4>5. l \in Nat \ {0}
        <5> DEFINE pl == below[i][q]
        <5>1. pl \in Seq(P) /\ Len(pl) > 0
          BY <4>3, <4>4
        <5> HIDE DEF pl
        <5>2. Len(pl) \in Nat \ {0}
          BY <5>1, LenProperties
        <5> QED
          BY <5>2 DEF pl
      <4> QED
        BY <2>3, <4>2, <4>5
    <3> QED
      BY <3>1, <3>2
  <2>7. q \in 1 .. Len(below[i])
    BY <2>5
  <2>11. l = Len(below[i][q])
    OBVIOUS
  <2> DEFINE m == Len(flat[d])
  <2>16. /\ l \in Nat \ {0}
         /\ \/ m = l
            \/ q = 1 /\ m = l + 1 /\ flat[d][l + 1] = <<n, i>>
    BY <2>6
  <2>14. m = Len(flat[d])
    OBVIOUS
  <2> HIDE DEF l, m
  <2>12. m = l \/ m = l + 1
    BY <2>16
  <2>13. m = l + 1 => q = 1 /\ flat[d][l + 1] = <<n, i>>
    <3> DEFINE top == flat[d][l + 1] = <<n, i>>
    <3>1. l \in Nat /\ (m = l \/ (q = 1 /\ m = l + 1 /\ top))
      BY <2>16
    <3> HIDE DEF top
    <3> QED
      BY <3>1, SMTT(30) DEF top
  <2>15. m > 0 /\ m \in Nat /\ \A k \in 1 .. m : k \notin 1 .. l => k = l + 1 /\ m = l + 1
    BY <2>12, <2>16, LastOne
  <2>8. Len(flat[d]) > 0 /\ Len(flat[d]) \in Nat
    BY <2>14, <2>15
  <2>9. ASSUME NEW k \in 2 .. Len(flat[d]) PROVE Len(query[flat[d][k][1]].src) > 0
    <3>1. CASE k \in 1 .. l
      <4>1. k \in 2 .. l
        BY <2>12, <3>1
      <4>2. \A j \in 2 .. Len(below[i][q]) : Len(query[below[i][q][j][1]].src) > 0
        BY <2>4, <2>7 DEF Ordered
      <4>3. flat[d][k] = below[i][q][k]
        BY <2>6, <3>1
      <4>4. \A j \in 2 .. l : Len(query[below[i][q][j][1]].src) > 0
        BY <2>11, <4>2
      <4>5. Len(query[below[i][q][k][1]].src) > 0
        BY <4>1, <4>4
      <4> QED
        BY <4>3, <4>5
    <3>2. CASE k \notin 1 .. l
      <4>1. flat[d][k] = <<n, i>>
        <5>1. k \in 1 .. m
          BY <2>14, <2>15
        <5> QED
          BY <2>13, <2>15, <3>2, <5>1
      <4> DEFINE o == flat[d][k]
      <4>2. o[1] = n
        BY <4>1
      <4> HIDE DEF o
      <4>3. Len(query[n].src) > 0
        <5> HIDE <1>1, <1>2, <1>3, <1>6
        <5>1. Len(query[n].src) = L /\ L > 0
          OBVIOUS
        <5> QED
          BY <5>1
      <4>4. query[o[1]].src = query[n].src
        BY <4>2
      <4>5. Len(query[o[1]].src) > 0
        BY <4>3, <4>4, Zenon
      <4> QED
        BY <4>5 DEF o
    <3> QED
      BY <3>1, <3>2
  <2>10. ASSUME NEW k \in 1 .. Len(flat[d]), flat[d][k][2] = 1,
                NEW j \in 2 .. Len(query[flat[d][k][1]].src)
         PROVE  \E e \in d + 1 .. Len(flat) : flat[e][Len(flat[e])] = <<flat[d][k][1], j>>
    <3>1. CASE k \in 1 .. l
      <4> DEFINE o == below[i][q][k]
      <4>1. flat[d][k] = o /\ o[2] = 1 /\ j \in 2 .. Len(query[o[1]].src)
        BY <2>6, <2>10, <3>1
      <4>2. PICK e \in q + 1 .. Len(below[i]) : below[i][e][Len(below[i][e])] = <<o[1], j>>
        BY <2>4, <2>7, <2>11, <3>1, <4>1 DEF Ordered
      <4>3. e \in 1 .. Len(bs[i]) /\ e \in 2 .. Len(below[i]) /\ e > q
        BY <2>5, <4>2
      <4>4. flat[off[i] + e] = below[i][e] /\ off[i] + e \in 1 .. Len(flat)
        <5>1. bs[i][e] = below[i][e]
          BY <2>5, <4>3 DEF Grown
        <5> QED
          BY <1>1, <1>3, <4>3, <5>1
      <4>5. off[i] + e \in d + 1 .. Len(flat)
        <5> DEFINE t == Len(flat)
        <5>1. off[i] + e \in 1 .. t /\ d = off[i] + q /\ off[i] \in Nat /\ q \in Nat /\ e \in Nat
          BY <2>2, <2>5, <4>3, <4>4
        <5> HIDE DEF t
        <5>2. off[i] + e \in d + 1 .. t
          BY <4>3, <5>1, SMTT(30)
        <5> QED
          BY <5>2 DEF t
      <4> QED
        BY <4>1, <4>2, <4>4, <4>5
    <3>2. CASE k \notin 1 .. l
      <4>1. q = 1 /\ flat[d][k] = <<n, i>>
        BY <2>13, <2>14, <2>15, <3>2
      <4>2. i = 1 /\ flat[d][k][1] = n /\ j \in 2 .. L /\ j \in 1 .. L
        BY <2>10, <4>1, SMTT(30)
      <4>3. Len(bs[j]) \in Nat \ {0} /\ Len(bs[1]) \in Nat \ {0} /\ 1 \in 1 .. L
        BY <1>6, <4>2
      <4>4. flat[off[j] + 1] = bs[j][1] /\ off[j] + 1 \in 1 .. Len(flat)
        <5>1. 1 \in 1 .. Len(bs[j])
          BY <4>3, SMTT(30)
        <5> QED
          BY <1>1, <1>3, <4>2, <5>1
      <4>5. bs[j][1][Len(bs[j][1])] = <<n, j>>
        <5>1. Grown(P, below[j], bs[j], <<n, j>>)
          BY <4>2
        <5> QED
          BY <5>1 DEF Grown
      <4>6. off[j] + 1 \in d + 1 .. Len(flat)
        <5>1. 2 \in 1 .. L + 1 /\ j \in 1 .. L + 1 /\ 2 <= j
          BY <4>2
        <5>2. off[2] <= off[j] /\ off[j] \in Nat /\ off[2] \in Nat
          BY <1>2, <5>1
        <5>3. off[1 + 1] = off[1] + Len(bs[1]) /\ off[1] = 0
          BY <1>1, <4>3
        <5>4. off[2] = Len(bs[1]) /\ d = 1
          BY <2>2, <4>1, <4>2, <4>3, <5>3
        <5> DEFINE t == Len(flat)
                   a == off[j]
                   c == off[2]
        <5>5. a + 1 \in 1 .. t /\ d = 1 /\ c <= a /\ a \in Nat /\ c \in Nat \ {0}
          BY <4>3, <4>4, <5>2, <5>4
        <5> HIDE DEF t, a, c
        <5>6. a + 1 \in d + 1 .. t
          BY <5>5
        <5> QED
          BY <5>6 DEF t, a
      <4> QED
        BY <4>2, <4>4, <4>5, <4>6
    <3> QED
      BY <3>1, <3>2
  <2> QED
    BY <2>8, <2>9, <2>10
<1> QED
  BY <1>1, <1>4, <1>5 DEF Ordered, flat

\* bs are the pipelines below node n, each source's with its builder.
Growth(query, n, f, bs) ==
  /\ Planned(query, f, n) = FlattenSeq(bs)
  /\ bs \in Seq(Seq(Seq(Places(query)))) /\ Len(bs) = Len(query[n].src)
  /\ \A i \in 1 .. Len(query[n].src) :
       Grown(Places(query), f[query[n].src[i]], bs[i], <<n, i>>)

\* Planning a node whose sources are planned in order grows the pipelines.
LEMMA PlannedGrows ==
  ASSUME NEW query, IsPlan(query), NEW n \in DOMAIN query, NEW f, Len(query[n].src) > 0,
         \A i \in 1 .. Len(query[n].src) : Ordered(query, f[query[n].src[i]])
  PROVE  \E bs : Growth(query, n, f, bs)
<1> DEFINE src == query[n].src
           L == Len(src)
           P == Places(query)
           below(i) == f[src[i]]
           bs == [i \in 1 .. L |-> Built(query, f, n, i)]
           flat == FlattenSeq(bs)
<1>0. L \in Nat /\ n \in Nat /\ (src = <<>> <=> L = 0) /\ L > 0
  BY SourcesOf
<1>1. Planned(query, f, n) = flat
  BY <1>0 DEF Planned
<1>2. ASSUME NEW i \in 1 .. L
      PROVE  Grown(P, below(i), bs[i], <<n, i>>) /\ bs[i] \in Seq(Seq(P))
  <2>1. Ordered(query, f[query[n].src[i]]) /\ i \in Nat /\ bs[i] = Built(query, f, n, i)
    BY <1>0
  <2>2. Len(below(i)) \in Nat \ {0} /\ Len(below(i)[1]) \in Nat \ {0}
    <3> DEFINE low == below(i)
               A == Seq(P)
    <3>1. low \in Seq(A) /\ Len(low) > 0 /\ \A d \in 1 .. Len(low) : Len(low[d]) > 0
      BY <2>1 DEF Ordered
    <3> HIDE DEF low, A
    <3>2. Len(low) \in Nat \ {0} /\ low[1] \in A /\ Len(low[1]) > 0
      BY <3>1, LenProperties, ElementOfSeq
    <3>3. low[1] \in Seq(P)
      BY <3>2 DEF A
    <3> DEFINE one == low[1]
    <3>4. one \in Seq(P) /\ Len(one) > 0
      BY <3>2, <3>3
    <3> HIDE DEF one
    <3>5. Len(one) \in Nat \ {0}
      BY <3>4, LenProperties
    <3> QED
      BY <3>2, <3>5 DEF one, low
  <2>3. i \in 1 .. Len(query[n].src)
    OBVIOUS
  <2> HIDE DEF bs
  <2>4. LET b == Built(query, f, n, i)
        IN  /\ b \in Seq(Seq(Places(query))) /\ Len(b) = Len(below(i))
            /\ \A q \in 2 .. Len(b) : b[q] = below(i)[q]
            /\ Len(b[1]) = Len(below(i)[1]) + 1 /\ b[1][Len(b[1])] = <<n, i>>
            /\ \A k \in 1 .. Len(below(i)[1]) : b[1][k] = below(i)[1][k]
    BY <2>1, <2>3, BuiltFacts
  <2> QED
    BY <2>1, <2>2, <2>4 DEF Grown
<1>3. bs \in Seq(Seq(Seq(P))) /\ Len(bs) = L
  <2>1. \A i \in 1 .. L : bs[i] \in Seq(Seq(P))
    BY <1>2
  <2>2. bs = [i \in 1 .. L |-> bs[i]]
    OBVIOUS
  <2> DEFINE S == Seq(Seq(P))
  <2> HIDE DEF bs, S
  <2> QED
    BY <1>0, <2>1, <2>2 DEF S
<1>4. /\ Planned(query, f, n) = FlattenSeq(bs)
      /\ bs \in Seq(Seq(Seq(Places(query)))) /\ Len(bs) = Len(query[n].src)
  BY <1>1, <1>3
<1>5. \A i \in 1 .. Len(query[n].src) :
        Grown(Places(query), f[query[n].src[i]], bs[i], <<n, i>>)
  BY <1>2
<1> HIDE DEF bs
<1>6. Growth(query, n, f, bs)
  BY <1>4, <1>5 DEF Growth
<1> QED
  BY <1>6

\* A node is planned in order when its sources are.
LEMMA PlannedOrdered ==
  ASSUME NEW query, IsPlan(query), NEW n \in DOMAIN query, NEW f,
         \A i \in 1 .. Len(query[n].src) : Ordered(query, f[query[n].src[i]])
  PROVE  Ordered(query, Planned(query, f, n))
<1> DEFINE src == query[n].src
           L == Len(src)
           P == Places(query)
<1>1. L \in Nat /\ n \in Nat /\ (src = <<>> <=> L = 0)
  BY SourcesOf
<1>2. CASE L = 0
  <2> DEFINE o == <<n, 1>>
             ps == << <<o>> >>
  <2>1. Planned(query, f, n) = ps
    BY <1>1, <1>2 DEF Planned
  <2>2. o \in P
    BY DEF Places
  <2>3. ps \in Seq(Seq(P)) /\ Len(ps) = 1 /\ ps[1] = <<o>> /\ Len(<<o>>) = 1 /\ <<o>>[1] = o
    <3> HIDE DEF o, P
    <3> QED
      BY <2>2
  <2>4. o[1] = n
    OBVIOUS
  <2> HIDE DEF ps, o
  <2>5. \A d \in 1 .. Len(ps) : d = 1
    BY <2>3
  <2>6. \A d \in 1 .. Len(ps) : Len(ps[d]) = 1 /\ ps[d][1] = o
    BY <2>3, <2>5
  <2>7. Len(query[o[1]].src) = 0
    BY <1>2, <2>4
  <2> HIDE DEF L, src
  <2>8. ASSUME NEW d \in 1 .. Len(ps)
        PROVE  /\ Len(ps[d]) > 0
               /\ \A k \in 2 .. Len(ps[d]) : Len(query[ps[d][k][1]].src) > 0
               /\ \A k \in 1 .. Len(ps[d]) : ps[d][k][2] = 1 =>
                    \A i \in 2 .. Len(query[ps[d][k][1]].src) :
                      \E e \in d + 1 .. Len(ps) : ps[e][Len(ps[e])] = <<ps[d][k][1], i>>
    <3>1. Len(ps[d]) = 1 /\ \A k \in 1 .. 1 : ps[d][k] = o
      BY <2>6
    <3> QED
      BY <2>7, <3>1
  <2>9. Ordered(query, ps)
    <3>1. ps \in Seq(Seq(Places(query))) /\ Len(ps) > 0
      BY <2>3 DEF P
    <3> HIDE DEF P
    <3> QED
      BY <2>8, <3>1, ZenonT(30) DEF Ordered
  <2> QED
    BY <2>1, <2>9
<1>3. CASE L > 0
  <2>1. PICK bs : Growth(query, n, f, bs)
    BY <1>3, PlannedGrows
  <2> DEFINE low == [i \in 1 .. L |-> f[src[i]]]
             flat == FlattenSeq(bs)
  <2>2. \A i \in 1 .. L : low[i] = f[src[i]] /\ Ordered(query, low[i])
    OBVIOUS
  <2>3. L \in Nat \ {0} /\ Len(query[n].src) = L /\ P = Places(query)
    BY <1>1, <1>3
  <2>4. Planned(query, f, n) = flat /\ bs \in Seq(Seq(Seq(P))) /\ Len(bs) = L
        /\ \A i \in 1 .. L : Grown(P, f[src[i]], bs[i], <<n, i>>)
    BY <2>1, <2>3 DEF Growth
  <2> HIDE DEF low, L, P
  <2>5. \A i \in 1 .. L : Grown(P, low[i], bs[i], <<n, i>>)
    BY <2>2, <2>4
  <2>6. \A i \in 1 .. L : Ordered(query, low[i])
    BY <2>2
  <2>7. Ordered(query, flat)
    BY <2>3, <2>4, <2>5, <2>6, JoinedOrdered
  <2> QED
    BY <2>4, <2>7
<1> QED
  BY <1>1, <1>2, <1>3

\* So all nodes are.
LEMMA AllOrdered ==
  ASSUME NEW query, IsPlan(query)
  PROVE  \A n \in DOMAIN query : Ordered(query, planDetail(query)[n])
<1> DEFINE f == planDetail(query)
           L == Len(query)
           B == {j \in 0 .. L - 1 : ~ Ordered(query, f[L - j])}
<1>1. IsPlanning(query, f, DOMAIN query) /\ L \in Nat \ {0} /\ DOMAIN query = 1 .. L
  BY PlanDetailIs, SomePlanning DEF IsPlan
<1> HIDE DEF f, L
<1> SUFFICES ASSUME B # {} PROVE FALSE
  <2>1. ASSUME NEW n \in DOMAIN query PROVE L - n \in 0 .. L - 1 /\ L - (L - n) = n
    BY <1>1
  <2>2. ASSUME NEW n \in DOMAIN query PROVE Ordered(query, f[n])
    BY <2>1
  <2> QED
    BY <2>2 DEF f
<1>2. PICK m \in B : \A j \in B : m <= j
  <2>1. B \in SUBSET Nat
    BY <1>1
  <2> HIDE DEF B
  <2> QED
    BY <2>1, LeastNatural
<1> DEFINE n == L - m
<1>3. n \in 1 .. L /\ ~ Ordered(query, f[n])
  BY <1>1, <1>2
<1>4. ASSUME NEW k \in n + 1 .. L PROVE Ordered(query, f[k])
  <2>1. L - k \in 0 .. L - 1 /\ ~ (m <= L - k) /\ L - (L - k) = k
    BY <1>1, <1>2
  <2> QED
    BY <1>2, <2>1
<1> HIDE DEF n, B
<1>5. f[n] = Planned(query, f, n)
  BY <1>1, <1>3 DEF IsPlanning
<1>6. \A i \in 1 .. Len(query[n].src) : Ordered(query, f[query[n].src[i]])
  BY <1>1, <1>3, <1>4, SourcesOf DEF L
<1> QED
  BY <1>1, <1>3, <1>5, <1>6, PlannedOrdered

\* Operator o is in one of the pipelines of b.
Has(ps, o) == \E d \in 1 .. Len(ps) : \E k \in 1 .. Len(ps[d]) : ps[d][k] = o

\* Each of a list of pipelines that has an operator of a node other than its first has
\* the first one, too.
Rooted(ps) == \A d \in 1 .. Len(ps) : \A k \in 1 .. Len(ps[d]) : Has(ps, <<ps[d][k][1], 1>>)

\* Growing loses no operator.
LEMMA GrownHas ==
  ASSUME NEW P, NEW low, NEW b, NEW o, Grown(P, low, b, o)
  PROVE  /\ Has(b, o) /\ \A p : Has(low, p) => Has(b, p)
         /\ \A p : Has(b, p) => Has(low, p) \/ p = o
<1>1. /\ Len(b) = Len(low) /\ Len(low) \in Nat \ {0}
      /\ \A q \in 2 .. Len(low) : b[q] = low[q]
      /\ Len(b[1]) = Len(low[1]) + 1 /\ b[1][Len(b[1])] = o
      /\ \A k \in 1 .. Len(low[1]) : b[1][k] = low[1][k]
      /\ Len(low[1]) \in Nat \ {0} /\ 1 \in 1 .. Len(low)
  BY DEF Grown
<1>2. Has(b, o)
  <2>1. Len(b[1]) \in 1 .. Len(b[1]) /\ 1 \in 1 .. Len(b)
    BY <1>1
  <2> QED
    BY <1>1, <2>1 DEF Has
<1>3. ASSUME NEW p, Has(low, p) PROVE Has(b, p)
  <2>1. PICK d \in 1 .. Len(low) : \E k \in 1 .. Len(low[d]) : low[d][k] = p
    BY <1>3 DEF Has
  <2>2. CASE d = 1
    BY <1>1, <2>1, <2>2 DEF Has
  <2>3. CASE d # 1
    BY <1>1, <2>1, <2>3 DEF Has
  <2> QED
    BY <2>2, <2>3
<1>4. ASSUME NEW p, Has(b, p) PROVE Has(low, p) \/ p = o
  <2>1. PICK d \in 1 .. Len(b) : \E k \in 1 .. Len(b[d]) : b[d][k] = p
    BY <1>4 DEF Has
  <2>2. CASE d = 1
    <3>1. PICK k \in 1 .. Len(b[1]) : b[1][k] = p
      BY <2>1, <2>2
    <3>2. CASE k = Len(b[1])
      BY <1>1, <3>1, <3>2
    <3>3. CASE k # Len(b[1])
      <4>1. k \in 1 .. Len(low[1])
        BY <1>1, <3>3
      <4> QED
        BY <1>1, <3>1, <4>1 DEF Has
    <3> QED
      BY <3>2, <3>3
  <2>3. CASE d # 1
    BY <1>1, <2>1, <2>3 DEF Has
  <2> QED
    BY <2>2, <2>3
<1> QED
  BY <1>2, <1>3, <1>4

\* The pipelines of a node are rooted when those of its sources are.
LEMMA JoinedRooted ==
  ASSUME NEW n, NEW L \in Nat \ {0}, NEW P,
         NEW below, \A i \in 1 .. L : Rooted(below[i]),
         NEW bs \in Seq(Seq(Seq(P))), Len(bs) = L,
         \A i \in 1 .. L : Grown(P, below[i], bs[i], <<n, i>>)
  PROVE  Rooted(FlattenSeq(bs))
<1> DEFINE flat == FlattenSeq(bs)
           S == Seq(P)
<1>1. PICK off : Spread(bs, flat, off)
  <2>1. bs \in Seq(Seq(S)) /\ Len(bs) > 0
    OBVIOUS
  <2> HIDE DEF S
  <2> QED
    BY <2>1, Spreads
<1> HIDE DEF flat, S
<1>2. /\ \A d \in 1 .. Len(flat) : \E i \in 1 .. L : \E q \in 1 .. Len(bs[i]) :
           flat[d] = bs[i][q]
      /\ \A i \in 1 .. L : \A q \in 1 .. Len(bs[i]) : \E d \in 1 .. Len(flat) :
           flat[d] = bs[i][q]
  <2>1. Gathers(bs, flat)
    BY <1>1, SpreadElements
  <2>2. Len(bs) = L
    OBVIOUS
  <2> QED
    BY <2>1, <2>2 DEF Gathers
<1>3. ASSUME NEW i \in 1 .. L, NEW p, Has(bs[i], p) PROVE Has(flat, p)
  <2>1. PICK q \in 1 .. Len(bs[i]) : \E k \in 1 .. Len(bs[i][q]) : bs[i][q][k] = p
    BY <1>3 DEF Has
  <2>2. PICK d \in 1 .. Len(flat) : flat[d] = bs[i][q]
    BY <1>2
  <2> QED
    BY <2>1, <2>2 DEF Has
<1>4. Has(flat, <<n, 1>>)
  <2>1. 1 \in 1 .. L /\ Has(bs[1], <<n, 1>>)
    <3>1. Grown(P, below[1], bs[1], <<n, 1>>)
      OBVIOUS
    <3> QED
      BY <3>1, GrownHas
  <2> QED
    BY <1>3, <2>1
<1>5. ASSUME NEW d \in 1 .. Len(flat), NEW k \in 1 .. Len(flat[d])
      PROVE  Has(flat, <<flat[d][k][1], 1>>)
  <2>1. PICK i \in 1 .. L : \E q \in 1 .. Len(bs[i]) : flat[d] = bs[i][q]
    BY <1>2
  <2> DEFINE p == flat[d][k]
  <2>2. Has(bs[i], p)
    BY <2>1 DEF Has
  <2>3. Grown(P, below[i], bs[i], <<n, i>>)
    OBVIOUS
  <2> HIDE DEF p
  <2>4. CASE p = <<n, i>>
    BY <1>4, <2>4 DEF p
  <2>5. CASE Has(below[i], p)
    <3>1. Has(below[i], <<p[1], 1>>)
      <4> DEFINE low == below[i]
      <4>1. Rooted(low) /\ Has(low, p)
        BY <2>5
      <4> HIDE DEF low
      <4>2. Has(low, <<p[1], 1>>)
        <5>1. PICK e \in 1 .. Len(low) : \E m \in 1 .. Len(low[e]) : low[e][m] = p
          BY <4>1 DEF Has
        <5>2. PICK m \in 1 .. Len(low[e]) : low[e][m] = p
          BY <5>1
        <5>3. Has(low, <<low[e][m][1], 1>>)
          BY <4>1 DEF Rooted
        <5> QED
          BY <5>2, <5>3
      <4> QED
        BY <4>2 DEF low
    <3>2. Has(bs[i], <<p[1], 1>>)
      BY <2>3, <3>1, GrownHas
    <3> QED
      BY <1>3, <3>2 DEF p
  <2> QED
    BY <2>2, <2>3, <2>4, <2>5, GrownHas
<1>6. Rooted(flat)
  BY <1>5 DEF Rooted
<1> QED
  BY <1>6 DEF flat

\* A node is planned rooted when its sources are.
LEMMA PlannedRooted ==
  ASSUME NEW query, IsPlan(query), NEW n \in DOMAIN query, NEW f,
         \A i \in 1 .. Len(query[n].src) :
           Ordered(query, f[query[n].src[i]]) /\ Rooted(f[query[n].src[i]])
  PROVE  Rooted(Planned(query, f, n))
<1> DEFINE src == query[n].src
           L == Len(src)
           P == Places(query)
<1>1. L \in Nat /\ n \in Nat /\ (src = <<>> <=> L = 0)
  BY SourcesOf
<1>2. CASE L = 0
  <2> DEFINE o == <<n, 1>>
             ps == << <<o>> >>
  <2>1. Planned(query, f, n) = ps
    BY <1>1, <1>2 DEF Planned
  <2>2. Len(ps) = 1 /\ ps[1] = <<o>> /\ Len(<<o>>) = 1 /\ <<o>>[1] = o /\ o = <<o[1], 1>>
    OBVIOUS
  <2> HIDE DEF ps, o
  <2>3. \A d \in 1 .. Len(ps) : d = 1
    BY <2>2
  <2>4. Has(ps, o)
    <3>1. 1 \in 1 .. Len(ps) /\ 1 \in 1 .. Len(ps[1]) /\ ps[1][1] = o
      BY <2>2
    <3> QED
      BY <3>1 DEF Has
  <2>5. ASSUME NEW d \in 1 .. Len(ps), NEW k \in 1 .. Len(ps[d]) PROVE ps[d][k] = o
    BY <2>2, <2>3
  <2>6. Rooted(ps)
    BY <2>2, <2>4, <2>5 DEF Rooted
  <2> QED
    BY <2>1, <2>6
<1>3. CASE L > 0
  <2>1. PICK bs : Growth(query, n, f, bs)
    BY <1>3, PlannedGrows
  <2> DEFINE low == [i \in 1 .. L |-> f[src[i]]]
             flat == FlattenSeq(bs)
  <2>2. \A i \in 1 .. L : low[i] = f[src[i]] /\ Rooted(low[i])
    OBVIOUS
  <2>3. L \in Nat \ {0} /\ Len(query[n].src) = L /\ P = Places(query)
    BY <1>1, <1>3
  <2>4. Planned(query, f, n) = flat /\ bs \in Seq(Seq(Seq(P))) /\ Len(bs) = L
        /\ \A i \in 1 .. L : Grown(P, f[src[i]], bs[i], <<n, i>>)
    BY <2>1, <2>3 DEF Growth
  <2> HIDE DEF low, L, P
  <2>5. \A i \in 1 .. L : Grown(P, low[i], bs[i], <<n, i>>)
    BY <2>2, <2>4
  <2>6. \A i \in 1 .. L : Rooted(low[i])
    BY <2>2
  <2>7. Rooted(flat)
    BY <2>3, <2>4, <2>5, <2>6, JoinedRooted
  <2> QED
    BY <2>4, <2>7
<1> QED
  BY <1>1, <1>2, <1>3

\* So all nodes are.
LEMMA AllRooted ==
  ASSUME NEW query, IsPlan(query)
  PROVE  \A n \in DOMAIN query : Rooted(planDetail(query)[n])
<1> DEFINE f == planDetail(query)
           L == Len(query)
           B == {j \in 0 .. L - 1 : ~ Rooted(f[L - j])}
<1>1. IsPlanning(query, f, DOMAIN query) /\ L \in Nat \ {0} /\ DOMAIN query = 1 .. L
  BY PlanDetailIs, SomePlanning DEF IsPlan
<1>2. \A n \in DOMAIN query : Ordered(query, f[n])
  BY AllOrdered
<1> HIDE DEF f, L
<1> SUFFICES ASSUME B # {} PROVE FALSE
  <2>1. ASSUME NEW n \in DOMAIN query PROVE L - n \in 0 .. L - 1 /\ L - (L - n) = n
    BY <1>1
  <2>2. ASSUME NEW n \in DOMAIN query PROVE Rooted(f[n])
    BY <2>1
  <2> QED
    BY <2>2 DEF f
<1>3. PICK m \in B : \A j \in B : m <= j
  <2>1. B \in SUBSET Nat
    BY <1>1
  <2> HIDE DEF B
  <2> QED
    BY <2>1, LeastNatural
<1> DEFINE n == L - m
<1>4. n \in 1 .. L /\ ~ Rooted(f[n])
  BY <1>1, <1>3
<1>5. ASSUME NEW k \in n + 1 .. L PROVE Rooted(f[k])
  <2>1. L - k \in 0 .. L - 1 /\ ~ (m <= L - k) /\ L - (L - k) = k
    BY <1>1, <1>3
  <2> QED
    BY <1>3, <2>1
<1> HIDE DEF n, B
<1>6. f[n] = Planned(query, f, n)
  BY <1>1, <1>4 DEF IsPlanning
<1>7. \A i \in 1 .. Len(query[n].src) :
        Ordered(query, f[query[n].src[i]]) /\ Rooted(f[query[n].src[i]])
  <2>1. \A i \in 1 .. Len(query[n].src) : query[n].src[i] \in n + 1 .. L
    BY <1>1, <1>4, SourcesOf DEF L
  <2>2. \A k \in n + 1 .. L : k \in DOMAIN query
    BY <1>1, <1>4
  <2> QED
    BY <1>2, <1>5, <2>1, <2>2
<1> QED
  BY <1>1, <1>4, <1>6, <1>7, PlannedRooted

\* The kinds of nodes and the number of their sources.
LEMMA KindsOf ==
  ASSUME NEW query, IsPlan(query), NEW n \in DOMAIN query
  PROVE  /\ query[n].kind = "VALUES" => Len(query[n].src) = 0
         /\ query[n].kind \in Joins => Len(query[n].src) = 2
         /\ query[n].kind \in {"VALUES", "FILTER", "PROJECT", "EXPAND", "LIMIT", "SORT", "AGG",
                              "UNION", "INNER", "LEFT", "FULL"}
<1> DEFINE k == query[n].kind
           l == Len(query[n].src)
<1>1. \/ k = "VALUES" /\ l = 0
      \/ k \in {"FILTER", "PROJECT", "EXPAND", "LIMIT", "SORT", "AGG"} /\ l = 1
      \/ k = "UNION" /\ l > 0
      \/ k \in Joins /\ l = 2
  BY DEF IsPlan
<1> HIDE DEF k, l
<1>2. /\ k = "VALUES" => l = 0
      /\ k \in Joins => l = 2
      /\ k \in {"VALUES", "FILTER", "PROJECT", "EXPAND", "LIMIT", "SORT", "AGG",
                "UNION", "INNER", "LEFT", "FULL"}
  BY <1>1 DEF Joins
<1> QED
  BY <1>2 DEF k, l

\* In the order in which OmniTask::Next polls them, every pipeline comes after
\* those that its operators wait for.
InPollingOrder(query, ds) ==
  /\ ds \in Seq(Seq(Places(query))) /\ Len(ds) > 0
  /\ \A d \in 1 .. Len(ds) : Len(ds[d]) > 0
  /\ \A d \in 1 .. Len(ds) : \A k \in 2 .. Len(ds[d]) : Len(query[ds[d][k][1]].src) > 0
  /\ \A d \in 1 .. Len(ds) : \A k \in 1 .. Len(ds[d]) : ds[d][k][2] = 1 =>
       \A i \in 2 .. Len(query[ds[d][k][1]].src) :
         \E e \in 1 .. d - 1 : ds[e][Len(ds[e])] = <<ds[d][k][1], i>>

\* Reverse puts position b at n - b + 1.
LEMMA Mirrored ==
  ASSUME NEW n \in Nat, NEW d \in 1 .. n, NEW b \in (n - d) + 2 .. n
  PROVE  (n - b) + 1 \in 1 .. d - 1 /\ (n - b) + 1 \in 1 .. n /\ (n - ((n - b) + 1)) + 1 = b
  OBVIOUS

\* OmniTask polls the pipelines in the reverse of that order, hence what an operator
\* waits for is built by a pipeline polled before its own.
LEMMA DriversOrdered ==
  ASSUME NEW query, IsPlan(query)
  PROVE  InPollingOrder(query, drivers(query))
<1> DEFINE ds == drivers(query)
           ps == planDetail(query)[1]
           n  == Len(ps)
<1>1. Ordered(query, ps)
  <2>1. 1 \in DOMAIN query
    BY DEF IsPlan
  <2> QED
    BY <2>1, AllOrdered
<1>2. ds = Reverse(ps)
  BY DEF drivers
<1> HIDE DEF ds, ps
<1>3. ps \in Seq(Seq(Places(query))) /\ n \in Nat \ {0}
  BY <1>1, LenProperties DEF Ordered
<1>4. ds = [i \in 1 .. n |-> ps[(n - i) + 1]]
  BY <1>2 DEF Reverse
<1> HIDE DEF n
<1>5. \A d \in 1 .. n : (n - d) + 1 \in 1 .. n
  BY <1>3
<1>6. ds \in Seq(Seq(Places(query))) /\ Len(ds) = n /\ \A d \in 1 .. n : ds[d] = ps[(n - d) + 1]
  <2> DEFINE S == Seq(Places(query))
  <2>1. ps \in Seq(S) /\ n = Len(ps)
    BY <1>3 DEF n
  <2> HIDE DEF S
  <2>2. \A d \in 1 .. n : ps[(n - d) + 1] \in S
    BY <1>5, <2>1, ElementOfSeq
  <2>3. ds \in Seq(S) /\ Len(ds) = n /\ \A d \in 1 .. n : ds[d] = ps[(n - d) + 1]
    BY <1>3, <1>4, <2>2
  <2> QED
    BY <2>3 DEF S
<1>7. ASSUME NEW d \in 1 .. n
      PROVE  /\ Len(ds[d]) > 0
             /\ \A k \in 2 .. Len(ds[d]) : Len(query[ds[d][k][1]].src) > 0
             /\ \A k \in 1 .. Len(ds[d]) : ds[d][k][2] = 1 =>
                  \A i \in 2 .. Len(query[ds[d][k][1]].src) :
                    \E e \in 1 .. d - 1 : ds[e][Len(ds[e])] = <<ds[d][k][1], i>>
  <2> DEFINE c == (n - d) + 1
  <2>1. ds[d] = ps[c] /\ c \in 1 .. n
    BY <1>5, <1>6
  <2>2. Len(ps[c]) > 0 /\ \A k \in 2 .. Len(ps[c]) : Len(query[ps[c][k][1]].src) > 0
    BY <1>1, <2>1 DEF Ordered, n
  <2>3. ASSUME NEW k \in 1 .. Len(ds[d]), ds[d][k][2] = 1,
               NEW i \in 2 .. Len(query[ds[d][k][1]].src)
        PROVE  \E e \in 1 .. d - 1 : ds[e][Len(ds[e])] = <<ds[d][k][1], i>>
    <3> HIDE DEF c
    <3>1. PICK b \in c + 1 .. n : ps[b][Len(ps[b])] = <<ds[d][k][1], i>>
      <4>1. \A j \in 1 .. Len(ps[c]) : ps[c][j][2] = 1 =>
              \A h \in 2 .. Len(query[ps[c][j][1]].src) :
                \E b \in c + 1 .. n : ps[b][Len(ps[b])] = <<ps[c][j][1], h>>
        BY <1>1, <2>1 DEF Ordered, n
      <4>2. k \in 1 .. Len(ps[c]) /\ ps[c][k][2] = 1 /\ ds[d][k] = ps[c][k]
        BY <2>1, <2>3
      <4>3. i \in 2 .. Len(query[ps[c][k][1]].src)
        BY <4>2
      <4>4. \E b \in c + 1 .. n : ps[b][Len(ps[b])] = <<ps[c][k][1], i>>
        BY <4>1, <4>2, <4>3
      <4> QED
        BY <4>2, <4>4
    <3>2. (n - b) + 1 \in 1 .. d - 1 /\ (n - b) + 1 \in 1 .. n /\ (n - ((n - b) + 1)) + 1 = b
      <4>1. b \in (n - d) + 2 .. n
        BY <1>3, <3>1 DEF c
      <4> QED
        BY <1>3, <4>1, Mirrored
    <3>3. ds[(n - b) + 1] = ps[b]
      BY <1>6, <3>2
    <3> QED
      BY <3>1, <3>2, <3>3
  <2> QED
    BY <2>1, <2>2, <2>3
<1>8. n > 0
  BY <1>3
<1>9. InPollingOrder(query, ds)
  BY <1>6, <1>7, <1>8 DEF InPollingOrder
<1> QED
  BY <1>9 DEF ds

\* Hence a builder's node has its own operator in the plan.
LEMMA DriversRooted ==
  ASSUME NEW query, IsPlan(query), NEW o \in OpsOf(drivers(query))
  PROVE  <<o[1], 1>> \in OpsOf(drivers(query))
<1> DEFINE ds == drivers(query)
           ps == planDetail(query)[1]
           n  == Len(ps)
<1>1. Rooted(ps) /\ Ordered(query, ps)
  <2>1. 1 \in DOMAIN query
    BY DEF IsPlan
  <2> QED
    BY <2>1, AllOrdered, AllRooted
<1>2. ds = Reverse(ps)
  BY DEF drivers
<1> HIDE DEF ds, ps
<1>3. ps \in Seq(Seq(Places(query))) /\ n \in Nat \ {0}
  BY <1>1, LenProperties DEF Ordered
<1>4. ds = [i \in 1 .. n |-> ps[(n - i) + 1]]
  BY <1>2 DEF Reverse
<1> HIDE DEF n
<1>5. \A d \in 1 .. n : (n - d) + 1 \in 1 .. n /\ (n - ((n - d) + 1)) + 1 = d
  BY <1>3
<1>6. DOMAIN ds = 1 .. n /\ \A d \in 1 .. n : ds[(n - d) + 1] = ps[d] /\ ds[d] = ps[(n - d) + 1]
  BY <1>4, <1>5
<1>7. \A d \in 1 .. n : DOMAIN ps[d] = 1 .. Len(ps[d])
  <2> DEFINE S == Seq(Places(query))
  <2>1. ps \in Seq(S) /\ n = Len(ps)
    BY <1>3 DEF n
  <2>2. \A q \in S : DOMAIN q = 1 .. Len(q)
    BY LenProperties
  <2> HIDE DEF S
  <2> QED
    BY <2>1, <2>2, ElementOfSeq
<1>8. ASSUME NEW p, Has(ps, p) PROVE p \in OpsOf(ds)
  <2>1. PICK d \in 1 .. n : \E k \in 1 .. Len(ps[d]) : ps[d][k] = p
    BY <1>8 DEF Has, n
  <2>2. p \in ToSet(ps[d])
    BY <1>7, <2>1 DEF ToSet
  <2>3. p \in ToSet(ds[(n - d) + 1]) /\ (n - d) + 1 \in DOMAIN ds
    BY <1>5, <1>6, <2>2
  <2> QED
    BY <2>3 DEF OpsOf
<1>9. PICK d \in DOMAIN ds : o \in ToSet(ds[d])
  BY DEF OpsOf, ds
<1>10. PICK k \in 1 .. Len(ps[(n - d) + 1]) : ps[(n - d) + 1][k] = o
  BY <1>5, <1>6, <1>7, <1>9 DEF ToSet
<1>11. Has(ps, <<o[1], 1>>)
  BY <1>1, <1>5, <1>6, <1>9, <1>10 DEF Rooted, n
<1> QED
  BY <1>8, <1>11 DEF ds

-----------------------------------------------------------------------------
(* What the operators' handlers may do to a store.                         *)

\* The fields of an operator's record.
Fields == {"fin", "noMore", "at", "done", "held", "left", "skip", "sources"}

\* h is a sequence, of whatever.
Listed(h) == h \in Seq(ToSet(h))

\* An operator's record and a hash table.
IsOp(r) == DOMAIN r = Fields /\ r.fin \in BOOLEAN /\ r.noMore \in BOOLEAN /\ r.sources \in Int

IsTable(t) == DOMAIN t = {"ready", "rows", "visited"} /\ t.ready \in BOOLEAN

\* A store of a plan.
IsStore(s) ==
  /\ DOMAIN s = {"plan", "drivers", "op", "table", "made", "live", "freedTwice", "overwritten"}
  /\ DOMAIN s.op = OpsOf(s.drivers)
  /\ \A o \in DOMAIN s.op : IsOp(s.op[o]) /\ (Kind(s.plan, o) # "VALUES" => Listed(s.op[o].held))
  /\ DOMAIN s.table = DOMAIN s.plan
  /\ \A n \in DOMAIN s.table : IsTable(s.table[n])
  /\ IsPlan(s.plan) /\ s.drivers = drivers(s.plan)

\* All that a handler may touch of a store when it does not touch the operators.
SameOps(s, t) ==
  /\ IsStore(t) /\ t.plan = s.plan /\ t.op = s.op /\ t.table = s.table

\* Freeing a batch leaves the operators alone.
LEMMA FreeSame ==
  ASSUME NEW s, IsStore(s), NEW b PROVE SameOps(s, Free(s, b))
  BY DEF IsStore, SameOps, Free

\* Allocating one does, too.
LEMMA KeepSame ==
  ASSUME NEW s, IsStore(s), NEW b PROVE SameOps(s, Keep(s, b))
  BY DEF IsStore, SameOps, Keep

\* An operator of a store is one of its plan.
LEMMA KindIs ==
  ASSUME NEW s, IsStore(s), NEW o \in DOMAIN s.op
  PROVE  /\ o \in Places(s.plan) /\ o[1] \in DOMAIN s.plan /\ o[1] \in DOMAIN s.table
         /\ Kind(s.plan, o) \in {"VALUES", "FILTER", "PROJECT", "EXPAND", "LIMIT", "SORT", "AGG",
                                 "UNION", "INNER", "LEFT", "FULL", "UNION_BUILD", "HASH_BUILD"}
<1>1. s.drivers \in Seq(Seq(Places(s.plan)))
  BY DriversOrdered DEF IsStore, InPollingOrder
<1>2. o \in Places(s.plan)
  <2>1. PICK d \in DOMAIN s.drivers : o \in ToSet(s.drivers[d])
    BY DEF IsStore, OpsOf
  <2> DEFINE P == Places(s.plan)
             ds == s.drivers
  <2>2. ds \in Seq(Seq(P)) /\ d \in DOMAIN ds /\ o \in ToSet(ds[d])
    BY <1>1, <2>1
  <2> HIDE DEF P, ds
  <2>3. ds[d] \in Seq(P)
    BY <2>2
  <2>4. o \in P
    BY <2>2, <2>3 DEF ToSet
  <2> QED
    BY <2>4 DEF P
<1>3. o[1] \in DOMAIN s.plan
  BY <1>2 DEF Places
<1>4. s.plan[o[1]].kind \in {"VALUES", "FILTER", "PROJECT", "EXPAND", "LIMIT", "SORT", "AGG",
                             "UNION", "INNER", "LEFT", "FULL"}
  BY <1>3 DEF IsStore, IsPlan, Joins
<1> QED
  BY <1>2, <1>3, <1>4 DEF Kind, IsStore

\* FreeAll folds over the positions of its sequence, the greatest last.  A step of
\* it, and the function it defines on all subsets of T.
FreeStep(s, h, g, T) == IF T = {} THEN s ELSE Free(g[T \ {Max(T)}], h[Max(T)])

IsFreeing(s, h, g, T) == g = [t \in SUBSET T |-> FreeStep(s, h, g, t)]

\* FreeAll is that fold.
LEMMA FreeAllIsFreeing ==
  ASSUME NEW s, NEW h
  PROVE  FreeAll(s, h) = (CHOOSE g : IsFreeing(s, h, g, DOMAIN h))[DOMAIN h]
  BY DEF FreeAll, FoldLeft, MapThenFoldSet, IsFreeing, FreeStep

\* Two such functions agree where both are defined.
LEMMA OneFreeing ==
  ASSUME NEW s, NEW h, NEW n, NEW T, Upto(n, T), NEW U,
         NEW f, NEW g, IsFreeing(s, h, f, T), IsFreeing(s, h, g, U),
         NEW t \in SUBSET T, t \in SUBSET U
  PROVE  f[t] = g[t]
<1> DEFINE B == {r \in SUBSET t : f[r] # g[r]}
<1> SUFFICES ASSUME B # {} PROVE FALSE
  OBVIOUS
<1>1. IsFiniteSet(t)
  <2>1. IsFiniteSet(1 .. n) /\ t \in SUBSET (1 .. n)
    BY FS_Interval DEF Upto
  <2> QED
    BY <2>1, FS_Subset
<1>2. PICK m \in B : \A r \in B : r \subseteq m => r = m
  <2>1. B \in SUBSET SUBSET t
    OBVIOUS
  <2> HIDE DEF B
  <2> QED
    BY <1>1, <2>1, SmallestSubset
<1>3. f[m] = FreeStep(s, h, f, m) /\ g[m] = FreeStep(s, h, g, m)
  BY DEF IsFreeing
<1>4. CASE m = {}
  BY <1>3, <1>4 DEF FreeStep
<1>5. CASE m # {}
  <2>1. Max(m) \in m
    BY <1>5, GreatestOf DEF Upto
  <2>2. f[m \ {Max(m)}] = g[m \ {Max(m)}]
    BY <1>2, <2>1
  <2> QED
    BY <1>3, <1>5, <2>2 DEF FreeStep
<1> QED
  BY <1>4, <1>5

\* There is one for every number of batches.
LEMMA SomeFreeing ==
  ASSUME NEW s, NEW h, NEW n \in Nat PROVE \E g : IsFreeing(s, h, g, 1 .. n)
<1> DEFINE N == 1 .. n
           B == {T \in SUBSET N : ~ \E g : IsFreeing(s, h, g, T)}
           G(T) == CHOOSE g : IsFreeing(s, h, g, T)
<1> SUFFICES ASSUME B # {} PROVE FALSE
  OBVIOUS
<1>1. PICK m \in B : \A r \in B : r \subseteq m => r = m
  <2>1. B \in SUBSET SUBSET N /\ IsFiniteSet(N)
    BY FS_Interval
  <2> HIDE DEF B, N
  <2> QED
    BY <2>1, SmallestSubset
<1> DEFINE rest(t) == t \ {Max(t)}
           val == [t \in SUBSET m |->
                     IF t # m THEN G(t)[t]
                     ELSE IF t = {} THEN s ELSE Free(G(rest(t))[rest(t)], h[Max(t)])]
<1>2. ASSUME NEW t \in SUBSET m, t # m PROVE IsFreeing(s, h, G(t), t)
  BY <1>1, <1>2
<1>3. ASSUME NEW t \in SUBSET m PROVE val[t] = FreeStep(s, h, val, t)
  <2>1. CASE t = {}
    <3>1. CASE t # m
      <4>1. val[t] = G(t)[t]
        BY <3>1
      <4>2. IsFreeing(s, h, G(t), t)
        BY <3>1, <1>2
      <4> HIDE DEF G
      <4>3. G(t)[t] = FreeStep(s, h, G(t), t)
        BY <4>2 DEF IsFreeing
      <4> QED
        BY <4>1, <4>3, <2>1 DEF FreeStep
    <3> QED
      BY <3>1, <2>1 DEF FreeStep
  <2>2. CASE t # {}
    <3>0. t \in SUBSET N /\ m \in SUBSET N
      BY <1>1
    <3>1. Max(t) \in t /\ rest(t) \in SUBSET m /\ rest(t) # m /\ rest(t) \in SUBSET t
      BY <2>2, <3>0, GreatestOf
    <3>2. val[rest(t)] = G(rest(t))[rest(t)]
      BY <3>1
    <3>3. CASE t = m
      BY <3>2, <3>3, <2>2 DEF FreeStep
    <3>4. CASE t # m
      <4>1. IsFreeing(s, h, G(t), t) /\ IsFreeing(s, h, G(rest(t)), rest(t))
        BY <3>1, <3>4, <1>2
      <4>2. val[t] = G(t)[t]
        BY <3>4
      <4> HIDE DEF G, rest
      <4>3. G(t)[rest(t)] = G(rest(t))[rest(t)]
        <5> DEFINE r == rest(t)
                   f1 == G(t)
                   f2 == G(r)
        <5>1. IsFreeing(s, h, f1, t) /\ IsFreeing(s, h, f2, r) /\ Upto(n, t)
              /\ r \in SUBSET t /\ r \in SUBSET r
          BY <3>0, <3>1, <4>1 DEF Upto
        <5> HIDE DEF r, f1, f2, N
        <5>2. f1[r] = f2[r]
          BY <5>1, OneFreeing
        <5> QED
          BY <5>2 DEF r, f1, f2
      <4>4. G(t)[t] = FreeStep(s, h, G(t), t)
        BY <4>1 DEF IsFreeing
      <4> QED
        BY <3>2, <2>2, <4>2, <4>3, <4>4 DEF FreeStep, rest
    <3> QED
      BY <3>3, <3>4
  <2> QED
    BY <2>1, <2>2
<1> HIDE DEF G
<1>4. val = [t \in SUBSET m |-> FreeStep(s, h, val, t)]
  <2>1. val = [t \in SUBSET m |-> val[t]]
    OBVIOUS
  <2> HIDE DEF val
  <2> QED
    BY <2>1, <1>3
<1> HIDE DEF val
<1>5. IsFreeing(s, h, val, m)
  BY <1>4 DEF IsFreeing
<1> QED
  BY <1>1, <1>5

\* f goes through the stores while the batches of h are freed one by one.
FreesEach(s, h, f) ==
  /\ DOMAIN f = 0 .. Len(h) /\ f[0] = s
  /\ \A i \in 1 .. Len(h) : f[i] = Free(f[i - 1], h[i])

\* FreeAll frees the batches of a sequence one after the other.
LEMMA FreeAllFrees ==
  ASSUME NEW s, NEW h, Len(h) \in Nat, DOMAIN h = 1 .. Len(h)
  PROVE  \E f : FreesEach(s, h, f) /\ FreeAll(s, h) = f[Len(h)]
<1> DEFINE n == Len(h)
           g == CHOOSE g : IsFreeing(s, h, g, DOMAIN h)
           f == [i \in 0 .. n |-> g[1 .. i]]
<1>1. IsFreeing(s, h, g, 1 .. n) /\ FreeAll(s, h) = g[1 .. n]
  BY SomeFreeing, FreeAllIsFreeing
<1> HIDE DEF g
<1>2. n \in Nat
  OBVIOUS
<1> HIDE DEF n
<1>3. ASSUME NEW i \in 0 .. n
      PROVE  g[1 .. i] = FreeStep(s, h, g, 1 .. i)
  <2>1. (1 .. i) \in SUBSET (1 .. n)
    BY <1>2
  <2> QED
    BY <1>1, <2>1 DEF IsFreeing
<1>4. f[0] = s
  <2>1. 1 .. 0 = {} /\ 0 \in 0 .. n
    BY <1>2
  <2>2. g[1 .. 0] = s
    BY <1>3, <2>1 DEF FreeStep
  <2> QED
    BY <2>1, <2>2
<1>5. ASSUME NEW i \in 1 .. n PROVE f[i] = Free(f[i - 1], h[i])
  <2>1. /\ (1 .. i) \in SUBSET (1 .. n) /\ 1 .. i # {} /\ i \in 1 .. i
        /\ i \in 0 .. n /\ i - 1 \in 0 .. n
    BY <1>2, SMTT(30)
  <2>2. Max(1 .. i) = i
    <3>1. Max(1 .. i) \in 1 .. i /\ i <= Max(1 .. i)
      BY <1>2, <2>1, GreatestOf
    <3> QED
      BY <1>2, <3>1
  <2>3. (1 .. i) \ {i} = 1 .. (i - 1)
    BY <1>2
  <2>4. g[1 .. i] = Free(g[1 .. (i - 1)], h[i])
    BY <1>3, <2>1, <2>2, <2>3 DEF FreeStep
  <2> QED
    BY <2>1, <2>4
<1>6. f[n] = g[1 .. n] /\ DOMAIN f = 0 .. n
  BY <1>2
<1> HIDE DEF f
<1>7. FreesEach(s, h, f)
  BY <1>4, <1>5, <1>6 DEF FreesEach, n
<1> QED
  BY <1>1, <1>6, <1>7 DEF n

\* So it leaves the operators alone.
LEMMA FreeAllSame ==
  ASSUME NEW s, IsStore(s), NEW h, Len(h) \in Nat, DOMAIN h = 1 .. Len(h)
  PROVE  SameOps(s, FreeAll(s, h))
<1> DEFINE n == Len(h)
<1>1. PICK f : FreesEach(s, h, f) /\ FreeAll(s, h) = f[n]
  BY FreeAllFrees
<1> DEFINE B == {i \in 0 .. n : ~ SameOps(s, f[i])}
<1> SUFFICES ASSUME B # {} PROVE FALSE
  BY <1>1
<1>2. PICK m \in B : \A i \in B : m <= i
  <2>1. B \in SUBSET Nat
    OBVIOUS
  <2> HIDE DEF B
  <2> QED
    BY <2>1, LeastNatural
<1>3. m # 0
  <2>1. SameOps(s, s)
    BY DEF SameOps
  <2> QED
    BY <1>1, <1>2, <2>1 DEF FreesEach
<1>4. m - 1 \in 0 .. n /\ m \in 1 .. n /\ m - 1 \notin B
  BY <1>2, <1>3
<1>5. SameOps(s, f[m - 1]) /\ ~ SameOps(s, f[m])
  BY <1>2, <1>4
<1>6. f[m] = Free(f[m - 1], h[m])
  BY <1>1, <1>4 DEF FreesEach
<1>7. SameOps(f[m - 1], f[m])
  BY <1>5, <1>6, FreeSame DEF SameOps
<1> QED
  BY <1>5, <1>7 DEF SameOps

\* What GetOutput(s, o) = [store |-> t, ...] may do.
Emits(s, t, o) ==
  /\ IsStore(t) /\ t.plan = s.plan
  /\ \A p \in DOMAIN s.op \ {o} : t.op[p] = s.op[p]
  /\ t.op[o].noMore = s.op[o].noMore /\ t.op[o].sources = s.op[o].sources
  /\ s.op[o].fin => t.op[o].fin
  /\ t.op[o].held # <<>> => s.op[o].held # <<>>
  /\ \A n \in DOMAIN s.table : s.table[n].ready => t.table[n].ready
  /\ t.op[o].fin /\ ~s.op[o].fin =>
       /\ Kind(s.plan, o) = "UNION_BUILD" => s.op[o].noMore
       /\ Kind(s.plan, o) = "HASH_BUILD" => t.table[o[1]].ready

\* Sequences an operator may hold.
LEMMA ListedFacts ==
  /\ Listed(<<>>) /\ \A b : Listed(<<b>>)
  /\ \A h, b : Listed(h) => Listed(Append(h, b))
<1>1. Listed(<<>>)
  BY DEF Listed
<1>2. ASSUME NEW b PROVE Listed(<<b>>)
  <2>1. ToSet(<<b>>) = {b}
    BY DEF ToSet
  <2> QED
    BY <2>1 DEF Listed
<1>3. ASSUME NEW h, NEW b, Listed(h) PROVE Listed(Append(h, b))
  <2> DEFINE S == ToSet(h) \union {b}
             g == Append(h, b)
  <2>1. h \in Seq(ToSet(h))
    BY <1>3 DEF Listed
  <2>2. h \in Seq(S) /\ b \in S
    <3> DEFINE R == ToSet(h)
    <3>1. h \in Seq(R) /\ R \subseteq S
      BY <2>1
    <3> HIDE DEF R, S
    <3>2. h \in Seq(S)
      BY <3>1
    <3> QED
      BY <3>2 DEF S
  <2> HIDE DEF S
  <2>3. g \in Seq(S) /\ Len(g) \in Nat /\ DOMAIN g = 1 .. Len(g)
    BY <2>2
  <2> HIDE DEF g
  <2>4. g \in Seq(ToSet(g))
    BY <2>3 DEF ToSet
  <2> QED
    BY <2>4 DEF Listed, g
<1> QED
  BY <1>1, <1>2, <1>3

\* The record of o may become r.
MayBecome(s, o, r) ==
  /\ IsOp(r) /\ (Kind(s.plan, o) # "VALUES" => Listed(r.held))
  /\ r.noMore = s.op[o].noMore /\ r.sources = s.op[o].sources
  /\ s.op[o].fin => r.fin
  /\ r.held # <<>> => s.op[o].held # <<>>
  /\ r.fin /\ ~s.op[o].fin =>
       /\ Kind(s.plan, o) = "UNION_BUILD" => s.op[o].noMore
       /\ Kind(s.plan, o) = "HASH_BUILD" => s.table[o[1]].ready

\* A store with another record for operator o.
LEMMA Put ==
  ASSUME NEW s, IsStore(s), NEW o \in DOMAIN s.op, NEW r, IsOp(r),
         Kind(s.plan, o) # "VALUES" => Listed(r.held)
  PROVE  LET t == [s EXCEPT !.op[o] = r]
         IN  /\ IsStore(t) /\ t.plan = s.plan /\ t.table = s.table
             /\ t.op = [s.op EXCEPT ![o] = r] /\ t.op[o] = r
             /\ \A p \in DOMAIN s.op \ {o} : t.op[p] = s.op[p]
<1> DEFINE t == [s EXCEPT !.op[o] = r]
<1>1. /\ DOMAIN t = DOMAIN s /\ t.plan = s.plan /\ t.table = s.table /\ t.drivers = s.drivers
      /\ t.op = [s.op EXCEPT ![o] = r]
  BY DEF IsStore
<1> HIDE DEF t
<1>2. t.op[o] = r /\ DOMAIN t.op = DOMAIN s.op /\ \A p \in DOMAIN s.op \ {o} : t.op[p] = s.op[p]
  BY <1>1
<1>3. IsStore(t)
  BY <1>1, <1>2 DEF IsStore
<1> QED
  BY <1>1, <1>2, <1>3 DEF t

\* Such a step may be one of GetOutput.
LEMMA PutEmits ==
  ASSUME NEW s, IsStore(s), NEW o \in DOMAIN s.op, NEW r, MayBecome(s, o, r)
  PROVE  Emits(s, [s EXCEPT !.op[o] = r], o)
<1> DEFINE t == [s EXCEPT !.op[o] = r]
<1>1. /\ IsStore(t) /\ t.plan = s.plan /\ t.table = s.table /\ t.op[o] = r
      /\ \A p \in DOMAIN s.op \ {o} : t.op[p] = s.op[p]
  BY Put DEF MayBecome
<1> HIDE DEF t
<1>2. Emits(s, t, o)
  BY <1>1 DEF Emits, MayBecome
<1> QED
  BY <1>2 DEF t

\* An operator may finish, a builder when it has built what it is to build.
LEMMA FinishEmits ==
  ASSUME NEW s, IsStore(s), NEW o \in DOMAIN s.op, NEW c,
         c => /\ Kind(s.plan, o) = "UNION_BUILD" => s.op[o].noMore
              /\ Kind(s.plan, o) = "HASH_BUILD" => s.table[o[1]].ready
  PROVE  /\ Emits(s, s, o) /\ Emits(s, FinishIf(c, s, o), o)
         /\ c => Emits(s, Finish(s, o), o)
<1> DEFINE r == [s.op[o] EXCEPT !.fin = TRUE]
<1>1. IsOp(s.op[o]) /\ (Kind(s.plan, o) # "VALUES" => Listed(s.op[o].held))
  BY DEF IsStore
<1>2. Emits(s, s, o)
  BY DEF Emits
<1>3. c => MayBecome(s, o, r)
  BY <1>1 DEF MayBecome, IsOp, Fields
<1>4. c => Emits(s, [s EXCEPT !.op[o] = r], o)
  BY <1>3, PutEmits
<1> QED
  BY <1>2, <1>4 DEF FinishIf, Finish

\* What does not touch the operators may be done before or after.
LEMMA EmitsSame ==
  ASSUME NEW s, NEW t, NEW u, NEW o
  PROVE  /\ SameOps(s, t) /\ Emits(t, u, o) => Emits(s, u, o)
         /\ Emits(s, t, o) /\ SameOps(t, u) => Emits(s, u, o)
  BY DEF SameOps, Emits

\* Two steps of the same operator.
LEMMA EmitsTwice ==
  ASSUME NEW s, IsStore(s), NEW t, NEW u, NEW o \in DOMAIN s.op, Emits(s, t, o), Emits(t, u, o)
  PROVE  Emits(s, u, o)
<1>1. DOMAIN t.op = DOMAIN s.op /\ DOMAIN t.table = DOMAIN s.table /\ o[1] \in DOMAIN s.table
  <2>1. t.plan = s.plan /\ IsStore(t)
    BY DEF Emits
  <2> QED
    BY <2>1, KindIs DEF IsStore
<1> QED
  BY <1>1 DEF Emits

\* GetOutput of a Filter, a Projection and a Limit does only what Emits allows.
LEMMA SlotEmits ==
  ASSUME NEW s, IsStore(s), NEW o \in DOMAIN s.op,
         Kind(s.plan, o) \in {"FILTER", "PROJECT", "LIMIT"}
  PROVE  Emits(s, SlotGetOutput(s, o).store, o) /\ Emits(s, LimitGetOutput(s, o).store, o)
<1> DEFINE r == [s.op[o] EXCEPT !.held = <<>>]
<1>1. MayBecome(s, o, r)
  BY ListedFacts DEF MayBecome, IsOp, Fields, IsStore
<1>2. Emits(s, [s EXCEPT !.op[o] = r], o)
  BY <1>1, PutEmits
<1>3. \A c : Emits(s, FinishIf(c, s, o), o)
  BY FinishEmits
<1> QED
  BY <1>2, <1>3 DEF SlotGetOutput, LimitGetOutput, Null, HandOut

\* What leaves the operators alone leaves the kind of each alone.
LEMMA SameKind ==
  ASSUME NEW s, IsStore(s), NEW o \in DOMAIN s.op, NEW t, SameOps(s, t)
  PROVE  IsStore(t) /\ o \in DOMAIN t.op /\ t.op[o] = s.op[o] /\ t.plan = s.plan
         /\ t.table = s.table /\ IsOp(t.op[o])
  BY DEF SameOps, IsStore

\* GetOutput of a ValueStream does only what Emits allows.
LEMMA ValuesEmits ==
  ASSUME NEW s, IsStore(s), NEW o \in DOMAIN s.op, Kind(s.plan, o) = "VALUES"
  PROVE  Emits(s, ValuesGetOutput(s, o).store, o)
<1> DEFINE made == New(s, s.op[o].held[1])
           s1   == Keep(s, made)
           t    == ValuesGetOutput(s, o).store
<1>1. CASE s.op[o].done
  <2>1. t = Finish(s, o)
    BY <1>1 DEF ValuesGetOutput, Null
  <2>2. Emits(s, Finish(s, o), o)
    BY FinishEmits
  <2> QED
    BY <2>1, <2>2
<1>2. CASE ~s.op[o].done /\ s.op[o].held = <<>>
  <2> DEFINE r == [s.op[o] EXCEPT !.done = TRUE]
  <2>1. t = [s EXCEPT !.op[o] = r]
    BY <1>2 DEF ValuesGetOutput, Null
  <2>2. MayBecome(s, o, r)
    BY DEF MayBecome, IsOp, Fields, IsStore
  <2> HIDE DEF r
  <2> QED
    BY <2>1, <2>2, PutEmits
<1>3. CASE ~s.op[o].done /\ s.op[o].held # <<>>
  <2> DEFINE r == [s1.op[o] EXCEPT !.held = Tail(@)]
  <2>1. t = [s1 EXCEPT !.op[o] = r]
    BY <1>3 DEF ValuesGetOutput, HandOut
  <2>2. SameOps(s, s1)
    BY KeepSame
  <2> HIDE DEF t, s1
  <2>3. IsStore(s1) /\ o \in DOMAIN s1.op /\ s1.op[o] = s.op[o] /\ s1.plan = s.plan /\ IsOp(s.op[o])
    BY <2>2, SameKind
  <2>4. MayBecome(s1, o, r)
    BY <2>3, <1>3 DEF MayBecome, IsOp, Fields
  <2> HIDE DEF r
  <2>5. Emits(s, t, o)
    BY <2>1, <2>2, <2>3, <2>4, PutEmits, EmitsSame
  <2> QED
    BY <2>5 DEF t
<1> QED
  BY <1>1, <1>2, <1>3

\* GetOutput of an Expand does only what Emits allows.
LEMMA ExpandEmits ==
  ASSUME NEW s, IsStore(s), NEW o \in DOMAIN s.op, Kind(s.plan, o) = "EXPAND"
  PROVE  Emits(s, ExpandGetOutput(s, o).store, o)
<1> DEFINE me == s.op[o]
           batch == me.held[1]
           made == New(s, [i \in DOMAIN batch.rows |-> Append(batch.rows[i], -me.at)])
           last == me.at + 1 = Projections
           s0   == Keep(s, made)
           r    == [s0.op[o] EXCEPT !.at = IF last THEN 0 ELSE @ + 1,
                                    !.held = IF last THEN <<>> ELSE @]
           s1   == [s0 EXCEPT !.op[o] = r]
           s2   == [s0 EXCEPT !.op[o].at = IF last THEN 0 ELSE @ + 1,
                              !.op[o].held = IF last THEN <<>> ELSE @]
           t    == ExpandGetOutput(s, o).store
<1>1. CASE me.held = <<>>
  <2>1. t = FinishIf(me.noMore, s, o)
    BY <1>1 DEF ExpandGetOutput, Null
  <2> QED
    BY <2>1, FinishEmits
<1>2. CASE me.held # <<>>
  <2>0. t = IF last THEN Free(s2, batch) ELSE s2
    BY <1>2 DEF ExpandGetOutput, HandOut
  <2>1. t = IF last THEN Free(s1, batch) ELSE s1
    <3> HIDE DEF s0, t, last, batch
    <3>1. s2 = s1
      OBVIOUS
    <3> HIDE DEF s1, s2
    <3> QED
      BY <2>0, <3>1
  <2>2. SameOps(s, s0)
    BY KeepSame
  <2> HIDE DEF t, s0, last, batch
  <2>3. IsStore(s0) /\ o \in DOMAIN s0.op /\ s0.op[o] = me /\ s0.plan = s.plan /\ IsOp(me)
        /\ Listed(me.held)
    BY <2>2, SameKind DEF IsStore
  <2>4. MayBecome(s0, o, r)
    BY <2>3, ListedFacts DEF MayBecome, IsOp, Fields
  <2> HIDE DEF r
  <2>5. Emits(s, s1, o)
    BY <2>2, <2>3, <2>4, PutEmits, EmitsSame
  <2> HIDE DEF s1
  <2>6. Emits(s, Free(s1, batch), o)
    <3>1. SameOps(s1, Free(s1, batch))
      BY <2>5, FreeSame DEF Emits
    <3> QED
      BY <2>5, <3>1, EmitsSame
  <2>7. Emits(s, t, o)
    BY <2>1, <2>5, <2>6
  <2> QED
    BY <2>7 DEF t
<1> QED
  BY <1>1, <1>2

\* GetOutput of a Union does only what Emits allows.
LEMMA UnionEmits ==
  ASSUME NEW s, IsStore(s), NEW o \in DOMAIN s.op, Kind(s.plan, o) = "UNION"
  PROVE  Emits(s, UnionGetOutput(s, o).store, o)
<1> DEFINE me    == s.op[o]
           r0    == [me EXCEPT !.held = <<>>, !.at = 0]
           clear == [s EXCEPT !.op[o] = r0]
           r     == [me EXCEPT !.at = @ + 1]
           t     == UnionGetOutput(s, o).store
<1>1. t \in {FinishIf(me.noMore, clear, o), [s EXCEPT !.op[o] = r]}
  BY DEF UnionGetOutput, Null, HandOut
<1>2. MayBecome(s, o, r0) /\ MayBecome(s, o, r)
  BY ListedFacts DEF MayBecome, IsOp, Fields, IsStore
<1> HIDE DEF t, r0, r
<1>3. Emits(s, clear, o) /\ Emits(s, [s EXCEPT !.op[o] = r], o)
  BY <1>2, PutEmits
<1> HIDE DEF clear
<1>4. IsStore(clear) /\ o \in DOMAIN clear.op /\ clear.plan = s.plan
  BY <1>3 DEF Emits, IsStore
<1>5. Emits(clear, FinishIf(me.noMore, clear, o), o)
  BY <1>4, FinishEmits
<1>6. Emits(s, FinishIf(me.noMore, clear, o), o)
  BY <1>3, <1>5, EmitsTwice
<1>7. Emits(s, t, o)
  BY <1>1, <1>3, <1>6
<1> QED
  BY <1>7 DEF t

\* An operator that has output everything gives up what it holds, and may finish.
LEMMA EmptiedFinished ==
  ASSUME NEW s, IsStore(s), NEW o \in DOMAIN s.op,
         Kind(s.plan, o) \notin {"UNION_BUILD", "HASH_BUILD"}
  PROVE  LET t == [s EXCEPT !.op[o].held = <<>>]
         IN  Emits(s, t, o) /\ Emits(s, Finish(t, o), o)
<1> DEFINE r == [s.op[o] EXCEPT !.held = <<>>]
           t == [s EXCEPT !.op[o] = r]
<1>1. MayBecome(s, o, r)
  BY ListedFacts DEF MayBecome, IsOp, Fields, IsStore
<1> HIDE DEF r
<1>2. Emits(s, t, o)
  BY <1>1, PutEmits
<1> HIDE DEF t
<1>3. IsStore(t) /\ o \in DOMAIN t.op /\ t.plan = s.plan
  BY <1>2 DEF Emits, IsStore
<1>4. Emits(t, Finish(t, o), o)
  BY <1>3, FinishEmits
<1>5. Emits(s, t, o) /\ Emits(s, Finish(t, o), o)
  BY <1>2, <1>4, EmitsTwice
<1> QED
  BY <1>5 DEF t, r

\* GetOutput of a Sort does only what Emits allows.
LEMMA SortEmits ==
  ASSUME NEW s, IsStore(s), NEW o \in DOMAIN s.op, Kind(s.plan, o) = "SORT"
  PROVE  Emits(s, SortGetOutput(s, o).store, o)
<1> DEFINE me == s.op[o]
           byKey(k) == SelectSeq(Rows(me.held), LAMBDA r : r[1] = k)
           sorted == byKey(0) \o byKey(1) \o byKey(2)
           upto   == Smaller(me.at + OutRows, Len(sorted))
           made   == New(s, SubSeq(sorted, me.at + 1, upto))
           clear(t) == [FreeAll(t, me.held) EXCEPT !.op[o].held = <<>>]
           s0 == Keep(s, made)
           s1 == [s0 EXCEPT !.op[o].at = upto]
           t  == SortGetOutput(s, o).store
<1>1. t = s \/ t = Finish(clear(s), o) \/ t = Finish(clear(s1), o) \/ t = s1
  BY DEF SortGetOutput, Null, HandOut
<1> HIDE DEF t
<1>2. Len(me.held) \in Nat /\ DOMAIN me.held = 1 .. Len(me.held)
  BY DEF IsStore, Listed
<1>3. ASSUME NEW u, IsStore(u), o \in DOMAIN u.op, u.plan = s.plan
      PROVE  Emits(u, Finish(clear(u), o), o)
  <2> DEFINE v == FreeAll(u, me.held)
  <2>1. SameOps(u, v)
    BY <1>2, <1>3, FreeAllSame
  <2> HIDE DEF v
  <2>2. IsStore(v) /\ o \in DOMAIN v.op /\ v.plan = s.plan
    BY <1>3, <2>1, SameKind
  <2> DEFINE w == [v EXCEPT !.op[o].held = <<>>]
  <2>3. Emits(v, Finish(w, o), o)
    BY <2>2, EmptiedFinished
  <2>4. clear(u) = w
    BY DEF v
  <2> HIDE DEF w
  <2>5. Emits(u, Finish(w, o), o)
    BY <2>1, <2>3, EmitsSame
  <2> HIDE DEF clear
  <2> QED
    BY <2>4, <2>5
<1>4. Emits(s, s1, o)
  <2> HIDE DEF made, upto
  <2>1. SameOps(s, s0)
    BY KeepSame
  <2> HIDE DEF s0
  <2> DEFINE r == [s0.op[o] EXCEPT !.at = upto]
  <2>2. IsStore(s0) /\ o \in DOMAIN s0.op /\ s0.op[o] = me /\ s0.plan = s.plan /\ IsOp(me)
        /\ Listed(me.held)
    BY <2>1, SameKind DEF IsStore
  <2>3. MayBecome(s0, o, r)
    BY <2>2, ListedFacts DEF MayBecome, IsOp, Fields
  <2>4. s1 = [s0 EXCEPT !.op[o] = r]
    OBVIOUS
  <2> HIDE DEF r, s1
  <2> QED
    BY <2>1, <2>2, <2>3, <2>4, PutEmits, EmitsSame
<1> HIDE DEF s1, clear
<1>5. Emits(s, Finish(clear(s1), o), o)
  <2>1. IsStore(s1) /\ o \in DOMAIN s1.op /\ s1.plan = s.plan
    BY <1>4 DEF Emits, IsStore
  <2>2. Emits(s1, Finish(clear(s1), o), o)
    BY <1>3, <2>1
  <2> QED
    BY <1>4, <2>2, EmitsTwice
<1>6. Emits(s, Finish(clear(s), o), o) /\ Emits(s, s, o)
  BY <1>3, FinishEmits
<1>7. Emits(s, t, o)
  BY <1>1, <1>4, <1>5, <1>6
<1> QED
  BY <1>7 DEF t

\* GetOutput of an aggregation does only what Emits allows.
LEMMA AggEmits ==
  ASSUME NEW s, IsStore(s), NEW o \in DOMAIN s.op, Kind(s.plan, o) = "AGG"
  PROVE  Emits(s, AggGetOutput(s, o).store, o)
<1> DEFINE made == New(s, << <<0, s.op[o].at>> >>)
           s0 == Keep(s, made)
           t  == AggGetOutput(s, o).store
<1>1. t = s \/ t = Finish(s0, o)
  BY DEF AggGetOutput, Null, HandOut
<1> HIDE DEF made, t
<1>2. SameOps(s, s0) /\ Emits(s, s, o)
  BY KeepSame, FinishEmits
<1> HIDE DEF s0
<1>3. Emits(s0, Finish(s0, o), o)
  BY <1>2, SameKind, FinishEmits
<1>4. Emits(s, t, o)
  BY <1>1, <1>2, <1>3, EmitsSame
<1> QED
  BY <1>4 DEF t

\* GetOutput of a union's builder does only what Emits allows.
LEMMA UnionBuildEmits ==
  ASSUME NEW s, IsStore(s), NEW o \in DOMAIN s.op, Kind(s.plan, o) = "UNION_BUILD"
  PROVE  Emits(s, UnionBuildGetOutput(s, o).store, o)
<1>1. Emits(s, FinishIf(s.op[o].noMore, s, o), o)
  BY FinishEmits
<1> QED
  BY <1>1 DEF UnionBuildGetOutput, Null

\* A HashBuilder finishes only with the table built.
LEMMA HashBuildEmits ==
  ASSUME NEW s, IsStore(s), NEW o \in DOMAIN s.op, Kind(s.plan, o) = "HASH_BUILD"
  PROVE  Emits(s, HashBuildGetOutput(s, o).store, o)
<1> DEFINE r  == [s.op[o] EXCEPT !.fin = TRUE]
           s1 == [s EXCEPT !.op[o] = r]
           q  == [s.table[o[1]] EXCEPT !.ready = TRUE, !.rows = Rows(s.op[o].held)]
           u  == [s1 EXCEPT !.table[o[1]].ready = TRUE, !.table[o[1]].rows = Rows(s.op[o].held)]
           t  == HashBuildGetOutput(s, o).store
<1>1. t = s \/ t = u
  BY DEF HashBuildGetOutput, Null, Finish
<1>2. IsOp(r) /\ Listed(r.held) /\ r.noMore = s.op[o].noMore /\ r.sources = s.op[o].sources
      /\ r.fin /\ r.held = s.op[o].held
  BY DEF IsOp, Fields, IsStore
<1> HIDE DEF r, t
<1>3. /\ IsStore(s1) /\ s1.plan = s.plan /\ s1.table = s.table /\ s1.op[o] = r
      /\ \A p \in DOMAIN s.op \ {o} : s1.op[p] = s.op[p]
  BY <1>2, Put
<1> HIDE DEF s1
<1>4. o[1] \in DOMAIN s.table /\ IsTable(s.table[o[1]])
  BY KindIs DEF IsStore
<1>5. IsTable(q) /\ q.ready
  BY <1>4 DEF IsTable
<1>6. u = [s1 EXCEPT !.table = [@ EXCEPT ![o[1]] = q]]
  BY <1>3, <1>4 DEF IsStore
<1> HIDE DEF q, u
<1>7. /\ DOMAIN u = DOMAIN s1 /\ u.plan = s1.plan /\ u.drivers = s1.drivers /\ u.op = s1.op
      /\ u.table = [s.table EXCEPT ![o[1]] = q]
  BY <1>3, <1>6 DEF IsStore
<1>8. /\ u.table[o[1]] = q /\ DOMAIN u.table = DOMAIN s.table
      /\ \A n \in DOMAIN s.table : n # o[1] => u.table[n] = s.table[n]
  BY <1>4, <1>7
<1>9. IsStore(u)
  BY <1>3, <1>5, <1>7, <1>8 DEF IsStore
<1>10. Emits(s, u, o)
  BY <1>2, <1>3, <1>5, <1>7, <1>8, <1>9 DEF Emits
<1>11. Emits(s, t, o)
  BY <1>1, <1>10, FinishEmits
<1> QED
  BY <1>11 DEF t

\* Marking rows of a hash table as visited leaves the operators alone.
LEMMA VisitedEmits ==
  ASSUME NEW s, IsStore(s), NEW o \in DOMAIN s.op, NEW hits
  PROVE  Emits(s, [s EXCEPT !.table[o[1]].visited = @ \union hits], o)
<1> DEFINE q == [s.table[o[1]] EXCEPT !.visited = @ \union hits]
           u == [s EXCEPT !.table[o[1]] = q]
<1>1. o[1] \in DOMAIN s.table /\ IsTable(s.table[o[1]])
  BY KindIs DEF IsStore
<1>2. IsTable(q) /\ q.ready = s.table[o[1]].ready
  BY <1>1 DEF IsTable
<1> HIDE DEF q
<1>3. /\ DOMAIN u = DOMAIN s /\ u.plan = s.plan /\ u.drivers = s.drivers /\ u.op = s.op
      /\ u.table = [s.table EXCEPT ![o[1]] = q]
  BY DEF IsStore
<1> HIDE DEF u
<1>4. /\ u.table[o[1]] = q /\ DOMAIN u.table = DOMAIN s.table
      /\ \A n \in DOMAIN s.table : n # o[1] => u.table[n] = s.table[n]
  BY <1>1, <1>3
<1>5. IsStore(u)
  BY <1>2, <1>3, <1>4 DEF IsStore
<1>6. Emits(s, u, o)
  BY <1>2, <1>3, <1>4, <1>5 DEF Emits
<1> QED
  BY <1>6 DEF u, q

\* Probing does only what Emits allows.
LEMMA ProbeEmits ==
  ASSUME NEW s, IsStore(s), NEW o \in DOMAIN s.op, Kind(s.plan, o) \in Joins
  PROVE  Emits(s, Probe(s, o).store, o)
<1> DEFINE me    == s.op[o]
           batch == me.held[1]
           pairs == Pairs(s, o, batch)
           upto  == Smaller(me.at + OutRows, Len(pairs))
           whole == upto = Len(pairs)
           chunk == SubSeq(pairs, me.at + 1, upto)
           made  == New(s, [i \in DOMAIN chunk |-> Joined(chunk[i])])
           hits  == {chunk[i][2] : i \in {j \in DOMAIN chunk : Len(chunk[j]) = 2}}
           s0    == IF chunk = <<>> THEN s ELSE Keep(s, made)
           r     == [s0.op[o] EXCEPT !.at = upto]
           sa    == [s0 EXCEPT !.op[o] = r]
           s1    == [sa EXCEPT !.table[o[1]].visited = @ \union hits]
           sf    == Free(s1, batch)
           r2    == [sf.op[o] EXCEPT !.held = <<>>, !.at = 0]
           s2    == [sf EXCEPT !.op[o] = r2]
           t     == Probe(s, o).store
<1>1. t = s \/ t = s1 \/ t = s2
  <2>1. CASE me.held = <<>>
    BY <2>1 DEF Probe
  <2>2. CASE me.held # <<>>
    <3> DEFINE x1 == [IF chunk = <<>> THEN s ELSE Keep(s, made) EXCEPT
                        !.op[o].at = upto, !.table[o[1]].visited = @ \union hits]
               x2 == [Free(x1, batch) EXCEPT !.op[o].held = <<>>, !.op[o].at = 0]
    <3>1. t = IF whole THEN x2 ELSE x1
      BY <2>2 DEF Probe
    <3>2. x1 = s1
      <4> HIDE DEF chunk, upto, made, hits
      <4> QED
        OBVIOUS
    <3>3. x2 = s2
      <4> HIDE DEF s1, x1, batch
      <4> QED
        BY <3>2
    <3> HIDE DEF s1, s2, x1, x2, whole, t
    <3> QED
      BY <3>1, <3>2, <3>3
  <2> QED
    BY <2>1, <2>2
<1> HIDE DEF t, made, hits, chunk, upto, batch
<1>2. SameOps(s, s0)
  <2>1. SameOps(s, s)
    BY DEF SameOps
  <2> QED
    BY <2>1, KeepSame
<1> HIDE DEF s0
<1>3. IsStore(s0) /\ o \in DOMAIN s0.op /\ s0.op[o] = me /\ s0.plan = s.plan /\ IsOp(me)
      /\ Listed(me.held)
  BY <1>2, SameKind DEF IsStore, Joins
<1>4. MayBecome(s0, o, r)
  BY <1>3 DEF MayBecome, IsOp, Fields
<1> HIDE DEF r
<1>5. Emits(s, sa, o)
  BY <1>2, <1>3, <1>4, PutEmits, EmitsSame
<1> HIDE DEF sa
<1>6. Emits(s, s1, o)
  <2>1. IsStore(sa) /\ o \in DOMAIN sa.op
    BY <1>5 DEF Emits, IsStore
  <2> QED
    BY <1>5, <2>1, VisitedEmits, EmitsTwice
<1> HIDE DEF s1
<1>7. Emits(s, sf, o)
  <2>1. SameOps(s1, sf)
    BY <1>6, FreeSame DEF Emits
  <2> QED
    BY <1>6, <2>1, EmitsSame
<1> HIDE DEF sf
<1>8. Emits(s, s2, o)
  <2>1. IsStore(sf) /\ o \in DOMAIN sf.op /\ sf.plan = s.plan /\ IsOp(sf.op[o])
    BY <1>7 DEF Emits, IsStore
  <2>2. MayBecome(sf, o, r2)
    BY <2>1, ListedFacts DEF MayBecome, IsOp, Fields, Joins
  <2> HIDE DEF r2
  <2>3. Emits(sf, s2, o)
    BY <2>1, <2>2, PutEmits
  <2> QED
    BY <1>7, <2>3, EmitsTwice
<1>9. Emits(s, t, o)
  BY <1>1, <1>6, <1>8, FinishEmits
<1> QED
  BY <1>9 DEF t

\* GetOutput of a LookupJoinOperator does only what Emits allows.
LEMMA LookupJoinEmits ==
  ASSUME NEW s, IsStore(s), NEW o \in DOMAIN s.op, Kind(s.plan, o) \in Joins
  PROVE  Emits(s, LookupJoinGetOutput(s, o).store, o)
<1> DEFINE p == Probe(s, o)
           u == p.store
<1>1. Emits(s, u, o)
  BY ProbeEmits
<1> HIDE DEF u
<1>2. IsStore(u) /\ o \in DOMAIN u.op /\ u.plan = s.plan
  BY <1>1 DEF Emits, IsStore
<1>3. Emits(u, FinishIf(p.last, u, o), o)
  BY <1>2, FinishEmits DEF Joins
<1> QED
  BY <1>1, <1>3, EmitsTwice DEF LookupJoinGetOutput, u

\* GetOutput of a LookupJoinWrapper does only what Emits allows.
LEMMA WrapperEmits ==
  ASSUME NEW s, IsStore(s), NEW o \in DOMAIN s.op, Kind(s.plan, o) = "FULL"
  PROVE  Emits(s, WrapperGetOutput(s, o).store, o)
<1> DEFINE me    == s.op[o]
           table == s.table[o[1]]
           rest  == SelectSeq(table.rows, LAMBDA r : r \notin table.visited)
           upto  == Smaller(me.at + OutRows, Len(rest))
           made  == New(s, [i \in 1 .. upto - me.at |->
                              <<rest[me.at + i][1], 0>> \o Tail(rest[me.at + i])])
           s0    == Keep(s, made)
           r     == [s0.op[o] EXCEPT !.at = upto]
           s1    == [s0 EXCEPT !.op[o] = r]
           p     == Probe(s, o)
           u     == p.store
           q     == [u.op[o] EXCEPT !.done = p.last]
           ud    == [u EXCEPT !.op[o] = q]
           t     == WrapperGetOutput(s, o).store
<1>1. t \in {s, ud, Finish(s, o), FinishIf(upto = Len(rest), s1, o)}
  BY DEF WrapperGetOutput, Null, HandOut
<1> HIDE DEF t, made, upto, rest
<1>2. Emits(s, s, o) /\ Emits(s, Finish(s, o), o)
  BY FinishEmits
<1>3. SameOps(s, s0)
  BY KeepSame
<1> HIDE DEF s0
<1>4. IsStore(s0) /\ o \in DOMAIN s0.op /\ s0.op[o] = me /\ s0.plan = s.plan /\ IsOp(me)
      /\ Listed(me.held)
  BY <1>3, SameKind DEF IsStore
<1>5. MayBecome(s0, o, r)
  BY <1>4 DEF MayBecome, IsOp, Fields
<1> HIDE DEF r
<1>6. Emits(s, s1, o)
  BY <1>3, <1>4, <1>5, PutEmits, EmitsSame
<1> HIDE DEF s1
<1>7. Emits(s, FinishIf(upto = Len(rest), s1, o), o)
  <2>1. IsStore(s1) /\ o \in DOMAIN s1.op /\ s1.plan = s.plan
    BY <1>6 DEF Emits, IsStore
  <2>2. Emits(s1, FinishIf(upto = Len(rest), s1, o), o)
    BY <2>1, FinishEmits
  <2> QED
    BY <1>6, <2>2, EmitsTwice
<1>8. Emits(s, u, o)
  BY ProbeEmits DEF Joins
<1> HIDE DEF p, u
<1>9. IsStore(u) /\ o \in DOMAIN u.op /\ u.plan = s.plan /\ IsOp(u.op[o])
  BY <1>8 DEF Emits, IsStore
<1>10. MayBecome(u, o, q)
  BY <1>9 DEF MayBecome, IsOp, Fields, IsStore
<1> HIDE DEF q
<1>11. Emits(s, ud, o)
  BY <1>8, <1>9, <1>10, PutEmits, EmitsTwice
<1>12. Emits(s, t, o)
  BY <1>1, <1>2, <1>7, <1>11
<1> QED
  BY <1>12 DEF t

\* GetOutput of every operator does only what Emits allows.
LEMMA GetOutputEmits ==
  ASSUME NEW s, IsStore(s), NEW o \in DOMAIN s.op
  PROVE  Emits(s, GetOutput(s, o).store, o)
<1> DEFINE k == Kind(s.plan, o)
<1>1. k \in {"VALUES", "FILTER", "PROJECT", "EXPAND", "LIMIT", "SORT", "AGG",
             "UNION", "INNER", "LEFT", "FULL", "UNION_BUILD", "HASH_BUILD"}
  BY KindIs
<1>2. CASE k = "VALUES"
  BY <1>2, ValuesEmits DEF GetOutput
<1>3. CASE k \in {"FILTER", "PROJECT"}
  BY <1>3, SlotEmits DEF GetOutput
<1>4. CASE k = "LIMIT"
  BY <1>4, SlotEmits DEF GetOutput
<1>5. CASE k = "EXPAND"
  BY <1>5, ExpandEmits DEF GetOutput
<1>6. CASE k = "UNION"
  BY <1>6, UnionEmits DEF GetOutput
<1>7. CASE k = "SORT"
  BY <1>7, SortEmits DEF GetOutput
<1>8. CASE k = "AGG"
  BY <1>8, AggEmits DEF GetOutput
<1>9. CASE k = "UNION_BUILD"
  BY <1>9, UnionBuildEmits DEF GetOutput
<1>10. CASE k = "HASH_BUILD"
  BY <1>10, HashBuildEmits DEF GetOutput
<1>11. CASE k = "FULL"
  BY <1>11, WrapperEmits DEF GetOutput
<1>12. CASE k \in {"INNER", "LEFT"}
  BY <1>12, LookupJoinEmits DEF GetOutput, Joins
<1> QED
  BY <1>1, <1>2, <1>3, <1>4, <1>5, <1>6, <1>7, <1>8, <1>9, <1>10, <1>11, <1>12

\* What AddInput(s, o, b) = t may do.
Accepts(s, t, o) ==
  /\ IsStore(t) /\ t.plan = s.plan /\ t.table = s.table
  /\ \A p \in DOMAIN s.op :
       /\ t.op[p].noMore = s.op[p].noMore /\ t.op[p].sources = s.op[p].sources
       /\ t.op[p].fin => s.op[p].fin
       /\ p # o => t.op[p].fin = s.op[p].fin
       /\ t.op[p].held # <<>> /\ Kind(s.plan, p) \in Joins => s.op[p].held # <<>> \/ p = o

\* What AddInput may do, it may do in several steps.
LEMMA AcceptsTwice ==
  ASSUME NEW s, IsStore(s), NEW t, NEW u, NEW o
  PROVE  /\ Accepts(s, t, o) /\ SameOps(t, u) => Accepts(s, u, o)
         /\ SameOps(s, t) /\ Accepts(t, u, o) => Accepts(s, u, o)
         /\ SameOps(s, t) => Accepts(s, t, o)
         /\ Accepts(s, t, o) /\ Accepts(t, u, o) => Accepts(s, u, o)
<1>1. Accepts(s, t, o) => DOMAIN t.op = DOMAIN s.op
  BY DEF Accepts, IsStore
<1> QED
  BY <1>1 DEF Accepts, SameOps

\* The record of c, if c is an operator of the store, is replaced by r.
Replaces(s, t, c, r) ==
  /\ IsStore(s) /\ t = [s EXCEPT !.op[c] = r]
  /\ c \in DOMAIN s.op => IsOp(r) /\ (Kind(s.plan, c) # "VALUES" => Listed(r.held))

\* What the store is then.
LEMMA PutAnywhere ==
  ASSUME NEW s, NEW c, NEW r, NEW t, Replaces(s, t, c, r)
  PROVE  /\ IsStore(t) /\ t.plan = s.plan /\ t.table = s.table
         /\ DOMAIN t.op = DOMAIN s.op
         /\ \A p \in DOMAIN s.op : t.op[p] = IF p = c THEN r ELSE s.op[p]
<1>1. /\ DOMAIN t = DOMAIN s /\ t.plan = s.plan /\ t.table = s.table /\ t.drivers = s.drivers
      /\ t.op = [s.op EXCEPT ![c] = r]
  BY DEF IsStore, Replaces
<1>2. DOMAIN t.op = DOMAIN s.op /\ \A p \in DOMAIN s.op : t.op[p] = IF p = c THEN r ELSE s.op[p]
  BY <1>1
<1>3. IsStore(t)
  BY <1>1, <1>2 DEF IsStore, Replaces
<1> QED
  BY <1>1, <1>2, <1>3

\* A step that gives c another record may be one of o's AddInput.
LEMMA PutAccepts ==
  ASSUME NEW s, IsStore(s), NEW c, NEW r, NEW o,
         c \in DOMAIN s.op =>
           /\ IsOp(r) /\ Listed(r.held)
           /\ r.noMore = s.op[c].noMore /\ r.sources = s.op[c].sources
           /\ r.fin => s.op[c].fin
           /\ c # o => r.fin = s.op[c].fin /\ Kind(s.plan, c) \notin Joins
  PROVE  Accepts(s, [s EXCEPT !.op[c] = r], o)
<1> DEFINE t == [s EXCEPT !.op[c] = r]
<1>1. /\ IsStore(t) /\ t.plan = s.plan /\ t.table = s.table
      /\ \A p \in DOMAIN s.op : t.op[p] = IF p = c THEN r ELSE s.op[p]
  <2>1. Replaces(s, t, c, r)
    BY DEF Replaces
  <2> HIDE DEF t
  <2> QED
    BY <2>1, PutAnywhere
<1> HIDE DEF t
<1>2. Accepts(s, t, o)
  BY <1>1 DEF Accepts
<1> QED
  BY <1>2 DEF t

\* The assignment of a slot does only what Accepts allows.
LEMMA FillAccepts ==
  ASSUME NEW s, IsStore(s), NEW o \in DOMAIN s.op, NEW h, Listed(h)
  PROVE  Accepts(s, Fill(s, o, h), o)
<1> DEFINE r == [s.op[o] EXCEPT !.held = h, !.at = 0]
           t == [s EXCEPT !.op[o] = r]
           u == Fill(s, o, h)
<1>1. IsOp(s.op[o])
  BY DEF IsStore
<1>2. IsOp(r) /\ r.held = h /\ r.fin = s.op[o].fin /\ r.noMore = s.op[o].noMore
      /\ r.sources = s.op[o].sources
  BY <1>1 DEF IsOp, Fields
<1> HIDE DEF r
<1>3. Accepts(s, t, o)
  BY <1>2, PutAccepts
<1>4. SameOps(t, u)
  <2> DEFINE v == IF s.op[o].held = <<>> THEN s.overwritten ELSE s.overwritten \union {o}
  <2>1. u = [t EXCEPT !.overwritten = v]
    BY DEF Fill, IsStore, r
  <2> HIDE DEF t, u, v
  <2> QED
    BY <1>3, <2>1 DEF Accepts, SameOps, IsStore
<1> QED
  BY <1>3, <1>4, AcceptsTwice

\* AddInput of a Filter and of a Projection does only what Accepts allows.
LEMMA EvaluateAccepts ==
  ASSUME NEW s, IsStore(s), NEW o \in DOMAIN s.op, NEW b
  PROVE  Accepts(s, Evaluate(s, o, b), o)
<1> DEFINE passes(r) == Kind(s.plan, o) = "PROJECT" \/ r[1] = 1
           made == New(s, SelectSeq(b.rows, passes))
           s0   == Keep(s, made)
           s1   == IF made.rows = <<>> THEN Fill(s, o, <<>>) ELSE Fill(s0, o, <<made>>)
           t    == Evaluate(s, o, b)
<1>1. t = Drop(s, b) \/ t = Free(s1, b)
  BY DEF Evaluate
<1> HIDE DEF t, made
<1>2. Accepts(s, Drop(s, b), o)
  BY FreeSame, AcceptsTwice DEF Drop
<1>3. SameOps(s, s0)
  BY KeepSame
<1> HIDE DEF s0
<1>4. Accepts(s, Fill(s, o, <<>>), o) /\ Accepts(s, Fill(s0, o, <<made>>), o)
  BY <1>3, SameKind, FillAccepts, AcceptsTwice, ListedFacts
<1>5. Accepts(s, s1, o)
  BY <1>4
<1> HIDE DEF s1
<1>6. Accepts(s, Free(s1, b), o)
  <2>1. SameOps(s1, Free(s1, b))
    BY <1>5, FreeSame DEF Accepts
  <2> QED
    BY <1>5, <2>1, AcceptsTwice
<1>7. Accepts(s, t, o)
  BY <1>1, <1>2, <1>6
<1> QED
  BY <1>7 DEF t

\* AddInput of an Expand does: it is the only one to clear a status, and only its own.
LEMMA ExpandAccepts ==
  ASSUME NEW s, IsStore(s), NEW o \in DOMAIN s.op, NEW b
  PROVE  Accepts(s, ExpandAddInput(s, o, b), o)
<1> DEFINE s0 == Free(s, b)
           s1 == Fill(s0, o, <<>>)
           r  == [s1.op[o] EXCEPT !.fin = FALSE]
           u  == [s1 EXCEPT !.op[o] = r]
           t  == ExpandAddInput(s, o, b)
<1>1. t = Fill(s, o, <<b>>) \/ t = u
  <2> DEFINE v == [s1 EXCEPT !.op[o].fin = FALSE]
  <2>1. t = Fill(s, o, <<b>>) \/ t = v
    BY DEF ExpandAddInput
  <2> HIDE DEF s1, t
  <2>2. v = u
    OBVIOUS
  <2> HIDE DEF v, u
  <2> QED
    BY <2>1, <2>2
<1> HIDE DEF t
<1>2. Accepts(s, Fill(s, o, <<b>>), o)
  BY FillAccepts, ListedFacts
<1>3. SameOps(s, s0)
  BY FreeSame
<1> HIDE DEF s0
<1>4. IsStore(s0) /\ o \in DOMAIN s0.op /\ s0.plan = s.plan
  BY <1>3, SameKind
<1>5. Accepts(s0, s1, o)
  BY <1>4, FillAccepts, ListedFacts
<1>6. s1.op[o].held = <<>>
  BY <1>4 DEF Fill, IsStore, IsOp, Fields
<1> HIDE DEF s1
<1>7. IsStore(s1) /\ o \in DOMAIN s1.op /\ IsOp(s1.op[o])
  BY <1>4, <1>5 DEF Accepts, IsStore
<1>8. IsOp(r) /\ Listed(r.held) /\ r.fin = FALSE /\ r.noMore = s1.op[o].noMore
      /\ r.sources = s1.op[o].sources
  BY <1>6, <1>7, ListedFacts DEF IsOp, Fields
<1> HIDE DEF r
<1>9. Accepts(s1, u, o)
  BY <1>7, <1>8, PutAccepts
<1>10. Accepts(s, u, o)
  BY <1>3, <1>4, <1>5, <1>9, AcceptsTwice
<1>11. Accepts(s, t, o)
  BY <1>1, <1>2, <1>10
<1> QED
  BY <1>11 DEF t

\* AddInput of a Limit does only what Accepts allows.
LEMMA LimitAccepts ==
  ASSUME NEW s, IsStore(s), NEW o \in DOMAIN s.op, NEW b, Kind(s.plan, o) # "VALUES"
  PROVE  Accepts(s, LimitAddInput(s, o, b), o)
<1> DEFINE me    == s.op[o]
           count == Len(b.rows)
           start == Smaller(me.skip, count)
           take  == IF me.left < 0 THEN count - start ELSE Smaller(count - start, me.left)
           made  == New(s, SubSeq(b.rows, start + 1, start + take))
           x1    == [s EXCEPT !.op[o].skip = @ - start,
                              !.op[o].left = IF @ < 0 THEN @ ELSE @ - take]
           r     == [s.op[o] EXCEPT !.skip = @ - start, !.left = IF @ < 0 THEN @ ELSE @ - take]
           s1    == [s EXCEPT !.op[o] = r]
           s2    == Keep(s1, made)
           s3    == Fill(s2, o, <<made>>)
           s4    == Fill(s, o, me.held)
           t     == LimitAddInput(s, o, b)
<1>1. t \in {Free(s4, b), Free(s, b), Free(s1, b), Free(s3, b)}
  <2>1. x1 = s1
    <3> HIDE DEF start, take
    <3> QED
      BY DEF IsStore, IsOp, Fields
  <2>2. t \in {Free(s4, b), Free(s, b), Free(x1, b), Free(Fill(Keep(x1, made), o, <<made>>), b)}
    BY DEF LimitAddInput, Drop
  <2> HIDE DEF s1, x1, t, made, s4
  <2> QED
    BY <2>1, <2>2
<1> HIDE DEF t, made, take, start
<1>2. IsOp(me) /\ Listed(me.held)
  BY DEF IsStore
<1>3. IsOp(r) /\ Listed(r.held) /\ r.fin = me.fin /\ r.noMore = me.noMore /\ r.sources = me.sources
  BY <1>2 DEF IsOp, Fields
<1> HIDE DEF r
<1>4. Accepts(s, s1, o) /\ Accepts(s, s4, o) /\ Accepts(s, s, o)
  <2>1. SameOps(s, s)
    BY DEF SameOps
  <2> QED
    BY <1>2, <1>3, <2>1, PutAccepts, FillAccepts, AcceptsTwice
<1> HIDE DEF s1, s4
<1>5. SameOps(s1, s2) /\ Accepts(s, s2, o)
  <2>1. SameOps(s1, s2)
    BY <1>4, KeepSame DEF Accepts
  <2> QED
    BY <1>4, <2>1, AcceptsTwice
<1> HIDE DEF s2
<1>6. Accepts(s, s3, o)
  <2>1. IsStore(s2) /\ o \in DOMAIN s2.op
    BY <1>5 DEF Accepts, IsStore
  <2>2. Accepts(s2, s3, o)
    BY <2>1, FillAccepts, ListedFacts
  <2> QED
    BY <1>5, <2>2, AcceptsTwice
<1> HIDE DEF s3
<1>7. ASSUME NEW u, Accepts(s, u, o) PROVE Accepts(s, Free(u, b), o)
  <2>1. SameOps(u, Free(u, b))
    BY <1>7, FreeSame DEF Accepts
  <2> QED
    BY <1>7, <2>1, AcceptsTwice
<1>8. Accepts(s, t, o)
  BY <1>1, <1>4, <1>6, <1>7
<1> QED
  BY <1>8 DEF t

\* AddInput of a Sort, of a builder and of a Union, also on behalf of its builders,
\* does only what Accepts allows.
LEMMA EnqueueAccepts ==
  ASSUME NEW s, IsStore(s), NEW c, NEW b, NEW o,
         c \in DOMAIN s.op => Kind(s.plan, c) \notin Joins \union {"VALUES"}
  PROVE  Accepts(s, Enqueue(s, c, b), o)
<1> DEFINE made == New(s, b.rows)
           s0 == Keep(s, made)
           r  == [s0.op[c] EXCEPT !.held = Append(@, made)]
           s1 == [s0 EXCEPT !.op[c] = r]
           t  == Enqueue(s, c, b)
<1>1. t = Free(s, b) \/ t = Free(s1, b)
  BY DEF Enqueue, Drop
<1> HIDE DEF t, made
<1>2. SameOps(s, s0)
  BY KeepSame
<1> HIDE DEF s0
<1>3. IsStore(s0) /\ s0.plan = s.plan /\ DOMAIN s0.op = DOMAIN s.op
  BY <1>2 DEF SameOps
<1>4. ASSUME c \in DOMAIN s0.op
      PROVE  IsOp(r) /\ Listed(r.held) /\ r.fin = s0.op[c].fin /\ r.noMore = s0.op[c].noMore
             /\ r.sources = s0.op[c].sources /\ Kind(s0.plan, c) \notin Joins
  <2>1. IsOp(s0.op[c]) /\ Listed(s0.op[c].held)
    BY <1>3, <1>4 DEF IsStore
  <2> QED
    BY <1>3, <1>4, <2>1, ListedFacts DEF IsOp, Fields
<1> HIDE DEF r
<1>5. Accepts(s0, s1, o)
  BY <1>3, <1>4, PutAccepts
<1> HIDE DEF s1
<1>6. Accepts(s, s1, o) /\ Accepts(s, s, o)
  <2>1. SameOps(s, s)
    BY DEF SameOps
  <2> QED
    BY <1>2, <1>5, <2>1, AcceptsTwice
<1>7. ASSUME NEW u, Accepts(s, u, o) PROVE Accepts(s, Free(u, b), o)
  <2>1. SameOps(u, Free(u, b))
    BY <1>7, FreeSame DEF Accepts
  <2> QED
    BY <1>7, <2>1, AcceptsTwice
<1>8. Accepts(s, t, o)
  BY <1>1, <1>6, <1>7
<1> QED
  BY <1>8 DEF t

\* AddInput of a join does only what Accepts allows.
LEMMA ProbeAccepts ==
  ASSUME NEW s, IsStore(s), NEW o \in DOMAIN s.op, NEW b
  PROVE  Accepts(s, ProbeAddInput(s, o, b), o)
<1> DEFINE made == New(s, b.rows)
           s0 == Keep(s, made)
           s1 == Fill(s0, o, <<made>>)
           t  == ProbeAddInput(s, o, b)
<1>1. t = Free(s, b) \/ t = Free(s1, b)
  BY DEF ProbeAddInput, Drop
<1> HIDE DEF t, made
<1>2. SameOps(s, s0) /\ SameOps(s, s)
  BY KeepSame DEF SameOps
<1> HIDE DEF s0
<1>3. Accepts(s, s1, o) /\ Accepts(s, s, o)
  BY <1>2, SameKind, FillAccepts, AcceptsTwice, ListedFacts
<1> HIDE DEF s1
<1>4. ASSUME NEW u, Accepts(s, u, o) PROVE Accepts(s, Free(u, b), o)
  <2>1. SameOps(u, Free(u, b))
    BY <1>4, FreeSame DEF Accepts
  <2> QED
    BY <1>4, <2>1, AcceptsTwice
<1>5. Accepts(s, t, o)
  BY <1>1, <1>3, <1>4
<1> QED
  BY <1>5 DEF t

\* AddInput of an aggregation does only what Accepts allows.
LEMMA CountAccepts ==
  ASSUME NEW s, IsStore(s), NEW o \in DOMAIN s.op, NEW b, Kind(s.plan, o) # "VALUES"
  PROVE  Accepts(s, Free([s EXCEPT !.op[o].at = @ + Len(b.rows)], b), o)
<1> DEFINE r  == [s.op[o] EXCEPT !.at = @ + Len(b.rows)]
           s1 == [s EXCEPT !.op[o] = r]
<1>1. IsOp(s.op[o]) /\ Listed(s.op[o].held)
  BY DEF IsStore
<1>2. IsOp(r) /\ Listed(r.held) /\ r.fin = s.op[o].fin /\ r.noMore = s.op[o].noMore
      /\ r.sources = s.op[o].sources
  BY <1>1 DEF IsOp, Fields
<1> HIDE DEF r
<1>3. Accepts(s, s1, o)
  BY <1>2, PutAccepts
<1> HIDE DEF s1
<1>4. Accepts(s, Free(s1, b), o)
  <2>1. SameOps(s1, Free(s1, b))
    BY <1>3, FreeSame DEF Accepts
  <2> QED
    BY <1>3, <2>1, AcceptsTwice
<1> QED
  BY <1>4 DEF s1, r

\* AddInput of every operator that has a source does only what Accepts allows.
LEMMA AddInputAccepts ==
  ASSUME NEW s, IsStore(s), NEW o \in DOMAIN s.op, NEW b, Kind(s.plan, o) # "VALUES"
  PROVE  Accepts(s, AddInput(s, o, b), o)
<1> DEFINE k == Kind(s.plan, o)
<1>1. k \in {"FILTER", "PROJECT", "EXPAND", "LIMIT", "SORT", "AGG",
             "UNION", "INNER", "LEFT", "FULL", "UNION_BUILD", "HASH_BUILD"}
  BY KindIs
<1>2. CASE k \in {"FILTER", "PROJECT"}
  <2>1. AddInput(s, o, b) = Evaluate(s, o, b)
    BY <1>2 DEF AddInput, Joins
  <2>2. Accepts(s, Evaluate(s, o, b), o)
    BY <1>2, EvaluateAccepts
  <2> QED
    BY <2>1, <2>2, Zenon
<1>3. CASE k = "EXPAND"
  <2>1. AddInput(s, o, b) = ExpandAddInput(s, o, b)
    BY <1>3 DEF AddInput, Joins
  <2>2. Accepts(s, ExpandAddInput(s, o, b), o)
    BY <1>3, ExpandAccepts
  <2> QED
    BY <2>1, <2>2, Zenon
<1>4. CASE k = "LIMIT"
  <2>1. AddInput(s, o, b) = LimitAddInput(s, o, b)
    BY <1>4 DEF AddInput, Joins
  <2>2. Accepts(s, LimitAddInput(s, o, b), o)
    BY <1>4, LimitAccepts
  <2> QED
    BY <2>1, <2>2, Zenon
<1>5. CASE k \in {"UNION", "SORT", "HASH_BUILD"}
  <2>1. AddInput(s, o, b) = Enqueue(s, o, b)
    BY <1>5 DEF AddInput, Joins
  <2>2. Accepts(s, Enqueue(s, o, b), o)
    BY <1>5, EnqueueAccepts DEF Joins
  <2> QED
    BY <2>1, <2>2, Zenon
<1>6. CASE k = "UNION_BUILD"
  <2>1. Kind(s.plan, <<o[1], 1>>) = "UNION"
    <3>1. s.plan[o[1]].kind = "UNION"
      <4>1. s.plan[o[1]].kind # "UNION_BUILD"
        BY KindIs DEF IsStore, IsPlan, Joins
      <4> QED
        BY <1>6, <4>1 DEF Kind
    <3> QED
      BY <3>1 DEF Kind
  <2> QED
    BY <1>6, <2>1, EnqueueAccepts DEF AddInput, Joins
<1>7. CASE k = "AGG"
  <2>1. AddInput(s, o, b) = Free([s EXCEPT !.op[o].at = @ + Len(b.rows)], b)
    BY <1>7 DEF AddInput, Joins
  <2>2. Accepts(s, Free([s EXCEPT !.op[o].at = @ + Len(b.rows)], b), o)
    BY <1>7, CountAccepts
  <2> QED
    BY <2>1, <2>2, Zenon
<1>8. CASE k \in {"INNER", "LEFT", "FULL"}
  <2>1. AddInput(s, o, b) = ProbeAddInput(s, o, b)
    BY <1>8 DEF AddInput, Joins
  <2>2. Accepts(s, ProbeAddInput(s, o, b), o)
    BY <1>8, ProbeAccepts
  <2> QED
    BY <2>1, <2>2, Zenon
<1> QED
  BY <1>1, <1>2, <1>3, <1>4, <1>5, <1>6, <1>7, <1>8

\* What noMoreInput(s, o) = t may do.
Ends(s, t, o) ==
  LET union == <<o[1], 1>>
      fewer == Kind(s.plan, o) \in {"UNION", "UNION_BUILD"}
  IN  /\ IsStore(t) /\ t.plan = s.plan /\ t.table = s.table
      /\ \A p \in DOMAIN s.op :
           /\ t.op[p].fin = s.op[p].fin /\ t.op[p].held = s.op[p].held
           /\ p \notin {o, union} => t.op[p].noMore = s.op[p].noMore
           /\ t.op[p].sources = IF p = union /\ fewer THEN s.op[p].sources - 1 ELSE s.op[p].sources
      /\ Kind(s.plan, o) # "UNION" /\ o \in DOMAIN s.op => t.op[o].noMore

\* A union is the operator of its node, a builder is not.
LEMMA UnionKinds ==
  ASSUME NEW s, IsStore(s), NEW o \in DOMAIN s.op
  PROVE  /\ Kind(s.plan, o) = "UNION" => o = <<o[1], 1>>
         /\ Kind(s.plan, o) = "UNION_BUILD" =>
              /\ o # <<o[1], 1>> /\ s.plan[o[1]].kind = "UNION"
              /\ o[2] \in 2 .. Len(s.plan[o[1]].src)
         /\ Kind(s.plan, o) = "HASH_BUILD" =>
              o # <<o[1], 1>> /\ o[2] \in 2 .. Len(s.plan[o[1]].src)
<1> DEFINE n == o[1]
<1>1. n \in DOMAIN s.plan /\ o \in Places(s.plan) /\ IsPlan(s.plan)
  BY KindIs DEF IsStore
<1>2. s.plan[n].kind \in {"VALUES", "FILTER", "PROJECT", "EXPAND", "LIMIT", "SORT", "AGG",
                          "UNION", "INNER", "LEFT", "FULL"} /\ Len(s.plan[n].src) \in Nat
  BY <1>1, SourcesOf DEF IsPlan, Joins
<1>3. o = <<n, o[2]>> /\ o[2] \in Nat \ {0} /\ (o[2] = 1 \/ o[2] <= Len(s.plan[n].src))
  BY <1>1 DEF Places
<1> DEFINE L == Len(s.plan[n].src)
           j == o[2]
<1>4. L \in Nat /\ j \in Nat \ {0} /\ (j = 1 \/ j <= L) /\ o = <<n, j>>
  BY <1>2, <1>3
<1>5. Kind(s.plan, o) = IF j = 1 THEN s.plan[n].kind
                        ELSE IF s.plan[n].kind = "UNION" THEN "UNION_BUILD" ELSE "HASH_BUILD"
  BY DEF Kind
<1> HIDE DEF L, j, n
<1>6. j # 1 => o # <<n, 1>> /\ j \in 2 .. L
  BY <1>4
<1>7. Kind(s.plan, o) = "UNION" => j = 1
  BY <1>5
<1>8. Kind(s.plan, o) \in {"UNION_BUILD", "HASH_BUILD"} => j # 1
  BY <1>2, <1>5
<1>9. Kind(s.plan, o) = "UNION_BUILD" => s.plan[n].kind = "UNION"
  BY <1>2, <1>5
<1> QED
  BY <1>4, <1>6, <1>7, <1>8, <1>9 DEF n, j, L

\* noMoreInput does only what Ends allows it.
LEMMA NoMoreInputEnds ==
  ASSUME NEW s, IsStore(s), NEW o \in DOMAIN s.op
  PROVE  Ends(s, noMoreInput(s, o), o)
<1> DEFINE c == <<o[1], 1>>
           k == Kind(s.plan, o)
           r == [s.op[o] EXCEPT !.noMore = TRUE]
           s1 == [s EXCEPT !.op[o] = r]
           less(t) == [t.op[c] EXCEPT !.sources = @ - 1, !.noMore = t.op[c].sources <= 1]
           oneLess(t) == [t EXCEPT !.op[c] = less(t)]
           t == noMoreInput(s, o)
<1>1. t = CASE k = "UNION" -> oneLess(s) [] k = "UNION_BUILD" -> oneLess(s1) [] OTHER -> s1
  <2> DEFINE x(v) == [v EXCEPT !.op[c].sources = @ - 1, !.op[c].noMore = v.op[c].sources <= 1]
  <2>1. t = CASE k = "UNION" -> x(s) [] k = "UNION_BUILD" -> x(s1) [] OTHER -> s1
    BY DEF noMoreInput
  <2>2. ASSUME NEW v PROVE x(v) = oneLess(v)
    OBVIOUS
  <2> HIDE DEF x, oneLess, t, s1
  <2> QED
    BY <2>1, <2>2
<1> HIDE DEF t
<1>2. IsOp(s.op[o]) /\ (Kind(s.plan, o) # "VALUES" => Listed(s.op[o].held))
  BY DEF IsStore
<1>3. IsOp(r) /\ r.held = s.op[o].held /\ r.fin = s.op[o].fin /\ r.noMore
      /\ r.sources = s.op[o].sources
  BY <1>2 DEF IsOp, Fields
<1>9. IsOp(r) /\ (Kind(s.plan, o) # "VALUES" => Listed(r.held))
  BY <1>2, <1>3
<1> HIDE DEF r
<1>4. /\ IsStore(s1) /\ s1.plan = s.plan /\ s1.table = s.table /\ DOMAIN s1.op = DOMAIN s.op
      /\ \A p \in DOMAIN s.op : s1.op[p] = IF p = o THEN r ELSE s.op[p]
  <2>1. Replaces(s, s1, o, r)
    BY <1>9 DEF Replaces
  <2> HIDE DEF s1
  <2> QED
    BY <2>1, PutAnywhere
<1> HIDE DEF s1
<1>5. ASSUME NEW v, IsStore(v)
      PROVE  LET u == oneLess(v)
             IN  /\ IsStore(u) /\ u.plan = v.plan /\ u.table = v.table
                 /\ \A p \in DOMAIN v.op : u.op[p] = IF p = c THEN less(v) ELSE v.op[p]
                 /\ c \in DOMAIN v.op =>
                      /\ less(v).fin = v.op[c].fin /\ less(v).held = v.op[c].held
                      /\ less(v).sources = v.op[c].sources - 1
  <2>1. c \in DOMAIN v.op =>
          IsOp(less(v)) /\ (Kind(v.plan, c) # "VALUES" => Listed(less(v).held))
                             /\ less(v).fin = v.op[c].fin /\ less(v).held = v.op[c].held
                             /\ less(v).sources = v.op[c].sources - 1
    <3> SUFFICES ASSUME c \in DOMAIN v.op
                 PROVE  /\ IsOp(less(v)) /\ (Kind(v.plan, c) # "VALUES" => Listed(less(v).held))
                        /\ less(v).fin = v.op[c].fin /\ less(v).held = v.op[c].held
                        /\ less(v).sources = v.op[c].sources - 1
      OBVIOUS
    <3>1. IsOp(v.op[c]) /\ (Kind(v.plan, c) # "VALUES" => Listed(v.op[c].held))
      BY <1>5 DEF IsStore
    <3> QED
      BY <3>1 DEF IsOp, Fields
  <2> DEFINE q == less(v)
             u == [v EXCEPT !.op[c] = q]
  <2>2. c \in DOMAIN v.op => IsOp(q) /\ (Kind(v.plan, c) # "VALUES" => Listed(q.held))
    BY <2>1
  <2>3. oneLess(v) = u
    OBVIOUS
  <2>5. IsStore(v)
    BY <1>5
  <2> HIDE DEF less, q, c, k, oneLess
  <2>4. /\ IsStore(u) /\ u.plan = v.plan /\ u.table = v.table
        /\ \A p \in DOMAIN v.op : u.op[p] = IF p = c THEN q ELSE v.op[p]
    <3>1. Replaces(v, u, c, q)
      BY <2>2, <2>5 DEF Replaces
    <3> HIDE DEF u
    <3> QED
      BY <3>1, PutAnywhere
  <2> HIDE DEF u
  <2> QED
    BY <2>1, <2>3, <2>4 DEF q
<1> HIDE DEF oneLess, less
<1>6. CASE k = "UNION"
  <2>1. t = oneLess(s)
    BY <1>1, <1>6
  <2>2. o = c
    BY <1>6, UnionKinds
  <2> HIDE DEF c, k
  <2>3. Ends(s, t, c)
    BY <1>5, <1>6, <2>1, <2>2 DEF Ends, c, k
  <2> QED
    BY <2>2, <2>3 DEF t
<1>7. CASE k = "UNION_BUILD"
  <2>1. t = oneLess(s1) /\ IsStore(s1)
    BY <1>1, <1>4, <1>7
  <2>2. o # c
    BY <1>7, UnionKinds
  <2> QED
    BY <1>3, <1>4, <1>5, <1>7, <2>1, <2>2 DEF Ends, t
<1>8. CASE k \notin {"UNION", "UNION_BUILD"}
  <2>1. t = s1
    BY <1>1, <1>8
  <2> QED
    BY <1>3, <1>4, <1>8, <2>1 DEF Ends, t
<1> QED
  BY <1>6, <1>7, <1>8

-----------------------------------------------------------------------------
(* The order of the pipelines.                                             *)

\* The sources of union n, other than the first, that have not ended.
Open(s, n) ==
  {i \in 2 .. Len(s.plan[n].src) : <<n, i>> \in DOMAIN s.op /\ ~s.op[<<n, i>>].noMore}

\* A union waits for no more sources than have not ended, and for its own.
Counted(s) ==
  \A n \in DOMAIN s.plan :
    s.plan[n].kind = "UNION" /\ <<n, 1>> \in DOMAIN s.op =>
      s.op[<<n, 1>>].sources <= 1 + Cardinality(Open(s, n))

\* A builder has finished only what it is to build.
BuiltBy(s, o) ==
  s.op[o].fin => /\ Kind(s.plan, o) = "UNION_BUILD" => s.op[o].noMore
                 /\ Kind(s.plan, o) = "HASH_BUILD" => s.table[o[1]].ready

\* A join has a batch to probe with only when its table is built.
Probed(s, o) ==
  Kind(s.plan, o) \in Joins /\ s.op[o].held # <<>> => s.table[o[1]].ready

\* The store is as the order of the pipelines needs it.
InOrder(s) == Counted(s) /\ \A o \in DOMAIN s.op : BuiltBy(s, o) /\ Probed(s, o)

\* The last operator of pipeline d.
LastOf(d) == store.drivers[d][Len(store.drivers[d])]

\* The inductive invariant.  The task polls a pipeline when all before it have
\* finished, and a pipeline finishes when its last operator has.
OrderInv ==
  /\ IsStore(store) /\ InOrder(store)
  /\ driver \in 0 .. Count + 1 /\ finished \in SUBSET (1 .. Count)
  /\ cursor # 0 => /\ driver \in 1 .. Count /\ driver \notin finished
                   /\ cursor \in 1 .. Len(Pipeline)
  /\ closed => driver = 0
  /\ \A d \in 1 .. Count : d < driver => d \in finished
  /\ \A d \in finished : store.op[LastOf(d)].fin

\* The pipelines of a store, with what DriversOrdered says of them.
LEMMA Pipelines ==
  ASSUME NEW s, IsStore(s)
  PROVE  /\ Len(s.drivers) \in Nat \ {0} /\ DOMAIN s.drivers = 1 .. Len(s.drivers)
         /\ \A d \in 1 .. Len(s.drivers) :
              /\ Len(s.drivers[d]) \in Nat \ {0} /\ DOMAIN s.drivers[d] = 1 .. Len(s.drivers[d])
              /\ \A k \in 1 .. Len(s.drivers[d]) : s.drivers[d][k] \in DOMAIN s.op
              /\ \A k \in 2 .. Len(s.drivers[d]) : Kind(s.plan, s.drivers[d][k]) # "VALUES"
              /\ \A k \in 1 .. Len(s.drivers[d]) : s.drivers[d][k][2] = 1 =>
                   \A i \in 2 .. Len(s.plan[s.drivers[d][k][1]].src) :
                     \E e \in 1 .. d - 1 :
                       s.drivers[e][Len(s.drivers[e])] = <<s.drivers[d][k][1], i>>
<1> DEFINE ds == s.drivers
           P == Places(s.plan)
<1>1. /\ ds \in Seq(Seq(P)) /\ Len(ds) > 0
      /\ \A d \in 1 .. Len(ds) : Len(ds[d]) > 0
      /\ \A d \in 1 .. Len(ds) : \A k \in 2 .. Len(ds[d]) : Len(s.plan[ds[d][k][1]].src) > 0
      /\ \A d \in 1 .. Len(ds) : \A k \in 1 .. Len(ds[d]) : ds[d][k][2] = 1 =>
           \A i \in 2 .. Len(s.plan[ds[d][k][1]].src) :
             \E e \in 1 .. d - 1 : ds[e][Len(ds[e])] = <<ds[d][k][1], i>>
  <2>1. InPollingOrder(s.plan, ds)
    BY DriversOrdered DEF IsStore
  <2> HIDE DEF ds
  <2> QED
    BY <2>1 DEF InPollingOrder
<1>2. DOMAIN s.op = OpsOf(ds) /\ IsPlan(s.plan)
  BY DEF IsStore
<1> HIDE DEF ds, P
<1>3. Len(ds) \in Nat \ {0} /\ DOMAIN ds = 1 .. Len(ds)
  BY <1>1, LenProperties
<1>4. ASSUME NEW d \in 1 .. Len(ds)
      PROVE  /\ Len(ds[d]) \in Nat \ {0} /\ DOMAIN ds[d] = 1 .. Len(ds[d])
             /\ \A k \in 1 .. Len(ds[d]) : ds[d][k] \in DOMAIN s.op
             /\ \A k \in 2 .. Len(ds[d]) : Kind(s.plan, ds[d][k]) # "VALUES"
  <2> DEFINE q == ds[d]
  <2>1. q \in Seq(P) /\ Len(q) > 0
    <3> DEFINE A == Seq(P)
    <3>1. ds \in Seq(A)
      BY <1>1
    <3> HIDE DEF A
    <3>2. q \in A
      BY <3>1, ElementOfSeq
    <3> QED
      BY <1>1, <3>2 DEF A
  <2> HIDE DEF q
  <2>2. Len(q) \in Nat \ {0} /\ DOMAIN q = 1 .. Len(q) /\ \A k \in 1 .. Len(q) : q[k] \in P
    BY <2>1, LenProperties, ElementOfSeq
  <2>3. \A k \in 1 .. Len(q) : q[k] \in DOMAIN s.op
    BY <1>2, <1>3, <2>2 DEF OpsOf, ToSet, q
  <2>4. ASSUME NEW k \in 2 .. Len(q) PROVE Kind(s.plan, q[k]) # "VALUES"
    <3> DEFINE o == q[k]
    <3>1. k \in 1 .. Len(q) /\ k \in 2 .. Len(ds[d])
      BY <2>2 DEF q
    <3>2. o \in P /\ Len(s.plan[o[1]].src) > 0
      BY <1>1, <2>2, <3>1 DEF q
    <3> HIDE DEF o
    <3>3. s.plan[o[1]].kind # "VALUES"
      <4> DEFINE n == o[1]
      <4>1. n \in DOMAIN s.plan /\ Len(s.plan[n].src) > 0
        BY <3>2 DEF P, Places
      <4> HIDE DEF n
      <4>2. s.plan[n].kind # "VALUES"
        BY <1>2, <4>1, KindsOf
      <4> QED
        BY <4>2 DEF n
    <3>4. Kind(s.plan, o) # "VALUES"
      BY <3>3 DEF Kind
    <3> QED
      BY <3>4 DEF o
  <2> QED
    BY <2>2, <2>3, <2>4 DEF q
<1> QED
  BY <1>1, <1>3, <1>4 DEF ds

\* Operator p ends a pipeline that is polled before pipeline d.
EndsEarlier(s, d, p) ==
  p \in DOMAIN s.op /\ \E e \in 1 .. Len(s.drivers) : e < d /\ s.drivers[e][Len(s.drivers[e])] = p

\* The builder of a source of an operator of pipeline d ends an earlier pipeline.
LEMMA BuildersEndEarlier ==
  ASSUME NEW s, IsStore(s), NEW d \in 1 .. Len(s.drivers), NEW k \in 1 .. Len(s.drivers[d]),
         NEW n, s.drivers[d][k][1] = n, s.drivers[d][k][2] = 1,
         NEW i \in 2 .. Len(s.plan[n].src)
  PROVE  EndsEarlier(s, d, <<n, i>>)
<1> DEFINE ds == s.drivers
<1>1. \A h \in 1 .. Len(ds[d]) : ds[d][h][2] = 1 =>
        \A j \in 2 .. Len(s.plan[ds[d][h][1]].src) :
          \E e \in 1 .. d - 1 : ds[e][Len(ds[e])] = <<ds[d][h][1], j>>
  BY Pipelines
<1>2. Len(ds) \in Nat
  BY Pipelines
<1> HIDE DEF ds
<1>3. \E e \in 1 .. d - 1 : ds[e][Len(ds[e])] = <<ds[d][k][1], i>>
  BY <1>1 DEF ds
<1>4. PICK e \in 1 .. d - 1 : ds[e][Len(ds[e])] = <<n, i>>
  BY <1>3 DEF ds
<1>5. e \in 1 .. Len(ds) /\ e < d
  BY <1>2 DEF ds
<1>6. Len(ds[e]) \in 1 .. Len(ds[e])
  <2>1. Len(ds[e]) \in Nat \ {0}
    BY <1>5, Pipelines DEF ds
  <2> DEFINE l == Len(ds[e])
  <2>2. l \in Nat \ {0}
    BY <2>1
  <2> HIDE DEF l
  <2>3. l \in 1 .. l
    BY <2>2
  <2> QED
    BY <2>3 DEF l
<1>7. <<n, i>> \in DOMAIN s.op
  <2>1. \A h \in 1 .. Len(ds[e]) : ds[e][h] \in DOMAIN s.op
    BY <1>5, Pipelines DEF ds
  <2>2. ds[e][Len(ds[e])] \in DOMAIN s.op
    BY <1>6, <2>1
  <2> QED
    BY <1>4, <2>2
<1> QED
  BY <1>4, <1>5, <1>7 DEF EndsEarlier, ds

\* The sources that have not ended can be counted.
LEMMA OpenIsFinite ==
  ASSUME NEW s, IsStore(s), NEW n \in DOMAIN s.plan
  PROVE  IsFiniteSet(Open(s, n)) /\ Cardinality(Open(s, n)) \in Nat
<1>1. Len(s.plan[n].src) \in Nat
  BY SourcesOf DEF IsStore
<1>2. IsFiniteSet(2 .. Len(s.plan[n].src))
  BY <1>1, FS_Interval
<1>3. Open(s, n) \subseteq 2 .. Len(s.plan[n].src)
  BY DEF Open
<1> QED
  BY <1>2, <1>3, FS_Subset, FS_CardinalityType

\* They depend on noMoreInput_ alone.
LEMMA OpenSame ==
  ASSUME NEW s, NEW t, t.plan = s.plan, DOMAIN t.op = DOMAIN s.op,
         \A p \in DOMAIN s.op : t.op[p].noMore = s.op[p].noMore, NEW n
  PROVE  Open(t, n) = Open(s, n)
  BY DEF Open

\* The order survives GetOutput of any operator.
LEMMA EmitsInOrder ==
  ASSUME NEW s, IsStore(s), InOrder(s), NEW o \in DOMAIN s.op, NEW t, Emits(s, t, o)
  PROVE  InOrder(t)
<1>1. IsStore(t) /\ t.plan = s.plan /\ DOMAIN t.op = DOMAIN s.op /\ DOMAIN t.table = DOMAIN s.table
  BY DEF Emits, IsStore
<1>2. \A p \in DOMAIN s.op : t.op[p].noMore = s.op[p].noMore /\ t.op[p].sources = s.op[p].sources
  BY DEF Emits
<1>3. Counted(t)
  BY <1>1, <1>2, OpenSame DEF InOrder, Counted
<1>4. ASSUME NEW p \in DOMAIN t.op PROVE BuiltBy(t, p) /\ Probed(t, p)
  <2>1. BuiltBy(s, p) /\ Probed(s, p) /\ p[1] \in DOMAIN s.table
    BY <1>1, KindIs DEF InOrder
  <2>2. s.table[p[1]].ready => t.table[p[1]].ready
    BY <2>1 DEF Emits
  <2>3. t.op[p].held # <<>> => s.op[p].held # <<>>
    BY <1>1 DEF Emits
  <2>4. BuiltBy(t, p)
    BY <1>1, <1>2, <2>1, <2>2 DEF BuiltBy, Emits
  <2>5. Probed(t, p)
    BY <1>1, <2>1, <2>2, <2>3 DEF Probed
  <2> QED
    BY <2>4, <2>5
<1> QED
  BY <1>3, <1>4 DEF InOrder

\* It survives AddInput, if a join that takes a batch has its table.
LEMMA AcceptsInOrder ==
  ASSUME NEW s, IsStore(s), InOrder(s), NEW o \in DOMAIN s.op, NEW t, Accepts(s, t, o),
         Kind(s.plan, o) \in Joins => s.table[o[1]].ready
  PROVE  InOrder(t)
<1>1. IsStore(t) /\ t.plan = s.plan /\ DOMAIN t.op = DOMAIN s.op /\ t.table = s.table
  BY DEF Accepts, IsStore
<1>2. \A p \in DOMAIN s.op : t.op[p].noMore = s.op[p].noMore /\ t.op[p].sources = s.op[p].sources
  BY DEF Accepts
<1>3. Counted(t)
  BY <1>1, <1>2, OpenSame DEF InOrder, Counted
<1>4. ASSUME NEW p \in DOMAIN t.op PROVE BuiltBy(t, p) /\ Probed(t, p)
  <2>1. BuiltBy(s, p) /\ Probed(s, p)
    BY <1>1 DEF InOrder
  <2>2. BuiltBy(t, p)
    BY <1>1, <1>2, <2>1 DEF BuiltBy, Accepts
  <2>3. Probed(t, p)
    BY <1>1, <2>1 DEF Probed, Accepts
  <2> QED
    BY <2>2, <2>3
<1> QED
  BY <1>3, <1>4 DEF InOrder

\* It survives what does not touch the operators.
LEMMA SameInOrder ==
  ASSUME NEW s, IsStore(s), InOrder(s), NEW t, SameOps(s, t)
  PROVE  InOrder(t) /\ IsStore(t) /\ t.drivers = s.drivers
<1>1. IsStore(t) /\ t.plan = s.plan /\ t.op = s.op /\ t.table = s.table /\ t.drivers = s.drivers
  BY DEF SameOps, IsStore
<1>2. Counted(t)
  BY <1>1, OpenSame DEF InOrder, Counted
<1>3. \A p \in DOMAIN t.op : BuiltBy(t, p) /\ Probed(t, p)
  BY <1>1 DEF InOrder, BuiltBy, Probed
<1> QED
  BY <1>1, <1>2, <1>3 DEF InOrder

\* It survives noMoreInput, which a driver calls once: a union then has one source less to
\* wait for, and there is one less that has not ended.
LEMMA EndsInOrder ==
  ASSUME NEW s, IsStore(s), InOrder(s), NEW o \in DOMAIN s.op, NEW t, Ends(s, t, o),
         ~s.op[o].noMore
  PROVE  InOrder(t)
<1> DEFINE m == o[1]
           c == <<m, 1>>
           k == Kind(s.plan, o)
<1>1. /\ IsStore(t) /\ t.plan = s.plan /\ DOMAIN t.op = DOMAIN s.op /\ t.table = s.table
      /\ m \in DOMAIN s.plan
  BY KindIs DEF Ends, IsStore
<1>2. ASSUME NEW p \in DOMAIN t.op PROVE BuiltBy(t, p) /\ Probed(t, p)
  <2>1. BuiltBy(s, p) /\ Probed(s, p)
    BY <1>1, <1>2 DEF InOrder
  <2>2. t.op[p].fin = s.op[p].fin /\ t.op[p].held = s.op[p].held
    BY <1>1 DEF Ends
  <2>3. CASE p \notin {o, c}
    BY <1>1, <2>1, <2>2, <2>3 DEF BuiltBy, Probed, Ends
  <2>4. CASE p = c
    <3>1. Kind(s.plan, p) # "UNION_BUILD"
      <4>1. p = <<p[1], 1>>
        BY <2>4
      <4> QED
        BY <1>1, <4>1, UnionKinds
    <3> QED
      BY <1>1, <2>1, <2>2, <3>1 DEF BuiltBy, Probed
  <2>5. CASE p = o
    BY <1>1, <2>1, <2>2, <2>5 DEF BuiltBy, Probed, Ends
  <2> QED
    BY <2>3, <2>4, <2>5
<1>3. ASSUME NEW n \in DOMAIN t.plan, t.plan[n].kind = "UNION", <<n, 1>> \in DOMAIN t.op
      PROVE  t.op[<<n, 1>>].sources <= 1 + Cardinality(Open(t, n))
  <2> DEFINE u == <<n, 1>>
  <2>1. /\ u \in DOMAIN s.op /\ s.op[u].sources <= 1 + Cardinality(Open(s, n))
        /\ s.op[u].sources \in Int
    BY <1>1, <1>3 DEF InOrder, Counted, IsStore, IsOp
  <2>2. Cardinality(Open(s, n)) \in Nat /\ IsFiniteSet(Open(s, n))
    BY <1>1, OpenIsFinite
  <2>3. CASE n = m /\ k = "UNION_BUILD"
    <3> DEFINE i == o[2]
    <3>1. o = <<n, i>> /\ i \in 2 .. Len(s.plan[n].src)
      <4>1. o \in Places(s.plan)
        BY KindIs
      <4>2. o = <<o[1], o[2]>>
        BY <4>1 DEF Places
      <4> QED
        BY <2>3, <4>2, UnionKinds
    <3>2. i \in Open(s, n)
      BY <3>1 DEF Open
    <3>3. Open(t, n) = Open(s, n) \ {i}
      <4>1. t.op[o].noMore
        BY <2>3 DEF Ends
      <4>2. ASSUME NEW j \in 2 .. Len(s.plan[n].src), j # i, <<n, j>> \in DOMAIN s.op
            PROVE  t.op[<<n, j>>].noMore = s.op[<<n, j>>].noMore
        <5>1. <<n, j>> # o /\ <<n, j>> # <<o[1], 1>>
          BY <3>1, <4>2
        <5> QED
          BY <4>2, <5>1 DEF Ends
      <4> HIDE DEF i
      <4>3. ASSUME NEW j \in 2 .. Len(s.plan[n].src)
            PROVE  j \in Open(t, n) <=> j \in Open(s, n) /\ j # i
        BY <1>1, <3>1, <4>1, <4>2 DEF Open
      <4> QED
        BY <1>1, <4>3 DEF Open
    <3>4. Cardinality(Open(t, n)) = Cardinality(Open(s, n)) - 1
      <4> DEFINE S == Open(s, n)
      <4>1. IsFiniteSet(S) /\ i \in S
        BY <2>2, <3>2
      <4> HIDE DEF S, i
      <4>2. Cardinality(S \ {i}) = Cardinality(S) - 1
        BY <4>1, FS_RemoveElement
      <4> QED
        BY <3>3, <4>2 DEF S
    <3>5. t.op[u].sources = s.op[u].sources - 1
      BY <2>1, <2>3 DEF Ends
    <3> DEFINE a == Cardinality(Open(s, n))
               b == Cardinality(Open(t, n))
               x == s.op[u].sources
               y == t.op[u].sources
    <3>6. a \in Nat /\ b = a - 1 /\ x \in Int /\ y = x - 1 /\ x <= 1 + a
      BY <2>1, <2>2, <3>4, <3>5
    <3> HIDE DEF a, b, x, y
    <3>7. y <= 1 + b
      BY <3>6
    <3> QED
      BY <3>7 DEF y, b
  <2>4. CASE ~ (n = m /\ k = "UNION_BUILD")
    <3>1. Open(t, n) = Open(s, n)
      <4>1. ASSUME NEW j \in 2 .. Len(s.plan[n].src), <<n, j>> \in DOMAIN s.op
            PROVE  t.op[<<n, j>>].noMore = s.op[<<n, j>>].noMore
        <5>1. Kind(s.plan, <<n, j>>) = "UNION_BUILD"
          BY <1>1, <1>3 DEF Kind
        <5>2. <<n, j>> # o
          BY <2>4, <5>1
        <5>3. <<n, j>> # <<o[1], 1>>
          OBVIOUS
        <5> QED
          BY <4>1, <5>2, <5>3 DEF Ends
      <4> QED
        BY <1>1, <4>1 DEF Open
    <3>2. t.op[u].sources \in {s.op[u].sources, s.op[u].sources - 1}
      BY <2>1 DEF Ends
    <3> DEFINE a == Cardinality(Open(s, n))
               x == s.op[u].sources
               y == t.op[u].sources
    <3>6. a \in Nat /\ x \in Int /\ y \in {x, x - 1} /\ x <= 1 + a
      BY <2>1, <2>2, <3>2
    <3> HIDE DEF a, x, y
    <3>7. y <= 1 + a
      BY <3>6
    <3> QED
      BY <3>1, <3>7 DEF y, a
  <2> QED
    BY <2>3, <2>4
<1>4. Counted(t)
  BY <1>3 DEF Counted
<1> QED
  BY <1>2, <1>4 DEF InOrder

\* A new store is in order.
LEMMA NewStoreInOrder ==
  ASSUME NEW p, IsPlan(p), NEW in
  PROVE  IsStore(NewStore(p, in)) /\ InOrder(NewStore(p, in))
<1> DEFINE s == NewStore(p, in)
<1>1. /\ s.plan = p /\ s.drivers = drivers(p) /\ DOMAIN s.op = OpsOf(s.drivers)
      /\ DOMAIN s = {"plan", "drivers", "op", "table", "made", "live", "freedTwice", "overwritten"}
      /\ DOMAIN s.table = DOMAIN p
      /\ \A n \in DOMAIN p : s.table[n] = [ready |-> FALSE, rows |-> <<>>, visited |-> {}]
  BY DEF NewStore
<1>2. ASSUME NEW o \in DOMAIN s.op
      PROVE  /\ DOMAIN s.op[o] = Fields /\ ~s.op[o].fin /\ ~s.op[o].noMore
             /\ s.op[o].fin \in BOOLEAN /\ s.op[o].noMore \in BOOLEAN
             /\ s.op[o].sources = Len(p[o[1]].src)
             /\ Kind(p, o) # "VALUES" => s.op[o].held = <<>>
  BY DEF NewStore, Fields
<1> HIDE DEF s
<1>3. ASSUME NEW n \in DOMAIN p PROVE IsTable(s.table[n])
  <2>1. s.table[n] = [ready |-> FALSE, rows |-> <<>>, visited |-> {}]
    BY <1>1
  <2> QED
    BY <2>1 DEF IsTable
<1>4. ASSUME NEW o \in DOMAIN s.op PROVE o \in Places(p) /\ Len(p[o[1]].src) \in Nat
  <2>1. o \in Places(p)
    <3>1. PICK d \in DOMAIN s.drivers : o \in ToSet(s.drivers[d])
      BY <1>1 DEF OpsOf
    <3> DEFINE P == Places(p)
               ds == s.drivers
    <3>2. ds \in Seq(Seq(P)) /\ d \in DOMAIN ds /\ o \in ToSet(ds[d])
      BY <1>1, <3>1, DriversOrdered DEF InPollingOrder
    <3> HIDE DEF P, ds
    <3>3. ds[d] \in Seq(P)
      BY <3>2
    <3>4. o \in P
      BY <3>2, <3>3 DEF ToSet
    <3> QED
      BY <3>4 DEF P
  <2>2. o[1] \in DOMAIN p
    BY <2>1 DEF Places
  <2> QED
    BY <2>1, <2>2, SourcesOf
<1>5. IsStore(s)
  <2>1. ASSUME NEW o \in DOMAIN s.op
        PROVE  IsOp(s.op[o]) /\ (Kind(p, o) # "VALUES" => Listed(s.op[o].held))
    BY <1>2, <1>4, ListedFacts DEF IsOp
  <2> QED
    BY <1>1, <1>3, <2>1 DEF IsStore
<1>6. ASSUME NEW n \in DOMAIN p, p[n].kind = "UNION", <<n, 1>> \in DOMAIN s.op
      PROVE  s.op[<<n, 1>>].sources <= 1 + Cardinality(Open(s, n))
  <2> DEFINE L == Len(p[n].src)
             c == <<n, 1>>
  <2>1. L \in Nat \ {0} /\ s.op[c].sources = L
    <3>1. L \in Nat /\ s.op[c].sources = L
      BY <1>2, <1>4, <1>6
    <3>2. L # 0
      BY <1>6 DEF IsPlan, Joins
    <3> QED
      BY <3>1, <3>2
  <2>2. PICK d \in 1 .. Len(s.drivers) : \E k \in 1 .. Len(s.drivers[d]) : s.drivers[d][k] = c
    <3>1. PICK d \in DOMAIN s.drivers : c \in ToSet(s.drivers[d])
      BY <1>1, <1>6 DEF OpsOf
    <3>2. d \in 1 .. Len(s.drivers) /\ DOMAIN s.drivers[d] = 1 .. Len(s.drivers[d])
      BY <1>5, <3>1, Pipelines
    <3> QED
      BY <3>1, <3>2 DEF ToSet
  <2>3. PICK k \in 1 .. Len(s.drivers[d]) : s.drivers[d][k] = c
    BY <2>2
  <2>4. ASSUME NEW i \in 2 .. L PROVE i \in Open(s, n)
    <3>1. s.drivers[d][k][1] = n /\ s.drivers[d][k][2] = 1 /\ i \in 2 .. Len(s.plan[n].src)
      BY <1>1, <2>3
    <3>2. EndsEarlier(s, d, <<n, i>>)
      BY <1>5, <2>2, <3>1, BuildersEndEarlier
    <3>4. <<n, i>> \in DOMAIN s.op
      BY <3>2 DEF EndsEarlier
    <3> QED
      BY <1>1, <1>2, <3>4 DEF Open
  <2>5. Open(s, n) = 2 .. L
    BY <1>1, <2>4 DEF Open
  <2>6. Cardinality(2 .. L) = L - 1
    <3> HIDE DEF L
    <3>1. Cardinality(2 .. L) = IF 2 > L THEN 0 ELSE L - 2 + 1
      BY <2>1, FS_Interval
    <3> QED
      BY <2>1, <3>1
  <2> HIDE DEF L
  <2> QED
    BY <2>1, <2>5, <2>6
<1>7. InOrder(s)
  <2>1. Counted(s)
    BY <1>1, <1>6 DEF Counted
  <2>2. \A o \in DOMAIN s.op : BuiltBy(s, o) /\ Probed(s, o)
    BY <1>1, <1>2 DEF BuiltBy, Probed, Joins
  <2> QED
    BY <2>1, <2>2 DEF InOrder
<1> QED
  BY <1>5, <1>7 DEF s

\* The invariant holds in the initial states.
LEMMA InitOrder == Init => OrderInv
<1> SUFFICES ASSUME Init PROVE OrderInv
  OBVIOUS
<1>1. PICK p \in Plans : store = NewStore(p, input)
  BY DEF Init
<1>2. IsStore(store) /\ InOrder(store)
  BY <1>1, PlansAssumption, NewStoreInOrder
<1>3. driver = 0 /\ cursor = 0 /\ finished = {}
  BY DEF Init
<1>4. Count \in Nat
  BY <1>2, Pipelines DEF Count
<1> QED
  BY <1>2, <1>3, <1>4 DEF OrderInv

\* The heart of the matter: what an operator of the running pipeline waits for
\* is built by pipelines that have been polled before it and have finished.
LEMMA NothingToWaitFor ==
  ASSUME OrderInv, driver \in 1 .. Count, NEW k \in 1 .. Len(Pipeline)
  PROVE  /\ Pipeline[k] \in Ops /\ ~IsBlocked(store, Pipeline[k])
         /\ Kind(plan, Pipeline[k]) \in Joins => store.table[Pipeline[k][1]].ready
<1> DEFINE o == Pipeline[k]
           n == o[1]
           L == Len(plan[n].src)
<1>1. IsStore(store) /\ InOrder(store) /\ IsPlan(plan)
  BY DEF OrderInv, IsStore, plan
<1>2. o \in DOMAIN store.op
  BY <1>1, Pipelines DEF Pipeline, Count
<1>3. n \in DOMAIN plan /\ o \in Places(plan)
  BY <1>1, <1>2, KindIs DEF plan
<1>4. ASSUME o[2] = 1, NEW i \in 2 .. L
      PROVE  <<n, i>> \in DOMAIN store.op /\ store.op[<<n, i>>].fin
  <2>0. Pipeline = store.drivers[driver] /\ Count = Len(store.drivers) /\ plan = store.plan
    BY DEF Pipeline, Count, plan
  <2>1. EndsEarlier(store, driver, <<n, i>>)
    BY <1>1, <1>4, <2>0, BuildersEndEarlier
  <2>2. PICK e \in 1 .. Count : e < driver /\ LastOf(e) = <<n, i>>
    BY <2>0, <2>1 DEF EndsEarlier, LastOf
  <2>3. e \in finished
    BY <2>2 DEF OrderInv
  <2> QED
    BY <2>1, <2>2, <2>3 DEF OrderInv, EndsEarlier
<1>5. Kind(plan, o) \in Joins => store.table[n].ready
  <2> SUFFICES ASSUME Kind(plan, o) \in Joins PROVE store.table[n].ready
    OBVIOUS
  <2>1. o[2] = 1 /\ plan[n].kind \in Joins
    BY DEF Kind, Joins
  <2>2. L = 2
    BY <1>1, <1>3, <2>1, KindsOf
  <2>3. <<n, 2>> \in DOMAIN store.op /\ store.op[<<n, 2>>].fin
    BY <1>4, <2>1, <2>2
  <2>4. Kind(plan, <<n, 2>>) = "HASH_BUILD"
    BY <2>1 DEF Kind, Joins
  <2> QED
    BY <1>1, <2>3, <2>4 DEF InOrder, BuiltBy, plan
<1>6. Kind(plan, o) = "UNION" => store.op[o].sources <= 1
  <2> SUFFICES ASSUME Kind(plan, o) = "UNION" PROVE store.op[o].sources <= 1
    OBVIOUS
  <2>1. o = <<n, 1>>
    BY <1>1, <1>2, UnionKinds DEF plan
  <2>2. plan[n].kind = "UNION" /\ o[2] = 1
    BY <2>1 DEF Kind
  <2>3. ASSUME NEW i \in 2 .. L PROVE i \notin Open(store, n)
    <3>1. <<n, i>> \in DOMAIN store.op /\ store.op[<<n, i>>].fin
      BY <1>4, <2>2
    <3>2. Kind(plan, <<n, i>>) = "UNION_BUILD"
      BY <2>2 DEF Kind
    <3>3. store.op[<<n, i>>].noMore
      BY <1>1, <3>1, <3>2 DEF InOrder, BuiltBy, plan
    <3> QED
      BY <3>3 DEF Open
  <2>4. Open(store, n) = {}
    BY <2>3 DEF Open, plan
  <2>5. Cardinality(Open(store, n)) = 0
    BY <2>4, FS_EmptySet
  <2>6. store.op[<<n, 1>>].sources <= 1 + Cardinality(Open(store, n))
    BY <1>1, <1>2, <1>3, <2>1, <2>2 DEF InOrder, Counted, plan
  <2>7. store.op[<<n, 1>>].sources \in Int
    BY <1>1, <1>2, <2>1 DEF IsStore, IsOp
  <2> HIDE DEF n, o
  <2> QED
    BY <2>1, <2>5, <2>6, <2>7
<1>7. ~IsBlocked(store, o)
  <2>1. Kind(plan, o) = "UNION" => ~(store.op[o].sources > 1)
    <3>1. store.op[o].sources \in Int
      BY <1>1, <1>2 DEF IsStore, IsOp
    <3> DEFINE x == store.op[o].sources
    <3> HIDE DEF x
    <3>2. x \in Int /\ x <= 1 => ~(x > 1)
      OBVIOUS
    <3> QED
      BY <1>6, <3>1, <3>2 DEF x
  <2> HIDE DEF o
  <2> QED
    BY <1>5, <2>1 DEF IsBlocked, plan, Joins, n
<1> QED
  BY <1>2, <1>5, <1>7 DEF Ops

\* The invariant after a step that changes neither the plan nor its pipelines.
LEMMA OrderKept ==
  ASSUME IsStore(store'), InOrder(store'), store'.drivers = store.drivers,
         driver' \in 0 .. Count + 1, finished' \in SUBSET (1 .. Count),
         cursor' # 0 => /\ driver' \in 1 .. Count /\ driver' \notin finished'
                        /\ cursor' \in 1 .. Len(store.drivers[driver']),
         closed' => driver' = 0,
         \A d \in 1 .. Count : d < driver' => d \in finished',
         \A d \in finished' : store'.op[LastOf(d)].fin
  PROVE  OrderInv'
<1>1. Count' = Count
  BY DEF Count
<1>2. \A d : LastOf(d)' = store'.drivers[d][Len(store'.drivers[d])]
  BY DEF LastOf
<1>3. \A d \in finished' : store'.op[store'.drivers[d][Len(store'.drivers[d])]].fin
  BY DEF LastOf
<1> QED
  BY <1>1, <1>3 DEF OrderInv, LastOf, Pipeline

\* While a driver runs, it is not blocked, and a join above its operator has its
\* table.
LEMMA WhileRunning ==
  ASSUME OrderInv, Running
  PROVE  /\ ~Blocked /\ Op \in DOMAIN store.op /\ IsStore(Got.store) /\ InOrder(Got.store)
         /\ Emits(store, Got.store, Op) /\ Got.store.drivers = store.drivers
         /\ DOMAIN Got.store.op = DOMAIN store.op /\ Got.store.plan = plan
         /\ Len(Pipeline) \in Nat \ {0} /\ cursor \in 1 .. Len(Pipeline) /\ Count \in Nat
         /\ driver \in 1 .. Count /\ driver \notin finished /\ ~closed
         /\ AtEnd => Op = LastOf(driver)
         /\ ~AtEnd => /\ cursor + 1 \in 1 .. Len(Pipeline) /\ After \in DOMAIN store.op
                      /\ Kind(plan, After) # "VALUES"
                      /\ Kind(plan, After) \in Joins => store.table[After[1]].ready
         /\ \A d \in finished : LastOf(d) \in DOMAIN store.op /\ Got.store.op[LastOf(d)].fin
<1>1. IsStore(store) /\ InOrder(store)
  BY DEF OrderInv
<1>2. Count \in Nat \ {0} /\ driver \in 1 .. Count
  BY <1>1, Pipelines DEF Count, Running
<1>3. Len(Pipeline) \in Nat \ {0}
  BY <1>1, <1>2, Pipelines DEF Count, Pipeline
<1>4. cursor \in 1 .. Len(Pipeline) /\ driver \notin finished
  <2>1. cursor # 0
    BY DEF Running
  <2> QED
    BY <2>1 DEF OrderInv
<1>5. Op \in DOMAIN store.op /\ ~IsBlocked(store, Op)
  BY <1>2, <1>4, NothingToWaitFor DEF Op, Ops
<1>6. ~AtEnd => cursor + 1 \in 1 .. Len(Pipeline) /\ cursor + 1 \in 2 .. Len(Pipeline)
  BY <1>3, <1>4 DEF AtEnd
<1>7. ~AtEnd => /\ After \in DOMAIN store.op /\ ~IsBlocked(store, After)
                /\ Kind(plan, After) # "VALUES"
                /\ Kind(plan, After) \in Joins => store.table[After[1]].ready
  <2> SUFFICES ASSUME ~AtEnd
               PROVE  /\ After \in DOMAIN store.op /\ ~IsBlocked(store, After)
                      /\ Kind(plan, After) # "VALUES"
                      /\ Kind(plan, After) \in Joins => store.table[After[1]].ready
    OBVIOUS
  <2>1. Kind(plan, After) # "VALUES"
    BY <1>1, <1>2, <1>6, Pipelines DEF After, Pipeline, Count, plan
  <2> QED
    BY <1>2, <1>6, <2>1, NothingToWaitFor DEF After, Ops
<1>8. Emits(store, Got.store, Op)
  BY <1>1, <1>5, GetOutputEmits DEF Got
<1>9. /\ IsStore(Got.store) /\ Got.store.plan = plan /\ DOMAIN Got.store.op = DOMAIN store.op
      /\ Got.store.drivers = store.drivers
  BY <1>1, <1>8 DEF Emits, IsStore, plan
<1>10. InOrder(Got.store)
  BY <1>1, <1>5, <1>8, EmitsInOrder
<1>11. ~Blocked
  BY <1>5, <1>7 DEF Blocked
<1>12. AtEnd => Op = LastOf(driver)
  BY DEF AtEnd, Op, LastOf, Pipeline
<1>13. ASSUME NEW d \in finished
       PROVE  LastOf(d) \in DOMAIN store.op /\ Got.store.op[LastOf(d)].fin
  <2>1. d \in 1 .. Count /\ store.op[LastOf(d)].fin
    BY DEF OrderInv
  <2>2. Len(store.drivers[d]) \in Nat \ {0}
        /\ \A k \in 1 .. Len(store.drivers[d]) : store.drivers[d][k] \in DOMAIN store.op
    BY <1>1, <2>1, Pipelines DEF Count
  <2>3. LastOf(d) \in DOMAIN store.op
    <3> DEFINE q == store.drivers[d]
    <3>1. Len(q) \in Nat \ {0} /\ \A k \in 1 .. Len(q) : q[k] \in DOMAIN store.op
      BY <2>2
    <3> HIDE DEF q
    <3>2. q[Len(q)] \in DOMAIN store.op
      BY <3>1
    <3> QED
      BY <3>2 DEF q, LastOf
  <2>4. Got.store.op[LastOf(d)].fin
    <3>1. CASE LastOf(d) = Op
      BY <1>8, <2>1, <3>1 DEF Emits
    <3>2. CASE LastOf(d) # Op
      BY <1>8, <2>1, <2>3, <3>2 DEF Emits
    <3> QED
      BY <3>1, <3>2
  <2> QED
    BY <2>3, <2>4
<1>14. ~closed
  BY <1>2 DEF OrderInv
<1> QED
  BY <1>2, <1>3, <1>4, <1>5, <1>6, <1>7, <1>8, <1>9, <1>10, <1>11, <1>12, <1>13, <1>14

\* A finite set can be listed.
LEMMA Listing ==
  ASSUME NEW S, IsFiniteSet(S)
  PROVE  /\ Cardinality(S) \in Nat
         /\ SetToSeq(S) \in [1 .. Cardinality(S) -> S] /\ IsInjective(SetToSeq(S))
<1>1. Cardinality(S) \in Nat /\ ExistsBijection(1 .. Cardinality(S), S)
  BY FS_CardinalityType
<1>2. \E f \in [1 .. Cardinality(S) -> S] : IsInjective(f)
  BY <1>1 DEF ExistsBijection, Bijection, Injection
<1> QED
  BY <1>1, <1>2 DEF SetToSeq

\* A plan has finitely many operators.
LEMMA OpsAreFinite ==
  ASSUME NEW s, IsStore(s) PROVE IsFiniteSet(DOMAIN s.op)
<1> DEFINE P == Places(s.plan)
           ds == s.drivers
<1>1. ds \in Seq(Seq(P)) /\ OpsOf(ds) = DOMAIN s.op
  BY DriversOrdered DEF IsStore, InPollingOrder
<1> HIDE DEF P, ds
<1>2. Len(ds) \in Nat /\ DOMAIN ds = 1 .. Len(ds)
  BY <1>1, LenProperties
<1> DEFINE F == {ToSet(ds[d]) : d \in DOMAIN ds}
           f == [d \in 1 .. Len(ds) |-> ToSet(ds[d])]
<1>3. IsFiniteSet(F)
  <2>1. f \in Surjection(1 .. Len(ds), F)
    BY <1>2 DEF Surjection
  <2>2. IsFiniteSet(1 .. Len(ds))
    BY <1>2, FS_Interval
  <2> HIDE DEF f, F
  <2> QED
    BY <2>1, <2>2, FS_Surjection
<1>4. ASSUME NEW d \in DOMAIN ds PROVE IsFiniteSet(ToSet(ds[d]))
  <2> DEFINE q == ds[d]
             g == [k \in 1 .. Len(q) |-> q[k]]
  <2>1. Len(q) \in Nat /\ DOMAIN q = 1 .. Len(q)
    BY <1>1, LenProperties
  <2> HIDE DEF q
  <2>2. g \in Surjection(1 .. Len(q), ToSet(q))
    BY <2>1 DEF Surjection, ToSet
  <2>3. IsFiniteSet(1 .. Len(q))
    BY <2>1, FS_Interval
  <2> HIDE DEF g
  <2>4. IsFiniteSet(ToSet(q))
    BY <2>2, <2>3, FS_Surjection
  <2> QED
    BY <2>4 DEF q
<1>5. \A T \in F : IsFiniteSet(T)
  BY <1>4
<1>6. UNION F = OpsOf(ds)
  BY DEF OpsOf
<1> HIDE DEF F
<1> QED
  BY <1>1, <1>3, <1>5, <1>6, FS_UNION

\* So what they hold can be put into one sequence.
LEMMA OwnedLists ==
  ASSUME NEW S, IsFiniteSet(S), \A h \in S : Listed(h)
  PROVE  /\ Len(FlattenSeq(SetToSeq(S))) \in Nat
         /\ DOMAIN FlattenSeq(SetToSeq(S)) = 1 .. Len(FlattenSeq(SetToSeq(S)))
<1> DEFINE ss == SetToSeq(S)
           A == UNION {ToSet(h) : h \in S}
<1>1. Cardinality(S) \in Nat /\ ss \in [1 .. Cardinality(S) -> S]
  BY Listing
<1>2. ASSUME NEW h \in S PROVE h \in Seq(A)
  <2>1. h \in Seq(ToSet(h)) /\ ToSet(h) \subseteq A
    BY DEF Listed
  <2> HIDE DEF A
  <2> QED
    BY <2>1
<1> HIDE DEF A, ss
<1>3. ss \in [1 .. Cardinality(S) -> Seq(A)]
  BY <1>1, <1>2
<1>4. ss \in Seq(Seq(A)) /\ Len(ss) \in Nat /\ DOMAIN ss = 1 .. Len(ss)
  BY <1>1, <1>3
<1>5. CASE Len(ss) = 0
  BY <1>4, <1>5 DEF FlattenSeq, ss
<1>6. CASE Len(ss) > 0
  <2>1. FlattenSeq(ss) \in Seq(A)
    BY <1>4, <1>6, Flattened
  <2> QED
    BY <2>1, LenProperties DEF ss
<1> QED
  BY <1>4, <1>5, <1>6

\* Close frees that sequence and does not touch the operators.
LEMMA CloseAllSame ==
  ASSUME NEW s, IsStore(s) PROVE SameOps(s, CloseAll(s))
<1> DEFINE owned(o) == IF Kind(s.plan, o) \in {"VALUES", "EXPAND"} THEN <<>> ELSE s.op[o].held
           S == {owned(o) : o \in DOMAIN s.op}
           f == [o \in DOMAIN s.op |-> owned(o)]
<1>1. IsFiniteSet(S)
  <2>1. f \in Surjection(DOMAIN s.op, S)
    BY DEF Surjection
  <2>2. IsFiniteSet(DOMAIN s.op)
    BY OpsAreFinite
  <2> HIDE DEF f, S
  <2> QED
    BY <2>1, <2>2, FS_Surjection
<1>2. ASSUME NEW o \in DOMAIN s.op PROVE Listed(owned(o))
  <2>1. CASE Kind(s.plan, o) \in {"VALUES", "EXPAND"}
    BY <2>1 DEF Listed
  <2>2. CASE Kind(s.plan, o) \notin {"VALUES", "EXPAND"}
    BY <2>2 DEF IsStore
  <2> QED
    BY <2>1, <2>2
<1>3. CloseAll(s) = FreeAll(s, FlattenSeq(SetToSeq(S)))
  BY DEF CloseAll
<1> DEFINE h == FlattenSeq(SetToSeq(S))
<1>4. Len(h) \in Nat /\ DOMAIN h = 1 .. Len(h)
  BY <1>1, <1>2, OwnedLists
<1> HIDE DEF h, S
<1> QED
  BY <1>3, <1>4, FreeAllSame DEF h

\* The driver goes down one operator, or to the last one from the first.
LEMMA DownStays ==
  ASSUME NEW l \in Nat \ {0}, NEW c \in 1 .. l, NEW e, e = IF c = 1 THEN l ELSE c - 1
  PROVE  e \in 1 .. l
  OBVIOUS

\* The steps of OmniTask::Next and of Close keep the invariant.
LEMMA OrderOfCalls ==
  ASSUME OrderInv, Call \/ PollFinished \/ Poll \/ PollAgain \/ ReturnEnd \/ Close \/ UNCHANGED vars
  PROVE  OrderInv'
<1>1. /\ IsStore(store) /\ InOrder(store) /\ Count \in Nat
      /\ \A d \in finished : d \in 1 .. Count /\ store.op[LastOf(d)].fin
      /\ driver \in 0 .. Count + 1
  BY Pipelines DEF OrderInv, Count
<1>2. CASE Call
  <2>1. /\ store' = store /\ cursor' = cursor /\ finished' = finished /\ closed' = closed
        /\ driver = 0 /\ driver' = 1 /\ ~closed
    BY <1>2 DEF Call
  <2>2. cursor = 0
    BY <2>1 DEF OrderInv
  <2>3. Count \in Nat \ {0}
    BY <1>1, Pipelines DEF Count
  <2> QED
    BY <1>1, <2>1, <2>2, <2>3, OrderKept DEF OrderInv
<1>3. CASE PollFinished
  <2>1. /\ store' = store /\ cursor' = cursor /\ finished' = finished /\ closed' = closed
        /\ driver \in finished /\ driver' = driver + 1 /\ cursor = 0
    BY <1>3 DEF PollFinished
  <2>2. driver \in 1 .. Count
    BY <1>1, <2>1
  <2>3. ~closed /\ \A d \in 1 .. Count : d < driver' => d \in finished
    BY <1>1, <2>1, <2>2 DEF OrderInv
  <2> QED
    BY <1>1, <2>1, <2>2, <2>3, OrderKept DEF OrderInv
<1>4. CASE Poll
  <2>1. /\ store' = store /\ cursor' = Len(Pipeline) /\ finished' = finished /\ closed' = closed
        /\ driver' = driver /\ driver \in 1 .. Count /\ driver \notin finished
    BY <1>4 DEF Poll
  <2>2. Len(Pipeline) \in Nat \ {0}
    BY <1>1, <2>1, Pipelines DEF Pipeline, Count
  <2>3. cursor' \in 1 .. Len(store.drivers[driver'])
    BY <2>1, <2>2 DEF Pipeline
  <2> QED
    BY <1>1, <2>1, <2>3, OrderKept DEF OrderInv
<1>5. CASE PollAgain
  <2>1. /\ store' = store /\ cursor' = cursor /\ finished' = finished /\ closed' = closed
        /\ driver = Count + 1 /\ driver' = 1
    BY <1>5 DEF PollAgain
  <2>2. cursor = 0 /\ ~closed
    BY <1>1, <2>1 DEF OrderInv
  <2> QED
    BY <1>1, <2>1, <2>2, OrderKept DEF OrderInv
<1>6. CASE ReturnEnd
  <2>1. /\ store' = store /\ cursor' = cursor /\ finished' = finished /\ closed' = closed
        /\ driver = Count + 1 /\ driver' = 0
    BY <1>6 DEF ReturnEnd
  <2>2. cursor = 0
    BY <1>1, <2>1 DEF OrderInv
  <2> QED
    BY <1>1, <2>1, <2>2, OrderKept DEF OrderInv
<1>7. CASE Close
  <2>1. /\ store' = CloseAll(store) /\ cursor' = cursor /\ finished' = finished
        /\ driver = 0 /\ driver' = 0
    BY <1>7 DEF Close
  <2>2. cursor = 0
    BY <2>1 DEF OrderInv
  <2>3. SameOps(store, store')
    BY <1>1, <2>1, CloseAllSame
  <2>4. IsStore(store') /\ InOrder(store') /\ store'.drivers = store.drivers /\ store'.op = store.op
    BY <1>1, <2>3, SameInOrder DEF SameOps
  <2> QED
    BY <1>1, <2>1, <2>2, <2>4, OrderKept DEF OrderInv
<1>8. CASE UNCHANGED vars
  BY <1>8 DEF vars, OrderInv, Count, Pipeline, LastOf
<1> QED
  BY <1>2, <1>3, <1>4, <1>5, <1>6, <1>7, <1>8

\* The steps of OmniDriver::RunInternal keep it.
LEMMA OrderOfSteps ==
  ASSUME OrderInv, Skip \/ Feed \/ Dry \/ EndOfInput \/ Deliver \/ SinkDry \/ ReturnNothing
  PROVE  OrderInv'
<1>0. Running
  BY DEF Skip, Feed, Dry, EndOfInput, Deliver, SinkDry, ReturnNothing, Between, Sink
<1>1. /\ ~Blocked /\ Op \in DOMAIN store.op /\ IsStore(Got.store) /\ InOrder(Got.store)
      /\ Emits(store, Got.store, Op) /\ Got.store.drivers = store.drivers
      /\ DOMAIN Got.store.op = DOMAIN store.op /\ Got.store.plan = plan
      /\ Len(Pipeline) \in Nat \ {0} /\ cursor \in 1 .. Len(Pipeline) /\ Count \in Nat
      /\ driver \in 1 .. Count /\ driver \notin finished /\ ~closed
  BY <1>0, WhileRunning
<1>2. /\ AtEnd => Op = LastOf(driver)
      /\ ~AtEnd => /\ cursor + 1 \in 1 .. Len(Pipeline) /\ After \in DOMAIN store.op
                   /\ Kind(plan, After) # "VALUES"
                   /\ Kind(plan, After) \in Joins => store.table[After[1]].ready
      /\ \A d \in finished : LastOf(d) \in DOMAIN store.op /\ Got.store.op[LastOf(d)].fin
  BY <1>0, WhileRunning
<1>3. /\ IsStore(store) /\ InOrder(store) /\ finished \in SUBSET (1 .. Count)
      /\ \A d \in finished : d \in 1 .. Count /\ store.op[LastOf(d)].fin
      /\ \A d \in 1 .. Count : d < driver => d \in finished
  BY DEF OrderInv
<1>4. Down => cursor' \in 1 .. Len(Pipeline)
  BY <1>1, DownStays DEF Down
\* A step that stays in the pipeline and finishes nothing.
<1>5. ASSUME IsStore(store'), InOrder(store'), store'.drivers = store.drivers,
             driver' = driver, finished' = finished, closed' = closed,
             cursor' \in 1 .. Len(Pipeline), \A d \in finished : store'.op[LastOf(d)].fin
      PROVE  OrderInv'
  BY <1>1, <1>3, <1>5, OrderKept DEF Pipeline
<1>6. CASE Skip
  <2>1. store' = store /\ driver' = driver /\ finished' = finished /\ closed' = closed /\ Down
    BY <1>6 DEF Skip, Unchanged
  <2> QED
    BY <1>3, <1>4, <1>5, <2>1
<1>7. CASE Feed
  <2>1. /\ store' = AddInput(Got.store, After, Got.out) /\ cursor' = cursor + 1
        /\ driver' = driver /\ finished' = finished /\ closed' = closed
        /\ ~AtEnd /\ needsInput(store, After)
    BY <1>7 DEF Feed, Between, Unchanged
  <2>2. Accepts(Got.store, store', After)
    BY <1>1, <1>2, <2>1, AddInputAccepts
  <2>3. Kind(plan, After) \in Joins => Got.store.table[After[1]].ready
    <3>1. After[1] \in DOMAIN store.table
      BY <1>2, <1>3, <2>1, KindIs
    <3> QED
      BY <1>1, <1>2, <2>1, <3>1 DEF Emits
  <2>4. InOrder(store')
    BY <1>1, <1>2, <2>1, <2>2, <2>3, AcceptsInOrder
  <2>5. IsStore(store') /\ store'.drivers = store.drivers
    BY <1>1, <2>2 DEF Accepts, IsStore
  <2>6. ASSUME NEW d \in finished PROVE store'.op[LastOf(d)].fin
    <3>1. LastOf(d) # After
      BY <1>3, <2>1 DEF needsInput
    <3>2. LastOf(d) \in DOMAIN Got.store.op /\ Got.store.op[LastOf(d)].fin
      BY <1>1, <1>2
    <3> QED
      BY <2>2, <3>1, <3>2 DEF Accepts
  <2> QED
    BY <1>2, <1>5, <2>1, <2>4, <2>5, <2>6
<1>8. CASE Dry
  <2>1. store' = Got.store /\ driver' = driver /\ finished' = finished /\ closed' = closed /\ Down
    BY <1>8 DEF Dry, Between, Unchanged
  <2> QED
    BY <1>1, <1>2, <1>4, <1>5, <2>1
<1>9. CASE EndOfInput
  <2>1. /\ store' = noMoreInput(Got.store, After) /\ cursor' = Len(Pipeline)
        /\ driver' = driver /\ finished' = finished /\ closed' = closed
        /\ ~AtEnd /\ needsInput(store, After)
    BY <1>9 DEF EndOfInput, Between, Unchanged
  <2>2. Ends(Got.store, store', After)
    BY <1>1, <1>2, <2>1, NoMoreInputEnds
  <2>3. ~Got.store.op[After].noMore
    <3>1. ~store.op[After].noMore
      BY <2>1 DEF needsInput
    <3> QED
      BY <1>1, <1>2, <2>1, <3>1 DEF Emits
  <2>4. InOrder(store')
    BY <1>1, <1>2, <2>1, <2>2, <2>3, EndsInOrder
  <2>5. IsStore(store') /\ store'.drivers = store.drivers
    BY <1>1, <2>2 DEF Ends, IsStore
  <2>6. ASSUME NEW d \in finished PROVE store'.op[LastOf(d)].fin
    <3>1. LastOf(d) \in DOMAIN Got.store.op /\ Got.store.op[LastOf(d)].fin
      BY <1>1, <1>2
    <3> QED
      BY <2>2, <3>1 DEF Ends
  <2>7. cursor' \in 1 .. Len(Pipeline)
    BY <1>1, <2>1
  <2> QED
    BY <1>5, <2>1, <2>4, <2>5, <2>6, <2>7
<1>10. CASE Deliver
  <2>1. /\ store' = Free(Got.store, Got.out) /\ cursor' = 0 /\ driver' = 0 /\ closed' = closed
        /\ finished' = (IF Done THEN finished \union {driver} ELSE finished) /\ AtEnd
    BY <1>10 DEF Deliver, Sink, Unchanged
  <2>2. SameOps(Got.store, store')
    BY <1>1, <2>1, FreeSame
  <2>3. IsStore(store') /\ InOrder(store') /\ store'.drivers = store.drivers
        /\ store'.op = Got.store.op
    BY <1>1, <2>2, SameInOrder DEF SameOps
  <2>4. \A d \in finished' : store'.op[LastOf(d)].fin
    BY <1>2, <2>1, <2>3 DEF Done
  <2>5. finished' \in SUBSET (1 .. Count)
    BY <1>1, <1>3, <2>1
  <2>6. \A d \in 1 .. Count : ~(d < driver')
    BY <1>1, <2>1
  <2> QED
    BY <1>1, <2>1, <2>3, <2>4, <2>5, <2>6, OrderKept
<1>11. CASE SinkDry
  <2>1. /\ store' = Got.store /\ driver' = driver /\ closed' = closed /\ Down
        /\ finished' = finished
    BY <1>11 DEF SinkDry, Sink, Unchanged
  <2> QED
    BY <1>1, <1>2, <1>4, <1>5, <2>1
<1>12. CASE ReturnNothing
  <2>1. /\ store' = Got.store /\ cursor' = 0 /\ driver' = driver + 1 /\ closed' = closed
        /\ finished' = finished \union {driver} /\ AtEnd /\ Done
    BY <1>1, <1>12 DEF ReturnNothing, ReturnNull, Unchanged
  <2>2. \A d \in finished' : store'.op[LastOf(d)].fin
    BY <1>2, <2>1 DEF Done
  <2>3. finished' \in SUBSET (1 .. Count)
    BY <1>1, <1>3, <2>1
  <2>4. \A d \in 1 .. Count : d < driver' => d \in finished'
    BY <1>1, <1>3, <2>1
  <2>5. driver' \in 0 .. Count + 1
    BY <1>1, <2>1
  <2> QED
    BY <1>1, <2>1, <2>2, <2>3, <2>4, <2>5, OrderKept
<1> QED
  BY <1>6, <1>7, <1>8, <1>9, <1>10, <1>11, <1>12

\* Every step keeps the invariant.
LEMMA OrderNext == OrderInv /\ [Next \/ Closed]_vars => OrderInv'
  BY OrderOfCalls, OrderOfSteps DEF Next, Step, Closed

\* Whatever the plan, its batches and the calls: a pipeline is polled only when all
\* before it have finished, and a union waits for no more sources than have not
\* ended.
THEOREM PollingInOrder == Spec => []OrderInv
  BY InitOrder, OrderNext, PTL DEF Spec

\* The invariant says more than the two properties.
LEMMA OrderImplies == OrderInv => NoDriverWaits /\ ProbedWhenBuilt
<1> SUFFICES ASSUME OrderInv PROVE NoDriverWaits /\ ProbedWhenBuilt
  OBVIOUS
<1>1. NoDriverWaits
  BY WhileRunning DEF NoDriverWaits
<1>2. ProbedWhenBuilt
  BY DEF ProbedWhenBuilt, OrderInv, InOrder, Probed, Ops, plan
<1> QED
  BY <1>1, <1>2

\* For every plan that is a tree: the order in which local_planner.cpp plans and
\* OmniTask::Next polls the pipelines lets no driver ever find an operator blocked.
THEOREM NoDriverEverWaits == Spec => []NoDriverWaits
  BY PollingInOrder, OrderImplies, PTL

\* For every such plan: no join, not even a LookupJoinWrapper, which does not
\* override IsBlocked, ever holds a batch to probe with before its table is built.
THEOREM TablesAreBuilt == Spec => []ProbedWhenBuilt
  BY PollingInOrder, OrderImplies, PTL

-----------------------------------------------------------------------------
(* Every batch is freed once.                                              *)

\* The positions of held where an operator of kind k has a batch of its own: a
\* ValueStream has only what its iterator will give, and what a union has handed
\* out is no longer its own.
Own(k, r) == {i \in DOMAIN r.held : k # "VALUES" /\ (k = "UNION" => i > r.at)}

\* Their identities.
OwnIds(k, r) == {r.held[i].id : i \in Own(k, r)}

\* The operators with a slot.
Slots == {"FILTER", "PROJECT", "EXPAND", "LIMIT", "INNER", "LEFT", "FULL"}

\* No batch is held twice, a slot holds at most one, and a union has always more
\* batches than it has handed out.
Neat(k, r) ==
  /\ \A i, j \in Own(k, r) : r.held[i].id = r.held[j].id => i = j
  /\ k \in Slots => Len(r.held) <= 1
  /\ k = "UNION" => /\ r.at \in Nat
                    /\ IF r.held = <<>> THEN r.at = 0 ELSE r.at < Len(r.held)

\* The identities of the batches of operator o.
Ids(s, o) == OwnIds(Kind(s.plan, o), s.op[o])

\* The books of a task while the batches of X are on the way from one operator to
\* the next: every operator's batches are alive and its own, and nothing else is
\* alive unless a slot was overwritten.
Ledger(s, X) ==
  /\ s.made \in Nat /\ s.live \subseteq 1 .. s.made /\ s.freedTwice = {} /\ X \subseteq s.live
  /\ \A o \in DOMAIN s.op : Neat(Kind(s.plan, o), s.op[o]) /\ Ids(s, o) \subseteq s.live \ X
  /\ \A o, p \in DOMAIN s.op : o # p => Ids(s, o) \cap Ids(s, p) = {}
  /\ s.overwritten = {} =>
       \A x \in s.live \ X : \E o \in DOMAIN s.op : x \in Ids(s, o)

\* The inductive invariant: the books are right as long as the task lives.
LedgerInv ==
  /\ OrderInv
  /\ ~closed => Ledger(store, {})
  /\ FreedExactlyOnce

\* Operator o turns s into t.  It takes the batches of X and hands out those of
\* Y; what it frees it has been given or had, and what it has then, too, unless
\* it is new.
Turn(s, t, o, X, Y) ==
  /\ t.made \in Nat /\ t.live \subseteq 1 .. t.made /\ t.freedTwice = {} /\ Y \subseteq t.live
  /\ Neat(Kind(s.plan, o), t.op[o]) /\ Ids(t, o) \subseteq t.live \ Y
  /\ s.live \ t.live \subseteq X \union Ids(s, o)
  /\ Ids(t, o) \union Y \subseteq X \union Ids(s, o) \union (t.live \ s.live)
  /\ t.overwritten = {} =>
       /\ s.overwritten = {}
       /\ t.live \subseteq (s.live \ (X \union Ids(s, o))) \union Ids(t, o) \union Y

\* A turn of one operator keeps the books.
LEMMA TurnKeeps ==
  ASSUME NEW s, NEW t, NEW o \in DOMAIN s.op, NEW X, NEW Y, Ledger(s, X), Turn(s, t, o, X, Y),
         t.plan = s.plan, DOMAIN t.op = DOMAIN s.op,
         \A p \in DOMAIN s.op \ {o} : t.op[p] = s.op[p]
  PROVE  Ledger(t, Y)
<1>1. \A p \in DOMAIN s.op \ {o} : Ids(t, p) = Ids(s, p)
  BY DEF Ids
<1>2. /\ \A p \in DOMAIN s.op : Neat(Kind(s.plan, p), s.op[p]) /\ Ids(s, p) \subseteq s.live \ X
      /\ \A p, q \in DOMAIN s.op : p # q => Ids(s, p) \cap Ids(s, q) = {}
  BY DEF Ledger
<1>3. /\ Neat(Kind(s.plan, o), t.op[o]) /\ Ids(t, o) \subseteq t.live \ Y
      /\ s.live \ t.live \subseteq X \union Ids(s, o)
      /\ Ids(t, o) \union Y \subseteq X \union Ids(s, o) \union (t.live \ s.live)
  BY DEF Turn
<1>4. \A p \in DOMAIN s.op \ {o} : Ids(t, p) \subseteq t.live \ Y /\ Ids(t, p) \cap Ids(t, o) = {}
  BY <1>1, <1>2, <1>3
<1>5. \A p \in DOMAIN t.op : Neat(Kind(t.plan, p), t.op[p]) /\ Ids(t, p) \subseteq t.live \ Y
  BY <1>2, <1>3, <1>4
<1>6. \A p, q \in DOMAIN t.op : p # q => Ids(t, p) \cap Ids(t, q) = {}
  BY <1>1, <1>2, <1>4
<1>7. ASSUME t.overwritten = {}, NEW x \in t.live \ Y
      PROVE  \E p \in DOMAIN t.op : x \in Ids(t, p)
  <2>1. /\ s.overwritten = {}
        /\ x \in (s.live \ (X \union Ids(s, o))) \union Ids(t, o)
    BY <1>7 DEF Turn
  <2>2. CASE x \in Ids(t, o)
    BY <2>2
  <2>3. CASE x \in s.live \ (X \union Ids(s, o))
    <3>1. PICK p \in DOMAIN s.op : x \in Ids(s, p)
      BY <2>1, <2>3 DEF Ledger
    <3> QED
      BY <1>1, <2>3, <3>1
  <2> QED
    BY <2>1, <2>2, <2>3
<1> QED
  BY <1>5, <1>6, <1>7 DEF Ledger, Turn

\* What freeing a batch that is alive does.
LEMMA FreeLive ==
  ASSUME NEW s, IsStore(s), NEW b, b.id \in s.live
  PROVE  Free(s, b) = [s EXCEPT !.live = @ \ {b.id}]
  BY DEF Free

\* Freeing batches that are alive, each another one.
FreedAll(s, h, t) ==
  /\ SameOps(s, t) /\ t.made = s.made /\ t.freedTwice = s.freedTwice
  /\ t.overwritten = s.overwritten
  /\ t.live = s.live \ {h[i].id : i \in 1 .. Len(h)}

\* So every batch of a sequence is freed, and only those.
LEMMA FreeAllLive ==
  ASSUME NEW s, IsStore(s), NEW h, Len(h) \in Nat, DOMAIN h = 1 .. Len(h),
         \A i \in 1 .. Len(h) : h[i].id \in s.live,
         \A i, j \in 1 .. Len(h) : h[i].id = h[j].id => i = j
  PROVE  FreedAll(s, h, FreeAll(s, h))
<1> DEFINE n == Len(h)
           Upto1(i) == {h[j].id : j \in 1 .. i}
           Good(i, t) == /\ SameOps(s, t) /\ t.made = s.made /\ t.freedTwice = s.freedTwice
                         /\ t.overwritten = s.overwritten /\ t.live = s.live \ Upto1(i)
<1>1. PICK f : FreesEach(s, h, f) /\ FreeAll(s, h) = f[n]
  BY FreeAllFrees
<1> DEFINE B == {i \in 0 .. n : ~ Good(i, f[i])}
<1>2. n \in Nat /\ n \in 0 .. n
  OBVIOUS
<1> SUFFICES ASSUME B # {} PROVE FALSE
  <2>1. Good(n, f[n])
    BY <1>2
  <2> QED
    BY <1>1, <2>1 DEF FreedAll
<1>3. PICK m \in B : \A i \in B : m <= i
  <2>1. B \in SUBSET Nat
    BY <1>2
  <2> HIDE DEF B
  <2> QED
    BY <2>1, LeastNatural
<1>4. m # 0
  <2>1. SameOps(s, s) /\ f[0] = s
    BY <1>1 DEF SameOps, FreesEach
  <2>2. Upto1(0) = {}
    OBVIOUS
  <2> HIDE DEF Upto1
  <2>3. Good(0, s)
    BY <2>1, <2>2
  <2> QED
    BY <1>3, <2>1, <2>3
<1>5. m \in 1 .. n /\ m - 1 \in 0 .. n /\ m - 1 \notin B
  BY <1>2, <1>3, <1>4
<1>6. Good(m - 1, f[m - 1]) /\ ~ Good(m, f[m])
  BY <1>3, <1>5
<1>7. f[m] = Free(f[m - 1], h[m])
  BY <1>1, <1>5 DEF FreesEach
<1>8. h[m].id \in s.live /\ h[m].id \notin Upto1(m - 1) /\ Upto1(m) = Upto1(m - 1) \union {h[m].id}
  <2>1. \A j \in 1 .. m - 1 : j \in 1 .. n /\ j # m /\ h[j].id # h[m].id
    BY <1>2, <1>5
  <2>2. 1 .. m = (1 .. m - 1) \union {m}
    BY <1>5
  <2> QED
    BY <1>5, <2>1, <2>2
<1> HIDE DEF Upto1, B
<1>9. IsStore(f[m - 1]) /\ h[m].id \in f[m - 1].live
  BY <1>6, <1>8 DEF SameOps
<1>10. SameOps(f[m - 1], f[m]) /\ f[m] = [f[m - 1] EXCEPT !.live = @ \ {h[m].id}]
  <2> DEFINE r == f[m - 1]
             b == h[m]
  <2>1. IsStore(r) /\ b.id \in r.live /\ f[m] = Free(r, b)
    BY <1>7, <1>9
  <2> HIDE DEF r, b
  <2>2. SameOps(r, f[m]) /\ f[m] = [r EXCEPT !.live = @ \ {b.id}]
    BY <2>1, FreeLive, FreeSame
  <2> QED
    BY <2>2 DEF r, b
<1>11. /\ f[m].made = f[m - 1].made /\ f[m].freedTwice = f[m - 1].freedTwice
       /\ f[m].overwritten = f[m - 1].overwritten /\ f[m].live = f[m - 1].live \ {h[m].id}
  BY <1>9, <1>10 DEF IsStore
<1>12. SameOps(s, f[m])
  BY <1>6, <1>10 DEF SameOps
<1> QED
  BY <1>6, <1>8, <1>11, <1>12

\* An empty record owns no batch.
LEMMA OwnsNone ==
  ASSUME NEW k, NEW r, r.held = <<>>, k = "UNION" => r.at = 0
  PROVE  OwnIds(k, r) = {} /\ Neat(k, r)
<1>1. Own(k, r) = {}
  BY DEF Own
<1> QED
  BY <1>1 DEF OwnIds, Neat

\* A record of one batch owns that one.
LEMMA OwnsOne ==
  ASSUME NEW k \in Slots, NEW r, NEW b, r.held = <<b>>
  PROVE  OwnIds(k, r) = {b.id} /\ Neat(k, r)
<1>1. k # "VALUES" /\ k # "UNION"
  BY DEF Slots
<1>2. Own(k, r) = {1} /\ r.held[1] = b /\ Len(r.held) = 1
  BY <1>1 DEF Own
<1> QED
  BY <1>1, <1>2 DEF OwnIds, Neat

\* Two records that hold the same own the same.
LEMMA OwnsSame ==
  ASSUME NEW k, NEW r, NEW q, q.held = r.held, k = "UNION" => q.at = r.at
  PROVE  OwnIds(k, q) = OwnIds(k, r) /\ (Neat(k, r) => Neat(k, q))
<1>1. Own(k, q) = Own(k, r)
  BY DEF Own
<1> QED
  BY <1>1 DEF OwnIds, Neat

\* Whatever is neither a ValueStream nor a Union owns all it holds.
LEMMA HeldIds ==
  ASSUME NEW k, k \notin {"VALUES", "UNION"}, NEW r
  PROVE  /\ OwnIds(k, r) = {r.held[i].id : i \in DOMAIN r.held}
         /\ Neat(k, r) <=> /\ \A i, j \in DOMAIN r.held : r.held[i].id = r.held[j].id => i = j
                           /\ k \in Slots => Len(r.held) <= 1
<1>1. Own(k, r) = DOMAIN r.held
  BY DEF Own
<1> QED
  BY <1>1 DEF OwnIds, Neat

\* A slot holds one batch or none.
LEMMA SlotHolds ==
  ASSUME NEW k \in Slots, NEW r, Listed(r.held), Neat(k, r)
  PROVE  r.held = <<>> \/ r.held = <<r.held[1]>>
<1>1. r.held \in Seq(ToSet(r.held)) /\ Len(r.held) <= 1
  BY DEF Listed, Neat
<1> DEFINE h == r.held
           S == ToSet(h)
<1>2. h \in Seq(S) /\ Len(h) <= 1
  BY <1>1
<1> HIDE DEF h, S
<1>3. h = <<>> \/ h = <<h[1]>>
  <2>1. Len(h) \in Nat /\ DOMAIN h = 1 .. Len(h)
    BY <1>2
  <2>2. Len(h) = 0 \/ Len(h) = 1
    BY <1>2, <2>1
  <2>3. CASE Len(h) = 0
    BY <1>2, <2>3
  <2>4. CASE Len(h) = 1
    BY <1>2, <2>4
  <2> QED
    BY <2>2, <2>3, <2>4
<1> QED
  BY <1>3 DEF h

\* A new batch is in nobody's books yet.
LEMMA NewIsFresh ==
  ASSUME NEW s, NEW X, Ledger(s, X)
  PROVE  /\ s.made + 1 \notin s.live /\ s.made + 1 # 0 /\ s.made + 1 \in Nat
         /\ s.live \union {s.made + 1} \subseteq 1 .. (s.made + 1)
  BY DEF Ledger

\* t has the books of s.
SameBooks(s, t) ==
  /\ t.made = s.made /\ t.live = s.live /\ t.freedTwice = s.freedTwice
  /\ t.overwritten = s.overwritten

\* Operator o has handed out b, or nothing.
Flying(b) == IF b = NoBatch THEN {} ELSE {b.id}

\* What GetOutput has to do: hand out a batch that is its own no longer.
Hands(s, o, g) == Turn(s, g.store, o, {}, Flying(g.out))

\* A step that changes no batch is a turn.
LEMMA TurnsNothing ==
  ASSUME NEW s, NEW t, NEW o \in DOMAIN s.op, Ledger(s, {}), SameBooks(s, t),
         Neat(Kind(s.plan, o), t.op[o]), Ids(t, o) = Ids(s, o)
  PROVE  Turn(s, t, o, {}, {})
<1>1. Ids(s, o) \subseteq s.live
  BY DEF Ledger
<1> QED
  BY <1>1 DEF Turn, Ledger, SameBooks

\* Handing out a new batch is one.
LEMMA TurnsMade ==
  ASSUME NEW s, NEW t, NEW o \in DOMAIN s.op, Ledger(s, {}),
         t.made = s.made + 1, t.live = s.live \union {s.made + 1},
         t.freedTwice = s.freedTwice, t.overwritten = s.overwritten,
         Neat(Kind(s.plan, o), t.op[o]), Ids(t, o) = Ids(s, o)
  PROVE  Turn(s, t, o, {}, {s.made + 1})
<1>1. Ids(s, o) \subseteq s.live
  BY DEF Ledger
<1>2. /\ s.made + 1 \notin s.live /\ s.made + 1 \in Nat
      /\ s.live \union {s.made + 1} \subseteq 1 .. (s.made + 1)
  BY NewIsFresh
<1> DEFINE n == s.made + 1
<1> HIDE DEF n
<1>3. n \notin s.live /\ n \in Nat /\ t.made = n /\ t.live = s.live \union {n}
      /\ t.live \subseteq 1 .. n
  BY <1>2 DEF n
<1>4. Turn(s, t, o, {}, {n})
  BY <1>1, <1>3 DEF Turn, Ledger
<1> QED
  BY <1>4 DEF n

\* Handing out what was held is one.
LEMMA TurnsHeld ==
  ASSUME NEW s, NEW t, NEW o \in DOMAIN s.op, Ledger(s, {}), SameBooks(s, t),
         NEW x \in Ids(s, o), Ids(t, o) = Ids(s, o) \ {x}, Neat(Kind(s.plan, o), t.op[o])
  PROVE  Turn(s, t, o, {}, {x})
<1>1. Ids(s, o) \subseteq s.live
  BY DEF Ledger
<1> QED
  BY <1>1 DEF Turn, Ledger, SameBooks

\* Handing out a new batch and freeing the last one held is one.
LEMMA TurnsLast ==
  ASSUME NEW s, NEW t, NEW o \in DOMAIN s.op, Ledger(s, {}),
         t.made = s.made + 1, t.live = (s.live \union {s.made + 1}) \ Ids(s, o),
         t.freedTwice = s.freedTwice, t.overwritten = s.overwritten,
         Neat(Kind(s.plan, o), t.op[o]), Ids(t, o) = {}
  PROVE  Turn(s, t, o, {}, {s.made + 1})
<1>1. Ids(s, o) \subseteq s.live
  BY DEF Ledger
<1>2. /\ s.made + 1 \notin s.live /\ s.made + 1 \in Nat
      /\ s.live \union {s.made + 1} \subseteq 1 .. (s.made + 1)
  BY NewIsFresh
<1> DEFINE n == s.made + 1
<1> HIDE DEF n
<1>3. /\ n \notin s.live /\ n \in Nat /\ t.made = n /\ t.live = (s.live \union {n}) \ Ids(s, o)
      /\ t.live \subseteq 1 .. n
  BY <1>2 DEF n
<1>4. Turn(s, t, o, {}, {n})
  BY <1>1, <1>3 DEF Turn, Ledger
<1> QED
  BY <1>4 DEF n

\* Freeing all that was held is one.
LEMMA TurnsEmpty ==
  ASSUME NEW s, NEW t, NEW o \in DOMAIN s.op, Ledger(s, {}),
         t.made = s.made, t.live = s.live \ Ids(s, o),
         t.freedTwice = s.freedTwice, t.overwritten = s.overwritten,
         Neat(Kind(s.plan, o), t.op[o]), Ids(t, o) = {}
  PROVE  Turn(s, t, o, {}, {})
<1>1. Ids(s, o) \subseteq s.live
  BY DEF Ledger
<1> QED
  BY <1>1 DEF Turn, Ledger

\* Another record for o leaves the books alone.
LEMMA PutBooks ==
  ASSUME NEW s, IsStore(s), NEW o \in DOMAIN s.op, NEW r
  PROVE  LET t == [s EXCEPT !.op[o] = r]
         IN  SameBooks(s, t) /\ t.plan = s.plan /\ t.op[o] = r
             /\ Ids(t, o) = OwnIds(Kind(s.plan, o), r)
<1> DEFINE t == [s EXCEPT !.op[o] = r]
<1>1. SameBooks(s, t) /\ t.plan = s.plan /\ t.op = [s.op EXCEPT ![o] = r]
  BY DEF IsStore, SameBooks
<1> HIDE DEF t
<1>2. t.op[o] = r
  BY <1>1
<1> QED
  BY <1>1, <1>2 DEF Ids, t

\* Allocating a batch adds it to the books and changes nothing else.
LEMMA MadeBooks ==
  ASSUME NEW s, IsStore(s), NEW o \in DOMAIN s.op, NEW rows
  PROVE  LET t == Keep(s, New(s, rows))
         IN  /\ t.made = s.made + 1 /\ t.live = s.live \union {s.made + 1}
             /\ t.freedTwice = s.freedTwice /\ t.overwritten = s.overwritten
             /\ t.plan = s.plan /\ t.op = s.op /\ IsStore(t) /\ o \in DOMAIN t.op
             /\ New(s, rows).id = s.made + 1
<1> DEFINE b == New(s, rows)
           t == Keep(s, b)
<1>1. b.id = s.made + 1
  BY DEF New
<1> HIDE DEF b
<1>2. SameOps(s, t)
  BY KeepSame
<1>3. /\ t.made = b.id /\ t.live = s.live \union {b.id} /\ t.freedTwice = s.freedTwice
      /\ t.overwritten = s.overwritten
  BY DEF Keep, IsStore
<1> HIDE DEF t
<1> QED
  BY <1>1, <1>2, <1>3 DEF SameOps, t, b

\* A batch that was made flies.
LEMMA FlyingMade ==
  ASSUME NEW s, NEW X, Ledger(s, X), NEW rows PROVE Flying(New(s, rows)) = {s.made + 1}
<1>1. New(s, rows).id = s.made + 1 /\ s.made + 1 # 0 /\ NoBatch.id = 0
  BY NewIsFresh DEF New, NoBatch
<1> DEFINE b == New(s, rows)
<1>2. b.id = s.made + 1 /\ b # NoBatch
  BY <1>1
<1> HIDE DEF b
<1> QED
  BY <1>2 DEF Flying, b

\* So does one that was held.
LEMMA FlyingHeld ==
  ASSUME NEW s, NEW X, Ledger(s, X), NEW o \in DOMAIN s.op, NEW b, b.id \in Ids(s, o)
  PROVE  Flying(b) = {b.id}
<1>1. b.id \in s.live /\ NoBatch.id = 0
  BY DEF Ledger, NoBatch
<1>2. b.id # 0
  BY <1>1 DEF Ledger
<1> QED
  BY <1>1, <1>2 DEF Flying

\* Finishing after a turn is part of it.
LEMMA FinishTurns ==
  ASSUME NEW s, NEW t, IsStore(t), NEW o \in DOMAIN t.op, NEW X, NEW Y, Turn(s, t, o, X, Y), NEW c
  PROVE  Turn(s, FinishIf(c, t, o), o, X, Y) /\ Turn(s, Finish(t, o), o, X, Y)
<1> DEFINE r == [t.op[o] EXCEPT !.fin = TRUE]
           u == [t EXCEPT !.op[o] = r]
<1>1. r.held = t.op[o].held /\ r.at = t.op[o].at
  BY DEF IsStore, IsOp, Fields
<1>2. u = Finish(t, o)
  BY DEF Finish
<1> HIDE DEF r
<1>3. SameBooks(t, u) /\ u.plan = t.plan /\ u.op[o] = r /\ Ids(u, o) = OwnIds(Kind(t.plan, o), r)
  BY PutBooks
<1> HIDE DEF u
<1>4. Ids(u, o) = Ids(t, o) /\ (Neat(Kind(s.plan, o), t.op[o]) => Neat(Kind(s.plan, o), u.op[o]))
  BY <1>1, <1>3, OwnsSame DEF Ids
<1>5. Turn(s, u, o, X, Y)
  BY <1>3, <1>4 DEF Turn, SameBooks
<1> QED
  BY <1>2, <1>5 DEF FinishIf

\* So is doing nothing.
LEMMA StaysTurns ==
  ASSUME NEW s, IsStore(s), NEW o \in DOMAIN s.op, Ledger(s, {})
  PROVE  Turn(s, s, o, {}, {}) /\ Turn(s, Finish(s, o), o, {}, {})
         /\ \A c : Turn(s, FinishIf(c, s, o), o, {}, {})
<1>1. Turn(s, s, o, {}, {})
  <2>1. SameBooks(s, s) /\ Neat(Kind(s.plan, o), s.op[o])
    BY DEF SameBooks, Ledger
  <2> QED
    BY <2>1, TurnsNothing
<1> QED
  BY <1>1, FinishTurns

\* Handing out nothing is handing out properly.
LEMMA NullHands ==
  ASSUME NEW s, NEW t, NEW o, Turn(s, t, o, {}, {}) PROVE Hands(s, o, Null(t))
  BY DEF Hands, Null, Flying

\* So is handing out a batch.
LEMMA BatchHands ==
  ASSUME NEW s, NEW t, NEW o, NEW b, Turn(s, t, o, {}, Flying(b)) PROVE Hands(s, o, HandOut(t, b))
<1>1. HandOut(t, b).store = t /\ HandOut(t, b).out = b
  BY DEF HandOut
<1> QED
  BY <1>1 DEF Hands

\* GetOutput of a ValueStream hands out properly.
LEMMA ValuesHands ==
  ASSUME NEW s, IsStore(s), NEW o \in DOMAIN s.op, Ledger(s, {}), Kind(s.plan, o) = "VALUES"
  PROVE  Hands(s, o, ValuesGetOutput(s, o))
<1> DEFINE rows == s.op[o].held[1]
           made == New(s, rows)
           s1   == Keep(s, made)
           g    == ValuesGetOutput(s, o)
<1>0. \A r : OwnIds("VALUES", r) = {} /\ Neat("VALUES", r)
  BY DEF OwnIds, Own, Neat, Slots
<1>1. CASE s.op[o].done
  BY <1>1, StaysTurns, NullHands DEF ValuesGetOutput
<1>2. CASE ~s.op[o].done /\ s.op[o].held = <<>>
  <2> DEFINE r == [s.op[o] EXCEPT !.done = TRUE]
             t == [s EXCEPT !.op[o] = r]
  <2>1. g = Null(t)
    BY <1>2 DEF ValuesGetOutput
  <2> HIDE DEF r
  <2>2. SameBooks(s, t) /\ t.plan = s.plan /\ t.op[o] = r /\ Ids(t, o) = OwnIds("VALUES", r)
    BY PutBooks
  <2> HIDE DEF t, g
  <2>3. Turn(s, t, o, {}, {})
    BY <1>0, <2>2, TurnsNothing DEF Ids
  <2> QED
    BY <2>1, <2>3, NullHands DEF g
<1>3. CASE ~s.op[o].done /\ s.op[o].held # <<>>
  <2> DEFINE r == [s1.op[o] EXCEPT !.held = Tail(@)]
             t == [s1 EXCEPT !.op[o] = r]
  <2>1. g = HandOut(t, made)
    BY <1>3 DEF ValuesGetOutput
  <2>2. /\ s1.made = s.made + 1 /\ s1.live = s.live \union {s.made + 1}
        /\ s1.freedTwice = s.freedTwice /\ s1.overwritten = s.overwritten
        /\ s1.plan = s.plan /\ IsStore(s1) /\ o \in DOMAIN s1.op
    BY MadeBooks
  <2>3. Flying(made) = {s.made + 1}
    BY FlyingMade
  <2> HIDE DEF g, made, s1, r
  <2>4. SameBooks(s1, t) /\ t.plan = s.plan /\ t.op[o] = r /\ Ids(t, o) = OwnIds("VALUES", r)
    BY <2>2, PutBooks
  <2> HIDE DEF t
  <2>5. Turn(s, t, o, {}, {s.made + 1})
    BY <1>0, <2>2, <2>4, TurnsMade DEF Ids, SameBooks
  <2> QED
    BY <2>1, <2>3, <2>5, BatchHands DEF g
<1> QED
  BY <1>1, <1>2, <1>3

\* GetOutput of a Filter, a Projection and a Limit does.
LEMMA SlotHands ==
  ASSUME NEW s, IsStore(s), NEW o \in DOMAIN s.op, Ledger(s, {}),
         Kind(s.plan, o) \in {"FILTER", "PROJECT", "LIMIT"}
  PROVE  Hands(s, o, SlotGetOutput(s, o)) /\ Hands(s, o, LimitGetOutput(s, o))
<1> DEFINE r == [s.op[o] EXCEPT !.held = <<>>]
           t == [s EXCEPT !.op[o] = r]
           b == s.op[o].held[1]
           k == Kind(s.plan, o)
<1>1. k \in Slots /\ k # "UNION" /\ Listed(s.op[o].held) /\ Neat(k, s.op[o])
  BY DEF Slots, IsStore, Ledger
<1>2. CASE s.op[o].held = <<>>
  BY <1>2, StaysTurns, NullHands DEF SlotGetOutput, LimitGetOutput
<1>3. CASE s.op[o].held # <<>>
  <2>1. s.op[o].held = <<b>>
    BY <1>1, <1>3, SlotHolds
  <2>2. Ids(s, o) = {b.id}
    <3> HIDE DEF b
    <3> QED
      BY <1>1, <2>1, OwnsOne DEF Ids
  <2>3. r.held = <<>>
    BY DEF IsStore, IsOp, Fields
  <2> HIDE DEF r
  <2>4. SameBooks(s, t) /\ t.plan = s.plan /\ t.op[o] = r /\ Ids(t, o) = OwnIds(k, r)
    BY PutBooks
  <2> HIDE DEF k
  <2>5. Ids(t, o) = {} /\ Neat(k, t.op[o])
    BY <1>1, <2>3, <2>4, OwnsNone
  <2>6. SlotGetOutput(s, o) = HandOut(t, b) /\ LimitGetOutput(s, o) = HandOut(t, b)
    BY <1>3 DEF SlotGetOutput, LimitGetOutput, r
  <2> HIDE DEF t, b
  <2>7. Turn(s, t, o, {}, {b.id})
    BY <2>2, <2>4, <2>5, TurnsHeld DEF k
  <2>8. Flying(b) = {b.id}
    BY <2>2, FlyingHeld
  <2> QED
    BY <2>6, <2>7, <2>8, BatchHands
<1> QED
  BY <1>2, <1>3

\* The store with another record for o.
LEMMA PutStore ==
  ASSUME NEW s, IsStore(s), NEW o \in DOMAIN s.op, NEW q, IsOp(q),
         Kind(s.plan, o) # "VALUES" => Listed(q.held)
  PROVE  LET u == [s EXCEPT !.op[o] = q]
         IN  /\ IsStore(u) /\ o \in DOMAIN u.op /\ u.plan = s.plan /\ u.op[o] = q
             /\ SameBooks(s, u) /\ Ids(u, o) = OwnIds(Kind(s.plan, o), q)
<1> DEFINE u == [s EXCEPT !.op[o] = q]
<1>1. SameBooks(s, u) /\ u.plan = s.plan /\ u.op[o] = q /\ Ids(u, o) = OwnIds(Kind(s.plan, o), q)
  BY PutBooks
<1>2. IsStore(u) /\ u.op = [s.op EXCEPT ![o] = q]
  BY Put
<1> HIDE DEF u
<1>3. o \in DOMAIN u.op
  BY <1>2
<1> QED
  BY <1>1, <1>2, <1>3 DEF u

\* A new batch has been allocated, and nothing else was.
OneMore(s, t) ==
  /\ t.made = s.made + 1 /\ t.live = s.live \union {s.made + 1}
  /\ t.freedTwice = s.freedTwice /\ t.overwritten = s.overwritten

\* Allocating a batch and giving o another record.
LEMMA MadePut ==
  ASSUME NEW s, IsStore(s), NEW o \in DOMAIN s.op, NEW rows, NEW q, IsOp(q),
         Kind(s.plan, o) # "VALUES" => Listed(q.held)
  PROVE  LET u == [Keep(s, New(s, rows)) EXCEPT !.op[o] = q]
         IN  /\ IsStore(u) /\ o \in DOMAIN u.op /\ u.plan = s.plan /\ u.op[o] = q
             /\ OneMore(s, u) /\ Ids(u, o) = OwnIds(Kind(s.plan, o), q)
<1> DEFINE t == Keep(s, New(s, rows))
           u == [t EXCEPT !.op[o] = q]
<1>1. OneMore(s, t) /\ t.plan = s.plan /\ IsStore(t) /\ o \in DOMAIN t.op
  BY MadeBooks DEF OneMore
<1> HIDE DEF t
<1>2. /\ IsStore(u) /\ o \in DOMAIN u.op /\ u.plan = s.plan /\ u.op[o] = q
      /\ SameBooks(t, u) /\ Ids(u, o) = OwnIds(Kind(s.plan, o), q)
  BY <1>1, PutStore
<1> HIDE DEF u
<1>3. OneMore(s, u)
  BY <1>1, <1>2 DEF OneMore, SameBooks
<1> QED
  BY <1>2, <1>3 DEF u, t

\* Freeing a batch that is alive takes it from the books.
LEMMA FreeBooks ==
  ASSUME NEW s, IsStore(s), NEW b, b.id \in s.live
  PROVE  LET t == Free(s, b)
         IN  /\ IsStore(t) /\ t.plan = s.plan /\ t.op = s.op /\ t.made = s.made
             /\ t.live = s.live \ {b.id} /\ t.freedTwice = s.freedTwice
             /\ t.overwritten = s.overwritten
<1> DEFINE t == Free(s, b)
<1>1. t = [s EXCEPT !.live = @ \ {b.id}]
  BY FreeLive
<1>2. SameOps(s, t)
  BY FreeSame
<1> HIDE DEF t
<1>3. /\ t.made = s.made /\ t.live = s.live \ {b.id} /\ t.freedTwice = s.freedTwice
      /\ t.overwritten = s.overwritten
  BY <1>1 DEF IsStore
<1> QED
  BY <1>2, <1>3 DEF SameOps, t

\* GetOutput of an Expand does.
LEMMA ExpandHands ==
  ASSUME NEW s, IsStore(s), NEW o \in DOMAIN s.op, Ledger(s, {}), Kind(s.plan, o) = "EXPAND"
  PROVE  Hands(s, o, ExpandGetOutput(s, o))
<1> DEFINE me == s.op[o]
           batch == me.held[1]
           rows == [i \in DOMAIN batch.rows |-> Append(batch.rows[i], -me.at)]
           made == New(s, rows)
           last == me.at + 1 = Projections
           s0   == Keep(s, made)
           r    == [s0.op[o] EXCEPT !.at = IF last THEN 0 ELSE @ + 1,
                                    !.held = IF last THEN <<>> ELSE @]
           s1   == [s0 EXCEPT !.op[o] = r]
           s2   == [s0 EXCEPT !.op[o].at = IF last THEN 0 ELSE @ + 1,
                              !.op[o].held = IF last THEN <<>> ELSE @]
           g    == ExpandGetOutput(s, o)
<1>0. "EXPAND" \in Slots /\ Listed(me.held) /\ Neat("EXPAND", me) /\ IsOp(me)
  BY DEF Slots, IsStore, Ledger
<1>1. CASE me.held = <<>>
  <2>1. g = Null(FinishIf(me.noMore, s, o))
    BY <1>1 DEF ExpandGetOutput
  <2> QED
    BY <2>1, StaysTurns, NullHands
<1>2. CASE me.held # <<>>
  <2>0. g = HandOut(IF last THEN Free(s2, batch) ELSE s2, made)
    BY <1>2 DEF ExpandGetOutput
  <2>1. s2 = s1
    <3> HIDE DEF s0, g, last, batch
    <3> QED
      OBVIOUS
  <2>2. Flying(made) = {s.made + 1}
    BY FlyingMade
  <2>3. s0.op = s.op
    BY MadeBooks
  <2> HIDE DEF last
  <2>4. /\ IsOp(r) /\ Listed(r.held)
        /\ r.held = (IF last THEN <<>> ELSE me.held)
    <3> HIDE DEF s0
    <3> QED
      BY <1>0, <2>3, ListedFacts DEF IsOp, Fields
  <2> HIDE DEF r, s2, g, rows
  <2>5. /\ IsStore(s1) /\ o \in DOMAIN s1.op /\ s1.plan = s.plan /\ s1.op[o] = r
        /\ OneMore(s, s1) /\ Ids(s1, o) = OwnIds("EXPAND", r)
    BY <2>4, MadePut
  <2>6. me.held = <<batch>>
    BY <1>0, <1>2, SlotHolds
  <2> HIDE DEF s1, made, batch
  <2>7. Ids(s, o) = {batch.id} /\ batch.id \in s.live
    <3>1. Ids(s, o) = {batch.id}
      BY <1>0, <2>6, OwnsOne DEF Ids
    <3> QED
      BY <3>1 DEF Ledger
  <2>8. CASE last
    <3> DEFINE t == Free(s1, batch)
    <3>1. OwnIds("EXPAND", r) = {} /\ Neat("EXPAND", r)
      BY <2>4, <2>8, OwnsNone
    <3>2. batch.id \in s1.live
      BY <2>5, <2>7 DEF OneMore
    <3>3. /\ t.plan = s1.plan /\ t.op = s1.op /\ t.made = s1.made /\ t.live = s1.live \ {batch.id}
          /\ t.freedTwice = s1.freedTwice /\ t.overwritten = s1.overwritten
      BY <2>5, <3>2, FreeBooks
    <3> HIDE DEF t
    <3>4. Turn(s, t, o, {}, {s.made + 1})
      <4>1. Ids(t, o) = {} /\ Neat(Kind(s.plan, o), t.op[o])
        BY <2>5, <3>1, <3>3 DEF Ids
      <4> QED
        BY <2>5, <2>7, <3>3, <4>1, TurnsLast DEF OneMore
    <3>5. Hands(s, o, HandOut(t, made))
      BY <2>2, <3>4, BatchHands
    <3> QED
      BY <2>0, <2>1, <2>8, <3>5 DEF t, g
  <2>9. CASE ~last
    <3>1. OwnIds("EXPAND", r) = OwnIds("EXPAND", me) /\ Neat("EXPAND", r)
      BY <1>0, <2>4, <2>9, OwnsSame
    <3>2. Turn(s, s1, o, {}, {s.made + 1})
      BY <2>5, <3>1, TurnsMade DEF OneMore, Ids
    <3>3. Hands(s, o, HandOut(s1, made))
      BY <2>2, <3>2, BatchHands
    <3> QED
      BY <2>0, <2>1, <2>9, <3>3 DEF g
  <2> QED
    BY <2>8, <2>9
<1> QED
  BY <1>1, <1>2

\* A union that has handed out one batch more.
LEMMA HandedOut ==
  ASSUME NEW r, NEW q, Listed(r.held), Neat("UNION", r), r.held # <<>>,
         q.held = r.held, q.at = r.at + 1, r.at + 1 # Len(r.held)
  PROVE  /\ Neat("UNION", q) /\ r.held[r.at + 1].id \in OwnIds("UNION", r)
         /\ OwnIds("UNION", q) = OwnIds("UNION", r) \ {r.held[r.at + 1].id}
<1> DEFINE h == r.held
           n == Len(h)
           a == r.at
           x == h[a + 1].id
           id(i) == h[i].id
<1>1. n \in Nat /\ DOMAIN h = 1 .. n
  BY DEF Listed
<1>2. a \in Nat /\ a < n
  BY DEF Neat
<1>3. Own("UNION", r) = a + 1 .. n
  BY <1>1, <1>2 DEF Own
<1>4. Own("UNION", q) = a + 2 .. n
  <2>1. DOMAIN q.held = 1 .. n /\ q.at = a + 1
    BY <1>1
  <2> HIDE DEF n, a
  <2> QED
    BY <1>1, <1>2, <2>1 DEF Own
<1>5. \A i, j \in a + 1 .. n : id(i) = id(j) => i = j
  BY <1>3 DEF Neat
<1>6. OwnIds("UNION", r) = {id(i) : i \in a + 1 .. n}
      /\ OwnIds("UNION", q) = {id(i) : i \in a + 2 .. n}
  BY <1>3, <1>4 DEF OwnIds
<1>7. q.held # <<>> /\ q.at = a + 1 /\ q.held = h
  OBVIOUS
<1>8. n # a + 1
  OBVIOUS
<1> HIDE DEF id, n, a, h
<1>9. a + 1 .. n = (a + 2 .. n) \union {a + 1} /\ a + 1 \notin a + 2 .. n
  BY <1>1, <1>2
<1>10. {id(i) : i \in a + 2 .. n} = {id(i) : i \in a + 1 .. n} \ {id(a + 1)}
  BY <1>5, <1>9
<1>11. id(a + 1) \in {id(i) : i \in a + 1 .. n}
  BY <1>9
<1>12. Neat("UNION", q)
  <2>1. \A i, j \in a + 2 .. n : q.held[i].id = q.held[j].id => i = j
    BY <1>5, <1>7, <1>9 DEF id
  <2>2. q.at \in Nat /\ q.at < Len(q.held)
    <3>1. a + 1 \in Nat /\ a + 1 < n
      BY <1>1, <1>2, <1>8
    <3> QED
      BY <1>7, <3>1 DEF n
  <2>3. "UNION" \notin Slots
    BY DEF Slots
  <2> QED
    BY <1>4, <1>7, <2>1, <2>2, <2>3 DEF Neat
<1> QED
  BY <1>6, <1>10, <1>11, <1>12 DEF id, a, h

\* A union that has handed out its last one.
LEMMA LastHandedOut ==
  ASSUME NEW r, Listed(r.held), Neat("UNION", r), r.held # <<>>, r.at + 1 = Len(r.held)
  PROVE  OwnIds("UNION", r) = {r.held[r.at + 1].id}
<1> DEFINE h == r.held
           n == Len(h)
           a == r.at
<1>1. n \in Nat /\ DOMAIN h = 1 .. n
  BY DEF Listed
<1>2. a \in Nat /\ a + 1 = n
  BY DEF Neat
<1>3. Own("UNION", r) = {i \in 1 .. n : i > a}
  BY <1>1 DEF Own
<1> HIDE DEF n, a
<1>4. {i \in 1 .. n : i > a} = {a + 1}
  BY <1>1, <1>2
<1> QED
  BY <1>3, <1>4 DEF OwnIds, a

\* GetOutput of a Union does.
LEMMA UnionHands ==
  ASSUME NEW s, IsStore(s), NEW o \in DOMAIN s.op, Ledger(s, {}), Kind(s.plan, o) = "UNION"
  PROVE  Hands(s, o, UnionGetOutput(s, o))
<1> DEFINE me    == s.op[o]
           r0    == [me EXCEPT !.held = <<>>, !.at = 0]
           clear == [s EXCEPT !.op[o] = r0]
           r     == [me EXCEPT !.at = @ + 1]
           more  == [s EXCEPT !.op[o] = r]
           b     == me.held[me.at + 1]
           g     == UnionGetOutput(s, o)
<1>0. Listed(me.held) /\ Neat("UNION", me) /\ IsOp(me)
  BY DEF IsStore, Ledger
<1>2. g = IF me.held = <<>> THEN Null(FinishIf(me.noMore, clear, o))
          ELSE HandOut(IF me.at + 1 = Len(me.held) THEN FinishIf(me.noMore, clear, o) ELSE more, b)
  <2> DEFINE c == [s EXCEPT !.op[o].held = <<>>, !.op[o].at = 0]
             m == [s EXCEPT !.op[o].at = @ + 1]
  <2>1. g = IF me.held = <<>> THEN Null(FinishIf(me.noMore, c, o))
            ELSE HandOut(IF me.at + 1 = Len(me.held) THEN FinishIf(me.noMore, c, o) ELSE m, b)
    BY DEF UnionGetOutput
  <2>2. c = clear /\ m = more
    OBVIOUS
  <2> HIDE DEF c, m, clear, more, g, me, b
  <2> QED
    BY <2>1, <2>2
<1>3. /\ IsOp(r0) /\ Listed(r0.held) /\ r0.held = <<>> /\ r0.at = 0
      /\ IsOp(r) /\ Listed(r.held) /\ r.held = me.held /\ r.at = me.at + 1
  BY <1>0, ListedFacts DEF IsOp, Fields
<1> HIDE DEF g, r, r0
<1>4. /\ IsStore(clear) /\ o \in DOMAIN clear.op /\ clear.plan = s.plan /\ clear.op[o] = r0
      /\ SameBooks(s, clear) /\ Ids(clear, o) = OwnIds("UNION", r0)
  BY <1>3, PutStore
<1>5. more.op[o] = r /\ SameBooks(s, more) /\ Ids(more, o) = OwnIds("UNION", r)
  BY <1>3, PutStore
<1> HIDE DEF clear, more
<1>6. Ids(clear, o) = {} /\ Neat("UNION", r0)
  BY <1>3, <1>4, OwnsNone
<1>7. Ids(s, o) = OwnIds("UNION", me)
  BY DEF Ids
<1> SUFFICES Hands(s, o, g)
  BY DEF g
<1>8. CASE me.held = <<>>
  <2>1. Ids(s, o) = {}
    BY <1>0, <1>7, <1>8, OwnsNone DEF Neat
  <2>2. Turn(s, clear, o, {}, {})
    BY <1>4, <1>6, <2>1, TurnsNothing
  <2> QED
    <3>1. Turn(s, FinishIf(me.noMore, clear, o), o, {}, {})
      BY <1>4, <2>2, FinishTurns
    <3>2. Hands(s, o, Null(FinishIf(me.noMore, clear, o)))
      BY <3>1, NullHands
    <3> QED
      BY <1>2, <1>8, <3>2
<1>9. CASE me.held # <<>> /\ me.at + 1 = Len(me.held)
  <2>1. Ids(s, o) = {b.id}
    BY <1>0, <1>7, <1>9, LastHandedOut
  <2> HIDE DEF b
  <2>2. Turn(s, clear, o, {}, {b.id})
    BY <1>4, <1>6, <2>1, TurnsHeld
  <2>3. Flying(b) = {b.id}
    BY <2>1, FlyingHeld
  <2>4. Turn(s, FinishIf(me.noMore, clear, o), o, {}, Flying(b))
    BY <1>4, <2>2, <2>3, FinishTurns
  <2> QED
    <3>1. Hands(s, o, HandOut(FinishIf(me.noMore, clear, o), b))
      BY <2>4, BatchHands
    <3> QED
      BY <1>2, <1>9, <3>1 DEF b
<1>10. CASE me.held # <<>> /\ me.at + 1 # Len(me.held)
  <2>1. /\ Neat("UNION", r) /\ b.id \in OwnIds("UNION", me)
        /\ OwnIds("UNION", r) = OwnIds("UNION", me) \ {b.id}
    <3> HIDE DEF me
    <3> QED
      BY <1>0, <1>3, <1>10, HandedOut
  <2> HIDE DEF b
  <2>2. Turn(s, more, o, {}, {b.id})
    BY <1>5, <1>7, <2>1, TurnsHeld
  <2>3. Flying(b) = {b.id}
    BY <1>7, <2>1, FlyingHeld
  <2> QED
    <3>1. Hands(s, o, HandOut(more, b))
      BY <2>2, <2>3, BatchHands
    <3> QED
      BY <1>2, <1>10, <3>1 DEF b
<1> QED
  BY <1>8, <1>9, <1>10

\* t is s after operator o has freed all it holds.
Emptied(s, t, o) ==
  /\ IsStore(t) /\ o \in DOMAIN t.op /\ t.plan = s.plan
  /\ t.made = s.made /\ t.live = s.live \ Ids(s, o)
  /\ t.freedTwice = s.freedTwice /\ t.overwritten = s.overwritten
  /\ Ids(t, o) = {} /\ Neat(Kind(s.plan, o), t.op[o])

\* Freeing all of it and emptying the record does that.
LEMMA EmptiesAll ==
  ASSUME NEW s, IsStore(s), NEW o \in DOMAIN s.op, Kind(s.plan, o) \notin {"VALUES", "UNION"},
         Neat(Kind(s.plan, o), s.op[o]), Ids(s, o) \subseteq s.live
  PROVE  Emptied(s, [FreeAll(s, s.op[o].held) EXCEPT !.op[o].held = <<>>], o)
<1> DEFINE h == s.op[o].held
           k == Kind(s.plan, o)
           v == FreeAll(s, h)
           q == [v.op[o] EXCEPT !.held = <<>>]
           t == [v EXCEPT !.op[o] = q]
<1>1. Listed(h) /\ Len(h) \in Nat /\ DOMAIN h = 1 .. Len(h) /\ IsOp(s.op[o])
  BY DEF IsStore, Listed
<1>2. /\ Ids(s, o) = {h[i].id : i \in DOMAIN h}
      /\ \A i, j \in DOMAIN h : h[i].id = h[j].id => i = j
  BY HeldIds DEF Ids
<1> HIDE DEF h
<1>3. FreedAll(s, h, v)
  <2>1. \A i \in 1 .. Len(h) : h[i].id \in s.live
    BY <1>1, <1>2
  <2> QED
    BY <1>1, <1>2, <2>1, FreeAllLive
<1> HIDE DEF v
<1>4. /\ IsStore(v) /\ v.plan = s.plan /\ v.op = s.op /\ v.made = s.made
      /\ v.freedTwice = s.freedTwice /\ v.overwritten = s.overwritten
      /\ v.live = s.live \ Ids(s, o)
  BY <1>1, <1>2, <1>3 DEF FreedAll, SameOps
<1>5. IsOp(q) /\ Listed(q.held) /\ q.held = <<>>
  BY <1>1, <1>4, ListedFacts DEF IsOp, Fields
<1> HIDE DEF q
<1>6. /\ IsStore(t) /\ o \in DOMAIN t.op /\ t.plan = v.plan /\ t.op[o] = q
      /\ SameBooks(v, t) /\ Ids(t, o) = OwnIds(Kind(v.plan, o), q)
  <2>1. IsStore(v) /\ o \in DOMAIN v.op /\ IsOp(q) /\ Listed(q.held)
    BY <1>4, <1>5
  <2> QED
    BY <2>1, PutStore
<1> HIDE DEF t
<1>7. Ids(t, o) = {} /\ Neat(k, t.op[o])
  BY <1>4, <1>5, <1>6, OwnsNone
<1>8. Emptied(s, t, o)
  BY <1>4, <1>6, <1>7 DEF Emptied, SameBooks
<1> QED
  BY <1>8 DEF t, q, v, h

\* GetOutput of a Sort does.
LEMMA SortHands ==
  ASSUME NEW s, IsStore(s), NEW o \in DOMAIN s.op, Ledger(s, {}), Kind(s.plan, o) = "SORT"
  PROVE  Hands(s, o, SortGetOutput(s, o))
<1> DEFINE me == s.op[o]
           byKey(k) == SelectSeq(Rows(me.held), LAMBDA r : r[1] = k)
           sorted == byKey(0) \o byKey(1) \o byKey(2)
           upto   == Smaller(me.at + OutRows, Len(sorted))
           rows   == SubSeq(sorted, me.at + 1, upto)
           made   == New(s, rows)
           clear(t) == [FreeAll(t, me.held) EXCEPT !.op[o].held = <<>>]
           s0 == Keep(s, made)
           r  == [s0.op[o] EXCEPT !.at = upto]
           s1 == [s0 EXCEPT !.op[o] = r]
           g  == SortGetOutput(s, o)
<1>1. g = IF ~me.noMore THEN Null(s)
          ELSE IF me.held = <<>> THEN Null(Finish(clear(s), o))
          ELSE HandOut(IF upto = Len(sorted) THEN Finish(clear(s1), o) ELSE s1, made)
  <2> DEFINE x1 == [s0 EXCEPT !.op[o].at = upto]
  <2>1. g = IF ~me.noMore THEN Null(s)
            ELSE IF me.held = <<>> THEN Null(Finish(clear(s), o))
            ELSE HandOut(IF upto = Len(sorted) THEN Finish(clear(x1), o) ELSE x1, made)
    BY DEF SortGetOutput
  <2>2. x1 = s1
    <3> HIDE DEF s0, upto
    <3> QED
      OBVIOUS
  <2> HIDE DEF x1, s1, g, made, me, sorted, clear
  <2> QED
    BY <2>1, <2>2
<1>2. s0.op = s.op /\ Flying(made) = {s.made + 1}
  BY MadeBooks, FlyingMade
<1>3. Listed(me.held) /\ Neat("SORT", me) /\ IsOp(me) /\ Ids(s, o) = OwnIds("SORT", me)
      /\ Ids(s, o) \subseteq s.live
  BY DEF IsStore, Ledger, Ids
<1> SUFFICES Hands(s, o, g)
  BY DEF g
<1> HIDE DEF g, upto, rows, sorted
<1>4. IsOp(r) /\ Listed(r.held) /\ r.held = me.held
  <2> HIDE DEF s0
  <2> QED
    BY <1>2, <1>3 DEF IsOp, Fields
<1> HIDE DEF r
<1>5. /\ IsStore(s1) /\ o \in DOMAIN s1.op /\ s1.plan = s.plan /\ s1.op[o] = r
      /\ OneMore(s, s1) /\ Ids(s1, o) = OwnIds("SORT", r)
  BY <1>4, MadePut
<1>6. Ids(s1, o) = Ids(s, o) /\ Neat("SORT", r)
  BY <1>3, <1>4, <1>5, OwnsSame
<1>7. CASE ~me.noMore
  BY <1>1, <1>7, StaysTurns, NullHands
<1>8. CASE me.noMore /\ me.held = <<>>
  <2>1. Emptied(s, clear(s), o)
    BY <1>3, EmptiesAll
  <2> DEFINE c == clear(s)
  <2> HIDE DEF c, clear
  <2>2. Turn(s, c, o, {}, {})
    BY <2>1, TurnsEmpty DEF Emptied, c
  <2>3. Turn(s, Finish(c, o), o, {}, {})
    BY <2>1, <2>2, FinishTurns DEF Emptied, c
  <2>4. Hands(s, o, Null(Finish(c, o)))
    BY <2>3, NullHands
  <2> QED
    BY <1>1, <1>8, <2>4 DEF c
<1>9. CASE me.noMore /\ me.held # <<>>
  <2>1. CASE upto = Len(sorted)
    <3>1. Emptied(s1, clear(s1), o)
      <4>1. Ids(s1, o) \subseteq s1.live /\ s1.op[o].held = me.held
            /\ Neat(Kind(s1.plan, o), s1.op[o])
        BY <1>3, <1>4, <1>5, <1>6 DEF OneMore
      <4> HIDE DEF s1, me
      <4> QED
        BY <1>5, <4>1, EmptiesAll
    <3> DEFINE c == clear(s1)
    <3> HIDE DEF s1, made, c, clear
    <3>2. Turn(s, c, o, {}, {s.made + 1})
      BY <1>5, <1>6, <3>1, TurnsLast DEF Emptied, OneMore, c
    <3>3. Turn(s, Finish(c, o), o, {}, {s.made + 1})
      BY <3>1, <3>2, FinishTurns DEF Emptied, c
    <3>4. Hands(s, o, HandOut(Finish(c, o), made))
      BY <1>2, <3>3, BatchHands
    <3> QED
      BY <1>1, <1>9, <2>1, <3>4 DEF c
  <2>2. CASE upto # Len(sorted)
    <3> HIDE DEF s1, made
    <3>1. Turn(s, s1, o, {}, {s.made + 1})
      BY <1>5, <1>6, TurnsMade DEF OneMore
    <3>2. Hands(s, o, HandOut(s1, made))
      BY <1>2, <3>1, BatchHands
    <3> QED
      BY <1>1, <1>9, <2>2, <3>2
  <2> QED
    BY <2>1, <2>2
<1> QED
  BY <1>7, <1>8, <1>9

\* GetOutput of an aggregation does.
LEMMA AggHands ==
  ASSUME NEW s, IsStore(s), NEW o \in DOMAIN s.op, Ledger(s, {}), Kind(s.plan, o) = "AGG"
  PROVE  Hands(s, o, AggGetOutput(s, o))
<1> DEFINE rows == << <<0, s.op[o].at>> >>
           made == New(s, rows)
           s0   == Keep(s, made)
           g    == AggGetOutput(s, o)
<1>1. g = Null(s) \/ g = HandOut(Finish(s0, o), made)
  BY DEF AggGetOutput
<1> HIDE DEF rows
<1>2. OneMore(s, s0) /\ s0.plan = s.plan /\ s0.op = s.op /\ IsStore(s0) /\ o \in DOMAIN s0.op
  BY MadeBooks DEF OneMore
<1>3. Flying(made) = {s.made + 1}
  BY FlyingMade
<1> HIDE DEF s0, made, g
<1>4. Turn(s, s0, o, {}, {s.made + 1})
  <2>1. Ids(s0, o) = Ids(s, o) /\ Neat(Kind(s.plan, o), s0.op[o])
    BY <1>2 DEF Ids, Ledger
  <2> QED
    BY <1>2, <2>1, TurnsMade DEF OneMore
<1>5. Turn(s, Finish(s0, o), o, {}, {s.made + 1})
  BY <1>2, <1>4, FinishTurns
<1>6. Hands(s, o, HandOut(Finish(s0, o), made)) /\ Hands(s, o, Null(s))
  BY <1>3, <1>5, BatchHands, StaysTurns, NullHands
<1> QED
  BY <1>1, <1>6 DEF g

\* GetOutput of a union's builder does.
LEMMA UnionBuildHands ==
  ASSUME NEW s, IsStore(s), NEW o \in DOMAIN s.op, Ledger(s, {})
  PROVE  Hands(s, o, UnionBuildGetOutput(s, o))
  BY StaysTurns, NullHands DEF UnionBuildGetOutput

\* GetOutput of a HashBuilder does.
LEMMA HashBuildHands ==
  ASSUME NEW s, IsStore(s), NEW o \in DOMAIN s.op, Ledger(s, {}), Kind(s.plan, o) = "HASH_BUILD"
  PROVE  Hands(s, o, HashBuildGetOutput(s, o))
<1> DEFINE f == Finish(s, o)
           t == [f EXCEPT !.table[o[1]].ready = TRUE, !.table[o[1]].rows = Rows(s.op[o].held)]
           g == HashBuildGetOutput(s, o)
<1>1. g = Null(s) \/ g = Null(t)
  BY DEF HashBuildGetOutput
<1>2. Turn(s, f, o, {}, {}) /\ Turn(s, s, o, {}, {})
  BY StaysTurns
<1>3. DOMAIN f = DOMAIN s /\ f.plan = s.plan
  BY DEF Finish, IsStore
<1> HIDE DEF f, g
<1>4. SameBooks(f, t) /\ t.op = f.op /\ t.plan = f.plan
  BY <1>3 DEF SameBooks, IsStore
<1> HIDE DEF t
<1>5. Ids(t, o) = Ids(f, o)
  BY <1>4 DEF Ids
<1>6. Turn(s, t, o, {}, {})
  BY <1>2, <1>4, <1>5 DEF Turn, SameBooks
<1> QED
  BY <1>1, <1>2, <1>6, NullHands DEF g

\* A turn may also count rows and mark what was visited.
LEMMA PutTurns ==
  ASSUME NEW s, NEW t, IsStore(t), NEW o \in DOMAIN t.op, NEW X, NEW Y, Turn(s, t, o, X, Y),
         NEW r, r.held = t.op[o].held, r.at = t.op[o].at
  PROVE  Turn(s, [t EXCEPT !.op[o] = r], o, X, Y)
<1> DEFINE u == [t EXCEPT !.op[o] = r]
<1>1. SameBooks(t, u) /\ u.plan = t.plan /\ u.op[o] = r /\ Ids(u, o) = OwnIds(Kind(t.plan, o), r)
  BY PutBooks
<1> HIDE DEF u
<1>2. Ids(u, o) = Ids(t, o) /\ (Neat(Kind(s.plan, o), t.op[o]) => Neat(Kind(s.plan, o), u.op[o]))
  BY <1>1, OwnsSame DEF Ids
<1>3. Turn(s, u, o, X, Y)
  BY <1>1, <1>2 DEF Turn, SameBooks
<1> QED
  BY <1>3 DEF u

\* Probing hands out properly.
LEMMA ProbeHands ==
  ASSUME NEW s, IsStore(s), NEW o \in DOMAIN s.op, Ledger(s, {}), Kind(s.plan, o) \in Joins
  PROVE  Hands(s, o, Probe(s, o))
<1> DEFINE me    == s.op[o]
           batch == me.held[1]
           pairs == Pairs(s, o, batch)
           upto  == Smaller(me.at + OutRows, Len(pairs))
           whole == upto = Len(pairs)
           chunk == SubSeq(pairs, me.at + 1, upto)
           none  == chunk = <<>>
           rows  == [i \in DOMAIN chunk |-> Joined(chunk[i])]
           made  == New(s, rows)
           hits  == {chunk[i][2] : i \in {j \in DOMAIN chunk : Len(chunk[j]) = 2}}
           s0    == IF none THEN s ELSE Keep(s, made)
           r     == [s0.op[o] EXCEPT !.at = upto]
           sa    == [s0 EXCEPT !.op[o] = r]
           s1    == [sa EXCEPT !.table[o[1]].visited = @ \union hits]
           sf    == Free(s1, batch)
           r2    == [sf.op[o] EXCEPT !.held = <<>>, !.at = 0]
           s2    == [sf EXCEPT !.op[o] = r2]
           g     == Probe(s, o)
           k     == Kind(s.plan, o)
<1>0. k \in Slots /\ k \notin {"VALUES", "UNION"} /\ Listed(me.held) /\ Neat(k, me) /\ IsOp(me)
  BY DEF Slots, Joins, IsStore, Ledger
<1> SUFFICES Hands(s, o, g)
  OBVIOUS
<1>1. CASE me.held = <<>>
  <2>1. g.store = s /\ g.out = NoBatch
    BY <1>1 DEF Probe
  <2> HIDE DEF g
  <2> QED
    BY <2>1, StaysTurns DEF Hands, Flying
<1>2. CASE me.held # <<>>
  <2>1. g.store = (IF whole THEN s2 ELSE s1) /\ g.out = (IF none THEN NoBatch ELSE made)
    <3> DEFINE x1 == [IF none THEN s ELSE Keep(s, made) EXCEPT
                        !.op[o].at = upto, !.table[o[1]].visited = @ \union hits]
               x2 == [Free(x1, batch) EXCEPT !.op[o].held = <<>>, !.op[o].at = 0]
    <3>1. g.store = (IF whole THEN x2 ELSE x1) /\ g.out = (IF none THEN NoBatch ELSE made)
      BY <1>2 DEF Probe
    <3>2. x1 = s1
      <4> HIDE DEF none, upto, made, hits
      <4> QED
        OBVIOUS
    <3>3. x2 = s2
      <4> HIDE DEF s1, x1, batch
      <4> QED
        BY <3>2
    <3> HIDE DEF s1, s2, x1, x2, whole, g, none, made
    <3> QED
      BY <3>1, <3>2, <3>3
  <2>2. Flying(made) = {s.made + 1} /\ Flying(NoBatch) = {}
    BY FlyingMade DEF Flying
  <2>3. me.held = <<batch>>
    BY <1>0, <1>2, SlotHolds
  <2> HIDE DEF g, batch, whole
  <2>4. Ids(s, o) = {batch.id} /\ batch.id \in s.live
    <3>1. Ids(s, o) = {batch.id}
      BY <1>0, <2>3, OwnsOne DEF Ids
    <3> QED
      BY <3>1 DEF Ledger
  <2> HIDE DEF rows, hits, upto
  <2>5. /\ IsStore(s0) /\ s0.op = s.op /\ o \in DOMAIN s0.op /\ s0.plan = s.plan
        /\ IF none THEN SameBooks(s, s0) ELSE OneMore(s, s0)
    <3>1. CASE none
      BY <3>1 DEF SameBooks
    <3>2. CASE ~none
      BY <3>2, MadeBooks DEF OneMore
    <3> QED
      BY <3>1, <3>2
  <2> HIDE DEF s0, none, made
  <2>6. IsOp(r) /\ Listed(r.held) /\ r.held = me.held
    BY <1>0, <2>5 DEF IsOp, Fields
  <2> HIDE DEF r
  <2>7. /\ IsStore(sa) /\ o \in DOMAIN sa.op /\ sa.plan = s.plan /\ sa.op[o] = r
        /\ SameBooks(s0, sa)
    BY <2>5, <2>6, PutStore
  <2> HIDE DEF sa
  <2>8. /\ IsStore(s1) /\ o \in DOMAIN s1.op /\ s1.plan = s.plan /\ s1.op[o] = r
        /\ SameBooks(s0, s1)
    <3>1. SameBooks(sa, s1) /\ s1.op = sa.op /\ s1.plan = sa.plan
      BY <2>7 DEF SameBooks, IsStore
    <3>2. Emits(sa, s1, o)
      BY <2>7, VisitedEmits
    <3> HIDE DEF s1
    <3> QED
      BY <2>7, <3>1, <3>2 DEF Emits, SameBooks
  <2> HIDE DEF s1
  <2>9. Ids(s1, o) = Ids(s, o) /\ Neat(k, s1.op[o])
    <3> DEFINE q == s1.op[o]
    <3>1. q.held = me.held /\ Ids(s1, o) = OwnIds(k, q) /\ Ids(s, o) = OwnIds(k, me)
      BY <2>6, <2>8 DEF Ids
    <3> HIDE DEF q, k, me
    <3>2. OwnIds(k, q) = OwnIds(k, me) /\ Neat(k, q)
      BY <1>0, <3>1, OwnsSame
    <3> QED
      BY <3>1, <3>2 DEF q
  <2>10. CASE ~whole
    <3>1. g.store = s1
      BY <2>1, <2>10
    <3>2. CASE none
      <4>1. Turn(s, s1, o, {}, {})
        BY <2>5, <2>8, <2>9, <3>2, TurnsNothing DEF SameBooks
      <4> QED
        BY <2>1, <2>2, <3>1, <3>2, <4>1 DEF Hands
    <3>3. CASE ~none
      <4>1. Turn(s, s1, o, {}, {s.made + 1})
        BY <2>5, <2>8, <2>9, <3>3, TurnsMade DEF SameBooks, OneMore
      <4> QED
        BY <2>1, <2>2, <3>1, <3>3, <4>1 DEF Hands
    <3> QED
      BY <3>2, <3>3
  <2>11. CASE whole
    <3>1. g.store = s2
      BY <2>1, <2>11
    <3>2. batch.id \in s1.live
      BY <2>4, <2>5, <2>8 DEF SameBooks, OneMore
    <3>3. /\ IsStore(sf) /\ sf.plan = s1.plan /\ sf.op = s1.op /\ sf.made = s1.made
          /\ sf.live = s1.live \ {batch.id} /\ sf.freedTwice = s1.freedTwice
          /\ sf.overwritten = s1.overwritten
      BY <2>8, <3>2, FreeBooks
    <3> HIDE DEF sf
    <3>4. IsOp(r2) /\ Listed(r2.held) /\ r2.held = <<>>
      BY <2>6, <2>8, <3>3, ListedFacts DEF IsOp, Fields
    <3> HIDE DEF r2
    <3>5. s2.op[o] = r2 /\ SameBooks(sf, s2) /\ Ids(s2, o) = OwnIds(k, r2)
      <4>1. IsStore(sf) /\ o \in DOMAIN sf.op /\ sf.plan = s.plan
        BY <2>8, <3>3
      <4> QED
        BY <3>4, <4>1, PutStore
    <3> HIDE DEF s2
    <3>6. Ids(s2, o) = {} /\ Neat(k, s2.op[o])
      BY <1>0, <3>4, <3>5, OwnsNone
    <3>7. CASE none
      <4>1. Turn(s, s2, o, {}, {})
        BY <2>4, <2>5, <2>8, <3>3, <3>5, <3>6, <3>7, TurnsEmpty DEF SameBooks
      <4> QED
        BY <2>1, <2>2, <3>1, <3>7, <4>1 DEF Hands
    <3>8. CASE ~none
      <4>1. Turn(s, s2, o, {}, {s.made + 1})
        BY <2>4, <2>5, <2>8, <3>3, <3>5, <3>6, <3>8, TurnsLast DEF SameBooks, OneMore
      <4> QED
        BY <2>1, <2>2, <3>1, <3>8, <4>1 DEF Hands
    <3> QED
      BY <3>7, <3>8
  <2> QED
    BY <2>10, <2>11
<1> QED
  BY <1>1, <1>2

\* GetOutput of a LookupJoinOperator does.
LEMMA LookupJoinHands ==
  ASSUME NEW s, IsStore(s), NEW o \in DOMAIN s.op, Ledger(s, {}), Kind(s.plan, o) \in Joins
  PROVE  Hands(s, o, LookupJoinGetOutput(s, o))
<1> DEFINE p == Probe(s, o)
           u == p.store
           g == LookupJoinGetOutput(s, o)
<1>1. Turn(s, u, o, {}, Flying(p.out)) /\ Emits(s, u, o)
  BY ProbeHands, ProbeEmits DEF Hands
<1>2. g.store = FinishIf(p.last, u, o) /\ g.out = p.out
  BY DEF LookupJoinGetOutput
<1> HIDE DEF p, g
<1>3. IsStore(u) /\ o \in DOMAIN u.op
  BY <1>1 DEF Emits, IsStore
<1> HIDE DEF u
<1>4. Turn(s, FinishIf(p.last, u, o), o, {}, Flying(p.out))
  BY <1>1, <1>3, FinishTurns
<1>5. Hands(s, o, g)
  BY <1>2, <1>4 DEF Hands
<1> QED
  BY <1>5 DEF g

\* GetOutput of a LookupJoinWrapper does.
LEMMA WrapperHands ==
  ASSUME NEW s, IsStore(s), NEW o \in DOMAIN s.op, Ledger(s, {}), Kind(s.plan, o) = "FULL"
  PROVE  Hands(s, o, WrapperGetOutput(s, o))
<1> DEFINE me    == s.op[o]
           table == s.table[o[1]]
           rest  == SelectSeq(table.rows, LAMBDA r : r \notin table.visited)
           upto  == Smaller(me.at + OutRows, Len(rest))
           rows  == [i \in 1 .. upto - me.at |->
                       <<rest[me.at + i][1], 0>> \o Tail(rest[me.at + i])]
           made  == New(s, rows)
           s0    == Keep(s, made)
           r     == [s0.op[o] EXCEPT !.at = upto]
           s1    == [s0 EXCEPT !.op[o] = r]
           p     == Probe(s, o)
           u     == p.store
           q     == [u.op[o] EXCEPT !.done = p.last]
           ud    == [u EXCEPT !.op[o] = q]
           g     == WrapperGetOutput(s, o)
<1>1. g \in {Null(s), HandOut(ud, p.out), Null(Finish(s, o)),
             HandOut(FinishIf(upto = Len(rest), s1, o), made)}
  BY DEF WrapperGetOutput
<1> HIDE DEF g, upto, rest, rows
<1>2. Hands(s, o, Null(s)) /\ Hands(s, o, Null(Finish(s, o)))
  BY StaysTurns, NullHands
<1>3. Hands(s, o, HandOut(ud, p.out))
  <2>1. Turn(s, u, o, {}, Flying(p.out)) /\ Emits(s, u, o)
    BY ProbeHands, ProbeEmits DEF Hands, Joins
  <2> HIDE DEF p, u
  <2>2. IsStore(u) /\ o \in DOMAIN u.op /\ IsOp(u.op[o])
    BY <2>1 DEF Emits, IsStore
  <2>3. q.held = u.op[o].held /\ q.at = u.op[o].at
    BY <2>2 DEF IsOp, Fields
  <2> HIDE DEF q
  <2>4. Turn(s, ud, o, {}, Flying(p.out))
    BY <2>1, <2>2, <2>3, PutTurns
  <2> HIDE DEF ud
  <2> QED
    BY <2>4, BatchHands
<1>4. Hands(s, o, HandOut(FinishIf(upto = Len(rest), s1, o), made))
  <2>1. s0.op = s.op /\ Flying(made) = {s.made + 1}
    BY MadeBooks, FlyingMade
  <2>2. Listed(me.held) /\ Neat("FULL", me) /\ IsOp(me) /\ Ids(s, o) = OwnIds("FULL", me)
    BY DEF IsStore, Ledger, Ids
  <2>3. IsOp(r) /\ Listed(r.held) /\ r.held = me.held
    <3> HIDE DEF s0
    <3> QED
      BY <2>1, <2>2 DEF IsOp, Fields
  <2> HIDE DEF r
  <2>4. /\ IsStore(s1) /\ o \in DOMAIN s1.op /\ s1.plan = s.plan /\ s1.op[o] = r
        /\ OneMore(s, s1) /\ Ids(s1, o) = OwnIds("FULL", r)
    BY <2>3, MadePut
  <2>5. Ids(s1, o) = Ids(s, o) /\ Neat("FULL", r)
    BY <2>2, <2>3, <2>4, OwnsSame
  <2> HIDE DEF s1, made
  <2>6. Turn(s, s1, o, {}, {s.made + 1})
    BY <2>4, <2>5, TurnsMade DEF OneMore
  <2>7. Turn(s, FinishIf(upto = Len(rest), s1, o), o, {}, Flying(made))
    BY <2>1, <2>4, <2>6, FinishTurns
  <2> QED
    BY <2>7, BatchHands
<1>5. Hands(s, o, g)
  BY <1>1, <1>2, <1>3, <1>4
<1> QED
  BY <1>5 DEF g

\* GetOutput of every operator hands out properly.
LEMMA GetOutputHands ==
  ASSUME NEW s, IsStore(s), NEW o \in DOMAIN s.op, Ledger(s, {})
  PROVE  Hands(s, o, GetOutput(s, o))
<1> DEFINE k == Kind(s.plan, o)
<1>1. k \in {"VALUES", "FILTER", "PROJECT", "EXPAND", "LIMIT", "SORT", "AGG",
             "UNION", "INNER", "LEFT", "FULL", "UNION_BUILD", "HASH_BUILD"}
  BY KindIs
<1>2. CASE k = "VALUES"
  BY <1>2, ValuesHands DEF GetOutput
<1>3. CASE k \in {"FILTER", "PROJECT"}
  BY <1>3, SlotHands DEF GetOutput
<1>4. CASE k = "LIMIT"
  BY <1>4, SlotHands DEF GetOutput
<1>5. CASE k = "EXPAND"
  BY <1>5, ExpandHands DEF GetOutput
<1>6. CASE k = "UNION"
  BY <1>6, UnionHands DEF GetOutput
<1>7. CASE k = "SORT"
  BY <1>7, SortHands DEF GetOutput
<1>8. CASE k = "AGG"
  BY <1>8, AggHands DEF GetOutput
<1>9. CASE k = "UNION_BUILD"
  BY <1>9, UnionBuildHands DEF GetOutput
<1>10. CASE k = "HASH_BUILD"
  BY <1>10, HashBuildHands DEF GetOutput
<1>11. CASE k = "FULL"
  BY <1>11, WrapperHands DEF GetOutput
<1>12. CASE k \in {"INNER", "LEFT"}
  BY <1>12, LookupJoinHands DEF GetOutput, Joins
<1> QED
  BY <1>1, <1>2, <1>3, <1>4, <1>5, <1>6, <1>7, <1>8, <1>9, <1>10, <1>11, <1>12

\* A store whose books are right.
Sound(s, X) == IsStore(s) /\ Ledger(s, X)

\* The books after a step that leaves the operators alone.
LEMMA OpsSound ==
  ASSUME NEW s, NEW t, NEW X, NEW Y, Sound(s, X), SameOps(s, t),
         t.made \in Nat, t.live \subseteq 1 .. t.made, t.freedTwice = {}, Y \subseteq t.live,
         s.live \ X \subseteq t.live \ Y, t.overwritten = s.overwritten,
         t.live \ Y \subseteq s.live \ X
  PROVE  Sound(t, Y)
<1>1. t.op = s.op /\ t.plan = s.plan /\ IsStore(t)
  BY DEF SameOps
<1>2. \A p \in DOMAIN s.op : Ids(t, p) = Ids(s, p)
  BY <1>1 DEF Ids
<1>3. /\ \A p \in DOMAIN s.op : Neat(Kind(s.plan, p), s.op[p]) /\ Ids(s, p) \subseteq s.live \ X
      /\ \A p, q \in DOMAIN s.op : p # q => Ids(s, p) \cap Ids(s, q) = {}
      /\ s.overwritten = {} =>
           \A x \in s.live \ X : \E p \in DOMAIN s.op : x \in Ids(s, p)
  BY DEF Sound, Ledger
<1>4. \A p \in DOMAIN t.op : Neat(Kind(t.plan, p), t.op[p]) /\ Ids(t, p) \subseteq t.live \ Y
  BY <1>1, <1>2, <1>3
<1>5. \A p, q \in DOMAIN t.op : p # q => Ids(t, p) \cap Ids(t, q) = {}
  BY <1>1, <1>2, <1>3
<1>6. t.overwritten = {} => \A x \in t.live \ Y : \E p \in DOMAIN t.op : x \in Ids(t, p)
  BY <1>1, <1>2, <1>3
<1> QED
  BY <1>1, <1>4, <1>5, <1>6 DEF Sound, Ledger

\* Allocating a batch keeps them right, with the batch on its way.
LEMMA KeepSound ==
  ASSUME NEW s, NEW X, Sound(s, X), NEW rows
  PROVE  /\ Sound(Keep(s, New(s, rows)), X \union {New(s, rows).id})
         /\ New(s, rows).id = s.made + 1 /\ New(s, rows).id \notin X
         /\ SameOps(s, Keep(s, New(s, rows)))
<1> DEFINE b == New(s, rows)
           n == s.made + 1
           t == Keep(s, b)
<1>1. b.id = n
  BY DEF New
<1>2. n \notin s.live /\ n \in Nat /\ s.live \union {n} \subseteq 1 .. n /\ X \subseteq s.live
      /\ s.freedTwice = {} /\ IsStore(s)
  BY NewIsFresh DEF Sound, Ledger
<1> HIDE DEF b, n
<1>3. SameOps(s, t)
  BY <1>2, KeepSame
<1>4. /\ t.made = n /\ t.live = s.live \union {n} /\ t.freedTwice = s.freedTwice
      /\ t.overwritten = s.overwritten
  BY <1>1, <1>2 DEF Keep, IsStore
<1> HIDE DEF t
<1>5. Sound(t, X \union {n})
  BY <1>2, <1>3, <1>4, OpsSound
<1> QED
  BY <1>1, <1>2, <1>3, <1>5 DEF t, b, n

\* Freeing one that is on its way does.
LEMMA FreeSound ==
  ASSUME NEW s, NEW X, Sound(s, X), NEW b, b.id \in X
  PROVE  Sound(Free(s, b), X \ {b.id}) /\ SameOps(s, Free(s, b))
<1> DEFINE t == Free(s, b)
<1>1. X \subseteq s.live /\ IsStore(s) /\ s.made \in Nat /\ s.live \subseteq 1 .. s.made
      /\ s.freedTwice = {}
  BY DEF Sound, Ledger
<1>2. /\ t.made = s.made /\ t.live = s.live \ {b.id} /\ t.freedTwice = s.freedTwice
      /\ t.overwritten = s.overwritten
  BY <1>1, FreeBooks
<1>3. SameOps(s, t)
  BY <1>1, FreeSame
<1> HIDE DEF t
<1>4. Sound(t, X \ {b.id})
  BY <1>1, <1>2, <1>3, OpsSound
<1> QED
  BY <1>3, <1>4 DEF t

\* Operator o becomes r, and s otherwise t.
Sets(s, t, o, r) ==
  /\ IsStore(t) /\ t.plan = s.plan /\ DOMAIN t.op = DOMAIN s.op /\ t.op[o] = r
  /\ \A p \in DOMAIN s.op \ {o} : t.op[p] = s.op[p]
  /\ t.made = s.made /\ t.live = s.live /\ t.freedTwice = s.freedTwice
  /\ t.overwritten = {} => s.overwritten = {}

\* That keeps the books right when r takes batches that were on their way.
LEMMA SetsSound ==
  ASSUME NEW s, NEW t, NEW o \in DOMAIN s.op, NEW r, NEW X, NEW Y, Sound(s, X), Sets(s, t, o, r),
         Neat(Kind(s.plan, o), r), Y \subseteq X,
         OwnIds(Kind(s.plan, o), r) \subseteq (X \union Ids(s, o)) \ Y,
         t.overwritten = {} =>
           X \union Ids(s, o) \subseteq OwnIds(Kind(s.plan, o), r) \union Y
  PROVE  Sound(t, Y)
<1>1. Ids(t, o) = OwnIds(Kind(s.plan, o), r)
  BY DEF Ids, Sets
<1>2. Ids(s, o) \subseteq s.live \ X /\ X \subseteq s.live /\ s.made \in Nat
      /\ s.live \subseteq 1 .. s.made /\ s.freedTwice = {}
  BY DEF Sound, Ledger
<1>3. Turn(s, t, o, X, Y)
  BY <1>1, <1>2 DEF Turn, Sets
<1>4. Ledger(t, Y)
  BY <1>3, TurnKeeps DEF Sound, Sets
<1> QED
  BY <1>4 DEF Sound, Sets

\* Another record for o is such a step.
LEMMA PutSets ==
  ASSUME NEW s, IsStore(s), NEW o \in DOMAIN s.op, NEW r, IsOp(r),
         Kind(s.plan, o) # "VALUES" => Listed(r.held)
  PROVE  Sets(s, [s EXCEPT !.op[o] = r], o, r)
<1> DEFINE t == [s EXCEPT !.op[o] = r]
<1>1. IsStore(t) /\ t.plan = s.plan /\ t.op[o] = r /\ SameBooks(s, t)
  BY PutStore
<1>2. t.op = [s.op EXCEPT ![o] = r]
  BY Put
<1> HIDE DEF t
<1>3. Sets(s, t, o, r)
  BY <1>1, <1>2 DEF Sets, SameBooks
<1> QED
  BY <1>3 DEF t

\* The record of o with h in its slot.
Filled(s, o, h) == [s.op[o] EXCEPT !.held = h, !.at = 0]

\* Filling a slot is such a step.
LEMMA FillSets ==
  ASSUME NEW s, IsStore(s), NEW o \in DOMAIN s.op, NEW h, Listed(h)
  PROVE  /\ Sets(s, Fill(s, o, h), o, Filled(s, o, h)) /\ Filled(s, o, h).held = h
         /\ Fill(s, o, h).overwritten = {} => s.op[o].held = <<>>
<1> DEFINE r == [s.op[o] EXCEPT !.held = h, !.at = 0]
           t == [s EXCEPT !.op[o] = r]
           v == IF s.op[o].held = <<>> THEN s.overwritten ELSE s.overwritten \union {o}
           u == Fill(s, o, h)
<1>1. IsOp(s.op[o])
  BY DEF IsStore
<1>2. IsOp(r) /\ r.held = h
  BY <1>1 DEF IsOp, Fields
<1>3. u = [t EXCEPT !.overwritten = v]
  BY DEF Fill, IsStore
<1> HIDE DEF r, u
<1>4. Sets(s, t, o, r)
  BY <1>2, PutSets
<1> HIDE DEF t
<1>5. DOMAIN t = {"plan", "drivers", "op", "table", "made", "live", "freedTwice", "overwritten"}
  BY <1>4 DEF Sets, IsStore
<1> HIDE DEF v
<1>6. /\ u.op = t.op /\ u.plan = t.plan /\ u.table = t.table /\ u.drivers = t.drivers
      /\ u.made = t.made /\ u.live = t.live /\ u.freedTwice = t.freedTwice /\ u.overwritten = v
      /\ DOMAIN u = DOMAIN t
  BY <1>3, <1>5
<1>7. IsStore(u)
  BY <1>4, <1>6 DEF Sets, IsStore
<1>8. v = {} => s.overwritten = {} /\ s.op[o].held = <<>>
  BY DEF v
<1>9. Sets(s, u, o, r)
  BY <1>4, <1>6, <1>7, <1>8 DEF Sets
<1> QED
  BY <1>2, <1>6, <1>8, <1>9 DEF u, r, Filled

\* So it keeps the books right: what was overwritten is noted.
LEMMA FillSound ==
  ASSUME NEW s, NEW X, Sound(s, X), NEW o \in DOMAIN s.op, Kind(s.plan, o) \in Slots
  PROVE  /\ Sound(Fill(s, o, <<>>), X)
         /\ Sound(Fill(s, o, s.op[o].held), X)
         /\ \A b : b.id \in X => Sound(Fill(s, o, <<b>>), X \ {b.id})
<1> DEFINE k == Kind(s.plan, o)
           r(h) == Filled(s, o, h)
<1>1. k # "UNION" /\ k # "VALUES" /\ IsStore(s) /\ Listed(s.op[o].held) /\ Neat(k, s.op[o])
      /\ Ids(s, o) \subseteq s.live \ X
  BY DEF Slots, Sound, Ledger, IsStore
<1>2. ASSUME NEW h, Listed(h)
      PROVE  /\ Sets(s, Fill(s, o, h), o, r(h)) /\ r(h).held = h
             /\ Fill(s, o, h).overwritten = {} => s.op[o].held = <<>>
  BY <1>1, <1>2, FillSets
<1>3. s.op[o].held = <<>> => Ids(s, o) = {}
  BY <1>1, OwnsNone DEF Ids
<1> HIDE DEF r, k
<1>4. Sound(Fill(s, o, <<>>), X)
  <2> DEFINE t == Fill(s, o, <<>>)
             q == r(<<>>)
  <2>1. Sets(s, t, o, q) /\ q.held = <<>> /\ (t.overwritten = {} => s.op[o].held = <<>>)
    BY <1>2, ListedFacts
  <2> HIDE DEF t, q
  <2>2. OwnIds(k, q) = {} /\ Neat(k, q)
    BY <1>1, <2>1, OwnsNone
  <2>3. Sound(t, X)
    BY <1>1, <1>3, <2>1, <2>2, SetsSound DEF k
  <2> QED
    BY <2>3 DEF t
<1>5. Sound(Fill(s, o, s.op[o].held), X)
  <2> DEFINE t == Fill(s, o, s.op[o].held)
             q == r(s.op[o].held)
  <2>1. Sets(s, t, o, q) /\ q.held = s.op[o].held
    BY <1>1, <1>2
  <2> HIDE DEF t, q
  <2>2. OwnIds(k, q) = Ids(s, o) /\ Neat(k, q)
    BY <1>1, <2>1, OwnsSame DEF Ids, k
  <2>3. Sound(t, X)
    BY <1>1, <2>1, <2>2, SetsSound DEF k
  <2> QED
    BY <2>3 DEF t
<1>6. ASSUME NEW b, b.id \in X PROVE Sound(Fill(s, o, <<b>>), X \ {b.id})
  <2> DEFINE t == Fill(s, o, <<b>>)
             q == r(<<b>>)
  <2>1. Sets(s, t, o, q) /\ q.held = <<b>> /\ (t.overwritten = {} => s.op[o].held = <<>>)
    BY <1>2, ListedFacts
  <2> HIDE DEF t, q
  <2>2. OwnIds(k, q) = {b.id} /\ Neat(k, q)
    BY <2>1, OwnsOne DEF k
  <2> DEFINE x == b.id
  <2> HIDE DEF x
  <2>3. /\ x \in X /\ OwnIds(k, q) = {x}
        /\ OwnIds(k, q) \subseteq (X \union Ids(s, o)) \ (X \ {x}) /\ X \ {x} \subseteq X
        /\ t.overwritten = {} => X \union Ids(s, o) \subseteq OwnIds(k, q) \union (X \ {x})
    <3>1. x \in X /\ OwnIds(k, q) = {x}
      BY <1>6, <2>2 DEF x
    <3> QED
      BY <1>3, <2>1, <3>1
  <2>4. Sound(t, X \ {x})
    BY <2>1, <2>2, <2>3, SetsSound DEF k
  <2> QED
    BY <2>4 DEF t, x
<1> QED
  BY <1>4, <1>5, <1>6

\* A record that holds the same batches keeps them right.
LEMMA PutSound ==
  ASSUME NEW s, NEW X, Sound(s, X), NEW o \in DOMAIN s.op, NEW r, IsOp(r),
         r.held = s.op[o].held, Kind(s.plan, o) = "UNION" => r.at = s.op[o].at
  PROVE  Sound([s EXCEPT !.op[o] = r], X)
<1> DEFINE k == Kind(s.plan, o)
           t == [s EXCEPT !.op[o] = r]
<1>1. IsStore(s) /\ (k # "VALUES" => Listed(r.held)) /\ Neat(k, s.op[o])
      /\ Ids(s, o) \subseteq s.live \ X
  BY DEF Sound, Ledger, IsStore
<1>2. Sets(s, t, o, r)
  BY <1>1, PutSets
<1> HIDE DEF t
<1>3. OwnIds(k, r) = Ids(s, o) /\ Neat(k, r)
  BY <1>1, OwnsSame DEF Ids
<1>4. Sound(t, X)
  BY <1>1, <1>2, <1>3, SetsSound
<1> QED
  BY <1>4 DEF t

\* The operators that collect batches.
Queues == {"UNION", "SORT", "HASH_BUILD"}

\* A batch that joins a queue becomes its own.
LEMMA AppendedIds ==
  ASSUME NEW k \in Queues, NEW r, NEW q, NEW b, Listed(r.held), Neat(k, r),
         b.id \notin OwnIds(k, r), q.held = Append(r.held, b), q.at = r.at
  PROVE  OwnIds(k, q) = OwnIds(k, r) \union {b.id} /\ Neat(k, q)
<1> DEFINE h == r.held
           g == q.held
           n == Len(h)
           a == r.at
           S == ToSet(h) \union {b}
<1>0. k # "VALUES" /\ k \notin Slots
  BY DEF Queues, Slots
<1>1. h \in Seq(S)
  <2> DEFINE R == ToSet(h)
  <2>1. h \in Seq(R) /\ R \subseteq S
    BY DEF Listed
  <2> HIDE DEF R, S
  <2> QED
    BY <2>1
<1>2. /\ n \in Nat /\ DOMAIN h = 1 .. n /\ Len(g) = n + 1 /\ DOMAIN g = 1 .. n + 1
      /\ \A i \in 1 .. n : g[i] = h[i]
      /\ g[n + 1] = b
  <2>1. g = Append(h, b) /\ b \in S
    OBVIOUS
  <2> HIDE DEF g, S, h
  <2> QED
    BY <1>1, <2>1
<1>3. k = "UNION" => a \in Nat /\ a <= n
  <2> SUFFICES ASSUME k = "UNION" PROVE a \in Nat /\ a <= n
    OBVIOUS
  <2>1. a \in Nat /\ (IF h = <<>> THEN a = 0 ELSE a < n)
    BY DEF Neat
  <2> HIDE DEF a, n
  <2> QED
    BY <1>2, <2>1
<1>4. Own(k, r) \subseteq 1 .. n /\ Own(k, q) = Own(k, r) \union {n + 1}
  <2>1. Own(k, r) = {i \in 1 .. n : k = "UNION" => i > a}
    BY <1>0, <1>2 DEF Own
  <2>2. Own(k, q) = {i \in 1 .. n + 1 : k = "UNION" => i > a}
    BY <1>0, <1>2 DEF Own
  <2> HIDE DEF n, a
  <2>3. 1 .. n + 1 = (1 .. n) \union {n + 1} /\ (k = "UNION" => n + 1 > a)
    BY <1>2, <1>3
  <2> QED
    BY <2>1, <2>2, <2>3
<1>5. n + 1 \notin Own(k, r)
  <2>1. n + 1 \notin 1 .. n
    BY <1>2
  <2> QED
    BY <1>4, <2>1
<1>6. \A i \in Own(k, r) : g[i] = h[i] /\ g[i].id \in OwnIds(k, r)
  BY <1>2, <1>4 DEF OwnIds
<1>7. \A i, j \in Own(k, r) : h[i].id = h[j].id => i = j
  BY DEF Neat
<1>8. OwnIds(k, q) = OwnIds(k, r) \union {b.id}
  BY <1>2, <1>4, <1>6 DEF OwnIds
<1>9. \A i, j \in Own(k, q) : g[i].id = g[j].id => i = j
  BY <1>2, <1>4, <1>6, <1>7
<1>10. k = "UNION" => q.at \in Nat /\ q.held # <<>> /\ q.at < Len(q.held)
  <2> SUFFICES ASSUME k = "UNION" PROVE q.at \in Nat /\ q.held # <<>> /\ q.at < Len(q.held)
    OBVIOUS
  <2>1. Len(g) = n + 1 /\ n + 1 # 0 /\ Len(<<>>) = 0 /\ q.at = a
    BY <1>2
  <2>2. a < n + 1 /\ a \in Nat
    <3> HIDE DEF a, n
    <3> QED
      BY <1>2, <1>3
  <2> QED
    BY <2>1, <2>2
<1> QED
  BY <1>0, <1>8, <1>9, <1>10 DEF Neat

\* So the books are right.
LEMMA AppendSound ==
  ASSUME NEW s, NEW X, Sound(s, X), NEW o \in DOMAIN s.op, Kind(s.plan, o) \in Queues,
         NEW b, b.id \in X
  PROVE  Sound([s EXCEPT !.op[o].held = Append(@, b)], X \ {b.id})
<1> DEFINE k == Kind(s.plan, o)
           me == s.op[o]
           r == [me EXCEPT !.held = Append(@, b)]
           t == [s EXCEPT !.op[o] = r]
           x == b.id
<1>1. IsStore(s) /\ Listed(me.held) /\ Neat(k, me) /\ Ids(s, o) \subseteq s.live \ X /\ IsOp(me)
      /\ Ids(s, o) = OwnIds(k, me)
  BY DEF Sound, Ledger, IsStore, Queues, Ids
<1>2. IsOp(r) /\ Listed(r.held) /\ r.held = Append(me.held, b) /\ r.at = me.at
  BY <1>1, ListedFacts DEF IsOp, Fields
<1>3. [s EXCEPT !.op[o].held = Append(@, b)] = t
  OBVIOUS
<1> HIDE DEF r, me
<1>4. Sets(s, t, o, r)
  BY <1>1, <1>2, PutSets
<1> HIDE DEF t, k
<1>5. b.id \notin OwnIds(k, me)
  BY <1>1
<1>6. OwnIds(k, r) = OwnIds(k, me) \union {b.id} /\ Neat(k, r)
  BY <1>1, <1>2, <1>5, AppendedIds DEF k
<1> HIDE DEF x
<1>7. /\ x \in X /\ OwnIds(k, r) = Ids(s, o) \union {x}
      /\ OwnIds(k, r) \subseteq (X \union Ids(s, o)) \ (X \ {x}) /\ X \ {x} \subseteq X
      /\ X \union Ids(s, o) \subseteq OwnIds(k, r) \union (X \ {x})
  <2>1. x \in X /\ OwnIds(k, r) = Ids(s, o) \union {x}
    BY <1>1, <1>6 DEF x
  <2> QED
    BY <1>1, <2>1
<1>8. Sound(t, X \ {x})
  BY <1>4, <1>6, <1>7, SetsSound DEF k
<1> QED
  BY <1>3, <1>8 DEF x

\* What stays when the operators are left alone.
LEMMA SameOpsFacts ==
  ASSUME NEW s, NEW t, SameOps(s, t), NEW o \in DOMAIN s.op
  PROVE  o \in DOMAIN t.op /\ t.plan = s.plan /\ t.op = s.op
  BY DEF SameOps

\* A batch is made and put into the slot of o.
LEMMA KeepFillSound ==
  ASSUME NEW s, NEW X, Sound(s, X), NEW o \in DOMAIN s.op, Kind(s.plan, o) \in Slots, NEW rows
  PROVE  Sound(Fill(Keep(s, New(s, rows)), o, <<New(s, rows)>>), X)
<1> DEFINE b == New(s, rows)
           t == Keep(s, b)
<1>1. Sound(t, X \union {b.id}) /\ b.id \notin X /\ SameOps(s, t)
  BY KeepSound
<1> HIDE DEF b, t
<1>2. o \in DOMAIN t.op /\ Kind(t.plan, o) \in Slots
  BY <1>1, SameOpsFacts
<1>3. Sound(Fill(t, o, <<b>>), (X \union {b.id}) \ {b.id})
  <2> DEFINE Z == X \union {b.id}
  <2>1. b.id \in Z /\ Sound(t, Z)
    BY <1>1
  <2> HIDE DEF Z
  <2>2. Sound(Fill(t, o, <<b>>), Z \ {b.id})
    BY <1>2, <2>1, FillSound
  <2> QED
    BY <2>2 DEF Z
<1>4. (X \union {b.id}) \ {b.id} = X
  BY <1>1
<1>5. Sound(Fill(t, o, <<b>>), X)
  BY <1>3, <1>4
<1> QED
  BY <1>5 DEF t, b

\* A batch that is on its way and freed is not on its way.
LEMMA FreedInput ==
  ASSUME NEW s, NEW b, Sound(s, {b.id}) PROVE Sound(Free(s, b), {})
<1>1. Sound(Free(s, b), {b.id} \ {b.id})
  BY FreeSound
<1>2. {b.id} \ {b.id} = {}
  OBVIOUS
<1> QED
  BY <1>1, <1>2

\* AddInput of a Filter and of a Projection keeps the books right.
LEMMA EvaluateSound ==
  ASSUME NEW s, NEW b, Sound(s, {b.id}), NEW o \in DOMAIN s.op, Kind(s.plan, o) \in Slots
  PROVE  Sound(Evaluate(s, o, b), {})
<1> DEFINE passes(r) == Kind(s.plan, o) = "PROJECT" \/ r[1] = 1
           rows == SelectSeq(b.rows, passes)
           made == New(s, rows)
           sa   == Fill(s, o, <<>>)
           sb   == Fill(Keep(s, made), o, <<made>>)
           t    == Evaluate(s, o, b)
<1>1. t = Free(s, b) \/ t = Free(sa, b) \/ t = Free(sb, b)
  BY DEF Evaluate, Drop
<1> HIDE DEF t, rows
<1>2. Sound(sa, {b.id}) /\ Sound(sb, {b.id})
  BY FillSound, KeepFillSound
<1> HIDE DEF sa, sb, made
<1>3. Sound(t, {})
  BY <1>1, <1>2, FreedInput
<1> QED
  BY <1>3 DEF t

\* AddInput of a join does.
LEMMA ProbeSound ==
  ASSUME NEW s, NEW b, Sound(s, {b.id}), NEW o \in DOMAIN s.op, Kind(s.plan, o) \in Slots
  PROVE  Sound(ProbeAddInput(s, o, b), {})
<1> DEFINE rows == b.rows
           made == New(s, rows)
           sb   == Fill(Keep(s, made), o, <<made>>)
           t    == ProbeAddInput(s, o, b)
<1>1. t = Free(s, b) \/ t = Free(sb, b)
  BY DEF ProbeAddInput, Drop
<1> HIDE DEF t, rows
<1>2. Sound(sb, {b.id})
  BY KeepFillSound
<1> HIDE DEF sb, made
<1>3. Sound(t, {})
  BY <1>1, <1>2, FreedInput
<1> QED
  BY <1>3 DEF t

\* AddInput of an Expand does: an empty batch resets the slot, and so overwrites it.
LEMMA ExpandSound ==
  ASSUME NEW s, NEW b, Sound(s, {b.id}), NEW o \in DOMAIN s.op, Kind(s.plan, o) = "EXPAND"
  PROVE  Sound(ExpandAddInput(s, o, b), {})
<1> DEFINE s0 == Free(s, b)
           s1 == Fill(s0, o, <<>>)
           r  == [s1.op[o] EXCEPT !.fin = FALSE]
           u  == [s1 EXCEPT !.op[o] = r]
           t  == ExpandAddInput(s, o, b)
<1>1. t = Fill(s, o, <<b>>) \/ t = u
  <2> DEFINE v == [s1 EXCEPT !.op[o].fin = FALSE]
  <2>1. t = Fill(s, o, <<b>>) \/ t = v
    BY DEF ExpandAddInput
  <2> HIDE DEF s1, t
  <2>2. v = u
    OBVIOUS
  <2> HIDE DEF v, u
  <2> QED
    BY <2>1, <2>2
<1> HIDE DEF t
<1>0. Kind(s.plan, o) \in Slots /\ "EXPAND" # "UNION"
  BY DEF Slots
<1>2. Sound(Fill(s, o, <<b>>), {})
  <2>1. Sound(Fill(s, o, <<b>>), {b.id} \ {b.id})
    BY <1>0, FillSound
  <2>2. {b.id} \ {b.id} = {}
    OBVIOUS
  <2> QED
    BY <2>1, <2>2
<1>3. Sound(s0, {}) /\ SameOps(s, s0) /\ o \in DOMAIN s0.op /\ s0.plan = s.plan
  <2>1. SameOps(s, s0)
    BY FreeSame DEF Sound
  <2> QED
    BY <2>1, FreedInput, SameOpsFacts
<1> HIDE DEF s0
<1>4. Sound(s1, {}) /\ Accepts(s0, s1, o)
  BY <1>0, <1>3, FillSound, FillAccepts, ListedFacts DEF Sound
<1> HIDE DEF s1
<1>5. o \in DOMAIN s1.op /\ s1.plan = s.plan /\ IsOp(s1.op[o])
  BY <1>3, <1>4 DEF Accepts, Sound, IsStore
<1>6. IsOp(r) /\ r.held = s1.op[o].held
  BY <1>5 DEF IsOp, Fields
<1> HIDE DEF r
<1>7. Sound(u, {})
  BY <1>0, <1>4, <1>5, <1>6, PutSound
<1>8. Sound(t, {})
  BY <1>1, <1>2, <1>7
<1> QED
  BY <1>8 DEF t

\* AddInput of a Limit does.
LEMMA LimitSound ==
  ASSUME NEW s, NEW b, Sound(s, {b.id}), NEW o \in DOMAIN s.op, Kind(s.plan, o) = "LIMIT"
  PROVE  Sound(LimitAddInput(s, o, b), {})
<1> DEFINE me    == s.op[o]
           count == Len(b.rows)
           start == Smaller(me.skip, count)
           take  == IF me.left < 0 THEN count - start ELSE Smaller(count - start, me.left)
           rows  == SubSeq(b.rows, start + 1, start + take)
           x1    == [s EXCEPT !.op[o].skip = @ - start,
                              !.op[o].left = IF @ < 0 THEN @ ELSE @ - take]
           r     == [s.op[o] EXCEPT !.skip = @ - start, !.left = IF @ < 0 THEN @ ELSE @ - take]
           s1    == [s EXCEPT !.op[o] = r]
           made  == New(s, rows)
           s3    == Fill(Keep(s1, made), o, <<made>>)
           s4    == Fill(s, o, me.held)
           t     == LimitAddInput(s, o, b)
<1>0. Kind(s.plan, o) \in Slots /\ "LIMIT" # "UNION" /\ IsOp(me) /\ IsStore(s)
  BY DEF Slots, Sound, IsStore
<1>1. t \in {Free(s4, b), Free(s, b), Free(s1, b), Free(s3, b)}
  <2>1. x1 = s1
    <3> HIDE DEF start, take
    <3> QED
      BY <1>0 DEF IsStore, IsOp, Fields
  <2>2. t \in {Free(s4, b), Free(s, b), Free(x1, b), Free(Fill(Keep(x1, made), o, <<made>>), b)}
    BY DEF LimitAddInput, Drop
  <2> HIDE DEF s1, x1, t, made, s4
  <2> QED
    BY <2>1, <2>2
<1> HIDE DEF t, rows, take, start
<1>2. IsOp(r) /\ r.held = me.held
  BY <1>0 DEF IsOp, Fields
<1> HIDE DEF r
<1>3. Sound(s1, {b.id})
  BY <1>0, <1>2, PutSound
<1>4. Sound(s4, {b.id})
  BY <1>0, FillSound
<1>5. s1.made = s.made /\ o \in DOMAIN s1.op /\ s1.plan = s.plan
  BY <1>0 DEF IsStore
<1> HIDE DEF s1, s4
<1>6. made = New(s1, rows)
  BY <1>5 DEF New
<1>7. Sound(s3, {b.id})
  <2> DEFINE m == New(s1, rows)
  <2>1. Sound(Fill(Keep(s1, m), o, <<m>>), {b.id})
    BY <1>0, <1>3, <1>5, KeepFillSound
  <2> HIDE DEF m, made
  <2>2. made = m
    BY <1>6 DEF m
  <2> QED
    BY <2>1, <2>2
<1> HIDE DEF s3
<1>8. Sound(t, {})
  BY <1>1, <1>3, <1>4, <1>7, FreedInput
<1> QED
  BY <1>8 DEF t

\* AddInput of a Sort, a builder and a Union does.
LEMMA EnqueueSound ==
  ASSUME NEW s, NEW b, Sound(s, {b.id}), NEW o \in DOMAIN s.op, Kind(s.plan, o) \in Queues
  PROVE  Sound(Enqueue(s, o, b), {})
<1> DEFINE rows == b.rows
           made == New(s, rows)
           s0 == Keep(s, made)
           s1 == [s0 EXCEPT !.op[o].held = Append(@, made)]
           t  == Enqueue(s, o, b)
           x  == b.id
<1>1. t = Free(s, b) \/ t = Free(s1, b)
  BY DEF Enqueue, Drop
<1> HIDE DEF t, rows
<1>2. Sound(s0, {x} \union {made.id}) /\ made.id \notin {x} /\ SameOps(s, s0)
  BY KeepSound
<1> HIDE DEF s0, made
<1>3. o \in DOMAIN s0.op /\ Kind(s0.plan, o) \in Queues
  BY <1>2, SameOpsFacts
<1>4. Sound(s1, {x})
  <2> DEFINE Z == {x} \union {made.id}
  <2>1. Sound(s0, Z) /\ made.id \in Z /\ Z \ {made.id} = {x}
    BY <1>2
  <2> HIDE DEF Z, s1, x
  <2>2. Sound(s1, Z \ {made.id})
    BY <1>3, <2>1, AppendSound DEF s1
  <2> QED
    BY <2>1, <2>2
<1> HIDE DEF s1
<1>5. Sound(t, {})
  BY <1>1, <1>4, FreedInput
<1> QED
  BY <1>5 DEF t

\* AddInput of an aggregation does.
LEMMA CountSound ==
  ASSUME NEW s, NEW b, Sound(s, {b.id}), NEW o \in DOMAIN s.op, Kind(s.plan, o) # "UNION"
  PROVE  Sound(Free([s EXCEPT !.op[o].at = @ + Len(b.rows)], b), {})
<1> DEFINE r  == [s.op[o] EXCEPT !.at = @ + Len(b.rows)]
           s1 == [s EXCEPT !.op[o] = r]
<1>1. IsOp(s.op[o])
  BY DEF IsStore, Sound
<1>2. IsOp(r) /\ r.held = s.op[o].held
  BY <1>1 DEF IsOp, Fields
<1>3. [s EXCEPT !.op[o].at = @ + Len(b.rows)] = s1
  OBVIOUS
<1> HIDE DEF r
<1>4. Sound(s1, {b.id})
  BY <1>2, PutSound
<1> HIDE DEF s1
<1> QED
  BY <1>3, <1>4, FreedInput

\* A builder's node has its own operator.
LEMMA RootOf ==
  ASSUME NEW s, IsStore(s), NEW o \in DOMAIN s.op PROVE <<o[1], 1>> \in DOMAIN s.op
  BY DriversRooted DEF IsStore

\* AddInput of every operator that has a source takes the batch into the books.
LEMMA AddInputSound ==
  ASSUME NEW s, NEW b, Sound(s, {b.id}), NEW o \in DOMAIN s.op, Kind(s.plan, o) # "VALUES"
  PROVE  Sound(AddInput(s, o, b), {})
<1> DEFINE k == Kind(s.plan, o)
<1>0. IsStore(s)
  BY DEF Sound
<1>1. k \in {"FILTER", "PROJECT", "EXPAND", "LIMIT", "SORT", "AGG",
             "UNION", "INNER", "LEFT", "FULL", "UNION_BUILD", "HASH_BUILD"}
  BY <1>0, KindIs
<1>2. CASE k \in {"FILTER", "PROJECT"}
  <2>1. AddInput(s, o, b) = Evaluate(s, o, b)
    BY <1>2 DEF AddInput, Joins
  <2>2. Sound(Evaluate(s, o, b), {})
    BY <1>2, EvaluateSound DEF Slots
  <2> QED
    BY <2>1, <2>2, Zenon
<1>3. CASE k = "EXPAND"
  <2>1. AddInput(s, o, b) = ExpandAddInput(s, o, b)
    BY <1>3 DEF AddInput, Joins
  <2>2. Sound(ExpandAddInput(s, o, b), {})
    BY <1>3, ExpandSound
  <2> QED
    BY <2>1, <2>2, Zenon
<1>4. CASE k = "LIMIT"
  <2>1. AddInput(s, o, b) = LimitAddInput(s, o, b)
    BY <1>4 DEF AddInput, Joins
  <2>2. Sound(LimitAddInput(s, o, b), {})
    BY <1>4, LimitSound
  <2> QED
    BY <2>1, <2>2, Zenon
<1>5. CASE k \in {"UNION", "SORT", "HASH_BUILD"}
  <2>1. AddInput(s, o, b) = Enqueue(s, o, b)
    BY <1>5 DEF AddInput, Joins
  <2>2. Sound(Enqueue(s, o, b), {})
    BY <1>5, EnqueueSound DEF Queues
  <2> QED
    BY <2>1, <2>2, Zenon
<1>6. CASE k = "UNION_BUILD"
  <2> DEFINE c == <<o[1], 1>>
  <2>1. AddInput(s, o, b) = Enqueue(s, c, b)
    BY <1>6 DEF AddInput, Joins
  <2>2. Kind(s.plan, c) = "UNION"
    <3>1. s.plan[o[1]].kind = "UNION"
      BY <1>0, <1>6, UnionKinds
    <3> QED
      BY <3>1 DEF Kind
  <2>3. c \in DOMAIN s.op
    BY <1>0, RootOf
  <2> HIDE DEF c
  <2>4. Sound(Enqueue(s, c, b), {})
    BY <2>2, <2>3, EnqueueSound DEF Queues
  <2> QED
    BY <2>1, <2>4, Zenon
<1>7. CASE k = "AGG"
  <2>1. AddInput(s, o, b) = Free([s EXCEPT !.op[o].at = @ + Len(b.rows)], b)
    BY <1>7 DEF AddInput, Joins
  <2>2. Sound(Free([s EXCEPT !.op[o].at = @ + Len(b.rows)], b), {})
    BY <1>7, CountSound
  <2> QED
    BY <2>1, <2>2, Zenon
<1>8. CASE k \in {"INNER", "LEFT", "FULL"}
  <2>1. AddInput(s, o, b) = ProbeAddInput(s, o, b)
    BY <1>8 DEF AddInput, Joins
  <2>2. Sound(ProbeAddInput(s, o, b), {})
    BY <1>8, ProbeSound DEF Slots
  <2> QED
    BY <2>1, <2>2, Zenon
<1> QED
  BY <1>1, <1>2, <1>3, <1>4, <1>5, <1>6, <1>7, <1>8

\* GetOutput of every operator keeps them right, with its batch on its way.
LEMMA GetOutputSound ==
  ASSUME NEW s, Sound(s, {}), NEW o \in DOMAIN s.op, NEW g, g = GetOutput(s, o)
  PROVE  Sound(g.store, Flying(g.out))
         /\ Flying(g.out) = (IF g.out = NoBatch THEN {} ELSE {g.out.id})
<1> DEFINE t == g.store
           Y == Flying(g.out)
<1>1. IsStore(s) /\ Ledger(s, {})
  BY DEF Sound
<1>2. Turn(s, t, o, {}, Y)
  <2>1. Hands(s, o, g)
    BY <1>1, GetOutputHands
  <2> QED
    BY <2>1 DEF Hands
<1>3. Emits(s, t, o)
  BY <1>1, GetOutputEmits
<1> HIDE DEF t, Y
<1>4. /\ IsStore(t) /\ t.plan = s.plan /\ DOMAIN t.op = DOMAIN s.op
      /\ \A p \in DOMAIN s.op \ {o} : t.op[p] = s.op[p]
  BY <1>1, <1>3 DEF Emits, IsStore
<1>5. Sound(t, Y)
  BY <1>1, <1>2, <1>4, TurnKeeps DEF Sound
<1> QED
  BY <1>5 DEF t, Y, Flying

\* noMoreInput keeps them right.
LEMMA EndSound ==
  ASSUME NEW s, Sound(s, {}), NEW o \in DOMAIN s.op
  PROVE  Sound(noMoreInput(s, o), {})
<1> DEFINE c == <<o[1], 1>>
           k == Kind(s.plan, o)
           r == [s.op[o] EXCEPT !.noMore = TRUE]
           s1 == [s EXCEPT !.op[o] = r]
           less(v) == [v.op[c] EXCEPT !.sources = @ - 1, !.noMore = v.op[c].sources <= 1]
           oneLess(v) == [v EXCEPT !.op[c] = less(v)]
           t == noMoreInput(s, o)
<1>1. t = s1 \/ t = oneLess(s) \/ t = oneLess(s1)
  <2> DEFINE x(v) == [v EXCEPT !.op[c].sources = @ - 1, !.op[c].noMore = v.op[c].sources <= 1]
  <2>1. t = s1 \/ t = x(s) \/ t = x(s1)
    BY DEF noMoreInput
  <2>2. ASSUME NEW v PROVE x(v) = oneLess(v)
    OBVIOUS
  <2> HIDE DEF x, oneLess, t, s1
  <2> QED
    BY <2>1, <2>2
<1> HIDE DEF t
<1>2. IsStore(s) /\ IsOp(s.op[o]) /\ c \in DOMAIN s.op
  BY RootOf DEF Sound, IsStore
<1>3. IsOp(r) /\ r.held = s.op[o].held /\ r.at = s.op[o].at
  BY <1>2 DEF IsOp, Fields
<1> HIDE DEF r
<1>4. Sound(s1, {}) /\ DOMAIN s1.op = DOMAIN s.op
  <2>1. Sound(s1, {})
    BY <1>3, PutSound
  <2>2. DOMAIN s1.op = DOMAIN s.op
    BY <1>2 DEF IsStore
  <2> QED
    BY <2>1, <2>2
<1> HIDE DEF s1, c
<1>5. ASSUME NEW v, Sound(v, {}), c \in DOMAIN v.op PROVE Sound(oneLess(v), {})
  <2> DEFINE q == less(v)
  <2>1. IsOp(v.op[c])
    BY <1>5 DEF Sound, IsStore
  <2>2. IsOp(q) /\ q.held = v.op[c].held /\ q.at = v.op[c].at
    BY <2>1 DEF IsOp, Fields
  <2> HIDE DEF q
  <2>3. Sound([v EXCEPT !.op[c] = q], {})
    BY <1>5, <2>2, PutSound
  <2> QED
    BY <2>3 DEF q
<1> HIDE DEF oneLess
<1> QED
  BY <1>1, <1>2, <1>4, <1>5 DEF t

\* The listing of a finite set has all of it.
LEMMA ListsAll ==
  ASSUME NEW S, IsFiniteSet(S), NEW x \in S
  PROVE  \E i \in 1 .. Cardinality(S) : SetToSeq(S)[i] = x
<1> DEFINE n == Cardinality(S)
           f == SetToSeq(S)
           T == S \ {x}
<1>1. n \in Nat /\ f \in [1 .. n -> S] /\ \A i, j \in 1 .. n : f[i] = f[j] => i = j
  BY Listing DEF IsInjective
<1>2. IsFiniteSet(T) /\ Cardinality(T) = n - 1
  BY FS_RemoveElement
<1>3. IsFiniteSet(1 .. n) /\ Cardinality(1 .. n) = n
  BY <1>1, FS_Interval
<1> HIDE DEF n, f
<1> SUFFICES ASSUME \A i \in 1 .. n : f[i] # x PROVE FALSE
  BY DEF n, f
<1>4. f \in [1 .. n -> T]
  BY <1>1
<1> HIDE DEF T
<1>5. Cardinality(T) < Cardinality(1 .. n)
  BY <1>1, <1>2, <1>3
<1>6. \E i, j \in 1 .. n : i # j /\ f[i] = f[j]
  BY <1>2, <1>3, <1>4, <1>5, FS_PigeonHole
<1> QED
  BY <1>1, <1>6

\* The lists of S have no identity in common, and none twice.
Apart(S) ==
  \A g, h \in S : \A i \in 1 .. Len(g) : \A j \in 1 .. Len(h) :
    g[i].id = h[j].id => g = h /\ i = j

\* Batches in a row, each once, and all that the lists of S have.
AllOnce(S, flat) ==
  /\ Len(flat) \in Nat /\ DOMAIN flat = 1 .. Len(flat)
  /\ \A i, j \in 1 .. Len(flat) : flat[i].id = flat[j].id => i = j
  /\ \A p \in 1 .. Len(flat) : \E h \in S : \E q \in 1 .. Len(h) : flat[p] = h[q]
  /\ \A h \in S : \A q \in 1 .. Len(h) : \E p \in 1 .. Len(flat) : flat[p] = h[q]

\* Lists that have nothing in common and nothing twice, laid one after the other.
LEMMA ConcatenatedOnce ==
  ASSUME NEW S, IsFiniteSet(S), S # {}, \A h \in S : Listed(h), Apart(S)
  PROVE  AllOnce(S, FlattenSeq(SetToSeq(S)))
<1> DEFINE ss == SetToSeq(S)
           flat == FlattenSeq(ss)
           n == Cardinality(S)
           A == UNION {ToSet(h) : h \in S}
<1>1. n \in Nat /\ ss \in [1 .. n -> S] /\ \A i, j \in 1 .. n : ss[i] = ss[j] => i = j
  BY Listing DEF IsInjective
<1>2. \A h \in S : \E i \in 1 .. n : ss[i] = h
  BY ListsAll
<1>3. ASSUME NEW h \in S PROVE h \in Seq(A)
  <2>1. h \in Seq(ToSet(h)) /\ ToSet(h) \subseteq A
    BY DEF Listed
  <2> HIDE DEF A
  <2> QED
    BY <2>1
<1>4. Len(flat) \in Nat /\ DOMAIN flat = 1 .. Len(flat)
  BY OwnedLists
<1> HIDE DEF A, ss, n
<1>5. ss \in Seq(Seq(A)) /\ Len(ss) = n /\ n > 0
  <2>1. ss \in [1 .. n -> Seq(A)]
    BY <1>1, <1>3
  <2> QED
    BY <1>1, <1>2, <2>1
<1>6. PICK off : Spread(ss, flat, off)
  BY <1>5, Spreads
<1>7. Gathers(ss, flat)
  BY <1>6, SpreadElements
<1> HIDE DEF flat
<1>8. /\ \A i \in 1 .. n : \A q \in 1 .. Len(ss[i]) : flat[off[i] + q] = ss[i][q]
      /\ \A p \in 1 .. Len(flat) : \E i \in 1 .. n : \E q \in 1 .. Len(ss[i]) : p = off[i] + q
  BY <1>5, <1>6 DEF Spread, Offsets
<1>9. ASSUME NEW a \in 1 .. Len(flat), NEW b \in 1 .. Len(flat), flat[a].id = flat[b].id
      PROVE  a = b
  <2>1. PICK i \in 1 .. n : \E q \in 1 .. Len(ss[i]) : a = off[i] + q
    BY <1>8
  <2>2. PICK q \in 1 .. Len(ss[i]) : a = off[i] + q
    BY <2>1
  <2>3. PICK j \in 1 .. n : \E r \in 1 .. Len(ss[j]) : b = off[j] + r
    BY <1>8
  <2>4. PICK r \in 1 .. Len(ss[j]) : b = off[j] + r
    BY <2>3
  <2>5. ss[i] \in S /\ ss[j] \in S /\ ss[i][q].id = ss[j][r].id
    BY <1>1, <1>8, <1>9, <2>2, <2>4
  <2>6. ss[i] = ss[j] /\ q = r
    BY <2>5 DEF Apart
  <2>7. i = j
    BY <1>1, <2>6
  <2> QED
    BY <2>2, <2>4, <2>6, <2>7
<1>10. \A p \in 1 .. Len(flat) : \E h \in S : \E q \in 1 .. Len(h) : flat[p] = h[q]
  <2> SUFFICES ASSUME NEW p \in 1 .. Len(flat)
               PROVE  \E h \in S : \E q \in 1 .. Len(h) : flat[p] = h[q]
    OBVIOUS
  <2>1. PICK i \in 1 .. n : \E q \in 1 .. Len(ss[i]) : flat[p] = ss[i][q]
    BY <1>5, <1>7 DEF Gathers
  <2>2. ss[i] \in S
    BY <1>1
  <2> QED
    BY <2>1, <2>2
<1>11. \A h \in S : \A q \in 1 .. Len(h) : \E p \in 1 .. Len(flat) : flat[p] = h[q]
  <2> SUFFICES ASSUME NEW h \in S, NEW q \in 1 .. Len(h)
               PROVE  \E p \in 1 .. Len(flat) : flat[p] = h[q]
    OBVIOUS
  <2>1. PICK i \in 1 .. n : ss[i] = h
    BY <1>2
  <2>2. \A r \in 1 .. Len(ss[i]) : \E p \in 1 .. Len(flat) : flat[p] = ss[i][r]
    BY <1>5, <1>7 DEF Gathers
  <2> QED
    BY <2>1, <2>2
<1>12. AllOnce(S, flat)
  BY <1>4, <1>9, <1>10, <1>11 DEF AllOnce
<1> QED
  BY <1>12 DEF flat, ss

\* Freeing overwrites no slot.
LEMMA FreeAllOverwrites ==
  ASSUME NEW s, IsStore(s), NEW h, Len(h) \in Nat, DOMAIN h = 1 .. Len(h)
  PROVE  FreeAll(s, h).overwritten = s.overwritten
<1> DEFINE n == Len(h)
           Good(t) == SameOps(s, t) /\ t.overwritten = s.overwritten
<1>1. PICK f : FreesEach(s, h, f) /\ FreeAll(s, h) = f[n]
  BY FreeAllFrees
<1> DEFINE B == {i \in 0 .. n : ~ Good(f[i])}
<1> SUFFICES ASSUME B # {} PROVE FALSE
  BY <1>1
<1>2. PICK m \in B : \A i \in B : m <= i
  <2>1. B \in SUBSET Nat
    OBVIOUS
  <2> HIDE DEF B
  <2> QED
    BY <2>1, LeastNatural
<1>3. m # 0
  <2>1. Good(s)
    BY DEF SameOps
  <2> QED
    BY <1>1, <1>2, <2>1 DEF FreesEach
<1>4. m - 1 \in 0 .. n /\ m \in 1 .. n /\ m - 1 \notin B
  BY <1>2, <1>3
<1>5. Good(f[m - 1]) /\ ~ Good(f[m])
  BY <1>2, <1>4
<1>6. f[m] = Free(f[m - 1], h[m])
  BY <1>1, <1>4 DEF FreesEach
<1>7. SameOps(f[m - 1], f[m]) /\ f[m].overwritten = f[m - 1].overwritten
  <2>1. IsStore(f[m - 1])
    BY <1>5 DEF SameOps
  <2>2. SameOps(f[m - 1], f[m])
    BY <1>6, <2>1, FreeSame
  <2>3. "overwritten" \in DOMAIN f[m - 1]
    BY <2>1 DEF IsStore
  <2>4. f[m].overwritten = f[m - 1].overwritten
    BY <1>6, <2>3 DEF Free
  <2> QED
    BY <2>2, <2>4
<1> QED
  BY <1>5, <1>7 DEF SameOps

\* What operator o of s frees when it is closed.
OwnedBy(s, o) == IF Kind(s.plan, o) \in {"VALUES", "EXPAND"} THEN <<>> ELSE s.op[o].held

\* Nothing in s is between two hands.
Calm(s) ==
  \A o \in DOMAIN s.op : /\ Kind(s.plan, o) = "UNION" => ~(s.op[o].at > 0)
                         /\ Kind(s.plan, o) = "EXPAND" => s.op[o].held = <<>>

\* Then what it frees is what it owns.
LEMMA OwnedIds ==
  ASSUME NEW s, Sound(s, {}), Calm(s), NEW o \in DOMAIN s.op
  PROVE  /\ Listed(OwnedBy(s, o)) /\ Ids(s, o) \subseteq s.live
         /\ Ids(s, o) = {OwnedBy(s, o)[i].id : i \in 1 .. Len(OwnedBy(s, o))}
         /\ \A i, j \in 1 .. Len(OwnedBy(s, o)) :
              OwnedBy(s, o)[i].id = OwnedBy(s, o)[j].id => i = j
<1> DEFINE k == Kind(s.plan, o)
           r == s.op[o]
           h == OwnedBy(s, o)
<1>1. Neat(k, r) /\ Ids(s, o) = OwnIds(k, r) /\ Ids(s, o) \subseteq s.live
      /\ (k # "VALUES" => Listed(r.held))
  BY DEF Sound, Ledger, Ids, IsStore
<1>2. (k = "UNION" => ~(r.at > 0)) /\ (k = "EXPAND" => r.held = <<>>)
  BY DEF Calm
<1>3. h = IF k \in {"VALUES", "EXPAND"} THEN <<>> ELSE r.held
  BY DEF OwnedBy
<1> HIDE DEF k, r, h
<1>4. Listed(h)
  BY <1>1, <1>3, ListedFacts
<1>5. DOMAIN h = 1 .. Len(h) /\ Len(h) \in Nat
  BY <1>4, LenProperties DEF Listed
<1>6. Own(k, r) = DOMAIN h /\ \A i \in DOMAIN h : h[i] = r.held[i]
  <2>1. CASE k = "VALUES"
    BY <1>3, <2>1 DEF Own
  <2>2. CASE k = "EXPAND"
    BY <1>2, <1>3, <2>2 DEF Own
  <2>3. CASE k = "UNION"
    <3>1. h = r.held /\ r.at \in Nat /\ ~(r.at > 0)
      BY <1>1, <1>2, <1>3, <2>3 DEF Neat
    <3>2. \A i \in DOMAIN h : i > r.at
      BY <1>5, <3>1
    <3> QED
      BY <2>3, <3>1, <3>2 DEF Own
  <2>4. CASE k \notin {"VALUES", "EXPAND", "UNION"}
    BY <1>3, <2>4 DEF Own
  <2> QED
    BY <2>1, <2>2, <2>3, <2>4
<1>7. Ids(s, o) = {h[i].id : i \in 1 .. Len(h)}
  BY <1>1, <1>5, <1>6 DEF OwnIds
<1>8. \A i, j \in 1 .. Len(h) : h[i].id = h[j].id => i = j
  BY <1>1, <1>5, <1>6 DEF Neat
<1> QED
  BY <1>1, <1>4, <1>7, <1>8 DEF h

\* Close frees what the operators own, one after the other.
LEMMA WhatCloseFrees ==
  ASSUME NEW s, IsStore(s), \A o \in DOMAIN s.op : Listed(OwnedBy(s, o)),
         NEW S, S = {OwnedBy(s, o) : o \in DOMAIN s.op}
  PROVE  /\ IsFiniteSet(S) /\ S # {} /\ \A h \in S : Listed(h)
         /\ CloseAll(s) = FreeAll(s, FlattenSeq(SetToSeq(S)))
<1> DEFINE f == [o \in DOMAIN s.op |-> OwnedBy(s, o)]
<1>1. IsFiniteSet(S)
  <2>1. f \in Surjection(DOMAIN s.op, S)
    BY DEF Surjection
  <2>2. IsFiniteSet(DOMAIN s.op)
    BY OpsAreFinite
  <2> HIDE DEF f
  <2> QED
    BY <2>1, <2>2, FS_Surjection
<1>2. S # {}
  <2>1. Len(s.drivers) \in Nat \ {0} /\ \A d \in 1 .. Len(s.drivers) :
          Len(s.drivers[d]) \in Nat \ {0}
          /\ \A k \in 1 .. Len(s.drivers[d]) :
                s.drivers[d][k] \in DOMAIN s.op
    BY Pipelines
  <2>2. s.drivers[1][1] \in DOMAIN s.op
    BY <2>1
  <2> QED
    BY <2>2
<1>3. CloseAll(s) = FreeAll(s, FlattenSeq(SetToSeq(S)))
  BY DEF CloseAll, OwnedBy
<1> QED
  BY <1>1, <1>2, <1>3

\* The heart of it: each batch that is alive is freed, once.
LEMMA CloseFreesAll ==
  ASSUME NEW s, Sound(s, {}), Calm(s), s.overwritten = {}
  PROVE  CloseAll(s).live = {} /\ CloseAll(s).freedTwice = {}
<1> DEFINE S == {OwnedBy(s, o) : o \in DOMAIN s.op}
           h == FlattenSeq(SetToSeq(S))
           t == CloseAll(s)
<1>1. IsStore(s) /\ s.freedTwice = {}
      /\ (\A o, p \in DOMAIN s.op : o # p => Ids(s, o) \cap Ids(s, p) = {})
      /\ (\A x \in s.live : \E o \in DOMAIN s.op : x \in Ids(s, o))
  BY DEF Sound, Ledger
<1>2. \A o \in DOMAIN s.op : Listed(OwnedBy(s, o))
  BY OwnedIds
<1>3. /\ IsFiniteSet(S) /\ S # {} /\ (\A g \in S : Listed(g))
      /\ t = FreeAll(s, h)
  BY <1>1, <1>2, WhatCloseFrees
<1>4. Apart(S)
  <2> SUFFICES ASSUME NEW o \in DOMAIN s.op, NEW p \in DOMAIN s.op,
                      NEW i \in 1 .. Len(OwnedBy(s, o)), NEW j \in 1 .. Len(OwnedBy(s, p)),
                      OwnedBy(s, o)[i].id = OwnedBy(s, p)[j].id
               PROVE  OwnedBy(s, o) = OwnedBy(s, p) /\ i = j
    BY DEF Apart
  <2>1. OwnedBy(s, o)[i].id \in Ids(s, o) /\ OwnedBy(s, p)[j].id \in Ids(s, p)
    BY OwnedIds
  <2>2. o = p
    BY <1>1, <2>1
  <2> QED
    BY <2>2, OwnedIds
<1> HIDE DEF h, t
<1>5. AllOnce(S, h)
  BY <1>3, <1>4, ConcatenatedOnce DEF h
<1> HIDE DEF S
<1>6. \A g \in S : \E o \in DOMAIN s.op : g = OwnedBy(s, o)
  BY DEF S
<1>7. \A o \in DOMAIN s.op : OwnedBy(s, o) \in S
  BY DEF S
<1>8. \A i \in 1 .. Len(h) : h[i].id \in s.live
  <2> SUFFICES ASSUME NEW i \in 1 .. Len(h) PROVE h[i].id \in s.live
    OBVIOUS
  <2>1. PICK g \in S : \E q \in 1 .. Len(g) : h[i] = g[q]
    BY <1>5 DEF AllOnce
  <2>2. PICK q \in 1 .. Len(g) : h[i] = g[q]
    BY <2>1
  <2>3. PICK o \in DOMAIN s.op : g = OwnedBy(s, o)
    BY <1>6
  <2>4. h[i].id \in Ids(s, o) /\ Ids(s, o) \subseteq s.live
    BY <2>2, <2>3, OwnedIds
  <2> QED
    BY <2>4
<1>9. \A x \in s.live : \E i \in 1 .. Len(h) : h[i].id = x
  <2> SUFFICES ASSUME NEW x \in s.live PROVE \E i \in 1 .. Len(h) : h[i].id = x
    OBVIOUS
  <2>1. PICK o \in DOMAIN s.op : x \in Ids(s, o)
    BY <1>1
  <2> DEFINE g == OwnedBy(s, o)
  <2>2. PICK q \in 1 .. Len(g) : x = g[q].id
    BY <2>1, OwnedIds
  <2>3. g \in S
    BY <1>7
  <2> HIDE DEF g
  <2>4. \E i \in 1 .. Len(h) : h[i] = g[q]
    BY <1>5, <2>3 DEF AllOnce
  <2> QED
    BY <2>2, <2>4
<1>10. FreedAll(s, h, t)
  <2>1. Len(h) \in Nat /\ DOMAIN h = 1 .. Len(h)
        /\ \A i, j \in 1 .. Len(h) : h[i].id = h[j].id => i = j
    BY <1>5 DEF AllOnce
  <2> QED
    BY <1>1, <1>3, <1>8, <2>1, FreeAllLive
<1>11. t.live = {} /\ t.freedTwice = {}
  BY <1>1, <1>9, <1>10 DEF FreedAll
<1> QED
  BY <1>11 DEF t

\* Close overwrites no slot.
LEMMA CloseOverwrites ==
  ASSUME NEW s, Sound(s, {}), Calm(s) PROVE CloseAll(s).overwritten = s.overwritten
<1> DEFINE S == {OwnedBy(s, o) : o \in DOMAIN s.op}
           h == FlattenSeq(SetToSeq(S))
<1>1. IsStore(s) /\ \A o \in DOMAIN s.op : Listed(OwnedBy(s, o))
  BY OwnedIds DEF Sound
<1>2. /\ IsFiniteSet(S) /\ (\A g \in S : Listed(g))
      /\ CloseAll(s) = FreeAll(s, h)
  BY <1>1, WhatCloseFrees
<1> HIDE DEF S
<1>3. Len(h) \in Nat /\ DOMAIN h = 1 .. Len(h)
  BY <1>2, OwnedLists
<1> HIDE DEF h
<1>4. FreeAll(s, h).overwritten = s.overwritten
  BY <1>1, <1>3, FreeAllOverwrites
<1> QED
  BY <1>2, <1>4

\* The books of a new store are right.
LEMMA NewStoreSound ==
  ASSUME NEW p, IsPlan(p), NEW in
  PROVE  Sound(NewStore(p, in), {})
<1> DEFINE s == NewStore(p, in)
<1>1. IsStore(s)
  BY NewStoreInOrder
<1>2. /\ s.plan = p /\ s.made = 0 /\ s.live = {} /\ s.freedTwice = {} /\ s.overwritten = {}
      /\ \A o \in DOMAIN s.op : s.op[o].at = 0 /\ (Kind(p, o) # "VALUES" => s.op[o].held = <<>>)
  BY DEF NewStore
<1> HIDE DEF s
<1>3. ASSUME NEW o \in DOMAIN s.op PROVE Ids(s, o) = {} /\ Neat(Kind(s.plan, o), s.op[o])
  <2> DEFINE k == Kind(p, o)
             r == s.op[o]
  <2>1. r.at = 0 /\ (k # "VALUES" => r.held = <<>>)
    BY <1>2
  <2> HIDE DEF k, r
  <2>2. Own(k, r) = {}
    BY <2>1 DEF Own
  <2>3. k \in Slots \union {"UNION"} => r.held = <<>>
    BY <2>1 DEF Slots
  <2>4. Neat(k, r)
    BY <2>1, <2>2, <2>3 DEF Neat
  <2>5. OwnIds(k, r) = {}
    BY <2>2 DEF OwnIds
  <2> QED
    BY <1>2, <2>4, <2>5 DEF Ids, k, r
<1>4. Ledger(s, {})
  BY <1>2, <1>3 DEF Ledger
<1> QED
  BY <1>1, <1>4 DEF Sound, s

\* The invariant holds in the initial states.
LEMMA InitLedger == Init => LedgerInv
<1> SUFFICES ASSUME Init PROVE LedgerInv
  OBVIOUS
<1>1. PICK p \in Plans : store = NewStore(p, input)
  BY DEF Init
<1>2. Sound(store, {})
  BY <1>1, PlansAssumption, NewStoreSound
<1>3. ~closed
  BY DEF Init
<1> QED
  BY <1>2, <1>3, InitOrder DEF LedgerInv, Sound, FreedExactlyOnce

\* Close frees each batch once.
LEMMA LedgerOfClose ==
  ASSUME LedgerInv, Close
  PROVE  FreedExactlyOnce'
<1>1. ~closed /\ store' = CloseAll(store) /\ IsStore(store)
  BY DEF Close, LedgerInv, OrderInv
<1>2. Sound(store, {})
  BY <1>1 DEF LedgerInv, Sound
<1>3. store'.op = store.op /\ store'.plan = store.plan
  BY <1>1, CloseAllSame DEF SameOps
<1>4. Interrupted' = ~Calm(store)
  BY <1>3 DEF Interrupted, Calm, Ops, plan
<1>5. Calm(store) /\ store'.overwritten = {} => store'.live = {} /\ store'.freedTwice = {}
  BY <1>1, <1>2, CloseFreesAll, CloseOverwrites
<1> QED
  BY <1>4, <1>5 DEF FreedExactlyOnce

\* The steps of OmniDriver::RunInternal keep the books right: what GetOutput hands
\* out, AddInput takes, or the caller.
LEMMA LedgerOfSteps ==
  ASSUME LedgerInv, Skip \/ Feed \/ Dry \/ EndOfInput \/ Deliver \/ SinkDry \/ ReturnNothing
  PROVE  ~closed' /\ Ledger(store', {})
<1>0. OrderInv /\ Running
  BY DEF LedgerInv, Skip, Feed, Dry, EndOfInput, Deliver, SinkDry, ReturnNothing, Between, Sink
<1>1. /\ ~closed /\ ~Blocked /\ Op \in DOMAIN store.op /\ Got.store.plan = plan
      /\ DOMAIN Got.store.op = DOMAIN store.op
      /\ ~AtEnd => After \in DOMAIN store.op /\ Kind(plan, After) # "VALUES"
  BY <1>0, WhileRunning
<1>2. ~closed'
  BY <1>1 DEF Skip, Feed, Dry, EndOfInput, Deliver, SinkDry, ReturnNothing, Between, Sink, Unchanged
<1> SUFFICES Ledger(store', {})
  BY <1>2
<1>3. Sound(store, {})
  BY <1>0, <1>1 DEF LedgerInv, OrderInv, Sound
<1>4. /\ GotBatch => Sound(Got.store, {Got.out.id})
      /\ ~GotBatch => Sound(Got.store, {})
  <2> DEFINE g == Got
  <2>1. g = GetOutput(store, Op)
    BY DEF Got
  <2> HIDE DEF g
  <2>2. Sound(g.store, Flying(g.out))
        /\ Flying(g.out) = (IF g.out = NoBatch THEN {} ELSE {g.out.id})
    BY <1>1, <1>3, <2>1, GetOutputSound
  <2> QED
    BY <2>2 DEF g, GotBatch
<1>5. CASE Skip
  BY <1>3, <1>5 DEF Skip, Sound
<1>6. CASE Feed
  <2>1. store' = AddInput(Got.store, After, Got.out) /\ GotBatch /\ ~AtEnd
    BY <1>6 DEF Feed, Between
  <2> DEFINE s == Got.store
             b == Got.out
             o == After
  <2>2. Sound(s, {b.id}) /\ o \in DOMAIN s.op /\ Kind(s.plan, o) # "VALUES"
    BY <1>1, <1>4, <2>1
  <2>3. store' = AddInput(s, o, b)
    BY <2>1
  <2> HIDE DEF s, b, o
  <2>4. Sound(store', {})
    BY <2>2, <2>3, AddInputSound
  <2> QED
    BY <2>4 DEF Sound
<1>7. CASE Dry
  BY <1>4, <1>7 DEF Dry, Sound
<1>8. CASE EndOfInput
  <2>1. store' = noMoreInput(Got.store, After) /\ ~GotBatch /\ ~AtEnd
    BY <1>8 DEF EndOfInput, Between
  <2>2. Sound(store', {})
    BY <1>1, <1>4, <2>1, EndSound
  <2> QED
    BY <2>2 DEF Sound
<1>9. CASE Deliver
  <2>1. store' = Free(Got.store, Got.out) /\ GotBatch
    BY <1>9 DEF Deliver
  <2>2. Sound(store', {})
    BY <1>4, <2>1, FreedInput
  <2> QED
    BY <2>2 DEF Sound
<1>10. CASE SinkDry
  BY <1>4, <1>10 DEF SinkDry, Sound
<1>11. CASE ReturnNothing
  BY <1>1, <1>4, <1>11 DEF ReturnNothing, Sound
<1> QED
  BY <1>5, <1>6, <1>7, <1>8, <1>9, <1>10, <1>11

\* Every step keeps the invariant.
LEMMA LedgerNext == LedgerInv /\ [Next \/ Closed]_vars => LedgerInv'
<1> SUFFICES ASSUME LedgerInv, [Next \/ Closed]_vars PROVE LedgerInv'
  OBVIOUS
<1>1. OrderInv'
  BY OrderNext DEF LedgerInv
<1>2. CASE Skip \/ Feed \/ Dry \/ EndOfInput \/ Deliver \/ SinkDry \/ ReturnNothing
  BY <1>1, <1>2, LedgerOfSteps DEF LedgerInv, FreedExactlyOnce
<1>3. CASE Close
  <2>1. closed'
    BY <1>3 DEF Close
  <2> QED
    BY <1>1, <1>3, <2>1, LedgerOfClose DEF LedgerInv
<1>4. CASE Call \/ PollFinished \/ Poll \/ PollAgain \/ ReturnEnd \/ Closed \/ UNCHANGED vars
  <2>1. store' = store /\ closed' = closed
    BY <1>4 DEF Call, PollFinished, Poll, PollAgain, ReturnEnd, Closed, vars
  <2>2. FreedExactlyOnce'
    BY <2>1 DEF LedgerInv, FreedExactlyOnce, Interrupted, Ops, plan
  <2> QED
    BY <1>1, <2>1, <2>2 DEF LedgerInv
<1> QED
  BY <1>2, <1>3, <1>4 DEF Next, Step

\* The books are right as long as the task lives, for every plan and input.
THEOREM BooksAreRight == Spec => []LedgerInv
  BY InitLedger, LedgerNext, PTL DEF Spec

\* A task that is destroyed frees every batch exactly once, whenever the caller
\* stops reading, if no Union or Expand was interrupted and no slot overwritten.
THEOREM EachBatchFreedOnce == Spec => []FreedExactlyOnce
<1>1. LedgerInv => FreedExactlyOnce
  BY DEF LedgerInv
<1> QED
  BY <1>1, BooksAreRight, PTL

\* Until the task is destroyed no batch is ever freed twice, whatever was
\* interrupted or overwritten.
THEOREM NothingFreedTwiceInUse == Spec => [](~closed => NoDoubleFree)
<1>1. LedgerInv => (~closed => NoDoubleFree)
  BY DEF LedgerInv, Ledger, NoDoubleFree
<1> QED
  BY <1>1, BooksAreRight, PTL
=============================================================================
