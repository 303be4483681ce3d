----------------------------- MODULE Relational -----------------------------
(***************************************************************************)
(* What a plan means, whatever the pipelines and the batches: the sets of  *)
(* rows that are an answer to it.  Rows are as in module Operators; every  *)
(* row of a node is different from every other.                            *)
(***************************************************************************)
EXTENDS Integers, FiniteSets, Sequences, SequencesExt

Lesser(a, b) == IF a < b THEN a ELSE b

\* The answers of a Limit over the rows A: any rows of the right number; over a
\* Sort, the ones that follow the first `offset`.
Cuts(A, node, ordered) ==
  LET skipped == Lesser(node.offset, Cardinality(A))
      rest    == Cardinality(A) - skipped
      size    == IF node.count < 0 THEN rest ELSE Lesser(rest, node.count)
      InOrder(T) == \E K \in SUBSET (A \ T) :
                      /\ Cardinality(K) = skipped
                      /\ \A k \in K, t \in T : k[1] <= t[1]
                      /\ \A t \in T, y \in A \ (T \union K) : t[1] <= y[1]
  IN  {T \in SUBSET A : Cardinality(T) = size /\ (ordered => InOrder(T))}

Join(kind, A, B) ==
  LET matching(r, S) == {x \in S : x[1] = r[1]}
      inner == UNION {{a \o Tail(b) : b \in matching(a, B)} : a \in A}
      left  == {a \o <<0>> : a \in {x \in A : matching(x, B) = {}}}
      right == {<<b[1], 0>> \o Tail(b) : b \in {x \in B : matching(x, A) = {}}}
  IN  inner \union (IF kind = "INNER" THEN {} ELSE left)
            \union (IF kind = "FULL" THEN right ELSE {})

Answers(plan, input, projections) ==
  LET answers[n \in DOMAIN plan] ==
        LET node == plan[n]
            of(i) == answers[node.src[i]]
        IN  CASE node.kind = "VALUES" -> {ToSet(FlattenSeq(input[n]))}
              [] node.kind \in {"PROJECT", "SORT"} -> of(1)
              [] node.kind = "FILTER" -> {{r \in A : r[1] = 1} : A \in of(1)}
              [] node.kind = "EXPAND" ->
                   {{Append(r, -j) : r \in A, j \in 0 .. projections - 1} : A \in of(1)}
              [] node.kind = "AGG" -> {{<<0, Cardinality(A)>>} : A \in of(1)}
              [] node.kind = "LIMIT" ->
                   UNION {Cuts(A, node, plan[node.src[1]].kind = "SORT") : A \in of(1)}
              [] node.kind = "UNION" -> {A \union B : A \in of(1), B \in of(2)}
              [] OTHER -> {Join(node.kind, A, B) : A \in of(1), B \in of(2)}
  IN  answers[1]
=============================================================================
