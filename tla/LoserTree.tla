------------------------------ MODULE LoserTree ------------------------------
(***************************************************************************)
(* The tree of losers that merges spilled runs                             *)
(* (src/core/src/operator/spill/loser_tree.h).  Streams are numbered from  *)
(* 0; head[s] is the key of the row a stream is at, or NoData.  The inner  *)
(* nodes 0 .. firstStream - 1 hold the stream that lost there, the streams *)
(* are the leaves that follow.                                             *)
(*                                                                         *)
(* A tree is a record: values and equals of the inner nodes, and last, the *)
(* stream Next returned (lastIdx).                                         *)
(***************************************************************************)
EXTENDS Integers, FiniteSets, SequencesExt

NoData == -1     \* what a stream at its end is at
EMPTY  == -1     \* no stream: larger than any stream index in the code

\* The constructor: where the leaves begin, for n streams.
FirstStream(n) ==
  LET power[k \in Nat] == IF k = 0 THEN 1 ELSE 2 * power[k - 1]
      sizePerLevel == CHOOSE p \in {power[k] : k \in 0 .. n} : p >= n /\ p < 2 * n
      half         == sizePerLevel \div 2
  IN  IF n = sizePerLevel THEN sizePerLevel - 1
      ELSE (sizePerLevel - 1 - half) + (n - half)

NewTree(n) == [values |-> [node \in 0 .. FirstStream(n) - 1 |-> EMPTY],
               equals |-> [node \in 0 .. FirstStream(n) - 1 |-> FALSE],
               last   |-> EMPTY]

Parent(node)     == (node - 1) \div 2
LeftChild(node)  == 2 * node + 1
RightChild(node) == 2 * node + 2

\* The inner nodes above stream s, bottom up.
PathFrom(n, s) ==
  LET up[node \in 0 .. 2 * n] == IF node = 0 THEN <<>>
                                 ELSE <<Parent(node)>> \o up[Parent(node)]
  IN  up[FirstStream(n) + s]

\* Whether the left stream wins against the right one when the tree is built:
\* of two equal keys First lets the right one win, FirstWithEqual the left one.
LeftWins(head, l, r, withEqual) ==
  head[l] < head[r] \/ (withEqual /\ head[l] = head[r])

\* First and FirstWithEqual: the tree built from scratch, its winner being last.
First(head, tree, withEqual) ==
  LET first == FirstStream(Cardinality(DOMAIN head))
      win[node \in 0 .. 2 * first] ==   \* the winner of a subtree, and isEqual
        IF node >= first
        THEN [s |-> IF head[node - first] = NoData THEN EMPTY ELSE node - first,
              equal |-> FALSE]
        ELSE LET l == win[LeftChild(node)]
                 r == win[RightChild(node)]
             IN  IF l.s = EMPTY THEN r
                 ELSE IF r.s = EMPTY THEN l
                 ELSE IF ~LeftWins(head, l.s, r.s, withEqual) THEN r
                 ELSE [l EXCEPT !.equal = @ \/ head[l.s] = head[r.s]]
      loser(node) == IF win[node].s = win[LeftChild(node)].s THEN win[RightChild(node)]
                                                             ELSE win[LeftChild(node)]
      Played(node) == win[LeftChild(node)].s # EMPTY /\ win[RightChild(node)].s # EMPTY
  IN  [tree  |-> [values |-> [node \in DOMAIN tree.values |->
                                IF Played(node) THEN loser(node).s ELSE tree.values[node]],
                  equals |-> [node \in DOMAIN tree.equals |->
                                IF withEqual /\ Played(node) THEN loser(node).equal
                                                             ELSE tree.equals[node]],
                  last   |-> win[0].s],
       equal |-> withEqual /\ win[0].equal]

\* Mutant: a stream that is overtaken leaves its isEqual behind at the node.
ForgetEqual(head, c, node) ==
  LET loser == c.tree.values[node]
  IN  IF loser = EMPTY THEN c
      ELSE IF c.value = EMPTY
      THEN [tree  |-> [c.tree EXCEPT !.values[node] = EMPTY, !.equals[node] = FALSE],
            value |-> loser, equal |-> c.tree.equals[node]]
      ELSE IF head[loser] = head[c.value] THEN [c EXCEPT !.equal = TRUE]
      ELSE IF head[loser] < head[c.value]
      THEN [tree  |-> [c.tree EXCEPT !.values[node] = c.value],
            value |-> loser, equal |-> c.equal]
      ELSE c

\* Propagate and PropagateWithEqual at one node: c has the tree, the stream that
\* comes up and whether another one below is at its key.
Climb(head, c, node) ==
  LET loser == c.tree.values[node]
  IN  IF loser = EMPTY THEN c
      ELSE IF c.value = EMPTY
      THEN [tree  |-> [c.tree EXCEPT !.values[node] = EMPTY, !.equals[node] = FALSE],
            value |-> loser, equal |-> c.tree.equals[node]]
      ELSE IF head[loser] = head[c.value] THEN [c EXCEPT !.equal = TRUE]
      ELSE IF head[loser] < head[c.value]
      THEN [tree  |-> [c.tree EXCEPT !.values[node] = c.value, !.equals[node] = c.equal],
            value |-> loser, equal |-> c.tree.equals[node]]
      ELSE c

Propagate(head, tree) ==
  LET last  == tree.last
      start == [tree |-> tree, value |-> IF head[last] = NoData THEN EMPTY ELSE last,
                equal |-> FALSE]
      end   == FoldLeft(LAMBDA c, node : Climb(head, c, node), start,
                        PathFrom(Cardinality(DOMAIN head), last))
  IN  [tree |-> [end.tree EXCEPT !.last = end.value], equal |-> end.equal]

\* NextWithEqual, and Next (NextStream here), which gives no isEqual: the tree
\* afterwards, with the stream that is returned as last.  A single stream has no
\* tree.
NextWithEqual(head, tree, withEqual) ==
  IF tree.last # EMPTY /\ Cardinality(DOMAIN head) > 1 THEN Propagate(head, tree)
  ELSE IF Cardinality(DOMAIN head) > 1 THEN First(head, tree, withEqual)
  ELSE [tree |-> [tree EXCEPT !.last = IF head[0] = NoData THEN EMPTY ELSE 0], equal |-> FALSE]

NextStream(head, tree) == NextWithEqual(head, tree, FALSE).tree
=============================================================================
