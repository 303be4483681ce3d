------------------------------ MODULE RowOrder ------------------------------
(***************************************************************************)
(* The order in which the operators that sort or limit rows compare them   *)
(* (OperatorUtil::CompareNull and CompareVectorAtPosition, and the         *)
(* comparisons of topn_sort.h and window_group_limit.h).  A row is a       *)
(* record of its partition, its sort key and a number that makes it unique *)
(* and tells when it arrived.                                              *)
(***************************************************************************)
EXTENDS Integers, Sequences, FiniteSets, SequencesExt, TLC

CONSTANT Null  \* the key of a row that has none

Smaller(a, b) == IF a < b THEN a ELSE b

\* asc and nullFirst are the sort order of the operator's plan node.
Compare(a, b, order) ==
  CASE a = b               -> 0
    [] a = Null            -> IF order.nullFirst THEN -1 ELSE 1
    [] b = Null            -> IF order.nullFirst THEN 1 ELSE -1
    [] (a < b) = order.asc -> -1
    [] OTHER               -> 1

Before(a, b, order) == Compare(a, b, order) < 0

\* The rows in order, those with equal keys as they arrived.
InOrder(rows, order) ==
  SortSeq(rows, LAMBDA r, s : \/ Before(r.key, s.key, order)
                              \/ r.key = s.key /\ r.id < s.id)
=============================================================================
