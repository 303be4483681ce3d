----------------------------- MODULE MCMergeJoin -----------------------------
EXTENDS MergeJoin

CONSTANTS Joins, MaxRows

Columns(keys) == {q \in UNION {[1 .. n -> keys] : n \in 0 .. MaxRows} : Sorted(<<q>>)}
\* All ways to cut a column into batches.
RECURSIVE Cuts(_)
Cuts(q) == IF q = <<>> THEN {<<>>}
           ELSE UNION {{<<SubSeq(q, 1, n)>> \o c : c \in Cuts(SubSeq(q, n + 1, Len(q)))} : n \in 1 .. Len(q)}
Inputs(keys) == UNION {Cuts(q) : q \in Columns(keys)}
AllQueries ==
  UNION {[type : {j.type}, filtered : {j.filtered}, maxRowCount : {j.room},
          streamed : Inputs(j.keys), buffered : Inputs(j.keys)] : j \in Joins}
\* A left or an anti join does not end on a buffered side of nulls only: see README.
EndingQueries == {q \in AllQueries : q.type \in {"left", "anti"} =>
                q.buffered = <<>> \/ \E k \in ToSet(FlattenSeq(q.buffered)) : k > 0}
MCFilter(s, b) == (s + b) % 2 = 0

Join(type, filtered, keys, room) == [type |-> type, filtered |-> filtered, keys |-> keys, room |-> room]
NullIsOne  == {-1, 1, 2}     \* in the null rows the column holds the value 1, a key of others
NullIsZero == {0, 1, 2}      \* ... a value that is no key

\* An inner join compares a null streamed row by its value once the streamed side has ended;
\* the filter of an anti join loses rows, that of a left join may overfill a batch and that of a
\* full join pads rows that have a partner: see README.
MCJoins ==
  {Join(t, f, NullIsZero, 2) : t \in {"inner", "semi"}, f \in BOOLEAN}
    \cup {Join(t, FALSE, NullIsOne, 2) : t \in {"left", "full", "anti"}}
    \cup {Join("left", TRUE, NullIsOne, 9)}

\* The left join of README's finding: the buffered side may be nulls only.
MCLeft == {Join("left", FALSE, NullIsOne, 2)}
=============================================================================
