------------------------------- MODULE Limits -------------------------------
(***************************************************************************)
(* The operators that keep only so many of their rows: TopNOperator,       *)
(* TopNSortOperator and WindowGroupLimitOperator, DistinctLimitOperator.   *)
(***************************************************************************)
EXTENDS RowOrder

CONSTANT Empty  \* the key of a row whose text is empty

-----------------------------------------------------------------------------
(* TopNOperator (src/core/src/operator/topn/topn.cpp): a priority queue    *)
(* keeps the `limit` first rows it has seen, its top being the last of     *)
(* them; the first `offset` of these are not handed out.  Which of several *)
(* equal rows is the top is the queue's affair, so the operators below     *)
(* give the set of the results there may be.                               *)

NewTopN == [pq |-> {}, list |-> <<>>, filled |-> FALSE, outputted |-> 0]

\* Mutant: the queue is ordered the other way round.
TopsOfTheWrongEnd(conf, pq) == {t \in pq : \A r \in pq : ~Before(r.key, t.key, conf)}
Tops(conf, pq) == {t \in pq : \A r \in pq : ~Before(t.key, r.key, conf)}

TopNAddRow(conf, pq, row) ==
  IF Cardinality(pq) < conf.limit
  THEN {pq \union {row}}
  ELSE {IF Before(row.key, t.key, conf) THEN (pq \ {t}) \union {row} ELSE pq : t \in Tops(conf, pq)}

TopNAddInput(conf, self, rows) ==
  {[self EXCEPT !.pq = q] :
     q \in FoldLeft(LAMBDA pqs, row : UNION {TopNAddRow(conf, pq, row) : pq \in pqs}, {self.pq}, rows)}

\* FillResultVectorBatchList: popped from the top into the list, from its end.
TopNFill(conf, pq) ==
  LET n == Cardinality(pq)
      lists == {s \in [1 .. n -> pq] :
                  \A i, j \in 1 .. n : i < j => s[i] # s[j] /\ ~Before(s[j].key, s[i].key, conf)}
  IN  IF n <= conf.offset THEN {<<>>} ELSE {SubSeq(s, conf.offset + 1, n) : s \in lists}

\* GetOutput after the end of the input: what the operator is then, the rows it hands
\* out and whether it has finished.
TopNChunk(conf, self, n) ==
  [self |-> [self EXCEPT !.outputted = @ + n],
   batch |-> SubSeq(self.list, self.outputted + 1, self.outputted + n),
   finished |-> self.outputted + n = Len(self.list)]

TopNOutput(conf, self) ==
  IF self.list = <<>>
  THEN [self |-> self, batch |-> <<>>, finished |-> TRUE]
  ELSE TopNChunk(conf, self, IF conf.maxRows < Len(self.list) - self.outputted
                             THEN conf.maxRows ELSE Len(self.list) - self.outputted)

TopNGetOutput(conf, self) ==
  {TopNOutput(conf, filled) :
     filled \in IF self.filled THEN {self}
                ELSE {[self EXCEPT !.list = list, !.filled = list # <<>>, !.pq = {}] :
                        list \in TopNFill(conf, self.pq)}}

-----------------------------------------------------------------------------
(* TopNSortOperator and WindowGroupLimitOperator (topnsort/topn_sort.cpp,  *)
(* window/window_group_limit.cpp): for every partition the rows whose rank *)
(* (or whose row number) in the order is at most n.  A partition is a      *)
(* sorted array; a row that arrives is put behind its equals, and what     *)
(* falls behind the n-th row is dropped.  The fields of the operator are   *)
(* its map from partitions to arrays, the order in which the map iterates  *)
(* and the iterator of GetOutput.                                          *)

NewGroupLimit == [values |-> <<>>, parts |-> <<>>, iter |-> 1]

\* FindInsertPosition from position `last` (of 1 .. Len(rows)) downwards.
FindInsertPosition(conf, rows, row, last) ==
  LET notAfter == {p \in 1 .. last : ~Before(row.key, rows[p].key, conf)}
  IN  IF notAfter = {} THEN 1 ELSE 1 + CHOOSE p \in notAfter : \A q \in notAfter : q <= p

InsertNewValue(conf, rows, row) ==
  InsertAt(rows, FindInsertPosition(conf, rows, row, Len(rows)), row)

\* The n-th row is now behind the old one at that place: it stays where it is equal.
\* Mutant: an array is always cut to n rows.
CutAlways(conf, rows, pos) == SubSeq(rows, 1, conf.limit)
CutToRank(conf, rows, pos) ==
  IF pos = conf.limit \/ rows[conf.limit].key # rows[conf.limit + 1].key
  THEN SubSeq(rows, 1, conf.limit) ELSE rows

InsertRanked(conf, rows, row, pos) == CutToRank(conf, InsertAt(rows, pos, row), pos)

\* UpdatePartitionValue, in the window operator UpdatePartitionValueRank.
UpdateRank(conf, rows, row) ==
  CASE Compare(row.key, rows[conf.limit].key, conf) > 0 -> rows
    [] Compare(row.key, rows[conf.limit].key, conf) = 0 -> Append(rows, row)
    [] OTHER -> InsertRanked(conf, rows, row,
                             FindInsertPosition(conf, rows, row, conf.limit - 1))

\* UpdatePartitionValueRowNumber.
UpdateRowNumber(conf, rows, row) ==
  IF Compare(row.key, rows[conf.limit].key, conf) >= 0
  THEN rows
  ELSE SubSeq(InsertAt(rows, FindInsertPosition(conf, rows, row, conf.limit - 1), row),
              1, Len(rows))

Updated(conf, rows, row) ==
  CASE Len(rows) < conf.limit       -> InsertNewValue(conf, rows, row)
    [] conf.func = "row_number"     -> UpdateRowNumber(conf, rows, row)
    [] OTHER                        -> UpdateRank(conf, rows, row)

\* A new partition may come anywhere in the iteration of the map.
GroupAddRow(conf, self, row) ==
  IF row.part \in DOMAIN self.values
  THEN {[self EXCEPT !.values[row.part] = Updated(conf, @, row)]}
  ELSE {[self EXCEPT !.values = (row.part :> <<row>>) @@ @, !.parts = InsertAt(@, i, row.part)] :
          i \in 1 .. Len(self.parts) + 1}

GroupAddInput(conf, self, rows) ==
  FoldLeft(LAMBDA selves, row : UNION {GroupAddRow(conf, s, row) : s \in selves},
           {[self EXCEPT !.iter = 1]}, rows)

\* What the output batch holds where no row was written.
Unset == [part |-> 0, key |-> 0, id |-> 0]

\* GetOutput: counts the rows up to the partition that fills a batch, makes a batch of
\* that size, and copies the partitions before that one.
RowsFrom(self, first, last) ==
  FlattenSeq([i \in 1 .. last - first + 1 |-> self.values[self.parts[first + i - 1]]])

FullAt(conf, self) ==
  LET full == {p \in self.iter .. Len(self.parts) :
                 Len(RowsFrom(self, self.iter, p)) >= conf.maxRows}
  IN  IF full = {} THEN Len(self.parts) + 1 ELSE CHOOSE p \in full : \A q \in full : p <= q

GroupBatch(rows, size) == [i \in 1 .. size |-> IF i <= Len(rows) THEN rows[i] ELSE Unset]

GroupChunk(self, end) ==
  [self |-> [self EXCEPT !.iter = end],
   batch |-> GroupBatch(RowsFrom(self, self.iter, end - 1),
                        Len(RowsFrom(self, self.iter, IF end > Len(self.parts) THEN end - 1 ELSE end))),
   finished |-> end > Len(self.parts)]

GroupGetOutput(conf, self) ==
  IF self.iter > Len(self.parts)
  THEN [self |-> self, batch |-> <<>>, finished |-> TRUE]
  ELSE GroupChunk(self, FullAt(conf, self))

-----------------------------------------------------------------------------
(* DistinctLimitOperator (limit/distinct_limit.cpp): the first rows of     *)
(* every key until `limit` are found.  A value is stored with its length,  *)
(* which for a null is 0; so is that of an empty text, and the comparison  *)
(* of a stored with a new value takes length 0 for null.                   *)

NewDistinctLimit(conf) == [stored |-> {}, rowInfo |-> <<>>, remaining |-> conf.limit]

StoredNull(key) == key \in {Null, Empty}

IsExistSameRow(stored, key) ==
  \E s \in stored : IF StoredNull(s) \/ key = Null THEN StoredNull(s) /\ key = Null ELSE s = key

\* InLoop for one row: nothing once `remaining` rows are picked, but for the first row.
\* Mutant: the loop does not stop at the limit.
PickRowPastLimit(self, picked, row) ==
  IF IsExistSameRow(self.stored \union {p.key : p \in ToSet(picked)}, row.key)
  THEN picked ELSE Append(picked, row)
PickRow(self, picked, row) ==
  IF (picked # <<>> /\ Len(picked) >= self.remaining)
       \/ IsExistSameRow(self.stored \union {p.key : p \in ToSet(picked)}, row.key)
  THEN picked ELSE Append(picked, row)

Picked(self, picked) ==
  [self EXCEPT !.stored = @ \union {p.key : p \in ToSet(picked)},
               !.rowInfo = @ \o picked,
               !.remaining = @ - Len(picked)]

DistinctAddInput(self, rows) ==
  IF self.remaining < 0 THEN self
  ELSE Picked(self, FoldLeft(LAMBDA picked, row : PickRow(self, picked, row), <<>>, rows))

DistinctGetOutput(self) ==
  [self |-> [self EXCEPT !.rowInfo = <<>>],
   batch |-> self.rowInfo,
   finished |-> self.remaining <= 0]
=============================================================================
