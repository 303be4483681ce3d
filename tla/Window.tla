------------------------------- MODULE Window -------------------------------
(***************************************************************************)
(* WindowOperator (src/core/src/operator/window/window.cpp), its           *)
(* WindowPartition and its functions.  The rows are sorted by partition    *)
(* and key; every row is then given its rank and its number in its         *)
(* partition, and the aggregate over its frame, for which the accumulator  *)
(* is reset or carried on as the frames of consecutive rows permit.  The   *)
(* state lives on from a batch of output to the next, as a partition may.  *)
(* After a spill the rows come from the merge of the runs (module          *)
(* SpillMerger), and the pages hold one partition at a time.               *)
(*                                                                         *)
(* Positions are those of the code, from 0; the aggregate is abstracted to *)
(* the rows accumulated, in their order.                                   *)
(***************************************************************************)
EXTENDS RowOrder

\* The operator's fields: the rows it has collected (pages, and after a spill the
\* merged rows not yet fetched), the counts of rows, the partition it is in (start and
\* end, currentPosition, the peer group), and the state of the three functions.
NewWindow ==
  [pages |-> <<>>, merger |-> <<>>, spilled |-> FALSE, prepared |-> FALSE,
   total |-> 0, outputted |-> 0, partitionRows |-> 0, partitionOutputted |-> 0,
   partition |-> FALSE, start |-> 0, end |-> 0, position |-> 0, peerStart |-> 0, peerEnd |-> 0,
   rankPeer |-> -1, rank |-> 0, count |-> 1, rowNumber |-> 0,
   currentStart |-> 0, currentEnd |-> 0, accumulated |-> <<>>]

WindowOrder(rows, order) ==
  SortSeq(rows, LAMBDA r, s : \/ r.part < s.part
                              \/ r.part = s.part /\ Before(r.key, s.key, order)
                              \/ r.part = s.part /\ r.key = s.key /\ r.id < s.id)

WindowAddInput(self, rows, needSpill) ==
  [self EXCEPT !.total = @ + Len(rows),
               !.pages = IF needSpill THEN <<>> ELSE @ \o rows,
               !.merger = IF needSpill THEN @ \o self.pages \o rows ELSE @,
               !.spilled = @ \/ needSpill]

\* PrepareOutput and the last spill of GetOutputFromDisk.
Prepared(conf, self) ==
  CASE self.prepared -> self
    [] self.spilled  -> [self EXCEPT !.prepared = TRUE, !.pages = <<>>,
                                     !.merger = WindowOrder(@ \o self.pages, conf)]
    [] OTHER         -> [self EXCEPT !.prepared = TRUE, !.pages = WindowOrder(@, conf)]
-----------------------------------------------------------------------------
(* WindowPartition.                                                        *)

RowAt(self, position) == self.pages[position + 1]

UpdatePeerGroup(self) ==
  LET others == {p \in self.position + 1 .. self.end - 1 :
                   RowAt(self, p).key # RowAt(self, self.position).key}
  IN  [self EXCEPT !.peerStart = self.position,
                   !.peerEnd = IF others = {} THEN self.end
                               ELSE CHOOSE p \in others : \A q \in others : p <= q]

\* ResetAccumulator does nothing where there is nothing to forget.
ResetAccumulator(self) ==
  IF self.currentStart >= 0
  THEN [self EXCEPT !.currentStart = -1, !.currentEnd = -1, !.accumulated = <<>>]
  ELSE self

\* Mutant: a new partition resets the ranks only.
ResetRanks(self) == [self EXCEPT !.rankPeer = -1, !.rank = 0, !.count = 1, !.rowNumber = 0]
ResetFunctions(self) ==
  [ResetAccumulator(self) EXCEPT !.rankPeer = -1, !.rank = 0, !.count = 1, !.rowNumber = 0]

NewPartition(self, start, end) ==
  UpdatePeerGroup([ResetFunctions(self) EXCEPT !.partition = TRUE, !.start = start, !.end = end,
                                               !.position = start])

HasNext(self) == self.partition /\ self.position < self.end

\* GetFrameStart and GetFrameEnd for the row at `row` of a partition whose last is `last`.
Preceding(row, value) == IF value > row THEN 0 ELSE row - value
Following(row, last, value) == IF value > last - row THEN last ELSE row + value

FrameStart(frame, self, row, last) ==
  CASE frame.start = "unbounded_preceding" -> 0
    [] frame.start = "preceding" -> Preceding(row, frame.startValue)
    [] frame.start = "following" -> Following(row, last, frame.startValue)
    [] frame.type = "range"      -> self.peerStart - self.start
    [] OTHER                     -> row

FrameEnd(frame, self, row, last) ==
  CASE frame.end = "unbounded_following" -> last
    [] frame.end = "preceding" -> Preceding(row, frame.endValue)
    [] frame.end = "following" -> Following(row, last, frame.endValue)
    [] frame.type = "range"    -> self.peerEnd - self.start - 1
    [] OTHER                   -> row

IsEmptyFrame(frame, row, last) ==
  \/ /\ frame.start = "unbounded_preceding" /\ frame.end = "preceding"
     /\ frame.endValue > row
  \/ /\ frame.start = "following" /\ frame.end = "unbounded_following"
     /\ frame.startValue > last - row
  \/ /\ frame.start = "preceding" /\ frame.end = "preceding"
     /\ \/ frame.startValue < frame.endValue
        \/ frame.startValue > row /\ frame.endValue > row
  \/ /\ frame.start = "following" /\ frame.end = "following"
     /\ frame.startValue > frame.endValue \/ frame.startValue > last - row

GetFrameRange(frame, self) ==
  LET row  == self.position - self.start
      last == self.end - self.start - 1
  IN  IF IsEmptyFrame(frame, row, last) THEN <<-1, -1>>
      ELSE <<FrameStart(frame, self, row, last), FrameEnd(frame, self, row, last)>>
-----------------------------------------------------------------------------
(* The window functions: RankFunction and RowNumberFunction, and the       *)
(* aggregate function's ProcessRow.                                        *)

RankingProcessRow(self, peerStart) ==
  [self EXCEPT !.rowNumber = @ + 1, !.rankPeer = peerStart,
               !.rank  = IF peerStart # self.rankPeer THEN @ + self.count ELSE @,
               !.count = IF peerStart # self.rankPeer THEN 1 ELSE @ + 1]

Accumulate(self, start, end) ==
  [self EXCEPT !.accumulated = @ \o [i \in 1 .. end - start + 1 |->
                                       RowAt(self, self.start + start + i - 1).id]]

AggregateProcessRow(self, start, end) ==
  CASE start < 0 -> ResetAccumulator(self)
    [] start = self.currentStart /\ end >= self.currentEnd ->
         [Accumulate(self, self.currentEnd + 1, end) EXCEPT !.currentEnd = end]
    [] OTHER ->
         [Accumulate(ResetAccumulator(self), start, end) EXCEPT !.currentStart = start,
                                                                !.currentEnd = end]

AtRow(self) == IF self.position = self.peerEnd THEN UpdatePeerGroup(self) ELSE self

Evaluated(self, range) ==
  AggregateProcessRow(RankingProcessRow(self, self.peerStart - self.start), range[1], range[2])

OutputRow(self, row) ==
  [row |-> row, rank |-> self.rank, number |-> self.rowNumber, aggregate |-> self.accumulated]

\* The results of a row go into the output batch after the rows before it.
Emit(self, made, row) ==
  [self |-> [self EXCEPT !.position = @ + 1], batch |-> Append(made.batch, OutputRow(self, row))]

ProcessAt(conf, self, made) ==
  Emit(Evaluated(self, GetFrameRange(conf.frame, self)), made, made.rows[Len(made.batch) + 1])

ProcessNextRow(conf, made) ==
  [rows |-> made.rows] @@ ProcessAt(conf, AtRow(made.self), made)
-----------------------------------------------------------------------------
(* Output: of rows in memory, and of rows that were spilled.  `rows` are   *)
(* the input columns of the batch, copied from the pages ahead of the      *)
(* functions' results.                                                     *)

SamePartition(self, p, q) == RowAt(self, p).part = RowAt(self, q).part

\* The binary search for the end of the partition that starts at `start`.
FindGroupEnd(self, start) ==
  LET end[left \in Nat, right \in Nat] ==
        LET middle == left + (right - left) \div 2
        IN  IF left + 1 >= right THEN right
            ELSE IF SamePartition(self, start, middle) THEN end[middle, right] ELSE end[left, middle]
  IN  end[start, Len(self.pages)]

InPartition(self) ==
  IF HasNext(self) THEN self
  ELSE LET start == IF self.partition THEN self.end ELSE 0
       IN  NewPartition(self, start, FindGroupEnd(self, start))

ProcessData(conf, self, n) ==
  FoldLeft(LAMBDA made, j : ProcessNextRow(conf, [made EXCEPT !.self = InPartition(@)]),
           [rows |-> SubSeq(self.pages, self.outputted + 1, self.outputted + n),
            self |-> self, batch |-> <<>>],
           [j \in 1 .. n |-> j])

\* ProcessNextWindowPartition fetches a partition from the merge into batches of
\* `size` rows; the last batch is filled up with rows nobody has written.
Unwritten == [part |-> 0, key |-> 0, id |-> 0]

Padded(rows, size) ==
  [i \in 1 .. (Len(rows) \div size + 1) * size |-> IF i <= Len(rows) THEN rows[i] ELSE Unwritten]

SameAsFirst(merger) ==
  LET others == {i \in 1 .. Len(merger) : merger[i].part # merger[1].part}
  IN  IF others = {} THEN Len(merger) ELSE (CHOOSE i \in others : \A j \in others : i <= j) - 1

Fetched(conf, self, n) ==
  NewPartition([self EXCEPT !.pages = Padded(SubSeq(self.merger, 1, n),
                                             Smaller(conf.vecRows, self.total - self.outputted)),
                            !.merger = SubSeq(@, n + 1, Len(@)),
                            !.partitionRows = n, !.partitionOutputted = 0],
               0, n)

\* A batch goes on with the partition at hand; for a new one the input columns are
\* copied from here on.
Counted(made) ==
  [made EXCEPT !.self.outputted = @ + 1, !.self.partitionOutputted = @ + 1]

Refilled(self, made, n) ==
  [made EXCEPT !.self = self,
               !.rows = SubSeq(@, 1, Len(made.batch)) \o
                        SubSeq(self.pages, 1, Smaller(self.partitionRows, n - Len(made.batch)))]

ProcessRowFromDisk(conf, made, n) ==
  Counted(ProcessNextRow(conf,
    IF HasNext(made.self) THEN made
    ELSE Refilled(Fetched(conf, made.self, SameAsFirst(made.self.merger)), made, n)))

ProcessDataFromDisk(conf, self, n) ==
  FoldLeft(LAMBDA made, i : ProcessRowFromDisk(conf, made, n),
           [rows |-> IF HasNext(self)
                     THEN SubSeq(self.pages, self.partitionOutputted + 1, self.partitionOutputted
                            + Smaller(self.partitionRows - self.partitionOutputted, n))
                     ELSE <<>>,
            self |-> self, batch |-> <<>>],
           [i \in 1 .. n |-> i])

\* GetOutput after the end of the input; with the last row it forgets everything but
\* the partition.
Finish(made) ==
  IF made.self.total # made.self.outputted
  THEN [self |-> made.self, batch |-> made.batch, finished |-> FALSE]
  ELSE [self |-> [made.self EXCEPT !.total = 0, !.outputted = 0, !.prepared = FALSE, !.pages = <<>>],
        batch |-> made.batch, finished |-> TRUE]

Processed(conf, self, n) ==
  Finish(IF self.spilled THEN ProcessDataFromDisk(conf, self, n)
         ELSE [ProcessData(conf, self, n) EXCEPT !.self.outputted = @ + n])

WindowChunk(conf, self) ==
  Processed(conf, self, Smaller(conf.maxRows, self.total - self.outputted))

WindowGetOutput(conf, self) ==
  IF self.total = 0
  THEN [self |-> self, batch |-> <<>>, finished |-> TRUE]
  ELSE WindowChunk(conf, Prepared(conf, self))
=============================================================================
