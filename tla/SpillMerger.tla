----------------------------- MODULE SpillMerger -----------------------------
(***************************************************************************)
(* The streams a merge of spilled runs reads                               *)
(* (src/core/src/operator/spill/spill_merger.cpp).  A stream is a record:  *)
(* its batch, the row it is at and the number of rows of its batch, the    *)
(* next batch to read and the rows read so far.  A file f has its batches  *)
(* in f.disk and the number of their rows in f.rows.                       *)
(***************************************************************************)
EXTENDS LoserTree

Least(a, b) == IF a < b THEN a ELSE b

\* The vectors of a stream's batch are used again for its next batch.
Overwrite(old, new) == new \o SubSeq(old, Len(new) + 1, Len(old))

\* ReadVecBatch: past the last row the stream ends and its file is removed.
AtEnd(stream, f) == stream.rowOffset >= f.rows

ReadVecBatch(stream, f) ==
  IF AtEnd(stream, f) THEN [stream EXCEPT !.at = 0, !.count = 0]
  ELSE LET batch == f.disk[stream.next] IN
       [stream EXCEPT !.batch = Overwrite(@, batch), !.at = 0, !.count = Len(batch),
                      !.next = @ + 1, !.rowOffset = @ + Len(batch)]

AfterRead(stream, f) ==
  IF AtEnd(stream, f) THEN [f EXCEPT !.reader = "closed", !.exists = FALSE]
                      ELSE [f EXCEPT !.reader = "open"]

NewStream == [batch |-> <<>>, at |-> 0, count |-> 0, next |-> 1, rowOffset |-> 0]

\* SpillMergeStream::CompareTo and HasData, as the keys the tree sees; stream s is
\* streams[s + 1].
Heads(streams) ==
  [s \in 0 .. Len(streams) - 1 |->
     LET stream == streams[s + 1] IN
     IF stream.at < stream.count THEN stream.batch[stream.at + 1].key ELSE NoData]

\* Mutant: off by one.
PastLastRow(stream) == stream.at = stream.count

\* GetCurrentRowIdx: whether the stream is at the last row of its batch.
IsLastRow(stream) == stream.at = stream.count - 1

\* Pop has to read the next batch.
NeedsBatch(stream) == stream.at + 1 >= stream.count
=============================================================================
