------------------------------ MODULE SpillSort ------------------------------
(***************************************************************************)
(* A SortOperator that spills (src/core/src/operator/sort/sort.cpp and     *)
(* src/core/src/operator/spill).  It collects rows in its pagesIndex, when *)
(* memory is short it writes them as a sorted run into a file of its own,  *)
(* and at the end it merges the runs with a tree of losers.                *)
(*                                                                         *)
(* One action is a call of AddInput or GetOutput, or one iteration of a    *)
(* loop inside it, because every iteration may fail: the spill limit is    *)
(* reached, the disk refuses a write, a file cannot be read.  Then the     *)
(* operator throws, and the caller can only close it.                      *)
(*                                                                         *)
(* A row is a record of its key and a number that makes it unique.  The    *)
(* size of a batch is its number of rows.                                  *)
(***************************************************************************)
EXTENDS SpillMerger

CONSTANTS
  Keys,             \* the keys of the rows
  MaxRows,          \* bound: rows given to the operator
  BatchRows,        \* bound: rows in one input batch
  OutRows,          \* SortOperator::maxRowCountPerBatch
  FallbackRows,     \* the rows of a chunk when that is at most 1
  SpillRows,        \* Spiller::maxRowCountPerBatch
  WriteBufferSize,  \* of the SpillWriter, 0 for none
  MaxSpillBytes     \* of the ChildSpillTracker

ASSUME SizesAssumption ==
  /\ Keys \subseteq Nat
  /\ {MaxRows, BatchRows, OutRows, FallbackRows, SpillRows} \subseteq Nat \ {0}
  /\ {WriteBufferSize, MaxSpillBytes} \subseteq Nat

VARIABLES
  pc,            \* "idle" between calls, the loop the operator is in, "failed"
                 \*   when it has thrown, "closed"
  noMoreInput,
  finished,      \* OMNI_STATUS_FINISHED
  given,         \* the rows of all inputs (totalRowCount is their number)
  delivered,     \* the rows handed out (rowCountOutputted)
  pagesIndex,    \* the rows in memory
  run,           \* Spiller::Spill: the rows of the sorted run not yet written
  buffer,        \* the batches in the writeBuffer of the last writer
  files,         \* the spill files, one per SpillWriter
  spiller,       \* whether there is one
  spilledBytes,  \* of its ChildSpillTracker
  streams,       \* the SpillMergeStreams, stream s being streams[s + 1]
  tree,          \* their LoserTree
  picked,        \* batches and rowIdxes: rows picked and not yet copied
  result,        \* rows copied into the output batch
  abandoned      \* history: GetOutput has thrown away its spiller

vars == <<pc, noMoreInput, finished, given, delivered, pagesIndex, run, buffer, files, spiller,
          spilledBytes, streams, tree, picked, result, abandoned>>

\* The order of a sort.  The code leaves open which of two rows with equal keys comes first;
\* here it is the one that was given first.
Earlier(a, b) == a.key < b.key \/ (a.key = b.key /\ a.id < b.id)
ByKey(rows) ==
  [i \in DOMAIN rows |->
     CHOOSE r \in ToSet(rows) : Cardinality({q \in ToSet(rows) : Earlier(q, r)}) = i - 1]

SizeOf(batches) == Len(FlattenSeq(batches))

\* A file: its writer's descriptor and its reader's ("failed" when it could not be
\* opened or read at first), whether it is in the directory and known to the writer
\* (filePath), its batches and their rows (totalRowCount).
NewFile == [fd |-> "none", reader |-> "none", exists |-> FALSE, named |-> FALSE,
            disk |-> <<>>, rows |-> 0]

Init ==
  /\ pc = "idle"
  /\ noMoreInput = FALSE /\ finished = FALSE /\ spiller = FALSE /\ abandoned = FALSE
  /\ given = <<>> /\ delivered = <<>> /\ pagesIndex = <<>>
  /\ run = <<>> /\ buffer = <<>> /\ files = <<>> /\ spilledBytes = 0
  /\ streams = <<>> /\ tree = NewTree(1) /\ picked = <<>> /\ result = <<>>

hasSpill == files # <<>>
-----------------------------------------------------------------------------
\* SpillToDisk up to the loop of Spiller::Spill: sort, make a writer.
SpillToDisk(rows) ==
  /\ run' = ByKey(rows)
  /\ files' = Append(files, NewFile)
  /\ spiller' = TRUE
  /\ pc' = "spill"

\* AddInput; whether it needs to spill depends on the memory of the whole process.
AddInput ==
  /\ pc = "idle" /\ ~noMoreInput
  /\ \E rows \in UNION {[1 .. n -> Keys] : n \in 1 .. BatchRows}, needSpill \in BOOLEAN :
       LET new == [i \in DOMAIN rows |-> [key |-> rows[i], id |-> Len(given) + i]]
       IN  /\ Len(given) + Len(rows) <= MaxRows
           /\ given' = given \o new
           /\ pagesIndex' = pagesIndex \o new
           /\ IF needSpill THEN SpillToDisk(pagesIndex') ELSE UNCHANGED <<run, files, spiller, pc>>
  /\ UNCHANGED <<noMoreInput, finished, delivered, buffer, spilledBytes, streams, tree, picked,
                 result, abandoned>>

NoMoreInput ==
  /\ pc = "idle" /\ ~noMoreInput /\ noMoreInput' = TRUE
  /\ UNCHANGED <<pc, finished, given, delivered, pagesIndex, run, buffer, files, spiller,
                 spilledBytes, streams, tree, picked, result, abandoned>>

\* An exception: AddInput and GetOutput have cleared the pagesIndex; GetOutput
\* deletes its spiller as well.
Throw ==
  /\ pc' = "failed"
  /\ pagesIndex' = <<>> /\ run' = <<>> /\ buffer' = <<>>
  /\ spiller' = (spiller /\ ~noMoreInput)
  /\ abandoned' = noMoreInput

-----------------------------------------------------------------------------
(* Spiller::Spill and SpillWriter.                                         *)

\* WriteVecBatch: what is buffered and what is on disk after a batch.
Put(f, batch) ==
  LET full == SizeOf(buffer) + Len(batch) > WriteBufferSize
      kept == IF full THEN <<>> ELSE buffer
      out  == IF full THEN buffer ELSE <<>>
  IN  IF Len(batch) > WriteBufferSize
      THEN [buffer |-> kept, file |-> [f EXCEPT !.disk = @ \o out \o <<batch>>]]
      ELSE [buffer |-> Append(kept, batch), file |-> [f EXCEPT !.disk = @ \o out]]

\* CreateTempFile, when there is none yet.
Created(f) == [f EXCEPT !.fd = "open", !.exists = TRUE, !.named = TRUE]

\* One batch of the run: reserved with the tracker, written.
WriteVecBatch ==
  LET n     == Least(SpillRows, Len(run))
      f     == Last(files)
      batch == SubSeq(run, 1, n)
      put   == Put(Created(f), batch)
  IN  /\ pc = "spill" /\ run # <<>>
      /\ spilledBytes + n < MaxSpillBytes
      /\ spilledBytes' = spilledBytes + n
      /\ run' = SubSeq(run, n + 1, Len(run))
      /\ buffer' = put.buffer
      /\ files' = [files EXCEPT ![Len(files)] = [put.file EXCEPT !.rows = @ + n]]
      /\ UNCHANGED <<pc, noMoreInput, finished, given, delivered, pagesIndex, spiller, streams,
                     tree, picked, result, abandoned>>

\* CheckIfExceedAndReserve refuses: Spill returns without closing the writer.
ExceedSpillLimit ==
  /\ pc = "spill" /\ run # <<>>
  /\ spilledBytes + Least(SpillRows, Len(run)) >= MaxSpillBytes
  /\ Throw
  /\ UNCHANGED <<noMoreInput, finished, given, delivered, files, spilledBytes, streams, tree,
                 picked, result>>

\* mkstemp fails, or fchmod after it: then the file is there and nobody knows it.
FailToCreate ==
  /\ pc = "spill" /\ run # <<>> /\ Last(files).fd = "none"
  /\ spilledBytes + Least(SpillRows, Len(run)) < MaxSpillBytes
  /\ spilledBytes' = spilledBytes + Least(SpillRows, Len(run))
  /\ \E made \in BOOLEAN :
       files' = IF made THEN [files EXCEPT ![Len(files)].fd = "open",
                                           ![Len(files)].exists = TRUE]
                        ELSE files
  /\ Throw
  /\ UNCHANGED <<noMoreInput, finished, given, delivered, streams, tree, picked, result>>

\* write fails, when this batch makes anything go to the disk.
FailToWrite ==
  LET n == Least(SpillRows, Len(run))
      f == Created(Last(files))
  IN  /\ pc = "spill" /\ run # <<>>
      /\ spilledBytes + n < MaxSpillBytes
      /\ Put(f, SubSeq(run, 1, n)).file # f
      /\ spilledBytes' = spilledBytes + n
      /\ files' = [files EXCEPT ![Len(files)] = f]
      /\ Throw
      /\ UNCHANGED <<noMoreInput, finished, given, delivered, streams, tree, picked, result>>

\* SpillWriter::Close, which closes the file even if its last write fails.  AddInput
\* returns; GetOutput goes on to make the merger.
CloseWriter ==
  /\ pc = "spill" /\ run = <<>>
  /\ files' = [files EXCEPT ![Len(files)].fd = "closed",
                            ![Len(files)].disk = @ \o buffer]
  /\ buffer' = <<>>
  /\ pagesIndex' = <<>>
  /\ pc' = IF noMoreInput THEN "create" ELSE "idle"
  /\ UNCHANGED <<noMoreInput, finished, given, delivered, run, spiller, spilledBytes, streams,
                 tree, picked, result, abandoned>>

FailToClose ==
  /\ pc = "spill" /\ run = <<>> /\ buffer # <<>>
  /\ files' = [files EXCEPT ![Len(files)].fd = "closed"]
  /\ Throw
  /\ UNCHANGED <<noMoreInput, finished, given, delivered, spilledBytes, streams, tree, picked,
                 result>>

-----------------------------------------------------------------------------
(* The streams of module SpillMerger, one for each file.                   *)

head == Heads(streams)

\* SpillMerger::Create, one stream after the other.  With the last one GetOutput
\* deletes the spiller, whose files belong to the readers now.
OpenStream ==
  LET i == Len(streams) + 1
  IN  /\ pc = "create"
      /\ streams' = Append(streams, ReadVecBatch(NewStream, files[i]))
      /\ files' = [files EXCEPT ![i] = AfterRead(NewStream, @)]
      /\ IF i = Len(files)
         THEN pc' = "merge" /\ spiller' = FALSE /\ tree' = NewTree(i)
         ELSE UNCHANGED <<pc, spiller, tree>>
      /\ UNCHANGED <<noMoreInput, finished, given, delivered, pagesIndex, run, buffer,
                     spilledBytes, picked, result, abandoned>>

\* A file cannot be opened or read: the readers made so far are deleted, and remove
\* their files.  The files after it never get a reader.
FailToOpen ==
  LET i == Len(streams) + 1
  IN  /\ pc = "create"
      /\ files' = [j \in DOMAIN files |->
                     IF j > i THEN files[j]
                     ELSE [files[j] EXCEPT !.exists = FALSE,
                                           !.reader = IF j = i THEN "failed" ELSE @]]
      /\ streams' = <<>>
      /\ Throw
      /\ UNCHANGED <<noMoreInput, finished, given, delivered, spilledBytes, tree, picked, result>>

-----------------------------------------------------------------------------
(* SortOperator::GetOutput.                                                *)

\* maxRowCountPerBatch, unless it is so small that the fallback is taken.
Chunk == IF OutRows <= 1 THEN FallbackRows ELSE OutRows

rowCount == Least(Chunk, Len(given) - Len(delivered))

\* A chunk is handed out; with the last one the operator finishes.
Deliver(rows) ==
  /\ delivered' = delivered \o rows
  /\ finished' = (Len(delivered') = Len(given))
  /\ pc' = "idle"

Output == pc = "idle" /\ noMoreInput /\ ~finished

\* GetOutputFromMemory, or no rows at all.
GetOutputFromMemory ==
  /\ Output /\ ~hasSpill
  /\ Deliver(SubSeq(ByKey(pagesIndex), Len(delivered) + 1, Len(delivered) + rowCount))
  /\ pagesIndex' = IF finished' THEN <<>> ELSE pagesIndex
  /\ UNCHANGED <<noMoreInput, given, run, buffer, files, spiller, spilledBytes, streams, tree,
                 picked, result, abandoned>>

\* Mutant: the last run is written even if no rows are left in memory.
AlwaysAnotherRun == TRUE

\* SpillToDisk and Spill return at once if there are no rows.
AnotherRun == pagesIndex # <<>>

\* GetOutputFromDisk: the first time the rows in memory become a run, if any are
\* left, and the merger is made.
GetOutputFromDisk ==
  /\ Output /\ hasSpill
  /\ IF streams # <<>> THEN pc' = "merge" /\ UNCHANGED <<run, files, spiller>>
     ELSE IF AnotherRun THEN SpillToDisk(pagesIndex)
     ELSE pc' = "create" /\ UNCHANGED <<run, files, spiller>>
  /\ UNCHANGED <<noMoreInput, finished, given, delivered, pagesIndex, buffer, spilledBytes,
                 streams, tree, picked, result, abandoned>>

\* SetSpillOutputVecBatch: the rows that were picked are read only now.
Copy(refs) == [i \in DOMAIN refs |-> streams[refs[i].s + 1].batch[refs[i].at + 1]]

\* One row of the loop in GetOutputFromDisk: the tree's winner is picked.  With the
\* last row of a batch all picked rows are copied, before Pop reads the next batch.
MergeRow ==
  LET winner  == NextStream(head, tree)
      s       == winner.last
      stream  == streams[s + 1]
      refs    == Append(picked, [s |-> s, at |-> stream.at])
      lastRow == IsLastRow(stream)
  IN  /\ pc = "merge" /\ Len(result) + Len(picked) < rowCount
      /\ tree' = winner
      /\ picked' = IF lastRow THEN <<>> ELSE refs
      /\ result' = IF lastRow THEN result \o Copy(refs) ELSE result
      /\ streams' = [streams EXCEPT ![s + 1] =
                       IF NeedsBatch(stream) THEN ReadVecBatch(stream, files[s + 1])
                                             ELSE [stream EXCEPT !.at = @ + 1]]
      /\ files' = IF NeedsBatch(stream) THEN [files EXCEPT ![s + 1] = AfterRead(stream, @)]
                                        ELSE files
      /\ UNCHANGED <<pc, noMoreInput, finished, given, delivered, pagesIndex, run, buffer,
                     spiller, spilledBytes, abandoned>>

\* Pop cannot read the next batch.
FailToRead ==
  LET s      == NextStream(head, tree).last
      stream == streams[s + 1]
  IN  /\ pc = "merge" /\ Len(result) + Len(picked) < rowCount
      /\ NeedsBatch(stream) /\ ~AtEnd(stream, files[s + 1])
      /\ files' = [files EXCEPT ![s + 1].reader = "closed"]
      /\ pc' = "failed"
      /\ UNCHANGED <<noMoreInput, finished, given, delivered, pagesIndex, run, buffer, spiller,
                     spilledBytes, streams, tree, picked, result, abandoned>>

ReturnMerged ==
  /\ pc = "merge" /\ Len(result) + Len(picked) = rowCount
  /\ Deliver(result \o Copy(picked))
  /\ picked' = <<>> /\ result' = <<>>
  /\ UNCHANGED <<noMoreInput, given, pagesIndex, run, buffer, files, spiller, spilledBytes,
                 streams, tree, abandoned>>

\* Mutant: Close leaves the spiller's files to the readers.
OnlyReadersRemove(i) == streams # <<>>

\* Which files Close removes: RemoveSpillFiles those of the spiller, and the
\* readers of the merger theirs.
RemovedByClose(i) == (spiller /\ files[i].named) \/ streams # <<>>

Close ==
  /\ pc \in {"idle", "failed"}
  /\ pc' = "closed"
  /\ files' = [i \in DOMAIN files |->
                 IF RemovedByClose(i) THEN [files[i] EXCEPT !.exists = FALSE] ELSE files[i]]
  /\ pagesIndex' = <<>> /\ spiller' = FALSE /\ streams' = <<>>
  /\ UNCHANGED <<noMoreInput, finished, given, delivered, run, buffer, spilledBytes, tree,
                 picked, result, abandoned>>

Spill  == WriteVecBatch \/ ExceedSpillLimit \/ FailToCreate \/ FailToWrite \/ CloseWriter
          \/ FailToClose
Merge  == OpenStream \/ FailToOpen \/ MergeRow \/ FailToRead \/ ReturnMerged
SortNext == \/ AddInput \/ NoMoreInput \/ GetOutputFromMemory \/ GetOutputFromDisk
            \/ Spill \/ Merge \/ Close

Spec == Init /\ [][SortNext]_vars

-----------------------------------------------------------------------------
\* The rows handed out so far are those a sort of the whole input starts with,
\* whatever was spilled when, into how many runs, in batches of whatever size;
\* when the operator finishes they are all there, each once.
OutputIsSorted ==
  LET keys(rows) == [i \in DOMAIN rows |-> rows[i].key]
  IN  /\ keys(delivered) = SubSeq(keys(ByKey(given)), 1, Len(delivered))
      /\ Cardinality({delivered[i].id : i \in DOMAIN delivered}) = Len(delivered)
      /\ \A i \in DOMAIN delivered : delivered[i] = given[delivered[i].id]
      /\ finished => Len(delivered) = Len(given)

\* Once all rows have been handed out nothing is open and nothing is on disk, even before
\* the operator is closed.  Of the files its writers know, a closed operator has left
\* behind those which had no reader yet when GetOutput threw its spiller away
\* (sort.cpp:341-345, 350-353), and no other: whatever failed in AddInput, in a merge
\* under way or in a run that Close found open, no run is forgotten.
OnlyOrphansStay ==
  /\ finished => \A i \in DOMAIN files :
                   files[i].fd = "closed" /\ files[i].reader = "closed" /\ ~files[i].exists
  /\ pc = "closed" => \A i \in DOMAIN files :
                        files[i].named =>
                          (files[i].exists <=> abandoned /\ files[i].reader = "none")

\* A reader never closes a file it has not opened: no run is empty, although the
\* last spill may find nothing in memory.
ClosesWhatItOpened ==
  [][\A i \in DOMAIN files :
       files[i].reader = "none" => files'[i].reader # "closed"]_vars
=============================================================================
