------------------------------ MODULE MergeScan ------------------------------
(***************************************************************************)
(* SortMergeJoinScanner (src/core/src/operator/join/sortmergejoin/         *)
(* sort_merge_join_scanner.cpp): one call of FindNextJoinRows, as an       *)
(* operator from the scanner's state to its next one.  It walks over the   *)
(* streamed and the buffered rows that have arrived, and stops where one   *)
(* of the sides has to bring more.  Rows are numbered from 1 and known by  *)
(* their keys; a key -v has a null in it and compares, as CompareValue     *)
(* does without NeedCompareNull, by the v the column holds there.  A state *)
(* z has these members of the class:                                       *)
(*   S, B     streamedPagesIndex, bufferedPagesIndex                       *)
(*   sp, bp   streamedPagesIndexPosition, bufferedPagesIndexPosition       *)
(*   ps       preStreamedValueAddress: the row the matches were found for  *)
(*   pb, pbp  preBufferedValueAddress, preBufferedPagesIndexPosition       *)
(*   sm, bm   curStreamRowMatchFlag, curBufferRowMatchFlag                 *)
(*   last     streamedLastScanFinished                                     *)
(*   sc, bc   the codes of preStatus                                       *)
(*   found    what GetMatchedValueAddresses will hand over                 *)
(*   type     joinType                                                     *)
(*   first    onlyBufferedFirstMatch                                       *)
(* and `on` and `cmp`, what the function that returned it has returned.    *)
(***************************************************************************)
EXTENDS Integers, Sequences, SequencesExt

NoRow == 0     \* the address -1: no row yet, or the null row of the other side

\* JoinTableCode
SCAN == "scan"  DATA == "data"  DONE == "done"  INVALID == "invalid"

-----------------------------------------------------------------------------
(* DynamicPagesIndex: keys of the rows, their batches, how many batches    *)
(* came and how many of them were freed, finishAddData.                    *)

NoPages == [keys |-> <<>>, batch |-> <<>>, batches |-> 0, freed |-> 0, finish |-> FALSE]

\* Mutant: the batch that ends the data is put aside like one that comes too late.
AddWithoutEnd(x, keys) ==
  IF x.finish \/ keys = <<>> THEN x
  ELSE [x EXCEPT !.keys = @ \o keys, !.batches = @ + 1,
                 !.batch = @ \o [i \in DOMAIN keys |-> x.batches]]

\* AddVecBatch: the batch without rows is the last one.
AddVecBatch(x, keys) ==
  IF x.finish THEN x
  ELSE [x EXCEPT !.keys = @ \o keys, !.batches = @ + 1, !.finish = keys = <<>>,
                 !.batch = @ \o [i \in DOMAIN keys |-> x.batches]]

\* Mutant: the batch itself is freed too.
FreeUptoVecBatch(x, b) == IF b < x.batches /\ b >= x.freed THEN [x EXCEPT !.freed = b + 1] ELSE x
FreeBeforeVecBatch(x, b) == IF b < x.batches /\ b > x.freed THEN [x EXCEPT !.freed = b] ELSE x
FreeAllRemaining(x)      == [x EXCEPT !.freed = x.batches]

IsDataFinish(x, p) == x.finish /\ p >= Len(x.keys)
IsEmptyBatch(x)    == x.finish /\ x.keys = <<>>
HaveNull(x, p)     == x.keys[p] <= 0
Value(x, p)        == IF x.keys[p] <= 0 THEN -x.keys[p] ELSE x.keys[p]

\* A walk goes over the rows behind p, to the first that ends it or to the last row.
Behind(x, p)   == p + 1 .. Len(x.keys)
NonNulls(x, p) == {i \in Behind(x, p) : ~HaveNull(x, i)}
StopOf(x, ends) == IF ends = {} THEN Len(x.keys) ELSE CHOOSE i \in ends : \A j \in ends : i <= j

-----------------------------------------------------------------------------
NewScanner(type, first) ==
  [type |-> type, first |-> first, S |-> NoPages, B |-> NoPages, sp |-> 0, bp |-> 1, ps |-> NoRow, pb |-> <<>>, pbp |-> 1,
   sm |-> FALSE, bm |-> FALSE, last |-> FALSE, sc |-> INVALID, bc |-> INVALID,
   found |-> <<>>, on |-> TRUE, cmp |-> 0]

Status(z, s, b) == [z EXCEPT !.sc = s, !.bc = b, !.on = FALSE]

\* TransToNeedStreamedData, TransToNeedBufferedData
NeedStreamed(z) ==
  IF z.sc = DONE THEN Status(z, DONE, DONE)
  ELSE Status(z, DATA, IF z.bc = DONE THEN DONE ELSE SCAN)
NeedBuffered(z) ==
  IF z.bc = DONE THEN Status(z, DONE, DONE)
  ELSE Status(z, IF z.sc = DONE THEN DONE ELSE SCAN, DATA)

\* AdvancedStreamedWithNullFreeJoinKey of an inner join, AdvancedStreamedJoinKey
NullFree(z) == z.type \in {"inner", "semi"}
StreamedTo(z, p) ==
  [z EXCEPT !.sp = p, !.on = p > z.sp /\ (NullFree(z) => ~HaveNull(z.S, p)),
            !.sm = @ /\ (NullFree(z) \/ p = z.sp)]
AdvanceStreamed(z) == StreamedTo(z, StopOf(z.S, IF NullFree(z) THEN NonNulls(z.S, z.sp) ELSE Behind(z.S, z.sp)))

\* AdvancedBufferedJoinKey, AdvancedBufferedToRowWithNullFreeJoinKey
BufferedTo(z, p)     == [z EXCEPT !.bp = p, !.on = p > z.bp, !.bm = @ /\ p = z.bp]
AdvanceBuffered(z)   == BufferedTo(z, StopOf(z.B, Behind(z.B, z.bp)))
OnIfFree(z)            == [z EXCEPT !.on = @ /\ ~HaveNull(z.B, z.bp)]
AdvanceBufferedFree(z) == OnIfFree(BufferedTo(z, StopOf(z.B, NonNulls(z.B, z.bp))))

\* The buffered rows ahead that are not smaller than the streamed row.
NotSmaller(z) == {i \in Behind(z.B, z.bp) : Value(z.B, i) >= Value(z.S, z.sp)}

Compare(z) == Value(z.S, z.sp) - Value(z.B, z.bp)       \* CompareCurRowKeys

\* PreKeyMatched, PreKeyMatchedWithNullValue
PreKeyMatched(z) ==
  /\ z.ps # NoRow /\ z.pb # <<>>
  /\ z.type \in {"inner", "semi"} \/ ~(HaveNull(z.S, z.ps) \/ HaveNull(z.S, z.sp))
  /\ Value(z.S, z.ps) = Value(z.S, z.sp)

\* Mutant: the last row of a batch is compared as smaller only.
NeedBufferedDataLate(z) ==
  ~z.B.finish /\ Value(z.S, z.sp) > Value(z.B, Len(z.B.keys))

\* Matches for the streamed row may still be in the next buffered batch.
NeedBufferedData(z) ==
  ~z.B.finish /\ Value(z.S, z.sp) >= Value(z.B, Len(z.B.keys))

\* SavePrevMatchingRows: the streamed row s with each of the matches.  same is
\* isSameBufferedKeyMatched, which only semi and anti joins fill and read.
SavePrev(z, s, pre) ==
  [z EXCEPT !.found = @ \o [i \in DOMAIN z.pb |->
                              [s |-> s, b |-> z.pb[i], pre |-> pre, same |-> i > 1]]]

\* The rows become the matches of the streamed row s, and are saved.
Save(z, s, rows, final) ==
  SavePrev([z EXCEPT !.ps = s, !.pb = rows, !.pbp = final], s, FALSE)

From(z, p) == [i \in 1 .. p - z.bp + 1 |-> z.bp + i - 1]

\* BufferMatchingRows: the row at bp and the equal ones behind it, up to the row that
\* differs; BufferMatchingRowsForFullOuter goes over nulls too.
Seen(z, i)  == z.type = "full" \/ ~HaveNull(z.B, i)
Equal(z, i) == Seen(z, i) /\ Value(z.B, i) = Value(z.S, z.sp)
Taken(z, rows, i) == IF Equal(z, i) THEN Append(rows, i) ELSE rows
Equals(z, stop) ==
  LET upto[i \in 0 .. stop - z.bp] ==
        IF i = 0 THEN <<z.bp>> ELSE Taken(z, upto[i - 1], z.bp + i)
  IN  upto[stop - z.bp]

Keep(z, rows) == Save(z, z.sp, IF z.first THEN <<rows[1]>> ELSE rows, rows[Len(rows)])
BufferMatching(z) ==
  LET stop == StopOf(z.B, {i \in Behind(z.B, z.bp) : Seen(z, i) /\ ~Equal(z, i)})
  IN  Keep(BufferedTo(z, stop), Equals(z, stop))

\* BufferMissingRows, BufferMissingRowsForFullOuter
BufferMissing(z) == Save(z, z.sp, <<NoRow>>, z.bp)

-----------------------------------------------------------------------------
(* The next streamed row has not the key of the one before.                *)

\* while (CurBufferedHasNull()) AdvancedBufferedJoinKey()
SkipNulls(z) ==
  IF ~HaveNull(z.B, z.bp) THEN [z EXCEPT !.on = TRUE] ELSE AdvanceBufferedFree(z)

\* FindNextMatchPos: the smaller of the two sides goes on, until it cannot.
Again(z, cur) == IF Compare(z) # 0 /\ z.sp > cur /\ PreKeyMatched(z) THEN SavePrev(z, z.sp, TRUE) ELSE z
Moved(z)      == [IF Compare(z) > 0 THEN AdvanceBufferedFree(z) ELSE AdvanceStreamed(z)
                    EXCEPT !.cmp = Compare(z)]
MovedOn(z, cur) == IF z.on THEN Again(z, cur) ELSE z
MatchStep(z, cur) == IF z.on /\ Compare(z) # 0 THEN MovedOn(Moved(z), cur) ELSE z
\* Each step but the last leaves a row of one side behind.
Steps(z) == Len(z.S.keys) + Len(z.B.keys) + 1
FindNextMatchPos(z) ==
  LET after[n \in 0 .. Steps(z)] == IF n = 0 THEN z ELSE MatchStep(after[n - 1], z.sp)
      end == after[Steps(z)]
  IN  [end EXCEPT !.cmp = IF end.on THEN 0 ELSE @]

AtMatchPos(z) ==
  IF NeedBufferedData(z) THEN NeedBuffered([z EXCEPT !.bp = @ - 1])
  ELSE IF z.cmp > 0 THEN NeedBuffered(z)
  ELSE IF z.cmp < 0 THEN NeedStreamed(z)
  ELSE [BufferMatching(z) EXCEPT !.on = TRUE]

MatchFrom(z) == IF z.on THEN AtMatchPos(FindNextMatchPos(z)) ELSE NeedBuffered(z)

FindMatchingRows(z) == MatchFrom(SkipNulls(z))

Goes(z) == [z EXCEPT !.on = TRUE]

\* The end of LeftOuterFindJoinRows: the streamed row has its matches ...
LeftMatched(z) ==
  IF z.pbp # z.bp THEN Goes([z EXCEPT !.bm = FALSE])
  ELSE IF IsDataFinish(z.B, z.bp) THEN Goes([z EXCEPT !.bm = TRUE])
  ELSE NeedBuffered([z EXCEPT !.bm = TRUE])

\* ... and before that, its comparison ...
LeftCompare(z) ==
  IF Compare(z) > 0
    THEN IF IsDataFinish(z.B, z.bp) THEN Goes(BufferMissing(z)) ELSE NeedBuffered(z)
  ELSE IF Compare(z) < 0
    THEN Goes(IF z.sm THEN z
              ELSE [BufferMissing(z) EXCEPT !.sm = TRUE, !.bp = IF @ > 1 THEN @ - 1 ELSE @])
  ELSE LeftMatched([BufferMatching(z) EXCEPT !.sm = TRUE])

\* ... with the first buffered row that is not smaller.
LeftWalk(z) ==
  IF ~z.on THEN NeedBuffered(z)
  ELSE IF NeedBufferedData(z)
    THEN NeedBuffered([z EXCEPT !.bp = IF z.bm THEN @ ELSE @ - 1])
  ELSE LeftCompare(BufferedTo(z, IF Compare(z) <= 0 THEN z.bp
                                 ELSE StopOf(z.B, NotSmaller(z))))

LeftOuterFindJoinRows(z) ==
  LET bufferedFinished == IsEmptyBatch(z.B) \/ (IsDataFinish(z.B, z.bp) /\ z.bm)
  IN  IF HaveNull(z.S, z.sp) \/ bufferedFinished
        THEN Goes(IF z.sm THEN z ELSE BufferMissing(z))
      ELSE LeftWalk(SkipNulls(z))

-----------------------------------------------------------------------------
(* A full join gives the buffered rows without a partner too.              *)

\* StreamMissingRowsForStreamIsFinished, ...ForNullBuffered, ...ForCompareValue: the
\* rows from bp to the one before `stop`, or to the last one.
StreamMissing(z, stop, atEnd) ==
  LET final == IF atEnd THEN stop ELSE stop - 1
  IN  Save(BufferedTo(z, stop), NoRow, From(z, final), final)

AllMissing(z) == [StreamMissing(z, Len(z.B.keys), TRUE) EXCEPT !.pbp = z.pbp]

NullsMissing(z) ==
  LET stop  == StopOf(z.B, NonNulls(z.B, z.bp))
      atEnd == HaveNull(z.B, stop)
  IN  [StreamMissing(z, stop, atEnd) EXCEPT !.bm = atEnd]

SmallerMissing(z) ==
  LET stop == StopOf(z.B, NotSmaller(z))
  IN  StreamMissing(z, stop, Value(z.B, stop) < Value(z.S, z.sp))

\* The walk goes on behind what was taken of the buffered side.
BackOne(z) == [z EXCEPT !.bp = IF z.pbp # z.bp THEN @ - 1 ELSE @]

\* The last part of FullOuterFindJoinRows: the comparison ...
FullOuterCompare(z) ==
  IF Compare(z) < 0
    THEN [BufferMissing(z) EXCEPT !.sm = TRUE, !.bp = @ - 1]
  ELSE IF Compare(z) > 0 /\ ~z.bm
    THEN [BackOne([SmallerMissing(z) EXCEPT !.bm = TRUE]) EXCEPT !.sp = @ - 1]
  ELSE BackOne([BufferMatching(z) EXCEPT !.sm = TRUE, !.bm = TRUE])

\* ... and the step to the next buffered row.
FullOuterGoesOn(z) == IF z.on \/ IsDataFinish(z.B, z.bp) THEN Goes(z) ELSE NeedBuffered(z)

FullOuterWalk(z) ==
  IF NeedBufferedData(z) THEN NeedBuffered([z EXCEPT !.bp = @ - 1])
  ELSE IF Compare(z) < 0 /\ z.sm THEN Goes(z)
  ELSE FullOuterGoesOn(AdvanceBuffered(FullOuterCompare(z)))

FullOuterNulls(z) == IF z.pbp = z.bp THEN NeedBuffered(z) ELSE FullOuterWalk(z)

FullOuterFindJoinRows(z) ==
  IF IsDataFinish(z.S, z.sp)
    THEN NeedBuffered([IF z.bm THEN z ELSE [AllMissing(z) EXCEPT !.bm = TRUE] EXCEPT !.last = TRUE])
  ELSE IF IsEmptyBatch(z.B) \/ (IsDataFinish(z.B, z.bp) /\ z.bm)
    THEN Goes([IF z.sm THEN z ELSE BufferMissing(z) EXCEPT !.sm = TRUE])
  ELSE IF HaveNull(z.S, z.sp) THEN Goes([BufferMissing(z) EXCEPT !.sm = TRUE])
  ELSE IF HaveNull(z.B, z.bp) THEN FullOuterNulls(NullsMissing(z))
  ELSE FullOuterWalk(z)

-----------------------------------------------------------------------------
Find(z) == CASE z.type \in {"inner", "semi"} -> FindMatchingRows(z)
             [] z.type \in {"left", "anti"}  -> LeftOuterFindJoinRows(z)
             [] z.type = "full"              -> FullOuterFindJoinRows(z)

\* RunInnerJoin, RunLeftOuterJoin, RunFullOuterJoin: the rounds of the loop, each of which
\* moves a position on or is the last.
RunStep(z) == IF ~z.on THEN NeedStreamed(z)
              ELSE IF PreKeyMatched(z) THEN Goes(SavePrev(z, z.sp, TRUE))
              ELSE Find(z)
Round(z)   == IF z.on THEN RunStep(AdvanceStreamed(z)) ELSE z
Rounds(z)  == 2 * (Len(z.S.keys) + Len(z.B.keys) + 1)
Run(z) ==
  LET after[n \in 0 .. Rounds(z)] == IF n = 0 THEN z ELSE Round(after[n - 1])
  IN  after[Rounds(z)]

\* The buffered side has been given rows: go on where it ended.
FindIfAny(z)    == IF z.on THEN Find(z) ELSE NeedBuffered(z)
FindBuffered(z) == FindIfAny(IF z.type = "full" THEN AdvanceBuffered(z) ELSE AdvanceBufferedFree(z))

\* InnerJoin, LeftOuterJoin, FullOuterJoin: what comes before the run.
InnerJoin(z) ==
  LET s == IsDataFinish(z.S, z.sp)  b == IsDataFinish(z.B, z.bp)
  IN  IF DATA \in {z.sc, z.bc} /\ s /\ b THEN Status(z, DONE, DONE)
      ELSE IF z.sc = DATA THEN IF s THEN Status(z, DONE, DATA) ELSE Goes(z)
      ELSE IF z.bc = DATA THEN IF b THEN Status(z, DATA, DONE) ELSE FindBuffered(z)
      ELSE Goes(z)

LeftOuterJoin(z) ==
  IF IsDataFinish(z.S, z.sp) THEN Status(z, DONE, DONE)
  ELSE IF z.sc = DATA \/ z.bc # DATA THEN Goes(z)
  ELSE IF IsDataFinish(z.B, z.bp) THEN Find(z)
  ELSE FindBuffered(z)

FullOuterStart(z) ==
  IF z.sc # DATA /\ z.bc = DATA /\ ~IsDataFinish(z.B, z.bp) THEN FindBuffered(z)
  ELSE IF (z.sc # DATA /\ z.bc = DATA) \/ IsDataFinish(z.S, z.sp) THEN Find(z)
  ELSE Goes(z)

FullOuterJoin(z) ==
  LET ends == IsDataFinish(z.S, z.sp) /\ IsDataFinish(z.B, z.bp)
  IN  IF ~ends THEN FullOuterStart(z)
      ELSE IF z.last \/ IsEmptyBatch(z.B) THEN Status(z, DONE, DONE)
      ELSE FullOuterStart(Status(z, DONE, DONE))

FindNextJoinRows(z) ==
  Run(CASE z.type \in {"inner", "semi"} -> InnerJoin(z)
        [] z.type \in {"left", "anti"}  -> LeftOuterJoin(z)
        [] z.type = "full"              -> FullOuterJoin(z))
=============================================================================
