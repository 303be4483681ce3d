------------------------------ MODULE MergeJoin ------------------------------
(***************************************************************************)
(* The sort merge join of a plan: one SortMergeJoinOperator fed by two     *)
(* pipelines.  The streamed table (StreamedTableWithExprOperatorV2) ends   *)
(* the one whose results are the join's, the buffered table the other.     *)
(* Each of the two is driven by the loop of OmniDriver::RunInternal; what  *)
(* it may do next depends on what the operator has asked for last, and     *)
(* asking a table whether it is blocked may send the end of its data.      *)
(***************************************************************************)
EXTENDS MergeScan, FiniteSets

CONSTANTS
  Filter(_, _),    \* the filter of a join that has one: what a streamed and a buffered row pass
  Queries          \* the joins: their type, whether they have a filter, the rows an output batch
                   \* has room for and, for each side, the sequence of batches of sorted keys

ASSUME JoinAssumption ==
  \A q \in Queries : /\ q.type \in {"inner", "semi", "left", "anti", "full"}
                     /\ q.filtered \in BOOLEAN /\ q.maxRowCount \in Nat \ {0}

\* A plan sorts what it joins, nulls first: so are the rows, within a batch and from each
\* batch to the next.
Place(k) == IF k < 0 THEN 0 ELSE k
Sorted(batches) ==
  \A a, b \in DOMAIN batches : \A i \in DOMAIN batches[a], k \in DOMAIN batches[b] :
    a < b \/ (a = b /\ i <= k) => Place(batches[a][i]) <= Place(batches[b][k])

STREAMED == "streamed"  BUFFERED == "buffered"
Tables   == {STREAMED, BUFFERED}

ASSUME InputAssumption ==
  \A q \in Queries, t \in Tables : q[t] \in Seq(Seq(Int) \ {<<>>}) /\ Sorted(q[t])

VARIABLES
  input,    \* input[t]: the batches the source of table t has still to give
  table,    \* table[t]: noMoreInput_ and "FINISHED" of the two table operators
  smj,      \* SortMergeJoinOperator, see NewJoin
  at,       \* the driver that runs and the operator its loop is at; <<>>: none
  ended,    \* the drivers that have finished
  result    \* history: the rows given to the caller

vars == <<input, table, smj, at, ended, result>>

NoBatch == <<>>    \* nullptr: no batch handed out has no rows

\* Members of JoinResultBuilder (pairs .. unmatched) and of SortMergeJoinOperator
\* (flow, hasData: flowControlCode and resCode; return: returnVectorBatch).
\*   pairs, offset  the value addresses and addressOffset
\*   rows           the rows of buildVectorBatch
\*   prev, out      preStreamedRowAddress, preLeftTableRowMatchedOut
\*   seen           isPreRowMatched of a semi join; of an anti join, that the flag
\*                  printThisStreamRowOutFlag is off
\*   unmatched      lastUnMatchedStreamedBatchId
\*   stale          history: a freed row has been read
\* InitScannerAndResultBuilder
NewJoin(type, filtered, maxRowCount) ==
  [scan |-> NewScanner(type, type \in {"semi", "anti"} /\ ~filtered), filtered |-> filtered,
   maxRowCount |-> maxRowCount,   pairs |-> <<>>, offset |-> 0, rows |-> <<>>,
   prev |-> -1, out |-> FALSE, seen |-> FALSE, unmatched |-> -1,
   flow |-> BUFFERED, hasData |-> FALSE, return |-> NoBatch, stale |-> FALSE]
FINISH == "finish"

Init ==
  /\ \E q \in Queries : input = [t \in Tables |-> q[t]] /\ smj = NewJoin(q.type, q.filtered, q.maxRowCount)
  /\ table = [t \in Tables |-> [noMore |-> FALSE, finished |-> FALSE]]
  /\ at = <<>> /\ ended = {} /\ result = <<>>

-----------------------------------------------------------------------------
(* JoinResultBuilder: from pairs of addresses to rows.                     *)

Eligible(j, p) == j.filtered => Filter(p.s, p.b)        \* IsJoinPositionEligible

BatchOf(x, row) == IF row = NoRow THEN -1 ELSE x.batch[row]
Freed(x, row)   == row # NoRow /\ x.batch[row] < x.freed

\* A row of the output, read from the two tables.
Out(j, s, b) ==
  [j EXCEPT !.rows = Append(@, <<s, b>>),
            !.stale = @ \/ Freed(j.scan.S, s) \/ Freed(j.scan.B, b)]

Free(j, s, b) == [j EXCEPT !.scan.S = FreeBeforeVecBatch(@, s), !.scan.B = FreeBeforeVecBatch(@, b)]

\* FreeVectorBatches
FreeVectorBatches(j, p) ==
  LET s == BatchOf(j.scan.S, p.s)
  IN  IF p.s = NoRow \/ p.b = NoRow \/ p.pre \/ s <= j.unmatched THEN j
      ELSE [Free(j, s, BatchOf(j.scan.B, p.b)) EXCEPT !.unmatched = s]

\* PaddingRightTableNull for the streamed row before p, if it was given no row.
PadPrevious(j, s) ==
  LET k == IF j.prev # -1 /\ j.prev # s /\ ~j.out THEN Out(j, j.prev, NoRow) ELSE j
  IN  [k EXCEPT !.out = @ /\ j.prev # -1 /\ j.prev = s]

Direct(p) == NoRow \in {p.s, p.b}

\* ConstructInnerJoinOutput frees the batches once it has copied the rows of a whole
\* group of pairs; here they are freed at the pair, which is not later.
InnerRow(j, p) ==
  LET s     == BatchOf(j.scan.S, p.s)
      fresh == ~p.pre /\ s > j.unmatched                     \* CanFreeRightBatches
      k     == [IF Eligible(j, p) THEN Out(j, p.s, p.b) ELSE j EXCEPT !.unmatched = IF fresh THEN s ELSE @]
  IN  Free(k, IF j.prev = -1 THEN 0 ELSE BatchOf(j.scan.S, j.prev),
              IF fresh /\ Eligible(j, p) THEN BatchOf(j.scan.B, p.b) ELSE 0)

LeftRow(j, p) ==
  LET k == FreeVectorBatches(PadPrevious(j, p.s), p)
  IN  IF Direct(p) \/ Eligible(j, p) THEN [Out(k, p.s, p.b) EXCEPT !.out = TRUE]
      ELSE IF j.scan.type = "full" THEN Out(k, NoRow, p.b)
      ELSE k

SemiRow(j, p) ==
  LET k == FreeVectorBatches(j, p)
      gives == Eligible(j, p) /\ (p.same => ~j.seen)
  IN  [IF gives THEN Out(k, p.s, NoRow) ELSE k EXCEPT !.seen = gives \/ (p.same /\ j.seen)]

\* LeftAntiJoinHandler: `j.seen` is the negation of printThisStreamRowOutFlag.
AntiRow(j, p) ==
  LET i    == j.offset + 1
      size == Len(j.pairs)
      more == i < size /\ j.pairs[i + 1].same                 \* hasSameBufferedRow
      seen == IF i < size /\ ~p.same THEN FALSE ELSE j.seen
      k    == [FreeVectorBatches(PadPrevious(j, p.s), p) EXCEPT !.out = TRUE]
      meets == p.b # NoRow /\ Eligible(j, p)
  IN  IF more THEN [k EXCEPT !.seen = seen \/ meets]
      ELSE IF p.b = NoRow \/ (~meets /\ ~seen) THEN [Out(k, p.s, NoRow) EXCEPT !.seen = seen]
      ELSE [k EXCEPT !.seen = TRUE]

Row(j, p) ==
  LET k == CASE j.scan.type = "inner" -> InnerRow(j, p)
             [] j.scan.type \in {"left", "full"} -> LeftRow(j, p)
             [] j.scan.type = "semi" -> SemiRow(j, p)
             [] j.scan.type = "anti" -> AntiRow(j, p)
  IN  [k EXCEPT !.prev = p.s, !.offset = @ + 1]

\* Mutant: the batch may take one row more.
FullLate(j) == Len(j.rows) > j.maxRowCount
Full(j)     == Len(j.rows) >= j.maxRowCount

\* ConstructLeftJoinOutput and its like: until the batch is full or no pair is left.
NextRow(j, n) == IF n > 1 /\ Full(j) THEN j ELSE Row(j, j.pairs[j.offset + 1])
Rows(j, left) ==
  LET built[n \in 0 .. left] == IF n = 0 THEN j ELSE NextRow(built[n - 1], n)
  IN  built[left]

\* PaddingRightTableNull for the last streamed row.
PadLast(j) ==
  LET k == IF j.scan.type \in {"left", "full", "anti"} /\ j.prev # -1 /\ ~j.out
             THEN Out(j, j.prev, NoRow) ELSE j
  IN  [k EXCEPT !.prev = -1]

\* ConstructLeftAntiJoinOutput starts with printThisStreamRowOutFlag set; the
\* isPreRowMatched of a semi join is kept from call to call.
NewCall(j) == [j EXCEPT !.seen = @ /\ j.scan.type # "anti"]

\* AddJoinValueAddresses, for which the batch is full when it returns 1.
AddJoin(j) ==
  LET left == Len(j.pairs) - j.offset
      k    == Rows(NewCall(j), left)
  IN  IF left > 0 /\ Full(k) THEN k ELSE PadLast(k)

\* JoinResultBuilder::GetOutput and Clear
Take(j)  == IF j.rows = <<>> THEN j ELSE [j EXCEPT !.return = j.rows, !.rows = <<>>]
Clear(j) == [j EXCEPT !.rows = <<>>, !.offset = 0, !.seen = FALSE, !.pairs = <<>>]

-----------------------------------------------------------------------------
(* SortMergeJoinOperator.                                                  *)

Answer(j, flow, hasData) == [j EXCEPT !.flow = flow, !.hasData = hasData]

\* HandleSortMergeJoinNoResultSituation
NoResult(z) ==
  LET s == IsEmptyBatch(z.S)  b == IsEmptyBatch(z.B)
  IN  CASE z.type \in {"inner", "semi"} -> s \/ b
        [] z.type \in {"left", "anti"}  -> s
        [] z.type = "full"              -> s /\ b

Waits(x) == x.keys = <<>> /\ ~x.finish

\* The scanner has stopped with z, and what it found is built into k.
AfterScan(z, k) ==
  LET full == z.found # <<>> /\ Full(k)
  IN  IF z.sc = DATA THEN Answer(IF full THEN Take(k) ELSE k, STREAMED, full)
      ELSE IF z.bc = DATA THEN Answer(IF full THEN Take(k) ELSE k, BUFFERED, full)
      ELSE IF Take(k).return # NoBatch THEN Answer(Take(k), FINISH, TRUE)
      ELSE [Answer(k, FINISH, FALSE) EXCEPT
              !.scan.S = FreeAllRemaining(@), !.scan.B = FreeAllRemaining(@)]

GetFoundRows(j, z) ==
  LET found == [j EXCEPT !.scan = [z EXCEPT !.found = <<>>], !.pairs = @ \o z.found]
  IN  AfterScan(z, IF z.found = <<>> THEN found ELSE AddJoin(found))

GetJoinResult(j) ==
  IF Waits(j.scan.S) THEN Answer(j, STREAMED, FALSE)
  ELSE IF Waits(j.scan.B) THEN Answer(j, BUFFERED, FALSE)
  ELSE IF NoResult(j.scan) THEN Answer(j, FINISH, FALSE)
  ELSE GetFoundRows(j, FindNextJoinRows(j.scan))

\* AddStreamedTableInput, AddBufferedTableInput
AddTableInput(j, t, keys) ==
  GetJoinResult(IF t = STREAMED THEN [j EXCEPT !.scan.S = AddVecBatch(@, keys)]
                                ELSE [j EXCEPT !.scan.B = AddVecBatch(@, keys)])

EndOfData == <<>>    \* the batch without rows that noMoreInput() adds

\* GetOutput, behind which the next batch is built.
AfterOutput(j) ==
  LET k == AddJoin([j EXCEPT !.return = NoBatch])
  IN  IF k.rows # <<>> THEN Take(k) ELSE [Clear(k) EXCEPT !.hasData = FALSE]

-----------------------------------------------------------------------------
(* The table operators.                                                    *)

Resends(t)  == table[t].noMore /\ smj.flow = t
Finishes(t) == smj.flow = FINISH /\ ~smj.hasData

\* IsBlocked(): the answer ...
IsBlocked(t) ==
  /\ ~Finishes(t) /\ ~Resends(t)
  /\ IF t = STREAMED THEN smj.flow \notin {t, FINISH} /\ ~smj.hasData
                     ELSE smj.flow \notin {t, FINISH} \/ smj.hasData

\* ... and what it does beside it.
Asked(t) ==
  [join  |-> IF ~Finishes(t) /\ Resends(t) THEN AddTableInput(smj, t, EndOfData) ELSE smj,
   table |-> IF Finishes(t) THEN [table EXCEPT ![t].finished = TRUE] ELSE table]

\* needsInput()
NeedsInput(t, j, tab) == ~j.hasData /\ ~tab[t].finished /\ ~tab[t].noMore /\ j.flow = t

-----------------------------------------------------------------------------
(* RunInternal of the two drivers.  OmniTask::Next polls them in turn; a   *)
(* poll that only finds the table blocked changes nothing.                 *)

Poll(t) ==
  /\ at = <<>> /\ t \notin ended /\ ~IsBlocked(t)
  /\ at' = <<t, 2>>
  /\ UNCHANGED <<input, table, smj, ended, result>>

Block(t) ==
  /\ at # <<>> /\ at[1] = t /\ IsBlocked(t)
  /\ at' = <<>>
  /\ UNCHANGED <<input, table, smj, ended, result>>

\* The last operator: a batch for the caller, the end, or further down.
Sink(t) ==
  /\ at = <<t, 2>> /\ ~IsBlocked(t)
  /\ \E a \in {Asked(t)} :
       LET more == t = STREAMED /\ a.join.hasData
       IN  /\ table' = a.table
           /\ smj' = IF more THEN AfterOutput(a.join) ELSE a.join
           /\ result' = IF more THEN result \o a.join.return ELSE result
           /\ at' = IF (more /\ a.join.return # NoBatch) \/ a.table[t].finished THEN <<>> ELSE <<t, 1>>
           /\ ended' = IF a.table[t].finished THEN ended \cup {t} ELSE ended
  /\ UNCHANGED input

\* The source: a batch for the table, or noMoreInput(), if it needs input.
Source(t) ==
  /\ at = <<t, 1>> /\ ~IsBlocked(t)
  /\ at' = <<t, 2>>
  /\ \E a \in {Asked(t)} :
       LET needs == NeedsInput(t, a.join, a.table)
           ends  == needs /\ input[t] = <<>>
       IN  /\ smj' = IF needs THEN AddTableInput(a.join, t, IF ends THEN EndOfData ELSE Head(input[t]))
                              ELSE a.join
           /\ table' = [a.table EXCEPT ![t].noMore = @ \/ ends]
           /\ input' = IF needs /\ ~ends THEN [input EXCEPT ![t] = Tail(@)] ELSE input
  /\ UNCHANGED <<ended, result>>

Done == ended = Tables

Next == (\E t \in Tables : Poll(t) \/ Block(t) \/ Sink(t) \/ Source(t)) \/ (Done /\ UNCHANGED vars)

Spec == Init /\ [][Next]_vars

\* OmniTask::Next polls a driver that is not blocked in its turn, and a blocked one returns.
FairSpec == Spec /\ \A t \in Tables : WF_vars(Poll(t)) /\ WF_vars(Block(t))

-----------------------------------------------------------------------------
(* What the join promises.                                                 *)

Keys(t) == (IF t = STREAMED THEN smj.scan.S.keys ELSE smj.scan.B.keys) \o FlattenSeq(input[t])

Matches(s, b) == /\ Keys(STREAMED)[s] > 0 /\ Keys(STREAMED)[s] = Keys(BUFFERED)[b]
                 /\ smj.filtered => Filter(s, b)

Joined ==
  LET S == DOMAIN Keys(STREAMED)  B == DOMAIN Keys(BUFFERED)
      inner == {p \in S \X B : Matches(p[1], p[2])}
      some == {s \in S : \E p \in inner : p[1] = s}
      none == (S \ some) \X {NoRow}
      rest == {NoRow} \X {b \in B : \A p \in inner : p[2] # b}
  IN  CASE smj.scan.type = "inner" -> inner
        [] smj.scan.type = "semi"  -> some \X {NoRow}
        [] smj.scan.type = "anti"  -> none
        [] smj.scan.type = "left"  -> inner \cup none
        [] smj.scan.type = "full"  -> inner \cup none \cup rest

\* The caller gets the rows of the join of the two inputs and no other, each once, however the
\* inputs are cut into batches and whichever side has to wait in the middle of a run of equal
\* keys: when both drivers have ended, all of them.
ResultIsJoin ==
  /\ \A i, k \in DOMAIN result : result[i] = result[k] => i = k
  /\ \A i \in DOMAIN result : result[i] \in Joined
  /\ Done => Joined \subseteq ToSet(result)

\* The builder frees the input batches that the rows it has given cannot need again: no row is
\* read from a batch that was freed, though the matches of one streamed row are saved and
\* given again for the next ones.
NothingFreedIsRead == ~smj.stale

\* A batch is built in room for maxRowCount rows: no more are written to it.
BatchesHaveRoom == Len(smj.rows) <= smj.maxRowCount /\ Len(smj.return) <= smj.maxRowCount

\* The two tables do not ask each other for input for ever: every run of the two drivers comes
\* to a stop (and, no state but Done being a deadlock, stops with both of them ended).
JoinEnds == <>[][FALSE]_vars
=============================================================================
