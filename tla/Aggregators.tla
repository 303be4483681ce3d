---------------------------- MODULE Aggregators ----------------------------
(***************************************************************************)
(* The aggregation functions of operator/aggregation/aggregator, in the    *)
(* two stages of a grouped aggregation.  The partial stage takes raw rows  *)
(* and hands out its states as rows, the final stage merges those.  Either *)
(* may write the state of a group to a spill file, start it anew, and in   *)
(* the end merge what it wrote; a partial stage that does not pay off      *)
(* passes raw rows on in the form of partial ones.                         *)
(*                                                                         *)
(* A state is the value so far and a count: -1 after an overflow, 0 while  *)
(* empty.  Where the class only has a flag (AggValueState) the count is 1  *)
(* for NORMAL; for a first value it is valueSet.  A row, of partial        *)
(* results, of a spill file or of the result, has the same form; its count *)
(* stands for the second column of a function that has one (the count of   *)
(* an average, FALSE of isEmpty, TRUE of valueSet), and in a spilled row   *)
(* without a value for the mark written under the null flag.  The sum of   *)
(* an average and its count are not divided.                               *)
(***************************************************************************)
EXTENDS RowOrder

CONSTANTS
  Throws,  \* in place of a value: the exception that ends the task
  MaxSum   \* a long or decimal goes from -MaxSum - 1 to MaxSum

Row(value, count) == [value |-> value, count |-> count]

Fits(n) == -MaxSum - 1 <= n /\ n <= MaxSum
Wrapped(n) == ((n + MaxSum + 1) % (2 * MaxSum + 2)) - MaxSum - 1

\* Functions whose state has a flag only, and sums of doubles, which neither wrap nor
\* overflow here.
HasFlag(agg) == agg \in {"sum_flat", "sum_decimal", "min", "max", "min_text"}
OfDoubles(agg, final) == agg = "avg_flat" \/ (agg = "avg" /\ final)

CountMore(agg, state, n) ==
  IF ~HasFlag(agg) THEN state.count + n ELSE IF n > 0 THEN 1 ELSE state.count

\* An overflow is remembered, whatever is added later.
SumOp(agg, final, state, value, n) ==
  LET sum  == state.value + value
      more == CountMore(agg, state, n)
  IN  IF state.count < 0 THEN state
      ELSE IF OfDoubles(agg, final) THEN Row(sum, more)
      ELSE Row(Wrapped(sum), IF Fits(sum) \/ agg = "sum_flat" THEN more ELSE -1)

NullOrThrow(conf) == Row(IF conf.asNull THEN Null ELSE Throws, 0)

Empty0 == Row(0, 0)
EmptyNull == Row(Null, 0)
OverflowMark == Row(Null, -1)

InitState(agg) ==
  CASE agg = "min" -> Row(MaxSum, 0)
    [] agg = "max" -> Row(-MaxSum - 1, 0)
    [] agg \in {"first", "first_ignore_null", "min_text"} -> EmptyNull
    [] OTHER -> Empty0
-----------------------------------------------------------------------------
(* Adding a row: raw ones, as Row(value, 1), only if they count.           *)

SumAdd(agg, final, state, row) ==
  IF row.value = Null THEN state ELSE SumOp(agg, final, state, row.value, row.count)

\* Merging a partial sum of decimals: one without a value has overflowed.
SumDecimalAdd(state, row) ==
  IF state.count < 0 THEN state
  ELSE IF row.value = Null THEN [state EXCEPT !.count = -1]
  ELSE IF row.count = 0 THEN state
  ELSE SumOp("sum_decimal", TRUE, state, row.value, 1)

MinOp(state, value) == Row(IF value < state.value THEN value ELSE state.value, 1)
MaxOp(state, value) == Row(IF value > state.value THEN value ELSE state.value, 1)
MinCharOp(state, value) == IF state.count = 0 THEN Row(value, 1) ELSE MinOp(state, value)

MinMaxAdd(agg, state, row) ==
  IF row.value = Null THEN state
  ELSE CASE agg = "min" -> MinOp(state, row.value)
         [] agg = "max" -> MaxOp(state, row.value)
         [] agg = "min_text" -> MinCharOp(state, row.value)

CountAdd(final, state, row) ==
  [state EXCEPT !.count = @ + (IF final THEN row.value ELSE 1)]

\* The final stage takes every value while it has none that was set.
FirstAdd(agg, final, state, row) ==
  IF state.count = 1 \/ (~final /\ agg = "first_ignore_null" /\ row.value = Null)
  THEN state ELSE row

Add(conf, final, state, row) ==
  CASE conf.agg \in {"min", "max", "min_text"} -> MinMaxAdd(conf.agg, state, row)
    [] conf.agg \in {"count", "count_all"} -> CountAdd(final, state, row)
    [] conf.agg \in {"first", "first_ignore_null"} -> FirstAdd(conf.agg, final, state, row)
    [] conf.agg = "sum_decimal" /\ final -> SumDecimalAdd(state, row)
    [] OTHER -> SumAdd(conf.agg, final, state, row)
-----------------------------------------------------------------------------
(* The row a stage makes of a state.                                       *)

SumExtract(conf, state) ==
  IF state.count < 0 THEN NullOrThrow(conf)
  ELSE IF state.count = 0 THEN EmptyNull ELSE state

\* A partial sum of decimals in a text has its count with it.
SumTextExtract(conf, state) ==
  IF state.count < 0 /\ ~conf.asNull THEN NullOrThrow(conf)
  ELSE IF state.count <= 0 THEN Empty0 ELSE state

SumFlatExtract(state) == IF state.count <= 0 THEN EmptyNull ELSE state

AverageExtract(conf, final, state) ==
  IF final THEN SumExtract(conf, state) ELSE SumTextExtract(conf, state)

AverageFlatExtract(final, state) ==
  IF state.count # 0 THEN state ELSE IF final THEN EmptyNull ELSE Empty0

SumDecimalExtract(conf, final, state) ==
  IF final THEN SumExtract(conf, state)
  ELSE IF state.count < 0 THEN Row(Null, 1) ELSE state

AverageDecimalExtract(conf, final, state) ==
  IF state.count < 0 THEN NullOrThrow(conf)
  ELSE IF final /\ state.count = 0 THEN EmptyNull ELSE state

MinMaxExtract(state) == IF state.count = 0 THEN EmptyNull ELSE state
CountExtract(state) == Row(state.count, 1)

Extract(conf, final, state) ==
  CASE conf.agg = "sum" -> SumExtract(conf, state)
    [] conf.agg = "sum_varchar" ->
         IF final THEN SumExtract(conf, state) ELSE SumTextExtract(conf, state)
    [] conf.agg \in {"avg", "avg_varchar"} -> AverageExtract(conf, final, state)
    [] conf.agg \in {"sum_flat", "try_sum"} -> SumFlatExtract(state)
    [] conf.agg = "avg_flat" -> AverageFlatExtract(final, state)
    [] conf.agg = "sum_decimal" -> SumDecimalExtract(conf, final, state)
    [] conf.agg = "avg_decimal" -> AverageDecimalExtract(conf, final, state)
    [] conf.agg \in {"min", "max", "min_text"} -> MinMaxExtract(state)
    [] conf.agg \in {"count", "count_all"} -> CountExtract(state)
    [] OTHER -> state
-----------------------------------------------------------------------------
(* Spilling a state and taking it back.                                    *)

SumForSpill(conf, state) ==
  IF state.count < 0 THEN (IF conf.asNull THEN OverflowMark ELSE NullOrThrow(conf))
  ELSE IF state.count = 0 THEN EmptyNull ELSE Row(state.value, 1)

AverageForSpill(conf, state) ==
  IF state.count < 0 THEN (IF conf.asNull THEN OverflowMark ELSE NullOrThrow(conf))
  ELSE IF state.count = 0 THEN EmptyNull ELSE state

SumFlatForSpill(state) == IF state.count = 0 THEN EmptyNull ELSE Row(state.value, 1)

TrySumForSpill(state) ==
  IF state.count < 0 THEN OverflowMark ELSE SumFlatForSpill(state)

SumDecimalForSpill(conf, final, state) ==
  IF state.count < 0
  THEN (IF final /\ ~conf.asNull THEN NullOrThrow(conf) ELSE OverflowMark)
  ELSE SumFlatForSpill(state)

ForSpill(conf, final, state) ==
  CASE conf.agg \in {"sum", "sum_varchar"} -> SumForSpill(conf, state)
    [] conf.agg \in {"avg", "avg_varchar", "avg_decimal"} -> AverageForSpill(conf, state)
    [] conf.agg = "sum_flat" -> SumFlatForSpill(state)
    [] conf.agg = "try_sum" -> TrySumForSpill(state)
    [] conf.agg = "sum_decimal" -> SumDecimalForSpill(conf, final, state)
    [] conf.agg \in {"avg_flat", "min", "max"} -> MinMaxExtract(state)
    [] conf.agg \in {"count", "count_all"} -> CountExtract(state)
    [] OTHER -> state

SumUnspill(agg, final, state, row) ==
  IF row.value # Null THEN SumOp(agg, final, state, row.value, 1)
  ELSE IF row.count = -1 THEN [state EXCEPT !.count = -1] ELSE state

AverageUnspill(agg, final, state, row) ==
  IF row.count < 0 THEN [state EXCEPT !.count = -1]
  ELSE IF row.count = 0 THEN state
  ELSE SumOp(agg, final, state, row.value, row.count)

CountUnspill(state, row) == [state EXCEPT !.count = @ + row.value]

\* Only the partial stage spills valueSet.
FirstUnspill(agg, final, state, row) ==
  IF state.count = 1 THEN state
  ELSE IF agg = "first" \/ row.value # Null THEN Row(row.value, 1)
  ELSE [state EXCEPT !.count = IF final THEN @ ELSE row.count]

Unspill(conf, final, state, row) ==
  CASE conf.agg \in {"avg", "avg_varchar", "avg_decimal", "avg_flat"} ->
         AverageUnspill(conf.agg, final, state, row)
    [] conf.agg \in {"min", "max"} -> MinMaxAdd(conf.agg, state, row)
    [] conf.agg \in {"count", "count_all"} -> CountUnspill(state, row)
    [] conf.agg \in {"first", "first_ignore_null"} ->
         FirstUnspill(conf.agg, final, state, row)
    [] OTHER -> SumUnspill(conf.agg, final, state, row)
-----------------------------------------------------------------------------
(* Raw rows passed on as partial ones.                                     *)

SumAlign(value) == IF value = Null THEN EmptyNull ELSE Row(value, 1)

\* A row without a value counted.
AverageAlignEach(value) == Row(IF value = Null THEN 0 ELSE value, 1)

AverageAlign(value) == IF value = Null THEN Empty0 ELSE Row(value, 1)
CountAlign(value) == IF value = Null THEN Row(0, 1) ELSE Row(1, 1)
CountAllAlign(value) == Row(1, 1)

\* A minimum of texts taken back from a spill file stays in the reader's batch.
CanSpill(conf) == conf.agg # "min_text"

\* value is Null in a row that does not pass the function's filter.
Align(conf, value) ==
  CASE conf.agg \in {"avg", "avg_flat", "avg_decimal", "sum_decimal"} -> AverageAlign(value)
    [] conf.agg = "count" -> CountAlign(value)
    [] conf.agg = "count_all" -> CountAllAlign(value)
    [] OTHER -> SumAlign(value)

\* A first value throws, a mask is not looked at, COUNT(*) ignores its filter.
CanAlign(conf) ==
  /\ conf.agg \notin {"first", "first_ignore_null"}
  /\ conf.use # "mask"
  /\ conf.agg = "count_all" => conf.use = "all"
-----------------------------------------------------------------------------
(* The state of one group in one stage.                                    *)

\* spilled: its rows in the spill files; here: it is in the hash table.
NewStage(conf) == [state |-> InitState(conf.agg), here |-> FALSE, spilled |-> <<>>]
NewAggregate(conf) == [partial |-> NewStage(conf), final |-> NewStage(conf), sent |-> <<>>]

\* The filter or the mask lets the rows of part 1 pass.
Passes(conf, row) == conf.use = "all" \/ row.part = 1

Counts(conf, row) ==
  /\ Passes(conf, row)
  /\ row.key = Null => conf.agg \in {"count_all", "first", "first_ignore_null"}

AddRow(conf, state, row) ==
  IF Counts(conf, row) THEN Add(conf, FALSE, state, Row(row.key, 1)) ELSE state

AddRows(conf, stage, rows) ==
  [stage EXCEPT !.here = TRUE,
                !.state = FoldLeft(LAMBDA state, row : AddRow(conf, state, row), @, rows)]

Merge(conf, stage, row) ==
  [stage EXCEPT !.here = TRUE, !.state = Add(conf, TRUE, @, row)]

Aligned(conf, rows) ==
  [i \in DOMAIN rows |-> Align(conf, IF Passes(conf, rows[i]) THEN rows[i].key ELSE Null)]

Spilled(conf, stage, row) ==
  [NewStage(conf) EXCEPT !.spilled = Append(stage.spilled, row)]

InUse(stage) == stage.here \/ stage.spilled # <<>>

\* If anything was spilled, what is in memory goes the same way.
RowsToMerge(conf, final, stage) ==
  stage.spilled \o (IF stage.here THEN <<ForSpill(conf, final, stage.state)>> ELSE <<>>)

Unspilled(conf, final, rows) ==
  FoldLeft(LAMBDA state, row : Unspill(conf, final, state, row), InitState(conf.agg), rows)

\* The row a stage hands out at the end.
Output(conf, final, stage) ==
  IF stage.spilled = <<>> THEN Extract(conf, final, stage.state)
  ELSE LET rows == RowsToMerge(conf, final, stage)
       IN  IF rows[Len(rows)].value = Throws THEN rows[Len(rows)]
           ELSE Extract(conf, final, Unspilled(conf, final, rows))
=============================================================================
