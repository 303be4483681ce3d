---------------------------- MODULE RowOperators ----------------------------
(***************************************************************************)
(* The operators that keep, number or pair rows, one at a time, as their   *)
(* caller drives them: batches in, the end of the input, batches out until *)
(* the operator has finished.  The caller of a DistinctLimit or a nested   *)
(* loop join takes the output after every input, the build side of a join  *)
(* comes before the probe side.  An aggregate is one group of the two      *)
(* stages of a grouped aggregation, with an exchange between them that     *)
(* keeps no order.  A projection of decimals or texts takes all rows at    *)
(* once, and a filter with a projection of expressions one batch.          *)
(***************************************************************************)
EXTENDS Limits, Window, NestLoopJoin, HashJoin, Aggregators,
        Expressions, Sorting, JsonFunctions, Dates

CONSTANTS
  Confs,       \* what the factories are given: kind, limit, order, sizes of batches
  RowsOf(_),   \* the rows [part, key] an operator is given
  MaxRows(_),  \* bound: how many
  BatchRows(_),\* bound: in one batch
  BuildRows,   \* bound: rows of the build side of a nested loop join
  BuildsOf(_)  \* the inputs of the builders of a hash join

VARIABLES
  conf,
  self,         \* the operator's fields
  noMoreInput,
  finished,     \* OMNI_STATUS_FINISHED
  given,        \* history: the rows of all inputs
  delivered     \* history: the rows of all outputs

vars == <<conf, self, noMoreInput, finished, given, delivered>>

Init ==
  /\ conf \in Confs
  /\ self = CASE conf.kind = "topn"     -> NewTopN
              [] conf.kind = "group"    -> NewGroupLimit
              [] conf.kind = "distinct" -> NewDistinctLimit(conf)
              [] conf.kind = "nestloop" -> NewNestLoop
              [] conf.kind = "hashjoin" -> NewHashJoin
              [] conf.kind = "aggregate" -> NewAggregate(conf)
              [] conf.kind = "json"     -> [thread |-> NewJson, batch |-> <<>>]
              [] conf.kind \in {"decimal", "text", "expression", "sort"} -> <<>>
              [] OTHER                  -> NewWindow
  /\ noMoreInput = FALSE /\ finished = FALSE
  /\ given = <<>> /\ delivered = <<>>

\* A batch of input, its rows numbered as they arrive.
Numbered(rows) ==
  [i \in DOMAIN rows |-> [part |-> rows[i].part, key |-> rows[i].key, id |-> Len(given) + i]]

Given(rows) ==
  /\ ~noMoreInput /\ ~finished
  /\ Len(given) + Len(rows) <= MaxRows(conf)
  /\ given' = given \o rows
  /\ UNCHANGED <<conf, noMoreInput, finished, delivered>>

Batches == UNION {[1 .. n -> RowsOf(conf)] : n \in 1 .. BatchRows(conf)}

TopNInput ==
  /\ conf.kind = "topn"
  /\ \E rows \in Batches :
       Given(Numbered(rows)) /\ self' \in TopNAddInput(conf, self, Numbered(rows))

GroupInput ==
  /\ conf.kind = "group"
  /\ \E rows \in Batches :
       Given(Numbered(rows)) /\ self' \in GroupAddInput(conf, self, Numbered(rows))

DistinctInput ==
  /\ conf.kind = "distinct" /\ self.rowInfo = <<>>
  /\ \E rows \in Batches :
       Given(Numbered(rows)) /\ self' = DistinctAddInput(self, Numbered(rows))

WindowInput ==
  /\ conf.kind = "window"
  /\ \E rows \in Batches, needSpill \in BOOLEAN :
       Given(Numbered(rows)) /\ self' = WindowAddInput(self, Numbered(rows), needSpill)

\* The build operator, with its GetOutput at the end of its input.
NestLoopBuildInput ==
  /\ conf.kind = "nestloop" /\ ~self.built
  /\ \E row \in RowsOf(conf) :
       /\ Len(self.inputs) < BuildRows
       /\ self' = [self EXCEPT !.inputs = Append(@, [part |-> row.part, key |-> row.key,
                                                    id |-> Len(@) + 1])]
  /\ UNCHANGED <<conf, noMoreInput, finished, given, delivered>>

NestLoopBuilt ==
  /\ conf.kind = "nestloop" /\ ~self.built
  /\ self' = [self EXCEPT !.build = self.inputs, !.inputs = <<>>, !.built = TRUE]
  /\ UNCHANGED <<conf, noMoreInput, finished, given, delivered>>

NestLoopInput ==
  /\ conf.kind = "nestloop" /\ self.built /\ self.cur = <<>>
  /\ \E rows \in Batches :
       Given(Numbered(rows)) /\ self' = [self EXCEPT !.cur = Numbered(rows), !.position = 0]

\* The builders of a hash join, all their inputs and their GetOutput.
HashJoinBuild ==
  /\ conf.kind = "hashjoin" /\ self.tables = <<>>
  /\ \E inputs \in BuildsOf(conf) : self' = [self EXCEPT !.tables = Built(conf, inputs)]
  /\ UNCHANGED <<conf, noMoreInput, finished, given, delivered>>

HashJoinInput ==
  /\ conf.kind = "hashjoin" /\ self.tables # <<>> /\ self.cur = <<>>
  /\ \E rows \in Batches :
       Given(Numbered(rows)) /\ self' = [self EXCEPT !.cur = Numbered(rows), !.position = 0]

AggregateInput ==
  /\ conf.kind = "aggregate"
  /\ \E rows \in Batches :
       /\ Given(Numbered(rows))
       /\ self' = [self EXCEPT !.partial = AddRows(conf, @, rows)]

\* Adaptive partial aggregation passes a batch on (AlignSchema, which frees the memory of
\* the groups: their rows have been taken).
AggregateAlign ==
  /\ conf.kind = "aggregate" /\ CanAlign(conf) /\ ~InUse(self.partial)
  /\ \E rows \in Batches :
       /\ Given(Numbered(rows))
       /\ self' = [self EXCEPT !.sent = @ \o Aligned(conf, rows)]

NoMoreInput ==
  /\ ~noMoreInput /\ noMoreInput' = TRUE
  /\ conf.kind \notin {"decimal", "text", "expression", "sort", "json"}
  /\ conf.kind = "nestloop" => self.built
  /\ conf.kind = "hashjoin" => self.tables # <<>>
  /\ UNCHANGED <<conf, self, finished, given, delivered>>

\* A batch of output.
Deliver(output) ==
  /\ self' = output.self
  /\ finished' = output.finished
  /\ delivered' = delivered \o output.batch
  /\ UNCHANGED <<conf, noMoreInput, given>>

TopNResult ==
  /\ conf.kind = "topn" /\ noMoreInput /\ ~finished
  /\ \E output \in TopNGetOutput(conf, self) : Deliver(output)

GroupResult ==
  /\ conf.kind = "group" /\ noMoreInput /\ ~finished
  /\ Deliver(GroupGetOutput(conf, self))

DistinctResult ==
  /\ conf.kind = "distinct" /\ self.rowInfo # <<>> /\ ~finished
  /\ Deliver(DistinctGetOutput(self))

WindowResult ==
  /\ conf.kind = "window" /\ noMoreInput /\ ~finished
  /\ \E output \in {WindowGetOutput(conf, self)} : Deliver(output)

NestLoopResult ==
  /\ conf.kind = "nestloop" /\ ~finished /\ (self.cur # <<>> \/ noMoreInput)
  /\ Deliver(NestLoopGetOutput(conf, self, noMoreInput))

\* The lookup operator, which the operator of the unmatched build rows follows.
HashJoinResult ==
  /\ conf.kind = "hashjoin" /\ ~finished /\ ~self.outer /\ (self.cur # <<>> \/ noMoreInput)
  /\ LET output == HashJoinGetOutput(conf, self, noMoreInput)
         outer  == output.finished /\ conf.join \in {"SAME", "FULL"}
     IN  Deliver([output EXCEPT !.self.outer = outer, !.finished = @ /\ ~outer])

HashOuterResult ==
  /\ conf.kind = "hashjoin" /\ ~finished /\ self.outer
  /\ Deliver(OuterGetOutput(conf, self))

\* A stage hands its row on, or its overflow ends the task.
AggregateStep(row, next) ==
  IF row.value = Throws
  THEN Deliver([self |-> self, batch |-> <<row>>, finished |-> TRUE])
  ELSE Deliver([self |-> next, batch |-> <<>>, finished |-> FALSE])

AggregateSpill ==
  /\ conf.kind = "aggregate" /\ ~finished /\ CanSpill(conf)
  /\ \E stage \in {"partial", "final"} :
       /\ self[stage].here
       /\ LET row == ForSpill(conf, stage = "final", self[stage].state)
          IN  AggregateStep(row, [self EXCEPT ![stage] = Spilled(conf, @, row)])

\* The partial stage's rows go out at its end, or earlier when it grows too large.
AggregateSend ==
  /\ conf.kind = "aggregate" /\ ~finished /\ InUse(self.partial)
  /\ LET row == Output(conf, FALSE, self.partial)
     IN  AggregateStep(row, [self EXCEPT !.partial = NewStage(conf), !.sent = Append(@, row)])

AggregateMerge ==
  /\ conf.kind = "aggregate" /\ ~finished
  /\ \E i \in DOMAIN self.sent :
       Deliver([self |-> [self EXCEPT !.final = Merge(conf, @, self.sent[i]),
                                      !.sent = RemoveAt(@, i)],
                batch |-> <<>>, finished |-> FALSE])

AggregateResult ==
  /\ conf.kind = "aggregate" /\ noMoreInput /\ ~finished
  /\ ~InUse(self.partial) /\ self.sent = <<>>
  /\ Deliver([self |-> self, finished |-> TRUE,
              batch |-> IF InUse(self.final) THEN <<Output(conf, TRUE, self.final)>> ELSE <<>>])

\* A projection of one decimal function, of all its rows, one at a time and as a batch.
ProjectDecimals ==
  /\ conf.kind = "decimal" /\ ~finished
  /\ given' = RowsOf(conf)
  /\ delivered' = [r \in RowsOf(conf) |->
                     [row |-> EvaluateRow(conf, r), batch |-> EvaluateBatch(conf, r)]]
  /\ noMoreInput' = TRUE /\ finished' = TRUE
  /\ UNCHANGED <<conf, self>>

\* A projection of one function on texts, or on dates.
RowForm(c, r) == IF c.op \in DateOps THEN DateRow(c, r) ELSE TextRow(c, r)
BatchForm(c, r) == IF c.op \in DateOps THEN DateBatch(c, r) ELSE TextBatch(c, r)

ProjectTexts ==
  /\ conf.kind = "text" /\ ~finished
  /\ given' = RowsOf(conf)
  /\ delivered' = [r \in RowsOf(conf) |->
                     [form \in conf.forms |-> IF form = "row" THEN RowForm(conf, r)
                                                             ELSE BatchForm(conf, r)]]
  /\ noMoreInput' = TRUE /\ finished' = TRUE
  /\ UNCHANGED <<conf, self>>

\* A batch through a filter and a projection.
EvaluateBatchOfRows ==
  /\ conf.kind = "expression" /\ ~finished
  /\ \E rows \in RowsOf(conf) :
       /\ given' = rows
       /\ delivered' = IF conf.filter = <<>> THEN ProcessProject(conf, rows)
                                             ELSE ProcessFilterAndProject(conf, rows)
  /\ noMoreInput' = TRUE /\ finished' = TRUE
  /\ UNCHANGED <<conf, self>>

\* All input of a sort operator, put in order and handed out.
SortRows ==
  /\ conf.kind = "sort" /\ ~finished
  /\ \E rows \in RowsOf(conf) : given' = rows /\ delivered' = SortOutput(conf, rows)
  /\ noMoreInput' = TRUE /\ finished' = TRUE
  /\ UNCHANGED <<conf, self>>

\* The evaluator is given a batch: texts at addresses and the paths of its literals; a join
\* filter is evaluated without a scope for documents (JsonRowDocumentCacheScope).
JsonBatch ==
  /\ conf.kind = "json" /\ self.batch = <<>>
  /\ \E scoped \in BOOLEAN, context \in conf.contexts,
       texts \in [conf.addresses -> conf.texts], literal \in conf.paths, at \in conf.literals :
       self' = [thread |-> IF scoped THEN BeginBatch(self.thread, context) ELSE self.thread,
                batch  |-> <<[scoped |-> scoped, context |-> context, texts |-> texts,
                              literal |-> literal, literalAt |-> at]>>]
  /\ UNCHANGED <<conf, noMoreInput, finished, given, delivered>>

\* A call for one of its rows, and its answer.
JsonRow ==
  /\ conf.kind = "json" /\ self.batch # <<>>
  /\ \E shape \in conf.shapes, at \in conf.addresses, dynamic \in conf.paths :
       LET batch == self.batch[1]
           path  == IF shape.constant THEN batch.literal ELSE dynamic
           c     == shape @@ [at |-> at, text |-> batch.texts[at], path |-> path.text,
                              pathAt |-> batch.literalAt, meant |-> path, context |-> batch.context]
       IN  \E called \in {JsonCall(self.thread, c)} :
             /\ self' = [self EXCEPT !.thread = called.t]
             /\ delivered' = <<[call |-> c, answer |-> called.answer]>>
  /\ UNCHANGED <<conf, noMoreInput, finished, given>>

JsonBatchEnd ==
  /\ conf.kind = "json" /\ self.batch # <<>>
  /\ self' = [thread |-> IF self.batch[1].scoped
                         THEN EndBatch(self.thread, self.batch[1].context) ELSE self.thread,
              batch  |-> <<>>]
  /\ delivered' = <<>>
  /\ UNCHANGED <<conf, noMoreInput, finished, given>>

\* Nothing more to do: a DistinctLimit that is short of rows does not finish.
Done ==
  /\ noMoreInput
  /\ finished \/ (conf.kind = "distinct" /\ self.rowInfo = <<>>)
  /\ UNCHANGED vars

Next ==
  \/ TopNInput \/ GroupInput \/ DistinctInput \/ WindowInput
  \/ NestLoopBuildInput \/ NestLoopBuilt \/ NestLoopInput
  \/ NoMoreInput
  \/ TopNResult \/ GroupResult \/ DistinctResult \/ WindowResult
  \/ NestLoopResult
  \/ HashJoinBuild \/ HashJoinInput \/ HashJoinResult \/ HashOuterResult
  \/ AggregateInput \/ AggregateAlign \/ AggregateSpill
  \/ AggregateSend \/ AggregateMerge \/ AggregateResult
  \/ ProjectDecimals \/ ProjectTexts \/ EvaluateBatchOfRows \/ SortRows
  \/ JsonBatch \/ JsonRow \/ JsonBatchEnd
  \/ Done

Spec == Init /\ [][Next]_vars
-----------------------------------------------------------------------------
(* What the operators promise.                                             *)

\* A nested loop join has paired each probe row, in the order they came, with the build
\* rows the filter selects, or in an outer join with none; however its output is cut, the
\* probe row at the cut is not paired twice nor left out (nest_loop_join_lookup.cpp:300).
NestLoopIsJoin ==
  conf.kind = "nestloop" =>
    \E joined \in {FlattenSeq([i \in DOMAIN given |->
        LET partners == SelectSeq(self.build, LAMBDA b : Selected(conf, given[i], b))
        IN  IF partners # <<>> THEN [j \in DOMAIN partners |-> [probe |-> given[i],
                                                                 build |-> partners[j]]]
            ELSE IF conf.filter /\ conf.join = "LEFT" THEN <<[probe |-> given[i], build |-> NoRow]>>
            ELSE <<>>])} :
      /\ IsPrefix(delivered, joined)
      /\ self.cur = <<>> => delivered = joined

BuildRowsOf(tables) ==
  UNION {ToSet(FlattenSeq(tables[t].batches)) : t \in DOMAIN tables}

Joined(p, r) ==
  /\ p.key # Null /\ p.key = r.key
  /\ conf.keys = "pair" => p.part = r.part
  /\ PassesFilter(conf, p, r)

\* The columns of a pair in the plan's order, and without a partner nulls in their place.
JoinRow(probe, build) ==
  LET columns == Rotated(conf, probe, build)
  IN  IF conf.outputList = <<>> THEN columns ELSE [i \in 1 .. 3 |-> columns[conf.outputList[i]]]

HashAnswer(builds) ==
  LET Columns(p)  == <<p.id, p.key>>
      Partners(p) == {r \in builds : Joined(p, r)}
      probes      == ToSet(given)
      matched     == {p \in probes : Partners(p) # {}}
      pairs == UNION {{JoinRow(Columns(p), <<r.id>>) : r \in Partners(p)} : p \in probes}
      probesAlone == {JoinRow(Columns(p), <<Null>>) : p \in probes \ matched}
      buildsAlone == {JoinRow(<<Null, Null>>, <<r.id>>) :
                        r \in {b \in builds : \A p \in probes : ~Joined(p, b)}}
  IN  CASE conf.join = "INNER"     -> pairs
        [] conf.join = "OPPOSITE"  -> pairs \union probesAlone
        [] conf.join = "SAME"      -> pairs \union buildsAlone
        [] conf.join = "FULL"      -> pairs \union probesAlone \union buildsAlone
        [] conf.join = "LEFT_SEMI" -> {Columns(p) : p \in matched}
        [] conf.join = "LEFT_ANTI" -> {Columns(p) : p \in probes \ matched}
        [] conf.join = "EXISTENCE" -> {Append(Columns(p), p \in matched) : p \in probes}

\* A hash join hands out the pairs of rows with equal keys that pass its filter, each
\* once, and in the joins that keep them the rows of either side without a partner,
\* each once, whatever table was built, however its rows lie in batches, wherever the
\* output is cut and rows are left waiting for the next call (lookup_join.cpp:1037,
\* 1668, 1924); build rows that no probe row met come out only after all probe rows,
\* when no later one can meet them (lookup_outer_join.cpp:128).
HashJoinIsJoin ==
  conf.kind = "hashjoin" /\ self.tables # <<>> =>
    \E answer \in {HashAnswer(BuildRowsOf(self.tables))} :
      /\ Cardinality(ToSet(delivered)) = Len(delivered)
      /\ finished => ToSet(delivered) = answer
      /\ ToSet(delivered) \subseteq answer
      /\ self.cur = <<>> /\ conf.join \notin {"SAME", "FULL"} => ToSet(delivered) = answer

\* By the first column in which they differ.
NotAfter(r, s) ==
  \A i \in DOMAIN conf.cols :
    Before(s.keys[i], r.keys[i], conf.cols[i]) =>
      \E j \in 1 .. i - 1 : Before(r.keys[j], s.keys[j], conf.cols[j])

\* A sort hands out every row it was given once, in the order of all its columns, whichever
\* way it takes: the keys and addresses a network moves stay together though each is moved
\* by itself (small_case_sort.h:1344), a partition in place writes over no key it has not
\* read (quick_sort_simd.cpp:168), rows equal in a column are sorted by the next one
\* (pages_index.cpp:981), and each bucket of a radix sort ends in the block it is read from
\* (radix_sort.h:81).
SortIsExact ==
  conf.kind = "sort" /\ finished =>
    /\ Len(delivered) = Len(given)
    /\ \A i \in 1 .. Len(delivered) - 1 : NotAfter(delivered[i], delivered[i + 1])
    /\ IF CanInplaceSort(conf)
       THEN \A r \in ToSet(given) : Len(SelectSeq(delivered, LAMBDA d : d.keys = r.keys)) =
                                     Len(SelectSeq(given, LAMBDA d : d.keys = r.keys))
       ELSE {d.id : d \in ToSet(delivered)} = DOMAIN given

KeysOf(rows) == [i \in DOMAIN rows |-> rows[i].key]

TopNAnswer == SubSeq(InOrder(given, conf), conf.offset + 1, Smaller(conf.limit, Len(given)))

\* The rows a TopN hands out, over however many batches, are rows it was given, each
\* once, and have the keys of rows offset + 1 .. limit of the whole input in order,
\* although the operator never holds more than `limit` rows (topn.cpp:110, 258).
TopNIsExact ==
  conf.kind = "topn" =>
    /\ ToSet(delivered) \subseteq ToSet(given)
    /\ \A i, j \in DOMAIN delivered : i # j => delivered[i] # delivered[j]
    /\ IsPrefix(KeysOf(delivered), KeysOf(TopNAnswer))
    /\ finished => Len(delivered) = Len(TopNAnswer)

RowsOfPart(rows, part) == SelectSeq(rows, LAMBDA r : r.part = part)

Rank(rows, row) == 1 + Len(SelectSeq(rows, LAMBDA r : Before(r.key, row.key, conf)))

GroupAnswer(rows) ==
  IF conf.func = "row_number"
  THEN SubSeq(InOrder(rows, conf), 1, Smaller(conf.limit, Len(rows)))
  ELSE SelectSeq(InOrder(rows, conf), LAMBDA r : Rank(rows, r) <= conf.limit)

\* Of every partition the rows come out whose rank (or row number) over all rows of
\* that partition is at most n, in order, equals in the order they arrived: what was
\* dropped when the n-th row moved up would not have come back (topn_sort.cpp:646).
GroupLimitIsExact ==
  conf.kind = "group" /\ finished =>
    /\ Len(delivered) = Len(FlattenSeq([p \in {1, 2} |-> GroupAnswer(RowsOfPart(given, p))]))
    /\ \A p \in {1, 2} : RowsOfPart(delivered, p) = GroupAnswer(RowsOfPart(given, p))

FirstOfTheirKey ==
  SelectSeq(given, LAMBDA r : \A s \in ToSet(given) : s.key = r.key => r.id <= s.id)

\* A DistinctLimit whose output is taken after every input has handed out the first row
\* of every key it has seen, up to the limit, and has finished just when the limit is
\* reached (distinct_limit.cpp:380, 466).
DistinctLimitIsExact ==
  conf.kind = "distinct" /\ self.rowInfo = <<>> =>
    /\ delivered = SubSeq(FirstOfTheirKey, 1, Smaller(conf.limit, Len(FirstOfTheirKey)))
    /\ finished <=> Len(delivered) = conf.limit

\* The rows of a frame, by their positions in the sorted partition: none is taken from
\* outside the partition, and a bound beyond it takes what there is.
InFrame(frame, rows, at, i) ==
  /\ CASE frame.start = "unbounded_preceding" -> TRUE
       [] frame.start = "preceding" -> i >= at - frame.startValue
       [] frame.start = "following" -> i >= at + frame.startValue
       [] frame.type = "range"      -> ~Before(rows[i].key, rows[at].key, conf)
       [] OTHER                     -> i >= at
  /\ CASE frame.end = "unbounded_following" -> TRUE
       [] frame.end = "preceding" -> i <= at - frame.endValue
       [] frame.end = "following" -> i <= at + frame.endValue
       [] frame.type = "range"    -> ~Before(rows[at].key, rows[i].key, conf)
       [] OTHER                   -> i <= at

WindowRow(rows, at) ==
  [row |-> rows[at], rank |-> Rank(rows, rows[at]), number |-> at,
   aggregate |-> LET frame == SelectSeq([i \in DOMAIN rows |-> i],
                                        LAMBDA i : InFrame(conf.frame, rows, at, i))
                 IN  [i \in DOMAIN frame |-> rows[frame[i]].id]]

WindowAnswer ==
  FlattenSeq([p \in {1, 2} |->
    LET rows == InOrder(RowsOfPart(given, p), conf)
    IN  [at \in DOMAIN rows |-> WindowRow(rows, at)]])

\* Every row of a window operator comes out with its own columns, its rank and number
\* in its partition, and the aggregate over exactly its frame, whether the accumulator
\* was carried on or reset (window_function.cpp:114), however the output is cut into
\* batches, and whether or not the rows were spilled (window.cpp:563).
WindowIsExact ==
  conf.kind = "window" =>
    /\ IsPrefix(delivered, WindowAnswer)
    /\ finished => delivered = WindowAnswer

CountedKeys == KeysOf(SelectSeq(given, LAMBDA r : Counts(conf, r)))

SumOver(keys) == FoldLeft(LAMBDA a, b : a + b, 0, keys)

\* Adding the keys in some order and grouping overflows.
MayOverflow(keys) ==
  /\ conf.agg \in {"sum", "sum_varchar", "avg", "avg_varchar", "sum_decimal", "avg_decimal"}
  /\ \E picked \in SUBSET DOMAIN keys :
       ~Fits(SumOver([i \in DOMAIN keys |-> IF i \in picked THEN keys[i] ELSE 0]))

IsTotal(row, keys) ==
  IF keys = <<>> THEN row.value = Null
  ELSE \/ /\ row.value = IF conf.agg = "sum_flat" THEN Wrapped(SumOver(keys)) ELSE SumOver(keys)
          /\ conf.agg \in {"avg", "avg_varchar", "avg_flat", "avg_decimal"} =>
               row.count = Len(keys)
       \/ row.value = NullOrThrow(conf).value /\ MayOverflow(keys)

IsLeast(row, keys) ==
  IF keys = <<>> THEN row.value = Null
  ELSE /\ row.value \in ToSet(keys)
       /\ \A key \in ToSet(keys) : IF conf.agg = "max" THEN key <= row.value ELSE row.value <= key

IsOneOf(row, keys) ==
  LET candidates == ToSet(keys) \ (IF conf.agg = "first" THEN {} ELSE {Null})
  IN  row.value \in IF candidates = {} THEN {Null} ELSE candidates

\* What the two stages of an aggregation make of a group is what its definition makes of
\* all its rows that count: however the rows are split into partial results, whichever
\* of them are passed on unaggregated, in whatever order they are merged and however
\* often a stage spills, no row is lost or added twice, no group without a value gets
\* one, and an overflow is reported, never a number that wrapped (sum_aggregator.h:13).
AggregateIsExact ==
  conf.kind = "aggregate" /\ finished =>
    IF given = <<>> THEN delivered = <<>>
    ELSE /\ Len(delivered) = 1
         /\ CASE conf.agg \in {"count", "count_all"} -> delivered[1].value = Len(CountedKeys)
              [] conf.agg \in {"min", "max", "min_text"} -> IsLeast(delivered[1], CountedKeys)
              [] conf.agg \in {"first", "first_ignore_null"} ->
                   IsOneOf(delivered[1], CountedKeys)
              [] OTHER -> IsTotal(delivered[1], CountedKeys)

Nearest(n, d) ==
  LET q == Abs(n) \div Abs(d) + IF 2 * (Abs(n) % Abs(d)) < Abs(d) THEN 0 ELSE 1
  IN  SignOf(n) * SignOf(d) * q

\* n / d with k more places.
Places(n, d, k) == IF k < 0 THEN Nearest(n, d * 10^(-k)) ELSE Nearest(n * 10^k, d)

AtOneScale(n, scale) == n * 10^(Larger(conf.xs, conf.ys) - scale)

\* The result of the function, in units of its last place.
ExactDecimal(r) ==
  LET m == Larger(conf.xs, conf.ys)
      x == AtOneScale(r.x, conf.xs)
      y == AtOneScale(r.y, conf.ys)
  IN  CASE conf.op = "add" -> Places(x + y, 1, conf.os - m)
        [] conf.op = "sub" -> Places(x - y, 1, conf.os - m)
        [] conf.op = "mul" -> Places(r.x * r.y, 1, conf.os - conf.xs - conf.ys)
        [] conf.op = "div" -> Places(r.x, r.y, conf.os - conf.xs + conf.ys)
        [] conf.op = "mod" -> Places(SignOf(x) * (Abs(x) % Abs(y)), 1, conf.os - m)
        [] conf.op = "compare"  -> SignOf(x - y)
        [] conf.op = "greatest" -> Places(Larger(x, y), 1, conf.os - m)
        [] conf.op = "round" ->
             IF conf.xs <= r.y THEN r.x ELSE Nearest(r.x, 10^(conf.xs - r.y)) * 10^Larger(0, -r.y)
        [] conf.op = "make" -> r.x

MostOf(c) == IF Working(c) = 64 THEN Int64Max ELSE Decimal128Max

\* A number on the way has too many digits: the operands at one scale, or a product.
TooManyDigits(r) ==
  CASE conf.op \in {"add", "sub"} ->
         \E n \in {AtOneScale(r.x, conf.xs), AtOneScale(r.x, conf.xs) + AtOneScale(r.y, conf.ys),
                   AtOneScale(r.x, conf.xs) - AtOneScale(r.y, conf.ys)} : Abs(n) > MostOf(conf)
    [] conf.op = "mul" -> Abs(r.x * r.y) > MostOf(conf)
    [] OTHER           -> FALSE

NoDivisor(r) == conf.op \in {"div", "mod"} /\ r.y = 0

\* Where the operands, or the quotient of a rounded dividend, are rounded before the result.
RoundedTwice ==
  \/ conf.op \in {"add", "sub"} /\ conf.mode # "not" /\ 2 * Larger(conf.xs, conf.ys) > MAX_SCALE
  \/ conf.op = "div" /\ conf.os - conf.xs + conf.ys < 0

Permitted(r, o) ==
  IF r.null THEN o = ANull
  ELSE IF o.null \/ o.err
  THEN /\ o.null <=> conf.mode = "null"
       /\ NoDivisor(r) \/ TooManyDigits(r) \/ Abs(ExactDecimal(r)) >= 10^conf.prec
  ELSE /\ ~NoDivisor(r)
       /\ Abs(o.val - ExactDecimal(r)) <= IF RoundedTwice THEN 1 ELSE 0
       /\ conf.op # "compare" => Abs(o.val) < 10^conf.prec

\* A function of decimals gives, whichever of its many forms computes it and in a row or
\* in a batch alike, the exact result rounded half up at the scale of its type; it fails
\* (an error or a null) only without a divisor or when the result or a number on the way
\* has too many digits, and never hands out a number that wrapped or lost its sign, nor
\* the data of a null row (decimal_operations.h:608, decimal_arithmetic_functions.cpp:200).
DecimalIsExact ==
  conf.kind = "decimal" /\ finished =>
    \A r \in given :
      /\ delivered[r].row = delivered[r].batch
      /\ Permitted(r, delivered[r].row)

MeantByCall(c, r) == IF c.op \in DateOps THEN AnswerOfDate(c, r) ELSE AnswerOfText(c, r)

\* A function on texts gives what it means in whole characters, wherever they lie in the
\* words of eight and four bytes that are looked at, for places before the beginning and
\* after the end, empty texts and nulls, and the same in a row and in a batch
\* (utf8_util.h:24, stringfunctions.h:281, string_util.h:236).
TextIsExact ==
  conf.kind = "text" /\ finished =>
    \A r \in given, form \in conf.forms : delivered[r][form] = MeantByCall(conf, r)

\* What a call means: the members the keys lead to in the document of its text.
RECURSIVE Member(_, _)
Member(doc, keys) ==
  IF keys = <<>> THEN <<doc>>
  ELSE IF keys[1] \in DOMAIN doc.at THEN Member(doc.at[keys[1]], Tail(keys)) ELSE <<>>

ParsedOrRepaired(text) == IF Parsed(text) # <<>> THEN Parsed(text) ELSE Parsed(Repaired(text))

\* No document, no such member (or a null), a member, in an array where that is asked for.
MeantBy(c, doc) ==
  LET found == Member(doc, c.meant.keys)
      shown == IF c.wrapper = 2 \/ (c.wrapper = 1 /\ found[1].kind # "array")
               THEN Doc("array", "", <<"0">> :> found[1]) ELSE found[1]
  IN  IF c.fn # "query"
      THEN IF found = <<>> \/ found[1].kind # "scalar" THEN OnEmpty(c) ELSE Answer(<<found[1].text>>)
      ELSE CASE found = <<>> -> QueryBehavior(IF c.meant.mode = "strict" THEN c.error ELSE c.empty)
             [] found # <<>> /\ c.wrapper \notin 0 .. 2 -> QueryBehavior(c.error)
             [] found # <<>> /\ c.wrapper \in 0 .. 2 /\ shown.kind = "null" ->
                  QueryBehavior(c.empty)
             [] found # <<>> /\ c.wrapper \in 0 .. 2 /\ shown.kind = "scalar" ->
                  QueryBehavior(IF c.meant.mode = "strict" THEN c.error ELSE c.empty)
             [] OTHER -> Answer(<<shown>>)

AnswerMeant(c) ==
  CASE c.null -> IF c.fn = "query" THEN NullAnswer ELSE OnError(c)
    [] ~c.null /\ ParsedOrRepaired(c.text) = <<>> ->
         IF c.fn = "query" THEN QueryBehavior(c.error) ELSE OnError(c)
    [] OTHER -> MeantBy(c, ParsedOrRepaired(c.text)[1])

\* Whatever a thread has answered before, for whichever batches, behaviours and literals,
\* JSON_VALUE and JSON_QUERY answer as if nothing were kept: no answer for another text,
\* path or behaviour, no document of a text that lay at the address before, no path of a
\* literal that did (stringfunctions.cpp:493, 748).
JsonIsFresh ==
  conf.kind = "json" /\ delivered # <<>> =>
    delivered[1].answer = AnswerMeant(delivered[1].call)

\* What a thread keeps stays within its limits, however many calls there are, and the
\* bytes it counts are those of the documents it holds (stringfunctions.cpp:444).
JsonIsBounded ==
  conf.kind = "json" =>
    LET t == self.thread
    IN  /\ Len(t.values) <= ResultSize /\ Len(t.queries) <= ResultSize
        /\ Cardinality(DOMAIN t.valuePaths) <= PathCapacity
        /\ Cardinality(DOMAIN t.queryPaths) <= PathCapacity
        /\ Cardinality(DOMAIN t.documents) <= MaxDocuments
        /\ t.cachedInputBytes <= MaxInputBytes
        /\ t.cachedInputBytes = FoldFunction(LAMBDA n, m : n + m, 0,
                                             [k \in DOMAIN t.documents |-> k[2]])

Unknown == <<>>
Known(v) == <<v>>

\* What an expression means for a row: a value, or none where it is null.
RECURSIVE Meaning(_, _)
Meaning(e, row) ==
  LET a == [i \in DOMAIN e.args |-> Meaning(e.args[i], row)]
      ComparedTo(op, x, y) ==
        IF x = Unknown \/ y = Unknown THEN Unknown ELSE Known(Compares(op, x[1], y[1]))
      Both(x, y) == IF Known(FALSE) \in {x, y} THEN Known(FALSE)
                    ELSE IF Unknown \in {x, y} THEN Unknown ELSE Known(TRUE)
      Negated(x) == IF x = Unknown THEN Unknown ELSE Known(~x[1])
      Either(x, y) == Negated(Both(Negated(x), Negated(y)))
      Cases[i \in 1 .. Len(a)] ==
        IF i = Len(a) THEN a[i] ELSE IF a[i] = Known(TRUE) THEN a[i + 1] ELSE Cases[i + 2]
  IN  CASE e.op = "field"   -> IF row[e.col].null THEN Unknown ELSE Known(row[e.col].data)
        [] e.op = "literal" -> IF e.value.null THEN Unknown ELSE Known(e.value.data)
        [] e.op = "not"     -> Negated(a[1])
        [] e.op = "and"     -> Both(a[1], a[2])
        [] e.op = "or"      -> Either(a[1], a[2])
        [] e.op = "isnull"  -> Known(a[1] = Unknown)
        [] e.op \in {"if", "switch"} -> Cases[1]
        [] e.op = "coalesce" -> IF a[1] = Unknown THEN a[2] ELSE a[1]
        [] e.op = "between" -> Both(ComparedTo("ge", a[1], a[2]), ComparedTo("le", a[1], a[3]))
        [] e.op = "in"      -> FoldLeft(LAMBDA found, x : Either(found, ComparedTo("eq", a[1], x)),
                                        Known(FALSE), Tail(a))
        [] e.op \in Comparisons -> ComparedTo(e.op, a[1], a[2])
        [] a[1] = Unknown \/ a[2] = Unknown -> Unknown
        [] e.op \in {"div", "mod"} /\ a[2][1] = 0 -> Unknown
        [] OTHER ->
             LET n == Computed(e.op, a[1][1], a[2][1])
             IN  IF n \in -Int64Max - 1 .. Int64Max \/ e.op \in {"add", "sub", "mul", "div", "mod"}
                 THEN Known(Int64(n)) ELSE Unknown

\* Somewhere in the expression a number is divided by zero.
RECURSIVE DividesByZero(_, _)
DividesByZero(e, row) ==
  \/ \E i \in DOMAIN e.args : DividesByZero(e.args[i], row)
  \/ /\ e.op \in {"div", "mod"}
     /\ Meaning(e.args[1], row) # Unknown /\ Meaning(e.args[2], row) = Known(0)

\* A filter selects the rows for which its condition is true, neither false nor null,
\* and a projection gives their values, a null exactly where SQL has one, although the
\* code computes with whatever lies under a null; a row without a divisor gives a null,
\* a batch fails, and it fails only for the rows that are evaluated
\* (batch_utilfunctions.cpp:141, expression_codegen.cpp:258).
ExpressionIsExact ==
  conf.kind = "expression" /\ finished =>
    LET selected == IF conf.filter = <<>> THEN given
                    ELSE SelectSeq(given, LAMBDA r : Meaning(conf.filter[1], r) = Known(TRUE))
    IN  IF delivered.throws
        THEN /\ conf.batch
             /\ \/ conf.filter # <<>> /\ \E r \in ToSet(given) : DividesByZero(conf.filter[1], r)
                \/ \E r \in ToSet(selected) : DividesByZero(conf.project, r)
        ELSE delivered.rows = [i \in DOMAIN selected |-> Meaning(conf.project, selected[i])]
=============================================================================
