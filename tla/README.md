# OmniOperator: a TLA+ model, its checks and its proofs

OmniOperator is a native engine for the operators of a query: a host (Spark,
Hive, openLooKeng) gives it a plan and iterators over batches of rows, and pulls
batches of the result out of it. This directory models the engine's own logic:
how a plan becomes pipelines of operators, how these are driven, what the
operators do when they are asked, and how memory is accounted for across threads.

## 1. The system

| Part (under `src/core/src`) | State | Operations | Talks to |
|---|---|---|---|
| `compute/task` OmniTask | drivers, factories, statistics | `Next`, destructor | polls drivers |
| `compute/driver` OmniDriver | operators, `finished_`, `shouldStop`, position of the walk | `Next`, `RunInternal`, `close` | calls its operators |
| `compute/local_planner` | none | `plan` | makes drivers and operators of plan nodes |
| `operator/operator.h` | status, `noMoreInput_`, input batch | `IsBlocked`, `needsInput`, `AddInput`, `GetOutput`, `noMoreInput`, `Close` | the interface of all operators |
| `plannode/RowVectorStream.h` ValueStream | finished flag, iterator | `GetOutput` | the host's iterator (callback) |
| `operator/filter`, `operator/projection` | one output slot | AddInput, GetOutput | generated code |
| `operator/limit` | remaining limit and offset, slot | | |
| `operator/expand` | input batch, index of the projection | | |
| `operator/union` | queue, count of sources | also called by the builders of other pipelines | other pipelines |
| `operator/sort`, `topn`, `topnsort`, `window` | collected rows, position of output | | page index, spill |
| `operator/pages_index`, `radix_sort.h`, `simd/func` quick sort | addresses of the rows collected, keys beside them | sort in place, by radix, column by column | sort, window |
| `operator/aggregation` | groups or states, position of output | | hash maps, spill |
| `operator/join` hash join | hash tables, probe position, visited flags | builder and lookup in two pipelines | shared hash table |
| `operator/join/sortmergejoin` | page indexes, positions, flow control code | streamed and buffered table in two pipelines | shared join object |
| `operator/spill` | files, loser tree, byte counters | spill, merge | disk |
| `memory/` | amounts, limits and flags of the global and the threads' managers | report, reclaim, refuse | all threads, atomics |
| `memory/simple_arena_allocator.h`, `chunk`, `memory_pool` | chunks, free position | allocate, reset | allocator |
| `operator/hashmap` | slots | insert, rehash | aggregation, join |
| `codegen`, `expression`, `type`, `vector`, `udf`, `simd`, `util` | | data transformations | |

What is hard here:

- **Protocol.** No operator knows its neighbours. Most have a single slot that
  `AddInput` overwrites without looking; when they may be fed, when their empty
  output means the end and when they are to be told of the end depends on the
  order of the driver's walk, which jumps (`i += 2`), falls off the end, and
  starts over at every end of input. The pipelines of a task depend on each
  other (a table must be built before it is probed) only through `IsBlocked` and
  the order in which the task polls them.
- **Early ends.** A Limit finishes before its input has. The caller may destroy
  the task between any two calls.
- **Ownership.** Batches are raw pointers handed from operator to operator.
- **Threads.** A task runs in one thread. Memory accounting is shared by all
  threads, with relaxed atomics and no locks.

What makes each part correct: the task delivers an answer of the plan, each row
once, then the end; a driver loses nothing that is wanted and reports the end
only when everything is drained; an operator keeps to the driver's contract; the
batches are freed once; the accounted memory is the allocated memory.

## 2. The modules

```
 Query  (what the caller of a task is promised)
   ^ implemented by (run task)
 Task  --EXTENDS--> Operators --EXTENDS--> LocalPlanner        Relational (what a plan means)
   |  ^
   |  +-- EXTENDS -- Task_proofs --EXTENDS--> Foundations_proofs
   v every pipeline implements (run task)
 Driver  <--EXTENDS-- Driver_proofs

 MemoryManager  --EXTENDS--> Sums (of a function over a set)
   ^-- EXTENDS -- MemoryManager_proofs --EXTENDS--> Foundations_proofs

 SpillSort --EXTENDS--> SpillMerger --EXTENDS--> LoserTree
   ^                        ^                       ^
   |                        |                       +-- EXTENDS -- Foundations_proofs
   |                        |                                       (--> Sums)
   +-- EXTENDS -- SpillSort_proofs --EXTENDS--> Foundations_proofs
                            |
 HashAggregation --EXTENDS--+---EXTENDS--> Sums
   |    ^
   |    +-- EXTENDS -- HashAggregation_proofs --EXTENDS--> Foundations_proofs
   | its keys live in a map of the promise
   v
 KeyMap  <--implemented by (proved)-- BaseHashMap --EXTENDS--> HashMapRoom
                                          ^-- EXTENDS -- BaseHashMap_proofs --> Foundations_proofs

 MergeJoin --EXTENDS--> MergeScan
   ^-- EXTENDS -- MergeJoin_proofs --EXTENDS--> Foundations_proofs

 RowOperators --EXTENDS--> Limits, Window, NestLoopJoin, HashJoin (each on RowOrder),
                           Aggregators, Decimals, Expressions,
                           Sorting, JsonFunctions, Texts, Dates
```

**Driver** models one OmniDriver. `cursor` is the loop variable of `RunInternal`
(0 outside a call); one action is one iteration of the loop: `Block`, `Feed`,
`Dry`, `EndOfInput`, `Skip` between two operators, `Deliver`, `SinkDry`,
`Finish` at the last one. `Enter` is a call by the task, `Elsewhere` what other
pipelines do to a blocked operator meanwhile, `Close` the destructor. Operators
are described by kinds, constants that say what they may answer: whether they
keep everything they are given (`Buffers`, `Breakers`), decline input
(`Choosy`), finish early (`Stoppers`), produce output when told of the end
(`Flushers`), need a second empty output to finish (`Lazy`), or block
(`Blockable`). `pending[k]` counts the batches operator k can still emit. The
streamed table of the merge join is covered by its kinds; its protocol with the
buffered table is module MergeJoin.

**LocalPlanner** has `planDetail`: the pipelines of a plan, in the order the
code makes them; `drivers` is that order reversed, as the task polls them. `IsPlan`
says which plans there are: trees, whose nodes have as many sources as their kind.

**Operators** has the handlers. All operators of a task live in one record, the
store; a handler takes the store and returns the new one. `IsBlocked`,
`needsInput`, `AddInput`, `GetOutput`, `noMoreInput` and `CloseAll` select the
handler of the operator's kind. Rows are numbered, so that every row is
different from every other and a duplicated or lost row shows; batches have
identities, so that a batch that is leaked or freed twice shows. Expressions are
abstracted: a Filter keeps the rows of key 1, an Expand appends the number of its
projection. A `SORT` sorts by key. `INNER` and `LEFT` joins are the
LookupJoinOperator, `FULL` is the LookupJoinWrapper with its outer join. Wrappers
that only project before they delegate (`*_expr.cpp`) are merged with what they
wrap.

**Task** composes them: the polling loop of `OmniTask::Next` (`Call`,
`PollFinished`, `Poll`, `PollAgain`, `ReturnEnd`) around the iterations of
`RunInternal`, as in Driver but with the handlers of Operators; `ReturnNothing` is
both returns of nullptr, that of a blocked driver and that of a finished one. The caller frees
a batch as soon as it gets it (`Deliver`) and may destroy the task between two
calls (`Close`).

**Query** and **Relational** are the specification: the set of admissible answers of a
plan, computed from the plan and the inputs without pipelines or batches, and
the promise that the rows delivered are always part of one of them, never twice,
and all of one at the end. A Limit has several admissible answers.

**MemoryManager** models threads that allocate and free through
`ThreadMemoryManager`. Every access to the global manager is a step: `Add` is
the `fetch_add`, `Compare` the comparison with the limit, `Clear` the store of
false, `PassBlocked`/`FindUnblocked` the load of `isBlocked`, `SetBlocked` the
store of true, `Refuse` the `fetch_sub` and the exception, `Sub` SubMemory. A
thread's own manager is private to it, so its update is part of the step that
starts the report. `blocks` are the allocated blocks, which any thread may free.

**LoserTree**, **SpillMerger**, **SpillSort**. LoserTree is the tree as the code keeps
it: an array of losers with the winner at 0 and the flag that says whether the next
row equals the one before. SpillMerger reads runs batch by batch behind it. SpillSort
is the Sort operator from its first input to its close: collecting, deciding to
spill, writing a run through a buffer, the byte tracker, merging, removing the
files; every write can fail and the limit of bytes can be reached at every one. Which of two
rows with equal keys a sort puts first is open in the code; the model takes the one given first.
A limit of one row per output batch or less is replaced by a fallback (`Chunk`, `FallbackRows`).

**KeyMap**, **BaseHashMap**, **HashMapRoom**. KeyMap is the promise: a map that keeps
what was put, and a walk that gives each key once. BaseHashMap is open addressing
with windows of `Width` slots that do not wrap around, probed with a second hash
until all windows have been seen, and growth that moves keys in the order of the old
slots while others are still to be moved. HashMapRoom states when a probe must find
room, which is what the theorems assume and what the joins' small tables lack.

**HashAggregation** is the grouped aggregation: the array for keys close together
(`VectorAnalyzer`), its one growth, the change to a map, spilling of sorted groups,
and the merge that combines equal keys of several runs. The lanes of the vector
loop, with the unsigned arithmetic of the column's type, are modelled. A group is a key
and the sequence of the rows it has aggregated; `Aggregated` takes rows into groups one
after the other, in the array, in the map and when merged rows are unspilled alike.

**MergeScan**, **MergeJoin**. MergeScan is the scanner of the sort merge join: positions,
saved matches, flow control codes. A loop of the scanner that looks for a row is the least row
behind the position with the property (`StopOf`), which every walk over nulls, equal or smaller rows
uses; a loop whose rounds depend on each other is a function from the number of rounds
to the state after them (`Run`, `FindNextMatchPos`), with more rounds than the rows of both sides
allow (`Rounds`, `Steps`), the last of which change nothing. MergeJoin has the result builder, the output cut after
`maxRowCount` rows and the freeing of batches no later row needs, and puts them
between two drivers that take turns, with
the side effects of `IsBlocked` and the end-of-data batch.

**RowOrder**, **Limits**, **Window**, **NestLoopJoin**, **HashJoin**, **Aggregators**. Operators that keep, number or pair rows. A module has the
fields of its operator as a record, `...AddInput`, and `...GetOutput` which returns the
new fields, a batch and whether the operator has finished. Limits has TopN, GroupLimit,
which is both TopNSort and WindowGroupLimit, as they share their treatment of equal rows,
and DistinctLimit. Window has
the ranking functions and the aggregates over frames, in memory and from spilled
partitions. HashJoin has the builders, array and hash tables, the probe row by row and
in lanes, the output builder with its lane-wise gather, its order of columns and its
chunks, and the operator of the unmatched build rows. Aggregators has the functions
of one group through partial result, schema alignment, spill file and final stage.

**Decimals** is `DecimalOperations` and the functions the generated code calls, for
rows and for batches: rescaling, rounding, overflow flags, division and remainder.
**Expressions** is what code is generated for an expression tree, for rows and for
batches: null flags, short circuits, selection arrays, branches.

**JsonFunctions** is JSON_VALUE and JSON_QUERY with all that a thread keeps between two calls:
the latest answers of either function by document, path and behaviours, moved to the front
when they hit; one latest document; the documents of the batch at hand, found by the address
and length of their text and limited in number and bytes; the paths of literals by address.
Paths are parsed character by character with the code's states; the library that parses
documents is a constant, as is the repair of a text that does not parse.

**Texts** is the other functions on texts, for a row and for a batch: parts by character and
by piece, places, joins with separators, replacement, case, comparison, padding and
truncation to a column's width, patterns. A text is the sequence of its bytes, and the
functions move through it as the code does, by words of eight and four bytes, by the lead
bytes of characters, or byte by byte; what they should give is said in characters. A pattern
is the set of texts it matches, since the library that compiles patterns is not part of the
code.

**Dates** is the calendar of `date32.cpp` and `date_time_utils.h` and the functions on dates and
timestamps: casts from and to texts by the code's loops and tables, truncation by its
March-based years, the checks and formats of timestamps. What the C library does
(`mktime`, `localtime_r`, `strptime`, `strftime`) is external, in the zone GMT+08:00, which has
no summer time. What the functions should give is said by counting the days of the calendar.

**Sorting** is the PagesIndex under the Sort operator: how it chooses between sorting one
column in place, by radix and column by column; nulls set apart; equal rows sorted by the
next column; the quick sorts of decimals and texts; and the vector quick sort with its
sorting networks for small pieces, its samples and pivot, its partition within one array
and what it keeps aside meanwhile. Keys and addresses are moved by separate instructions,
as in the code, and a row is a key with an address, so that an address that leaves its key
shows. A map from position to row stands for both arrays.

**RowOperators** drives one of these at a time: `conf` is what the factory was given,
`given` and `delivered` are what went in and came out. There is a property per
operator that says what must have come out, as a set or an order over `given`.

`MC*` modules instantiate these for TLC. An
operator with the comment "Mutant" is a plausible bug in the definition that
follows it; none is part of the specification.

## 3. The runs

| Run | What it shows | Bounds |
|---|---|---|
| `driver` | `OnlyUnwantedLost`: no single-slot operator is overwritten unless something above has stopped early. `EndMeansDrained`: `noMoreInput` reaches an operator only behind all the data. `NothingLeftBehind`: a finished driver has drained everything. `DriverFinishes`. | six operators, one of each kind; a batch becomes at most two |
| `task` | `ImplementsQuery`: the result is an answer of the plan. `ProbedWhenBuilt`: no join probes an unbuilt table, although the full join's operator does not wait for it. `NoDriverWaits`: with unions and hash joins no driver is ever found blocked, because of the order of the drivers. `FreedExactlyOnce`: whenever the caller stops. `EveryPipelineIsADriver`: each pipeline of each plan, with the operators' handlers, is a behaviour of Driver. `CallReturns`: every `OmniTask::Next` returns | seven plans of four to seven nodes with all operators; every input is empty, one batch, or three batches with an empty one between or at the end; output batches of one row; `MaxOut` 8 is above what one batch can become |
| `memory` | `GlobalIsExact`: accounted plus unreported is allocated plus being allocated. `FirstExcessThrows`: the limit is not reached unnoticed the first time. `TypeOK` with the threshold as bound of what a thread keeps | two threads, blocks of 1 and 2, threshold 1, limit 3 or none, four allocations |
| `spill_sort` | `OutputIsSorted`: the rows in order, each once, from memory and from runs. `OnlyOrphansStay`: nothing is open or on disk when the last row has been handed out; of the files its writers know, a closed operator has left behind those that had no reader when `GetOutput` threw its spiller away (see below), and no other. `ClosesWhatItOpened`: no reader closes a file it has not opened, since no run is empty | six rows of two keys, runs in batches of two rows, a write buffer of three, output batches of three, at most six bytes |
| `hash_map` | `EveryKeyFound`, `ElementsCounted`, `EachKeyOnce` (a walk in pieces gives each key once), `IsKeyMap` | seven keys of four hash values, whose windows overlap or meet the end of the map, of which six may be in it; degree 3 growing to 5, windows of two |
| `hash_agg` | `GroupsAreExact`: every group once with all its rows, whichever of array, map and runs they went through. `CallsMakeProgress`: an output call hands out another group or finishes | five rows, null and three keys of a column of four bits in words of five, arrays of nine slots that grow once, two lanes |
| `merge_join` | `ResultIsJoin`, `NothingFreedIsRead`, `BatchesHaveRoom`, `JoinEnds` | every pair of sorted inputs of up to three rows with nulls and equal keys, cut into batches in every way; batches of two rows, of nine for a filtered left join |
| `rows` | one property per operator: `TopNIsExact`, `GroupLimitIsExact`, `DistinctLimitIsExact`, `WindowIsExact`, `NestLoopIsJoin`, `HashJoinIsJoin`, `AggregateIsExact`, `DecimalIsExact`, `ExpressionIsExact`, `SortIsExact`, `TextIsExact`; `JsonIsFresh`: whatever was asked before, an answer is that of this document, path and behaviour; `JsonIsBounded`: the documents of a batch stay below their limits | three to five rows in every order and every cut into batches; for sorts of one vector column up to sixteen rows in chosen orders; widths and thresholds as below |
| `union_close`, `join_map`, `merge_hang`, `sort_radix` | expected violations, see below | |

The bounds let the interesting cases happen: a pipeline that has every pair of
kinds above one another on some path, batches that turn into none, one and
several, plans in which a join sits in the build side of a union, a Limit below
an outer join and above a union, streams that end in the middle of another's
work. Output batches of one row put a chunk boundary at every row. In `memory`
four allocations are enough for both threads to reach the limit together and for
one more to find the manager blocked. In `hash_map` six keys fill a map of eight slots
beyond its load factor twice. In `merge_join` three rows are a run of two equal keys
with a neighbour, and a batch boundary in the middle of the run. In `hash_agg` the
array of nine slots is left on either side of its range. `MaxOut`, `OutRows`,
`Projections`, `MaxAllocs`, `MaxRows`, `BatchRows`, `BuildRows`, `MaxKeys`, `MaxDegree` and
`MaxSpillBytes` bound what is enumerated.

Constants of the code are made small in proportion: an array table may have one slot
per slot of a hash table (`ARRAY_THRESHOLD`), the lists of a join two rows per
batch (`Batch::MAX_SIZE` 7), two lanes, key columns of four bits. A Decimal64 has one
digit in a word of 7 bits, a Decimal128 four digits in a word of 15, so that 10^1 and
10^4 lie below the words' ends as 10^18 and 10^38 do. Integers of expressions are 7
bits wide. Sums overflow at 3. The sort has vectors of two keys as on NEON, is unrolled once
instead of four times, draws samples of four rows, sorts what is longer than five rows by
partition, and has radix digits of two bits in words of three and four digits; beyond
three rows it sorts by the first digit first. The networks for up to sixteen rows are complete:
the code has the same ones whatever the unrolling. A thread keeps two JSON answers instead of
16, two documents of two bytes in all instead of 4096 of 64 MiB, one path instead of 128.
Texts have up to five characters of one and two bytes, and four texts have eleven to
eighteen bytes, in which characters of two and three bytes lie within a word of eight bytes,
across the end of one and behind the last; lengths and places reach past both ends.
Dates reach from the years -543990 to 544000 instead of -292275055 to 292278994 and lie within
4000000 days instead of 2^31, a second has three milliseconds; days are taken around 1970,
around the ends of cycles of 400 years, and at both ends of the range.

### Inputs the passing run `rows` leaves out, and why

Some inputs make the code do what its comments or SQL do not say, in a way a
configuration of one run cannot separate otherwise. They are left out of
`MCRows`, and the definitions model the code as it is. They were met while modelling:

- **TopNSort and WindowGroupLimit** (`topn_sort.cpp:765`): `GetOutput` sizes its batch
  with the partition that reaches `maxRowCount` and copies only those before it, so
  that rows at the end stay unwritten, and nothing moves if the first partition alone
  is as large. The instance's batches take everything. TopNSort ignores
  `isStrictTopN`, although `OmniTopNSortWithExprOperatorFactory.java:28` gives it a
  meaning. A TopN of limit 0 reads the top of an empty queue.
- **DistinctLimit**: a batch that arrives between the last pick and the next output adds a
  row too many, so the instance takes output after every input; an empty text is taken
  for null. The operator finishes only when its limit is used up.
- **Window**: RANGE frames with offsets are computed as ROWS frames; only frames SQL
  allows are given. Comparison of doubles on the disk path is not modelled.
- **Nested loop join**: without filter every type is a cross join (so the tests want it);
  batches may be larger than `maxRowCount`.
- **Hash join**: `ComputeMultiColKey` (`join_hash_table_variants.cpp:106`) ORs sign-extended
  columns, so that (1, -1) and (2, -1) are one key: later columns are not negative.
  `EmplaceMultiKey` keeps null keys for FULL only: an outer join of the build side has
  none with two key columns. `ConstructExistenceColumn` copies the flags of the whole
  input from its start: the existence join's output is never cut. The lane-wise gather
  looks at the batch's number and not at its partition: it runs with one partition.
  `PopulateProbeHashes` marks no null BYTE key, which several partitions need.
  `LookupOuterJoinOperator` ignores `outputList`, which is therefore given to inner and
  opposite-side joins only. Rows without a key, and some without partner, skip the look at
  the output's size: more rows than `maxRowCount` may wait, which later calls hand out.
  A second outer operator on the same tables would double the shared row count.
- **Aggregators**: a partial result that overflowed under "overflow as null" is lost in the
  final stage of sum, avg and try_sum, against `aggregator.h:89`; only `sum` of Decimal128
  keeps it, and overflow as null is given to that one alone. A Decimal64 sum read back
  from a spill file is unchecked. `first` cannot align its schema, masked and filtered
  counts ignore mask and filter there, min and max of texts point into the reader's
  batch: these are not combined.
- **Decimals**: a second operand whose rescaling overflows is used unflagged, against the
  comment "Avoid intermediate variable overflow"; negative quotients and remainders of
  the mixed-width row functions lose their sign (`decimal_arithmetic_functions.cpp:271`,
  285, 431); a null row of a batch may fail the batch by its leftover data
  (`batch_expression_codegen.cpp:1497` says it must not); rounding by more than 37 places
  gives 0, the row function `RoundDecimal128RetNull` takes 0 places; a remainder by zero
  whose result has a larger scale than the operands is 0 instead of null. Where the
  code rounds twice (the third branch of sums, quotients with a negative factor) the
  property allows one unit in the last place.
- **Sorting**: `SmallCaseSort` pads a piece of nine to sixteen rows with the largest value of
  the type and an address of its own (`small_case_sort.h:54`); in a column that contains this
  value the padding ties with a row. `CanUseRadixSort` asks the page index for dictionaries
  before it has looked for any (`sort.cpp:248`). A LONG column of zeros has radix width 0,
  and the output of the radix sort has no case for arrays. The last bucket of a first digit is
  kept apart from the others (`sort_radix` has it alone). Doubles are not modelled.
- **JsonFunctions**: `Projection::Project` resets the arena after every projection
  (`expr_evaluator.cpp:291`), while the documents found by address live until the last
  projection of the batch (:514): two projections that compute their document, as of
  `concat(a, b)`, may be given the same address and length, against the comment at
  `stringfunctions.cpp:381` that the strings are immutable for a batch. Documents are columns
  here. `JsonValueRetNull` answers the path `$` with a root scalar and
  `JsonValueExtended` takes it for an error (:1366), but both keep their answers under one
  key: which one a caller gets depends on what was asked before. The path `$` is asked in one form.
- **Texts**: `BatchSubstrVarchar` allows a negative start but does not ask, as `SubstrVarchar`
  does (`stringfunctions.h:322`), whether the part ends before the text begins: its length
  comes out negative. `BatchInStr` gives the place of a byte, `InStr` that of a character.
  `BatchStaticInvokeVarcharTypeWriteSideCheck` does not count again after it has cut the spaces
  off (`batch_stringfunctions.cpp:1369`) and fails where the row function succeeds.
  `RegexpExtractRetNull` copies from the match's place in characters, taken as bytes (:188).
  A removal searches on from the cut, so that what it joins may match: `aabb` without `ab` is
  empty. `memcpy_s` fails for an empty destination, so `SubstringIndex` with an empty result,
  and the check of an empty CHAR, fail. These are given to the form that is right, or not at all.
- **Dates**: between the digits of a timestamp `IsTimeValid` (`time_util.h:140`) takes any byte, as
  in `2020x01x01`; texts have dashes and colons there. A row takes years of one to five digits to
  the regular expression of a cast, a batch four, and only a row translates formats like
  `yyyy-MM-dd`. `GetHourFromTimestamp` divides towards zero, so its timestamps are not before
  1970. The first day of a week of the seven earliest days is not representable.
- **Expressions**: in a batch every branch is evaluated for every row, so that a
  division by zero in a branch not taken fails the batch where a row gives null: the
  property states this difference. BETWEEN with a null bound is null where SQL may say
  false. IN of a batch is never null (`batch_utilfunctions.h:159`), which under NOT is
  wrong; a row's is right. Both are left out.

### Fairness

`Task` assumes weak fairness of the steps inside a call, that is of
sequential code, and nothing of the caller, who may stop calling. `Driver` sees
one pipeline of a task, so it assumes in addition that the task goes on polling
it (`Enter`) and that the wait of a blocked operator ends (`Elsewhere`, strong
fairness, because it can end only between two calls of this driver): the loop of
`OmniTask::Next` polls the other pipelines between two polls of this one. That
the waits end is not assumed in `Task`: there `NoDriverWaits` and `CallReturns`
are checked.

### What the code does otherwise than it says

- `union_close`: `UnionOperator::Close` (`operator/union/union.cpp:95`) frees its
  whole vector, although `GetOutput` has handed out the entries before
  `vecBatchIndex` and empties the vector only with the last one. A Limit that
  has enough, or a caller that stops early, leaves the union in that state; the
  batches have been freed by their consumer (as the test in
  `test/compute/UnionTest.cpp` does) and are freed again.
- `join_map`: a probe that runs out of windows returns an occupied slot as a free one
  (`base_hash_map.h:505`), and the new key overwrites the one there. In a join's table
  of 32 slots a probe may see 17, and the table holds up to 24 keys.
- `merge_hang`: a left or anti join whose buffered side has only null keys asks for
  buffered input for ever after that has ended (`sort_merge_join_scanner.cpp:358`); the
  driver loops.
- `sort_radix`: when all rows of a piece have the same first byte `RadixSortMSD`
  (`operator/radix_sort.h`) moves none, and `locations`, which otherwise has been advanced
  to the buckets' ends, still tells their beginnings. The loop that follows (:157) then
  sorts each bucket one turn late and the last one never, although the comment at :143 says
  "sort with remaining bytes" and `test/operator/sort_test.cpp:2979` that the rows come out in
  order. More than 2^20 INTs between 0 and 65535 in descending order stay as they came.

Found in the same way, and kept out of the inputs of the runs instead of given runs of their own:
a SHORT column over all values and a BYTE column in an array, see section 4; the keys of the LONG map are read back from a spilled run with `std::stoi`
(`group_aggregation.cpp:1289`, 1370), and a key beyond an int throws; a negative limit is "unlimited" in `LimitOperator::AddInput` and exhausted in
`GetOutput`; two threads that both load `isBlocked` before either stores it are both
thrown the exception that a comment says only one gets; an allocation that the global
manager refuses stays counted in the thread's manager, which is what the Java binding
returns.

Of the merge join the passing run leaves out: an inner or semi join goes on
comparing a null streamed row by its raw value after the streamed end
(`sort_merge_join_scanner.cpp:484`); a batch without rows in the middle of a stream ends it
(`dynamic_pages_index.cpp:54`; `InputAssumption`), and what follows is not joined; an anti join with filter loses rows
(`sort_merge_join_resultBuilder.cpp:271`); a filtered left or full join can write one row
more than a batch has (:396) and a filtered full join pads once per mismatching pair
(:472).

Spill files that stay (`operator/sort/sort.cpp:341-345`, 350-353): when `GetOutput` cannot write
the last run, or `SpillMerger::Create` cannot open every file, it deletes the spiller, which alone
knows the files, without `RemoveSpillFiles`, and throws. `Close` then finds no spiller, although
the comment there (:167) says that it cleans up after an exception and `spiller.h:120` that "the
spill files should be deleted if there is exception". The files of all runs that have no reader
yet stay in the directory. The run `spill_sort` reaches these states; its property
`OnlyOrphansStay` says exactly which files stay in them, instead of leaving them out, and the theorem
`FilesThatStay` says so for all sizes. A file that `mkstemp` has made but `fchmod` refuses
(`named` is false) is not known to its writer either; of it the property says nothing.

`FreedExactlyOnce` therefore speaks of closes that interrupt no Union and no
Expand (whose `Close` forgets the batch it is expanding), and in which no slot has
been overwritten.

## 4. The proofs

`Driver_proofs` proves the three safety properties of Driver and its type
correctness for every pipeline: any number of operators, any assignment of kinds
that satisfies `KindAssumption` (the ValueStream is of no kind; a buffering
operator neither declines input nor stops early nor is lazy), any `MaxOut`. None
of them is inductive. The invariant `IInv` adds: an operator that has finished
holds nothing (`FinishedIsEmpty`), and has finished for a reason: it is the
stream, it has been told of the end, or it may stop early
(`FinishedForAReason`); who has been told of the end has a finished operator
below (`ToldWhenFinished`, `FinishedBelow`); the operators above the cursor have
been asked on the way down and hold nothing wanted (`PassedAreReady`), which is
what makes it safe to fill their slots; a driver is finished only with its last
operator (`FinishedWithLast`). There is one lemma per action, each with one step
per conjunct. Because of `EveryPipelineIsADriver` the operators of the model keep the
contract on which the proof rests.

`MemoryManager_proofs` proves, for any finite set of threads and any sizes,
threshold and limits, `TypeOK`, `FirstExcessThrows` and `GlobalIsExact`. For the second
the strengthening says that the global flag is set only when an exception has been thrown or is about to
be (`BlockedIsExcused`), so that a thread which passes because of the flag leaves
a witness behind, and that a reclaim is negative (`ReclaimIsNegative`), so that
freeing never reaches the limit. For the third it says that what a thread
has accounted but not yet reported is what it has on the way (`OnTheWay`), thread
by thread, so that the sum over the threads changes by what one of them does, and
the sum over the blocks by one block. `Foundations_proofs` holds what that needs of a sum: that it
does not depend on the order in which the elements are taken, and changes with
one of its terms by as much. These are inductions over the size of a set; the
library's theorems of induction take an operator as a parameter, which the provers
cannot instantiate, and so it proves first that a set of naturals has a
least element and a set of finite sets a smallest one, and each proof
takes a least counterexample.

`BaseHashMap_proofs` proves, for all keys, hash functions, widths, degrees and load
factors for which a probe of a map below its load sees a free slot (the assumption
of HashMapRoom, which TLC evaluates), that every key put is found again
(`KeysAreFound`), that `elementsSize` counts the keys (`ElementsAreCounted`) and that
the map implements KeyMap (`ImplementsKeyMap`). While a map grows, a key is either
where its probe in the new map looks for it, or still among the slots to move, and
neither is disturbed by the move of another: that is the strengthening. It
needs that a probe stops at the first free slot and that keys are only added, never
removed, so that what a probe passed stays full. `WalkGivesEachOnce` is about
the walk in pieces (`EachKeyOnce`): what has been given is the keys of the occupied slots
before the position, in their order, then the null key (`WalkInv`); since no key
is in two slots nothing is given twice, and a walk that has ended has passed
every occupied slot.

`Task_proofs` proves, for every plan that is a tree (`IsPlan`,
which the runs evaluate for their plans), however its unions and joins are nested, every
input and every moment at which the caller stops, that no driver ever finds an operator
blocked (`NoDriverWaits`) and that no join holds a batch before its table is built
(`ProbedWhenBuilt`). Neither is inductive, and neither is true of the operators or of the
loop alone: both rest on the order of the pipelines. Its first part, about LocalPlanner, shows by induction
over the nodes, the last one first, that in the list `planDetail` makes, whatever an operator
takes from its second, third, ... source is built by the last operator of a later pipeline
(`Ordered`); `drivers` reverses that list (`DriversOrdered`). `OrderInv`, which is inductive
and which TLC has checked on the plans of `task` before it was proved, says of Task that all
pipelines before the polled one have finished, that one finishes when its last operator has,
that a builder finishes with `noMoreInput_` seen or its table ready (`BuiltBy`), and that the
number a union still waits for is at most its own source and those whose builder has
not been told of the end (`Counted`). `Emits`, `Accepts` and `Ends` say what `GetOutput`,
`AddInput` and `noMoreInput` of any operator may do to the store, and there is a lemma for the
handler of each kind: so the proof about the loop does not look into the handlers.

`EachBatchFreedOnce` is `FreedExactlyOnce`, for every such plan, every input and every
moment at which the task is destroyed. Its invariant, `LedgerInv`, also checked by TLC
on the plans of `task` first, keeps the books of a task: while it lives, what an operator owns
is alive and is owned by no other (`Ledger`), a slot has at most one batch and a union
always more than it has handed out (`Neat`), nothing has been freed twice, and, unless a slot has
been overwritten, nothing is alive that nobody owns. A batch between two operators is
the second argument of `Ledger`: `GetOutput` of every kind of operator puts it there
(`Hands`), and `AddInput` of the next one, or the caller, takes it out. Then `Close`,
which frees the held sequences of all operators one after the other, frees each batch once,
as these have no batch in common. It also follows that before `Close` no batch is ever freed
twice, whatever was interrupted or overwritten (`NothingFreedTwiceInUse`). The
proof found a fault of the model: `AddInput` of an Expand resets its slot on an
empty batch, too, and may leak the batch it held; the model now counts this among the
overwritten slots, and the plan `FullOverExpand` and a stream that ends with an empty batch
have been added to the run.

`Foundations_proofs` also proves `NextIsLeast`: for any number of streams and any keys, the tree
returns a stream whose row none precedes, and `isEqual` is true exactly when another stream
is at the same key. It shows that a tree of 2n - 1 nodes, laid out as the constructor
does, is one (`InnerNodes`, `PathFacts`: from every leaf the parents lead to the root, and no leaf is below
both children of a node), that `First` leaves in every node the loser of its children's
winners, and that `Propagate`, which replays only the games of the stream that has moved on,
comes to the same as playing all of them anew (`ClimbStepIsRight`). The last is where it could
go wrong: a node keeps the loser and its flag only, and the games off the path are never looked
at again. What it needs is that the winner's leaf lies below every node the winner has won
(`WinOnPath`).

`SpillSort_proofs` proves the three properties of the run `spill_sort`, for any keys, input,
sizes of batches, write buffer and limit, and with every exception the model has. The invariant, `SInv`,
which TLC has checked on that run's states first, speaks of something the program
does not keep: the sorted runs `w`, of which file j holds the j-th one. Every row given is
in memory or in one run, and in one place (`Shared`); the batches on the disk, those in the
buffer and the rows still to be written are the run, in pieces (`Written`); a stream stands at
the row of its run that its batches and offsets say, or at the end with its file removed
(`StreamOK`); the rows delivered, those in the batch at hand and those picked but not
copied yet are those the streams have gone past, and no row behind comes
before them (`OutIs`); and the tree of losers is ready for the heads (`IsReady`). Without the
last, `NextIsLeast` could not be used. A row that is picked but not copied is only a place in
its stream's batch: `OutIs` would be lost when the next batch is read over that one, had the
code not copied the picked rows before. The runs are never empty, which is what
`ClosesWhatItOpened` rests on. For the files
(`Directory`): until `Close`, a known file that waits for its reader is in the directory (`Kept`), and
the spiller or the streams are there to remove it; once `GetOutput` has thrown the spiller away, just the
known files without a reader are (`Orphans`), for good. `OutIs` is enough for `OutputIsSorted` because the beginnings
of two sorts of the same rows have the same keys (`SameKeys`). Once an exception
has been thrown only what has been delivered and the files matter.

`HashAggregation_proofs` proves both properties of the run `hash_agg`, for any keys, input, sizes
of batches, arrays, runs and output. The invariant, `AInv`, checked on the states of that run first,
says where the rows are (`Where`): `h` gives each row its run, or the memory, and `w` is what the runs were
when they were spilled. The groups in the array are those of the rows in memory, each in the
slot of its key (`ArrayHas`), and the range has room for every key given (`Fits`, `Within`); or the
map has them (`MapHas`), and the keys of the map and of the runs together are the keys given; a run has
each of its keys once, in order, with its rows (`IsRun`), and its file has it in pieces. Before
the merge, what is out is the beginning of the walk through memory (`Walked`). In the merge the groups out,
those in the batch at hand and the rows collected for them by reference are exactly the rows the
streams have gone past, the keys to come are greater, and the last group is open as long as some other
stream is at its key (`OutIs`, `OpenAt`).

The steps that need thought are four. When the array grows or becomes a map, the slots are read with
the least key from before, and every key given has a slot of its own (`SlotIs`, `ResizedMoves`,
`ToMapMoves`). When a row is taken, it opens a group exactly if the flag of
the tree was false after the row before: `NextIsLeast` says that the flag is true exactly when another
run is at the same key, and as a run has a key once, then and only then more rows of the group are to
come (`OutGrows`). References to rows are resolved before their stream reads over its batch
(`NeedsBatch` and `IsLastRow` agree, so that `FlushNow` comes first: `RowGoesOut`). And
`spillRowOffset` counts the rows the streams have gone past, so that it reaches the number of rows in the files
exactly when all streams are at their end (`AllMerged`, `NothingLeft`), which `finished` rests on.

The theorems assume `ArraysFit`: if arrays are used, there is a map of fixed width for the type, the SIMD
lanes hold every slot, and an int64 holds three arrays and the reserve. INT, DATE32, LONG, TIMESTAMP and
DECIMAL64 satisfy it (`RANGE_UPPER_BOUND` is 2^21, `vector_analyzer.cpp:11`), and so does the
run. Without it the theorem is false of the model: the lanes of a SHORT have the width of the column, and in an array over all its values the
largest has the slot of null (`group_aggregation.cpp:598`); of a BYTE column, which
`MoveEntryArrayTableToHashMap` does not know, the groups of the array are lost when it becomes a map. With
`ArrayRule` false it holds for every type.

`MergeJoin_proofs` proves `NothingFreedIsRead` and `BatchesHaveRoom` for any sorted inputs, cut into
any batches, any filter, any size of the output's batches and every join but a full one. The builder frees by
the pairs it is given: at the first pair of a new streamed batch it frees all buffered batches before the
one of that pair's row. That is safe only because of what the scanner does, and the invariant (`IInv`, which TLC
has checked for those joins with up to two rows on a side, and three without nulls) says what that is. The rows that have arrived are in
the order of their keys, nulls first, and of their batches (`Ordered`), and what is still to come lies behind them (`InputSorted`). `Sound` says
of the scanner that the matches saved are those of the row they were saved for (`Matched`), and that, where the
key of the matches is met again, the buffered position has gone past them (`Past`); of the pairs it hands over, that they come in
the order of the streamed rows and of the keys (`InTurn`), and that a pair which is not of saved matches is with the
first buffered row of its key, or comes behind another of its group, or is of a streamed batch
for which buffered batches have been freed before (`Lead`); of what was freed, that it lies before every pair
still to be built (`Given`), every saved match (`Unfreed`) and every buffered row with a key
greater than that of the matches (`Lasting`). Every operation of the scanner has a lemma that it keeps
this, the walks by a least counterexample, the rounds of a loop by the least
round after which it fails; then come the four builders, `AddJoin`, `GetOutput`, the
two tables and the steps of the drivers.

Both theorems assume that no query is a full join, whose pairs without a
streamed row need an invariant of their own; the run checks these joins. `BatchesAreFit` also assumes that no left join has a filter. That
is necessary: a streamed row whose matches all fail the filter is padded in the same
turn of the loop in which the next row is written, with room for one.

Only model-checked: the liveness properties; what the rows of a result are, of MergeJoin and the operators
of RowOperators, which reaches recursive operators; the full join's other two properties; the
refinements `ImplementsQuery` and `EveryPipelineIsADriver`.

## 5. Not modelled

- Statistics, logging, futures (which the task never waits for), traces, Java bindings:
  no state that a property speaks of.
- The wrappers of vector instructions (`simd/`, some 17 000 lines in several
  instruction sets, most of it taken over from a library), hash functions and
  compression: pure functions of machine words with one line per instruction. Where their
  use has control (lanes, tails, gathers, networks, partition) it is in HashAggregation,
  HashJoin and Sorting; of the wrappers, those of NEON the sort is made of.
- Generation of LLVM code as such: Expressions and Decimals model what the generated code
  computes. Casts between texts and numbers, md5, json_split, functions on
  floating point numbers, and the parser of plans are transformations of characters or
  roundings that TLC's integers do not reach.
- Vectors as memory: encodings, offsets, null bitmaps, dictionaries. Arenas
  and pools. Grouping. UDFs.
- The path on which an operator throws, in a driver; sharing of a hash table by threads.
- Of the aggregators: deviations, division of averages, rescaling of decimals.
- `MemoryManager::Clear`, peaks and debug scopes.

Join types other than inner, left and full, null keys and filters are modelled in the
operators (MergeJoin, NestLoopJoin, HashJoin) and not in Task. Sort spills in SpillSort
and not in Task. The expression wrappers of operators are merged with what they wrap.

## 6. Plan

1. Vectors: slices, offsets and dictionaries against the rows they stand for; the
   addresses of PagesIndex as packed words.
2. `Arena`: chunks, oversized requests, reset; no two live allocations overlap. With a
   theorem of disjointness.
3. `Failure`: the exception path of a driver, with Close after it, for
   `FreedExactlyOnce`.
4. Casts of decimals.
5. A hash table shared by the drivers of several threads; the remaining join types in Task.
6. Theorems: that the scanner of the merge join visits each pair of equal keys once, and its full
   join; that a GroupLimit keeps the first n of an order, in a module apart from those with
   recursive operators.
