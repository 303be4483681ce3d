--------------------------- MODULE HashAggregation ---------------------------
(***************************************************************************)
(* HashAggregationOperator with one grouping column of an integer type     *)
(* (src/core/src/operator/aggregation/group_aggregation.cpp).  Its groups  *)
(* are in an array indexed by the key, as long as VectorAnalyzer finds the *)
(* keys close to each other, then in a hash map (module KeyMap), and, when *)
(* memory is short, in files of sorted groups that are merged at the end.  *)
(*                                                                         *)
(* A row is its key and a number that makes it unique; the state of a      *)
(* group is the sequence of the rows aggregated into it, so that a row     *)
(* that is lost, or counted twice, shows.  The types are scaled down: the  *)
(* column has the values TMin .. TMax, an int64 is WMin .. WMax.           *)
(*                                                                         *)
(* An action is a call of AddInput or GetOutput, or one row of the merge   *)
(* inside GetOutput.  Writing a run is one step that succeeds: its         *)
(* failures are in module SpillSort.                                       *)
(***************************************************************************)
EXTENDS SpillMerger, Sums

CONSTANTS
  TMin, TMax, WMin, WMax,
  Keys,             \* the keys of the rows, among them Null
  Null,
  FixedMap,         \* a map for this type: not for OMNI_BYTE, which is serialized
  HasAgg,           \* aggregators, or only grouping
  ArrayRule,        \* AggHashTableRule::ARRAY
  RangeUpperBound,  \* RANGE_UPPER_BOUND
  Reserve,          \* the least reserve of the array, 50
  Lanes, LaneMod,   \* the rows in a SIMD block and the modulus of its lanes
  StoiMax,          \* the largest int, as std::stoi reads it
  RowsPerBatch,     \* rowsPerBatch
  SpillRows,        \* Spiller::maxRowCountPerBatch
  UnspillRows,      \* UNSPILL_ROW_COUNT_ONE_BATCH
  MaxRows,          \* bound: rows given to the operator
  BatchRows         \* bound: rows in one input batch

ASSUME TypesAssumption ==
  /\ {TMin, TMax, WMin, WMax} \subseteq Int
  /\ WMin <= TMin /\ TMin < 0 /\ 0 < TMax /\ TMax <= WMax
  /\ Keys \ {Null} \subseteq TMin .. TMax

ASSUME BoundsAssumption ==
  /\ {FixedMap, HasAgg, ArrayRule} \subseteq BOOLEAN
  /\ {RangeUpperBound, Reserve, Lanes, LaneMod, StoiMax, RowsPerBatch, SpillRows, UnspillRows,
      MaxRows, BatchRows} \subseteq Nat \ {0}

VARIABLES
  pc,            \* "idle" between calls, "merge" inside GetOutput, "failed" after a throw
  noMoreInput, finished,
  given,         \* the rows of all inputs
  delivered,     \* the groups handed out
  arrayMode,     \* VectorAnalyzer::hashMode
  range,         \* VectorAnalyzer::groupbyColsRange
  table,         \* arrayTable: its size and its assigned slots, NoTable if there is none
  resized,       \* resizeArrayMapCnt
  map,           \* the hash map: the state of each key
  outputted,     \* outputState.hasBeenOutputNum
  files,         \* the spilled runs
  streams, tree, \* of spillMerger, none before the first GetOutput
  wanted,        \* rows of the output batch
  result,        \* groups in the output batch
  unspilled,     \* unspillRows: merged rows not yet aggregated, with their group
  nextKeyIsNew,
  spillRowOffset

inVars    == <<noMoreInput, given>>
tableVars == <<arrayMode, range, table, resized>>
mergeVars == <<wanted, result, unspilled, nextKeyIsNew, spillRowOffset>>
vars == <<pc, inVars, finished, delivered, tableVars, map, outputted, files, streams, tree,
          mergeVars>>

NoTable  == [size |-> -1, slots |-> <<>>]
NoRange  == [init |-> FALSE, min |-> WMax, max |-> WMin]
EmptyMap == <<>>
Word     == WMax - WMin + 1

Init ==
  /\ pc = "idle" /\ noMoreInput = FALSE /\ finished = FALSE
  /\ given = <<>> /\ delivered = <<>>
  /\ arrayMode = TRUE /\ range = NoRange /\ table = NoTable /\ resized = 0
  /\ map = EmptyMap /\ outputted = 0
  /\ files = <<>> /\ streams = <<>> /\ tree = NewTree(1)
  /\ wanted = 0 /\ result = <<>> /\ unspilled = <<>> /\ nextKeyIsNew = TRUE
  /\ spillRowOffset = 0

\* Without aggregators a group has no state, only a key.
StateOf(ids) == IF HasAgg THEN ids ELSE <<>>

\* Rows are aggregated into the group at key k, or slot k, a new one if there is none.
Aggregate(groups, k, rows) ==
  [j \in DOMAIN groups \cup {k} |->
     IF j # k THEN groups[j] ELSE IF k \in DOMAIN groups THEN groups[k] \o rows ELSE rows]

\* One after the other, rows[i] into the group at ks[i].
Aggregated(groups, ks, rows) ==
  FoldLeft(LAMBDA gs, i : Aggregate(gs, ks[i], rows[i]), groups, [i \in DOMAIN ks |-> i])

\* The rows of a batch, of which the first comes after so many others.
StatesOf(keys, first) == [i \in DOMAIN keys |-> StateOf(<<first + i>>)]

\* The elements of a set by their ranks.
InOrder(S, rank) ==
  [i \in 1 .. Cardinality(S) |->
     CHOOSE x \in S : Cardinality({y \in S : rank[y] < rank[x]}) = i - 1]

-----------------------------------------------------------------------------
(* VectorAnalyzer.                                                         *)

\* The size of the array.
GetRange(r) == (r.max - r.min + 2) % Word

Larger(a, b) == IF a > b THEN a ELSE b
Smallest(S) == CHOOSE x \in S : \A y \in S : x <= y
Greatest(S) == CHOOSE x \in S : \A y \in S : x >= y

\* The least and the greatest key of a batch; with nulls in it, of the batch and
\* of the range so far.
BatchRange(keys) ==
  LET values == ToSet(keys) \ {Null}
      With(limit) == IF Null \in ToSet(keys) THEN values \cup {limit} ELSE values
  IN  [min |-> Smallest(With(range.min)), max |-> Greatest(With(range.max))]

\* CheckArrayMap: whether the array serves for this batch, the new range and
\* whether it has changed.  A limit of the range that must still move is never the
\* limit of the type.
CheckArrayMap(keys) ==
  LET b        == BatchRange(keys)
      close    == b.min <= b.max /\ b.max - b.min <= WMax /\ b.max - b.min <= RangeUpperBound - 2
      reserve  == Larger(Reserve, b.max - b.min)
      moveMax  == ~range.init \/ range.max < b.max
      moveMin  == ~range.init \/ range.min > b.min
      new      == [init |-> TRUE,
                   max  |-> IF ~moveMax THEN range.max
                            ELSE IF b.max <= TMax - reserve THEN b.max + reserve ELSE TMax,
                   min  |-> IF ~moveMin THEN range.min
                            ELSE IF b.min >= TMin + reserve THEN b.min - reserve ELSE TMin]
  IN  IF ~close THEN [array |-> FALSE, range |-> range, changed |-> FALSE]
      ELSE [array |-> GetRange(new) <= RangeUpperBound, range |-> new,
            changed |-> moveMax \/ moveMin]

\* DecideHashMode: once it is normal it stays so.
DecideHashMode(keys, dictionary) ==
  IF ~arrayMode \/ ~ArrayRule \/ dictionary
  THEN [array |-> FALSE, range |-> range, changed |-> FALSE]
  ELSE CheckArrayMap(keys)

-----------------------------------------------------------------------------
(* The array.                                                              *)

\* ResizeArrayMap.  Slot 0 is that of null.  Copying fails when the new array is the
\* smaller one.
Resized(t, oldMin, newRange) ==
  LET offset == oldMin - newRange.min
      place(i) == IF i = 0 THEN 0 ELSE i + offset
      moved == {place(i) : i \in DOMAIN t.slots}
  IN  [size |-> GetRange(newRange),
       slots |-> [j \in moved |-> t.slots[CHOOSE i \in DOMAIN t.slots : place(i) = j]]]

ResizeFails(t, newRange) == GetRange(newRange) - 1 < t.size - 1 \/ GetRange(newRange) <= 1

\* ComputeKey in 64 bits, and ComputeHashSIMD in the unsigned type of the column
\* for the rows of whole blocks, when there are aggregators.
SlotOf(keys, i, min) ==
  IF keys[i] = Null THEN 0
  ELSE IF HasAgg /\ i <= (Len(keys) \div Lanes) * Lanes THEN (keys[i] - min + 1) % LaneMod
  ELSE (keys[i] - min + 1) % Word

EmplaceToArrayMap(t, keys, first, min) ==
  [t EXCEPT !.slots = Aggregated(@, [i \in DOMAIN keys |-> SlotOf(keys, i, min)],
                                 StatesOf(keys, first))]

\* The key of a slot.
KeyOf(slot, min) == IF slot = 0 THEN Null ELSE slot + min - 1

\* Mutant: with the range as it is now.
MoveWithNewMin(oldMin, newMin) == newMin

\* MoveEntryArrayTableToHashMap is given the least key before this batch.
MinOfTable(oldMin, newMin) == oldMin

\* MoveEntryArrayTableToHashMap knows only the maps of fixed width.
MovedToMap(t, min) ==
  IF FixedMap
  THEN [k \in {KeyOf(s, min) : s \in DOMAIN t.slots} |->
          t.slots[CHOOSE s \in DOMAIN t.slots : KeyOf(s, min) = k]]
  ELSE EmptyMap

-----------------------------------------------------------------------------
(* AddInput.                                                               *)

\* SpillToDisk: the groups in the order of their keys, null first, in batches.
Rank(k) == IF k = Null THEN 0 ELSE k - TMin + 1

Batches(rows) ==
  [b \in 1 .. (Len(rows) + SpillRows - 1) \div SpillRows |->
     SubSeq(rows, (b - 1) * SpillRows + 1, Least(b * SpillRows, Len(rows)))]

SpillFile(m) ==
  LET keys == InOrder(DOMAIN m, [k \in DOMAIN m |-> Rank(k)])
      rows == [i \in DOMAIN keys |-> [key |-> Rank(keys[i]), group |-> keys[i],
                                      rows |-> m[keys[i]]]]
  IN  [disk |-> Batches(rows), rows |-> Len(rows)]

\* Emplace.
Emplaced(m, keys, first) == Aggregated(m, keys, StatesOf(keys, first))

\* Into the array: a new one, or the one there is, resized at most once.
AddToArray(keys, mode) ==
  LET t == IF table = NoTable THEN [size |-> GetRange(mode.range), slots |-> <<>>]
           ELSE IF mode.changed THEN Resized(table, range.min, mode.range)
           ELSE table
  IN  /\ IF table # NoTable /\ mode.changed /\ ResizeFails(table, mode.range)
         THEN pc' = "failed" /\ UNCHANGED table
         ELSE pc' = pc /\ table' = EmplaceToArrayMap(t, keys, Len(given), mode.range.min)
      /\ resized' = IF table # NoTable /\ mode.changed THEN resized + 1 ELSE resized
      /\ arrayMode' = TRUE
      /\ UNCHANGED <<map, files>>

\* Into the hash map, the groups of the array first.  Whether it spills depends on
\* the memory of the whole process.
AddToMap(keys, mode) ==
  LET old == IF table = NoTable THEN map ELSE MovedToMap(table, MinOfTable(range.min, mode.range.min))
      new == Emplaced(old, keys, Len(given))
  IN  /\ arrayMode' = FALSE /\ table' = NoTable
      /\ \/ map' = new /\ UNCHANGED files
         \/ map' = EmptyMap /\ files' = Append(files, SpillFile(new))
      /\ UNCHANGED <<pc, resized>>

AddInput ==
  /\ pc = "idle" /\ ~noMoreInput
  /\ \E keys \in UNION {[1 .. n -> Keys] : n \in 1 .. BatchRows}, dictionary \in BOOLEAN :
       LET mode == DecideHashMode(keys, dictionary)
       IN  /\ Len(given) + Len(keys) <= MaxRows
           /\ given' = given \o [i \in DOMAIN keys |-> [key |-> keys[i], id |-> Len(given) + i]]
           /\ range' = mode.range
           /\ IF mode.array /\ ~(table # NoTable /\ mode.changed /\ resized >= 1)
              THEN AddToArray(keys, mode)
              ELSE AddToMap(keys, mode)
  /\ UNCHANGED <<noMoreInput, finished, delivered, outputted, streams, tree, mergeVars>>

NoMoreInput ==
  /\ pc = "idle" /\ ~noMoreInput /\ noMoreInput' = TRUE
  /\ UNCHANGED <<pc, given, finished, delivered, tableVars, map, outputted, files, streams,
                 tree, mergeVars>>

-----------------------------------------------------------------------------
(* GetOutput: nothing without input, after which the operator with           *)
(* expressions has finished.                                                *)

hasSpill == files # <<>>
Output   == pc = "idle" /\ noMoreInput /\ ~finished

NoInput ==
  /\ Output /\ given = <<>>
  /\ finished' = TRUE
  /\ UNCHANGED <<pc, inVars, delivered, tableVars, map, outputted, files, streams, tree,
                 mergeVars>>

\* The groups in memory, in the order they are walked in.
Group(k, ids) == [key |-> k, rows |-> ids]
InMemory ==
  IF arrayMode
  THEN LET walk == InOrder(DOMAIN table.slots, [slot \in DOMAIN table.slots |-> slot])
       IN  [i \in DOMAIN walk |-> Group(KeyOf(walk[i], range.min), table.slots[walk[i]])]
  ELSE LET walk == SetToSeq(DOMAIN map)
       IN  [i \in DOMAIN walk |-> Group(walk[i], map[walk[i]])]

\* Output without spill: the next groups.
OutputFromMemory ==
  LET n == Least(RowsPerBatch, Len(InMemory) - outputted)
  IN  /\ Output /\ given # <<>> /\ ~hasSpill
      /\ delivered' = delivered \o SubSeq(InMemory, outputted + 1, outputted + n)
      /\ outputted' = outputted + n
      /\ finished' = (outputted' = Len(InMemory))
      /\ UNCHANGED <<pc, inVars, tableVars, map, files, streams, tree, mergeVars>>

\* Mutant: a file counts for a row more than it has.
OneRowMore(fs) == Total([i \in DOMAIN fs |-> fs[i].rows + 1], DOMAIN fs)

\* GetTotalRowCount of the merger.
TotalRows(fs) == Total([i \in DOMAIN fs |-> fs[i].rows], DOMAIN fs)

\* GetOutputFromDisk up to its loop: the first time the groups in memory become
\* the last run, and the merger opens them all.
GetOutputFromDisk ==
  /\ Output /\ hasSpill
  /\ IF streams # <<>> THEN UNCHANGED <<files, map, streams, tree>>
     ELSE /\ files' = IF map = EmptyMap THEN files ELSE Append(files, SpillFile(map))
          /\ map' = EmptyMap
          /\ streams' = [i \in DOMAIN files' |-> ReadVecBatch(NewStream, files'[i])]
          /\ tree' = NewTree(Len(files'))
  /\ wanted' = Least(RowsPerBatch, TotalRows(files') - spillRowOffset)
  /\ pc' = "merge" /\ result' = <<>> /\ unspilled' = <<>> /\ nextKeyIsNew' = TRUE
  /\ UNCHANGED <<inVars, finished, delivered, tableVars, outputted, spillRowOffset>>

\* ProcessGroupUnspill: the rows collected so far go into their groups.
Unspilled(groups, refs) ==
  LET rows == Aggregated([i \in DOMAIN groups |-> groups[i].rows],
                         [r \in DOMAIN refs |-> refs[r].group],
                         [r \in DOMAIN refs |-> streams[refs[r].s + 1].batch[refs[r].at + 1].rows])
  IN  [i \in DOMAIN groups |-> Group(groups[i].key, rows[i])]

\* The batch is returned.
Return(groups) ==
  /\ pc' = "idle"
  /\ delivered' = delivered \o groups
  /\ result' = <<>> /\ unspilled' = <<>>

\* ParseKeyToCols: std::stoi reads neither what is no number nor more than an int.
Unreadable(k) == FixedMap /\ IF k = Null THEN ~HasAgg ELSE k > StoiMax \/ k < -StoiMax - 1

\* Whether the rows collected are aggregated now.
FlushNow(refs, lastRow) == Len(refs) >= UnspillRows \/ lastRow

\* One row of GetOutputFromDiskWithAgg, and of GetOutputFromDiskWithoutAgg, whose
\* groups have nothing to collect.
MergeRow ==
  LET next    == NextWithEqual(Heads(streams), tree, TRUE)
      s       == next.tree.last
      stream  == streams[s + 1]
      row     == stream.batch[stream.at + 1]
      groups  == IF nextKeyIsNew THEN Append(result, Group(row.group, <<>>)) ELSE result
      refs    == Append(unspilled, [s |-> s, at |-> stream.at, group |-> Len(groups)])
      lastRow == IsLastRow(stream)
      full    == ~next.equal /\ Len(groups) >= wanted
  IN  /\ pc = "merge" /\ s # EMPTY
      /\ tree' = next.tree
      /\ IF nextKeyIsNew /\ Unreadable(row.group)
         THEN /\ pc' = "failed"
              /\ UNCHANGED <<delivered, finished, result, unspilled, streams, nextKeyIsNew,
                             spillRowOffset>>
         ELSE /\ IF full THEN Return(Unspilled(groups, refs))
                 ELSE /\ IF FlushNow(refs, lastRow)
                         THEN result' = Unspilled(groups, refs) /\ unspilled' = <<>>
                         ELSE result' = groups /\ unspilled' = refs
                      /\ UNCHANGED <<pc, delivered>>
              /\ nextKeyIsNew' = ~next.equal
              /\ spillRowOffset' = spillRowOffset + 1
              /\ finished' = (full /\ spillRowOffset' = TotalRows(files))
              /\ streams' = [streams EXCEPT ![s + 1] =
                               IF NeedsBatch(stream) THEN ReadVecBatch(stream, files[s + 1])
                                                     ELSE [stream EXCEPT !.at = stream.at + 1]]
      /\ UNCHANGED <<inVars, tableVars, map, outputted, files, wanted>>

\* All streams are at their end: fewer groups than rows were left.
MergeEnds ==
  LET next == NextWithEqual(Heads(streams), tree, TRUE)
  IN  /\ pc = "merge" /\ next.tree.last = EMPTY
      /\ tree' = next.tree
      /\ Return(Unspilled(result, unspilled))
      /\ finished' = (spillRowOffset = TotalRows(files))
      /\ UNCHANGED <<inVars, tableVars, map, outputted, files, streams, wanted, nextKeyIsNew,
                     spillRowOffset>>

GetOutput == NoInput \/ OutputFromMemory \/ GetOutputFromDisk \/ MergeRow \/ MergeEnds
AggNext   == AddInput \/ NoMoreInput \/ GetOutput

Spec == Init /\ [][AggNext]_vars

-----------------------------------------------------------------------------
\* Every group handed out has a key of the input, appears once, and has aggregated
\* all rows with that key, each once, wherever its rows were kept meanwhile: in the
\* array, moved or resized, in the map, in one run or in several; when the operator
\* has finished there is a group for every key.
GroupsAreExact ==
  LET keys == {given[i].key : i \in DOMAIN given}
      out  == {delivered[i].key : i \in DOMAIN delivered}
  IN  /\ out \subseteq keys /\ Cardinality(out) = Len(delivered)
      /\ finished => out = keys
      /\ HasAgg => \A i \in DOMAIN delivered :
           LET ids == delivered[i].rows
           IN  /\ ToSet(ids) = {given[j].id : j \in {n \in DOMAIN given :
                                                       given[n].key = delivered[i].key}}
               /\ Cardinality(ToSet(ids)) = Len(ids)

\* Every call of GetOutput that returns has handed out another group or finished the
\* operator: the driver, which calls it until then, does not go around forever.
CallsMakeProgress ==
  [][pc' = "idle" /\ noMoreInput =>
       finished' \/ Len(delivered') > Len(delivered)]_vars
=============================================================================
