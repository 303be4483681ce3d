------------------------------ MODULE HashJoin ------------------------------
(***************************************************************************)
(* The hash join: the tables the builders make of the build side           *)
(* (join/hash_builder.cpp, join_hash_table_variants.cpp, row_ref.h), the   *)
(* lookup operator that probes them (lookup_join.cpp) and the operator     *)
(* that hands out the build rows no probe row met (lookup_outer_join.cpp). *)
(* A left join that builds its left side, or a right join its right side,  *)
(* is "SAME"; one that builds the other side is "OPPOSITE".                *)
(***************************************************************************)
EXTENDS RowOrder

CONSTANTS
  ArrayThreshold, \* ARRAY_THRESHOLD: how sparse an array table may be
  RefsInBatch,    \* Batch::MAX_SIZE
  ColumnRange,    \* 2 to the number of bits of a key column
  Lanes           \* rows one vector instruction takes

NewHashJoin ==
  [tables |-> <<>>, cur |-> <<>>, position |-> 0, index |-> <<>>, offset |-> 0, count |-> 0,
   exist |-> <<>>, visited |-> {}, outer |-> FALSE, addresses |-> <<>>, outputted |-> 0]

\* The columns of a key side by side in one integer: a negative column covers the ones
\* before it with its sign.
ComputeMultiColKey(columns) ==
  FoldLeft(LAMBDA key, c : IF c < 0 THEN c ELSE key * ColumnRange + c, 0, columns)

KeyOf(conf, row) ==
  IF conf.keys = "pair" THEN ComputeMultiColKey(<<row.part, row.key>>) ELSE row.key

\* Both sides are spread over the tables by the hash of the key.
PartitionOf(conf, row) == IF row.key = Null THEN 1 ELSE 1 + (KeyOf(conf, row) % conf.tables)
-----------------------------------------------------------------------------
(* The tables.                                                             *)

RefsOf(batches) ==
  FlattenSeq([b \in DOMAIN batches |-> [r \in DOMAIN batches[b] |-> [batch |-> b, row |-> r]]])

NeedsNullKeys(conf) ==
  conf.join = "FULL" \/ (conf.join = "SAME" /\ conf.keys # "pair")

\* 2^initDegree, the capacity a hash table of n rows would have.
RECURSIVE PowerFrom(_, _)
PowerFrom(power, n) == IF 3 * power >= 4 * n THEN power ELSE PowerFrom(2 * power, n)

\* TryToBuildArrayTable: keys close together index an array.
IsArray(conf, keys, rows) ==
  /\ conf.keys \in {"int", "byte"} /\ ~conf.dictionary /\ keys # {}
  /\ \A k, l \in keys : k - l <= ArrayThreshold * PowerFrom(1, rows)

RowOf(batches, ref) == batches[ref.batch][ref.row]

\* The rows of every key, in the order they came.
ListsOf(conf, batches) ==
  LET keyed == SelectSeq(RefsOf(batches), LAMBDA r : RowOf(batches, r).key # Null)
      Key(r) == KeyOf(conf, RowOf(batches, r))
  IN  [k \in {Key(r) : r \in ToSet(keyed)} |-> SelectSeq(keyed, LAMBDA r : Key(r) = k)]

\* The rows without a key, where the join hands them out.
NullRefs(conf, batches) ==
  IF NeedsNullKeys(conf)
  THEN SelectSeq(RefsOf(batches), LAMBDA r : RowOf(batches, r).key = Null) ELSE <<>>

\* One partition's table, an array or a hash table.
BuildTable(conf, batches) ==
  LET lists == ListsOf(conf, batches)
  IN  [batches |-> batches, lists |-> lists, nulls |-> NullRefs(conf, batches),
       array |-> IsArray(conf, DOMAIN lists, Len(RefsOf(batches)))]

\* The builders, from their inputs to their end; a batch without rows is dropped.
Built(conf, inputs) ==
  [t \in 1 .. conf.tables |->
     BuildTable(conf, SelectSeq([b \in DOMAIN inputs |->
                                   SelectSeq(inputs[b], LAMBDA r : PartitionOf(conf, r) = t)],
                                LAMBDA batch : batch # <<>>))]

\* The order in which a list gives its rows: the first, then its batches of further
\* rows, the newest first.
Iterated(refs) ==
  IF refs = <<>> THEN <<>>
  ELSE LET further == Tail(refs)
           batches == (Len(further) + RefsInBatch - 1) \div RefsInBatch
       IN  <<refs[1]>> \o FlattenSeq([i \in 1 .. batches |->
             SubSeq(further, (batches - i) * RefsInBatch + 1,
                    Smaller((batches - i + 1) * RefsInBatch, Len(further)))])

Find(conf, table, row) ==
  IF KeyOf(conf, row) \in DOMAIN table.lists THEN table.lists[KeyOf(conf, row)] ELSE <<>>
-----------------------------------------------------------------------------
(* The lookup operator.                                                    *)

\* The join filter of the instances.
PassesFilter(conf, p, r) == conf.filter => p.id <= r.id

CanProbeSIMD(conf, self) ==
  /\ conf.tables = 1 /\ self.tables[1].array /\ conf.keys = "int"
  /\ ~conf.probeDictionary /\ conf.join # "EXISTENCE"

\* What the builder of the output is given for a probe row and its partners.
AppendedRows(conf, p, t, refs) ==
  LET pairs == [i \in DOMAIN refs |-> [probe |-> p, table |-> t, ref |-> refs[i]]]
      alone == <<[probe |-> p, table |-> 0, ref |-> <<>>]>>
  IN  CASE conf.join \in {"INNER", "SAME"}    -> pairs
        [] conf.join \in {"OPPOSITE", "FULL"} -> IF refs = <<>> THEN alone ELSE pairs
        [] conf.join = "LEFT_SEMI"            -> IF refs = <<>> THEN <<>> ELSE <<pairs[1]>>
        [] conf.join = "LEFT_ANTI"            -> IF refs = <<>> THEN alone ELSE <<>>
        [] conf.join = "EXISTENCE"            -> alone

\* An inner join on one integer looks a key up again only when it has changed.
Caches(conf, self) ==
  conf.join = "INNER" /\ conf.keys = "int" /\ ~CanProbeSIMD(conf, self)

\* Rows without a key, and in some joins those without partners, go by without a look at
\* the size of the output; a group of lanes is looked at when it ends.
LooksAtSize(conf, self, p, found) ==
  LET simd == CanProbeSIMD(conf, self)
  IN  IF simd /\ p <= (Len(self.cur) \div Lanes) * Lanes THEN p % Lanes = 0
      ELSE /\ self.cur[p].key # Null
           /\ simd \/ conf.join \notin {"INNER", "LEFT_SEMI"} \/ found # <<>>

\* One row of ProbeBatchFor...Join and ArrayJoinProbe....
ProbeOne(conf, probe) ==
  LET self  == probe.self
      p     == self.position + 1
      row   == self.cur[p]
      t     == PartitionOf(conf, row)
      found == CASE row.key = Null -> <<>>
                 [] Caches(conf, self) /\ probe.cached # <<>> /\ probe.cached[1] = row.key ->
                      probe.cached[2]
                 [] OTHER -> Find(conf, self.tables[t], row)
      refs  == SelectSeq(Iterated(found),
                         LAMBDA r : PassesFilter(conf, row, RowOf(self.tables[t].batches, r)))
      rows  == AppendedRows(conf, p, t, refs)
      count == self.count + Len(rows)
  IN  [self |-> [self EXCEPT
         !.position = p, !.count = count, !.index = @ \o rows,
         !.exist = IF conf.join = "EXISTENCE" THEN Append(@, refs # <<>>) ELSE @,
         !.visited = IF conf.join \in {"SAME", "FULL"} THEN @ \union {<<t, r>> : r \in ToSet(refs)}
                     ELSE @],
       cached |-> IF row.key = Null \/ (probe.cached = <<>> /\ found = <<>>) THEN probe.cached
                  ELSE <<row.key, found>>,
       full |-> LooksAtSize(conf, self, p, found) /\ count >= conf.maxRows]

ProcessProbe(conf, self) ==
  FoldLeft(LAMBDA probe, i : IF probe.full THEN probe ELSE ProbeOne(conf, probe),
           [self |-> self, cached |-> <<>>, full |-> FALSE],
           [i \in 1 .. Len(self.cur) - self.position |-> i]).self
-----------------------------------------------------------------------------
(* The builder of the output.                                              *)

\* Mutant: only the first and the last of the rows are looked at.
ProbeColumnsByEnds(self, rows) ==
  LET At(i) == self.index[self.offset + i].probe
  IN  IF At(rows) # At(1) + rows - 1 THEN [i \in 1 .. rows |-> self.cur[At(i)]]
      ELSE SubSeq(self.cur, At(1), At(1) + rows - 1)
\* Rows of the probe side that follow one another are a slice of the input.
ProbeColumns(self, rows) ==
  LET At(i) == self.index[self.offset + i].probe
  IN  IF \E i \in 2 .. rows : At(i) # At(i - 1) + 1 THEN [i \in 1 .. rows |-> self.cur[At(i)]]
      ELSE SubSeq(self.cur, At(1), At(1) + rows - 1)

\* ConstructBuildColumn: the rows of one batch are gathered `Lanes` at a time.
Gather(self, gathered, e) ==
  LET vector == <<e.table, IF e.table = 0 THEN 0 ELSE e.ref.batch>>
      Of(v, r) == self.tables[v[1]].batches[v[2]][r].id
      flushed == gathered.values \o
                 [j \in DOMAIN gathered.pending |-> Of(gathered.vector, gathered.pending[j])]
      pending == Append(gathered.pending, e.ref.row)
  IN  IF e.table = 0
      THEN [gathered EXCEPT !.values = Append(flushed, Null), !.pending = <<>>]
      ELSE IF e.ref.batch # gathered.batch
      THEN [values |-> flushed, pending |-> <<e.ref.row>>, batch |-> e.ref.batch,
            vector |-> vector]
      ELSE IF Len(pending) < Lanes
      THEN [gathered EXCEPT !.pending = pending, !.vector = vector]
      ELSE [gathered EXCEPT !.pending = <<>>, !.vector = vector,
                            !.values = @ \o [j \in 1 .. Lanes |-> Of(vector, pending[j])]]

BuildColumn(conf, self, entries) ==
  IF ~conf.gathers
  THEN [i \in DOMAIN entries |->
          IF entries[i].table = 0 THEN Null
          ELSE RowOf(self.tables[entries[i].table].batches, entries[i].ref).id]
  ELSE LET last == FoldLeft(LAMBDA g, e : Gather(self, g, e),
                            [values |-> <<>>, pending |-> <<>>, batch |-> 1, vector |-> <<>>],
                            entries)
       IN  last.values \o [j \in DOMAIN last.pending |->
             self.tables[last.vector[1]].batches[last.vector[2]][last.pending[j]].id]

\* A left build side puts its columns first.
Rotated(conf, probeColumns, buildColumns) ==
  IF conf.buildLeft THEN buildColumns \o probeColumns ELSE probeColumns \o buildColumns

\* The columns in the order of the plan, moved in place along the cycles of `list`.
RECURSIVE Cycle(_, _, _, _)
Cycle(columns, list, dst, first) ==
  LET src == list[dst]
      rest == [list EXCEPT ![dst] = dst]
  IN  IF src = first.at
      THEN [columns |-> [columns EXCEPT ![dst] = first.column], list |-> rest]
      ELSE Cycle([columns EXCEPT ![dst] = columns[src]], rest, src, first)

InOutputOrder(conf, columns) ==
  FoldLeft(LAMBDA s, i :
             IF s.list[i] = i THEN s
             ELSE Cycle(s.columns, s.list, i, [at |-> i, column |-> s.columns[i]]),
           [columns |-> columns, list |-> conf.outputList],
           [i \in DOMAIN conf.outputList |-> i]).columns

BuildOutput(conf, self, rows) ==
  LET entries == SubSeq(self.index, self.offset + 1, self.offset + rows)
      probes  == ProbeColumns(self, rows)
      builds  == BuildColumn(conf, self, entries)
  IN  [i \in 1 .. rows |->
         InOutputOrder(conf, Rotated(conf, <<probes[i].id, probes[i].key>>,
           CASE conf.join = "EXISTENCE" -> <<self.exist[i]>>
             [] conf.join \in {"LEFT_SEMI", "LEFT_ANTI"} -> <<>>
             [] OTHER -> <<builds[i]>>))]

\* When the whole batch has been handed out it is freed.
HashJoinChunk(conf, probed, noMore) ==
  LET rows == Smaller(probed.count, conf.maxRows)
      done == probed.position >= Len(probed.cur) /\ probed.count = rows
      next == [probed EXCEPT !.offset = @ + rows, !.count = @ - rows]
  IN  [batch |-> IF rows = 0 THEN <<>> ELSE BuildOutput(conf, probed, rows),
       finished |-> done /\ noMore,
       self |-> IF done THEN [next EXCEPT !.cur = <<>>, !.position = 0, !.index = <<>>,
                                          !.offset = 0, !.count = 0, !.exist = <<>>]
                ELSE next]

HashJoinGetOutput(conf, self, noMore) ==
  IF self.cur = <<>> THEN [self |-> self, batch |-> <<>>, finished |-> noMore]
  ELSE HashJoinChunk(conf, IF self.position < Len(self.cur) THEN ProcessProbe(conf, self)
                           ELSE self, noMore)
-----------------------------------------------------------------------------
(* The build rows no probe row has met.                                    *)

AllRefs(table) ==
  LET ofKeys == FlattenSeq(SetToSeq({Iterated(table.lists[k]) : k \in DOMAIN table.lists}))
  IN  IF table.array THEN ofKeys \o Iterated(table.nulls) ELSE Iterated(table.nulls) \o ofKeys

Unvisited(self) ==
  FlattenSeq([t \in DOMAIN self.tables |->
    LET refs == SelectSeq(AllRefs(self.tables[t]), LAMBDA r : <<t, r>> \notin self.visited)
    IN  [i \in DOMAIN refs |-> <<t, refs[i]>>]])

\* GetOutput of the LookupOuterJoinOperator: it counts the rows, and lists them once.
OuterGetOutput(conf, self) ==
  LET total == FoldLeft(LAMBDA n, table : n + Len(AllRefs(table)), 0, self.tables)
                 - Cardinality(self.visited)
      addresses == IF self.addresses = <<>> THEN Unvisited(self) ELSE self.addresses
      rows == Smaller(conf.maxRows, total - self.outputted)
  IN  IF total <= 0 THEN [self |-> self, batch |-> <<>>, finished |-> TRUE]
      ELSE [self |-> [self EXCEPT !.addresses = addresses, !.outputted = @ + rows],
            batch |-> [i \in 1 .. rows |->
              LET at == addresses[self.outputted + i]
              IN  Rotated(conf, <<Null, Null>>, <<RowOf(self.tables[at[1]].batches, at[2]).id>>)],
            finished |-> self.outputted + rows >= total]
=============================================================================
