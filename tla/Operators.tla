------------------------------ MODULE Operators ------------------------------
(***************************************************************************)
(* The operators of a task (src/core/src/operator): what IsBlocked,        *)
(* needsInput, AddInput, GetOutput, noMoreInput and Close do to the        *)
(* operators' state.  Everything a task owns is one record, the store; a   *)
(* handler takes the store and returns the new one.                        *)
(*                                                                         *)
(* A row is a sequence of integers, its key first.  A batch has an         *)
(* identity, the address of its VectorBatch, so that the store can tell    *)
(* which batches have been allocated and not yet freed.                    *)
(*                                                                         *)
(* The store: the plan and its pipelines; op, the operators' records;      *)
(* table, the hash table of each join; made and live, the batches          *)
(* allocated so far and those not freed; and the history of what should    *)
(* not happen, freedTwice and overwritten (operators whose slot was).      *)
(*                                                                         *)
(* An operator's record:                                                   *)
(*   fin, noMore  its status and noMoreInput_                              *)
(*   held         the batches it holds; for a ValueStream what its         *)
(*                iterator still has                                       *)
(*   at           Expand's rowIndex_, Union's vecBatchIndex, the rows a    *)
(*                Sort or a join has output, the rows an aggregation has   *)
(*                counted                                                  *)
(*   left, skip   Limit's remainingLimit and remainingOffset               *)
(*   sources      inputOperatorCnt_                                        *)
(*   done         ValueStream::finished_; for a LookupJoinWrapper, that    *)
(*                its inner join has finished                              *)
(***************************************************************************)
EXTENDS LocalPlanner

CONSTANTS
  OutRows,      \* most rows in one output batch of a Sort or of a join
  Projections   \* number of projections of an Expand

ASSUME OutRowsAssumption == OutRows \in Nat \ {0} /\ Projections \in Nat \ {0}

Smaller(a, b) == IF a < b THEN a ELSE b
Rows(batches) == FlattenSeq([i \in 1 .. Len(batches) |-> batches[i].rows])

NoBatch == [id |-> 0, rows |-> <<>>]

\* new VectorBatch and VectorHelper::FreeVecBatch.
New(s, rows) == [id |-> s.made + 1, rows |-> rows]
Keep(s, b)   == [s EXCEPT !.made = b.id, !.live = @ \union {b.id}]
Free(s, b)   == IF b.id \in s.live THEN [s EXCEPT !.live = @ \ {b.id}]
                                   ELSE [s EXCEPT !.freedTwice = @ \union {b.id}]
FreeAll(s, batches) == FoldLeft(Free, s, batches)

\* The operators of a plan whose ValueStreams will read the given batches.
NewStore(plan, input) ==
  [plan |-> plan,
   drivers |-> drivers(plan),
   op   |-> [o \in OpsOf(drivers(plan)) |->
              LET node == plan[o[1]] IN
              [fin |-> FALSE, noMore |-> FALSE, at |-> 0, done |-> FALSE,
               held |-> IF Kind(plan, o) = "VALUES" THEN input[o[1]] ELSE <<>>,
               left |-> IF Kind(plan, o) = "LIMIT" THEN node.count ELSE 0,
               skip |-> IF Kind(plan, o) = "LIMIT" THEN node.offset ELSE 0,
               sources |-> Len(node.src)]],
   table |-> [n \in DOMAIN plan |-> [ready |-> FALSE, rows |-> <<>>, visited |-> {}]],
   made |-> 0, live |-> {}, freedTwice |-> {}, overwritten |-> {}]

-----------------------------------------------------------------------------
(* Questions the driver asks.                                              *)

\* Mutant: a union waits for its own pipeline's source as well.
BlockedByItself(s, o) ==
  IF Kind(s.plan, o) = "UNION" THEN s.op[o].sources > 0
  ELSE Kind(s.plan, o) \in {"INNER", "LEFT"} /\ ~s.table[o[1]].ready

\* A LookupJoinWrapper (full join) does not override IsBlocked.
IsBlocked(s, o) ==
  CASE Kind(s.plan, o) = "UNION" -> s.op[o].sources > 1
    [] Kind(s.plan, o) \in {"INNER", "LEFT"} -> ~s.table[o[1]].ready
    [] OTHER -> FALSE

needsInput(s, o) ==
  /\ ~s.op[o].fin /\ ~s.op[o].noMore
  /\ Kind(s.plan, o) = "EXPAND" => s.op[o].at = 0

-----------------------------------------------------------------------------
(* AddInput(s, o, b): operator o is given batch b.                         *)

\* Mutant: an early return that forgets the batch.
Forget(s, b) == s

\* AddInput returns early: the batch is freed.
Drop(s, b) == Free(s, b)

\* The slot of a single-slot operator is assigned without a look at what it holds.
Fill(s, o, held) ==
  [s EXCEPT !.op[o].held = held, !.op[o].at = 0,
            !.overwritten = IF s.op[o].held = <<>> THEN @ ELSE @ \union {o}]

\* Filter and Projection evaluate into the slot; no row selected leaves it empty.
Evaluate(s, o, b) ==
  LET passes(r) == Kind(s.plan, o) = "PROJECT" \/ r[1] = 1
      made == New(s, SelectSeq(b.rows, passes))
      s1   == IF made.rows = <<>> THEN Fill(s, o, <<>>) ELSE Fill(Keep(s, made), o, <<made>>)
  IN  IF b.rows = <<>> THEN Drop(s, b) ELSE Free(s1, b)

\* Expand keeps the batch itself; an empty one resets the slot as well.
ExpandAddInput(s, o, b) ==
  IF b.rows # <<>> THEN Fill(s, o, <<b>>)
  ELSE [Fill(Free(s, b), o, <<>>) EXCEPT !.op[o].fin = FALSE]

LimitAddInput(s, o, b) ==
  LET me    == s.op[o]
      count == Len(b.rows)
      start == Smaller(me.skip, count)
      take  == IF me.left < 0 THEN count - start ELSE Smaller(count - start, me.left)
      made  == New(s, SubSeq(b.rows, start + 1, start + take))
      s1    == [s EXCEPT !.op[o].skip = @ - start,
                         !.op[o].left = IF @ < 0 THEN @ ELSE @ - take]
  IN  IF me.held # <<>> THEN Drop(Fill(s, o, me.held), b)
      ELSE IF count = 0 \/ me.left = 0 THEN Drop(s, b)
      ELSE IF take = 0 THEN Free(s1, b)
      ELSE Free(Fill(Keep(s1, made), o, <<made>>), b)

\* Union (also on behalf of its builders) and Sort: a copy joins what is held.
Enqueue(s, o, b) ==
  LET made == New(s, b.rows)
  IN  IF b.rows = <<>> THEN Drop(s, b)
      ELSE Free([Keep(s, made) EXCEPT !.op[o].held = Append(@, made)], b)

\* A join projects the batch into the one it will probe with.
ProbeAddInput(s, o, b) ==
  LET made == New(s, b.rows)
  IN  IF b.rows = <<>> THEN Drop(s, b)
      ELSE Free(Fill(Keep(s, made), o, <<made>>), b)

AddInput(s, o, b) ==
  CASE Kind(s.plan, o) \in {"FILTER", "PROJECT"} -> Evaluate(s, o, b)
    [] Kind(s.plan, o) = "EXPAND" -> ExpandAddInput(s, o, b)
    [] Kind(s.plan, o) = "LIMIT"  -> LimitAddInput(s, o, b)
    [] Kind(s.plan, o) \in {"UNION", "SORT", "HASH_BUILD"} -> Enqueue(s, o, b)
    [] Kind(s.plan, o) = "UNION_BUILD" -> Enqueue(s, <<o[1], 1>>, b)
    [] Kind(s.plan, o) = "AGG" -> Free([s EXCEPT !.op[o].at = @ + Len(b.rows)], b)
    [] Kind(s.plan, o) \in Joins -> ProbeAddInput(s, o, b)

\* Mutant: a union's input has ended when its first source has.
FirstSourceEnds(s, o) ==
  LET s1 == IF o[2] = 1 \/ Kind(s.plan, o) = "HASH_BUILD" THEN s
            ELSE [s EXCEPT !.op[<<o[1], 1>>].sources = @ - 1, !.op[<<o[1], 1>>].noMore = TRUE]
  IN  [s1 EXCEPT !.op[o].noMore = TRUE]

\* noMoreInput(): a union waits for all of its sources.
noMoreInput(s, o) ==
  LET union == <<o[1], 1>>
      oneLess(t) == [t EXCEPT !.op[union].sources = @ - 1,
                              !.op[union].noMore = t.op[union].sources <= 1]
  IN  CASE Kind(s.plan, o) = "UNION" -> oneLess(s)
        [] Kind(s.plan, o) = "UNION_BUILD" -> oneLess([s EXCEPT !.op[o].noMore = TRUE])
        [] OTHER -> [s EXCEPT !.op[o].noMore = TRUE]

-----------------------------------------------------------------------------
(* GetOutput(s, o) = [store, out]: what operator o hands out, NoBatch for  *)
(* nothing.                                                                *)

Null(s)       == [store |-> s, out |-> NoBatch]
HandOut(s, b) == [store |-> s, out |-> b]
Finish(s, o)  == [s EXCEPT !.op[o].fin = TRUE]

\* Mutant: an operator finishes whenever it has nothing to hand out.
FinishAnyway(c, s, o) == Finish(s, o)

FinishIf(c, s, o) == IF c THEN Finish(s, o) ELSE s

ValuesGetOutput(s, o) ==
  LET me   == s.op[o]
      made == New(s, me.held[1])
  IN  IF me.done THEN Null(Finish(s, o))
      ELSE IF me.held = <<>> THEN Null([s EXCEPT !.op[o].done = TRUE])
      ELSE HandOut([Keep(s, made) EXCEPT !.op[o].held = Tail(@)], made)

\* Filter, Projection: the slot is moved out.
SlotGetOutput(s, o) ==
  IF s.op[o].held = <<>> THEN Null(FinishIf(s.op[o].noMore, s, o))
  ELSE HandOut([s EXCEPT !.op[o].held = <<>>], s.op[o].held[1])

LimitGetOutput(s, o) ==
  IF s.op[o].held = <<>> THEN Null(FinishIf(s.op[o].left <= 0 \/ s.op[o].noMore, s, o))
  ELSE HandOut([s EXCEPT !.op[o].held = <<>>], s.op[o].held[1])

ExpandGetOutput(s, o) ==
  LET me    == s.op[o]
      batch == me.held[1]
      made  == New(s, [i \in DOMAIN batch.rows |-> Append(batch.rows[i], -me.at)])
      last  == me.at + 1 = Projections
      s1    == [Keep(s, made) EXCEPT !.op[o].at = IF last THEN 0 ELSE @ + 1,
                                     !.op[o].held = IF last THEN <<>> ELSE @]
  IN  IF me.held = <<>> THEN Null(FinishIf(me.noMore, s, o))
      ELSE HandOut(IF last THEN Free(s1, batch) ELSE s1, made)

\* The queue is emptied only when its last batch has been handed out.
UnionGetOutput(s, o) ==
  LET me    == s.op[o]
      clear == [s EXCEPT !.op[o].held = <<>>, !.op[o].at = 0]
  IN  IF me.held = <<>> THEN Null(FinishIf(me.noMore, clear, o))
      ELSE HandOut(IF me.at + 1 = Len(me.held) THEN FinishIf(me.noMore, clear, o)
                   ELSE [s EXCEPT !.op[o].at = @ + 1],
                   me.held[me.at + 1])

SortGetOutput(s, o) ==
  LET me     == s.op[o]
      byKey(k) == SelectSeq(Rows(me.held), LAMBDA r : r[1] = k)
      sorted == byKey(0) \o byKey(1) \o byKey(2)
      upto   == Smaller(me.at + OutRows, Len(sorted))
      made   == New(s, SubSeq(sorted, me.at + 1, upto))
      clear(t) == [FreeAll(t, me.held) EXCEPT !.op[o].held = <<>>]
  IN  IF ~me.noMore THEN Null(s)
      ELSE IF me.held = <<>> THEN Null(Finish(clear(s), o))
      ELSE LET s1 == [Keep(s, made) EXCEPT !.op[o].at = upto]
           IN  HandOut(IF upto = Len(sorted) THEN Finish(clear(s1), o) ELSE s1, made)

\* An aggregation without keys always has one row.
AggGetOutput(s, o) ==
  LET made == New(s, << <<0, s.op[o].at>> >>)
  IN  IF ~s.op[o].noMore THEN Null(s)
      ELSE IF s.op[o].fin THEN Null(s)
      ELSE HandOut(Finish(Keep(s, made), o), made)

UnionBuildGetOutput(s, o) == Null(FinishIf(s.op[o].noMore, s, o))

\* Prepare and BuildHashTable, once, when the input has ended.
HashBuildGetOutput(s, o) ==
  IF ~s.op[o].noMore \/ s.op[o].fin THEN Null(s)
  ELSE Null([Finish(s, o) EXCEPT !.table[o[1]].ready = TRUE,
                                 !.table[o[1]].rows = Rows(s.op[o].held)])

\* The pairs of a probe batch: a row with each build row of its key; in an outer
\* join a row without one by itself.
Pairs(s, o, batch) ==
  LET pairsOf(r) ==
        LET matches == SelectSeq(s.table[o[1]].rows, LAMBDA b : b[1] = r[1])
        IN  IF matches = <<>> /\ Kind(s.plan, o) # "INNER" THEN << <<r>> >>
            ELSE [i \in DOMAIN matches |-> <<r, matches[i]>>]
  IN  FlattenSeq([i \in DOMAIN batch.rows |-> pairsOf(batch.rows[i])])

Joined(pair) == IF Len(pair) = 1 THEN pair[1] \o <<0>> ELSE pair[1] \o Tail(pair[2])

\* LookupJoinOperator::GetOutput, up to its end: `last` says that its input has
\* ended and the last batch has been probed.
Probe(s, o) ==
  LET me    == s.op[o]
      batch == me.held[1]
      pairs == Pairs(s, o, batch)
      upto  == Smaller(me.at + OutRows, Len(pairs))
      whole == upto = Len(pairs)
      chunk == SubSeq(pairs, me.at + 1, upto)
      made  == New(s, [i \in DOMAIN chunk |-> Joined(chunk[i])])
      hits  == {chunk[i][2] : i \in {j \in DOMAIN chunk : Len(chunk[j]) = 2}}
      s1    == [IF chunk = <<>> THEN s ELSE Keep(s, made) EXCEPT
                  !.op[o].at = upto, !.table[o[1]].visited = @ \union hits]
      s2    == [Free(s1, batch) EXCEPT !.op[o].held = <<>>, !.op[o].at = 0]
  IN  IF me.held = <<>> THEN [store |-> s, out |-> NoBatch, last |-> me.noMore]
      ELSE [store |-> IF whole THEN s2 ELSE s1,
            out   |-> IF chunk = <<>> THEN NoBatch ELSE made,
            last  |-> whole /\ me.noMore]

LookupJoinGetOutput(s, o) ==
  LET probed == Probe(s, o)
  IN  [store |-> FinishIf(probed.last, probed.store, o), out |-> probed.out]

\* LookupJoinWrapperOperator: when the inner join has finished, the outer join
\* hands out the build rows no probe row has visited.
WrapperGetOutput(s, o) ==
  LET me    == s.op[o]
      table == s.table[o[1]]
      rest  == SelectSeq(table.rows, LAMBDA r : r \notin table.visited)
      upto  == Smaller(me.at + OutRows, Len(rest))
      made  == New(s, [i \in 1 .. upto - me.at |-> <<rest[me.at + i][1], 0>> \o Tail(rest[me.at + i])])
      s1    == [Keep(s, made) EXCEPT !.op[o].at = upto]
      probed == Probe(s, o)
  IN  IF me.fin THEN Null(s)
      ELSE IF ~me.done THEN HandOut([probed.store EXCEPT !.op[o].done = probed.last], probed.out)
      ELSE IF rest = <<>> THEN Null(Finish(s, o))
      ELSE HandOut(FinishIf(upto = Len(rest), s1, o), made)

GetOutput(s, o) ==
  CASE Kind(s.plan, o) = "VALUES" -> ValuesGetOutput(s, o)
    [] Kind(s.plan, o) \in {"FILTER", "PROJECT"} -> SlotGetOutput(s, o)
    [] Kind(s.plan, o) = "LIMIT"  -> LimitGetOutput(s, o)
    [] Kind(s.plan, o) = "EXPAND" -> ExpandGetOutput(s, o)
    [] Kind(s.plan, o) = "UNION"  -> UnionGetOutput(s, o)
    [] Kind(s.plan, o) = "SORT"   -> SortGetOutput(s, o)
    [] Kind(s.plan, o) = "AGG"    -> AggGetOutput(s, o)
    [] Kind(s.plan, o) = "UNION_BUILD" -> UnionBuildGetOutput(s, o)
    [] Kind(s.plan, o) = "HASH_BUILD"  -> HashBuildGetOutput(s, o)
    [] Kind(s.plan, o) = "FULL"   -> WrapperGetOutput(s, o)
    [] Kind(s.plan, o) \in {"INNER", "LEFT"} -> LookupJoinGetOutput(s, o)

-----------------------------------------------------------------------------
\* Close() of every operator, then the factories: each frees what it holds, but
\* Expand forgets the batch it is expanding.  A union frees its whole queue, and
\* a hash table's batches go with its factory.
CloseAll(s) ==
  LET owned(o) == IF Kind(s.plan, o) \in {"VALUES", "EXPAND"} THEN <<>> ELSE s.op[o].held
  IN  FreeAll(s, FlattenSeq(SetToSeq({owned(o) : o \in DOMAIN s.op})))
=============================================================================
