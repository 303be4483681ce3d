------------------------------ MODULE Sorting -------------------------------
(***************************************************************************)
(* How a sort operator orders the rows it holds (pages_index.cpp), in one  *)
(* of three ways: a single column in place; one integer column by radix    *)
(* (radix_sort.h); otherwise column by column, the rows equal in a column  *)
(* by the next one, integers with vector instructions (quick_sort_simd.cpp *)
(* and the networks of small_case_sort.h), decimals and strings one by one.*)
(*                                                                         *)
(* An array is a function on 0 .. n - 1 of entries: the key of a row in    *)
(* the current column and its address.  A column is a record of its type   *)
(* and its order (asc, nullFirst).                                         *)
(***************************************************************************)
EXTENDS RowOrder

CONSTANTS
  MaxKey,        \* INT64_MAX
  UnrollSize,    \* vectors read at once
  ChunkSize,     \* steps between samples
  BigLen,        \* more rows take the median of medians
  StepSize,      \* steps between those
  CompareCache,  \* comparisons made ahead
  DigitValues,   \* values of a byte in a radix sort
  LongBytes,     \* bytes of a LONG, and of an INT
  IntBytes,
  MSDThreshold   \* more rows are sorted by their first byte first

KeysPerVector == 2
BlockSize     == UnrollSize * KeysPerVector

NoAddress == 0

Exchange(array, i, j) == [array EXCEPT ![i] = array[j], ![j] = array[i]]

\* The values of a sequence put into the array from a position on.
Put(array, at, values) ==
  [k \in DOMAIN array |-> IF k \in at .. at + Len(values) - 1 THEN values[k - at + 1] ELSE array[k]]

Part(array, from, to) == [i \in 1 .. to - from |-> array[from + i - 1]]
-----------------------------------------------------------------------------
(* Sorting networks: keys by minimum and maximum, addresses by what moved. *)

\* Mutant: each of the two addresses by a comparison of its own.
Sort2Apart(order, rows, i, j) ==
  LET swaps == Before(rows[j].key, rows[i].key, order)
      first == IF swaps THEN rows[j].key ELSE rows[i].key
      last  == IF swaps THEN rows[i].key ELSE rows[j].key
  IN  [rows EXCEPT
         ![i] = [key |-> first, id |-> IF first = rows[i].key THEN rows[i].id ELSE rows[j].id],
         ![j] = [key |-> last,  id |-> IF last = rows[i].key THEN rows[i].id ELSE rows[j].id]]

\* An address moves with its key, which it has if the key is no longer the one before.
Sort2(order, rows, i, j) ==
  LET swaps == Before(rows[j].key, rows[i].key, order)
      first == IF swaps THEN rows[j].key ELSE rows[i].key
      last  == IF swaps THEN rows[i].key ELSE rows[j].key
      moved == first # rows[i].key
  IN  [rows EXCEPT ![i] = [key |-> first, id |-> IF moved THEN rows[j].id ELSE rows[i].id],
                   ![j] = [key |-> last,  id |-> IF moved THEN rows[i].id ELSE rows[j].id]]

Net3 == <<<<0, 2>>, <<0, 1>>, <<1, 2>>>>
Net4 == <<<<0, 2>>, <<1, 3>>, <<0, 1>>, <<2, 3>>, <<1, 2>>>>
Net8 == <<<<0, 2>>, <<1, 3>>, <<4, 6>>, <<5, 7>>, <<0, 4>>, <<1, 5>>, <<2, 6>>, <<3, 7>>,
          <<0, 1>>, <<2, 3>>, <<4, 5>>, <<6, 7>>, <<2, 4>>, <<3, 5>>, <<1, 4>>, <<3, 6>>,
          <<1, 2>>, <<3, 4>>, <<5, 6>>>>

\* A network over rows of one key, or of two, which are sorted by lane.
OverRows(order, rows, net)  == FoldLeft(LAMBDA r, p : Sort2(order, r, p[1], p[2]), rows, net)
OverPairs(order, rows, net) ==
  FoldLeft(LAMBDA r, p : Sort2(order, Sort2(order, r, 2 * p[1], 2 * p[2]),
                               2 * p[1] + 1, 2 * p[2] + 1), rows, net)

ReverseKeys2(rows, which) ==
  [k \in DOMAIN rows |-> IF k \div 2 \in which THEN rows[k + 1 - 2 * (k % 2)] ELSE rows[k]]

\* A row of two keys against its reverse: the firsts, then the lasts.
SortPairsDistance1(order, rows, row) ==
  LET x == rows[2 * row]
      y == rows[2 * row + 1]
      s == OverPairs(order, 0 :> x @@ 1 :> y @@ 2 :> y @@ 3 :> x, <<<<0, 1>>>>)
      addresses == IF s[0].key # s[2].key THEN <<s[0].id, s[3].id>> ELSE <<s[0].id, s[1].id>>
  IN  [rows EXCEPT ![2 * row]     = [key |-> s[0].key, id |-> addresses[1]],
                   ![2 * row + 1] = [key |-> s[3].key, id |-> addresses[2]]]

SortPairs(order, rows) ==
  FoldLeft(LAMBDA r, i : SortPairsDistance1(order, r, i - 1), rows,
           [i \in 1 .. Cardinality(DOMAIN rows) \div 2 |-> i])

Merge3x2(order, rows) ==
  LET lower == OverPairs(order, ReverseKeys2(rows, {2}), <<<<1, 2>>>>)
      upper == OverPairs(order, ReverseKeys2(lower, {1}), <<<<0, 1>>>>)
  IN  SortPairs(order, upper)

Merge8x2(order, rows) ==
  LET eights == OverPairs(order, ReverseKeys2(rows, 4 .. 7),
                          <<<<0, 7>>, <<1, 6>>, <<2, 5>>, <<3, 4>>>>)
      fours  == OverPairs(order, ReverseKeys2(eights, {2, 3, 6, 7}),
                          <<<<0, 3>>, <<1, 2>>, <<4, 7>>, <<5, 6>>>>)
      twos   == OverPairs(order, ReverseKeys2(fours, {1, 3, 5, 7}),
                          <<<<0, 1>>, <<2, 3>>, <<4, 5>>, <<6, 7>>>>)
  IN  SortPairs(order, twos)

LastValue(order) == IF order.asc THEN MaxKey ELSE -MaxKey - 1

\* Rows filled up to the size of a network with what comes last.
PaddedBuf(order, array, from, num, size) ==
  [k \in 0 .. size - 1 |-> IF k < num THEN array[from + k]
                                      ELSE [key |-> LastValue(order), id |-> NoAddress]]

SmallCaseSort(order, array, from, to) ==
  LET num    == to - from
      size   == CASE num <= 2 -> num [] num <= 4 -> 4 [] num <= 8 -> 8 [] OTHER -> 16
      padded == PaddedBuf(order, array, from, num, size)
      sorted == CASE size <= 1 -> padded
                  [] size = 2  -> Sort2(order, padded, 0, 1)
                  [] size = 4  -> OverRows(order, padded, Net4)
                  [] size = 8  -> OverRows(order, padded, Net8)
                  [] OTHER     -> Merge8x2(order, OverPairs(order, padded, Net8))
  IN  Put(array, from, Part(sorted, 0, num))
-----------------------------------------------------------------------------
(* Quick sort with vector instructions.                                    *)

LoadU(array, at) == Part(array, at, at + KeysPerVector)

MedianOf3(order, v) ==
  LET sorted == OverRows(order, [i \in 0 .. 2 |-> [key |-> v[i + 1], id |-> NoAddress]], Net3)
  IN  sorted[1].key

\* The medians, by lane, of three vectors at the start, in the middle and at the end.
DrawSamples(order, array, from, to) ==
  LET step == (to - from) \div ChunkSize
      mid  == from + (to - from) \div 2
      last == to - KeysPerVector
      vectors == <<<<from, from + step, from + 2 * step>>, <<mid - step, mid, mid + step>>,
                   <<last, last - step, last - 2 * step>>>>
      Sample(i) == LET at == vectors[1 + i \div KeysPerVector]
                   IN  MedianOf3(order, [j \in 1 .. 3 |-> array[at[j] + (i % KeysPerVector)].key])
  IN  [i \in 0 .. 3 * KeysPerVector - 1 |-> [key |-> Sample(i), id |-> NoAddress]]

Sort3Rows(order, samples) == Merge3x2(order, OverPairs(order, samples, Net3))

\* The sample in the middle, or the one before those equal to it if it is nearer.
ChoosePivot(samples) ==
  LET count  == Cardinality(DOMAIN samples)
      mid    == count \div 2
      Others(side) == {i \in side : samples[i].key # samples[mid].key}
      before == Others(0 .. mid - 1)
      prev   == CHOOSE i \in before : \A j \in before : j <= i
      after  == Others(prev + 1 .. count - 1)
      next   == CHOOSE i \in after : \A j \in after : i <= j
  IN  IF before = {} THEN samples[0].key
      ELSE IF after = {} THEN samples[prev].key
      ELSE IF next - mid < mid - prev THEN samples[mid].key ELSE samples[prev].key

QuickSortCompare(order, pivot, key) == IF order.asc THEN pivot < key ELSE ~(pivot < key)

Lefts(order, pivot, v)  == SelectSeq(v, LAMBDA e : ~QuickSortCompare(order, pivot, e.key))
Rights(order, pivot, v) == SelectSeq(v, LAMBDA e : QuickSortCompare(order, pivot, e.key))

CompressKeys(order, pivot, v) == Lefts(order, pivot, v) \o Rights(order, pivot, v)

\* The first rows, so many that whole blocks remain: those of the left side stay at the
\* front, those of the right side go to the end, the rows from there take their place.
PartitionToMultipleOfUnroll(order, pivot, array, from, num) ==
  LET rem == IF num < 2 * BlockSize THEN num ELSE num % BlockSize
      Step(s, i) ==
        LET at == (i - 1) * KeysPerVector
            v  == Part(s.array, from + at, from + Smaller(at + KeysPerVector, rem))
        IN  [array |-> Put(s.array, from + s.lefts, Lefts(order, pivot, v)),
             lefts |-> s.lefts + Len(Lefts(order, pivot, v)),
             buf   |-> s.buf \o Rights(order, pivot, v)]
      done  == FoldLeft(Step, [array |-> array, lefts |-> 0, buf |-> <<>>],
                        [i \in 1 .. (rem + KeysPerVector - 1) \div KeysPerVector |-> i])
      end   == num - Len(done.buf)
      moved == Put(done.array, from + done.lefts, Part(done.array, from + end, from + num))
  IN  [array |-> Put(moved, from + end, done.buf), lefts |-> done.lefts, num |-> end - done.lefts]

\* A whole vector goes to both ends of the gap, what the other end needs is behind.
StoreLeftRight(order, pivot, base, s, v) ==
  LET remaining == s.remaining - KeysPerVector
      lr == CompressKeys(order, pivot, v)
  IN  [s EXCEPT !.array = Put(Put(@, base + s.writeL, lr), base + remaining + s.writeL, lr),
                !.writeL = @ + Len(Lefts(order, pivot, v)),
                !.remaining = remaining]

LoadBlock(array, at) == [u \in 1 .. UnrollSize |-> LoadU(array, at + (u - 1) * KeysPerVector)]

StoreBlock(order, pivot, base, s, block) ==
  FoldLeft(LAMBDA t, v : StoreLeftRight(order, pivot, base, t, v), s, block)

\* The blocks between the first and the last, from the side where there is less room.
RECURSIVE StoreBlocks(_, _, _, _)
StoreBlocks(order, pivot, base, s) ==
  IF s.readL = s.readR THEN s
  ELSE IF s.readL - s.writeL > BlockSize
  THEN LET at == s.readR - BlockSize
       IN  StoreBlocks(order, pivot, base,
             StoreBlock(order, pivot, base, [s EXCEPT !.readR = at], LoadBlock(s.array, base + at)))
  ELSE StoreBlocks(order, pivot, base,
         StoreBlock(order, pivot, base, [s EXCEPT !.readL = @ + BlockSize],
                    LoadBlock(s.array, base + s.readL)))

\* The blocks, those at the ends last.  whole is the array with as many rows as fill blocks.
PartitionBlocks(order, pivot, base, whole) ==
  LET start == [array |-> whole.array, readL |-> BlockSize, readR |-> whole.num - BlockSize,
                writeL |-> 0, remaining |-> whole.num]
      kept  == LoadBlock(whole.array, base)
                 \o LoadBlock(whole.array, base + whole.num - BlockSize)
  IN  IF whole.num = 0 THEN start
      ELSE StoreBlock(order, pivot, base, StoreBlocks(order, pivot, base, start), kept)

\* The last vector, which was kept aside, goes between the sides; s: what has been stored.
StoreLast(order, pivot, base, last, valueLast, s) ==
  LET totalR == last - s.writeL
      startR == IF totalR < KeysPerVector THEN last - KeysPerVector ELSE s.writeL
      room   == IF totalR = 0 THEN s.array
                ELSE Put(s.array, base + last, LoadU(s.array, base + startR))
  IN  [array |-> Put(room, base + s.writeL, CompressKeys(order, pivot, valueLast)),
       at    |-> base + s.writeL + Len(Lefts(order, pivot, valueLast))]

PartitionAfter(order, pivot, from, rest, valueLast, whole) ==
  StoreLast(order, pivot, from + whole.lefts, rest - whole.lefts, valueLast,
            PartitionBlocks(order, pivot, from + whole.lefts, whole))

PartitionWithSIMD(order, pivot, array, from, to) ==
  LET rest == to - from - KeysPerVector
  IN  PartitionAfter(order, pivot, from, rest, LoadU(array, to - KeysPerVector),
                     PartitionToMultipleOfUnroll(order, pivot, array, from, rest))

GetAvg(a, b) == (a + b) \div 2

FirstKey(order, keys) == CHOOSE x \in keys : \A y \in keys : ~Before(y, x, order)
LastKey(order, keys)  == CHOOSE x \in keys : \A y \in keys : ~Before(x, y, order)

RECURSIVE QuickSortSIMD(_, _, _, _, _, _, _)

\* The sides of the pivot.  One whose rows all equal it is in order.
SortSides(order, small, from, to, chooseAvg, pivot, keys, parts) ==
  LET lopsided == 5 * Smaller(to - parts.at, parts.at - from) < to - from
      Sorted(a, lo, hi, extreme) ==
        IF hi - lo > 1 /\ pivot # extreme
        THEN QuickSortSIMD(order, small, a, lo, hi, chooseAvg # lopsided, GetAvg(pivot, extreme))
        ELSE a
  IN  Sorted(Sorted(parts.array, from, parts.at, FirstKey(order, keys)), parts.at, to,
             LastKey(order, keys))

SortAround(order, small, array, from, to, chooseAvg, pivot) ==
  SortSides(order, small, from, to, chooseAvg, pivot, {array[k].key : k \in from .. to - 1},
            PartitionWithSIMD(order, pivot, array, from, to))

QuickSortSIMD(order, small, array, from, to, chooseAvg, avg) ==
  IF to - from <= small THEN SmallCaseSort(order, array, from, to)
  ELSE SortAround(order, small, array, from, to, chooseAvg,
         IF chooseAvg THEN avg
         ELSE ChoosePivot(Sort3Rows(order, DrawSamples(order, array, from, to))))
-----------------------------------------------------------------------------
(* Quick sort of decimals and strings, the comparisons made ahead.         *)

CompareTo(order, array, k, pivot) == Compare(array[k].key, pivot, order)

\* The comparisons of the next rows, from the left up or from the right down.
Ahead(order, pivot, s, side) ==
  IF s[side] # <<>> THEN s[side]
  ELSE [i \in 1 .. Smaller(s.c - s.b + 1, CompareCache) |->
          CompareTo(order, s.array, IF side = "left" THEN s.b + i - 1 ELSE s.c - i + 1, pivot)]

\* What is equal to the pivot is gathered at the outer ends.
RECURSIVE LeftScan(_, _, _)
LeftScan(order, pivot, s) ==
  IF s.b > s.c THEN s
  ELSE LET ahead == Ahead(order, pivot, s, "left")
           t     == [s EXCEPT !.left = Tail(ahead)]
       IN  IF Head(ahead) > 0 THEN t
           ELSE IF Head(ahead) = 0
           THEN LeftScan(order, pivot,
                         [t EXCEPT !.array = Exchange(@, s.a, s.b), !.a = @ + 1, !.b = @ + 1])
           ELSE LeftScan(order, pivot, [t EXCEPT !.b = @ + 1])

RECURSIVE RightScan(_, _, _)
RightScan(order, pivot, s) ==
  IF s.b > s.c THEN s
  ELSE LET ahead == Ahead(order, pivot, s, "right")
           t     == [s EXCEPT !.right = Tail(ahead)]
       IN  IF Head(ahead) < 0 THEN t
           ELSE IF Head(ahead) = 0
           THEN RightScan(order, pivot,
                          [t EXCEPT !.array = Exchange(@, s.c, s.d), !.c = @ - 1, !.d = @ - 1])
           ELSE RightScan(order, pivot, [t EXCEPT !.c = @ - 1])

RECURSIVE Split(_, _, _)
Split(order, pivot, s) ==
  LET t == RightScan(order, pivot, LeftScan(order, pivot, s))
  IN  IF t.b > t.c THEN t
      ELSE Split(order, pivot,
                 [t EXCEPT !.array = Exchange(@, t.b, t.c), !.b = @ + 1, !.c = @ - 1])

VectorSwap(array, from, l, s) ==
  FoldLeft(LAMBDA a, i : Exchange(a, from + i - 1, l + i - 1), array, [i \in 1 .. s |-> i])

MedianPivot(order, array, from, to) ==
  LET Key(k) == array[k].key
      l == from
      m == from + (to - from) \div 2
      n == to - 1
      s == (to - from) \div StepSize
      Median(x, y, z) == MedianOf3(order, <<x, y, z>>)
  IN  IF to - from > BigLen
      THEN Median(Median(Key(l), Key(l + s), Key(l + 2 * s)),
                  Median(Key(m - s), Key(m), Key(m + s)),
                  Median(Key(n - 2 * s), Key(n - s), Key(n)))
      ELSE Median(Key(l), Key(m), Key(n))

RECURSIVE InsertRow(_, _, _, _)
InsertRow(order, array, from, j) ==
  IF j < from \/ ~Before(array[j + 1].key, array[j].key, order) THEN array
  ELSE InsertRow(order, Exchange(array, j, j + 1), from, j - 1)

QuickSortSmall(order, array, from, to) ==
  FoldLeft(LAMBDA a, i : InsertRow(order, a, from, from + i - 1), array,
           [i \in 1 .. to - from - 1 |-> i])

RECURSIVE QuickSortScalar(_, _, _, _, _)

\* What equals the pivot goes from the ends to the middle, the sides are sorted.
SortApart(order, small, from, to, p) ==
  LET s == Smaller(p.a - from, p.b - p.a)
      t == Smaller(p.d - p.c, to - p.d - 1)
      middle == VectorSwap(VectorSwap(p.array, from, p.b - s, s), p.b, to - t, t)
      Sorted(a, lo, hi) == IF hi - lo > 1 THEN QuickSortScalar(order, small, a, lo, hi) ELSE a
  IN  Sorted(Sorted(middle, from, from + p.b - p.a), to - (p.d - p.c), to)

QuickSortScalar(order, small, array, from, to) ==
  IF to - from <= small THEN QuickSortSmall(order, array, from, to)
  ELSE SortApart(order, small, from, to,
         Split(order, MedianPivot(order, array, from, to),
               [array |-> array, a |-> from, b |-> from, c |-> to - 1, d |-> to - 1,
                left |-> <<>>, right |-> <<>>]))
-----------------------------------------------------------------------------
(* Column by column.  keys are those of the rows in one column.            *)

\* The nulls go to one end, the keys of the others are read.
RECURSIVE SortNullAndGetValue(_, _, _)
SortNullAndGetValue(order, keys, s) ==
  IF s.i = s.to THEN s
  ELSE LET key == keys[s.array[s.i].id]
       IN  SortNullAndGetValue(order, keys,
             IF key # Null THEN [s EXCEPT !.array[s.i].key = key, !.i = @ + 1]
             ELSE IF order.nullFirst
             THEN [s EXCEPT !.array = Exchange(@, s.i, s.from), !.i = @ + 1, !.from = @ + 1]
             ELSE [s EXCEPT !.array = Exchange(@, s.i, s.to - 1), !.to = @ - 1])

SortArrays(order, array, from, to) == Put(array, from, InOrder(Part(array, from, to), order))

SortColumn(c, order, array, from, to) ==
  CASE order.type = "array" -> SortArrays(order, array, from, to)
    [] order.type \in {"decimal128", "varchar"} ->
         QuickSortScalar(order, c.small, array, from, to)
    [] OTHER -> QuickSortSIMD(order, c.small, array, from, to, FALSE, 0)

\* The pieces that the next column puts in order: the nulls, and the rows of equal keys.
\* values tells where the rows lie that are not null.
EqualPieces(from, to, values, sorted) ==
  LET nulls  == IF values.from # from THEN [lo |-> from, hi |-> values.from]
                                      ELSE [lo |-> values.to, hi |-> to]
      starts == SelectSeq([i \in 1 .. values.to - values.from |-> values.from + i - 1],
                          LAMBDA i : i = values.from \/ sorted[i].key # sorted[i - 1].key)
  IN  <<nulls>> \o [j \in DOMAIN starts |->
                      [lo |-> starts[j],
                       hi |-> IF j = Len(starts) THEN values.to ELSE starts[j + 1]]]

RECURSIVE ColumnarSort(_, _, _, _, _, _)

SortPieces(c, rows, col, array, pieces) ==
  FoldLeft(LAMBDA a, p : IF p.lo + 1 < p.hi THEN ColumnarSort(c, rows, a, p.lo, p.hi, col) ELSE a,
           array, pieces)

ByNextColumn(c, rows, from, to, col, values, sorted) ==
  IF col = Len(c.cols) THEN sorted
  ELSE SortPieces(c, rows, col + 1, sorted, EqualPieces(from, to, values, sorted))

SortValues(c, rows, from, to, col, values) ==
  ByNextColumn(c, rows, from, to, col, values,
    IF values.from + 1 < values.to
    THEN SortColumn(c, c.cols[col], values.array, values.from, values.to)
    ELSE values.array)

ColumnarSort(c, rows, array, from, to, col) ==
  SortValues(c, rows, from, to, col,
    SortNullAndGetValue(c.cols[col], [i \in DOMAIN rows |-> rows[i].keys[col]],
                        [array |-> array, i |-> from, from |-> from, to |-> to]))
-----------------------------------------------------------------------------
(* Radix sort of one integer column, in two blocks of memory.              *)

\* What the row's vector holds in the sort column, under a null too.
DataOf(row) == IF row.keys[1] = Null THEN row.under ELSE row.keys[1]

BytesOf(type) == CASE type = "long" -> LongBytes [] type = "boolean" -> 1 [] OTHER -> IntBytes

HasNegative(c, rows) == c.cols[1].type # "long" \/ \E i \in DOMAIN rows : DataOf(rows[i]) < 0

\* Of a LONG only the bytes in use are sorted.
RadixValueWidth(c, rows) ==
  IF HasNegative(c, rows) THEN BytesOf(c.cols[1].type)
  ELSE CHOOSE w \in 0 .. LongBytes :
         /\ \A i \in DOMAIN rows : DataOf(rows[i]) < DigitValues^w
         /\ w > 0 => \E i \in DOMAIN rows : DataOf(rows[i]) >= DigitValues^(w - 1)

\* The rows that are not null, the sign bit flipped.
RadixRows(c, rows) ==
  LET order == SelectSeq([i \in DOMAIN rows |-> i], LAMBDA i : rows[i].keys[1] # Null)
      flip  == IF HasNegative(c, rows) THEN DigitValues^BytesOf(c.cols[1].type) \div 2 ELSE 0
  IN  [k \in 0 .. Len(order) - 1 |-> [value |-> rows[order[k + 1]].keys[1] + flip,
                                      id |-> order[k + 1]]]

Bucket(c, row, byte) ==
  LET digit == (row.value \div DigitValues^byte) % DigitValues
  IN  IF c.cols[1].asc THEN digit ELSE DigitValues - 1 - digit

InBucket(c, source, loc, len, byte, d) ==
  SelectSeq(Part(source, loc, loc + len), LAMBDA row : Bucket(c, row, byte) = d)

CountsOf(c, source, loc, len, byte) ==
  [d \in 0 .. DigitValues - 1 |-> Len(InBucket(c, source, loc, len, byte, d))]

\* A stable pass from one block to the other.
Reordered(c, blocks, loc, len, byte, swap) ==
  LET source == IF swap THEN blocks.temp ELSE blocks.orig
      target == IF swap THEN "orig" ELSE "temp"
      rows   == FoldLeft(LAMBDA s, d : s \o InBucket(c, source, loc, len, byte, d - 1), <<>>,
                         [d \in 1 .. DigitValues |-> d])
  IN  [blocks EXCEPT ![target] = Put(@, loc, rows)]

CopiedBack(blocks, loc, len) ==
  [blocks EXCEPT !.orig = [p \in DOMAIN @ |-> IF p \in loc .. loc + len - 1
                                              THEN blocks.temp[p] ELSE @[p]]]

AllInOneBucket(c, blocks, loc, len, byte, swap) ==
  LET source == IF swap THEN blocks.temp ELSE blocks.orig
  IN  len = 0 \/ Len(InBucket(c, source, loc, len, byte, Bucket(c, source[loc], byte))) = len

RadixSortLSD(c, blocks, loc, len, sortingSize, swap) ==
  LET Pass(s, r) ==
        IF AllInOneBucket(c, s.blocks, loc, len, r - 1, s.swap) THEN s
        ELSE [blocks |-> Reordered(c, s.blocks, loc, len, r - 1, s.swap), swap |-> ~s.swap]
      done == FoldLeft(Pass, [blocks |-> blocks, swap |-> swap], [r \in 1 .. sortingSize |-> r])
  IN  IF done.swap THEN CopiedBack(done.blocks, loc, len) ELSE done.blocks

\* By the first byte, then each bucket by the bytes that remain.  locations tells where
\* buckets end, or if nothing was moved where they begin.
RECURSIVE RadixSortMSD(_, _, _, _, _, _)
RadixSortMSD(c, blocks, loc, len, sortingSize, swap) ==
  LET byte   == sortingSize - 1
      counts == CountsOf(c, IF swap THEN blocks.temp ELSE blocks.orig, loc, len, byte)
      stays  == AllInOneBucket(c, blocks, loc, len, byte, swap)
      moved  == IF stays THEN blocks ELSE Reordered(c, blocks, loc, len, byte, swap)
      now    == swap # ~stays
      starts[d \in 0 .. DigitValues] == IF d = 0 THEN 0 ELSE starts[d - 1] + counts[d - 1]
      locations == [d \in 0 .. DigitValues |->
                      starts[IF stays \/ d = DigitValues THEN d ELSE d + 1]]
      SortPiece(b, at, count) ==
        CASE count > MSDThreshold -> RadixSortMSD(c, b, at, count, byte, now)
          [] count \in 2 .. MSDThreshold -> RadixSortLSD(c, b, at, count, byte, now)
          [] count = 1 /\ now -> CopiedBack(b, at, 1)
          [] OTHER -> b
      Step(s, d) == [blocks |-> SortPiece(s.blocks, loc + s.loc, s.count),
                     count  |-> locations[d] - locations[d - 1], loc |-> locations[d - 1]]
  IN  IF byte = 0 THEN IF now THEN CopiedBack(moved, loc, len) ELSE moved
      ELSE FoldLeft(Step, [blocks |-> moved, count |-> locations[0], loc |-> 0],
                    [d \in 1 .. DigitValues |-> d]).blocks

NullIds(rows) == SelectSeq([i \in DOMAIN rows |-> i], LAMBDA i : rows[i].keys[1] = Null)

NullsBeside(order, nulls, others) == IF order.nullFirst THEN nulls \o others ELSE others \o nulls

SortWithRadixSort(c, rows) ==
  LET filled == RadixRows(c, rows)
      len    == Cardinality(DOMAIN filled)
      sorted == RadixSortMSD(c, [orig |-> filled, temp |-> filled], 0, len,
                             RadixValueWidth(c, rows), FALSE).orig
  IN  NullsBeside(c.cols[1], NullIds(rows), [i \in 1 .. len |-> sorted[i - 1].id])
-----------------------------------------------------------------------------
(* The operator.  c.alone: there is no other column.                       *)

CanInplaceSort(c) == c.alone /\ c.cols[1].type \notin {"varchar", "boolean", "array"}

CanUseRadixSort(c, rows) ==
  /\ c.threshold # -1 /\ Len(c.cols) = 1
  /\ c.cols[1].type \in {"long", "int", "boolean"}
  /\ Len(rows) > c.threshold

\* Values only, their nulls set apart.
PartitionNull(rows) == SelectSeq(rows, LAMBDA r : r.keys[1] # Null)

SortInplace(order, rows) ==
  LET values == PartitionNull(rows)
      keys   == InOrder([i \in DOMAIN values |-> [key |-> values[i].keys[1], id |-> i]], order)
  IN  NullsBeside(order, [i \in 1 .. Len(rows) - Len(values) |-> <<Null>>],
                  [i \in DOMAIN keys |-> <<keys[i].key>>])

IdsOf(entries) == [i \in DOMAIN entries |-> entries[i].id]

\* The addresses in the order of the rows.
SortedIds(c, rows) ==
  IF CanUseRadixSort(c, rows) THEN SortWithRadixSort(c, rows)
  ELSE LET array == [k \in 0 .. Len(rows) - 1 |-> [key |-> 0, id |-> k + 1]]
       IN  IdsOf(Part(ColumnarSort(c, rows, array, 0, Len(rows), 1), 0, Len(rows)))

\* A row is taken from where its address says.
ValuesAt(rows, id) == IF id \in DOMAIN rows THEN rows[id].keys ELSE <<>>

RowsAt(rows, ids)  == [i \in DOMAIN ids |-> [keys |-> ValuesAt(rows, ids[i]), id |-> ids[i]]]
WithoutIds(values) == [i \in DOMAIN values |-> [keys |-> values[i], id |-> NoAddress]]

\* The keys of the rows that come out, and who they are.
SortOutput(c, rows) ==
  IF CanInplaceSort(c) THEN WithoutIds(SortInplace(c.cols[1], rows))
                       ELSE RowsAt(rows, SortedIds(c, rows))
=============================================================================
