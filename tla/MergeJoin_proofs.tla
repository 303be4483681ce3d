-------------------------- MODULE MergeJoin_proofs ---------------------------
(***************************************************************************)
(* Proofs about MergeJoin for any sorted inputs, cut into any batches, and *)
(* any filter: the joins other than the full one read no row of a batch    *)
(* they have freed, and write no more rows to a batch than it has room     *)
(* for, unless a left join has a filter.  The scanner's pairs come in the  *)
(* order of its rows, and the first pair of a group with the first of its  *)
(* buffered rows: what the builder frees there lies before every row that  *)
(* a pair still to be built, a match still to be given again or a key      *)
(* still to come is about.                                                 *)
(***************************************************************************)
EXTENDS MergeJoin, Foundations_proofs

-----------------------------------------------------------------------------
(* The rows of a table.                                                    *)

Pages == [keys : Seq(Int), batch : Seq(Int), batches : Nat, freed : Nat, finish : BOOLEAN]

\* The rows that have arrived: sorted, nulls first, batch after batch.
Ordered(x) ==
  /\ x \in Pages /\ Len(x.batch) = Len(x.keys)
  /\ \A i \in 1 .. Len(x.keys) : 0 <= x.batch[i] /\ x.batch[i] < x.batches
  /\ \A i, k \in 1 .. Len(x.keys) : i <= k => /\ x.batch[i] <= x.batch[k]
                                              /\ Place(x.keys[i]) <= Place(x.keys[k])

\* The number of rows is one.
LEMMA PagesLen ==
  ASSUME NEW x \in Pages
  PROVE  /\ Len(x.keys) \in Nat /\ x.keys \in [1 .. Len(x.keys) -> Int]
         /\ Len(x.keys) = 0 <=> x.keys = <<>>
  BY LenProperties, EmptySeq DEF Pages

\* Values of rows: behind a row without nulls there are no nulls and no smaller values.
LEMMA Values ==
  ASSUME NEW x, Ordered(x), NEW i \in 1 .. Len(x.keys), NEW k \in 1 .. Len(x.keys)
  PROVE  /\ Value(x, i) \in Int /\ x.batch[i] \in Nat
         /\ i <= k => /\ x.batch[i] <= x.batch[k]
                      /\ ~HaveNull(x, i) => ~HaveNull(x, k) /\ Value(x, i) <= Value(x, k)
         /\ ~HaveNull(x, i) /\ ~HaveNull(x, k) /\ Value(x, i) < Value(x, k) => i < k
<1>1. x \in Pages /\ Len(x.keys) \in Nat /\ x.keys[i] \in Int /\ x.keys[k] \in Int
  BY PagesLen DEF Ordered
<1>2. x.batch[i] \in Nat /\ x.batch[k] \in Nat
  <2>1. x.batch \in Seq(Int) /\ i \in 1 .. Len(x.batch) /\ k \in 1 .. Len(x.batch)
    BY DEF Ordered, Pages
  <2>2. x.batch[i] \in Int /\ x.batch[k] \in Int
    BY <2>1, ElementOfSeq
  <2> QED
    BY <2>2 DEF Ordered
<1>3. Value(x, i) \in Int
  BY <1>1 DEF Value
<1>4. ASSUME NEW a \in 1 .. Len(x.keys), NEW b \in 1 .. Len(x.keys), a <= b, ~HaveNull(x, a)
      PROVE  ~HaveNull(x, b) /\ Value(x, a) <= Value(x, b)
  <2>1. Place(x.keys[a]) <= Place(x.keys[b]) /\ x.keys[a] \in Int /\ x.keys[b] \in Int
    BY <1>4, <1>1, PagesLen DEF Ordered
  <2> QED
    BY <1>4, <2>1 DEF Place, HaveNull, Value
<1>5. i <= k => x.batch[i] <= x.batch[k]
  BY DEF Ordered
<1>6. ~HaveNull(x, i) /\ ~HaveNull(x, k) /\ Value(x, i) < Value(x, k) => i < k
  <2> SUFFICES ASSUME ~HaveNull(x, k), Value(x, i) < Value(x, k), k <= i PROVE FALSE
    BY <1>1
  <2>1. Value(x, k) <= Value(x, i)
    BY <1>4
  <2>2. Value(x, k) \in Int
    BY <1>1 DEF Value
  <2> QED
    BY <1>3, <2>1, <2>2
<1> QED
  BY <1>2, <1>3, <1>4, <1>5, <1>6

\* A walk stops at the least of the rows that end it, or at the last one.
LEMMA StopIs ==
  ASSUME NEW x \in Pages, NEW ends, NEW p \in Int, ends \subseteq Behind(x, p)
  PROVE  /\ StopOf(x, ends) \in Int /\ StopOf(x, ends) <= Len(x.keys)
         /\ ends = {} => StopOf(x, ends) = Len(x.keys)
         /\ ends # {} => /\ StopOf(x, ends) \in ends /\ p < StopOf(x, ends)
                         /\ \A i \in ends : StopOf(x, ends) <= i
         /\ p <= Len(x.keys) => p <= StopOf(x, ends)
<1>1. Len(x.keys) \in Nat
  BY PagesLen
<1>2. CASE ends = {}
  BY <1>1, <1>2 DEF StopOf
<1>3. CASE ends # {}
  <2> DEFINE T == {i - p : i \in ends}
  <2>1. \A i \in ends : i \in Int /\ p < i /\ i <= Len(x.keys)
    BY <1>1 DEF Behind
  <2>2. T \in SUBSET Nat /\ T # {}
    <3>1. \A i \in ends : i - p \in Nat
      BY <2>1
    <3> QED
      BY <1>3, <3>1
  <2>3. PICK m \in T : \A t \in T : m <= t
    <3> HIDE DEF T
    <3> QED
      BY <2>2, LeastNatural
  <2>4. PICK i \in ends : m = i - p
    BY <2>3
  <2>5. ASSUME NEW k \in ends PROVE i <= k
    <3>1. k - p \in T
      OBVIOUS
    <3>2. i - p <= k - p
      BY <2>3, <2>4, <3>1
    <3> QED
      BY <2>1, <3>2
  <2>6. StopOf(x, ends) = CHOOSE k \in ends : \A l \in ends : k <= l
    BY <1>3 DEF StopOf
  <2>7. StopOf(x, ends) \in ends /\ \A l \in ends : StopOf(x, ends) <= l
    BY <2>5, <2>6
  <2> QED
    BY <1>3, <2>1, <2>7
<1> QED
  BY <1>2, <1>3

-----------------------------------------------------------------------------
(* Scanners of the joins that give no buffered row alone.                  *)

Types == {"inner", "semi", "left", "anti"}
Codes == {SCAN, DATA, DONE, INVALID}
Pair  == [s : Int, b : Int, pre : BOOLEAN, same : BOOLEAN]
Scanner ==
  [type : Types, first : BOOLEAN, S : Pages, B : Pages, sp : Int, bp : Int, ps : Int,
   pb : Seq(Int), pbp : Int, sm : BOOLEAN, bm : BOOLEAN, last : BOOLEAN, sc : Codes,
   bc : Codes, found : Seq(Pair), on : BOOLEAN, cmp : Int]

\* y is z but for the positions, the matches and the codes.
Frame(z, y) == y.type = z.type /\ y.first = z.first /\ y.S = z.S /\ y.B = z.B

\* The positions are those of rows, or before the first.
InS(z) == z.sp \in 0 .. Len(z.S.keys)
InB(z) == IF z.B.keys = <<>> THEN z.bp = 1 ELSE z.bp \in 0 .. Len(z.B.keys)

Placed(z) == z \in Scanner /\ Ordered(z.S) /\ Ordered(z.B) /\ InS(z) /\ InB(z)

\* y has gone on from z and found nothing.
Kept(z, y) ==
  /\ Placed(y) /\ Frame(z, y) /\ y.sp >= z.sp
  /\ y.ps = z.ps /\ y.pb = z.pb /\ y.found = z.found

\* It may go on more than once ...
LEMMA KeptTwice ==
  ASSUME NEW x, NEW y, NEW z, Placed(x), Kept(x, y), Kept(y, z) PROVE Kept(x, z)
  BY DEF Kept, Placed, Frame, Scanner

\* ... or not at all.
LEMMA KeptSelf == ASSUME NEW z, Placed(z) PROVE Kept(z, z)
  BY DEF Kept, Placed, Frame, Scanner

\* NullFree does not ask more than the type.
LEMMA NullFreeSame == ASSUME NEW z, NEW y, Frame(z, y) PROVE NullFree(y) = NullFree(z)
  BY DEF Frame, NullFree

\* AdvanceStreamed: to a row that can be joined, or to the last.
LEMMA AdvanceStreamedKeeps ==
  ASSUME NEW z, Placed(z)
  PROVE  LET y == AdvanceStreamed(z)
         IN  /\ Kept(z, y) /\ y.bp = z.bp /\ y.bc = z.bc /\ y.sc = z.sc /\ y.bm = z.bm
             /\ y.pbp = z.pbp
             /\ y.on => y.sp > z.sp /\ (NullFree(z) => ~HaveNull(z.S, y.sp))
             /\ ~y.on => y.sp = Len(z.S.keys)
                         /\ (y.sp = z.sp \/ (NullFree(z) /\ HaveNull(z.S, y.sp)))
<1> DEFINE ends == IF NullFree(z) THEN NonNulls(z.S, z.sp) ELSE Behind(z.S, z.sp)
           p  == StopOf(z.S, ends)
           on == p > z.sp /\ (NullFree(z) => ~HaveNull(z.S, p))
           sm == z.sm /\ (NullFree(z) \/ p = z.sp)
<1>1. z \in Scanner /\ z.S \in Pages /\ z.sp \in Int /\ z.sp >= 0 /\ z.sp <= Len(z.S.keys) /\ Len(z.S.keys) \in Nat
  BY PagesLen DEF Placed, Scanner, InS
<1>2. ends \subseteq Behind(z.S, z.sp)
  BY DEF NonNulls
<1>3. /\ p \in Int /\ z.sp <= p /\ p <= Len(z.S.keys)
      /\ ends = {} => p = Len(z.S.keys)
      /\ ends # {} => p \in ends /\ z.sp < p
  <2> HIDE DEF ends
  <2> QED
    BY <1>1, <1>2, StopIs
<1>4. AdvanceStreamed(z) = [z EXCEPT !.sp = p, !.on = on, !.sm = sm]
  BY DEF AdvanceStreamed, StreamedTo
<1>5. on \in BOOLEAN /\ sm \in BOOLEAN
  OBVIOUS
<1>6. ~on => ends = {}
  BY <1>3 DEF NonNulls
<1>7. ~on => p = Len(z.S.keys) /\ (p = z.sp \/ (NullFree(z) /\ HaveNull(z.S, p)))
  BY <1>1, <1>3, <1>6
<1>8. on => p > z.sp /\ (NullFree(z) => ~HaveNull(z.S, p))
  OBVIOUS
<1> HIDE DEF on, sm, p, ends
<1>9. InS(AdvanceStreamed(z)) /\ InB(AdvanceStreamed(z))
  BY <1>1, <1>3, <1>4, <1>5 DEF Placed, Scanner, InS, InB
<1>10. AdvanceStreamed(z) \in Scanner
  BY <1>1, <1>3, <1>4, <1>5 DEF Scanner
<1> QED
  BY <1>1, <1>3, <1>4, <1>5, <1>7, <1>8, <1>9, <1>10 DEF Placed, Scanner, Kept, Frame

\* AdvanceBufferedFree: to a row without nulls, or to the last.
LEMMA AdvanceBufferedFreeKeeps ==
  ASSUME NEW z, Placed(z), z.B.keys # <<>>
  PROVE  LET y == AdvanceBufferedFree(z)
         IN  /\ Kept(z, y) /\ y.sp = z.sp /\ y.bc = z.bc /\ y.sc = z.sc /\ y.sm = z.sm
             /\ y.bp \in 1 .. Len(z.B.keys) /\ y.bp >= z.bp
             /\ y.on => y.bp > z.bp /\ ~HaveNull(z.B, y.bp)
             /\ ~y.on => y.bp = Len(z.B.keys) /\ (y.bp = z.bp \/ HaveNull(z.B, y.bp))
<1> DEFINE ends == NonNulls(z.B, z.bp)
           p  == StopOf(z.B, ends)
           on == p > z.bp
           bm == z.bm /\ p = z.bp
           of == on /\ ~HaveNull(z.B, p)
           y  == AdvanceBufferedFree(z)
<1>1. /\ z \in Scanner /\ z.B \in Pages /\ z.bp \in Int /\ z.bp >= 0 /\ z.bp <= Len(z.B.keys)
      /\ Len(z.B.keys) \in Nat /\ Len(z.B.keys) # 0
  BY PagesLen DEF Placed, Scanner, InB
<1>2. ends \subseteq Behind(z.B, z.bp)
  BY DEF NonNulls
<1>3. /\ p \in Int /\ z.bp <= p /\ p <= Len(z.B.keys)
      /\ ends = {} => p = Len(z.B.keys)
      /\ ends # {} => p \in ends /\ z.bp < p
  <2> HIDE DEF ends
  <2> QED
    BY <1>1, <1>2, StopIs
<1>4. BufferedTo(z, p) = [z EXCEPT !.bp = p, !.on = on, !.bm = bm]
  BY DEF BufferedTo
<1>5. on \in BOOLEAN /\ bm \in BOOLEAN /\ of \in BOOLEAN
  OBVIOUS
<1>6. ~of => ends = {}
  BY <1>3 DEF NonNulls
<1>7. ~of => p = Len(z.B.keys) /\ (p = z.bp \/ HaveNull(z.B, p))
  BY <1>1, <1>3, <1>6
<1>8. of => p > z.bp /\ ~HaveNull(z.B, p)
  OBVIOUS
<1>9. p >= 1
  BY <1>1, <1>3
<1>10. y = [BufferedTo(z, p) EXCEPT !.on = BufferedTo(z, p).on /\ ~HaveNull(BufferedTo(z, p).B, BufferedTo(z, p).bp)]
  BY DEF AdvanceBufferedFree, OnIfFree
<1>11. BufferedTo(z, p).on = on /\ BufferedTo(z, p).B = z.B /\ BufferedTo(z, p).bp = p
  <2> HIDE DEF p, on, bm
  <2> QED
    BY <1>1, <1>4 DEF Scanner
<1>12. y = [BufferedTo(z, p) EXCEPT !.on = of]
  BY <1>10, <1>11
<1> HIDE DEF on, bm, of, p, ends, y
<1>13. y \in Scanner /\ Frame(z, y) /\ y.sp = z.sp /\ y.bp = p /\ y.ps = z.ps /\ y.pb = z.pb /\ y.found = z.found
       /\ y.bc = z.bc /\ y.sc = z.sc /\ y.sm = z.sm /\ y.on = of
  BY <1>1, <1>3, <1>4, <1>5, <1>12 DEF Scanner, Frame
<1>14. InS(y) /\ InB(y)
  BY <1>1, <1>3, <1>9, <1>13 DEF Placed, Frame, InS, InB
<1>15. Kept(z, y)
  BY <1>1, <1>13, <1>14 DEF Kept, Placed, Frame, Scanner
<1> QED
  BY <1>1, <1>3, <1>7, <1>8, <1>9, <1>13, <1>15 DEF y

\* SkipNulls: the same, from a row without nulls no step.
LEMMA SkipNullsKeeps ==
  ASSUME NEW z, Placed(z), z.B.keys # <<>>, z.bp >= 1
  PROVE  LET y == SkipNulls(z)
         IN  /\ Kept(z, y) /\ y.sp = z.sp /\ y.bc = z.bc /\ y.sc = z.sc /\ y.sm = z.sm
             /\ y.bp \in 1 .. Len(z.B.keys) /\ y.bp >= z.bp
             /\ y.on => ~HaveNull(z.B, y.bp)
             /\ ~HaveNull(z.B, z.bp) => y.on /\ y.bp = z.bp
<1>1. CASE HaveNull(z.B, z.bp)
  BY <1>1, AdvanceBufferedFreeKeeps DEF SkipNulls
<1>2. CASE ~HaveNull(z.B, z.bp)
  <2> DEFINE y == [z EXCEPT !.on = TRUE]
  <2>1. SkipNulls(z) = y
    BY <1>2 DEF SkipNulls
  <2>2. z \in Scanner /\ z.bp \in 1 .. Len(z.B.keys)
    BY PagesLen DEF Placed, InB, Scanner
  <2>3. y \in Scanner /\ Frame(z, y) /\ y.sp = z.sp /\ y.bp = z.bp /\ y.ps = z.ps /\ y.pb = z.pb /\ y.found = z.found
       /\ y.bc = z.bc /\ y.sc = z.sc /\ y.sm = z.sm /\ y.on = TRUE
    BY <2>2 DEF Scanner, Frame
  <2> HIDE DEF y
  <2>4. Kept(z, y)
    BY <2>2, <2>3 DEF Kept, Placed, Frame, Scanner, InS, InB
  <2> QED
    BY <1>2, <2>1, <2>2, <2>3, <2>4 DEF Scanner
<1> QED
  BY <1>1, <1>2

\* Status, NeedStreamed and NeedBuffered change the codes only.
LEMMA StatusKeeps ==
  ASSUME NEW z, Placed(z), NEW s \in Codes, NEW b \in Codes
  PROVE  LET y == Status(z, s, b)
         IN  Kept(z, y) /\ y.sp = z.sp /\ y.bp = z.bp /\ y.sc = s /\ y.bc = b /\ ~y.on
<1> DEFINE y == Status(z, s, b)
<1>1. y = [z EXCEPT !.sc = s, !.bc = b, !.on = FALSE] /\ z \in Scanner
  BY DEF Status, Placed
<1>2. y \in Scanner /\ Frame(z, y) /\ y.sp = z.sp /\ y.bp = z.bp /\ y.ps = z.ps /\ y.pb = z.pb /\ y.found = z.found
      /\ y.sc = s /\ y.bc = b /\ y.on = FALSE
  BY <1>1 DEF Scanner, Frame
<1> HIDE DEF y
<1>3. Kept(z, y)
  BY <1>1, <1>2 DEF Kept, Placed, Frame, Scanner, InS, InB
<1> QED
  BY <1>2, <1>3 DEF y

\* TransToNeedStreamedData, TransToNeedBufferedData.
LEMMA NeedsKeep ==
  ASSUME NEW z, Placed(z)
  PROVE  /\ LET y == NeedStreamed(z)
            IN  Kept(z, y) /\ y.sp = z.sp /\ y.bp = z.bp /\ y.bc # DATA /\ ~y.on
         /\ LET y == NeedBuffered(z)
            IN  Kept(z, y) /\ y.sp = z.sp /\ y.bp = z.bp /\ y.sc # DATA /\ ~y.on
<1>1. DATA \in Codes /\ DONE \in Codes /\ SCAN \in Codes /\ DATA # DONE /\ DATA # SCAN
  BY DEF Codes, DATA, DONE, SCAN
<1>2. \E s, b \in Codes : NeedStreamed(z) = Status(z, s, b) /\ b # DATA
  BY <1>1 DEF NeedStreamed
<1>3. \E s, b \in Codes : NeedBuffered(z) = Status(z, s, b) /\ s # DATA
  BY <1>1 DEF NeedBuffered
<1> QED
  BY <1>2, <1>3, StatusKeeps

-----------------------------------------------------------------------------
(* Matches.                                                                *)

\* The buffered row b has the key of the streamed row s.
Meets(z, b, s) ==
  /\ b \in 1 .. Len(z.B.keys) /\ ~HaveNull(z.B, b) /\ Value(z.B, b) = Value(z.S, s)
  /\ NullFree(z) \/ ~HaveNull(z.S, s)

\* rows are what the streamed row s is joined with.
Group(z, rows, s) ==
  /\ rows \in Seq(Int) /\ rows # <<>>
  /\ \/ rows = <<NoRow>>
     \/ \A k \in 1 .. Len(rows) : Meets(z, rows[k], s) /\ rows[1] <= rows[k]

Matched(z) == \/ z.ps = NoRow /\ z.pb = <<>>
              \/ z.ps \in 1 .. z.sp /\ Group(z, z.pb, z.ps)

AtEnd(z) == z.S.finish /\ z.sp = Len(z.S.keys)

\* An inner join compares a streamed row with nulls only when it is the last.
NullEnd(z) == NullFree(z) /\ z.ps # NoRow /\ HaveNull(z.S, z.ps) => z.S.finish /\ z.ps = Len(z.S.keys)

\* The streamed row s has a key no streamed row before it was matched with.
Newer(z, s) ==
  \/ z.ps = NoRow
  \/ ~NullFree(z) /\ HaveNull(z.S, z.ps)
  \/ ~HaveNull(z.S, z.ps) /\ ~HaveNull(z.S, s) /\ Value(z.S, z.ps) < Value(z.S, s)
NewKey(z) == Newer(z, z.sp)

\* So it is, unless the key is that of the matches.
LEMMA NewOrMatched ==
  ASSUME NEW z, Placed(z), Matched(z), NullEnd(z), z.sp >= 1
  PROVE  NewKey(z) <=> ~PreKeyMatched(z)
<1>1. z \in Scanner /\ Ordered(z.S) /\ z.sp \in 1 .. Len(z.S.keys)
  BY PagesLen DEF Placed, InS, Scanner
<1>2. CASE z.ps = NoRow
  BY <1>2 DEF NewKey, Newer, PreKeyMatched
<1>3. CASE z.ps # NoRow
  <2>1. z.ps \in 1 .. z.sp /\ z.pb # <<>> /\ z.sp \in Int /\ Len(z.S.keys) \in Int
    BY <1>1, <1>3, PagesLen DEF Matched, Group, Scanner, Ordered
  <2>2. z.ps \in 1 .. Len(z.S.keys) /\ z.ps <= z.sp
    BY <1>1, <2>1
  <2>3. /\ Value(z.S, z.ps) \in Int /\ Value(z.S, z.sp) \in Int
        /\ ~HaveNull(z.S, z.ps) => ~HaveNull(z.S, z.sp) /\ Value(z.S, z.ps) <= Value(z.S, z.sp)
    BY <1>1, <2>2, Values
  <2>4. CASE ~HaveNull(z.S, z.ps)
    BY <1>3, <2>1, <2>3, <2>4 DEF NewKey, Newer, PreKeyMatched
  <2>5. CASE HaveNull(z.S, z.ps) /\ NullFree(z)
    <3>1. z.ps = z.sp
      BY <1>1, <1>3, <2>1, <2>5 DEF NullEnd
    <3> QED
      BY <1>3, <2>1, <2>5, <3>1 DEF NewKey, Newer, PreKeyMatched, NullFree
  <2>6. CASE HaveNull(z.S, z.ps) /\ ~NullFree(z)
    BY <1>3, <2>1, <2>6 DEF NewKey, Newer, PreKeyMatched, NullFree
  <2> QED
    BY <2>4, <2>5, <2>6
<1> QED
  BY <1>2, <1>3

\* Further on the key stays a new one.
LEMMA NewKeyStays ==
  ASSUME NEW z, NEW y, Placed(z), Matched(z), NullEnd(z), NewKey(z), Kept(z, y), z.sp >= 1
  PROVE  NewKey(y) /\ Matched(y) /\ NullEnd(y) /\ (HaveNull(z.S, y.sp) => HaveNull(z.S, z.sp))
<1>1. /\ z \in Scanner /\ y \in Scanner /\ Ordered(z.S) /\ z.sp \in 1 .. Len(z.S.keys)
      /\ y.sp \in 1 .. Len(z.S.keys) /\ z.sp <= y.sp
  BY PagesLen DEF Placed, InS, Scanner, Kept, Frame
<1>2. y.ps = z.ps /\ y.pb = z.pb /\ y.S = z.S /\ y.B = z.B /\ NullFree(y) = NullFree(z)
  BY NullFreeSame DEF Kept, Frame
<1>3. HaveNull(z.S, y.sp) => HaveNull(z.S, z.sp)
  BY <1>1, Values
<1>4. Matched(y)
  <2>1. Group(z, z.pb, z.ps) => Group(y, y.pb, y.ps)
    BY <1>2 DEF Group, Meets
  <2>2. z.ps \in 1 .. z.sp => y.ps \in 1 .. y.sp
    BY <1>1, <1>2
  <2> QED
    BY <1>2, <2>1, <2>2 DEF Matched
<1>5. NullEnd(y)
  BY <1>2 DEF NullEnd
<1>6. NewKey(y)
  <2>1. CASE z.ps = NoRow \/ (~NullFree(z) /\ HaveNull(z.S, z.ps))
    BY <1>2, <2>1 DEF NewKey, Newer
  <2>2. CASE z.ps # NoRow /\ ~HaveNull(z.S, z.ps) /\ ~HaveNull(z.S, z.sp) /\ Value(z.S, z.ps) < Value(z.S, z.sp)
    <3>1. z.ps \in 1 .. Len(z.S.keys)
      BY <1>1, <2>2 DEF Matched
    <3>2. Value(z.S, z.ps) \in Int /\ Value(z.S, z.sp) \in Int /\ Value(z.S, y.sp) \in Int
          /\ ~HaveNull(z.S, y.sp) /\ Value(z.S, z.sp) <= Value(z.S, y.sp)
      BY <1>1, <2>2, <3>1, Values
    <3> QED
      BY <1>2, <2>2, <3>2 DEF NewKey, Newer
  <2> QED
    BY <2>1, <2>2 DEF NewKey, Newer
<1> QED
  BY <1>3, <1>4, <1>5, <1>6

\* Induction up to n, over the set of the numbers for which something holds.
LEMMA CountsUp ==
  ASSUME NEW n \in Nat, NEW P, 0 \in P, \A i \in 0 .. n : i # n /\ i \in P => i + 1 \in P
  PROVE  \A i \in 0 .. n : i \in P
<1> DEFINE B == {i \in 0 .. n : i \notin P}
<1> SUFFICES ASSUME B # {} PROVE FALSE
  OBVIOUS
<1>1. PICK m \in B : \A k \in B : m <= k
  <2>1. B \in SUBSET Nat
    OBVIOUS
  <2> HIDE DEF B
  <2> QED
    BY <2>1, LeastNatural
<1>2. m # 0 /\ m - 1 \in 0 .. n /\ m - 1 # n /\ m - 1 \notin B
  BY <1>1
<1>3. m - 1 \in P
  BY <1>2
<1> QED
  BY <1>1, <1>2, <1>3

-----------------------------------------------------------------------------
(* The rows of a group.                                                    *)

\* The rows taken up to the one i rows behind bp.
TakeStep(z, f, i) == IF i = 0 THEN <<z.bp>> ELSE Taken(z, f[i - 1], z.bp + i)
IsTaking(z, f, n)  == f = [i \in 0 .. n |-> TakeStep(z, f, i)]

\* They can be taken.
LEMMA SomeTaking == ASSUME NEW z, NEW n \in Nat PROVE \E f : IsTaking(z, f, n)
<1> DEFINE B == {k \in Nat : ~ \E f : IsTaking(z, f, k)}
<1> SUFFICES ASSUME B # {} PROVE FALSE
  OBVIOUS
<1>1. PICK m \in B : \A k \in B : m <= k
  <2>1. B \in SUBSET Nat
    OBVIOUS
  <2> HIDE DEF B
  <2> QED
    BY <2>1, LeastNatural
<1>2. m # 0
  <2>1. IsTaking(z, [i \in 0 .. 0 |-> <<z.bp>>], 0)
    BY DEF IsTaking, TakeStep
  <2> QED
    BY <2>1, <1>1
<1>3. PICK g : IsTaking(z, g, m - 1)
  BY <1>1, <1>2
<1> DEFINE h == [i \in 0 .. m |-> IF i = m THEN TakeStep(z, g, m) ELSE g[i]]
<1>4. ASSUME NEW i \in 0 .. m PROVE h[i] = TakeStep(z, h, i)
  <2>1. m \in Nat
    OBVIOUS
  <2>2. i # 0 => h[i - 1] = g[i - 1]
    BY <2>1
  <2>3. h[i] = TakeStep(z, g, i)
    <3>1. CASE i = m
      BY <3>1
    <3>2. CASE i # m
      BY <1>3, <2>1, <3>2 DEF IsTaking
    <3> QED
      BY <3>1, <3>2
  <2> HIDE DEF h
  <2> QED
    BY <2>2, <2>3 DEF TakeStep
<1>5. h = [i \in 0 .. m |-> TakeStep(z, h, i)]
  <2>1. h = [i \in 0 .. m |-> h[i]]
    OBVIOUS
  <2> HIDE DEF h
  <2> QED
    BY <1>4, <2>1
<1> HIDE DEF h
<1>6. IsTaking(z, h, m)
  BY <1>5 DEF IsTaking
<1> QED
  BY <1>1, <1>6

\* Equals is what was taken up to the last row.
LEMMA EqualsIs ==
  ASSUME NEW z, NEW stop, stop - z.bp \in Nat
  PROVE  \E f : IsTaking(z, f, stop - z.bp) /\ Equals(z, stop) = f[stop - z.bp]
<1>1. Equals(z, stop) = (CHOOSE f : IsTaking(z, f, stop - z.bp))[stop - z.bp]
  BY DEF Equals, IsTaking, TakeStep
<1> QED
  BY <1>1, SomeTaking

\* A group begins with the row at bp, and goes on with later rows equal to the streamed one.
LEMMA EqualsAre ==
  ASSUME NEW z, NEW stop \in Int, z.bp \in Int, z.bp <= stop
  PROVE  LET rows == Equals(z, stop)
         IN  /\ rows \in Seq(Int) /\ Len(rows) \in Nat \ {0} /\ rows[1] = z.bp
             /\ \A k \in 1 .. Len(rows) : /\ rows[k] \in z.bp .. stop
                                          /\ rows[k] = z.bp \/ Equal(z, rows[k])
<1> DEFINE N == stop - z.bp
<1>1. N \in Nat
  OBVIOUS
<1>2. PICK f : IsTaking(z, f, N) /\ Equals(z, stop) = f[N]
  BY <1>1, EqualsIs
<1> DEFINE Good(r, i) == /\ r \in Seq(Int) /\ Len(r) \in Nat \ {0} /\ r[1] = z.bp
                         /\ \A k \in 1 .. Len(r) : /\ r[k] \in z.bp .. z.bp + i
                                                   /\ r[k] = z.bp \/ Equal(z, r[k])
           P == {i \in 0 .. N : Good(f[i], i)}
<1> HIDE DEF N
<1>3. \A i \in 0 .. N : f[i] = TakeStep(z, f, i)
  BY <1>1, <1>2 DEF IsTaking
<1>4. 0 \in P
  <2>1. f[0] = <<z.bp>>
    BY <1>1, <1>3 DEF TakeStep
  <2> DEFINE q == <<z.bp>>
  <2>2. Len(q) = 1 /\ q \in Seq(Int) /\ q[1] = z.bp
    OBVIOUS
  <2> HIDE DEF q
  <2>3. Good(q, 0)
    BY <2>2
  <2>4. f[0] = q
    BY <2>1 DEF q
  <2>5. Good(f[0], 0)
    BY <2>3, <2>4
  <2> HIDE DEF Good
  <2> QED
    BY <1>1, <2>5
<1>5. ASSUME NEW i \in 0 .. N, i # N, i \in P PROVE i + 1 \in P
  <2> DEFINE r == f[i]
  <2>1. i + 1 \in 0 .. N /\ i + 1 # 0 /\ (i + 1) - 1 = i
    BY <1>1, <1>5, SMTT(40)
  <2>2. f[i + 1] = Taken(z, r, z.bp + (i + 1))
    BY <1>3, <2>1 DEF TakeStep
  <2>3. Good(r, i)
    BY <1>5
  <2> HIDE DEF r
  <2>4. CASE ~Equal(z, z.bp + (i + 1))
    <3>1. f[i + 1] = r
      BY <2>2, <2>4 DEF Taken
    <3>2. Good(r, i + 1)
      BY <2>3
    <3> QED
      BY <2>1, <3>1, <3>2
  <2>5. CASE Equal(z, z.bp + (i + 1))
    <3>1. f[i + 1] = Append(r, z.bp + (i + 1))
      BY <2>2, <2>5 DEF Taken
    <3> DEFINE q == Append(r, z.bp + (i + 1))
    <3>2. /\ q \in Seq(Int) /\ Len(q) = Len(r) + 1 /\ q[Len(r) + 1] = z.bp + (i + 1)
          /\ \A k \in 1 .. Len(r) : q[k] = r[k]
      BY <2>3, AppendProperties
    <3>3. q[1] = z.bp /\ Len(q) \in Nat \ {0}
      BY <2>3, <3>2
    <3> HIDE DEF q
    <3>4. ASSUME NEW k \in 1 .. Len(q)
          PROVE  q[k] \in z.bp .. z.bp + (i + 1) /\ (q[k] = z.bp \/ Equal(z, q[k]))
      <4>1. CASE k \in 1 .. Len(r)
        BY <2>3, <3>2, <4>1, SMTT(40)
      <4>2. CASE k = Len(r) + 1
        BY <2>5, <3>2, <4>2
      <4> QED
        BY <2>3, <3>2, <4>1, <4>2
    <3>5. Good(q, i + 1)
      BY <3>2, <3>3, <3>4
    <3> QED
      BY <2>1, <3>1, <3>5 DEF q
  <2> QED
    BY <2>4, <2>5
<1>6. N \in P
  <2> HIDE DEF P
  <2>1. \A i \in 0 .. N : i \in P
    BY <1>1, <1>4, <1>5, CountsUp
  <2> QED
    BY <1>1, <2>1
<1> QED
  BY <1>2, <1>6, SMTT(40) DEF N

-----------------------------------------------------------------------------
(* What is found.                                                          *)

\* The pairs of the streamed row s with the rows of a group.
PairsOf(rows, s, pre) == [i \in DOMAIN rows |-> [s |-> s, b |-> rows[i], pre |-> pre, same |-> i > 1]]

\* They are as many as the rows.
LEMMA PairsAre ==
  ASSUME NEW rows \in Seq(Int), NEW s \in Int, NEW pre \in BOOLEAN
  PROVE  LET q == PairsOf(rows, s, pre)
         IN  /\ q \in Seq(Pair) /\ Len(q) = Len(rows)
             /\ \A i \in 1 .. Len(rows) : q[i] = [s |-> s, b |-> rows[i], pre |-> pre, same |-> i > 1]
<1>1. Len(rows) \in Nat /\ DOMAIN rows = 1 .. Len(rows)
  BY LenProperties
<1> DEFINE e(i) == [s |-> s, b |-> rows[i], pre |-> pre, same |-> i > 1]
<1>2. ASSUME NEW i \in 1 .. Len(rows) PROVE e(i) \in Pair
  <2>1. rows[i] \in Int
    BY <1>2, ElementOfSeq
  <2> QED
    BY <2>1 DEF Pair
<1> HIDE DEF e
<1>3. [i \in 1 .. Len(rows) |-> e(i)] \in Seq(Pair) /\ Len([i \in 1 .. Len(rows) |-> e(i)]) = Len(rows)
  BY <1>1, <1>2
<1>4. PairsOf(rows, s, pre) = [i \in 1 .. Len(rows) |-> e(i)]
  BY <1>1 DEF PairsOf, e
<1> QED
  BY <1>3, <1>4 DEF e

\* y has come to the matches of a streamed row with a new key, and found them.
Grouped(z, y) ==
  /\ Placed(y) /\ Frame(z, y) /\ y.sp >= z.sp /\ y.sp >= 1
  /\ y.ps = y.sp /\ Group(z, y.pb, y.sp) /\ Newer(z, y.sp)
  /\ y.found = z.found \o PairsOf(y.pb, y.sp, FALSE)

\* y has found the matches of the streamed row again.
Repeated(z, y) ==
  /\ Placed(y) /\ Frame(z, y) /\ y.sp >= z.sp /\ y.sp >= 1
  /\ y.ps = z.ps /\ y.pb = z.pb /\ PreKeyMatched(y)
  /\ y.found = z.found \o PairsOf(y.pb, y.sp, TRUE)

\* What comes before may go on without a find.
LEMMA KeptGrouped ==
  ASSUME NEW x, NEW y, NEW z, Placed(x), Kept(x, y), Grouped(y, z) PROVE Grouped(x, z)
<1>1. x.sp \in Int /\ y.sp \in Int /\ z.sp \in Int
  BY DEF Placed, Scanner, Kept, Grouped
<1>2. Frame(x, y) /\ x.ps = y.ps /\ x.found = y.found /\ NullFree(x) = NullFree(y) /\ y.sp >= x.sp
  BY NullFreeSame DEF Kept
<1>3. Frame(x, z) /\ z.sp >= x.sp
  BY <1>1, <1>2 DEF Frame, Grouped
<1>4. Group(y, z.pb, z.sp) => Group(x, z.pb, z.sp)
  BY <1>2 DEF Group, Meets, Frame
<1>5. Newer(y, z.sp) => Newer(x, z.sp)
  BY <1>2 DEF Newer, Frame
<1> QED
  BY <1>2, <1>3, <1>4, <1>5 DEF Grouped

\* Matches given again before or behind a walk are given again with it.
LEMMA KeptRepeated ==
  ASSUME NEW x, NEW y, NEW z, Placed(x), Kept(x, y), Repeated(y, z) PROVE Repeated(x, z)
<1>1. x.sp \in Int /\ y.sp \in Int /\ z.sp \in Int
  BY DEF Placed, Scanner, Kept, Repeated
<1> QED
  BY <1>1 DEF Kept, Repeated, Frame

\* SavePrevMatchingRows.
LEMMA SavePrevRepeats ==
  ASSUME NEW z, Placed(z), z.sp >= 1, PreKeyMatched(z)
  PROVE  LET y == SavePrev(z, z.sp, TRUE)
         IN  /\ Repeated(z, y) /\ y.sp = z.sp /\ y.bp = z.bp /\ y.sc = z.sc /\ y.bc = z.bc /\ y.on = z.on
<1> DEFINE q == PairsOf(z.pb, z.sp, TRUE)
           y == SavePrev(z, z.sp, TRUE)
<1>1. z \in Scanner /\ z.pb \in Seq(Int) /\ z.sp \in Int /\ z.found \in Seq(Pair)
  BY DEF Placed, Scanner
<1>2. q \in Seq(Pair)
  BY <1>1, PairsAre
<1>3. y = [z EXCEPT !.found = z.found \o q]
  BY DEF SavePrev, PairsOf
<1>4. z.found \o q \in Seq(Pair)
  <2> HIDE DEF q
  <2> QED
    BY <1>1, <1>2, ConcatProperties
<1> HIDE DEF q
<1>5. /\ y \in Scanner /\ Frame(z, y) /\ y.sp = z.sp /\ y.bp = z.bp /\ y.ps = z.ps /\ y.pb = z.pb
      /\ y.found = z.found \o q /\ y.sc = z.sc /\ y.bc = z.bc /\ y.on = z.on
  BY <1>1, <1>3, <1>4 DEF Scanner, Frame
<1> HIDE DEF y
<1>6. Placed(y)
  BY <1>5 DEF Placed, Frame, InS, InB
<1>7. PreKeyMatched(y)
  BY <1>5 DEF PreKeyMatched, Frame
<1>8. Repeated(z, y)
  BY <1>1, <1>5, <1>6, <1>7 DEF Repeated, q
<1> QED
  BY <1>5, <1>8 DEF y

\* Save: the rows of a group.
LEMMA SaveGroups ==
  ASSUME NEW z, Placed(z), z.sp >= 1, NewKey(z), NEW rows, Group(z, rows, z.sp), NEW final \in Int
  PROVE  LET y == Save(z, z.sp, rows, final)
         IN  /\ Grouped(z, y) /\ y.sp = z.sp /\ y.bp = z.bp /\ y.pbp = final /\ y.sc = z.sc /\ y.bc = z.bc
             /\ y.on = z.on /\ y.sm = z.sm /\ y.bm = z.bm
<1> DEFINE q == PairsOf(rows, z.sp, FALSE)
           w == [z EXCEPT !.ps = z.sp, !.pb = rows, !.pbp = final]
           y == Save(z, z.sp, rows, final)
<1>1. z \in Scanner /\ rows \in Seq(Int) /\ z.sp \in Int /\ z.found \in Seq(Pair)
  BY DEF Placed, Scanner, Group
<1>2. q \in Seq(Pair)
  BY <1>1, PairsAre
<1>3. w \in Scanner /\ w.pb = rows /\ w.found = z.found
  BY <1>1 DEF Scanner
<1>4. y = [w EXCEPT !.found = z.found \o q]
  BY <1>3 DEF Save, SavePrev, PairsOf
<1>5. z.found \o q \in Seq(Pair)
  <2> HIDE DEF q
  <2> QED
    BY <1>1, <1>2, ConcatProperties
<1> HIDE DEF q
<1>6. /\ y \in Scanner /\ Frame(z, y) /\ y.sp = z.sp /\ y.bp = z.bp /\ y.ps = z.sp /\ y.pb = rows
      /\ y.found = z.found \o q /\ y.sc = z.sc /\ y.bc = z.bc /\ y.on = z.on /\ y.sm = z.sm /\ y.bm = z.bm
      /\ y.pbp = final
  BY <1>1, <1>3, <1>4, <1>5, ZenonT(60) DEF Scanner, Frame
<1> HIDE DEF y, w
<1>7. Placed(y)
  BY <1>6 DEF Placed, Frame, InS, InB
<1>8. Grouped(z, y)
  BY <1>1, <1>6, <1>7 DEF Grouped, NewKey, q
<1> QED
  BY <1>6, <1>8 DEF y

\* BufferMissingRows: the null row.
LEMMA MissingGroups ==
  ASSUME NEW z, Placed(z), z.sp >= 1, NewKey(z)
  PROVE  LET y == BufferMissing(z)
         IN  /\ Grouped(z, y) /\ y.sp = z.sp /\ y.bp = z.bp /\ y.sc = z.sc /\ y.bc = z.bc
             /\ y.on = z.on /\ y.sm = z.sm /\ y.bm = z.bm
<1>1. Group(z, <<NoRow>>, z.sp)
  BY DEF Group, NoRow
<1>2. z.bp \in Int
  BY DEF Placed, Scanner
<1> QED
  BY <1>1, <1>2, SaveGroups DEF BufferMissing

\* The buffered side stands behind the rows that meet the streamed one.
Ahead(z) == z.bp \in 1 .. Len(z.B.keys) /\ ~HaveNull(z.B, z.bp) /\ Value(z.B, z.bp) > Value(z.S, z.sp)
Past(z)  == IsDataFinish(z.B, z.bp) \/ Ahead(z)

\* BufferMatchingRows, where the two rows are equal.
LEMMA MatchingGroups ==
  ASSUME NEW z, Placed(z), z.sp >= 1, NewKey(z), z.bp \in 1 .. Len(z.B.keys), ~HaveNull(z.B, z.bp),
         Value(z.B, z.bp) = Value(z.S, z.sp), NullFree(z) \/ ~HaveNull(z.S, z.sp), ~NeedBufferedData(z)
  PROVE  LET y == BufferMatching(z)
         IN  /\ Grouped(z, y) /\ y.sp = z.sp /\ y.sc = z.sc /\ y.bc = z.bc /\ y.bp \in 1 .. Len(z.B.keys)
             /\ y.bp >= z.bp /\ Past(y) /\ y.sm = z.sm /\ (y.pbp = y.bp => IsDataFinish(z.B, y.bp))
<1> DEFINE ends == {i \in Behind(z.B, z.bp) : Seen(z, i) /\ ~Equal(z, i)}
           p == StopOf(z.B, ends)
           rows == Equals(z, p)
           on == p > z.bp
           bm == z.bm /\ p = z.bp
           w == BufferedTo(z, p)
           kept == IF z.first THEN <<rows[1]>> ELSE rows
           final == rows[Len(rows)]
           y == BufferMatching(z)
<1>1. /\ z \in Scanner /\ z.B \in Pages /\ Ordered(z.B) /\ z.bp \in Int /\ z.bp >= 1 /\ z.bp <= Len(z.B.keys)
      /\ Len(z.B.keys) \in Nat /\ z.sp \in Int /\ z.sp \in 1 .. Len(z.S.keys) /\ Ordered(z.S)
  BY PagesLen DEF Placed, Scanner, InS
<1>2. /\ p \in Int /\ z.bp <= p /\ p <= Len(z.B.keys)
      /\ ends = {} => p = Len(z.B.keys)
      /\ ends # {} => p \in ends /\ z.bp < p
  <2>1. ends \subseteq Behind(z.B, z.bp)
    OBVIOUS
  <2> HIDE DEF ends
  <2> QED
    BY <1>1, <2>1, StopIs
<1>3. z.type # "full"
  BY <1>1 DEF Scanner, Types
<1>4. \A i : Equal(z, i) => ~HaveNull(z.B, i) /\ Value(z.B, i) = Value(z.S, z.sp)
  BY <1>3 DEF Equal, Seen
<1>5. /\ rows \in Seq(Int) /\ Len(rows) \in Nat \ {0} /\ rows[1] = z.bp
      /\ \A k \in 1 .. Len(rows) : /\ rows[k] \in z.bp .. p
                                   /\ rows[k] = z.bp \/ Equal(z, rows[k])
  <2> HIDE DEF p
  <2> QED
    BY <1>1, <1>2, EqualsAre
<1>6. y = Save(w, z.sp, kept, final) /\ w = [z EXCEPT !.bp = p, !.on = on, !.bm = bm]
  <2>1. w = [z EXCEPT !.bp = p, !.on = on, !.bm = bm]
    BY DEF BufferedTo
  <2>2. w.sp = z.sp /\ w.first = z.first
    <3> HIDE DEF on, bm, p, w
    <3> QED
      BY <1>1, <2>1 DEF Scanner
  <2>3. y = Keep(w, rows)
    BY DEF BufferMatching
  <2> QED
    BY <2>1, <2>2, <2>3 DEF Keep
<1>7. on \in BOOLEAN /\ bm \in BOOLEAN
  OBVIOUS
<1> HIDE DEF on, bm, w, rows, p
<1>8. /\ w \in Scanner /\ Frame(z, w) /\ w.sp = z.sp /\ w.bp = p /\ w.ps = z.ps /\ w.pb = z.pb /\ w.found = z.found
      /\ w.sc = z.sc /\ w.bc = z.bc /\ w.sm = z.sm
  BY <1>1, <1>2, <1>6, <1>7 DEF Scanner, Frame
<1>9. Placed(w) /\ Kept(z, w)
  <2>1. InS(w) /\ InB(w)
    BY <1>1, <1>2, <1>8, PagesLen DEF Placed, InS, InB, Frame
  <2>2. Placed(w)
    BY <1>8, <2>1 DEF Placed, Frame
  <2> QED
    BY <1>1, <1>8, <2>2 DEF Kept
<1>10. Group(w, kept, z.sp)
  <2>1. \A k \in 1 .. Len(rows) : Meets(w, rows[k], z.sp) /\ rows[1] <= rows[k]
    <3> TAKE k \in 1 .. Len(rows)
    <3>1. rows[k] \in z.bp .. p /\ (rows[k] = z.bp \/ Equal(z, rows[k]))
      BY <1>5
    <3>2. rows[k] \in 1 .. Len(z.B.keys) /\ rows[1] <= rows[k]
      BY <1>1, <1>2, <1>5, <3>1
    <3>3. ~HaveNull(z.B, rows[k]) /\ Value(z.B, rows[k]) = Value(z.S, z.sp)
      BY <1>4, <3>1
    <3> QED
      BY <1>8, <3>2, <3>3, NullFreeSame DEF Meets, Frame
  <2>2. CASE z.first
    <3> DEFINE one == <<rows[1]>>
    <3>1. one \in Seq(Int) /\ one # <<>> /\ Len(one) = 1 /\ one[1] = rows[1] /\ rows[1] \in Int
      BY <1>1, <1>5
    <3>2. kept = one
      BY <2>2
    <3> HIDE DEF one, kept
    <3>3. \A k \in 1 .. Len(one) : one[k] = rows[1] /\ 1 \in 1 .. Len(rows)
      BY <1>5, <3>1
    <3>4. \A k \in 1 .. Len(one) : Meets(w, one[k], z.sp) /\ one[1] <= one[k]
      BY <2>1, <3>1, <3>3
    <3> QED
      BY <3>1, <3>2, <3>4 DEF Group
  <2>3. CASE ~z.first
    <3>1. kept = rows /\ rows # <<>>
      BY <1>5, <2>3
    <3> HIDE DEF kept
    <3> QED
      BY <1>5, <2>1, <3>1 DEF Group
  <2> QED
    BY <2>2, <2>3
<1>11. final \in Int /\ final \in z.bp .. p /\ (final = z.bp \/ Equal(z, final))
  BY <1>1, <1>2, <1>5
<1>12. NewKey(w)
  BY <1>8, NullFreeSame DEF NewKey, Newer, Frame
<1> HIDE DEF kept, final
<1>13. /\ Grouped(w, y) /\ y.sp = z.sp /\ y.bp = p /\ y.pbp = final /\ y.sc = z.sc /\ y.bc = z.bc /\ y.sm = z.sm
  <2> DEFINE v == Save(w, w.sp, kept, final)
  <2>1. Placed(w) /\ w.sp >= 1 /\ NewKey(w) /\ Group(w, kept, w.sp) /\ final \in Int
    BY <1>1, <1>8, <1>9, <1>10, <1>11, <1>12
  <2>2. /\ Grouped(w, v) /\ v.sp = w.sp /\ v.bp = w.bp /\ v.pbp = final /\ v.sc = w.sc /\ v.bc = w.bc
        /\ v.on = w.on /\ v.sm = w.sm /\ v.bm = w.bm
    BY <2>1, SaveGroups
  <2>3. v = y
    BY <1>6, <1>8
  <2> QED
    BY <1>8, <2>2, <2>3
<1>14. Grouped(z, y)
  BY <1>9, <1>13, KeptGrouped
<1>15. y.S = z.S /\ y.B = z.B
  BY <1>14 DEF Grouped, Frame
<1>16. CASE ends = {}
  <2>1. p = Len(z.B.keys)
    BY <1>2, <1>16
  <2>2. z.B.finish
    <3> SUFFICES ASSUME ~z.B.finish PROVE FALSE
      OBVIOUS
    <3> DEFINE n == Len(z.B.keys)
    <3>1. n \in 1 .. Len(z.B.keys) /\ Value(z.S, z.sp) \in Int /\ Value(z.B, n) \in Int /\ Value(z.B, z.bp) \in Int
      BY <1>1, Values, SMTT(40)
    <3>2. Value(z.B, n) > Value(z.S, z.sp)
      BY <3>1 DEF NeedBufferedData
    <3>3. ~HaveNull(z.B, n) /\ n # z.bp
      BY <1>1, <3>1, <3>2, Values
    <3>4. Seen(z, n) /\ ~Equal(z, n)
      BY <3>1, <3>2, <3>3 DEF Seen, Equal
    <3>5. n \in Behind(z.B, z.bp)
      BY <1>1, <3>3 DEF Behind
    <3> QED
      BY <1>16, <3>4, <3>5
  <2>3. IsDataFinish(z.B, y.bp)
    BY <1>1, <1>13, <2>1, <2>2 DEF IsDataFinish
  <2>4. Past(y)
    BY <1>15, <2>3 DEF Past, Ahead
  <2> QED
    BY <1>1, <1>2, <1>13, <1>14, <2>3, <2>4
<1>17. CASE ends # {}
  <2>1. p \in ends /\ z.bp < p
    BY <1>2, <1>17
  <2>2. Seen(z, p) /\ ~Equal(z, p) /\ p \in 1 .. Len(z.B.keys)
    BY <1>1, <1>2, <2>1
  <2>3. final # p
    BY <1>1, <1>2, <1>11, <2>1, <2>2
  <2>4. ~HaveNull(z.B, p) /\ Value(z.B, p) # Value(z.S, z.sp)
    BY <1>3, <2>2 DEF Seen, Equal
  <2>5. Value(z.B, p) \in Int /\ Value(z.B, z.bp) \in Int /\ Value(z.B, z.bp) <= Value(z.B, p)
    BY <1>1, <2>1, <2>2, Values
  <2>6. Past(y)
    BY <1>13, <1>15, <2>2, <2>4, <2>5 DEF Past, Ahead
  <2> QED
    BY <1>1, <1>2, <1>13, <1>14, <2>3, <2>6
<1> QED
  BY <1>16, <1>17

-----------------------------------------------------------------------------
(* The walk of FindNextMatchPos.                                           *)

\* A walk begins at a streamed row and at a buffered row without nulls.
Begun(z) == Placed(z) /\ z.sp >= 1 /\ z.bp \in 1 .. Len(z.B.keys) /\ ~HaveNull(z.B, z.bp)

\* The rows can be compared.
LEMMA BegunCompares ==
  ASSUME NEW z, Placed(z), z.sp >= 1, z.bp \in 1 .. Len(z.B.keys)
  PROVE  /\ z \in Scanner /\ Ordered(z.S) /\ Ordered(z.B) /\ Len(z.B.keys) \in Nat /\ Len(z.S.keys) \in Nat
         /\ z.B.keys # <<>> /\ z.sp \in 1 .. Len(z.S.keys) /\ z.sp \in Int /\ z.bp \in Int
         /\ Value(z.S, z.sp) \in Int /\ Value(z.B, z.bp) \in Int
         /\ Compare(z) \in Int /\ Compare(z) = Value(z.S, z.sp) - Value(z.B, z.bp)
<1>1. /\ z \in Scanner /\ Ordered(z.S) /\ Ordered(z.B) /\ Len(z.B.keys) \in Nat /\ Len(z.S.keys) \in Nat
      /\ z.sp \in 1 .. Len(z.S.keys) /\ z.B.keys # <<>>
  BY PagesLen DEF Placed, Scanner, InS
<1>2. Value(z.S, z.sp) \in Int /\ Value(z.B, z.bp) \in Int
  BY <1>1, Values
<1> QED
  BY <1>1, <1>2 DEF Compare

\* No matches are given again on the way.
NoRepeat(z) == \A y : Kept(z, y) => ~PreKeyMatched(y) \/ y.sp = z.sp

\* x is where n steps have led from z.
Going(z, x, n) ==
  /\ Kept(z, x) /\ x.bp \in z.bp .. Len(z.B.keys) /\ x.sc = z.sc /\ x.bc = z.bc
  /\ x.on => ~HaveNull(z.B, x.bp) /\ (Compare(x) # 0 => x.sp + x.bp >= z.sp + z.bp + n)
  /\ ~x.on => x.cmp # 0

\* A step of one side.
LEMMA MovedGoes ==
  ASSUME NEW z, Begun(z), NEW n \in Nat, NEW x, Going(z, x, n), x.on = TRUE, Compare(x) # 0
  PROVE  Going(z, Moved(x), n + 1)
<1> DEFINE w == IF Compare(x) > 0 THEN AdvanceBufferedFree(x) ELSE AdvanceStreamed(x)
           y == Moved(x)
<1>1. /\ Placed(x) /\ x.S = z.S /\ x.B = z.B /\ x.sp >= z.sp /\ x.sp \in Int /\ z.sp \in Int /\ z.bp \in Int
      /\ x.bp \in Int /\ Placed(z) /\ x.sp >= 1
  BY BegunCompares DEF Begun, Going, Kept, Frame, Placed, Scanner
<1>2. x.bp \in 1 .. Len(x.B.keys) /\ x.bp >= z.bp /\ Len(x.B.keys) \in Nat
  BY <1>1, BegunCompares DEF Begun, Going
<1>3. x.B.keys # <<>> /\ Compare(x) \in Int
  BY <1>1, <1>2, BegunCompares
<1>4. /\ Kept(x, w) /\ w.sc = x.sc /\ w.bc = x.bc /\ w.bp \in x.bp .. Len(x.B.keys)
      /\ w.on => ~HaveNull(x.B, w.bp) /\ w.sp + w.bp > x.sp + x.bp
  <2>1. CASE Compare(x) > 0
    <3> DEFINE v == AdvanceBufferedFree(x)
    <3>1. /\ Kept(x, v) /\ v.sp = x.sp /\ v.bc = x.bc /\ v.sc = x.sc /\ v.bp \in 1 .. Len(x.B.keys) /\ v.bp >= x.bp
          /\ v.on => v.bp > x.bp /\ ~HaveNull(x.B, v.bp)
      BY <1>1, <1>3, AdvanceBufferedFreeKeeps
    <3>2. w = v
      BY <2>1
    <3> HIDE DEF v, w
    <3> QED
      BY <1>1, <1>2, <3>1, <3>2
  <2>2. CASE ~(Compare(x) > 0)
    <3> DEFINE v == AdvanceStreamed(x)
    <3>1. /\ Kept(x, v) /\ v.bp = x.bp /\ v.bc = x.bc /\ v.sc = x.sc
          /\ v.on => v.sp > x.sp /\ (NullFree(x) => ~HaveNull(x.S, v.sp))
      BY <1>1, AdvanceStreamedKeeps
    <3>2. w = v
      BY <2>2
    <3>3. ~HaveNull(x.B, x.bp)
      BY <1>1 DEF Going
    <3> HIDE DEF v, w
    <3>4. v.sp \in Int
      BY <3>1 DEF Kept, Placed, Scanner
    <3> QED
      BY <1>1, <1>2, <3>1, <3>2, <3>3, <3>4
  <2> QED
    BY <2>1, <2>2
<1>5. y = [w EXCEPT !.cmp = Compare(x)]
  BY DEF Moved
<1> HIDE DEF w
<1>6. w \in Scanner /\ w.sp \in Int /\ w.bp \in Int
  BY <1>4 DEF Kept, Placed, Scanner
<1>7. /\ y \in Scanner /\ Frame(w, y) /\ y.sp = w.sp /\ y.bp = w.bp /\ y.ps = w.ps /\ y.pb = w.pb /\ y.found = w.found
      /\ y.sc = w.sc /\ y.bc = w.bc /\ y.on = w.on /\ y.cmp = Compare(x)
  BY <1>3, <1>5, <1>6 DEF Scanner, Frame
<1> HIDE DEF y
<1>8. Kept(w, y)
  BY <1>4, <1>6, <1>7 DEF Kept, Placed, Frame, InS, InB
<1>9. Kept(z, y)
  <2>1. Kept(z, w)
    BY <1>1, <1>4, KeptTwice DEF Going
  <2> QED
    BY <1>1, <1>8, <2>1, KeptTwice
<1>10. y.bp \in z.bp .. Len(z.B.keys)
  BY <1>1, <1>2, <1>4, <1>6, <1>7
<1>11. y.on => ~HaveNull(z.B, y.bp) /\ y.sp + y.bp >= z.sp + z.bp + (n + 1)
  <2>1. x.sp + x.bp >= z.sp + z.bp + n
    BY DEF Going
  <2> QED
    BY <1>1, <1>4, <1>6, <1>7, <2>1, SMTT(40)
<1>12. y.sc = z.sc /\ y.bc = z.bc
  BY <1>4, <1>7 DEF Going
<1> QED
  BY <1>7, <1>9, <1>10, <1>11, <1>12 DEF Going, y

\* The next step.
LEMMA StepGoes ==
  ASSUME NEW z, Begun(z), NoRepeat(z), NEW n \in Nat, NEW x, Going(z, x, n)
  PROVE  Going(z, MatchStep(x, z.sp), n + 1)
<1>1. CASE x.on = TRUE /\ Compare(x) # 0
  <2>1. Going(z, Moved(x), n + 1)
    BY <1>1, MovedGoes
  <2>2. MovedOn(Moved(x), z.sp) = Moved(x)
    <3>1. z.sp \in Int /\ Moved(x).sp \in Int
      BY <2>1 DEF Begun, Going, Kept, Placed, Scanner
    <3>2. ~PreKeyMatched(Moved(x)) \/ Moved(x).sp = z.sp
      BY <2>1 DEF NoRepeat, Going
    <3> DEFINE y == Moved(x)
    <3> HIDE DEF y
    <3>3. ~(y.sp > z.sp /\ PreKeyMatched(y))
      BY <3>1, <3>2 DEF y
    <3>4. Again(y, z.sp) = y
      BY <3>3 DEF Again
    <3> QED
      BY <3>4 DEF MovedOn, y
  <2> QED
    BY <1>1, <2>1, <2>2 DEF MatchStep
<1>2. CASE ~(x.on = TRUE /\ Compare(x) # 0)
  BY <1>2 DEF MatchStep, Going
<1> QED
  BY <1>1, <1>2

\* The state i steps of the walk lead to.
WalkStep(z, f, i) == IF i = 0 THEN z ELSE MatchStep(f[i - 1], z.sp)
IsWalk(z, f, n)  == f = [i \in 0 .. n |-> WalkStep(z, f, i)]

\* They can be walked.
LEMMA SomeWalk == ASSUME NEW z, NEW n \in Nat PROVE \E f : IsWalk(z, f, n)
<1> DEFINE B == {k \in Nat : ~ \E f : IsWalk(z, f, k)}
<1> SUFFICES ASSUME B # {} PROVE FALSE
  OBVIOUS
<1>1. PICK m \in B : \A k \in B : m <= k
  <2>1. B \in SUBSET Nat
    OBVIOUS
  <2> HIDE DEF B
  <2> QED
    BY <2>1, LeastNatural
<1>2. m # 0
  <2>1. IsWalk(z, [i \in 0 .. 0 |-> z], 0)
    BY DEF IsWalk, WalkStep
  <2> QED
    BY <2>1, <1>1
<1>3. PICK g : IsWalk(z, g, m - 1)
  BY <1>1, <1>2
<1> DEFINE h == [i \in 0 .. m |-> IF i = m THEN WalkStep(z, g, m) ELSE g[i]]
<1>4. ASSUME NEW i \in 0 .. m PROVE h[i] = WalkStep(z, h, i)
  <2>1. m \in Nat
    OBVIOUS
  <2>2. i # 0 => h[i - 1] = g[i - 1]
    BY <2>1
  <2>3. h[i] = WalkStep(z, g, i)
    <3>1. CASE i = m
      BY <3>1
    <3>2. CASE i # m
      BY <1>3, <2>1, <3>2 DEF IsWalk
    <3> QED
      BY <3>1, <3>2
  <2> HIDE DEF h
  <2> QED
    BY <2>2, <2>3 DEF WalkStep
<1>5. h = [i \in 0 .. m |-> WalkStep(z, h, i)]
  <2>1. h = [i \in 0 .. m |-> h[i]]
    OBVIOUS
  <2> HIDE DEF h
  <2> QED
    BY <1>4, <2>1
<1> HIDE DEF h
<1>6. IsWalk(z, h, m)
  BY <1>5 DEF IsWalk
<1> QED
  BY <1>1, <1>6

\* FindNextMatchPos.
LEMMA WalkIs ==
  ASSUME NEW z, Steps(z) \in Nat
  PROVE  \E f : /\ IsWalk(z, f, Steps(z))
                /\ FindNextMatchPos(z) = [f[Steps(z)] EXCEPT !.cmp = IF f[Steps(z)].on THEN 0 ELSE @]
<1> DEFINE n == Steps(z)
           g == CHOOSE f : IsWalk(z, f, n)
<1>1. FindNextMatchPos(z) = [g[n] EXCEPT !.cmp = IF g[n].on THEN 0 ELSE @]
  BY DEF FindNextMatchPos, IsWalk, WalkStep
<1>2. IsWalk(z, g, n)
  <2>1. n \in Nat
    OBVIOUS
  <2> HIDE DEF n
  <2> QED
    BY <2>1, SomeWalk
<1> QED
  BY <1>1, <1>2

\* The walk ends at two equal rows, or where a side cannot go on.
LEMMA FindNextMatchPosKeeps ==
  ASSUME NEW z, Begun(z), NoRepeat(z), z.on = TRUE
  PROVE  LET y == FindNextMatchPos(z)
         IN  /\ Kept(z, y) /\ y.bp \in z.bp .. Len(z.B.keys) /\ y.sc = z.sc /\ y.bc = z.bc
             /\ y.on => ~HaveNull(z.B, y.bp) /\ Compare(y) = 0 /\ y.cmp = 0
             /\ ~y.on => y.cmp # 0
<1> DEFINE N == Steps(z)
           LS == Len(z.S.keys)
           LB == Len(z.B.keys)
           y == FindNextMatchPos(z)
<1>1. /\ Placed(z) /\ z.bp \in 1 .. Len(z.B.keys) /\ z.sp >= 1 /\ Len(z.B.keys) \in Nat /\ Len(z.S.keys) \in Nat
      /\ z.sp \in Int /\ z.bp \in Int
  BY BegunCompares DEF Begun
<1>2. N \in Nat /\ LS \in Nat /\ LB \in Nat /\ N = LS + LB + 1
  <2>1. N = LS + LB + 1
    BY DEF Steps
  <2>2. LS \in Nat /\ LB \in Nat
    BY <1>1
  <2> HIDE DEF N, LS, LB
  <2> QED
    BY <2>1, <2>2
<1>3. PICK f : IsWalk(z, f, N) /\ y = [f[N] EXCEPT !.cmp = IF f[N].on THEN 0 ELSE @]
  BY <1>2, WalkIs
<1> HIDE DEF N, y, LS, LB
<1> DEFINE P == {i \in 0 .. N : Going(z, f[i], i)}
<1>4. 0 \in P
  <2>1. f[0] = z
    BY <1>2, <1>3 DEF IsWalk, WalkStep
  <2>2. Going(z, z, 0)
    BY <1>1, KeptSelf DEF Going, Begun
  <2> QED
    BY <1>2, <2>1, <2>2
<1>5. ASSUME NEW i \in 0 .. N, i # N, i \in P PROVE i + 1 \in P
  <2>1. i + 1 \in 0 .. N /\ i + 1 # 0 /\ (i + 1) - 1 = i /\ i \in Nat
    BY <1>2, <1>5
  <2>2. f[i + 1] = MatchStep(f[i], z.sp)
    BY <1>3, <2>1 DEF IsWalk, WalkStep
  <2>3. Going(z, MatchStep(f[i], z.sp), i + 1)
    BY <1>5, <2>1, StepGoes
  <2> QED
    BY <2>1, <2>2, <2>3
<1>6. Going(z, f[N], N)
  <2> HIDE DEF P
  <2>1. \A i \in 0 .. N : i \in P
    BY <1>2, <1>4, <1>5, CountsUp
  <2>2. N \in P
    BY <1>2, <2>1
  <2> QED
    BY <2>2 DEF P
<1> DEFINE x == f[N]
<1> HIDE DEF x
<1>7. Going(z, x, N) /\ y = [x EXCEPT !.cmp = IF x.on THEN 0 ELSE @]
  BY <1>3, <1>6 DEF x
<1>8. x \in Scanner /\ Placed(x) /\ Kept(z, x) /\ x.bp \in z.bp .. Len(z.B.keys) /\ x.sc = z.sc /\ x.bc = z.bc
  BY <1>7 DEF Going, Kept, Placed
<1>9. x.on => Compare(x) = 0
  <2>1. x.sp \in Int /\ x.bp \in Int /\ x.sp <= LS /\ x.bp <= LB
    <3>1. x.sp \in Int /\ x.bp \in Int
      BY <1>8 DEF Scanner
    <3>2. x.sp <= LS
      BY <1>8, <1>2 DEF Placed, Kept, Frame, InS, LS
    <3>3. x.bp <= LB
      BY <1>8, <1>2, <1>1 DEF LB
    <3> QED
      BY <3>1, <3>2, <3>3
  <2>2. z.sp \in Int /\ z.bp \in Int /\ z.sp >= 1 /\ z.bp >= 1
    BY <1>1
  <2>3. x.on /\ Compare(x) # 0 => x.sp + x.bp >= z.sp + z.bp + N
    BY <1>7 DEF Going
  <2> QED
    BY <1>2, <2>1, <2>2, <2>3
<1>10. /\ y \in Scanner /\ Frame(x, y) /\ y.sp = x.sp /\ y.bp = x.bp /\ y.ps = x.ps /\ y.pb = x.pb /\ y.found = x.found
       /\ y.sc = x.sc /\ y.bc = x.bc /\ y.on = x.on /\ y.cmp = IF x.on THEN 0 ELSE x.cmp
  BY <1>7, <1>8, SMTT(40) DEF Scanner, Frame
<1>11. Kept(x, y)
  BY <1>8, <1>10 DEF Kept, Placed, Frame, InS, InB
<1>12. Kept(z, y)
  BY <1>1, <1>8, <1>11, KeptTwice
<1>13. Compare(y) = Compare(x)
  BY <1>10 DEF Compare, Frame
<1>14. x.on => ~HaveNull(z.B, x.bp)
  BY <1>7 DEF Going
<1>15. ~x.on => x.cmp # 0
  BY <1>7 DEF Going
<1> QED
  BY <1>8, <1>9, <1>10, <1>12, <1>13, <1>14, <1>15 DEF y

-----------------------------------------------------------------------------
(* What holds between the rounds.                                          *)

\* What the scanner has asked for.
Coded(z) ==
  /\ z.bc = DATA => /\ z.sc # DATA /\ z.sp >= 1
                    /\ NullFree(z) /\ HaveNull(z.S, z.sp) => AtEnd(z)
                    /\ PreKeyMatched(z) => NullFree(z) /\ AtEnd(z)
  /\ z.bp >= 1 \/ z.bc = DATA \/ (z.sc = DONE /\ z.bc = DONE)

Settled(z) ==
  /\ Placed(z) /\ Matched(z) /\ NullEnd(z)
  /\ NullFree(z) /\ PreKeyMatched(z) => Past(z)
  /\ IF z.on THEN z.bp >= 1 ELSE Coded(z)

\* The rows of the buffered side are there, or there are none.
Supplied(z) == z.B.keys # <<>> \/ (~NullFree(z) /\ z.B.finish)

\* Rows for the streamed row can be looked for.
Finding(z) ==
  /\ Placed(z) /\ Matched(z) /\ NullEnd(z) /\ Supplied(z)
  /\ z.sp >= 1 /\ z.bp >= 1
  /\ NullFree(z) /\ HaveNull(z.S, z.sp) => AtEnd(z)
  /\ NewKey(z) \/ (NullFree(z) /\ AtEnd(z) /\ Ahead(z))

\* The matches are those of the same row when the scanner has only gone on.
LEMMA KeptMatches ==
  ASSUME NEW z, NEW y, Placed(z), Matched(z), NullEnd(z), Kept(z, y), z.sp >= 1
  PROVE  /\ Matched(y) /\ NullEnd(y) /\ (HaveNull(z.S, y.sp) => HaveNull(z.S, z.sp))
         /\ y.sp >= 1 /\ y.S = z.S /\ y.B = z.B /\ NullFree(y) = NullFree(z) /\ (AtEnd(z) => AtEnd(y) /\ y.sp = z.sp)
<1>1. /\ z \in Scanner /\ y \in Scanner /\ Ordered(z.S) /\ z.sp \in 1 .. Len(z.S.keys)
      /\ y.sp \in 1 .. Len(z.S.keys) /\ z.sp <= y.sp /\ Len(z.S.keys) \in Nat
  BY PagesLen DEF Placed, InS, Scanner, Kept, Frame
<1>2. y.ps = z.ps /\ y.pb = z.pb /\ y.S = z.S /\ y.B = z.B /\ NullFree(y) = NullFree(z)
  BY NullFreeSame DEF Kept, Frame
<1>3. HaveNull(z.S, y.sp) => HaveNull(z.S, z.sp)
  BY <1>1, Values
<1>4. Matched(y)
  <2>1. Group(z, z.pb, z.ps) => Group(y, y.pb, y.ps)
    BY <1>2 DEF Group, Meets
  <2>2. z.ps \in 1 .. z.sp => y.ps \in 1 .. y.sp
    BY <1>1, <1>2
  <2> QED
    BY <1>2, <2>1, <2>2 DEF Matched
<1>5. NullEnd(y)
  BY <1>2 DEF NullEnd
<1>6. AtEnd(z) => AtEnd(y) /\ y.sp = z.sp
  BY <1>1, <1>2 DEF AtEnd
<1> QED
  BY <1>1, <1>2, <1>3, <1>4, <1>5, <1>6

\* Ahead stays further on.
LEMMA AheadStays ==
  ASSUME NEW z, NEW y, Placed(z), Placed(y), Frame(z, y), Ahead(z), y.sp = z.sp, y.bp >= z.bp, z.sp >= 1
  PROVE  Ahead(y)
<1>1. /\ z \in Scanner /\ y \in Scanner /\ Ordered(z.B) /\ Ordered(z.S) /\ Len(z.B.keys) \in Nat /\ z.sp \in 1 .. Len(z.S.keys)
      /\ z.bp \in Int /\ y.bp \in Int /\ y.B = z.B /\ y.S = z.S
  BY PagesLen DEF Placed, Scanner, Frame, InS
<1>2. z.bp \in 1 .. Len(z.B.keys) /\ ~HaveNull(z.B, z.bp) /\ Value(z.B, z.bp) > Value(z.S, z.sp)
  BY DEF Ahead
<1>3. y.bp \in 1 .. Len(z.B.keys)
  BY <1>1, <1>2, PagesLen DEF Placed, InB, Ordered
<1>4. /\ Value(z.S, z.sp) \in Int /\ Value(z.B, z.bp) \in Int /\ Value(z.B, y.bp) \in Int
      /\ ~HaveNull(z.B, y.bp) /\ Value(z.B, z.bp) <= Value(z.B, y.bp)
  BY <1>1, <1>2, <1>3, Values
<1> QED
  BY <1>1, <1>2, <1>3, <1>4 DEF Ahead

\* Where the scanner has only gone on, it has a new key, or the last one.
LEMMA KeptOf ==
  ASSUME NEW z, NEW y, Finding(z), Kept(z, y)
  PROVE  /\ Placed(y) /\ Matched(y) /\ NullEnd(y) /\ y.sp >= 1 /\ Frame(z, y) /\ NullFree(y) = NullFree(z)
         /\ NullFree(y) /\ HaveNull(y.S, y.sp) => AtEnd(y)
         /\ NewKey(z) => NewKey(y) /\ ~PreKeyMatched(y)
         /\ ~NewKey(z) => /\ NullFree(y) /\ AtEnd(y) /\ y.sp = z.sp /\ Ahead(z)
                          /\ (y.bp >= z.bp => Ahead(y))
<1>1. /\ Matched(y) /\ NullEnd(y) /\ (HaveNull(z.S, y.sp) => HaveNull(z.S, z.sp))
      /\ y.sp >= 1 /\ y.S = z.S /\ y.B = z.B /\ NullFree(y) = NullFree(z) /\ (AtEnd(z) => AtEnd(y) /\ y.sp = z.sp)
  BY KeptMatches DEF Finding
<1>2. Placed(y) /\ Frame(z, y)
  BY DEF Kept
<1>3. NullFree(y) /\ HaveNull(y.S, y.sp) => AtEnd(y)
  BY <1>1 DEF Finding
<1>4. ASSUME NewKey(z) PROVE NewKey(y) /\ ~PreKeyMatched(y)
  <2>1. NewKey(y)
    BY <1>4, NewKeyStays DEF Finding
  <2> QED
    BY <1>1, <1>2, <2>1, NewOrMatched
<1>5. ASSUME ~NewKey(z) PROVE NullFree(y) /\ AtEnd(y) /\ y.sp = z.sp /\ Ahead(z) /\ (y.bp >= z.bp => Ahead(y))
  <2>1. NullFree(y) /\ AtEnd(y) /\ y.sp = z.sp /\ Ahead(z)
    BY <1>1, <1>5 DEF Finding
  <2>2. y.bp >= z.bp => Ahead(y)
    BY <1>2, <2>1, AheadStays DEF Finding
  <2> QED
    BY <2>1, <2>2
<1> QED
  BY <1>1, <1>2, <1>3, <1>4, <1>5

\* The scanner stops for more streamed or buffered rows.
LEMMA NeedsSettle ==
  ASSUME NEW z, NEW x, Finding(z), Kept(z, x), x.bp >= z.bp \/ NewKey(z)
  PROVE  /\ LET y == NeedBuffered(x)
            IN  Kept(z, y) /\ Settled(y) /\ ~y.on
         /\ x.bp >= 1 => LET y == NeedStreamed(x)
                         IN  Kept(z, y) /\ Settled(y) /\ ~y.on
<1>1. Placed(x) /\ Placed(z)
  BY DEF Kept, Finding
<1>2. ASSUME NEW y, Kept(x, y), y.sp = x.sp, y.bp = x.bp, ~y.on,
             \/ y.sc # DATA /\ (y.bc = DATA \/ (y.sc = DONE /\ y.bc = DONE))
             \/ y.bc # DATA /\ x.bp >= 1
      PROVE  Kept(z, y) /\ Settled(y)
  <2>1. Kept(z, y)
    BY <1>1, <1>2, KeptTwice
  <2>2. /\ Placed(y) /\ Matched(y) /\ NullEnd(y) /\ y.sp >= 1 /\ NullFree(y) = NullFree(z)
        /\ NullFree(y) /\ HaveNull(y.S, y.sp) => AtEnd(y)
        /\ NewKey(z) => ~PreKeyMatched(y)
        /\ ~NewKey(z) => NullFree(y) /\ AtEnd(y) /\ (y.bp >= z.bp => Ahead(y))
    BY <2>1, KeptOf
  <2>3. PreKeyMatched(y) => NullFree(y) /\ AtEnd(y) /\ Past(y)
    BY <1>2, <2>2 DEF Past
  <2>4. Coded(y)
    BY <1>2, <2>2, <2>3 DEF Coded
  <2> QED
    BY <1>2, <2>1, <2>2, <2>3, <2>4 DEF Settled
<1>3. LET y == NeedBuffered(x)
      IN  /\ Kept(x, y) /\ y.sp = x.sp /\ y.bp = x.bp /\ ~y.on
          /\ y.sc # DATA /\ (y.bc = DATA \/ (y.sc = DONE /\ y.bc = DONE))
  <2>1. DATA \in Codes /\ DONE \in Codes /\ SCAN \in Codes /\ DATA # DONE /\ DATA # SCAN
    BY DEF Codes, DATA, DONE, SCAN
  <2>2. \E s, b \in Codes : NeedBuffered(x) = Status(x, s, b) /\ s # DATA /\ (b = DATA \/ (s = DONE /\ b = DONE))
    BY <2>1 DEF NeedBuffered
  <2> QED
    BY <1>1, <2>2, StatusKeeps
<1>4. LET y == NeedStreamed(x)
      IN  Kept(x, y) /\ y.sp = x.sp /\ y.bp = x.bp /\ y.bc # DATA /\ ~y.on
  BY <1>1, NeedsKeep
<1> QED
  BY <1>2, <1>3, <1>4

\* The scanner goes back one buffered row.
LEMMA BackKeeps ==
  ASSUME NEW z, Placed(z), z.bp >= 1, z.B.keys # <<>>, NEW p, p \in {z.bp, z.bp - 1}
  PROVE  LET y == [z EXCEPT !.bp = p]
         IN  Kept(z, y) /\ y.sp = z.sp /\ y.bp = p /\ y.on = z.on /\ y.sm = z.sm
<1> DEFINE y == [z EXCEPT !.bp = p]
<1>1. z \in Scanner /\ z.bp \in Int /\ z.bp >= 1 /\ z.bp <= Len(z.B.keys) /\ Len(z.B.keys) \in Nat /\ z.B \in Pages
  BY PagesLen DEF Placed, Scanner, InB
<1>2. p \in Int /\ p >= 0 /\ p <= Len(z.B.keys)
  BY <1>1
<1>3. /\ y \in Scanner /\ Frame(z, y) /\ y.sp = z.sp /\ y.bp = p /\ y.ps = z.ps /\ y.pb = z.pb /\ y.found = z.found
      /\ y.on = z.on /\ y.sm = z.sm
  BY <1>1, <1>2 DEF Scanner, Frame
<1> HIDE DEF y
<1>4. InS(y) /\ InB(y)
  BY <1>1, <1>2, <1>3 DEF Placed, Frame, InS, InB
<1>5. Kept(z, y)
  BY <1>1, <1>3, <1>4 DEF Kept, Placed, Frame, Scanner
<1> QED
  BY <1>3, <1>5 DEF y

\* Flags of the walk change nothing that was found.
LEMMA FlagsKeep ==
  ASSUME NEW z, NEW y, Placed(z), NEW on \in BOOLEAN, NEW sm \in BOOLEAN, NEW bm \in BOOLEAN,
         y = [z EXCEPT !.on = on, !.sm = sm, !.bm = bm]
  PROVE  /\ Kept(z, y) /\ y.sp = z.sp /\ y.bp = z.bp /\ y.on = on /\ y.sc = z.sc /\ y.bc = z.bc /\ y.sm = sm
         /\ y.pbp = z.pbp /\ (Past(z) => Past(y))
<1>1. z \in Scanner
  BY DEF Placed
<1>2. /\ y \in Scanner /\ Frame(z, y) /\ y.sp = z.sp /\ y.bp = z.bp /\ y.ps = z.ps /\ y.pb = z.pb /\ y.found = z.found
      /\ y.on = on /\ y.sc = z.sc /\ y.bc = z.bc /\ y.pbp = z.pbp /\ y.sm = sm
  BY <1>1 DEF Scanner, Frame
<1>3. Kept(z, y)
  BY <1>1, <1>2 DEF Kept, Placed, Frame, Scanner, InS, InB
<1>4. Past(z) => Past(y)
  BY <1>2 DEF Past, Ahead, Frame
<1> QED
  BY <1>2, <1>3, <1>4

\* The scanner goes on in the next round.
LEMMA GoesKeeps ==
  ASSUME NEW z, Placed(z)
  PROVE  LET y == Goes(z)
         IN  /\ Kept(z, y) /\ y.sp = z.sp /\ y.bp = z.bp /\ y.on = TRUE /\ y.sc = z.sc /\ y.bc = z.bc
             /\ Past(z) => Past(y)
<1> DEFINE y == Goes(z)
<1>1. z \in Scanner
  BY DEF Placed
<1>2. /\ y \in Scanner /\ Frame(z, y) /\ y.sp = z.sp /\ y.bp = z.bp /\ y.ps = z.ps /\ y.pb = z.pb /\ y.found = z.found
      /\ y.on = TRUE /\ y.sc = z.sc /\ y.bc = z.bc
  BY <1>1 DEF Scanner, Frame, Goes
<1> HIDE DEF y
<1>3. Kept(z, y)
  BY <1>1, <1>2 DEF Kept, Placed, Frame, Scanner, InS, InB
<1>4. Past(z) => Past(y)
  BY <1>2 DEF Past, Ahead, Frame
<1> QED
  BY <1>2, <1>3, <1>4 DEF y

\* A group that was found stays found when the walk goes on.
LEMMA GroupedKept ==
  ASSUME NEW x, NEW y, NEW z, Placed(x), Grouped(x, y), Kept(y, z), z.sp = y.sp PROVE Grouped(x, z)
<1>1. Frame(x, z) /\ Placed(z) /\ z.sp >= x.sp /\ z.sp >= 1
  BY DEF Grouped, Kept, Frame
<1>2. z.ps = z.sp /\ z.pb = y.pb /\ z.found = y.found
  BY DEF Grouped, Kept
<1> QED
  BY <1>1, <1>2 DEF Grouped

\* Behind a group the scanner is settled.
LEMMA GroupedSettles ==
  ASSUME NEW z, NEW y, Placed(z), Grouped(z, y), y.on = TRUE, y.bp >= 1, NullFree(z) => Past(y),
         NullFree(z) /\ HaveNull(z.S, y.sp) => AtEnd(y)
  PROVE  Settled(y)
<1>1. /\ Placed(y) /\ y.S = z.S /\ y.B = z.B /\ NullFree(y) = NullFree(z) /\ y.ps = y.sp /\ y.sp >= 1 /\ y.sp \in Int
      /\ Group(z, y.pb, y.sp)
  BY NullFreeSame DEF Grouped, Frame, Placed, Scanner
<1>2. Matched(y)
  <2>1. Group(y, y.pb, y.ps)
    BY <1>1 DEF Group, Meets
  <2> QED
    BY <1>1, <2>1 DEF Matched
<1>3. NullEnd(y)
  BY <1>1 DEF NullEnd, AtEnd
<1> QED
  BY <1>1, <1>2, <1>3 DEF Settled

\* And so it is where it has only gone on.
LEMMA KeptSettles ==
  ASSUME NEW z, NEW y, Finding(z), NewKey(z), Kept(z, y), y.on = TRUE, y.bp >= 1 PROVE Settled(y)
  BY KeptOf DEF Settled

\* To a buffered row further on.
LEMMA BufferedToKeeps ==
  ASSUME NEW z, Placed(z), z.bp >= 1, z.B.keys # <<>>, NEW p \in z.bp .. Len(z.B.keys)
  PROVE  LET y == BufferedTo(z, p)
         IN  Kept(z, y) /\ y.sp = z.sp /\ y.bp = p /\ y.sm = z.sm
<1> DEFINE on == p > z.bp
           bm == z.bm /\ p = z.bp
           y  == BufferedTo(z, p)
<1>1. y = [z EXCEPT !.bp = p, !.on = on, !.bm = bm]
  BY DEF BufferedTo
<1>2. on \in BOOLEAN /\ bm \in BOOLEAN
  OBVIOUS
<1>3. z \in Scanner /\ z.bp \in Int /\ z.bp >= 1 /\ z.bp <= Len(z.B.keys) /\ Len(z.B.keys) \in Nat /\ z.B \in Pages
  BY PagesLen DEF Placed, Scanner, InB
<1>4. p \in Int /\ p >= 1 /\ p <= Len(z.B.keys)
  BY <1>3
<1> HIDE DEF on, bm, y
<1>5. /\ y \in Scanner /\ Frame(z, y) /\ y.sp = z.sp /\ y.bp = p /\ y.ps = z.ps /\ y.pb = z.pb /\ y.found = z.found
      /\ y.sm = z.sm
  BY <1>1, <1>2, <1>3, <1>4 DEF Scanner, Frame
<1>6. InS(y) /\ InB(y)
  BY <1>3, <1>4, <1>5 DEF Placed, Frame, InS, InB
<1>7. Kept(z, y)
  BY <1>3, <1>5, <1>6 DEF Kept, Placed, Frame, Scanner
<1> QED
  BY <1>5, <1>7 DEF y

-----------------------------------------------------------------------------
(* Looking for the rows of a streamed row.                                 *)

\* A group that has been found ends the round.
LEMMA GroupEnds ==
  ASSUME NEW z, NEW x, NEW y, NEW v, Finding(z), Kept(z, x), NewKey(z), Grouped(x, v), v.sp = x.sp,
         Kept(v, y), y.sp = v.sp, y.on = TRUE, y.bp >= 1, NullFree(z) => Past(y)
  PROVE  Grouped(z, y) /\ Settled(y)
<1>1. Placed(z) /\ Placed(x)
  BY DEF Finding, Kept
<1>2. Grouped(z, v)
  BY <1>1, KeptGrouped
<1>3. Grouped(z, y)
  BY <1>1, <1>2, GroupedKept
<1>4. NullFree(z) /\ HaveNull(z.S, y.sp) => AtEnd(y)
  <2>1. NullFree(x) /\ HaveNull(x.S, x.sp) => AtEnd(x)
    BY KeptOf
  <2>2. NullFree(x) = NullFree(z) /\ x.S = z.S /\ y.S = z.S /\ y.sp = x.sp
    BY <1>3, NullFreeSame DEF Kept, Grouped, Frame
  <2> QED
    BY <2>1, <2>2 DEF AtEnd
<1> QED
  BY <1>1, <1>3, <1>4, GroupedSettles

\* FindMatchingRows.
LEMMA FindMatchingKeeps ==
  ASSUME NEW z, Finding(z), NullFree(z)
  PROVE  LET y == FindMatchingRows(z)
         IN  (Kept(z, y) \/ Grouped(z, y)) /\ Settled(y)
<1> DEFINE w == SkipNulls(z)
           x == FindNextMatchPos(w)
           y == FindMatchingRows(z)
<1>1. Placed(z) /\ z.B.keys # <<>> /\ z.bp >= 1 /\ z.sp >= 1 /\ z.bp \in Int /\ z \in Scanner
  BY DEF Finding, Supplied, Placed, Scanner
<1>2. /\ Kept(z, w) /\ w.sp = z.sp /\ w.bp \in 1 .. Len(z.B.keys) /\ w.bp >= z.bp
      /\ w.on => ~HaveNull(z.B, w.bp)
  BY <1>1, SkipNullsKeeps
<1>3. y = MatchFrom(w)
  BY DEF FindMatchingRows
<1>4. Placed(w) /\ w \in Scanner /\ w.B = z.B /\ w.S = z.S /\ w.bp \in Int /\ w.sp \in Int
  BY <1>2 DEF Kept, Placed, Frame, Scanner
<1> HIDE DEF w, y
<1>5. CASE ~w.on
  <2>1. y = NeedBuffered(w)
    BY <1>3, <1>5 DEF MatchFrom
  <2> QED
    BY <1>2, <2>1, NeedsSettle DEF y
<1>6. CASE w.on
  <2>1. Begun(w) /\ w.on = TRUE
    BY <1>1, <1>2, <1>4, <1>6 DEF Begun, Scanner
  <2>2. NoRepeat(w)
    <3> SUFFICES ASSUME NEW v, Kept(w, v) PROVE ~PreKeyMatched(v) \/ v.sp = w.sp
      BY DEF NoRepeat
    <3>1. Kept(z, v)
      BY <1>1, <1>2, KeptTwice
    <3> QED
      BY <1>2, <3>1, KeptOf
  <2>3. /\ Kept(w, x) /\ x.bp \in w.bp .. Len(w.B.keys)
        /\ x.on => ~HaveNull(w.B, x.bp) /\ Compare(x) = 0 /\ x.cmp = 0
        /\ ~x.on => x.cmp # 0
    BY <2>1, <2>2, FindNextMatchPosKeeps
  <2>4. y = AtMatchPos(x)
    BY <1>3, <1>6 DEF MatchFrom
  <2> HIDE DEF x
  <2>5. Kept(z, x)
    BY <1>1, <1>2, <2>3, KeptTwice
  <2>6. /\ Placed(x) /\ x \in Scanner /\ x.B = z.B /\ x.S = z.S /\ x.bp \in Int /\ x.bp >= z.bp /\ x.bp \in 1 .. Len(x.B.keys)
        /\ x.sp >= 1 /\ x.cmp \in Int /\ NullFree(x) /\ x.B.keys # <<>>
    <3>1. Placed(x) /\ x \in Scanner /\ x.B = z.B /\ x.S = z.S /\ x.bp \in Int /\ x.cmp \in Int
      BY <2>5 DEF Kept, Placed, Frame, Scanner
    <3>2. x.bp >= z.bp /\ x.bp \in 1 .. Len(x.B.keys)
      BY <1>1, <1>2, <1>4, <2>3, <3>1
    <3>3. x.sp >= 1 /\ NullFree(x)
      BY <2>5, KeptOf
    <3> QED
      BY <1>1, <3>1, <3>2, <3>3
  <2>7. Ordered(x.S) /\ Ordered(x.B) /\ x.sp \in 1 .. Len(x.S.keys) /\ Value(x.S, x.sp) \in Int /\ Value(x.B, x.bp) \in Int
        /\ Compare(x) = Value(x.S, x.sp) - Value(x.B, x.bp) /\ Len(x.B.keys) \in Nat
    BY <2>6, BegunCompares
  <2>8. ~NewKey(z) => Ahead(x)
    BY <2>5, <2>6, KeptOf
  <2>9. CASE NeedBufferedData(x)
    <3> DEFINE v == [x EXCEPT !.bp = x.bp - 1]
    <3>1. y = NeedBuffered(v)
      BY <2>4, <2>9 DEF AtMatchPos
    <3>2. Kept(x, v)
      <4> DEFINE p == x.bp - 1
      <4>1. p \in {x.bp, x.bp - 1} /\ x.bp >= 1
        BY <2>6
      <4>2. v = [x EXCEPT !.bp = p]
        OBVIOUS
      <4> HIDE DEF p, v
      <4> QED
        BY <2>6, <4>1, <4>2, BackKeeps
    <3>3. Kept(z, v)
      BY <1>1, <2>5, <3>2, KeptTwice
    <3>4. NewKey(z)
      <4> SUFFICES ASSUME Ahead(x) PROVE FALSE
        BY <2>8
      <4> DEFINE n == Len(x.B.keys)
      <4>1. n \in 1 .. Len(x.B.keys) /\ x.bp <= n
        BY <2>6, <2>7
      <4>2. Value(x.B, n) \in Int /\ Value(x.B, x.bp) <= Value(x.B, n)
        BY <2>6, <2>7, <4>1, Values DEF Ahead
      <4> QED
        BY <2>7, <2>9, <4>2 DEF Ahead, NeedBufferedData
    <3> HIDE DEF v
    <3> QED
      BY <3>1, <3>3, <3>4, NeedsSettle DEF y
  <2>10. CASE ~NeedBufferedData(x) /\ x.cmp # 0
    <3>1. y = NeedBuffered(x) \/ y = NeedStreamed(x)
      BY <2>4, <2>6, <2>10 DEF AtMatchPos
    <3> QED
      BY <2>5, <2>6, <3>1, NeedsSettle DEF y
  <2>11. CASE ~NeedBufferedData(x) /\ x.cmp = 0
    <3> DEFINE v == BufferMatching(x)
    <3>1. y = Goes(v)
      BY <2>4, <2>11 DEF AtMatchPos, Goes
    <3>2. x.on /\ ~HaveNull(x.B, x.bp) /\ Value(x.B, x.bp) = Value(x.S, x.sp)
      BY <1>4, <2>3, <2>6, <2>7, <2>11
    <3>3. NewKey(z)
      BY <2>7, <2>8, <3>2 DEF Ahead
    <3>4. NewKey(x)
      BY <2>5, <3>3, KeptOf
    <3>5. Grouped(x, v) /\ v.sp = x.sp /\ v.bp \in 1 .. Len(x.B.keys) /\ Past(v)
      BY <2>6, <2>11, <3>2, <3>4, MatchingGroups
    <3> HIDE DEF v
    <3>6. Placed(v) /\ v \in Scanner
      BY <3>5 DEF Grouped, Placed
    <3>8. Kept(v, y) /\ y.sp = v.sp /\ y.bp = v.bp /\ y.on = TRUE /\ Past(y)
      BY <3>1, <3>5, <3>6, GoesKeeps
    <3>9. y.bp >= 1
      BY <2>6, <3>5, <3>8
    <3>10. Grouped(z, y) /\ Settled(y)
      BY <2>5, <3>3, <3>5, <3>8, <3>9, GroupEnds
    <3> QED
      BY <3>10 DEF y
  <2> QED
    BY <2>9, <2>10, <2>11
<1> QED
  BY <1>5, <1>6

\* Of a left or an anti join the streamed row has a key nothing was found for.
LEMMA GoesEnds ==
  ASSUME NEW z, NEW x, NEW y, Finding(z), ~NullFree(z), Kept(z, x), y = Goes(x), x.bp >= 1
  PROVE  Kept(z, y) /\ Settled(y)
<1>1. NewKey(z) /\ Placed(z) /\ Placed(x)
  BY DEF Finding, Kept
<1>2. Kept(x, y) /\ y.bp = x.bp /\ y.on = TRUE
  BY <1>1, GoesKeeps
<1>3. Kept(z, y)
  BY <1>1, <1>2, KeptTwice
<1> QED
  BY <1>1, <1>2, <1>3, KeptSettles

\* The end of the round with a group, whatever flags are set behind it.
LEMMA LeftGroupEnds ==
  ASSUME NEW z, NEW x, NEW v, NEW u, NEW y, Finding(z), ~NullFree(z), Kept(z, x), Grouped(x, v), v.sp = x.sp,
         Kept(v, u), u.sp = v.sp, u.bp >= 1, y = Goes(u)
  PROVE  Grouped(z, y) /\ Settled(y)
<1>1. NewKey(z) /\ Placed(z) /\ Placed(v) /\ Placed(u)
  BY DEF Finding, Kept, Grouped
<1>2. Kept(u, y) /\ y.sp = u.sp /\ y.bp = u.bp /\ y.on = TRUE
  BY <1>1, GoesKeeps
<1>3. Kept(v, y) /\ y.sp = v.sp
  BY <1>1, <1>2, KeptTwice
<1> QED
  BY <1>1, <1>2, <1>3, GroupEnds

\* LeftCompare, of a buffered row without nulls behind which none is smaller than the
\* streamed one.
LEMMA LeftCompareKeeps ==
  ASSUME NEW z, NEW x, Finding(z), ~NullFree(z), Kept(z, x), x.sp = z.sp, ~HaveNull(z.S, z.sp),
         x.bp \in 1 .. Len(x.B.keys), x.bp >= z.bp, ~HaveNull(x.B, x.bp), ~NeedBufferedData(x)
  PROVE  LET y == LeftCompare(x)
         IN  (Kept(z, y) \/ Grouped(z, y)) /\ Settled(y)
<1> DEFINE y == LeftCompare(x)
<1>1. Placed(z) /\ Placed(x) /\ x.sp >= 1 /\ NewKey(x) /\ ~NullFree(x) /\ x.S = z.S /\ x.B.keys # <<>>
  <2>1. Placed(z) /\ NewKey(z) /\ Placed(x) /\ x.S = z.S
    BY DEF Finding, Kept, Frame
  <2>2. x.sp >= 1 /\ NewKey(x) /\ ~NullFree(x)
    BY <2>1, KeptOf
  <2>3. x.B.keys # <<>>
    BY <2>1, PagesLen DEF Placed, Scanner
  <2> QED
    BY <2>1, <2>2, <2>3
<1>2. /\ x \in Scanner /\ Compare(x) \in Int /\ Compare(x) = Value(x.S, x.sp) - Value(x.B, x.bp)
      /\ Value(x.S, x.sp) \in Int /\ Value(x.B, x.bp) \in Int /\ x.bp \in Int
  BY <1>1, BegunCompares
<1>3. CASE Compare(x) > 0
  <2>1. CASE IsDataFinish(x.B, x.bp)
    <3> DEFINE v == BufferMissing(x)
    <3>1. y = Goes(v)
      BY <1>3, <2>1 DEF LeftCompare
    <3>2. Grouped(x, v) /\ v.sp = x.sp /\ v.bp = x.bp
      BY <1>1, MissingGroups
    <3> HIDE DEF v, y
    <3>3. Kept(v, v) /\ v.bp >= 1
      BY <1>2, <3>2, KeptSelf DEF Grouped
    <3>4. Grouped(z, y) /\ Settled(y)
      BY <3>1, <3>2, <3>3, LeftGroupEnds
    <3> QED
      BY <3>4 DEF y
  <2>2. CASE ~IsDataFinish(x.B, x.bp)
    <3>1. y = NeedBuffered(x)
      BY <1>3, <2>2 DEF LeftCompare
    <3> QED
      BY <3>1, NeedsSettle
  <2> QED
    BY <2>1, <2>2
<1>4. CASE Compare(x) < 0
  <2>1. CASE x.sm
    <3>1. y = Goes(x)
      BY <1>2, <1>4, <2>1 DEF LeftCompare
    <3> HIDE DEF y
    <3>2. Kept(z, y) /\ Settled(y)
      BY <1>2, <3>1, GoesEnds
    <3> QED
      BY <3>2 DEF y
  <2>2. CASE ~x.sm
    <3> DEFINE v == BufferMissing(x)
               p == IF v.bp > 1 THEN v.bp - 1 ELSE v.bp
               t == [v EXCEPT !.sm = TRUE]
               u == [v EXCEPT !.sm = TRUE, !.bp = p]
    <3>1. y = Goes(u)
      BY <1>2, <1>4, <2>2 DEF LeftCompare
    <3>2. Grouped(x, v) /\ v.sp = x.sp /\ v.bp = x.bp
      BY <1>1, MissingGroups
    <3>3. Placed(v) /\ v \in Scanner /\ v.bp \in Int /\ v.bp >= 1 /\ v.B.keys # <<>>
      BY <1>1, <1>2, <3>2 DEF Grouped, Placed, Frame
    <3>4. p \in Int /\ p >= 1 /\ p \in {v.bp, v.bp - 1}
      BY <3>3
    <3> HIDE DEF v, p, y
    <3>5. /\ u \in Scanner /\ Frame(v, u) /\ u.sp = v.sp /\ u.bp = p /\ u.ps = v.ps /\ u.pb = v.pb /\ u.found = v.found
      BY <3>3, <3>4 DEF Scanner, Frame
    <3> HIDE DEF u
    <3>6. Kept(v, u)
      <4>1. InS(u) /\ InB(u)
        <5>1. v.bp <= Len(v.B.keys) /\ Len(v.B.keys) \in Nat
          BY <3>3, PagesLen DEF Placed, InB, Scanner
        <5> QED
          BY <3>3, <3>4, <3>5, <5>1 DEF Placed, Frame, InS, InB
      <4> QED
        BY <3>3, <3>5, <4>1 DEF Kept, Placed, Frame, Scanner
    <3>7. Grouped(z, y) /\ Settled(y)
      BY <3>1, <3>2, <3>4, <3>5, <3>6, LeftGroupEnds
    <3> QED
      BY <3>7 DEF y
  <2> QED
    BY <2>1, <2>2
<1>5. CASE Compare(x) = 0
  <2> DEFINE v == BufferMatching(x)
             u == [v EXCEPT !.sm = TRUE]
             t == [u EXCEPT !.bm = FALSE]
             s == [u EXCEPT !.bm = TRUE]
  <2>1. y = LeftMatched(u)
    BY <1>5 DEF LeftCompare
  <2>2. Value(x.B, x.bp) = Value(x.S, x.sp)
    BY <1>2, <1>5
  <2>3. Grouped(x, v) /\ v.sp = x.sp /\ v.bp \in 1 .. Len(x.B.keys) /\ (v.pbp = v.bp => IsDataFinish(x.B, v.bp))
    BY <1>1, <2>2, MatchingGroups
  <2> HIDE DEF v
  <2>4. Placed(v) /\ v \in Scanner /\ v.B = x.B /\ v.bp >= 1 /\ v.bp \in Int
    BY <2>3 DEF Grouped, Placed, Frame, Scanner
  <2>5. u \in Scanner /\ u.bp = v.bp /\ u.pbp = v.pbp /\ u.B = x.B
    BY <2>4 DEF Scanner
  <2>6. y = Goes(t) \/ y = Goes(s)
    BY <2>1, <2>3, <2>5 DEF LeftMatched
  <2>7. /\ t \in Scanner /\ Frame(v, t) /\ t.sp = v.sp /\ t.bp = v.bp /\ t.ps = v.ps /\ t.pb = v.pb /\ t.found = v.found
        /\ s \in Scanner /\ Frame(v, s) /\ s.sp = v.sp /\ s.bp = v.bp /\ s.ps = v.ps /\ s.pb = v.pb /\ s.found = v.found
    BY <2>4 DEF Scanner, Frame
  <2> HIDE DEF t, s, u, y
  <2>8. Kept(v, t) /\ Kept(v, s)
    BY <2>4, <2>7 DEF Kept, Placed, Frame, Scanner, InS, InB
  <2>9. Grouped(z, y) /\ Settled(y)
    <3>1. CASE y = Goes(t)
      BY <2>3, <2>4, <2>7, <2>8, <3>1, LeftGroupEnds
    <3>2. CASE y = Goes(s)
      BY <2>3, <2>4, <2>7, <2>8, <3>2, LeftGroupEnds
    <3> QED
      BY <2>6, <3>1, <3>2
  <2> QED
    BY <2>9 DEF y
<1> QED
  BY <1>2, <1>3, <1>4, <1>5

\* LeftOuterFindJoinRows.
LEMMA LeftFindKeeps ==
  ASSUME NEW z, Finding(z), ~NullFree(z)
  PROVE  LET y == LeftOuterFindJoinRows(z)
         IN  (Kept(z, y) \/ Grouped(z, y)) /\ Settled(y)
<1> DEFINE bufferedFinished == IsEmptyBatch(z.B) \/ (IsDataFinish(z.B, z.bp) /\ z.bm)
           w == SkipNulls(z)
           y == LeftOuterFindJoinRows(z)
<1>1. Placed(z) /\ z.bp >= 1 /\ z.sp >= 1 /\ z.bp \in Int /\ z \in Scanner /\ NewKey(z)
  BY DEF Finding, Placed, Scanner
<1>2. CASE HaveNull(z.S, z.sp) \/ bufferedFinished
  <2>1. CASE z.sm
    <3>1. y = Goes(z)
      BY <1>2, <2>1 DEF LeftOuterFindJoinRows
    <3> HIDE DEF y
    <3>2. Kept(z, z)
      BY <1>1, KeptSelf
    <3>3. Kept(z, y) /\ Settled(y)
      BY <1>1, <3>1, <3>2, GoesEnds
    <3> QED
      BY <3>3 DEF y
  <2>2. CASE ~z.sm
    <3> DEFINE v == BufferMissing(z)
    <3>1. y = Goes(v)
      BY <1>2, <2>2 DEF LeftOuterFindJoinRows
    <3>2. Grouped(z, v) /\ v.sp = z.sp /\ v.bp = z.bp
      BY <1>1, MissingGroups
    <3> HIDE DEF v, y
    <3>3. Kept(v, v) /\ v.bp >= 1 /\ Kept(z, z)
      BY <1>1, <3>2, KeptSelf DEF Grouped
    <3>4. Grouped(z, y) /\ Settled(y)
      BY <3>1, <3>2, <3>3, LeftGroupEnds
    <3> QED
      BY <3>4 DEF y
  <2> QED
    BY <2>1, <2>2
<1>3. CASE ~(HaveNull(z.S, z.sp) \/ bufferedFinished)
  <2>1. z.B.keys # <<>>
    BY <1>3 DEF Finding, Supplied, IsEmptyBatch
  <2>2. /\ Kept(z, w) /\ w.sp = z.sp /\ w.bp \in 1 .. Len(z.B.keys) /\ w.bp >= z.bp
        /\ w.on => ~HaveNull(z.B, w.bp)
    BY <1>1, <2>1, SkipNullsKeeps
  <2>3. y = LeftWalk(w)
    BY <1>3 DEF LeftOuterFindJoinRows
  <2>4. Placed(w) /\ w \in Scanner /\ w.B = z.B /\ w.S = z.S /\ w.bp \in Int /\ w.bp >= 1 /\ ~NullFree(w)
    BY <2>2, NullFreeSame DEF Kept, Placed, Frame, Scanner
  <2> HIDE DEF w, y
  <2>5. CASE ~w.on
    <3>1. y = NeedBuffered(w)
      BY <2>3, <2>5 DEF LeftWalk
    <3> QED
      BY <2>2, <3>1, NeedsSettle DEF y
  <2>6. CASE w.on /\ NeedBufferedData(w)
    <3> DEFINE p == IF w.bm THEN w.bp ELSE w.bp - 1
               v == [w EXCEPT !.bp = p]
    <3>1. y = NeedBuffered(v)
      BY <2>3, <2>6 DEF LeftWalk
    <3>2. Kept(w, v)
      <4>1. p \in {w.bp, w.bp - 1}
        OBVIOUS
      <4> HIDE DEF p
      <4> QED
        BY <2>1, <2>4, <4>1, BackKeeps
    <3> HIDE DEF v
    <3>3. Kept(z, v)
      BY <1>1, <2>2, <3>2, KeptTwice
    <3> QED
      BY <1>1, <3>1, <3>3, NeedsSettle DEF y
  <2>7. CASE w.on /\ ~NeedBufferedData(w)
    <3> DEFINE p == IF Compare(w) <= 0 THEN w.bp ELSE StopOf(w.B, NotSmaller(w))
               x == BufferedTo(w, p)
    <3>1. y = LeftCompare(x)
      BY <2>3, <2>7 DEF LeftWalk
    <3>2. p \in w.bp .. Len(w.B.keys)
      <4>1. NotSmaller(w) \subseteq Behind(w.B, w.bp)
        BY DEF NotSmaller
      <4>2. w.B \in Pages /\ Len(w.B.keys) \in Nat /\ w.bp <= Len(w.B.keys)
        BY <2>2, <2>4, PagesLen DEF Scanner
      <4>3. StopOf(w.B, NotSmaller(w)) \in w.bp .. Len(w.B.keys)
        BY <2>4, <4>1, <4>2, StopIs
      <4> QED
        BY <2>4, <4>2, <4>3
    <3> HIDE DEF p
    <3>3. Kept(w, x) /\ x.sp = w.sp /\ x.bp = p
      BY <2>1, <2>4, <3>2, BufferedToKeeps
    <3> HIDE DEF x
    <3>4. Kept(z, x) /\ x.sp = z.sp
      BY <1>1, <2>2, <3>3, KeptTwice
    <3>5. x.B = z.B /\ x.S = z.S
      BY <3>4 DEF Kept, Frame
    <3>6. Ordered(z.B) /\ Len(z.B.keys) \in Nat
      BY <1>1, PagesLen DEF Placed, Scanner
    <3>7. x.bp \in 1 .. Len(x.B.keys) /\ x.bp >= z.bp /\ ~HaveNull(x.B, x.bp)
      <4>1. p \in 1 .. Len(z.B.keys) /\ w.bp <= p
        BY <2>2, <2>4, <3>2, <3>6
      <4>2. ~HaveNull(z.B, p)
        BY <2>2, <2>7, <3>6, <4>1, Values
      <4> QED
        BY <1>1, <2>2, <2>4, <3>3, <3>5, <4>1, <4>2
    <3>8. ~NeedBufferedData(x)
      BY <2>4, <2>2, <2>7, <3>4, <3>5 DEF NeedBufferedData
    <3>9. ~HaveNull(z.S, z.sp)
      BY <1>3
    <3>10. (Kept(z, LeftCompare(x)) \/ Grouped(z, LeftCompare(x))) /\ Settled(LeftCompare(x))
      BY <3>4, <3>7, <3>8, <3>9, LeftCompareKeeps
    <3> QED
      BY <3>1, <3>10 DEF y
  <2> QED
    BY <2>5, <2>6, <2>7
<1> QED
  BY <1>2, <1>3

\* Either of the two.
LEMMA FindKeeps ==
  ASSUME NEW z, Finding(z)
  PROVE  LET y == Find(z)
         IN  (Kept(z, y) \/ Grouped(z, y)) /\ Settled(y)
<1>1. z.type \in Types
  BY DEF Finding, Placed, Scanner
<1>2. CASE NullFree(z)
  <2>1. Find(z) = FindMatchingRows(z)
    BY <1>2 DEF Find, NullFree
  <2> QED
    BY <1>2, <2>1, FindMatchingKeeps
<1>3. CASE ~NullFree(z)
  <2>1. z.type = "left" \/ z.type = "anti"
    BY <1>1, <1>3 DEF NullFree, Types
  <2>2. Find(z) = LeftOuterFindJoinRows(z)
    BY <2>1 DEF Find
  <2> QED
    BY <1>3, <2>2, LeftFindKeeps
<1> QED
  BY <1>2, <1>3

-----------------------------------------------------------------------------
(* A round.                                                                *)

Stepped(z, y) == Kept(z, y) \/ Grouped(z, y) \/ Repeated(z, y)

\* Before the first streamed row there are no matches, and they stay what they are.
LEMMA KeptStays ==
  ASSUME NEW z, NEW y, Placed(z), Matched(z), NullEnd(z), Kept(z, y)
  PROVE  /\ Placed(y) /\ Matched(y) /\ NullEnd(y) /\ y.S = z.S /\ y.B = z.B /\ NullFree(y) = NullFree(z)
         /\ y.ps = z.ps /\ y.pb = z.pb /\ y.sp \in Int /\ z.sp \in Int /\ z.sp <= y.sp
<1>1. CASE z.sp >= 1
  BY <1>1, KeptMatches DEF Kept, Placed, Scanner
<1>2. CASE ~(z.sp >= 1)
  <2>1. /\ Placed(y) /\ y.S = z.S /\ y.B = z.B /\ NullFree(y) = NullFree(z)
        /\ y.ps = z.ps /\ y.pb = z.pb /\ y.sp \in Int /\ z.sp \in Int /\ z.sp <= y.sp
    BY NullFreeSame DEF Kept, Placed, Scanner, Frame
  <2>2. z.ps = NoRow /\ z.pb = <<>>
    BY <1>2, <2>1 DEF Matched
  <2> QED
    BY <2>1, <2>2 DEF Matched, NullEnd
<1> QED
  BY <1>1, <1>2

\* A row behind the streamed one with the key of the matches: then so has the streamed one.
LEMMA MatchedBefore ==
  ASSUME NEW z, NEW y, Placed(z), Matched(z), NullEnd(z), Kept(z, y), NullFree(z), PreKeyMatched(y)
  PROVE  /\ PreKeyMatched(z) /\ z.sp >= 1 /\ Value(z.S, z.sp) = Value(z.S, y.sp)
         /\ y.sp > z.sp => ~HaveNull(z.S, y.sp)
<1>1. /\ Placed(y) /\ y.S = z.S /\ y.ps = z.ps /\ y.pb = z.pb /\ y.sp \in Int /\ z.sp \in Int /\ z.sp <= y.sp
      /\ NullFree(y)
  BY KeptStays
<1>2. z.ps # NoRow /\ z.pb # <<>> /\ Value(z.S, z.ps) = Value(z.S, y.sp)
  BY <1>1 DEF PreKeyMatched
<1>3. z.ps \in 1 .. z.sp
  BY <1>2 DEF Matched
<1>4. Ordered(z.S) /\ y.sp <= Len(z.S.keys) /\ Len(z.S.keys) \in Nat
  BY <1>1, PagesLen DEF Placed, InS, Scanner
<1>5. z.ps \in 1 .. Len(z.S.keys) /\ z.sp \in 1 .. Len(z.S.keys) /\ y.sp \in 1 .. Len(z.S.keys) /\ z.ps <= z.sp
  BY <1>1, <1>3, <1>4
<1>6. CASE y.sp = z.sp
  BY <1>1, <1>2, <1>5, <1>6 DEF PreKeyMatched, NullFree
<1>7. CASE y.sp # z.sp
  <2>1. ~HaveNull(z.S, z.ps)
    BY <1>1, <1>2, <1>4, <1>5, <1>7 DEF NullEnd
  <2>2. ~HaveNull(z.S, z.sp) /\ Value(z.S, z.ps) <= Value(z.S, z.sp)
    BY <1>4, <1>5, <2>1, Values
  <2>3. ~HaveNull(z.S, y.sp) /\ Value(z.S, z.sp) <= Value(z.S, y.sp)
    BY <1>1, <1>4, <1>5, <2>2, Values
  <2>4. Value(z.S, z.ps) \in Int /\ Value(z.S, z.sp) \in Int
    BY <1>4, <1>5, Values
  <2>5. Value(z.S, z.sp) = Value(z.S, z.ps)
    BY <1>2, <2>2, <2>3, <2>4
  <2> QED
    BY <1>2, <1>5, <2>3, <2>5 DEF PreKeyMatched, NullFree
<1> QED
  BY <1>6, <1>7

\* SavePrevMatchingRows ends a round.
LEMMA RepeatEnds ==
  ASSUME NEW w, Placed(w), Matched(w), NullEnd(w), w.sp >= 1, w.bp >= 1, PreKeyMatched(w), NullFree(w) => Past(w)
  PROVE  LET y == Goes(SavePrev(w, w.sp, TRUE))
         IN  Repeated(w, y) /\ Settled(y) /\ y.sp = w.sp
<1> DEFINE v == SavePrev(w, w.sp, TRUE)
           y == Goes(v)
<1>1. Repeated(w, v) /\ v.sp = w.sp /\ v.bp = w.bp
  BY SavePrevRepeats
<1> HIDE DEF v
<1>2. Placed(v) /\ Frame(w, v) /\ v.ps = w.ps /\ v.pb = w.pb /\ PreKeyMatched(v)
  BY <1>1 DEF Repeated
<1>3. Kept(v, y) /\ y.sp = v.sp /\ y.bp = v.bp /\ y.on = TRUE /\ (Past(v) => Past(y))
  BY <1>2, GoesKeeps
<1> HIDE DEF y
<1>4. Past(w) => Past(v)
  BY <1>1, <1>2 DEF Past, Ahead, Frame
<1>5. Placed(y) /\ y.S = w.S /\ y.B = w.B /\ NullFree(y) = NullFree(w) /\ y.ps = w.ps /\ y.pb = w.pb /\ y.sp = w.sp
      /\ Frame(w, y) /\ y.found = v.found /\ y.type = w.type
  BY <1>1, <1>2, <1>3, NullFreeSame DEF Kept, Frame
<1>6. PreKeyMatched(y)
  BY <1>5 DEF PreKeyMatched
<1>7. Repeated(w, y)
  BY <1>1, <1>5, <1>6 DEF Repeated
<1>8. Matched(y) /\ NullEnd(y)
  BY <1>5 DEF Matched, NullEnd, Group, Meets
<1>9. Settled(y)
  BY <1>1, <1>3, <1>4, <1>5, <1>8 DEF Settled
<1> QED
  BY <1>5, <1>7, <1>9 DEF y, v

\* Round.
LEMMA RoundKeeps ==
  ASSUME NEW z, Settled(z), z.on = TRUE, Supplied(z)
  PROVE  LET y == Round(z)
         IN  Stepped(z, y) /\ Settled(y) /\ (y.on => y.sp > z.sp)
<1> DEFINE w == AdvanceStreamed(z)
           y == Round(z)
<1>1. Placed(z) /\ Matched(z) /\ NullEnd(z) /\ z.bp >= 1 /\ (NullFree(z) /\ PreKeyMatched(z) => Past(z))
  BY DEF Settled
<1>2. /\ Kept(z, w) /\ w.bp = z.bp
      /\ w.on => w.sp > z.sp /\ (NullFree(z) => ~HaveNull(z.S, w.sp))
      /\ ~w.on => w.sp = Len(z.S.keys) /\ (w.sp = z.sp \/ (NullFree(z) /\ HaveNull(z.S, w.sp)))
  BY <1>1, AdvanceStreamedKeeps
<1>3. y = RunStep(w)
  BY DEF Round
<1> HIDE DEF w, y
<1>4. /\ Placed(w) /\ Matched(w) /\ NullEnd(w) /\ w.S = z.S /\ w.B = z.B /\ NullFree(w) = NullFree(z)
      /\ w.ps = z.ps /\ w.pb = z.pb /\ w.sp \in Int /\ z.sp \in Int /\ z.sp <= w.sp
  BY <1>1, <1>2, KeptStays
<1>5. NullFree(w) /\ PreKeyMatched(w) => Past(w)
  <2> SUFFICES ASSUME NullFree(w), PreKeyMatched(w) PROVE Past(w)
    OBVIOUS
  <2>1. PreKeyMatched(z) /\ Value(z.S, z.sp) = Value(z.S, w.sp)
    BY <1>1, <1>2, <1>4, MatchedBefore
  <2> QED
    BY <1>1, <1>2, <1>4, <2>1 DEF Past, Ahead
<1>6. CASE ~w.on
  <2>1. y = NeedStreamed(w)
    BY <1>3, <1>6 DEF RunStep
  <2>2. Kept(w, y) /\ y.sp = w.sp /\ y.bp = w.bp /\ y.bc # DATA /\ ~y.on
    BY <1>4, <2>1, NeedsKeep
  <2>3. Kept(z, y)
    BY <1>1, <1>2, <2>2, KeptTwice
  <2>4. Placed(y) /\ Matched(y) /\ NullEnd(y) /\ y.S = w.S /\ y.B = w.B /\ NullFree(y) = NullFree(w)
        /\ y.ps = w.ps /\ y.pb = w.pb /\ y.type = w.type
    BY <1>4, <2>2, KeptStays DEF Kept, Frame
  <2>5. PreKeyMatched(y) => PreKeyMatched(w)
    BY <2>2, <2>4 DEF PreKeyMatched
  <2>6. Past(w) => Past(y)
    BY <2>2, <2>4 DEF Past, Ahead
  <2>7. Coded(y)
    BY <1>1, <1>2, <2>2 DEF Coded
  <2>8. Settled(y)
    BY <1>5, <2>2, <2>4, <2>5, <2>6, <2>7 DEF Settled
  <2> QED
    BY <2>2, <2>3, <2>8 DEF Stepped, y
<1>7. CASE w.on /\ PreKeyMatched(w)
  <2>1. y = Goes(SavePrev(w, w.sp, TRUE))
    BY <1>3, <1>7 DEF RunStep
  <2>2. w.sp >= 1 /\ w.bp >= 1 /\ w.sp > z.sp
    BY <1>1, <1>2, <1>4, <1>7 DEF Placed, InS
  <2>3. Repeated(w, y) /\ Settled(y) /\ y.sp = w.sp
    BY <1>4, <1>5, <1>7, <2>1, <2>2, RepeatEnds
  <2>4. Repeated(z, y)
    BY <1>1, <1>2, <2>3, KeptRepeated
  <2> QED
    BY <2>2, <2>3, <2>4 DEF Stepped, y
<1>8. CASE w.on /\ ~PreKeyMatched(w)
  <2>1. y = Find(w)
    BY <1>3, <1>8 DEF RunStep
  <2>2. w.sp >= 1 /\ w.bp >= 1 /\ w.sp > z.sp
    BY <1>1, <1>2, <1>4, <1>8 DEF Placed, InS
  <2>3. Finding(w)
    <3>1. NewKey(w)
      BY <1>4, <1>8, <2>2, NewOrMatched
    <3>2. NullFree(w) => ~HaveNull(w.S, w.sp)
      BY <1>2, <1>4, <1>8
    <3>3. Supplied(w)
      BY <1>4 DEF Supplied
    <3> QED
      BY <1>4, <2>2, <3>1, <3>2, <3>3 DEF Finding
  <2>4. (Kept(w, y) \/ Grouped(w, y)) /\ Settled(y)
    BY <2>1, <2>3, FindKeeps
  <2>5. Kept(z, y) \/ Grouped(z, y)
    BY <1>1, <1>2, <2>4, KeptTwice, KeptGrouped
  <2>6. y.sp > z.sp
    <3>1. y.sp >= w.sp /\ y.sp \in Int
      BY <2>4 DEF Kept, Grouped, Placed, Scanner
    <3> QED
      BY <1>4, <2>2, <3>1
  <2> QED
    BY <2>4, <2>5, <2>6 DEF Stepped, y
<1> QED
  BY <1>6, <1>7, <1>8

-----------------------------------------------------------------------------
(* The pairs that wait to be built into rows: L, from the one behind off;  *)
(* prev is the streamed row of the last one built, unm the batch of the    *)
(* last one that freed batches.                                            *)

Due(L, off) == off + 1 .. Len(L)
Met(p)      == p.b # NoRow

\* The rows of the buffered side with keys that come later are not freed.
Lasting(z) ==
  /\ z.ps # NoRow /\ (NullFree(z) \/ ~HaveNull(z.S, z.ps))
  /\ \A i \in 1 .. Len(z.B.keys) :
       ~HaveNull(z.B, i) /\ Value(z.B, i) > Value(z.S, z.ps) => z.B.batch[i] >= z.B.freed

\* The rows of a pair are not freed.
Given(z, prev, p) ==
  /\ p.s \in 1 .. z.sp /\ z.S.batch[p.s] >= z.S.freed /\ prev <= p.s
  /\ Met(p) => /\ Meets(z, p.b, p.s) /\ z.B.batch[p.b] >= z.B.freed
               /\ z.ps # NoRow /\ (NullFree(z) \/ ~HaveNull(z.S, z.ps))
               /\ Value(z.S, p.s) <= Value(z.S, z.ps)

\* Pairs come in the order of their rows.
InTurn(z, p, q) == p.s <= q.s /\ (Met(p) /\ Met(q) => Value(z.S, p.s) <= Value(z.S, q.s))

\* The pair i comes with the first row of its group, behind another of its group, or with a
\* streamed row whose batch has freed what it can.
Foremost(z, L, off, i) ==
  /\ \A k \in Due(L, off) : k > i /\ Met(L[k]) /\ Value(z.B, L[k].b) = Value(z.B, L[i].b) => L[i].b <= L[k].b
  /\ \A k \in 1 .. Len(z.pb) : z.pb[k] # NoRow /\ Value(z.B, z.pb[k]) = Value(z.B, L[i].b) => L[i].b <= z.pb[k]
Follows(L, off, i) == i > off + 1 /\ ~L[i - 1].pre /\ Met(L[i - 1]) /\ L[i - 1].s = L[i].s
Lead(z, L, off, unm, i) == Foremost(z, L, off, i) \/ Follows(L, off, i) \/ z.S.batch[L[i].s] <= unm

\* What was freed lies before what is used.
Unfreed(z, prev) ==
  /\ prev = -1 \/ (prev \in 1 .. z.sp /\ z.S.batch[prev] >= z.S.freed)
  /\ IF z.sp = 0 THEN z.S.freed = 0 ELSE z.S.freed <= z.S.batch[z.sp]
  /\ z.B.freed # 0 => Lasting(z)
  /\ \A k \in 1 .. Len(z.pb) : z.pb[k] # NoRow => z.B.batch[z.pb[k]] >= z.B.freed

Listed(z, L, off, prev, unm) ==
  /\ L \in Seq(Pair) /\ off \in 0 .. Len(L) /\ prev \in Int /\ unm \in Int
  /\ Unfreed(z, prev)
  /\ \A i \in Due(L, off) : Given(z, prev, L[i])
  /\ \A i, k \in Due(L, off) : i < k => InTurn(z, L[i], L[k])
  /\ \A i \in Due(L, off) : Met(L[i]) /\ ~L[i].pre => Lead(z, L, off, unm, i)

\* Going on without a find.
LEMMA ListedKept ==
  ASSUME NEW z, NEW y, Placed(z), Kept(z, y), NEW L, NEW off, NEW prev, NEW unm, Listed(z, L, off, prev, unm)
  PROVE  Listed(y, L, off, prev, unm)
<1>1. /\ y.S = z.S /\ y.B = z.B /\ y.ps = z.ps /\ y.pb = z.pb /\ y.sp \in Int /\ z.sp \in Int /\ z.sp <= y.sp
      /\ NullFree(y) = NullFree(z) /\ z.sp >= 0 /\ Ordered(z.S) /\ y.sp <= Len(z.S.keys) /\ Len(z.S.keys) \in Nat
      /\ z.S.freed \in Nat /\ prev \in Int
  <2>1. z \in Scanner /\ y \in Scanner /\ Frame(z, y) /\ z.S \in Pages /\ Ordered(z.S)
    BY DEF Kept, Placed, Scanner
  <2>2. /\ y.S = z.S /\ y.B = z.B /\ y.ps = z.ps /\ y.pb = z.pb /\ y.sp \in Int /\ z.sp \in Int /\ z.sp <= y.sp
        /\ z.sp >= 0 /\ y.sp <= Len(z.S.keys)
    BY <2>1 DEF Kept, Frame, Placed, Scanner, InS
  <2>3. Len(z.S.keys) \in Nat /\ z.S.freed \in Nat
    BY <2>1, PagesLen DEF Pages
  <2>4. NullFree(y) = NullFree(z) /\ prev \in Int
    BY <2>1, NullFreeSame DEF Listed
  <2> QED
    BY <2>1, <2>2, <2>3, <2>4
<1>2. Unfreed(y, prev)
  <2>1. prev = -1 \/ (prev \in 1 .. y.sp /\ z.S.batch[prev] >= z.S.freed)
    BY <1>1 DEF Unfreed, Listed
  <2>2. IF y.sp = 0 THEN z.S.freed = 0 ELSE z.S.freed <= z.S.batch[y.sp]
    <3>1. CASE z.sp = 0
      <4>1. z.S.freed = 0
        BY <3>1 DEF Unfreed, Listed
      <4>2. y.sp # 0 => z.S.batch[y.sp] \in Nat
        BY <1>1, Values
      <4> QED
        BY <4>1, <4>2
    <3>2. CASE z.sp # 0
      <4>1. z.sp \in 1 .. Len(z.S.keys) /\ y.sp \in 1 .. Len(z.S.keys)
        BY <1>1, <3>2
      <4>2. z.S.batch[z.sp] \in Nat /\ z.S.batch[y.sp] \in Nat /\ z.S.batch[z.sp] <= z.S.batch[y.sp]
        BY <1>1, <4>1, Values
      <4>3. z.S.freed <= z.S.batch[z.sp]
        BY <3>2 DEF Unfreed, Listed
      <4> QED
        BY <1>1, <4>1, <4>2, <4>3
    <3> QED
      BY <3>1, <3>2
  <2>3. z.B.freed # 0 => Lasting(y)
    BY <1>1 DEF Unfreed, Listed, Lasting
  <2> QED
    BY <1>1, <2>1, <2>2, <2>3 DEF Unfreed, Listed
<1>3. \A i \in Due(L, off) : Given(y, prev, L[i])
  <2> TAKE i \in Due(L, off)
  <2>1. Given(z, prev, L[i])
    BY DEF Listed
  <2>2. L[i].s \in 1 .. y.sp
    BY <1>1, <2>1 DEF Given
  <2>3. Meets(z, L[i].b, L[i].s) => Meets(y, L[i].b, L[i].s)
    BY <1>1 DEF Meets
  <2> QED
    BY <1>1, <2>1, <2>2, <2>3 DEF Given
<1>4. \A i, k \in Due(L, off) : i < k => InTurn(y, L[i], L[k])
  BY <1>1 DEF Listed, InTurn
<1>5. \A i \in Due(L, off) : Met(L[i]) /\ ~L[i].pre => Lead(y, L, off, unm, i)
  <2> TAKE i \in Due(L, off)
  <2>1. Foremost(z, L, off, i) => Foremost(y, L, off, i)
    BY <1>1 DEF Foremost
  <2> QED
    BY <1>1, <2>1 DEF Listed, Lead
<1> QED
  BY <1>2, <1>3, <1>4, <1>5 DEF Listed

\* M is L with the pairs of a group behind it.
Added(L, M, off, rows, s, pre) ==
  /\ M \in Seq(Pair) /\ Len(L) \in Nat /\ Len(rows) \in Nat /\ Len(M) = Len(L) + Len(rows) /\ off \in 0 .. Len(M)
  /\ \A i \in Due(M, off) : \/ i \in Due(L, off) /\ M[i] = L[i] /\ i <= Len(L)
                            \/ /\ i > Len(L) /\ i - Len(L) \in 1 .. Len(rows)
                               /\ M[i] = [s |-> s, b |-> rows[i - Len(L)], pre |-> pre, same |-> i - Len(L) > 1]
  /\ \A i \in Due(L, off) : i \in Due(M, off) /\ i \in Int /\ i <= Len(L) /\ M[i] = L[i] /\ M[i] \in Pair
                            /\ (i > off + 1 => i - 1 \in Due(L, off))

\* A list to which the pairs of a group are added.
LEMMA PairsAdded ==
  ASSUME NEW L \in Seq(Pair), NEW off \in 0 .. Len(L), NEW rows \in Seq(Int), NEW s \in Int, NEW pre \in BOOLEAN
  PROVE  Added(L, L \o PairsOf(rows, s, pre), off, rows, s, pre)
<1> DEFINE q == PairsOf(rows, s, pre)
           M == L \o q
           N == Len(L)
           R == Len(rows)
<1>1. q \in Seq(Pair) /\ Len(q) = R /\ N \in Nat /\ R \in Nat
      /\ \A i \in 1 .. R : q[i] = [s |-> s, b |-> rows[i], pre |-> pre, same |-> i > 1]
  BY PairsAre, LenProperties
<1> HIDE DEF q
<1>2. M \in Seq(Pair) /\ Len(M) = N + R /\ (\A i \in 1 .. N : M[i] = L[i]) /\ (\A i \in N + 1 .. N + R : M[i] = q[i - N])
  <2>1. /\ M \in Seq(Pair) /\ Len(M) = N + Len(q)
        /\ \A i \in 1 .. N + Len(q) : M[i] = IF i <= N THEN L[i] ELSE q[i - N]
    <3> HIDE DEF R
    <3>1. L \in Seq(Pair) /\ q \in Seq(Pair)
      BY <1>1
    <3> QED
      BY <3>1, ConcatProperties
  <2> HIDE DEF M, N, R
  <2>2. \A i \in 1 .. N : M[i] = L[i]
    BY <1>1, <2>1
  <2>3. \A i \in N + 1 .. N + R : M[i] = q[i - N]
    BY <1>1, <2>1
  <2> QED
    BY <1>1, <2>1, <2>2, <2>3
<1>3. off \in 0 .. N /\ off \in Int
  BY <1>1
<1>4. \A i \in 1 .. N : L[i] \in Pair
  BY ElementOfSeq
<1> HIDE DEF M, N, R
<1>5. \A i \in off + 1 .. N + R : \/ i \in off + 1 .. N /\ M[i] = L[i] /\ i <= N
                                  \/ /\ i > N /\ i - N \in 1 .. R
                                     /\ M[i] = [s |-> s, b |-> rows[i - N], pre |-> pre, same |-> i - N > 1]
  <2> TAKE i \in off + 1 .. N + R
  <2>1. CASE i <= N
    BY <1>1, <1>2, <1>3, <2>1
  <2>2. CASE i > N
    <3>1. i - N \in 1 .. R /\ i \in N + 1 .. N + R
      BY <1>1, <1>3, <2>2
    <3> QED
      BY <1>1, <1>2, <2>2, <3>1
  <2> QED
    BY <1>1, <2>1, <2>2
<1>6. \A i \in off + 1 .. N : i \in off + 1 .. N + R /\ i \in Int /\ i <= N /\ M[i] = L[i] /\ M[i] \in Pair
                              /\ (i > off + 1 => i - 1 \in off + 1 .. N)
  BY <1>1, <1>2, <1>3, <1>4
<1>7. Due(L, off) = off + 1 .. N /\ Due(M, off) = off + 1 .. N + R
  BY <1>2 DEF Due, N
<1>8. M \in Seq(Pair) /\ N \in Nat /\ R \in Nat /\ Len(M) = N + R /\ off \in 0 .. Len(M)
  BY <1>1, <1>2, <1>3
<1> QED
  BY <1>5, <1>6, <1>7, <1>8 DEF M, N, R, q, Added

\* What is not freed of the streamed side is what comes later.
LEMMA UnfreedGrows ==
  ASSUME NEW z, Placed(z), NEW prev \in Int, Unfreed(z, prev), NEW p \in Int, z.sp <= p, p <= Len(z.S.keys)
  PROVE  /\ prev = -1 \/ (prev \in 1 .. p /\ z.S.batch[prev] >= z.S.freed)
         /\ IF p = 0 THEN z.S.freed = 0 ELSE z.S.freed <= z.S.batch[p]
         /\ prev <= p
<1>1. /\ z.sp \in Int /\ z.sp >= 0 /\ Ordered(z.S) /\ Len(z.S.keys) \in Nat /\ z.S.freed \in Nat /\ z.sp <= Len(z.S.keys)
  <2>1. z \in Scanner /\ z.S \in Pages /\ Ordered(z.S) /\ z.sp \in 0 .. Len(z.S.keys)
    BY DEF Placed, Scanner, InS
  <2>2. Len(z.S.keys) \in Nat /\ z.S.freed \in Nat /\ z.sp \in Int
    BY <2>1, PagesLen DEF Pages, Scanner
  <2> QED
    BY <2>1, <2>2
<1>2. prev = -1 \/ (prev \in 1 .. p /\ z.S.batch[prev] >= z.S.freed)
  BY <1>1 DEF Unfreed
<1>3. IF p = 0 THEN z.S.freed = 0 ELSE z.S.freed <= z.S.batch[p]
  <2>1. CASE z.sp = 0
    <3>1. z.S.freed = 0
      BY <2>1 DEF Unfreed
    <3>2. p # 0 => z.S.batch[p] \in Nat
      BY <1>1, Values
    <3> QED
      BY <3>1, <3>2
  <2>2. CASE z.sp # 0
    <3>1. z.sp \in 1 .. Len(z.S.keys) /\ p \in 1 .. Len(z.S.keys)
      BY <1>1, <2>2
    <3>2. z.S.batch[z.sp] \in Nat /\ z.S.batch[p] \in Nat /\ z.S.batch[z.sp] <= z.S.batch[p]
      BY <1>1, <3>1, Values
    <3>3. z.S.freed <= z.S.batch[z.sp]
      BY <2>2 DEF Unfreed
    <3> QED
      BY <1>1, <3>1, <3>2, <3>3
  <2> QED
    BY <2>1, <2>2
<1> QED
  BY <1>1, <1>2, <1>3

\* A group of a new key.
LEMMA ListedGrouped ==
  ASSUME NEW z, NEW y, Placed(z), Matched(z), Grouped(z, y), NEW L, NEW off, NEW prev, NEW unm, Listed(z, L, off, prev, unm)
  PROVE  Listed(y, L \o PairsOf(y.pb, y.sp, FALSE), off, prev, unm)
<1> DEFINE rows == y.pb
           s == y.sp
           new == FALSE
           M == L \o PairsOf(rows, s, new)
           N == Len(L)
<1>1. /\ y.S = z.S /\ y.B = z.B /\ y.ps = s /\ s \in Int /\ z.sp \in Int /\ z.sp <= s /\ s >= 1 /\ z.sp >= 0
      /\ NullFree(y) = NullFree(z) /\ Ordered(z.S) /\ Ordered(z.B) /\ s <= Len(z.S.keys) /\ Len(z.S.keys) \in Nat
      /\ z.S.freed \in Nat /\ z.B.freed \in Nat /\ s \in 1 .. Len(z.S.keys) /\ z.ps \in Int
  <2>1. z \in Scanner /\ y \in Scanner /\ Frame(z, y) /\ z.S \in Pages /\ z.B \in Pages /\ Ordered(z.S) /\ Ordered(z.B)
    BY DEF Grouped, Placed, Scanner
  <2>2. /\ y.S = z.S /\ y.B = z.B /\ y.ps = s /\ s \in Int /\ z.sp \in Int /\ z.sp <= s /\ s >= 1 /\ z.sp >= 0
        /\ s <= Len(z.S.keys) /\ z.ps \in Int
    BY <2>1 DEF Grouped, Frame, Placed, Scanner, InS
  <2>3. Len(z.S.keys) \in Nat /\ z.S.freed \in Nat /\ z.B.freed \in Nat
    BY <2>1, PagesLen DEF Pages
  <2>4. NullFree(y) = NullFree(z)
    BY <2>1, NullFreeSame
  <2> QED
    BY <2>1, <2>2, <2>3, <2>4
<1>2. L \in Seq(Pair) /\ off \in 0 .. Len(L) /\ prev \in Int /\ unm \in Int /\ rows \in Seq(Int) /\ Unfreed(z, prev)
  BY DEF Listed, Grouped, Group
<1>21. new \in BOOLEAN /\ new = FALSE
  OBVIOUS
<1> HIDE DEF rows, s, N, new
<1>22. Added(L, M, off, rows, s, new)
  BY <1>1, <1>2, <1>21, PairsAdded
<1> HIDE DEF M
<1>3. /\ M \in Seq(Pair) /\ N \in Nat /\ Len(rows) \in Nat /\ Len(M) = N + Len(rows) /\ off \in 0 .. Len(M)
      /\ \A i \in Due(M, off) : \/ i \in Due(L, off) /\ M[i] = L[i] /\ i <= N
                                \/ /\ i > N /\ i - N \in 1 .. Len(rows)
                                   /\ M[i] = [s |-> s, b |-> rows[i - N], pre |-> new, same |-> i - N > 1]
      /\ \A i \in Due(L, off) : i \in Due(M, off) /\ i \in Int /\ i <= N /\ M[i] = L[i] /\ M[i] \in Pair
                                /\ (i > off + 1 => i - 1 \in Due(L, off))
  BY <1>22 DEF Added, N
<1>31. N \in Nat /\ off \in 0 .. N /\ off \in Int /\ Len(M) \in Nat
  <2>1. Len(M) \in Nat /\ Len(L) \in Nat
    BY <1>2, <1>3, LenProperties
  <2> QED
    BY <1>2, <2>1 DEF N
<1>4. Value(z.S, s) \in Int
  BY <1>1, Values
<1>5. z.ps # NoRow /\ (NullFree(z) \/ ~HaveNull(z.S, z.ps)) =>
        ~HaveNull(z.S, s) /\ Value(z.S, z.ps) < Value(z.S, s)
  BY DEF Grouped, Newer, s
<1>6. \A k \in 1 .. Len(rows) : rows[k] # NoRow => /\ Meets(z, rows[k], s) /\ rows[1] <= rows[k] /\ z.B.batch[rows[k]] >= z.B.freed
                                                   /\ \A l \in 1 .. Len(rows) : rows[l] # NoRow
  <2> TAKE k \in 1 .. Len(rows)
  <2> SUFFICES ASSUME rows[k] # NoRow
               PROVE  /\ Meets(z, rows[k], s) /\ rows[1] <= rows[k] /\ z.B.batch[rows[k]] >= z.B.freed
                      /\ \A l \in 1 .. Len(rows) : rows[l] # NoRow
    OBVIOUS
  <2>1. \A l \in 1 .. Len(rows) : Meets(z, rows[l], s) /\ rows[1] <= rows[l]
    <3>1. Group(z, rows, s)
      BY DEF Grouped, rows, s
    <3>2. rows # <<NoRow>>
      <4> SUFFICES ASSUME rows = <<NoRow>> PROVE FALSE
        OBVIOUS
      <4> DEFINE q == <<NoRow>>
      <4>1. Len(q) = 1 /\ q[1] = NoRow
        OBVIOUS
      <4>2. rows = q
        OBVIOUS
      <4> HIDE DEF q
      <4> QED
        BY <4>1, <4>2
    <3> QED
      BY <3>1, <3>2 DEF Group
  <2>2. rows[k] \in 1 .. Len(z.B.keys) /\ Value(z.B, rows[k]) = Value(z.S, s) /\ ~HaveNull(z.B, rows[k])
    BY <2>1 DEF Meets
  <2>3. z.B.batch[rows[k]] \in Nat
    BY <1>1, <2>2, Values
  <2>4. z.B.freed # 0 => z.B.batch[rows[k]] >= z.B.freed
    BY <1>2, <1>4, <1>5, <2>2 DEF Unfreed, Lasting
  <2>5. \A l \in 1 .. Len(rows) : rows[l] # NoRow
    BY <1>1, <2>1 DEF Meets, NoRow
  <2> QED
    BY <2>1, <2>3, <2>4, <2>5
<1>7. \A i \in Due(L, off) : Met(L[i]) => /\ Value(z.S, L[i].s) < Value(z.S, s) /\ Value(z.B, L[i].b) = Value(z.S, L[i].s)
                                          /\ Value(z.S, L[i].s) \in Int /\ ~HaveNull(z.S, s)
  <2> TAKE i \in Due(L, off)
  <2> SUFFICES ASSUME Met(L[i]) PROVE /\ Value(z.S, L[i].s) < Value(z.S, s) /\ Value(z.B, L[i].b) = Value(z.S, L[i].s)
                                      /\ Value(z.S, L[i].s) \in Int /\ ~HaveNull(z.S, s)
    OBVIOUS
  <2>1. Given(z, prev, L[i])
    BY DEF Listed
  <2>2. /\ L[i].s \in 1 .. z.sp /\ Meets(z, L[i].b, L[i].s) /\ z.ps # NoRow /\ (NullFree(z) \/ ~HaveNull(z.S, z.ps))
        /\ Value(z.S, L[i].s) <= Value(z.S, z.ps)
    BY <2>1 DEF Given
  <2>3. Value(z.S, L[i].s) \in Int
    <3>1. L[i].s \in 1 .. Len(z.S.keys)
      BY <1>1, <2>2
    <3> QED
      BY <1>1, <3>1, Values
  <2>4. Value(z.S, z.ps) < Value(z.S, s) /\ ~HaveNull(z.S, s)
    BY <1>5, <2>2
  <2>5. Value(z.S, z.ps) \in Int
    <3>1. z.ps \in 1 .. Len(z.S.keys)
      BY <1>1, <2>2 DEF Matched
    <3> QED
      BY <1>1, <3>1, Values
  <2> QED
    BY <1>4, <2>2, <2>3, <2>4, <2>5 DEF Meets
<1>8. /\ prev = -1 \/ (prev \in 1 .. s /\ z.S.batch[prev] >= z.S.freed)
      /\ z.S.freed <= z.S.batch[s] /\ prev <= s
  <2>1. s # 0
    BY <1>1
  <2> QED
    BY <1>1, <1>2, <2>1, UnfreedGrows
<1>9. Unfreed(y, prev)
  <2>1. z.B.freed # 0 => Lasting(y)
    <3> SUFFICES ASSUME z.B.freed # 0 PROVE Lasting(y)
      OBVIOUS
    <3>1. Lasting(z)
      BY <1>2 DEF Unfreed
    <3>2. ~HaveNull(z.S, s) /\ Value(z.S, z.ps) < Value(z.S, s)
      BY <1>5, <3>1 DEF Lasting
    <3>3. Value(z.S, z.ps) \in Int
      <4>1. z.ps \in 1 .. Len(z.S.keys)
        BY <1>1, <3>1 DEF Matched, Lasting
      <4> QED
        BY <1>1, <4>1, Values
    <3>4. ASSUME NEW i \in 1 .. Len(z.B.keys), ~HaveNull(z.B, i), Value(z.B, i) > Value(z.S, s)
          PROVE  z.B.batch[i] >= z.B.freed
      <4>1. Value(z.B, i) \in Int
        BY <1>1, Values
      <4>2. Value(z.B, i) > Value(z.S, z.ps)
        BY <1>4, <3>2, <3>3, <3>4, <4>1
      <4> QED
        BY <3>1, <3>4, <4>2 DEF Lasting
    <3> QED
      BY <1>1, <3>2, <3>4 DEF Lasting, NoRow
  <2>2. \A k \in 1 .. Len(rows) : rows[k] # NoRow => z.B.batch[rows[k]] >= z.B.freed
    BY <1>6
  <2> QED
    BY <1>1, <1>8, <2>1, <2>2 DEF Unfreed, rows, s
<1>10. ASSUME NEW i \in Due(M, off), i \in Due(L, off), M[i] = L[i] PROVE Given(y, prev, M[i])
  <2>1. Given(z, prev, L[i])
    BY <1>10 DEF Listed
  <2>2. L[i].s \in 1 .. s
    BY <1>1, <2>1 DEF Given
  <2>3. Meets(z, L[i].b, L[i].s) => Meets(y, L[i].b, L[i].s)
    BY <1>1 DEF Meets
  <2>4. Met(L[i]) => ~HaveNull(z.S, s) /\ Value(z.S, L[i].s) <= Value(z.S, s) /\ s # NoRow
    BY <1>1, <1>4, <1>7, <1>10 DEF NoRow
  <2>5. /\ L[i].s \in 1 .. y.sp /\ y.S.batch[L[i].s] >= y.S.freed /\ prev <= L[i].s
        /\ Met(L[i]) => /\ Meets(y, L[i].b, L[i].s) /\ y.B.batch[L[i].b] >= y.B.freed
                        /\ y.ps # NoRow /\ (NullFree(y) \/ ~HaveNull(y.S, y.ps))
                        /\ Value(y.S, L[i].s) <= Value(y.S, y.ps)
    <3>1. y.sp = s /\ L[i].s \in 1 .. y.sp
      BY <2>2 DEF s
    <3>2. y.S.batch[L[i].s] >= y.S.freed /\ prev <= L[i].s
      BY <1>1, <2>1 DEF Given
    <3>3. Met(L[i]) => Meets(y, L[i].b, L[i].s) /\ y.B.batch[L[i].b] >= y.B.freed
      BY <1>1, <2>1, <2>3 DEF Given
    <3>4. Met(L[i]) => y.ps # NoRow /\ ~HaveNull(y.S, y.ps) /\ Value(y.S, L[i].s) <= Value(y.S, y.ps)
      BY <1>1, <2>4
    <3> QED
      BY <3>1, <3>2, <3>3, <3>4
  <2> QED
    BY <1>10, <2>5 DEF Given
<1>11. ASSUME NEW i \in Due(M, off), i > N, i - N \in 1 .. Len(rows),
              M[i] = [s |-> s, b |-> rows[i - N], pre |-> new, same |-> i - N > 1]
       PROVE  /\ Given(y, prev, M[i]) /\ M[i].s = s /\ M[i].b = rows[i - N] /\ M[i].pre = FALSE
              /\ Met(M[i]) => Value(z.B, M[i].b) = Value(z.S, s) /\ (\A k \in 1 .. Len(rows) : rows[k] # NoRow)
  <2>1. M[i].s = s /\ M[i].b = rows[i - N] /\ M[i].pre = FALSE
    BY <1>11, <1>21
  <2>2. Met(M[i]) => Meets(z, rows[i - N], s) /\ z.B.batch[rows[i - N]] >= z.B.freed /\ (\A k \in 1 .. Len(rows) : rows[k] # NoRow)
    BY <1>6, <1>11, <2>1 DEF Met
  <2>3. Meets(z, rows[i - N], s) => Meets(y, rows[i - N], s) /\ (NullFree(y) \/ ~HaveNull(y.S, s)) /\ Value(z.B, rows[i - N]) = Value(z.S, s)
    BY <1>1 DEF Meets
  <2>4. s \in 1 .. s /\ s # NoRow
    BY <1>1 DEF NoRow
  <2> QED
    BY <1>1, <1>4, <1>8, <2>1, <2>2, <2>3, <2>4 DEF Given, s
<1>12. \A i \in Due(M, off) : Given(y, prev, M[i])
  BY <1>3, <1>10, <1>11
<1>13. ASSUME NEW i \in Due(M, off), NEW k \in Due(M, off), i < k PROVE InTurn(y, M[i], M[k])
  <2>1. CASE k \in Due(L, off) /\ M[k] = L[k] /\ k <= N
    <3>1. i \in Due(L, off) /\ M[i] = L[i]
      BY <1>3, <1>13, <2>1 DEF Due
    <3> QED
      BY <1>1, <1>13, <2>1, <3>1 DEF Listed, InTurn
  <2>2. CASE /\ k > N /\ k - N \in 1 .. Len(rows)
             /\ M[k] = [s |-> s, b |-> rows[k - N], pre |-> new, same |-> k - N > 1]
    <3>1. M[k].s = s
      BY <1>11, <2>2
    <3>2. CASE i \in Due(L, off) /\ M[i] = L[i]
      <4>1. M[i].s <= s
        <5>1. L[i].s \in 1 .. z.sp
          BY <3>2 DEF Listed, Given
        <5> QED
          BY <1>1, <3>2, <5>1
      <4>2. Met(M[i]) => Value(z.S, M[i].s) <= Value(z.S, s)
        BY <1>4, <1>7, <3>2
      <4> QED
        BY <1>1, <3>1, <4>1, <4>2 DEF InTurn
    <3>3. CASE /\ i > N /\ i - N \in 1 .. Len(rows)
               /\ M[i] = [s |-> s, b |-> rows[i - N], pre |-> new, same |-> i - N > 1]
      <4>1. M[i].s = s
        BY <1>11, <3>3
      <4> QED
        BY <1>1, <1>4, <3>1, <4>1 DEF InTurn
    <3> QED
      BY <1>3, <3>2, <3>3
  <2> QED
    BY <1>3, <2>1, <2>2
<1>14. ASSUME NEW i \in Due(M, off), i \in Due(L, off), M[i] = L[i], Met(M[i]), ~M[i].pre
       PROVE  Lead(y, M, off, unm, i)
  <2>1. Lead(z, L, off, unm, i)
    BY <1>14 DEF Listed
  <2>2. /\ Value(z.S, L[i].s) < Value(z.S, s) /\ Value(z.B, L[i].b) = Value(z.S, L[i].s) /\ Value(z.S, L[i].s) \in Int
    BY <1>7, <1>14
  <2>3. CASE Foremost(z, L, off, i)
    <3>1. ASSUME NEW k \in Due(M, off), k > i, Met(M[k]), Value(z.B, M[k].b) = Value(z.B, M[i].b)
          PROVE  M[i].b <= M[k].b
      <4>1. CASE k \in Due(L, off) /\ M[k] = L[k]
        BY <1>14, <2>3, <3>1, <4>1 DEF Foremost
      <4>2. CASE /\ k > N /\ k - N \in 1 .. Len(rows)
                 /\ M[k] = [s |-> s, b |-> rows[k - N], pre |-> new, same |-> k - N > 1]
        <5>1. Value(z.B, M[k].b) = Value(z.S, s)
          BY <1>11, <3>1, <4>2
        <5> QED
          BY <1>4, <1>14, <2>2, <3>1, <5>1
      <4> QED
        BY <1>3, <4>1, <4>2
    <3>2. ASSUME NEW k \in 1 .. Len(rows), rows[k] # NoRow, Value(z.B, rows[k]) = Value(z.B, M[i].b)
          PROVE  M[i].b <= rows[k]
      <4>1. Value(z.B, rows[k]) = Value(z.S, s)
        BY <1>6, <3>2 DEF Meets
      <4> QED
        BY <1>4, <1>14, <2>2, <3>2, <4>1
    <3>3. Foremost(y, M, off, i)
      BY <1>1, <3>1, <3>2 DEF Foremost, rows
    <3> QED
      BY <3>3 DEF Lead
  <2>4. CASE Follows(L, off, i)
    <3>1. i - 1 \in Due(L, off)
      BY <1>3, <1>14, <2>4 DEF Follows
    <3>2. M[i - 1] = L[i - 1]
      BY <1>3, <3>1
    <3> QED
      BY <1>14, <2>4, <3>2 DEF Follows, Lead
  <2>5. CASE z.S.batch[L[i].s] <= unm
    BY <1>1, <1>14, <2>5 DEF Lead
  <2> QED
    BY <2>1, <2>3, <2>4, <2>5 DEF Lead
<1>15. ASSUME NEW i \in Due(M, off), i > N, i - N \in 1 .. Len(rows),
              M[i] = [s |-> s, b |-> rows[i - N], pre |-> new, same |-> i - N > 1], Met(M[i])
       PROVE  Lead(y, M, off, unm, i)
  <2>1. /\ M[i].s = s /\ M[i].b = rows[i - N] /\ Value(z.B, M[i].b) = Value(z.S, s) /\ i \in Int
        /\ \A k \in 1 .. Len(rows) : rows[k] # NoRow
    <3>1. M[i].s = s /\ M[i].b = rows[i - N] /\ Value(z.B, M[i].b) = Value(z.S, s) /\ \A k \in 1 .. Len(rows) : rows[k] # NoRow
      BY <1>11, <1>15
    <3>2. i \in Int
      BY <1>1, <1>31 DEF Due
    <3> QED
      BY <3>1, <3>2
  <2>2. CASE i - N = 1
    <3>1. ASSUME NEW k \in Due(M, off), k > i PROVE M[i].b <= M[k].b
      <4>1. k \in Int /\ ~(k <= N)
        BY <1>3, <1>15, <2>1, <3>1 DEF Due
      <4>2. k - N \in 1 .. Len(rows) /\ M[k] = [s |-> s, b |-> rows[k - N], pre |-> new, same |-> k - N > 1]
        BY <1>3, <4>1
      <4>3. M[k].b = rows[k - N]
        BY <4>2
      <4> QED
        BY <1>6, <2>1, <2>2, <4>2, <4>3
    <3>2. \A k \in 1 .. Len(rows) : M[i].b <= rows[k]
      BY <1>6, <2>1, <2>2
    <3>3. Foremost(y, M, off, i)
      BY <3>1, <3>2 DEF Foremost, rows
    <3> QED
      BY <3>3 DEF Lead
  <2>3. CASE i - N # 1
    <3>1. i - 1 \in Due(M, off) /\ i > off + 1 /\ (i - 1) - N \in 1 .. Len(rows) /\ i - 1 > N /\ ~(i - 1 <= N)
      <4> DEFINE R == Len(rows)
                 T == Len(M)
      <4>1. R \in Nat /\ T \in Nat /\ N \in Nat /\ off \in 0 .. N /\ i \in off + 1 .. T /\ i \in Int /\ i > N /\ i - N \in 1 .. R /\ i - N # 1
        BY <1>3, <1>31, <1>15, <2>1, <2>3 DEF Due
      <4> HIDE DEF R, T
      <4>2. i - 1 \in off + 1 .. T /\ i > off + 1 /\ (i - 1) - N \in 1 .. R /\ i - 1 > N /\ ~(i - 1 <= N)
        BY <4>1
      <4> QED
        BY <4>2 DEF R, T, Due
    <3>2. M[i - 1] = [s |-> s, b |-> rows[(i - 1) - N], pre |-> new, same |-> (i - 1) - N > 1]
      BY <1>3, <3>1
    <3>3. M[i - 1].s = s /\ M[i - 1].b = rows[(i - 1) - N] /\ M[i - 1].pre = FALSE
      BY <1>21, <3>2
    <3>4. Follows(M, off, i)
      BY <2>1, <3>1, <3>3 DEF Follows, Met
    <3> QED
      BY <3>4 DEF Lead
  <2> QED
    BY <2>2, <2>3
<1>16. \A i \in Due(M, off) : Met(M[i]) /\ ~M[i].pre => Lead(y, M, off, unm, i)
  BY <1>3, <1>14, <1>15
<1>17. Listed(y, M, off, prev, unm)
  BY <1>2, <1>3, <1>9, <1>12, <1>13, <1>16 DEF Listed
<1> QED
  BY <1>17 DEF M, rows, s, new

\* The matches once more.
LEMMA ListedRepeated ==
  ASSUME NEW z, NEW y, Placed(z), Matched(z), Repeated(z, y), NEW L, NEW off, NEW prev, NEW unm, Listed(z, L, off, prev, unm)
  PROVE  Listed(y, L \o PairsOf(y.pb, y.sp, TRUE), off, prev, unm)
<1> DEFINE rows == y.pb
           s == y.sp
           again == TRUE
           M == L \o PairsOf(rows, s, again)
           N == Len(L)
<1>1. /\ y.S = z.S /\ y.B = z.B /\ y.ps = z.ps /\ z.pb = rows /\ s \in Int /\ z.sp \in Int /\ z.sp <= s /\ s >= 1 /\ z.sp >= 0
      /\ NullFree(y) = NullFree(z) /\ Ordered(z.S) /\ Ordered(z.B) /\ s <= Len(z.S.keys) /\ Len(z.S.keys) \in Nat
      /\ z.S.freed \in Nat /\ z.B.freed \in Nat /\ s \in 1 .. Len(z.S.keys)
  <2>1. z \in Scanner /\ y \in Scanner /\ Frame(z, y) /\ z.S \in Pages /\ z.B \in Pages /\ Ordered(z.S) /\ Ordered(z.B)
    BY DEF Repeated, Placed, Scanner
  <2>2. /\ y.S = z.S /\ y.B = z.B /\ y.ps = z.ps /\ z.pb = rows /\ s \in Int /\ z.sp \in Int /\ z.sp <= s /\ s >= 1 /\ z.sp >= 0
        /\ s <= Len(z.S.keys)
    BY <2>1 DEF Repeated, Frame, Placed, Scanner, InS
  <2>3. Len(z.S.keys) \in Nat /\ z.S.freed \in Nat /\ z.B.freed \in Nat
    BY <2>1, PagesLen DEF Pages
  <2>4. NullFree(y) = NullFree(z)
    BY <2>1, NullFreeSame
  <2> QED
    BY <2>1, <2>2, <2>3, <2>4
<1>2. L \in Seq(Pair) /\ off \in 0 .. Len(L) /\ prev \in Int /\ unm \in Int /\ rows \in Seq(Int) /\ Unfreed(z, prev)
  BY DEF Listed, Repeated, Placed, Scanner
<1>21. again \in BOOLEAN /\ again = TRUE
  OBVIOUS
<1>4. /\ Value(z.S, s) \in Int /\ z.ps # NoRow /\ z.ps \in 1 .. z.sp /\ Value(z.S, z.ps) = Value(z.S, s)
      /\ NullFree(z) \/ (~HaveNull(z.S, z.ps) /\ ~HaveNull(z.S, s))
  <2>1. Value(z.S, s) \in Int
    BY <1>1, Values
  <2>2. /\ z.ps # NoRow /\ Value(z.S, z.ps) = Value(z.S, s)
        /\ NullFree(z) \/ (~HaveNull(z.S, z.ps) /\ ~HaveNull(z.S, s))
    <3>1. PreKeyMatched(y)
      BY DEF Repeated
    <3> QED
      BY <1>1, <3>1 DEF PreKeyMatched, NullFree, s
  <2> QED
    BY <2>1, <2>2 DEF Matched
<1>41. Group(z, rows, z.ps)
  BY <1>1, <1>4 DEF Matched
<1> HIDE DEF rows, s, N, again
<1>22. Added(L, M, off, rows, s, again)
  BY <1>1, <1>2, <1>21, PairsAdded
<1> HIDE DEF M
<1>3. /\ M \in Seq(Pair) /\ N \in Nat /\ Len(rows) \in Nat /\ Len(M) = N + Len(rows) /\ off \in 0 .. Len(M)
      /\ \A i \in Due(M, off) : \/ i \in Due(L, off) /\ M[i] = L[i] /\ i <= N
                                \/ /\ i > N /\ i - N \in 1 .. Len(rows)
                                   /\ M[i] = [s |-> s, b |-> rows[i - N], pre |-> again, same |-> i - N > 1]
      /\ \A i \in Due(L, off) : i \in Due(M, off) /\ i \in Int /\ i <= N /\ M[i] = L[i] /\ M[i] \in Pair
                                /\ (i > off + 1 => i - 1 \in Due(L, off))
  BY <1>22 DEF Added, N
<1>6. \A k \in 1 .. Len(rows) : rows[k] # NoRow => Meets(z, rows[k], s) /\ z.B.batch[rows[k]] >= z.B.freed
  <2> TAKE k \in 1 .. Len(rows)
  <2> SUFFICES ASSUME rows[k] # NoRow PROVE Meets(z, rows[k], s) /\ z.B.batch[rows[k]] >= z.B.freed
    OBVIOUS
  <2>2. rows # <<NoRow>>
    <3> SUFFICES ASSUME rows = <<NoRow>> PROVE FALSE
      OBVIOUS
    <3> DEFINE q == <<NoRow>>
    <3>1. Len(q) = 1 /\ q[1] = NoRow
      OBVIOUS
    <3>2. rows = q
      OBVIOUS
    <3> HIDE DEF q
    <3> QED
      BY <3>1, <3>2
  <2>3. Meets(z, rows[k], z.ps)
    BY <1>41, <2>2 DEF Group
  <2>4. Meets(z, rows[k], s)
    BY <1>4, <2>3 DEF Meets
  <2>5. z.B.batch[rows[k]] >= z.B.freed
    BY <1>1, <1>2 DEF Unfreed
  <2> QED
    BY <2>4, <2>5
<1>8. /\ prev = -1 \/ (prev \in 1 .. s /\ z.S.batch[prev] >= z.S.freed)
      /\ z.S.freed <= z.S.batch[s] /\ prev <= s
  <2>1. s # 0
    BY <1>1
  <2> QED
    BY <1>1, <1>2, <2>1, UnfreedGrows
<1>9. Unfreed(y, prev)
  <2>1. z.B.freed # 0 => Lasting(y)
    BY <1>1, <1>2 DEF Unfreed, Lasting
  <2>2. \A k \in 1 .. Len(rows) : rows[k] # NoRow => z.B.batch[rows[k]] >= z.B.freed
    BY <1>6
  <2> QED
    BY <1>1, <1>8, <2>1, <2>2 DEF Unfreed, rows, s
<1>10. ASSUME NEW i \in Due(M, off), i \in Due(L, off), M[i] = L[i] PROVE Given(y, prev, M[i])
  <2>1. Given(z, prev, L[i])
    BY <1>10 DEF Listed
  <2>2. L[i].s \in 1 .. s
    BY <1>1, <2>1 DEF Given
  <2>3. Meets(z, L[i].b, L[i].s) => Meets(y, L[i].b, L[i].s)
    BY <1>1 DEF Meets
  <2>4. L[i].s \in 1 .. y.sp
    BY <2>2 DEF s
  <2> QED
    BY <1>1, <1>10, <2>1, <2>3, <2>4 DEF Given
<1>11. ASSUME NEW i \in Due(M, off), i > N, i - N \in 1 .. Len(rows),
              M[i] = [s |-> s, b |-> rows[i - N], pre |-> again, same |-> i - N > 1]
       PROVE  Given(y, prev, M[i]) /\ M[i].s = s /\ M[i].b = rows[i - N] /\ M[i].pre = TRUE
  <2>1. M[i].s = s /\ M[i].b = rows[i - N] /\ M[i].pre = TRUE
    BY <1>11, <1>21
  <2>2. Met(M[i]) => Meets(z, rows[i - N], s) /\ z.B.batch[rows[i - N]] >= z.B.freed
    BY <1>6, <1>11, <2>1 DEF Met
  <2>3. Meets(z, rows[i - N], s) => Meets(y, rows[i - N], s) /\ (NullFree(y) \/ ~HaveNull(y.S, y.ps))
    BY <1>1, <1>4 DEF Meets
  <2>4. s \in 1 .. s
    BY <1>1
  <2> QED
    BY <1>1, <1>4, <1>8, <2>1, <2>2, <2>3, <2>4 DEF Given, s
<1>12. \A i \in Due(M, off) : Given(y, prev, M[i])
  BY <1>3, <1>10, <1>11
<1>13. ASSUME NEW i \in Due(M, off), NEW k \in Due(M, off), i < k PROVE InTurn(y, M[i], M[k])
  <2>1. CASE k \in Due(L, off) /\ M[k] = L[k] /\ k <= N
    <3>1. i \in Due(L, off) /\ M[i] = L[i]
      BY <1>3, <1>13, <2>1 DEF Due
    <3> QED
      BY <1>1, <1>13, <2>1, <3>1 DEF Listed, InTurn
  <2>2. CASE /\ k > N /\ k - N \in 1 .. Len(rows)
             /\ M[k] = [s |-> s, b |-> rows[k - N], pre |-> again, same |-> k - N > 1]
    <3>1. M[k].s = s
      BY <1>11, <2>2
    <3>2. CASE i \in Due(L, off) /\ M[i] = L[i]
      <4>1. M[i].s <= s
        <5>1. L[i].s \in 1 .. z.sp
          BY <3>2 DEF Listed, Given
        <5> QED
          BY <1>1, <3>2, <5>1
      <4>2. Met(M[i]) => Value(z.S, M[i].s) <= Value(z.S, s)
        BY <1>4, <3>2 DEF Listed, Given
      <4> QED
        BY <1>1, <3>1, <4>1, <4>2 DEF InTurn
    <3>3. CASE /\ i > N /\ i - N \in 1 .. Len(rows)
               /\ M[i] = [s |-> s, b |-> rows[i - N], pre |-> again, same |-> i - N > 1]
      <4>1. M[i].s = s
        BY <1>11, <3>3
      <4> QED
        BY <1>1, <1>4, <3>1, <4>1 DEF InTurn
    <3> QED
      BY <1>3, <3>2, <3>3
  <2> QED
    BY <1>3, <2>1, <2>2
<1>14. ASSUME NEW i \in Due(M, off), i \in Due(L, off), M[i] = L[i], Met(M[i]), ~M[i].pre
       PROVE  Lead(y, M, off, unm, i)
  <2>1. Lead(z, L, off, unm, i)
    BY <1>14 DEF Listed
  <2>3. CASE Foremost(z, L, off, i)
    <3>1. ASSUME NEW k \in Due(M, off), k > i, Met(M[k]), Value(z.B, M[k].b) = Value(z.B, M[i].b)
          PROVE  M[i].b <= M[k].b
      <4>1. CASE k \in Due(L, off) /\ M[k] = L[k]
        BY <1>14, <2>3, <3>1, <4>1 DEF Foremost
      <4>2. CASE /\ k > N /\ k - N \in 1 .. Len(rows)
                 /\ M[k] = [s |-> s, b |-> rows[k - N], pre |-> again, same |-> k - N > 1]
        <5>1. M[k].b = rows[k - N] /\ rows[k - N] # NoRow /\ Value(z.B, rows[k - N]) = Value(z.B, L[i].b)
          BY <1>11, <1>14, <3>1, <4>2 DEF Met
        <5> QED
          BY <1>1, <1>14, <2>3, <4>2, <5>1 DEF Foremost
      <4> QED
        BY <1>3, <4>1, <4>2
    <3>2. ASSUME NEW k \in 1 .. Len(rows), rows[k] # NoRow, Value(z.B, rows[k]) = Value(z.B, M[i].b)
          PROVE  M[i].b <= rows[k]
      BY <1>1, <1>14, <2>3, <3>2 DEF Foremost
    <3>3. Foremost(y, M, off, i)
      BY <1>1, <3>1, <3>2 DEF Foremost, rows
    <3> QED
      BY <3>3 DEF Lead
  <2>4. CASE Follows(L, off, i)
    <3>1. i - 1 \in Due(L, off)
      BY <1>3, <1>14, <2>4 DEF Follows
    <3>2. M[i - 1] = L[i - 1]
      BY <1>3, <3>1
    <3> QED
      BY <1>14, <2>4, <3>2 DEF Follows, Lead
  <2>5. CASE z.S.batch[L[i].s] <= unm
    BY <1>1, <1>14, <2>5 DEF Lead
  <2> QED
    BY <2>1, <2>3, <2>4, <2>5 DEF Lead
<1>16. \A i \in Due(M, off) : Met(M[i]) /\ ~M[i].pre => Lead(y, M, off, unm, i)
  <2> TAKE i \in Due(M, off)
  <2>1. CASE i \in Due(L, off) /\ M[i] = L[i]
    BY <1>14, <2>1
  <2>2. CASE /\ i > N /\ i - N \in 1 .. Len(rows)
             /\ M[i] = [s |-> s, b |-> rows[i - N], pre |-> again, same |-> i - N > 1]
    BY <1>11, <2>2
  <2> QED
    BY <1>3, <2>1, <2>2
<1>17. Listed(y, M, off, prev, unm)
  BY <1>2, <1>3, <1>9, <1>12, <1>13, <1>16 DEF Listed
<1> QED
  BY <1>17 DEF M, rows, s, again

-----------------------------------------------------------------------------
(* FindNextJoinRows.                                                       *)

\* What was found is what is added to the pairs that wait.
LEMMA ListedStepped ==
  ASSUME NEW z, NEW y, Placed(z), Matched(z), Stepped(z, y), NEW base \in Seq(Pair), NEW off, NEW prev, NEW unm,
         Listed(z, base \o z.found, off, prev, unm)
  PROVE  Listed(y, base \o y.found, off, prev, unm)
<1>1. z.found \in Seq(Pair)
  BY DEF Placed, Scanner
<1>2. CASE Kept(z, y)
  <2>1. y.found = z.found
    BY <1>2 DEF Kept
  <2> QED
    BY <1>2, <2>1, ListedKept
<1>3. ASSUME NEW q \in Seq(Pair) PROVE base \o (z.found \o q) = (base \o z.found) \o q
  <2> DEFINE r == z.found
  <2>1. r \in Seq(Pair)
    BY <1>1
  <2> HIDE DEF r
  <2>2. (base \o r) \o q = base \o (r \o q)
    BY <2>1, <1>3, ConcatAssociative
  <2> QED
    BY <2>2 DEF r
<1>4. CASE Grouped(z, y)
  <2> DEFINE L == base \o z.found
             new == FALSE
             q == PairsOf(y.pb, y.sp, new)
  <2>1. q \in Seq(Pair)
    <3>1. y.pb \in Seq(Int) /\ y.sp \in Int /\ new \in BOOLEAN
      BY <1>4 DEF Grouped, Placed, Scanner
    <3> HIDE DEF new
    <3> QED
      BY <3>1, PairsAre
  <2>2. Listed(y, L \o q, off, prev, unm)
    <3>1. Listed(z, L, off, prev, unm)
      OBVIOUS
    <3> HIDE DEF L
    <3> QED
      BY <1>4, <3>1, ListedGrouped
  <2>3. y.found = z.found \o q
    BY <1>4 DEF Grouped
  <2> HIDE DEF q
  <2> QED
    BY <1>3, <2>1, <2>2, <2>3
<1>5. CASE Repeated(z, y)
  <2> DEFINE L == base \o z.found
             again == TRUE
             q == PairsOf(y.pb, y.sp, again)
  <2>1. q \in Seq(Pair)
    <3>1. y.pb \in Seq(Int) /\ y.sp \in Int /\ again \in BOOLEAN
      BY <1>5 DEF Repeated, Placed, Scanner
    <3> HIDE DEF again
    <3> QED
      BY <3>1, PairsAre
  <2>2. Listed(y, L \o q, off, prev, unm)
    <3>1. Listed(z, L, off, prev, unm)
      OBVIOUS
    <3> HIDE DEF L
    <3> QED
      BY <1>5, <3>1, ListedRepeated
  <2>3. y.found = z.found \o q
    BY <1>5 DEF Repeated
  <2> HIDE DEF q
  <2> QED
    BY <1>3, <2>1, <2>2, <2>3
<1> QED
  BY <1>2, <1>4, <1>5 DEF Stepped

\* The state i rounds lead to.
RoundStep(z, f, i) == IF i = 0 THEN z ELSE Round(f[i - 1])
AreRounds(z, f, n)  == f = [i \in 0 .. n |-> RoundStep(z, f, i)]

\* They can be run.
LEMMA SomeRounds == ASSUME NEW z, NEW n \in Nat PROVE \E f : AreRounds(z, f, n)
<1> DEFINE B == {k \in Nat : ~ \E f : AreRounds(z, f, k)}
<1> SUFFICES ASSUME B # {} PROVE FALSE
  OBVIOUS
<1>1. PICK m \in B : \A k \in B : m <= k
  <2>1. B \in SUBSET Nat
    OBVIOUS
  <2> HIDE DEF B
  <2> QED
    BY <2>1, LeastNatural
<1>2. m # 0
  <2>1. AreRounds(z, [i \in 0 .. 0 |-> z], 0)
    BY DEF AreRounds, RoundStep
  <2> QED
    BY <2>1, <1>1
<1>3. PICK g : AreRounds(z, g, m - 1)
  BY <1>1, <1>2
<1> DEFINE h == [i \in 0 .. m |-> IF i = m THEN RoundStep(z, g, m) ELSE g[i]]
<1>4. ASSUME NEW i \in 0 .. m PROVE h[i] = RoundStep(z, h, i)
  <2>1. m \in Nat
    OBVIOUS
  <2>2. i # 0 => h[i - 1] = g[i - 1]
    BY <2>1
  <2>3. h[i] = RoundStep(z, g, i)
    <3>1. CASE i = m
      BY <3>1
    <3>2. CASE i # m
      BY <1>3, <2>1, <3>2 DEF AreRounds
    <3> QED
      BY <3>1, <3>2
  <2> HIDE DEF h
  <2> QED
    BY <2>2, <2>3 DEF RoundStep
<1>5. h = [i \in 0 .. m |-> RoundStep(z, h, i)]
  <2>1. h = [i \in 0 .. m |-> h[i]]
    OBVIOUS
  <2> HIDE DEF h
  <2> QED
    BY <1>4, <2>1
<1> HIDE DEF h
<1>6. AreRounds(z, h, m)
  BY <1>5 DEF AreRounds
<1> QED
  BY <1>1, <1>6

\* Run.
LEMMA RunIs ==
  ASSUME NEW z, Rounds(z) \in Nat
  PROVE  \E f : AreRounds(z, f, Rounds(z)) /\ Run(z) = f[Rounds(z)]
<1> DEFINE n == Rounds(z)
           g == CHOOSE h : h = [i \in 0 .. n |-> IF i = 0 THEN z ELSE Round(h[i - 1])]
<1>1. Run(z) = g[n]
  BY DEF Run
<1>2. AreRounds(z, g, n)
  <2>1. \E f : AreRounds(z, f, n)
    BY SomeRounds
  <2> QED
    BY <2>1 DEF AreRounds, RoundStep
<1> QED
  BY <1>1, <1>2

\* x is what n rounds have made of z.
Ran(z, x, n, base, off, prev, unm) ==
  /\ Settled(x) /\ Frame(z, x) /\ x.sp >= z.sp
  /\ Listed(x, base \o x.found, off, prev, unm)
  /\ x.on => x.sp >= z.sp + n

\* Another round.
LEMMA RoundRuns ==
  ASSUME NEW z, Settled(z), Supplied(z), NEW x, NEW n \in Nat, NEW base \in Seq(Pair), NEW off, NEW prev, NEW unm,
         Ran(z, x, n, base, off, prev, unm)
  PROVE  Ran(z, Round(x), n + 1, base, off, prev, unm)
<1> DEFINE y == Round(x)
<1>1. Settled(x) /\ Frame(z, x) /\ x.sp >= z.sp /\ Listed(x, base \o x.found, off, prev, unm)
  BY DEF Ran
<1>2. x.sp \in Int /\ z.sp \in Int /\ Placed(x) /\ Matched(x)
  BY <1>1 DEF Settled, Placed, Scanner
<1>3. CASE x.on = TRUE
  <2>1. Supplied(x)
    BY <1>1, NullFreeSame DEF Supplied, Frame
  <2>2. Stepped(x, y) /\ Settled(y) /\ (y.on => y.sp > x.sp)
    BY <1>1, <1>3, <2>1, RoundKeeps
  <2> HIDE DEF y
  <2>3. Listed(y, base \o y.found, off, prev, unm)
    BY <1>1, <1>2, <2>2, ListedStepped
  <2>4. Frame(x, y) /\ y.sp >= x.sp /\ y.sp \in Int
    BY <2>2 DEF Stepped, Kept, Grouped, Repeated, Settled, Placed, Scanner
  <2>5. Frame(z, y)
    BY <1>1, <2>4 DEF Frame
  <2>6. x.sp >= z.sp + n
    BY <1>3 DEF Ran
  <2>7. y.on => y.sp >= z.sp + (n + 1)
    BY <1>2, <2>2, <2>4, <2>6
  <2>8. y.sp >= z.sp
    BY <1>1, <1>2, <2>4
  <2> QED
    BY <2>2, <2>3, <2>5, <2>7, <2>8 DEF Ran, y
<1>4. CASE x.on # TRUE
  <2>1. x.on = FALSE
    BY <1>2, <1>4 DEF Placed, Scanner
  <2>2. Round(x) = x
    BY <2>1 DEF Round
  <2> QED
    BY <2>1, <2>2 DEF Ran
<1> QED
  BY <1>3, <1>4

\* The rounds end: each leaves a streamed row behind.
LEMMA RunKeeps ==
  ASSUME NEW z, Settled(z), Supplied(z), NEW base \in Seq(Pair), NEW off, NEW prev, NEW unm,
         Listed(z, base \o z.found, off, prev, unm)
  PROVE  LET y == Run(z)
         IN  /\ Settled(y) /\ ~y.on /\ Frame(z, y) /\ y.sp >= z.sp
             /\ Listed(y, base \o y.found, off, prev, unm)
<1> DEFINE N  == Rounds(z)
           LS == Len(z.S.keys)
           LB == Len(z.B.keys)
           y  == Run(z)
           G(x, i) == Ran(z, x, i, base, off, prev, unm)
<1>1. Placed(z) /\ z.sp \in Int /\ z.sp >= 0 /\ Len(z.S.keys) \in Nat /\ Len(z.B.keys) \in Nat
  BY PagesLen DEF Settled, Placed, Scanner, InS
<1>2. N \in Nat /\ LS \in Nat /\ N > LS
  <2>1. N = 2 * (LS + LB + 1)
    BY DEF Rounds
  <2>2. LS \in Nat /\ LB \in Nat
    BY <1>1
  <2> HIDE DEF N, LS, LB
  <2> QED
    BY <2>1, <2>2
<1>3. PICK f : AreRounds(z, f, N) /\ y = f[N]
  BY <1>2, RunIs
<1> HIDE DEF N, y, LS, LB, G
<1> DEFINE P == {i \in 0 .. N : G(f[i], i)}
<1>4. 0 \in P
  <2>1. f[0] = z
    BY <1>2, <1>3 DEF AreRounds, RoundStep
  <2>2. Frame(z, z) /\ z.sp >= z.sp /\ z.sp >= z.sp + 0
    BY <1>1 DEF Frame
  <2>3. G(z, 0)
    BY <2>2 DEF G, Ran
  <2> QED
    BY <1>2, <2>1, <2>3
<1>5. ASSUME NEW i \in 0 .. N, i # N, i \in P PROVE i + 1 \in P
  <2>1. i + 1 \in 0 .. N /\ i + 1 # 0 /\ (i + 1) - 1 = i /\ i \in Nat
    BY <1>2, <1>5
  <2>2. f[i + 1] = Round(f[i])
    BY <1>3, <2>1 DEF AreRounds, RoundStep
  <2>3. G(f[i], i)
    BY <1>5
  <2>4. G(Round(f[i]), i + 1)
    BY <2>1, <2>3, RoundRuns DEF G
  <2> QED
    BY <2>1, <2>2, <2>4
<1>6. G(y, N)
  <2> HIDE DEF P
  <2>1. \A i \in 0 .. N : i \in P
    BY <1>2, <1>4, <1>5, CountsUp
  <2>2. N \in P
    BY <1>2, <2>1
  <2> QED
    BY <1>3, <2>2 DEF P
<1>7. Ran(z, y, N, base, off, prev, unm)
  BY <1>6 DEF G
<1>8. ~y.on
  <2>1. y.sp \in Int /\ y.sp <= LS
    <3>1. Settled(y) /\ Frame(z, y)
      BY <1>7 DEF Ran
    <3>2. y.sp \in 0 .. LS /\ y.sp \in Int
      BY <3>1 DEF Settled, Placed, Scanner, InS, Frame, LS
    <3> QED
      BY <1>2, <3>2
  <2>2. y.on => y.sp >= z.sp + N
    BY <1>7 DEF Ran
  <2> QED
    BY <1>1, <1>2, <2>1, <2>2
<1> QED
  BY <1>7, <1>8 DEF Ran, y

-----------------------------------------------------------------------------
(* The start of a call.                                                    *)

\* What holds between two calls.
Between(z) ==
  /\ Placed(z) /\ Matched(z) /\ NullEnd(z) /\ Coded(z)
  /\ NullFree(z) /\ PreKeyMatched(z) => Past(z)

\* The two sides have rows, and the join has not ended.
Starting(z) == Between(z) /\ Supplied(z) /\ z.S.keys # <<>> /\ ~(z.sc = DONE /\ z.bc = DONE)

\* The call goes on to the run.
LEMMA StartGoes ==
  ASSUME NEW z, Starting(z), z.bc # DATA PROVE Stepped(z, Goes(z)) /\ Settled(Goes(z))
<1> DEFINE y == Goes(z)
<1>1. Placed(z) /\ Matched(z) /\ NullEnd(z) /\ z.bp >= 1
  BY DEF Starting, Between, Coded
<1>2. Kept(z, y) /\ y.sp = z.sp /\ y.bp = z.bp /\ y.on = TRUE /\ (Past(z) => Past(y))
  BY <1>1, GoesKeeps
<1> HIDE DEF y
<1>3. Placed(y) /\ Matched(y) /\ NullEnd(y) /\ y.S = z.S /\ y.B = z.B /\ NullFree(y) = NullFree(z)
  BY <1>1, <1>2, KeptStays
<1>4. PreKeyMatched(y) => PreKeyMatched(z)
  BY <1>2, <1>3 DEF PreKeyMatched, Kept, NullFree, Frame
<1>5. Settled(y)
  BY <1>1, <1>2, <1>3, <1>4 DEF Settled, Starting, Between
<1> QED
  BY <1>2, <1>5 DEF Stepped, y

\* The call ends the run before it begins.
LEMMA StartEnds ==
  ASSUME NEW z, Starting(z), NEW s \in Codes, NEW b \in Codes,
         \/ s = DONE /\ b = DONE
         \/ b = DATA /\ s # DATA /\ NullFree(z) /\ AtEnd(z)
         \/ b # DATA /\ z.bp >= 1
  PROVE  Stepped(z, Status(z, s, b)) /\ Settled(Status(z, s, b))
<1> DEFINE y == Status(z, s, b)
<1>1. Placed(z) /\ Matched(z) /\ NullEnd(z)
  BY DEF Starting, Between
<1>2. Kept(z, y) /\ y.sp = z.sp /\ y.bp = z.bp /\ y.sc = s /\ y.bc = b /\ ~y.on
  BY <1>1, StatusKeeps
<1> HIDE DEF y
<1>3. Placed(y) /\ Matched(y) /\ NullEnd(y) /\ y.S = z.S /\ y.B = z.B /\ NullFree(y) = NullFree(z)
  BY <1>1, <1>2, KeptStays
<1>4. PreKeyMatched(y) => PreKeyMatched(z)
  BY <1>2, <1>3 DEF PreKeyMatched, Kept, NullFree, Frame
<1>5. Past(z) => Past(y)
  BY <1>2, <1>3 DEF Past, Ahead
<1>6. AtEnd(z) => AtEnd(y) /\ y.sp >= 1
  <2>1. Len(z.S.keys) \in Nat /\ Len(z.S.keys) # 0
    BY <1>1, PagesLen DEF Starting, Placed, Scanner
  <2> QED
    BY <1>2, <1>3, <2>1 DEF AtEnd
<1>7. Coded(y)
  BY <1>2, <1>3, <1>6 DEF Coded, DATA, DONE
<1>8. Settled(y)
  BY <1>1, <1>2, <1>3, <1>4, <1>5, <1>7 DEF Settled, Starting, Between
<1> QED
  BY <1>2, <1>8 DEF Stepped, y

\* FindBuffered: the buffered side goes on where it ended.
LEMMA FindBufferedKeeps ==
  ASSUME NEW z, Starting(z), z.bc = DATA, ~IsDataFinish(z.B, z.bp), z.B.keys # <<>>
  PROVE  Stepped(z, FindBuffered(z)) /\ Settled(FindBuffered(z))
<1> DEFINE w == AdvanceBufferedFree(z)
           y == FindBuffered(z)
<1>1. /\ Placed(z) /\ Matched(z) /\ NullEnd(z) /\ z \in Scanner /\ z.sp \in Int /\ z.sp >= 1 /\ z.bp \in Int
      /\ NullFree(z) /\ PreKeyMatched(z) => Past(z)
      /\ NullFree(z) /\ HaveNull(z.S, z.sp) => AtEnd(z)
      /\ PreKeyMatched(z) => NullFree(z) /\ AtEnd(z)
  BY DEF Starting, Between, Coded, Placed, Scanner
<1>2. y = FindIfAny(w)
  <2>1. z.type # "full"
    BY <1>1 DEF Scanner, Types
  <2> QED
    BY <2>1 DEF FindBuffered
<1>3. /\ Kept(z, w) /\ w.sp = z.sp /\ w.bp \in 1 .. Len(z.B.keys) /\ w.bp >= z.bp
  BY <1>1, AdvanceBufferedFreeKeeps
<1> HIDE DEF w, y
<1>4. /\ Placed(w) /\ Matched(w) /\ NullEnd(w) /\ w.S = z.S /\ w.B = z.B /\ NullFree(w) = NullFree(z) /\ Frame(z, w) /\ w.bp >= 1
      /\ w.bp \in Int
  <2>1. Placed(w) /\ Matched(w) /\ NullEnd(w) /\ w.S = z.S /\ w.B = z.B /\ NullFree(w) = NullFree(z)
    BY <1>1, <1>3, KeptStays
  <2>2. w.bp \in Int /\ Frame(z, w)
    BY <1>3, <2>1 DEF Kept, Placed, Scanner
  <2>3. Len(z.B.keys) \in Nat
    BY <1>1, PagesLen DEF Scanner
  <2> QED
    BY <1>3, <2>1, <2>2, <2>3
<1>5. PreKeyMatched(w) => PreKeyMatched(z)
  BY <1>3, <1>4 DEF PreKeyMatched, Kept, NullFree, Frame
<1>6. AtEnd(z) => AtEnd(w)
  BY <1>3, <1>4 DEF AtEnd
<1>7. PreKeyMatched(w) => NullFree(w) /\ AtEnd(w) /\ Ahead(w)
  <2> SUFFICES ASSUME PreKeyMatched(w) PROVE NullFree(w) /\ AtEnd(w) /\ Ahead(w)
    OBVIOUS
  <2>1. NullFree(z) /\ AtEnd(z) /\ Past(z)
    BY <1>1, <1>5
  <2>2. Ahead(z)
    BY <2>1 DEF Past
  <2>3. Ahead(w)
    BY <1>1, <1>3, <1>4, <2>2, AheadStays
  <2> QED
    BY <1>4, <1>6, <2>1, <2>3
<1>8. Finding(w)
  <2>1. w.sp >= 1
    BY <1>1, <1>3
  <2>2. NewKey(w) \/ (NullFree(w) /\ AtEnd(w) /\ Ahead(w))
    BY <1>4, <1>7, <2>1, NewOrMatched
  <2>3. NullFree(w) /\ HaveNull(w.S, w.sp) => AtEnd(w)
    BY <1>1, <1>3, <1>4, <1>6
  <2>4. Supplied(w)
    BY <1>4 DEF Supplied
  <2> QED
    BY <1>4, <2>1, <2>2, <2>3, <2>4 DEF Finding
<1>9. CASE w.on
  <2>1. y = Find(w)
    BY <1>2, <1>9 DEF FindIfAny
  <2>2. (Kept(w, y) \/ Grouped(w, y)) /\ Settled(y)
    BY <1>8, <2>1, FindKeeps
  <2>3. Kept(z, y) \/ Grouped(z, y)
    BY <1>1, <1>3, <2>2, KeptTwice, KeptGrouped
  <2> QED
    BY <2>2, <2>3 DEF Stepped, y
<1>10. CASE ~w.on
  <2>1. y = NeedBuffered(w)
    BY <1>2, <1>10 DEF FindIfAny
  <2>2. w.bp >= w.bp /\ Kept(w, w)
    BY <1>4, KeptSelf
  <2>3. Kept(w, y) /\ Settled(y)
    BY <1>8, <2>1, <2>2, NeedsSettle
  <2>4. Kept(z, y)
    BY <1>1, <1>3, <2>3, KeptTwice
  <2> QED
    BY <2>3, <2>4 DEF Stepped, y
<1> QED
  BY <1>9, <1>10

\* InnerJoin and LeftOuterJoin.
Start(z) == IF NullFree(z) THEN InnerJoin(z) ELSE LeftOuterJoin(z)
\* InnerJoin and LeftOuterJoin: what comes before the run.
LEMMA StartKeeps ==
  ASSUME NEW z, Starting(z)
  PROVE  Stepped(z, Start(z)) /\ Settled(Start(z))
<1> DEFINE s == IsDataFinish(z.S, z.sp)
           b == IsDataFinish(z.B, z.bp)
<1>1. /\ Placed(z) /\ z \in Scanner /\ z.sp \in Int /\ z.bp \in Int /\ Len(z.S.keys) \in Nat /\ Len(z.B.keys) \in Nat
      /\ z.sp <= Len(z.S.keys) /\ z.B \in Pages /\ Supplied(z) /\ Coded(z) /\ ~(z.sc = DONE /\ z.bc = DONE)
  BY PagesLen DEF Starting, Between, Placed, Scanner, InS
<1>2. /\ DONE \in Codes /\ DATA \in Codes /\ DATA # DONE /\ DATA # SCAN
  BY DEF Codes, DATA, DONE, SCAN
<1>3. s => AtEnd(z)
  BY <1>1 DEF IsDataFinish, AtEnd
<1>4. z.B.keys # <<>> => (b => z.bp >= 1)
  <2>1. z.B.keys # <<>> => Len(z.B.keys) # 0
    BY <1>1, PagesLen
  <2> QED
    BY <1>1, <2>1 DEF IsDataFinish
<1>5. z.sc = DATA => z.bc # DATA /\ z.bp >= 1
  BY <1>1, <1>2 DEF Coded
<1>6. CASE NullFree(z)
  <2>1. Start(z) = InnerJoin(z)
    BY <1>6 DEF Start
  <2>2. z.B.keys # <<>>
    BY <1>1, <1>6 DEF Supplied
  <2>3. CASE DATA \in {z.sc, z.bc} /\ s /\ b
    <3>1. InnerJoin(z) = Status(z, DONE, DONE)
      BY <2>3 DEF InnerJoin
    <3> QED
      BY <1>2, <2>1, <3>1, StartEnds
  <2>4. CASE ~(DATA \in {z.sc, z.bc} /\ s /\ b) /\ z.sc = DATA
    <3>1. CASE s
      <4>1. InnerJoin(z) = Status(z, DONE, DATA)
        BY <2>4, <3>1 DEF InnerJoin
      <4> QED
        BY <1>2, <1>3, <1>6, <2>1, <3>1, <4>1, StartEnds
    <3>2. CASE ~s
      <4>1. InnerJoin(z) = Goes(z)
        BY <2>4, <3>2 DEF InnerJoin
      <4> QED
        BY <1>5, <2>1, <2>4, <4>1, StartGoes
    <3> QED
      BY <3>1, <3>2
  <2>5. CASE ~(DATA \in {z.sc, z.bc} /\ s /\ b) /\ z.sc # DATA /\ z.bc = DATA
    <3>1. CASE b
      <4>1. InnerJoin(z) = Status(z, DATA, DONE)
        BY <2>5, <3>1 DEF InnerJoin
      <4>2. z.bp >= 1
        BY <1>4, <2>2, <3>1
      <4> QED
        BY <1>2, <2>1, <4>1, <4>2, StartEnds
    <3>2. CASE ~b
      <4>1. InnerJoin(z) = FindBuffered(z)
        BY <2>5, <3>2 DEF InnerJoin
      <4> QED
        BY <2>1, <2>2, <2>5, <3>2, <4>1, FindBufferedKeeps
    <3> QED
      BY <3>1, <3>2
  <2>6. CASE z.sc # DATA /\ z.bc # DATA
    <3>1. InnerJoin(z) = Goes(z)
      BY <2>6 DEF InnerJoin
    <3> QED
      BY <2>1, <2>6, <3>1, StartGoes
  <2> QED
    BY <2>3, <2>4, <2>5, <2>6
<1>7. CASE ~NullFree(z)
  <2>1. Start(z) = LeftOuterJoin(z)
    BY <1>7 DEF Start
  <2>2. CASE s
    <3>1. LeftOuterJoin(z) = Status(z, DONE, DONE)
      BY <2>2 DEF LeftOuterJoin
    <3> QED
      BY <1>2, <2>1, <3>1, StartEnds
  <2>3. CASE ~s /\ (z.sc = DATA \/ z.bc # DATA)
    <3>1. LeftOuterJoin(z) = Goes(z)
      BY <2>3 DEF LeftOuterJoin
    <3> QED
      BY <1>5, <2>1, <2>3, <3>1, StartGoes
  <2>4. CASE ~s /\ z.sc # DATA /\ z.bc = DATA /\ b
    <3>1. LeftOuterJoin(z) = Find(z)
      BY <2>4 DEF LeftOuterJoin
    <3>2. z.bp >= 1
      <4>1. z.B.keys = <<>> => z.bp = 1
        BY <1>1 DEF Placed, InB
      <4> QED
        BY <1>4, <2>4, <4>1
    <3>3. z.sp >= 1 /\ ~PreKeyMatched(z)
      BY <1>1, <1>7, <2>4 DEF Coded
    <3>4. NewKey(z)
      BY <3>3, NewOrMatched DEF Starting, Between
    <3>5. Finding(z)
      BY <1>1, <1>7, <3>2, <3>3, <3>4 DEF Finding, Starting, Between
    <3> QED
      BY <2>1, <3>1, <3>5, FindKeeps DEF Stepped
  <2>5. CASE ~s /\ z.sc # DATA /\ z.bc = DATA /\ ~b
    <3>1. LeftOuterJoin(z) = FindBuffered(z)
      BY <2>5 DEF LeftOuterJoin
    <3>2. z.B.keys # <<>>
      <4> SUFFICES ASSUME z.B.keys = <<>> PROVE FALSE
        OBVIOUS
      <4>1. z.B.finish /\ z.bp = 1 /\ Len(z.B.keys) = 0
        BY <1>1, PagesLen DEF Supplied, Placed, InB
      <4> QED
        BY <2>5, <4>1 DEF IsDataFinish
    <3> QED
      BY <2>1, <2>5, <3>1, <3>2, FindBufferedKeeps
  <2> QED
    BY <2>2, <2>3, <2>4, <2>5
<1> QED
  BY <1>6, <1>7

\* FindNextJoinRows.
LEMMA FindNextJoinRowsKeeps ==
  ASSUME NEW z, Starting(z), NEW base \in Seq(Pair), NEW off, NEW prev, NEW unm,
         Listed(z, base \o z.found, off, prev, unm)
  PROVE  LET y == FindNextJoinRows(z)
         IN  /\ Between(y) /\ Frame(z, y)
             /\ Listed(y, base \o y.found, off, prev, unm)
<1> DEFINE x == Start(z)
           y == FindNextJoinRows(z)
<1>1. Stepped(z, x) /\ Settled(x) /\ Placed(z) /\ Matched(z) /\ Supplied(z)
  BY StartKeeps DEF Starting, Between
<1>2. y = Run(x)
  <2>1. z.type \in Types
    BY <1>1 DEF Placed, Scanner
  <2> QED
    BY <2>1 DEF FindNextJoinRows, Start, NullFree, Types
<1> HIDE DEF x, y
<1>3. Listed(x, base \o x.found, off, prev, unm)
  BY <1>1, ListedStepped
<1>4. Frame(z, x)
  BY <1>1 DEF Stepped, Kept, Grouped, Repeated
<1>5. Supplied(x)
  BY <1>1, <1>4, NullFreeSame DEF Supplied, Frame
<1>6. Settled(y) /\ ~y.on /\ Frame(x, y) /\ Listed(y, base \o y.found, off, prev, unm)
  BY <1>1, <1>2, <1>3, <1>5, RunKeeps
<1>7. Frame(z, y)
  BY <1>4, <1>6 DEF Frame
<1>8. Between(y)
  BY <1>6 DEF Settled, Between
<1> QED
  BY <1>6, <1>7, <1>8 DEF y

-----------------------------------------------------------------------------
(* A pair becomes rows, and batches are freed.                             *)

\* y is x, but for the batches freed.
OnlyFreed(x, y) ==
  y \in Pages /\ y.keys = x.keys /\ y.batch = x.batch /\ y.batches = x.batches /\ y.finish = x.finish

\* So is the scanner w to z.
Freeing(z, w) ==
  /\ w \in Scanner /\ w.type = z.type /\ w.sp = z.sp /\ w.bp = z.bp /\ w.ps = z.ps /\ w.pb = z.pb
  /\ w.sc = z.sc /\ w.bc = z.bc /\ w.found = z.found
  /\ OnlyFreed(z.S, w.S) /\ OnlyFreed(z.B, w.B)

\* What holds between calls is not about what is freed.
LEMMA FreeingBetween ==
  ASSUME NEW z, NEW w, Between(z), Freeing(z, w)
  PROVE  Between(w)
<1>1. Placed(z) /\ Matched(z) /\ NullEnd(z) /\ Coded(z) /\ (NullFree(z) /\ PreKeyMatched(z) => Past(z))
  BY DEF Between
<1>2. /\ w \in Scanner /\ w.type = z.type /\ w.sp = z.sp /\ w.bp = z.bp /\ w.ps = z.ps /\ w.pb = z.pb
      /\ w.sc = z.sc /\ w.bc = z.bc /\ w.S.keys = z.S.keys /\ w.B.keys = z.B.keys /\ w.S.finish = z.S.finish
      /\ w.B.finish = z.B.finish
  BY DEF Freeing, OnlyFreed
<1>3. NullFree(w) = NullFree(z)
  BY <1>2 DEF NullFree
<1>4. \A i : /\ HaveNull(w.S, i) = HaveNull(z.S, i) /\ HaveNull(w.B, i) = HaveNull(z.B, i)
             /\ Value(w.S, i) = Value(z.S, i) /\ Value(w.B, i) = Value(z.B, i)
  BY <1>2 DEF HaveNull, Value
<1>5. PreKeyMatched(w) = PreKeyMatched(z)
  BY <1>2, <1>4 DEF PreKeyMatched
<1>6. Past(z) => Past(w)
  BY <1>2, <1>4 DEF Past, Ahead, IsDataFinish
<1>7. AtEnd(z) => AtEnd(w)
  BY <1>2 DEF AtEnd
<1>8. Ordered(w.S) /\ Ordered(w.B)
  BY <1>1 DEF Placed, Ordered, Freeing, OnlyFreed
<1>9. Placed(w)
  BY <1>1, <1>2, <1>8 DEF Placed, InS, InB
<1>10. Matched(w)
  <2>1. \A b, s : Meets(z, b, s) => Meets(w, b, s)
    BY <1>2, <1>3, <1>4 DEF Meets
  <2>2. Group(z, z.pb, z.ps) => Group(w, w.pb, w.ps)
    BY <1>2, <2>1 DEF Group
  <2> QED
    BY <1>1, <1>2, <2>2 DEF Matched
<1>11. NullEnd(w)
  BY <1>1, <1>2, <1>3, <1>4 DEF NullEnd
<1>12. Coded(w)
  BY <1>1, <1>2, <1>3, <1>4, <1>5, <1>7 DEF Coded
<1> QED
  BY <1>1, <1>3, <1>5, <1>6, <1>9, <1>10, <1>11, <1>12 DEF Between

\* What a pair may free: streamed batches before its own and, if it is the first of its batch,
\* buffered ones before its own.
Emptied(z, w, p, unm, new) ==
  /\ Freeing(z, w)
  /\ z.S.freed <= w.S.freed /\ w.S.freed <= z.S.batch[p.s]
  /\ \/ w.B.freed = z.B.freed
     \/ /\ Met(p) /\ ~p.pre /\ z.S.batch[p.s] > unm
        /\ z.B.freed <= w.B.freed /\ w.B.freed <= z.B.batch[p.b]
  /\ new \in Int /\ unm <= new /\ (Met(p) /\ ~p.pre => z.S.batch[p.s] <= new)

\* The buffered rows that are used behind a first pair are in no earlier batch.
LEMMA FirstIsLeast ==
  ASSUME NEW z, Placed(z), Matched(z), NEW L, NEW off, NEW prev, NEW unm, Listed(z, L, off, prev, unm),
         off + 1 \in Due(L, off), Met(L[off + 1]), ~L[off + 1].pre, z.S.batch[L[off + 1].s] > unm
  PROVE  LET b == z.B.batch[L[off + 1].b]
         IN  /\ b \in Nat
             /\ \A k \in Due(L, off) : Met(L[k]) => b <= z.B.batch[L[k].b]
             /\ \A k \in 1 .. Len(z.pb) : z.pb[k] # NoRow => b <= z.B.batch[z.pb[k]]
             /\ \A i \in 1 .. Len(z.B.keys) : ~HaveNull(z.B, i) /\ Value(z.B, i) > Value(z.S, z.ps) => b <= z.B.batch[i]
             /\ z.ps # NoRow /\ (NullFree(z) \/ ~HaveNull(z.S, z.ps))
<1> DEFINE f == off + 1
           p == L[f]
<1>1. /\ Ordered(z.S) /\ Ordered(z.B) /\ Len(z.S.keys) \in Nat /\ Len(z.B.keys) \in Nat /\ z.sp \in Int /\ z.sp <= Len(z.S.keys)
      /\ off \in Int
  BY PagesLen DEF Placed, Scanner, InS, Listed
<1>2. /\ p.s \in 1 .. z.sp /\ Meets(z, p.b, p.s) /\ z.ps # NoRow /\ (NullFree(z) \/ ~HaveNull(z.S, z.ps))
      /\ Value(z.S, p.s) <= Value(z.S, z.ps)
  BY DEF Listed, Given
<1>3. /\ p.b \in 1 .. Len(z.B.keys) /\ ~HaveNull(z.B, p.b) /\ Value(z.B, p.b) = Value(z.S, p.s)
      /\ z.B.batch[p.b] \in Nat /\ p.s \in 1 .. Len(z.S.keys) /\ Value(z.S, p.s) \in Int
  <2>1. p.b \in 1 .. Len(z.B.keys) /\ ~HaveNull(z.B, p.b) /\ Value(z.B, p.b) = Value(z.S, p.s)
    BY <1>2 DEF Meets
  <2>2. p.s \in 1 .. Len(z.S.keys)
    BY <1>1, <1>2
  <2> QED
    BY <1>1, <2>1, <2>2, Values
<1>4. z.ps \in 1 .. Len(z.S.keys) /\ Value(z.S, z.ps) \in Int /\ Group(z, z.pb, z.ps)
  <2>1. z.ps \in 1 .. z.sp /\ Group(z, z.pb, z.ps)
    BY <1>2 DEF Matched
  <2>2. z.ps \in 1 .. Len(z.S.keys)
    BY <1>1, <2>1
  <2> QED
    BY <1>1, <2>1, <2>2, Values
<1>5. Foremost(z, L, off, f)
  <2>1. Lead(z, L, off, unm, f)
    BY DEF Listed
  <2>2. ~Follows(L, off, f)
    BY <1>1 DEF Follows
  <2>3. ~(z.S.batch[L[f].s] <= unm)
    <3>1. z.S.batch[p.s] \in Nat /\ unm \in Int
      BY <1>1, <1>3, Values, SMTT(40) DEF Listed
    <3> QED
      BY <3>1
  <2> QED
    BY <2>1, <2>2, <2>3 DEF Lead
<1> HIDE DEF p, f
<1>6. ASSUME NEW i \in 1 .. Len(z.B.keys), ~HaveNull(z.B, i), Value(z.B, i) > Value(z.B, p.b) \/ p.b <= i
      PROVE  z.B.batch[p.b] <= z.B.batch[i]
  <2>1. CASE p.b <= i
    BY <1>1, <1>3, <2>1, Values
  <2>2. CASE Value(z.B, p.b) < Value(z.B, i)
    <3>1. p.b < i
      BY <1>1, <1>3, <1>6, <2>2, Values
    <3>2. p.b <= i
      BY <1>3, <3>1
    <3> QED
      BY <1>1, <1>3, <3>2, Values
  <2>3. Value(z.B, p.b) \in Int /\ Value(z.B, i) \in Int
    BY <1>1, <1>3, Values
  <2> QED
    BY <1>6, <2>1, <2>2, <2>3
<1>7. ASSUME NEW k \in Due(L, off), Met(L[k]) PROVE z.B.batch[p.b] <= z.B.batch[L[k].b]
  <2>1. CASE k = f
    BY <1>3, <2>1 DEF p
  <2>2. CASE k # f
    <3>1. f < k /\ f \in Due(L, off)
      BY <1>1, <2>2 DEF Due, f
    <3>2. Meets(z, L[k].b, L[k].s) /\ L[k].s \in 1 .. z.sp
      BY <1>7 DEF Listed, Given
    <3>3. Value(z.S, p.s) <= Value(z.S, L[k].s)
      BY <1>7, <3>1 DEF Listed, InTurn, p, f
    <3>4. L[k].b \in 1 .. Len(z.B.keys) /\ ~HaveNull(z.B, L[k].b) /\ Value(z.B, L[k].b) = Value(z.S, L[k].s)
      BY <3>2 DEF Meets
    <3>5. Value(z.B, L[k].b) \in Int /\ Value(z.B, p.b) \in Int
      BY <1>1, <1>3, <3>4, Values
    <3>6. CASE Value(z.B, L[k].b) = Value(z.B, p.b)
      <4>1. p.b <= L[k].b
        BY <1>5, <1>7, <3>1, <3>6 DEF Foremost, p
      <4> QED
        BY <1>6, <3>4, <4>1
    <3>7. CASE Value(z.B, L[k].b) # Value(z.B, p.b)
      <4>1. Value(z.B, L[k].b) > Value(z.B, p.b)
        BY <1>3, <3>3, <3>4, <3>5, <3>7
      <4> QED
        BY <1>6, <3>4, <4>1
    <3> QED
      BY <3>6, <3>7
  <2> QED
    BY <2>1, <2>2
<1>8. ASSUME NEW k \in 1 .. Len(z.pb), z.pb[k] # NoRow PROVE z.B.batch[p.b] <= z.B.batch[z.pb[k]]
  <2>1. z.pb # <<NoRow>>
    <3> SUFFICES ASSUME z.pb = <<NoRow>> PROVE FALSE
      OBVIOUS
    <3> DEFINE q == <<NoRow>>
    <3>1. Len(q) = 1 /\ q[1] = NoRow
      OBVIOUS
    <3>2. z.pb = q
      OBVIOUS
    <3> HIDE DEF q
    <3> QED
      BY <1>8, <3>1, <3>2
  <2>2. Meets(z, z.pb[k], z.ps)
    BY <1>4, <2>1 DEF Group
  <2>3. z.pb[k] \in 1 .. Len(z.B.keys) /\ ~HaveNull(z.B, z.pb[k]) /\ Value(z.B, z.pb[k]) = Value(z.S, z.ps)
    BY <2>2 DEF Meets
  <2>4. CASE Value(z.B, z.pb[k]) = Value(z.B, p.b)
    <3>1. p.b <= z.pb[k]
      BY <1>5, <1>8, <2>4 DEF Foremost, p
    <3> QED
      BY <1>6, <2>3, <3>1
  <2>5. CASE Value(z.B, z.pb[k]) # Value(z.B, p.b)
    <3>1. Value(z.B, z.pb[k]) > Value(z.B, p.b)
      <4>1. Value(z.S, p.s) <= Value(z.S, z.ps)
        BY <1>2
      <4> QED
        BY <1>3, <1>4, <2>3, <2>5, <4>1
    <3> QED
      BY <1>6, <2>3, <3>1
  <2> QED
    BY <2>4, <2>5
<1>9. ASSUME NEW i \in 1 .. Len(z.B.keys), ~HaveNull(z.B, i), Value(z.B, i) > Value(z.S, z.ps)
      PROVE  z.B.batch[p.b] <= z.B.batch[i]
  <2>1. Value(z.B, i) \in Int /\ Value(z.S, p.s) <= Value(z.S, z.ps)
    BY <1>1, <1>2, Values
  <2>2. Value(z.B, i) > Value(z.B, p.b)
    BY <1>3, <1>4, <1>9, <2>1
  <2> QED
    BY <1>6, <1>9, <2>2
<1> QED
  BY <1>2, <1>3, <1>7, <1>8, <1>9 DEF p, f

\* Behind the pair the list is one shorter.
LEMMA RowListed ==
  ASSUME NEW z, NEW w, Between(z), NEW L, NEW off, NEW prev, NEW unm, NEW new, Listed(z, L, off, prev, unm),
         off < Len(L), Emptied(z, w, L[off + 1], unm, new)
  PROVE  Listed(w, L, off + 1, L[off + 1].s, new)
<1> DEFINE f == off + 1
           p == L[f]
<1>1. /\ L \in Seq(Pair) /\ Len(L) \in Nat /\ off \in 0 .. Len(L) /\ unm \in Int /\ new \in Int /\ unm <= new
      /\ off + 1 \in 0 .. Len(L) /\ off \in Int
  <2>1. L \in Seq(Pair) /\ off \in 0 .. Len(L) /\ unm \in Int /\ new \in Int /\ unm <= new
    BY DEF Listed, Emptied
  <2>2. Len(L) \in Nat
    BY <2>1, LenProperties
  <2> QED
    BY <2>1, <2>2
<1>2. /\ f \in Due(L, off)
      /\ \A k \in Due(L, f) : k \in Due(L, off) /\ k > f /\ k \in Int
  BY <1>1 DEF Due
<1>3. /\ Placed(z) /\ Matched(z) /\ Placed(w)
      /\ w.S.keys = z.S.keys /\ w.B.keys = z.B.keys /\ w.S.batch = z.S.batch /\ w.B.batch = z.B.batch
      /\ w.sp = z.sp /\ w.ps = z.ps /\ w.pb = z.pb /\ w.type = z.type
      /\ w.S.freed \in Nat /\ w.B.freed \in Nat /\ z.S.freed \in Nat /\ z.B.freed \in Nat
  <2>1. Placed(z) /\ Matched(z) /\ Placed(w)
    BY FreeingBetween DEF Between, Emptied
  <2>2. w.S.freed \in Nat /\ w.B.freed \in Nat /\ z.S.freed \in Nat /\ z.B.freed \in Nat
    BY <2>1 DEF Placed, Scanner, Pages
  <2> QED
    BY <2>1, <2>2 DEF Emptied, Freeing, OnlyFreed
<1>4. NullFree(w) = NullFree(z) /\ (\A i : HaveNull(w.S, i) = HaveNull(z.S, i) /\ HaveNull(w.B, i) = HaveNull(z.B, i)
             /\ Value(w.S, i) = Value(z.S, i) /\ Value(w.B, i) = Value(z.B, i))
  BY <1>3 DEF HaveNull, Value, NullFree
<1>5. /\ Ordered(z.S) /\ Ordered(z.B) /\ z.sp \in Int /\ z.sp <= Len(z.S.keys) /\ Len(z.S.keys) \in Nat /\ z.sp >= 0
  BY <1>3, PagesLen DEF Placed, Scanner, InS
<1>6. Given(z, prev, p) /\ p.s \in 1 .. z.sp /\ p.s \in 1 .. Len(z.S.keys) /\ z.S.batch[p.s] \in Nat /\ p.s \in Int
  <2>1. Given(z, prev, p)
    BY <1>2 DEF Listed
  <2>2. p.s \in 1 .. z.sp
    BY <2>1 DEF Given
  <2>3. p.s \in 1 .. Len(z.S.keys)
    BY <1>5, <2>2
  <2> QED
    BY <1>5, <2>1, <2>2, <2>3, Values
<1>7. /\ z.S.freed <= w.S.freed /\ w.S.freed <= z.S.batch[p.s]
      /\ Met(p) /\ ~p.pre => z.S.batch[p.s] <= new
  BY DEF Emptied
<1>8. \A b, s : Meets(z, b, s) => Meets(w, b, s)
  BY <1>3, <1>4 DEF Meets
<1>9. ASSUME w.B.freed = z.B.freed
      PROVE  /\ \A k \in Due(L, off) : Met(L[k]) => w.B.batch[L[k].b] >= w.B.freed
             /\ \A k \in 1 .. Len(w.pb) : w.pb[k] # NoRow => w.B.batch[w.pb[k]] >= w.B.freed
             /\ w.B.freed # 0 => Lasting(w)
  <2>1. \A k \in Due(L, off) : Met(L[k]) => w.B.batch[L[k].b] >= w.B.freed
    BY <1>3, <1>9 DEF Listed, Given
  <2>2. \A k \in 1 .. Len(w.pb) : w.pb[k] # NoRow => w.B.batch[w.pb[k]] >= w.B.freed
    BY <1>3, <1>9 DEF Listed, Unfreed
  <2>3. w.B.freed # 0 => Lasting(w)
    BY <1>3, <1>4, <1>9 DEF Listed, Unfreed, Lasting
  <2> QED
    BY <2>1, <2>2, <2>3
<1>10. ASSUME w.B.freed # z.B.freed
       PROVE  /\ \A k \in Due(L, off) : Met(L[k]) => w.B.batch[L[k].b] >= w.B.freed
              /\ \A k \in 1 .. Len(w.pb) : w.pb[k] # NoRow => w.B.batch[w.pb[k]] >= w.B.freed
              /\ w.B.freed # 0 => Lasting(w)
  <2>1. Met(p) /\ ~p.pre /\ z.S.batch[p.s] > unm /\ z.B.freed <= w.B.freed /\ w.B.freed <= z.B.batch[p.b]
    BY <1>10 DEF Emptied
  <2> DEFINE b == z.B.batch[p.b]
  <2>2. /\ b \in Nat
        /\ \A k \in Due(L, off) : Met(L[k]) => b <= z.B.batch[L[k].b]
        /\ \A k \in 1 .. Len(z.pb) : z.pb[k] # NoRow => b <= z.B.batch[z.pb[k]]
        /\ \A i \in 1 .. Len(z.B.keys) : ~HaveNull(z.B, i) /\ Value(z.B, i) > Value(z.S, z.ps) => b <= z.B.batch[i]
        /\ z.ps # NoRow /\ (NullFree(z) \/ ~HaveNull(z.S, z.ps))
    BY <1>2, <1>3, <2>1, FirstIsLeast
  <2>3. w.B.freed <= b
    BY <2>1
  <2> HIDE DEF b, p
  <2>4. \A i \in 1 .. Len(z.B.keys) : z.B.batch[i] \in Nat
    BY <1>5, Values
  <2>5. \A k \in Due(L, off) : Met(L[k]) => w.B.batch[L[k].b] >= w.B.freed
    <3> SUFFICES ASSUME NEW k \in Due(L, off), Met(L[k]) PROVE w.B.batch[L[k].b] >= w.B.freed
      OBVIOUS
    <3>1. L[k].b \in 1 .. Len(z.B.keys)
      BY DEF Listed, Given, Meets
    <3>2. z.B.batch[L[k].b] \in Nat /\ b <= z.B.batch[L[k].b]
      BY <2>2, <2>4, <3>1
    <3> QED
      BY <1>3, <2>2, <2>3, <3>2
  <2>6. \A k \in 1 .. Len(w.pb) : w.pb[k] # NoRow => w.B.batch[w.pb[k]] >= w.B.freed
    <3> SUFFICES ASSUME NEW k \in 1 .. Len(z.pb), z.pb[k] # NoRow PROVE w.B.batch[z.pb[k]] >= w.B.freed
      BY <1>3
    <3>1. z.pb[k] \in 1 .. Len(z.B.keys)
      <4>1. Group(z, z.pb, z.ps)
        BY <2>2, <1>3 DEF Matched
      <4>2. z.pb # <<NoRow>>
        <5> SUFFICES ASSUME z.pb = <<NoRow>> PROVE FALSE
          OBVIOUS
        <5> DEFINE q == <<NoRow>>
        <5>1. Len(q) = 1 /\ q[1] = NoRow
          OBVIOUS
        <5>2. z.pb = q
          OBVIOUS
        <5> HIDE DEF q
        <5> QED
          BY <5>1, <5>2
      <4> QED
        BY <4>1, <4>2 DEF Group, Meets
    <3>2. z.B.batch[z.pb[k]] \in Nat /\ b <= z.B.batch[z.pb[k]]
      BY <2>2, <2>4, <3>1
    <3> QED
      BY <1>3, <2>2, <2>3, <3>2
  <2>7. Lasting(w)
    <3>1. ASSUME NEW i \in 1 .. Len(z.B.keys), ~HaveNull(z.B, i), Value(z.B, i) > Value(z.S, z.ps)
          PROVE  z.B.batch[i] >= w.B.freed
      <4>1. z.B.batch[i] \in Nat /\ b <= z.B.batch[i]
        BY <2>2, <2>4, <3>1
      <4> QED
        BY <1>3, <2>2, <2>3, <4>1
    <3> QED
      BY <1>3, <1>4, <2>2, <3>1 DEF Lasting
  <2> QED
    BY <2>5, <2>6, <2>7
<1>11. /\ \A k \in Due(L, off) : Met(L[k]) => w.B.batch[L[k].b] >= w.B.freed
       /\ \A k \in 1 .. Len(w.pb) : w.pb[k] # NoRow => w.B.batch[w.pb[k]] >= w.B.freed
       /\ w.B.freed # 0 => Lasting(w)
  BY <1>9, <1>10
<1> HIDE DEF p, f
<1>12. Unfreed(w, p.s)
  <2>1. p.s \in 1 .. w.sp /\ w.S.batch[p.s] >= w.S.freed
    BY <1>3, <1>6, <1>7
  <2>2. z.sp # 0 /\ z.sp \in 1 .. Len(z.S.keys) /\ p.s <= z.sp
    BY <1>5, <1>6
  <2>3. z.S.batch[z.sp] \in Nat /\ z.S.batch[p.s] <= z.S.batch[z.sp]
    BY <1>5, <1>6, <2>2, Values
  <2>4. IF w.sp = 0 THEN w.S.freed = 0 ELSE w.S.freed <= w.S.batch[w.sp]
    BY <1>3, <1>6, <1>7, <2>2, <2>3
  <2> QED
    BY <1>11, <2>1, <2>4 DEF Unfreed
<1>13. ASSUME NEW k \in Due(L, f) PROVE Given(w, p.s, L[k])
  <2>1. k \in Due(L, off) /\ f \in Due(L, off) /\ f < k /\ k \in Int /\ f \in Int
    BY <1>1, <1>2 DEF f
  <2>2. Given(z, prev, L[k]) /\ p.s <= L[k].s
    BY <2>1 DEF Listed, InTurn, p
  <2>3. L[k].s \in 1 .. z.sp /\ L[k].s \in 1 .. Len(z.S.keys)
    BY <1>5, <2>2 DEF Given
  <2>4. z.S.batch[L[k].s] \in Nat /\ z.S.batch[p.s] <= z.S.batch[L[k].s]
    BY <1>5, <1>6, <2>2, <2>3, Values
  <2>5. w.S.batch[L[k].s] >= w.S.freed
    BY <1>3, <1>6, <1>7, <2>4
  <2>6. Met(L[k]) => /\ Meets(w, L[k].b, L[k].s) /\ w.B.batch[L[k].b] >= w.B.freed
                     /\ w.ps # NoRow /\ (NullFree(w) \/ ~HaveNull(w.S, w.ps))
                     /\ Value(w.S, L[k].s) <= Value(w.S, w.ps)
    BY <1>3, <1>4, <1>8, <1>11, <2>1, <2>2 DEF Given
  <2> QED
    BY <1>3, <2>2, <2>3, <2>5, <2>6 DEF Given
<1>14. \A i, k \in Due(L, f) : i < k => InTurn(w, L[i], L[k])
  BY <1>2, <1>4 DEF Listed, InTurn
<1>15. ASSUME NEW i \in Due(L, f), Met(L[i]), ~L[i].pre PROVE Lead(w, L, f, new, i)
  <2>1. i \in Due(L, off) /\ i > f /\ i \in Int /\ f \in Int
    BY <1>1, <1>2 DEF f
  <2>2. Lead(z, L, off, unm, i)
    BY <1>15, <2>1 DEF Listed
  <2>3. L[i].s \in 1 .. Len(z.S.keys) /\ z.S.batch[L[i].s] \in Nat
    <3>1. L[i].s \in 1 .. z.sp
      BY <2>1 DEF Listed, Given
    <3>2. L[i].s \in 1 .. Len(z.S.keys)
      BY <1>5, <3>1
    <3> QED
      BY <1>5, <3>2, Values
  <2>4. CASE Foremost(z, L, off, i)
    <3>1. Foremost(w, L, f, i)
      BY <1>2, <1>3, <1>4, <2>4 DEF Foremost
    <3> QED
      BY <3>1 DEF Lead
  <2>5. CASE Follows(L, off, i)
    <3>1. CASE i > f + 1
      BY <2>5, <3>1 DEF Follows, Lead
    <3>2. CASE ~(i > f + 1)
      <4>1. i - 1 = f
        BY <2>1, <3>2
      <4>2. Met(p) /\ ~p.pre /\ p.s = L[i].s
        BY <2>5, <4>1 DEF Follows, p
      <4>3. z.S.batch[L[i].s] <= new
        BY <1>7, <4>2
      <4> QED
        BY <1>3, <4>3 DEF Lead
    <3> QED
      BY <3>1, <3>2
  <2>6. CASE z.S.batch[L[i].s] <= unm
    <3>1. w.S.batch[L[i].s] <= new
      BY <1>1, <1>3, <2>3, <2>6
    <3> QED
      BY <3>1 DEF Lead
  <2> QED
    BY <2>2, <2>4, <2>5, <2>6 DEF Lead
<1>16. Listed(w, L, f, p.s, new)
  BY <1>1, <1>6, <1>12, <1>13, <1>14, <1>15 DEF Listed, f
<1> QED
  BY <1>16 DEF p, f

-----------------------------------------------------------------------------
(* JoinResultBuilder.                                                      *)

Flows  == {STREAMED, BUFFERED, FINISH}
Joiner ==
  [scan : Scanner, filtered : BOOLEAN, maxRowCount : Nat \ {0}, pairs : Seq(Pair), offset : Nat,
   rows : Seq(Int \X Int), prev : Int, out : BOOLEAN, seen : BOOLEAN, unmatched : Int,
   flow : Flows, hasData : BOOLEAN, return : Seq(Int \X Int), stale : BOOLEAN]

\* k is j, but for the rows built, the batches freed and the flags of the builder.
Beside(j, k) ==
  /\ k \in Joiner /\ k.filtered = j.filtered /\ k.maxRowCount = j.maxRowCount /\ k.pairs = j.pairs
  /\ k.offset = j.offset /\ k.prev = j.prev /\ k.flow = j.flow /\ k.hasData = j.hasData /\ k.return = j.return

\* Rows that can be read.
Used(j, s, b) == s \in Int /\ b \in Int /\ ~Freed(j.scan.S, s) /\ ~Freed(j.scan.B, b)

\* A row is written.
LEMMA OutIs ==
  ASSUME NEW j \in Joiner, ~j.stale, NEW s, NEW b, Used(j, s, b)
  PROVE  LET k == Out(j, s, b)
         IN  /\ Beside(j, k) /\ k.scan = j.scan /\ k.unmatched = j.unmatched /\ k.out = j.out /\ k.seen = j.seen
             /\ ~k.stale /\ Len(k.rows) = Len(j.rows) + 1
<1> DEFINE r == <<s, b>>
           rows == Append(j.rows, r)
           stale == j.stale \/ Freed(j.scan.S, s) \/ Freed(j.scan.B, b)
           k == Out(j, s, b)
<1>1. r \in Int \X Int /\ j.rows \in Seq(Int \X Int)
  BY DEF Used, Joiner
<1>2. rows \in Seq(Int \X Int) /\ Len(rows) = Len(j.rows) + 1
  <2> HIDE DEF r
  <2> QED
    BY <1>1, AppendProperties
<1>3. stale = FALSE
  BY DEF Used, Joiner
<1>4. k = [j EXCEPT !.rows = rows, !.stale = stale]
  BY DEF Out
<1> HIDE DEF rows, stale, k, r
<1>5. k \in Joiner /\ k.rows = rows /\ ~k.stale
  BY <1>2, <1>3, <1>4 DEF Joiner
<1> QED
  BY <1>2, <1>4, <1>5 DEF Beside, Joiner, k

\* Batches are freed.
LEMMA FreeIs ==
  ASSUME NEW j \in Joiner, NEW s \in Int, NEW b \in Int
  PROVE  LET k == Free(j, s, b)
         IN  /\ Beside(j, k) /\ Freeing(j.scan, k.scan) /\ k.unmatched = j.unmatched /\ k.out = j.out /\ k.seen = j.seen
             /\ k.stale = j.stale /\ k.rows = j.rows
             /\ k.scan.S.freed = (IF s < j.scan.S.batches /\ s > j.scan.S.freed THEN s ELSE j.scan.S.freed)
             /\ k.scan.B.freed = (IF b < j.scan.B.batches /\ b > j.scan.B.freed THEN b ELSE j.scan.B.freed)
<1> DEFINE z == j.scan
           S == FreeBeforeVecBatch(z.S, s)
           B == FreeBeforeVecBatch(z.B, b)
           w == [z EXCEPT !.S = S, !.B = B]
           k == Free(j, s, b)
<1>1. z \in Scanner /\ z.S \in Pages /\ z.B \in Pages
  BY DEF Joiner, Scanner
<1>2. ASSUME NEW x \in Pages, NEW i \in Int
      PROVE  /\ OnlyFreed(x, FreeBeforeVecBatch(x, i))
             /\ FreeBeforeVecBatch(x, i).freed = IF i < x.batches /\ i > x.freed THEN i ELSE x.freed
  <2>1. x.freed \in Nat
    BY DEF Pages
  <2>2. CASE i < x.batches /\ i > x.freed
    <3>1. i \in Nat
      BY <2>1, <2>2
    <3>2. FreeBeforeVecBatch(x, i) = [x EXCEPT !.freed = i]
      BY <2>2 DEF FreeBeforeVecBatch
    <3> QED
      BY <2>2, <3>1, <3>2 DEF OnlyFreed, Pages
  <2>3. CASE ~(i < x.batches /\ i > x.freed)
    BY <2>3 DEF OnlyFreed, FreeBeforeVecBatch
  <2> QED
    BY <2>2, <2>3
<1>3. OnlyFreed(z.S, S) /\ OnlyFreed(z.B, B) /\ S \in Pages /\ B \in Pages
  BY <1>1, <1>2 DEF OnlyFreed
<1>4. k = [j EXCEPT !.scan = w]
  BY <1>1 DEF Free, Joiner, Scanner
<1> HIDE DEF S, B, k
<1>5. w \in Scanner /\ w.S = S /\ w.B = B /\ Freeing(z, w)
  BY <1>1, <1>3 DEF Scanner, Freeing
<1> HIDE DEF w
<1>6. k \in Joiner /\ k.scan = w
  BY <1>4, <1>5 DEF Joiner
<1>7. /\ w.S.freed = (IF s < z.S.batches /\ s > z.S.freed THEN s ELSE z.S.freed)
      /\ w.B.freed = (IF b < z.B.batches /\ b > z.B.freed THEN b ELSE z.B.freed)
  BY <1>1, <1>2, <1>5 DEF S, B
<1> QED
  BY <1>4, <1>5, <1>6, <1>7 DEF Beside, Joiner, k

\* One after the other ...
LEMMA BesideTwice == ASSUME NEW i, NEW j, NEW k, Beside(i, j), Beside(j, k) PROVE Beside(i, k)
  BY DEF Beside

\* ... or nothing.
LEMMA BesideSelf == ASSUME NEW j \in Joiner PROVE Beside(j, j)
  BY DEF Beside

\* The flags of the builder.
LEMMA OutFlag ==
  ASSUME NEW j \in Joiner, NEW flag \in BOOLEAN
  PROVE  LET k == [j EXCEPT !.out = flag]
         IN  /\ Beside(j, k) /\ k.scan = j.scan /\ k.unmatched = j.unmatched /\ k.out = flag /\ k.seen = j.seen
             /\ k.stale = j.stale /\ k.rows = j.rows
  BY DEF Beside, Joiner

\* isPreRowMatched.
LEMMA SeenFlag ==
  ASSUME NEW j \in Joiner, NEW flag \in BOOLEAN
  PROVE  LET k == [j EXCEPT !.seen = flag]
         IN  /\ Beside(j, k) /\ k.scan = j.scan /\ k.unmatched = j.unmatched /\ k.out = j.out /\ k.seen = flag
             /\ k.stale = j.stale /\ k.rows = j.rows
  BY DEF Beside, Joiner

\* lastUnMatchedStreamedBatchId.
LEMMA UnmatchedSet ==
  ASSUME NEW j \in Joiner, NEW n \in Int
  PROVE  LET k == [j EXCEPT !.unmatched = n]
         IN  /\ Beside(j, k) /\ k.scan = j.scan /\ k.unmatched = n /\ k.out = j.out /\ k.seen = j.seen
             /\ k.stale = j.stale /\ k.rows = j.rows
  BY DEF Beside, Joiner

\* What is read for the pair p, and for the streamed row before it, is there.
Turned(j, p) ==
  LET z == j.scan IN
  /\ p \in Pair /\ p.s # NoRow
  /\ z.S.batch[p.s] \in Nat /\ z.S.batch[p.s] < z.S.batches /\ z.S.freed <= z.S.batch[p.s]
  /\ p.b # NoRow => z.B.batch[p.b] \in Nat /\ z.B.batch[p.b] < z.B.batches /\ z.B.freed <= z.B.batch[p.b]
  /\ j.prev # -1 => /\ j.prev # NoRow /\ z.S.batch[j.prev] \in Nat /\ z.S.freed <= z.S.batch[j.prev]
                    /\ z.S.batch[j.prev] <= z.S.batch[p.s]

\* Those rows are not freed.
LEMMA TurnedUsed ==
  ASSUME NEW j \in Joiner, NEW p, Turned(j, p)
  PROVE  /\ Used(j, p.s, p.b) /\ Used(j, p.s, NoRow)
         /\ j.prev # -1 => Used(j, j.prev, NoRow)
<1>1. p.s \in Int /\ p.b \in Int /\ j.prev \in Int /\ j.scan.S.freed \in Nat /\ j.scan.B.freed \in Nat /\ NoRow \in Int
  <2>1. p \in Pair /\ j.scan \in Scanner /\ j.prev \in Int
    BY DEF Turned, Joiner
  <2>2. j.scan.S \in Pages /\ j.scan.B \in Pages
    BY <2>1 DEF Scanner
  <2>3. j.scan.S.freed \in Nat /\ j.scan.B.freed \in Nat
    BY <2>2 DEF Pages
  <2> QED
    BY <2>1, <2>3 DEF Pair, NoRow
<1>2. ~Freed(j.scan.S, p.s) /\ ~Freed(j.scan.B, p.b) /\ ~Freed(j.scan.B, NoRow)
  BY <1>1 DEF Turned, Freed
<1>3. j.prev # -1 => ~Freed(j.scan.S, j.prev)
  BY <1>1 DEF Turned, Freed
<1> QED
  BY <1>1, <1>2, <1>3 DEF Used

\* PaddingRightTableNull for the row before: only a left join with a filter has one to pad.
NoPads(j) == j.filtered => j.scan.type # "left"
Roomy(j)  == NoPads(j) /\ j.scan.type \in {"left", "anti"} /\ j.prev # -1 => j.out

\* It is given a row, if it has none, and the flag is that of the row at hand.
LEMMA PadPreviousIs ==
  ASSUME NEW j \in Joiner, ~j.stale, NEW p, Turned(j, p)
  PROVE  LET k == PadPrevious(j, p.s)
         IN  /\ Beside(j, k) /\ k.scan = j.scan /\ k.unmatched = j.unmatched /\ k.seen = j.seen
             /\ ~k.stale /\ (NoPads(j) /\ j.scan.type \in {"left", "anti"} /\ Roomy(j) => k.rows = j.rows)
<1> DEFINE pads == j.prev # -1 /\ j.prev # p.s /\ ~j.out
           x == IF pads THEN Out(j, j.prev, NoRow) ELSE j
           k == PadPrevious(j, p.s)
           flag == x.out /\ j.prev # -1 /\ j.prev = p.s
<1>1. k = [x EXCEPT !.out = flag]
  BY DEF PadPrevious
<1>2. /\ Beside(j, x) /\ x.scan = j.scan /\ x.unmatched = j.unmatched /\ x.seen = j.seen /\ ~x.stale
      /\ ~pads => x.rows = j.rows
  <2>1. CASE pads
    <3>1. Used(j, j.prev, NoRow)
      BY <2>1, TurnedUsed
    <3> QED
      BY <2>1, <3>1, OutIs
  <2>2. CASE ~pads
    BY <2>2, BesideSelf
  <2> QED
    BY <2>1, <2>2
<1>3. NoPads(j) /\ j.scan.type \in {"left", "anti"} /\ Roomy(j) => ~pads
  BY DEF Roomy
<1>4. flag \in BOOLEAN
  <2>1. x \in Joiner
    BY <1>2 DEF Beside
  <2> QED
    BY <2>1 DEF Joiner
<1> HIDE DEF x, k, pads, flag
<1>5. /\ Beside(x, k) /\ k.scan = x.scan /\ k.unmatched = x.unmatched /\ k.seen = x.seen
      /\ k.stale = x.stale /\ k.rows = x.rows
  BY <1>1, <1>2, <1>4, OutFlag DEF Beside
<1>6. Beside(j, k)
  BY <1>2, <1>5, BesideTwice
<1> QED
  BY <1>2, <1>3, <1>5, <1>6 DEF k

\* FreeVectorBatches.
LEMMA FreeVectorBatchesIs ==
  ASSUME NEW j \in Joiner, ~j.stale, NEW p, Turned(j, p)
  PROVE  LET k == FreeVectorBatches(j, p)
         IN  /\ Beside(j, k) /\ Emptied(j.scan, k.scan, p, j.unmatched, k.unmatched)
             /\ k.rows = j.rows /\ ~k.stale /\ k.out = j.out /\ k.seen = j.seen
             /\ Used(k, p.s, p.b) /\ Used(k, p.s, NoRow)
<1> DEFINE z == j.scan
           s == z.S.batch[p.s]
           b == z.B.batch[p.b]
           k == FreeVectorBatches(j, p)
           none == p.b = NoRow \/ p.pre \/ s <= j.unmatched
<1>1. /\ p.s \in Int /\ p.b \in Int /\ z.S.freed \in Nat /\ z.B.freed \in Nat /\ NoRow \in Int /\ p.s # NoRow
      /\ j.unmatched \in Int /\ s \in Nat /\ s < z.S.batches /\ z.S.batches \in Nat /\ z.B.batches \in Nat
      /\ z.S.freed <= s /\ z \in Scanner
      /\ p.b # NoRow => b \in Nat /\ b < z.B.batches /\ z.B.freed <= b
  <2>1. p \in Pair /\ z \in Scanner /\ j.unmatched \in Int
    BY DEF Turned, Joiner
  <2>2. z.S \in Pages /\ z.B \in Pages
    BY <2>1 DEF Scanner
  <2>3. z.S.freed \in Nat /\ z.B.freed \in Nat /\ z.S.batches \in Nat /\ z.B.batches \in Nat
    BY <2>2 DEF Pages
  <2>4. p.s \in Int /\ p.b \in Int /\ NoRow \in Int
    BY <2>1 DEF Pair, NoRow
  <2> QED
    BY <2>1, <2>3, <2>4 DEF Turned
<1>2. BatchOf(z.S, p.s) = s /\ (p.b # NoRow => BatchOf(z.B, p.b) = b)
  BY <1>1 DEF BatchOf
<1>3. CASE none
  <2>1. k = j
    BY <1>1, <1>2, <1>3 DEF FreeVectorBatches
  <2>2. Freeing(z, z)
    BY <1>1 DEF Freeing, OnlyFreed, Scanner
  <2>3. Met(p) /\ ~p.pre => s <= j.unmatched
    BY <1>3 DEF Met
  <2>4. Emptied(z, z, p, j.unmatched, j.unmatched)
    BY <1>1, <2>2, <2>3 DEF Emptied
  <2>5. Used(j, p.s, p.b) /\ Used(j, p.s, NoRow)
    BY TurnedUsed
  <2> QED
    BY <2>1, <2>4, <2>5, BesideSelf
<1>4. CASE ~none
  <2> DEFINE x == Free(j, s, b)
  <2>1. k = [x EXCEPT !.unmatched = s]
    BY <1>1, <1>2, <1>4 DEF FreeVectorBatches
  <2>2. b \in Nat /\ b < z.B.batches /\ z.B.freed <= b /\ Met(p) /\ ~p.pre /\ s > j.unmatched
    BY <1>1, <1>4 DEF Met
  <2>3. /\ Beside(j, x) /\ Freeing(z, x.scan) /\ x.out = j.out /\ x.seen = j.seen
        /\ x.stale = j.stale /\ x.rows = j.rows
        /\ x.scan.S.freed = (IF s < z.S.batches /\ s > z.S.freed THEN s ELSE z.S.freed)
        /\ x.scan.B.freed = (IF b < z.B.batches /\ b > z.B.freed THEN b ELSE z.B.freed)
    <3>1. s \in Int /\ b \in Int
      BY <1>1, <2>2
    <3> HIDE DEF s, b
    <3> QED
      BY <3>1, FreeIs
  <2>4. x.scan.S.freed = s /\ x.scan.B.freed = b
    <3> HIDE DEF s, b, x
    <3>1. x.scan.S.freed = s
      BY <1>1, <2>3
    <3>2. x.scan.B.freed = b
      BY <1>1, <2>2, <2>3
    <3> QED
      BY <3>1, <3>2
  <2> HIDE DEF x, k, none
  <2>5. x \in Joiner
    BY <2>3 DEF Beside
  <2>6. /\ Beside(x, k) /\ k.scan = x.scan /\ k.unmatched = s /\ k.out = x.out /\ k.seen = x.seen
        /\ k.stale = x.stale /\ k.rows = x.rows
    <3>1. s \in Int
      BY <1>1
    <3> HIDE DEF s
    <3> QED
      BY <2>1, <2>5, <3>1, UnmatchedSet
  <2>7. Emptied(z, k.scan, p, j.unmatched, k.unmatched)
    BY <1>1, <2>2, <2>3, <2>4, <2>6 DEF Emptied
  <2>8. k.scan.S.batch = z.S.batch /\ k.scan.B.batch = z.B.batch
    BY <2>3, <2>6 DEF Freeing, OnlyFreed
  <2>9. ~Freed(k.scan.S, p.s) /\ ~Freed(k.scan.B, p.b) /\ ~Freed(k.scan.B, NoRow)
    BY <1>1, <2>2, <2>4, <2>6, <2>8 DEF Freed
  <2>10. Beside(j, k)
    BY <2>3, <2>6, BesideTwice
  <2> QED
    BY <1>1, <2>3, <2>6, <2>7, <2>9, <2>10 DEF Used, k
<1> QED
  BY <1>3, <1>4

\* What the handlers of the joins have in common.
Handled(j, k, p) ==
  /\ Beside(j, k) /\ Emptied(j.scan, k.scan, p, j.unmatched, k.unmatched) /\ ~k.stale
  /\ NoPads(j) /\ Roomy(j) => Len(k.rows) <= Len(j.rows) + 1
  /\ NoPads(j) /\ j.scan.type \in {"left", "anti"} => k.out

\* A row of a left join.
LEMMA LeftRowIs ==
  ASSUME NEW j \in Joiner, ~j.stale, NEW p, Turned(j, p), j.scan.type = "left"
  PROVE  Handled(j, LeftRow(j, p), p)
<1> DEFINE x == PadPrevious(j, p.s)
           y == FreeVectorBatches(x, p)
           k == LeftRow(j, p)
<1>1. /\ Beside(j, x) /\ x.scan = j.scan /\ x.unmatched = j.unmatched /\ ~x.stale /\ x \in Joiner /\ x.prev = j.prev
      /\ NoPads(j) /\ Roomy(j) => x.rows = j.rows
  BY PadPreviousIs DEF Beside
<1> HIDE DEF x
<1>2. Turned(x, p)
  BY <1>1 DEF Turned
<1>3. /\ Beside(x, y) /\ Emptied(j.scan, y.scan, p, j.unmatched, y.unmatched) /\ y.rows = x.rows /\ ~y.stale
      /\ Used(y, p.s, p.b) /\ y \in Joiner
  BY <1>1, <1>2, FreeVectorBatchesIs DEF Beside
<1>4. k = IF Direct(p) \/ Eligible(j, p) THEN [Out(y, p.s, p.b) EXCEPT !.out = TRUE] ELSE y
  BY DEF LeftRow, x
<1>5. Beside(j, y) /\ Len(j.rows) \in Nat
  BY <1>1, <1>3, BesideTwice, LenProperties DEF Joiner
<1> HIDE DEF y, k
<1>6. CASE Direct(p) \/ Eligible(j, p)
  <2> DEFINE v == Out(y, p.s, p.b)
             yes == TRUE
  <2>1. k = [v EXCEPT !.out = yes]
    BY <1>4, <1>6
  <2>2. /\ Beside(y, v) /\ v.scan = y.scan /\ v.unmatched = y.unmatched /\ ~v.stale /\ Len(v.rows) = Len(y.rows) + 1
        /\ v \in Joiner
    BY <1>3, OutIs DEF Beside
  <2> HIDE DEF v
  <2>3. yes \in BOOLEAN
    OBVIOUS
  <2> HIDE DEF yes
  <2>4. /\ Beside(v, k) /\ k.scan = v.scan /\ k.unmatched = v.unmatched /\ k.out = yes /\ k.stale = v.stale /\ k.rows = v.rows
    BY <2>1, <2>2, <2>3, OutFlag
  <2>5. Beside(j, k)
    BY <1>5, <2>2, <2>4, BesideTwice
  <2>6. NoPads(j) /\ Roomy(j) => Len(k.rows) <= Len(j.rows) + 1
    BY <1>1, <1>3, <1>5, <2>2, <2>4
  <2> QED
    BY <1>3, <2>2, <2>4, <2>5, <2>6 DEF Handled, k, yes
<1>7. CASE ~(Direct(p) \/ Eligible(j, p))
  <2>1. k = y
    BY <1>4, <1>7
  <2>2. ~NoPads(j)
    BY <1>7 DEF NoPads, Eligible, Joiner
  <2> QED
    BY <1>3, <1>5, <2>1, <2>2 DEF Handled, k
<1> QED
  BY <1>6, <1>7

\* A row of a semi join.
LEMMA SemiRowIs ==
  ASSUME NEW j \in Joiner, ~j.stale, NEW p, Turned(j, p), j.scan.type = "semi"
  PROVE  Handled(j, SemiRow(j, p), p)
<1> DEFINE y == FreeVectorBatches(j, p)
           gives == Eligible(j, p) /\ (p.same => ~j.seen)
           flag == gives \/ (p.same /\ j.seen)
           v == IF gives THEN Out(y, p.s, NoRow) ELSE y
           k == SemiRow(j, p)
<1>1. /\ Beside(j, y) /\ Emptied(j.scan, y.scan, p, j.unmatched, y.unmatched) /\ y.rows = j.rows /\ ~y.stale
      /\ Used(y, p.s, NoRow) /\ y \in Joiner
  BY FreeVectorBatchesIs DEF Beside
<1>2. k = [v EXCEPT !.seen = flag]
  BY DEF SemiRow
<1>3. Len(j.rows) \in Nat
  BY LenProperties DEF Joiner
<1>4. flag \in BOOLEAN
  OBVIOUS
<1> HIDE DEF y, flag, k
<1>5. /\ Beside(y, v) /\ v.scan = y.scan /\ v.unmatched = y.unmatched /\ ~v.stale /\ Len(v.rows) <= Len(y.rows) + 1
  <2>1. CASE gives
    <3>1. LET o == Out(y, p.s, NoRow)
          IN  Beside(y, o) /\ o.scan = y.scan /\ o.unmatched = y.unmatched /\ ~o.stale /\ Len(o.rows) = Len(y.rows) + 1
      BY <1>1, OutIs
    <3> QED
      BY <1>1, <1>3, <2>1, <3>1
  <2>2. CASE ~gives
    BY <1>1, <1>3, <2>2, BesideSelf
  <2> QED
    BY <2>1, <2>2
<1> HIDE DEF v
<1>6. v \in Joiner
  BY <1>5 DEF Beside
<1>7. /\ Beside(v, k) /\ k.scan = v.scan /\ k.unmatched = v.unmatched /\ k.stale = v.stale /\ k.rows = v.rows
  BY <1>2, <1>4, <1>6, SeenFlag
<1>8. Beside(j, k)
  BY <1>1, <1>5, <1>7, BesideTwice
<1> QED
  BY <1>1, <1>5, <1>7, <1>8 DEF Handled, k

\* A row of an anti join.
LEMMA AntiRowIs ==
  ASSUME NEW j \in Joiner, ~j.stale, NEW p, Turned(j, p), j.scan.type = "anti"
  PROVE  Handled(j, AntiRow(j, p), p)
<1> DEFINE i    == j.offset + 1
           size == Len(j.pairs)
           more == i < size /\ j.pairs[i + 1].same
           seen == IF i < size /\ ~p.same THEN FALSE ELSE j.seen
           x == PadPrevious(j, p.s)
           y == FreeVectorBatches(x, p)
           yes == TRUE
           u == [y EXCEPT !.out = yes]
           meets == p.b # NoRow /\ Eligible(j, p)
           k == AntiRow(j, p)
<1>1. /\ Beside(j, x) /\ x.scan = j.scan /\ x.unmatched = j.unmatched /\ ~x.stale /\ x \in Joiner /\ x.prev = j.prev
      /\ NoPads(j) /\ Roomy(j) => x.rows = j.rows
  BY PadPreviousIs DEF Beside
<1>2. /\ IF more THEN k = [u EXCEPT !.seen = seen \/ meets]
         ELSE IF p.b = NoRow \/ (~meets /\ ~seen) THEN k = [Out(u, p.s, NoRow) EXCEPT !.seen = seen]
         ELSE k = [u EXCEPT !.seen = TRUE]
  BY DEF AntiRow
<1>3. seen \in BOOLEAN /\ meets \in BOOLEAN /\ yes \in BOOLEAN /\ yes = TRUE
  BY DEF Joiner
<1> HIDE DEF x
<1>4. Turned(x, p)
  BY <1>1 DEF Turned
<1>5. /\ Beside(x, y) /\ Emptied(j.scan, y.scan, p, j.unmatched, y.unmatched) /\ y.rows = x.rows /\ ~y.stale
      /\ Used(y, p.s, NoRow) /\ y \in Joiner
  BY <1>1, <1>4, FreeVectorBatchesIs DEF Beside
<1>6. Beside(j, y) /\ Len(j.rows) \in Nat
  BY <1>1, <1>5, BesideTwice, LenProperties DEF Joiner
<1> HIDE DEF y, k, yes, seen, meets, more
<1>7. Beside(y, u) /\ u.scan = y.scan /\ u.unmatched = y.unmatched /\ u.out = yes /\ u.stale = y.stale /\ u.rows = y.rows
  BY <1>3, <1>5, OutFlag
<1> HIDE DEF u
<1>8. /\ Beside(j, u) /\ u \in Joiner /\ Emptied(j.scan, u.scan, p, j.unmatched, u.unmatched) /\ ~u.stale /\ u.out
      /\ Used(u, p.s, NoRow) /\ (NoPads(j) /\ Roomy(j) => u.rows = j.rows)
  <2>1. Beside(j, u) /\ u \in Joiner
    BY <1>6, <1>7, BesideTwice DEF Beside
  <2> QED
    BY <1>1, <1>3, <1>5, <1>7, <2>1 DEF Used
<1>9. ASSUME NEW v \in Joiner, NEW flag \in BOOLEAN, Beside(u, v), v.scan = u.scan, v.unmatched = u.unmatched, v.out = u.out,
             ~v.stale, NoPads(j) /\ Roomy(j) => Len(v.rows) <= Len(j.rows) + 1, k = [v EXCEPT !.seen = flag]
      PROVE  Handled(j, k, p)
  <2>1. Beside(v, k) /\ k.scan = v.scan /\ k.unmatched = v.unmatched /\ k.out = v.out /\ k.stale = v.stale /\ k.rows = v.rows
    BY <1>9, SeenFlag
  <2>2. Beside(j, k)
    BY <1>8, <1>9, <2>1, BesideTwice
  <2> QED
    BY <1>8, <1>9, <2>1, <2>2 DEF Handled
<1>10. Beside(u, u) /\ (NoPads(j) /\ Roomy(j) => Len(u.rows) <= Len(j.rows) + 1)
  BY <1>6, <1>8, BesideSelf
<1>11. CASE more
  <2> DEFINE flag == seen \/ meets
  <2>1. flag \in BOOLEAN /\ k = [u EXCEPT !.seen = flag]
    BY <1>2, <1>11
  <2> HIDE DEF flag
  <2> QED
    BY <1>8, <1>9, <1>10, <2>1 DEF k
<1>12. CASE ~more /\ (p.b = NoRow \/ (~meets /\ ~seen))
  <2> DEFINE v == Out(u, p.s, NoRow)
  <2>1. k = [v EXCEPT !.seen = seen]
    BY <1>2, <1>12
  <2>2. /\ Beside(u, v) /\ v.scan = u.scan /\ v.unmatched = u.unmatched /\ v.out = u.out /\ ~v.stale
        /\ Len(v.rows) = Len(u.rows) + 1 /\ v \in Joiner
    <3>1. u \in Joiner /\ ~u.stale /\ Used(u, p.s, NoRow)
      BY <1>8
    <3>2. /\ Beside(u, v) /\ v.scan = u.scan /\ v.unmatched = u.unmatched /\ v.out = u.out /\ ~v.stale
          /\ Len(v.rows) = Len(u.rows) + 1
      BY <3>1, OutIs
    <3> QED
      BY <3>2 DEF Beside
  <2> HIDE DEF v
  <2>3. NoPads(j) /\ Roomy(j) => Len(v.rows) <= Len(j.rows) + 1
    BY <1>6, <1>8, <2>2
  <2> QED
    BY <1>3, <1>9, <2>1, <2>2, <2>3 DEF k
<1>13. CASE ~more /\ ~(p.b = NoRow \/ (~meets /\ ~seen))
  <2> DEFINE flag == TRUE
  <2>1. flag \in BOOLEAN /\ k = [u EXCEPT !.seen = flag]
    BY <1>2, <1>13
  <2> HIDE DEF flag
  <2> QED
    BY <1>8, <1>9, <1>10, <2>1 DEF k
<1> QED
  BY <1>11, <1>12, <1>13

\* A row of an inner join.
LEMMA InnerRowIs ==
  ASSUME NEW j \in Joiner, ~j.stale, NEW p, Turned(j, p), j.scan.type = "inner"
  PROVE  Handled(j, InnerRow(j, p), p)
<1> DEFINE z == j.scan
           s == BatchOf(z.S, p.s)
           fresh == ~p.pre /\ s > j.unmatched
           x == IF Eligible(j, p) THEN Out(j, p.s, p.b) ELSE j
           new == IF fresh THEN s ELSE x.unmatched
           y == [x EXCEPT !.unmatched = new]
           a == IF j.prev = -1 THEN 0 ELSE BatchOf(z.S, j.prev)
           b == IF fresh /\ Eligible(j, p) THEN BatchOf(z.B, p.b) ELSE 0
           k == InnerRow(j, p)
<1>1. k = Free(y, a, b)
  BY DEF InnerRow
<1>2. /\ z \in Scanner /\ j.unmatched \in Int /\ z.S.freed \in Nat /\ z.B.freed \in Nat /\ Len(j.rows) \in Nat
  <2>1. z \in Scanner /\ j.unmatched \in Int /\ j.rows \in Seq(Int \X Int)
    BY DEF Joiner
  <2>2. z.S \in Pages /\ z.B \in Pages
    BY <2>1 DEF Scanner
  <2> QED
    BY <2>1, <2>2, LenProperties DEF Pages
<1>3. s = z.S.batch[p.s] /\ s \in Nat /\ z.S.freed <= s
  BY DEF Turned, BatchOf
<1>4. a \in Int /\ (a = 0 \/ a <= s)
  BY <1>3 DEF Turned, BatchOf
<1>5. /\ b \in Int
      /\ b = 0 \/ b = -1 \/ (Met(p) /\ fresh /\ b = z.B.batch[p.b])
  <2>1. p.b # NoRow => BatchOf(z.B, p.b) = z.B.batch[p.b] /\ z.B.batch[p.b] \in Nat
    BY DEF BatchOf, Turned
  <2>2. p.b = NoRow => BatchOf(z.B, p.b) = -1
    BY DEF BatchOf
  <2> QED
    BY <2>1, <2>2 DEF Met
<1>6. /\ Beside(j, x) /\ x.scan = z /\ x.unmatched = j.unmatched /\ ~x.stale /\ Len(x.rows) <= Len(j.rows) + 1
  <2>1. CASE Eligible(j, p)
    <3>1. LET o == Out(j, p.s, p.b)
          IN  Beside(j, o) /\ o.scan = z /\ o.unmatched = j.unmatched /\ ~o.stale /\ Len(o.rows) = Len(j.rows) + 1
      BY TurnedUsed, OutIs
    <3> QED
      BY <1>2, <2>1, <3>1
  <2>2. CASE ~Eligible(j, p)
    BY <1>2, <2>2, BesideSelf
  <2> QED
    BY <2>1, <2>2
<1> HIDE DEF x, k, s, a, b
<1>7. /\ new \in Int /\ j.unmatched <= new /\ (~p.pre => s <= new)
  <2>1. p.pre \in BOOLEAN
    BY DEF Turned, Pair
  <2> QED
    BY <1>2, <1>3, <1>6, <2>1
<1>8. x \in Joiner
  BY <1>6 DEF Beside
<1> HIDE DEF new
<1>9. Beside(x, y) /\ y.scan = x.scan /\ y.unmatched = new /\ y.stale = x.stale /\ y.rows = x.rows
  BY <1>7, <1>8, UnmatchedSet
<1> HIDE DEF y
<1>10. y \in Joiner
  BY <1>9 DEF Beside
<1>11. /\ Beside(y, k) /\ Freeing(z, k.scan) /\ k.unmatched = y.unmatched
       /\ k.stale = y.stale /\ k.rows = y.rows
       /\ k.scan.S.freed = (IF a < z.S.batches /\ a > z.S.freed THEN a ELSE z.S.freed)
       /\ k.scan.B.freed = (IF b < z.B.batches /\ b > z.B.freed THEN b ELSE z.B.freed)
  BY <1>1, <1>4, <1>5, <1>6, <1>9, <1>10, FreeIs
<1>12. Beside(j, k)
  BY <1>6, <1>9, <1>11, BesideTwice
<1>13. z.S.freed <= k.scan.S.freed /\ k.scan.S.freed <= s
  BY <1>2, <1>3, <1>4, <1>11
<1>14. \/ k.scan.B.freed = z.B.freed
       \/ /\ Met(p) /\ ~p.pre /\ s > j.unmatched
          /\ z.B.freed <= k.scan.B.freed /\ k.scan.B.freed <= z.B.batch[p.b]
  BY <1>2, <1>5, <1>11
<1>15. Emptied(z, k.scan, p, j.unmatched, k.unmatched)
  BY <1>3, <1>7, <1>9, <1>11, <1>13, <1>14 DEF Emptied
<1> QED
  BY <1>6, <1>9, <1>11, <1>12, <1>15 DEF Handled, k

-----------------------------------------------------------------------------
(* While rows are built.                                                   *)

\* No batch is freed before it has come.
Backed(x) == x.freed <= x.batches

Built(j) ==
  /\ j \in Joiner /\ Between(j.scan) /\ ~j.stale /\ Roomy(j)
  /\ Listed(j.scan, j.pairs, j.offset, j.prev, j.unmatched) /\ Backed(j.scan.B)

\* k is j some rows later.
Later(j, k) ==
  /\ Built(k) /\ Freeing(j.scan, k.scan) /\ k.filtered = j.filtered /\ k.maxRowCount = j.maxRowCount
  /\ k.pairs = j.pairs /\ k.flow = j.flow /\ k.hasData = j.hasData /\ k.return = j.return

\* No row is a row later ...
LEMMA LaterSelf == ASSUME NEW j, Built(j) PROVE Later(j, j)
<1>1. j.scan \in Scanner
  BY DEF Built, Joiner
<1>2. Freeing(j.scan, j.scan)
  BY <1>1 DEF Freeing, OnlyFreed, Scanner
<1> QED
  BY <1>2 DEF Later

\* ... and rows after rows are.
LEMMA LaterTwice == ASSUME NEW i, NEW j, NEW k, Later(i, j), Later(j, k) PROVE Later(i, k)
<1>1. Freeing(i.scan, k.scan)
  BY DEF Later, Freeing, OnlyFreed
<1> QED
  BY <1>1 DEF Later

\* The next pair is one that can be read.
LEMMA BuiltTurned ==
  ASSUME NEW j, Built(j), j.offset < Len(j.pairs)
  PROVE  Turned(j, j.pairs[j.offset + 1])
<1> DEFINE z == j.scan
           f == j.offset + 1
           p == j.pairs[f]
<1>1. /\ Placed(z) /\ j.pairs \in Seq(Pair) /\ j.offset \in 0 .. Len(j.pairs) /\ Len(j.pairs) \in Nat
      /\ j.prev \in Int /\ Unfreed(z, j.prev)
  BY LenProperties DEF Built, Between, Listed
<1>2. f \in Due(j.pairs, j.offset) /\ f \in 1 .. Len(j.pairs)
  BY <1>1 DEF Due
<1>3. p \in Pair
  BY <1>1, <1>2, ElementOfSeq
<1>4. Given(z, j.prev, p)
  BY <1>2 DEF Built, Listed
<1> HIDE DEF p, f
<1>5. /\ Ordered(z.S) /\ Ordered(z.B) /\ z.sp \in Int /\ z.sp <= Len(z.S.keys) /\ Len(z.S.keys) \in Nat
  BY <1>1, PagesLen DEF Placed, Scanner, InS
<1>6. p.s \in 1 .. Len(z.S.keys) /\ p.s # NoRow
  BY <1>4, <1>5 DEF Given, NoRow
<1>7. z.S.batch[p.s] \in Nat /\ z.S.batch[p.s] < z.S.batches /\ z.S.freed <= z.S.batch[p.s]
  <2>1. z.S.batch[p.s] \in Nat
    BY <1>5, <1>6, Values
  <2>2. z.S.batch[p.s] < z.S.batches
    BY <1>5, <1>6 DEF Ordered
  <2>3. z.S.batch[p.s] >= z.S.freed
    BY <1>4 DEF Given
  <2>4. z.S.freed \in Nat
    BY <1>5 DEF Ordered, Pages
  <2> QED
    BY <2>1, <2>2, <2>3, <2>4
<1>8. p.b # NoRow => z.B.batch[p.b] \in Nat /\ z.B.batch[p.b] < z.B.batches /\ z.B.freed <= z.B.batch[p.b]
  <2> SUFFICES ASSUME p.b # NoRow PROVE z.B.batch[p.b] \in Nat /\ z.B.batch[p.b] < z.B.batches /\ z.B.freed <= z.B.batch[p.b]
    OBVIOUS
  <2>1. p.b \in 1 .. Len(z.B.keys) /\ z.B.batch[p.b] >= z.B.freed
    BY <1>4 DEF Given, Met, Meets
  <2>2. z.B.batch[p.b] \in Nat
    BY <1>5, <2>1, Values
  <2>3. z.B.batch[p.b] < z.B.batches
    BY <1>5, <2>1 DEF Ordered
  <2>4. z.B.freed \in Nat
    BY <1>5 DEF Ordered, Pages
  <2> QED
    BY <2>1, <2>2, <2>3, <2>4
<1>9. ASSUME j.prev # -1
      PROVE  /\ j.prev # NoRow /\ z.S.batch[j.prev] \in Nat /\ z.S.freed <= z.S.batch[j.prev]
             /\ z.S.batch[j.prev] <= z.S.batch[p.s]
  <2>1. j.prev \in 1 .. z.sp /\ z.S.batch[j.prev] >= z.S.freed /\ j.prev <= p.s
    BY <1>1, <1>4, <1>9 DEF Unfreed, Given
  <2>2. j.prev \in 1 .. Len(z.S.keys) /\ j.prev # NoRow
    BY <1>5, <2>1 DEF NoRow
  <2>3. z.S.batch[j.prev] \in Nat /\ z.S.batch[j.prev] <= z.S.batch[p.s]
    BY <1>5, <1>6, <2>1, <2>2, Values
  <2>4. z.S.freed \in Nat
    BY <1>5 DEF Ordered, Pages
  <2> QED
    BY <2>1, <2>2, <2>3, <2>4
<1> QED
  BY <1>3, <1>6, <1>7, <1>8, <1>9 DEF Turned, p, f

\* Row.
LEMMA RowKeeps ==
  ASSUME NEW j, Built(j), j.offset < Len(j.pairs)
  PROVE  LET k == Row(j, j.pairs[j.offset + 1])
         IN  Later(j, k) /\ k.offset = j.offset + 1 /\ (NoPads(j) => Len(k.rows) <= Len(j.rows) + 1)
<1> DEFINE p == j.pairs[j.offset + 1]
           x == CASE j.scan.type = "inner" -> InnerRow(j, p)
                  [] j.scan.type \in {"left", "full"} -> LeftRow(j, p)
                  [] j.scan.type = "semi" -> SemiRow(j, p)
                  [] j.scan.type = "anti" -> AntiRow(j, p)
           n == j.offset + 1
           k == Row(j, p)
<1>1. j \in Joiner /\ ~j.stale /\ Turned(j, p) /\ j.scan \in Scanner /\ j.offset \in Nat
  BY BuiltTurned DEF Built, Joiner
<1>2. Handled(j, x, p)
  <2>1. j.scan.type \in Types
    BY <1>1 DEF Scanner
  <2> HIDE DEF p
  <2>2. CASE j.scan.type = "inner"
    BY <1>1, <2>2, InnerRowIs
  <2>3. CASE j.scan.type = "left"
    BY <1>1, <2>3, LeftRowIs
  <2>4. CASE j.scan.type = "semi"
    BY <1>1, <2>4, SemiRowIs
  <2>5. CASE j.scan.type = "anti"
    BY <1>1, <2>5, AntiRowIs
  <2> QED
    BY <2>1, <2>2, <2>3, <2>4, <2>5 DEF Types
<1>3. x \in Joiner /\ x.offset = j.offset /\ Beside(j, x) /\ Emptied(j.scan, x.scan, p, j.unmatched, x.unmatched)
  BY <1>2 DEF Handled, Beside
<1>4. k = [x EXCEPT !.prev = p.s, !.offset = n]
  <2>1. k = [x EXCEPT !.prev = p.s, !.offset = x.offset + 1]
    BY DEF Row
  <2> QED
    BY <1>3, <2>1
<1>5. p.s \in Int /\ n \in Nat
  BY <1>1, SMTT(40) DEF Turned, Pair
<1>6. Listed(x.scan, j.pairs, n, p.s, x.unmatched)
  BY <1>3, RowListed DEF Built
<1> HIDE DEF x, k, n, p
<1>7. /\ k \in Joiner /\ k.scan = x.scan /\ k.filtered = x.filtered /\ k.maxRowCount = x.maxRowCount /\ k.pairs = x.pairs
      /\ k.offset = n /\ k.prev = p.s /\ k.flow = x.flow /\ k.hasData = x.hasData /\ k.return = x.return
      /\ k.unmatched = x.unmatched /\ k.out = x.out /\ k.stale = x.stale /\ k.rows = x.rows
  BY <1>3, <1>4, <1>5 DEF Joiner
<1>8. Between(k.scan) /\ Freeing(j.scan, k.scan)
  BY <1>3, <1>7, FreeingBetween DEF Built, Emptied
<1>9. Roomy(k)
  <2>1. k.scan.type = j.scan.type /\ k.filtered = j.filtered
    BY <1>3, <1>7, <1>8 DEF Freeing, Beside
  <2> QED
    BY <1>2, <1>7, <2>1 DEF Roomy, NoPads, Handled
<1>10. Backed(k.scan.B)
  <2>1. k.scan = x.scan /\ x.scan.B.batches = j.scan.B.batches /\ Backed(j.scan.B)
    BY <1>3, <1>7 DEF Emptied, Freeing, OnlyFreed, Built
  <2>2. CASE x.scan.B.freed = j.scan.B.freed
    BY <2>1, <2>2 DEF Backed
  <2>3. CASE x.scan.B.freed # j.scan.B.freed
    <3>1. p.b # NoRow /\ x.scan.B.freed <= j.scan.B.batch[p.b]
      BY <1>3, <2>3 DEF Emptied, Met
    <3>2. j.scan.B.batch[p.b] \in Nat /\ j.scan.B.batch[p.b] < j.scan.B.batches
      BY <1>1, <3>1 DEF Turned
    <3>3. x.scan.B.freed \in Nat /\ j.scan.B.batches \in Nat
      <4>1. x.scan.B \in Pages /\ j.scan.B \in Pages
        BY <1>1, <1>3 DEF Emptied, Freeing, OnlyFreed, Scanner
      <4> QED
        BY <4>1 DEF Pages
    <3> QED
      BY <2>1, <3>1, <3>2, <3>3 DEF Backed
  <2> QED
    BY <2>2, <2>3
<1>11. Built(k)
  BY <1>2, <1>3, <1>6, <1>7, <1>8, <1>9, <1>10 DEF Built, Handled, Beside
<1>12. NoPads(j) => Len(k.rows) <= Len(j.rows) + 1
  BY <1>2, <1>7 DEF Handled, Built
<1>13. Later(j, k)
  BY <1>3, <1>7, <1>8, <1>11 DEF Later, Beside
<1> QED
  BY <1>7, <1>12, <1>13 DEF k, n, p

\* What is built of i pairs.
RowStep(j, f, i) == IF i = 0 THEN j ELSE NextRow(f[i - 1], i)
AreRows(j, f, n)  == f = [i \in 0 .. n |-> RowStep(j, f, i)]

\* They can be built.
LEMMA SomeRows == ASSUME NEW j, NEW n \in Nat PROVE \E f : AreRows(j, f, n)
<1> DEFINE B == {k \in Nat : ~ \E f : AreRows(j, f, k)}
<1> SUFFICES ASSUME B # {} PROVE FALSE
  OBVIOUS
<1>1. PICK m \in B : \A k \in B : m <= k
  <2>1. B \in SUBSET Nat
    OBVIOUS
  <2> HIDE DEF B
  <2> QED
    BY <2>1, LeastNatural
<1>2. m # 0
  <2>1. AreRows(j, [i \in 0 .. 0 |-> j], 0)
    BY DEF AreRows, RowStep
  <2> QED
    BY <2>1, <1>1
<1>3. PICK g : AreRows(j, g, m - 1)
  BY <1>1, <1>2
<1> DEFINE h == [i \in 0 .. m |-> IF i = m THEN RowStep(j, g, m) ELSE g[i]]
<1>4. ASSUME NEW i \in 0 .. m PROVE h[i] = RowStep(j, h, i)
  <2>1. m \in Nat
    OBVIOUS
  <2>2. i # 0 => h[i - 1] = g[i - 1]
    BY <2>1
  <2>3. h[i] = RowStep(j, g, i)
    <3>1. CASE i = m
      BY <3>1
    <3>2. CASE i # m
      BY <1>3, <2>1, <3>2 DEF AreRows
    <3> QED
      BY <3>1, <3>2
  <2> HIDE DEF h
  <2> QED
    BY <2>2, <2>3 DEF RowStep
<1>5. h = [i \in 0 .. m |-> RowStep(j, h, i)]
  <2>1. h = [i \in 0 .. m |-> h[i]]
    OBVIOUS
  <2> HIDE DEF h
  <2> QED
    BY <1>4, <2>1
<1> HIDE DEF h
<1>6. AreRows(j, h, m)
  BY <1>5 DEF AreRows
<1> QED
  BY <1>1, <1>6

\* Rows.
LEMMA RowsIs ==
  ASSUME NEW j, NEW n \in Nat
  PROVE  \E f : AreRows(j, f, n) /\ Rows(j, n) = f[n]
<1> DEFINE g == CHOOSE h : h = [i \in 0 .. n |-> IF i = 0 THEN j ELSE NextRow(h[i - 1], i)]
<1>1. Rows(j, n) = g[n]
  BY DEF Rows
<1>2. AreRows(j, g, n)
  <2>1. \E f : AreRows(j, f, n)
    BY SomeRows
  <2> QED
    BY <2>1 DEF AreRows, RowStep
<1> QED
  BY <1>1, <1>2

\* There is room for one more row.
HasRoom(j) == Len(j.rows) < j.maxRowCount

\* k is what was built of n pairs of j at most.
Building(j, k, n) ==
  /\ Later(j, k) /\ k.offset <= j.offset + n
  /\ n = 0 => k = j
  /\ NoPads(j) /\ HasRoom(j) => Len(k.rows) <= k.maxRowCount

\* One more pair, or none where the batch is full.
LEMMA NextRowBuilds ==
  ASSUME NEW j, Built(j), NEW k, NEW n \in Nat, Building(j, k, n), j.offset + n < Len(j.pairs)
  PROVE  Building(j, NextRow(k, n + 1), n + 1)
<1> DEFINE y == NextRow(k, n + 1)
<1>1. /\ Later(j, k) /\ Built(k) /\ k.pairs = j.pairs /\ j \in Joiner /\ k \in Joiner /\ j.offset \in Nat /\ k.offset \in Nat
      /\ Len(j.pairs) \in Nat /\ Len(k.rows) \in Nat /\ k.maxRowCount \in Nat /\ k.maxRowCount = j.maxRowCount
      /\ NoPads(k) = NoPads(j) /\ k.offset <= j.offset + n
  <2>1. Later(j, k) /\ Built(k) /\ k.pairs = j.pairs /\ j \in Joiner /\ k \in Joiner /\ k.maxRowCount = j.maxRowCount
    BY DEF Building, Later, Built
  <2>2. j.offset \in Nat /\ k.offset \in Nat /\ Len(j.pairs) \in Nat /\ Len(k.rows) \in Nat /\ k.maxRowCount \in Nat
    BY <2>1, LenProperties DEF Joiner
  <2>3. NoPads(k) = NoPads(j)
    BY <2>1 DEF NoPads, Later, Freeing
  <2> QED
    BY <2>1, <2>2, <2>3 DEF Building
<1>2. CASE n + 1 > 1 /\ Full(k)
  <2>1. y = k
    BY <1>2 DEF NextRow
  <2> QED
    BY <1>1, <1>2, <2>1 DEF Building
<1>3. CASE ~(n + 1 > 1 /\ Full(k))
  <2>1. y = Row(k, k.pairs[k.offset + 1])
    BY <1>3 DEF NextRow
  <2>2. k.offset < Len(k.pairs)
    BY <1>1
  <2>3. Later(k, y) /\ y.offset = k.offset + 1 /\ (NoPads(k) => Len(y.rows) <= Len(k.rows) + 1)
    BY <1>1, <2>1, <2>2, RowKeeps
  <2> HIDE DEF y
  <2>4. Later(j, y)
    BY <1>1, <2>3, LaterTwice
  <2>5. y.offset <= j.offset + (n + 1) /\ n + 1 # 0
    BY <1>1, <2>3
  <2>6. NoPads(j) /\ HasRoom(j) => Len(y.rows) <= y.maxRowCount
    <3> SUFFICES ASSUME NoPads(j), HasRoom(j) PROVE Len(y.rows) <= y.maxRowCount
      OBVIOUS
    <3>1. Len(k.rows) < k.maxRowCount
      <4>1. CASE n = 0
        BY <4>1 DEF Building, HasRoom
      <4>2. CASE n # 0
        <5>1. ~Full(k)
          BY <1>3, <4>2
        <5> QED
          BY <1>1, <5>1 DEF Full
      <4> QED
        BY <4>1, <4>2
    <3>2. y.maxRowCount = k.maxRowCount /\ Len(y.rows) \in Nat
      <4>1. y.maxRowCount = k.maxRowCount /\ y \in Joiner
        BY <2>3 DEF Later, Built
      <4> QED
        BY <4>1, LenProperties DEF Joiner
    <3> QED
      BY <1>1, <2>3, <3>1, <3>2
  <2> QED
    BY <2>4, <2>5, <2>6 DEF Building, y
<1> QED
  BY <1>2, <1>3

\* All that are left.
LEMMA RowsKeep ==
  ASSUME NEW j, Built(j)
  PROVE  LET left == Len(j.pairs) - j.offset
             k    == Rows(j, left)
         IN  Building(j, k, left) /\ left \in Nat
<1> DEFINE N == Len(j.pairs) - j.offset
           y == Rows(j, N)
<1>1. N \in Nat /\ j.offset \in Nat /\ Len(j.pairs) \in Nat /\ j.offset + N = Len(j.pairs)
  <2>1. j.offset \in 0 .. Len(j.pairs) /\ j.pairs \in Seq(Pair)
    BY DEF Built, Listed
  <2>2. Len(j.pairs) \in Nat
    BY <2>1, LenProperties
  <2> QED
    BY <2>1, <2>2
<1> HIDE DEF N
<1>2. PICK f : AreRows(j, f, N) /\ y = f[N]
  BY <1>1, RowsIs
<1> HIDE DEF y
<1> DEFINE P == {i \in 0 .. N : Building(j, f[i], i)}
<1>3. 0 \in P
  <2>1. f[0] = j
    BY <1>1, <1>2 DEF AreRows, RowStep
  <2>2. Len(j.rows) \in Nat /\ j.maxRowCount \in Nat
    BY LenProperties DEF Built, Joiner
  <2>3. Building(j, j, 0)
    BY <1>1, <2>2, LaterSelf DEF Building, HasRoom
  <2> QED
    BY <1>1, <2>1, <2>3
<1>4. ASSUME NEW i \in 0 .. N, i # N, i \in P PROVE i + 1 \in P
  <2>1. i + 1 \in 0 .. N /\ i + 1 # 0 /\ (i + 1) - 1 = i /\ i \in Nat /\ j.offset + i < Len(j.pairs)
    BY <1>1, <1>4
  <2>2. f[i + 1] = NextRow(f[i], i + 1)
    BY <1>2, <2>1 DEF AreRows, RowStep
  <2>3. Building(j, f[i], i)
    BY <1>4
  <2>4. Building(j, NextRow(f[i], i + 1), i + 1)
    BY <2>1, <2>3, NextRowBuilds
  <2> QED
    BY <2>1, <2>2, <2>4
<1>5. Building(j, y, N)
  <2> HIDE DEF P
  <2>1. \A i \in 0 .. N : i \in P
    BY <1>1, <1>3, <1>4, CountsUp
  <2>2. N \in P
    BY <1>1, <2>1
  <2> QED
    BY <1>2, <2>2 DEF P
<1> QED
  BY <1>1, <1>5 DEF y, N

\* PaddingRightTableNull for the last streamed row.
LEMMA PadLastKeeps ==
  ASSUME NEW j, Built(j)
  PROVE  LET k == PadLast(j)
         IN  Later(j, k) /\ (NoPads(j) => k.rows = j.rows)
<1> DEFINE pads == j.scan.type \in {"left", "full", "anti"} /\ j.prev # -1 /\ ~j.out
           x == IF pads THEN Out(j, j.prev, NoRow) ELSE j
           k == PadLast(j)
           none == -1
<1>1. k = [x EXCEPT !.prev = none]
  BY DEF PadLast
<1>2. j \in Joiner /\ ~j.stale /\ Between(j.scan) /\ j.scan \in Scanner /\ none \in Int /\ none = -1
  BY DEF Built, Joiner
<1>3. NoPads(j) => ~pads
  <2>1. j.scan.type # "full"
    BY <1>2 DEF Scanner, Types
  <2> QED
    BY <2>1 DEF Built, Roomy
<1>4. j.prev # -1 => Used(j, j.prev, NoRow)
  <2> SUFFICES ASSUME j.prev # -1 PROVE Used(j, j.prev, NoRow)
    OBVIOUS
  <2> DEFINE z == j.scan
  <2>1. Unfreed(z, j.prev) /\ j.prev \in Int /\ Placed(z)
    BY DEF Built, Listed, Between
  <2>2. j.prev \in 1 .. z.sp /\ z.S.batch[j.prev] >= z.S.freed
    BY <2>1 DEF Unfreed
  <2>3. Ordered(z.S) /\ z.sp \in Int /\ z.sp <= Len(z.S.keys) /\ Len(z.S.keys) \in Nat
    BY <2>1, PagesLen DEF Placed, Scanner, InS
  <2>4. j.prev \in 1 .. Len(z.S.keys)
    BY <2>2, <2>3
  <2>5. z.S.batch[j.prev] \in Nat /\ z.S.freed \in Nat
    BY <2>3, <2>4, Values DEF Ordered, Pages
  <2> QED
    BY <2>1, <2>2, <2>5 DEF Used, Freed, NoRow
<1>5. /\ Beside(j, x) /\ x.scan = j.scan /\ x.unmatched = j.unmatched /\ ~x.stale /\ (NoPads(j) => x.rows = j.rows)
      /\ x.out = j.out
  <2>1. CASE pads
    <3>1. Used(j, j.prev, NoRow)
      BY <1>4, <2>1
    <3> QED
      BY <1>2, <1>3, <2>1, <3>1, OutIs
  <2>2. CASE ~pads
    BY <1>2, <2>2, BesideSelf
  <2> QED
    BY <2>1, <2>2
<1> HIDE DEF x, k, pads, none
<1>6. x \in Joiner
  BY <1>5 DEF Beside
<1>7. /\ k \in Joiner /\ k.scan = x.scan /\ k.filtered = x.filtered /\ k.maxRowCount = x.maxRowCount /\ k.pairs = x.pairs
      /\ k.offset = x.offset /\ k.prev = -1 /\ k.flow = x.flow /\ k.hasData = x.hasData /\ k.return = x.return
      /\ k.unmatched = x.unmatched /\ k.out = x.out /\ k.stale = x.stale /\ k.rows = x.rows
  BY <1>1, <1>2, <1>6 DEF Joiner
<1>8. Listed(j.scan, j.pairs, j.offset, -1, j.unmatched)
  <2>1. Listed(j.scan, j.pairs, j.offset, j.prev, j.unmatched)
    BY DEF Built
  <2>2. Unfreed(j.scan, -1)
    BY <2>1 DEF Listed, Unfreed
  <2>3. \A i \in Due(j.pairs, j.offset) : Given(j.scan, -1, j.pairs[i])
    <3> TAKE i \in Due(j.pairs, j.offset)
    <3>1. Given(j.scan, j.prev, j.pairs[i])
      BY <2>1 DEF Listed
    <3>2. -1 <= j.pairs[i].s
      BY <1>2, <3>1 DEF Given, Scanner
    <3> QED
      BY <3>1, <3>2 DEF Given
  <2> QED
    BY <1>2, <2>1, <2>2, <2>3 DEF Listed
<1>9. Listed(k.scan, k.pairs, k.offset, k.prev, k.unmatched)
  BY <1>5, <1>7, <1>8 DEF Beside
<1>10. Freeing(j.scan, k.scan)
  BY <1>2, <1>5, <1>7 DEF Freeing, OnlyFreed, Scanner
<1>11. Built(k)
  BY <1>2, <1>5, <1>7, <1>9 DEF Built, Roomy
<1> QED
  BY <1>5, <1>7, <1>10, <1>11 DEF Later, Beside, k

\* A call starts with the flags of its own.
LEMMA NewCallKeeps ==
  ASSUME NEW j, Built(j)
  PROVE  /\ Later(j, NewCall(j)) /\ NewCall(j).offset = j.offset /\ NewCall(j).rows = j.rows
         /\ NoPads(NewCall(j)) = NoPads(j)
<1> DEFINE k == NewCall(j)
           flag == j.seen /\ j.scan.type # "anti"
<1>1. j \in Joiner /\ flag \in BOOLEAN
  BY DEF Built, Joiner
<1>2. k = [j EXCEPT !.seen = flag]
  BY <1>1 DEF NewCall, Joiner
<1> HIDE DEF k, flag
<1>3. /\ Beside(j, k) /\ k.scan = j.scan /\ k.unmatched = j.unmatched /\ k.out = j.out
      /\ k.stale = j.stale /\ k.rows = j.rows
  BY <1>1, <1>2, SeenFlag
<1>4. NoPads(k) = NoPads(j)
  BY <1>3 DEF NoPads, Beside
<1>5. Built(k)
  BY <1>3, <1>4 DEF Built, Beside, Roomy
<1>6. Later(j, j)
  BY LaterSelf
<1>7. Later(j, k)
  BY <1>3, <1>5, <1>6 DEF Later, Beside
<1> QED
  BY <1>3, <1>4, <1>7 DEF k, Beside

\* AddJoinValueAddresses.
LEMMA AddJoinKeeps ==
  ASSUME NEW j, Built(j)
  PROVE  LET k == AddJoin(j)
         IN  Later(j, k) /\ (NoPads(j) /\ HasRoom(j) => Len(k.rows) <= k.maxRowCount)
<1> DEFINE left == Len(j.pairs) - j.offset
           i == NewCall(j)
           x == Rows(i, left)
           k == AddJoin(j)
<1>0. /\ Later(j, i) /\ i.offset = j.offset /\ i.rows = j.rows /\ NoPads(i) = NoPads(j)
      /\ Built(i) /\ i.pairs = j.pairs /\ i.maxRowCount = j.maxRowCount
  BY NewCallKeeps DEF Later
<1>1. Building(i, x, left)
  BY <1>0, RowsKeep
<1>2. k = IF left > 0 /\ Full(x) THEN x ELSE PadLast(x)
  BY DEF AddJoin
<1> HIDE DEF x, k, left, i
<1>3. Later(j, x) /\ Built(x) /\ (NoPads(j) /\ HasRoom(j) => Len(x.rows) <= x.maxRowCount)
  <2>1. Later(i, x) /\ Built(x) /\ (NoPads(i) /\ HasRoom(i) => Len(x.rows) <= x.maxRowCount)
    BY <1>1 DEF Building, Later
  <2>2. HasRoom(i) = HasRoom(j)
    BY <1>0 DEF HasRoom
  <2> QED
    BY <1>0, <2>1, <2>2, LaterTwice
<1>4. NoPads(x) = NoPads(j)
  BY <1>3 DEF NoPads, Later, Freeing
<1>5. LET y == PadLast(x) IN Later(x, y) /\ (NoPads(x) => y.rows = x.rows)
  BY <1>3, PadLastKeeps
<1>6. CASE left > 0 /\ Full(x)
  BY <1>2, <1>3, <1>6 DEF k
<1>7. CASE ~(left > 0 /\ Full(x))
  <2>1. k = PadLast(x)
    BY <1>2, <1>7
  <2>2. Later(x, k) /\ (NoPads(x) => k.rows = x.rows)
    BY <1>5, <2>1
  <2>3. k.maxRowCount = x.maxRowCount
    BY <2>2 DEF Later
  <2>4. Later(j, k)
    BY <1>3, <2>2, LaterTwice
  <2> QED
    BY <1>3, <1>4, <2>2, <2>3, <2>4 DEF k
<1> QED
  BY <1>6, <1>7

-----------------------------------------------------------------------------
(* The operator.                                                           *)

\* There is room for the next row, and the batch handed out was built in its room.
Fit(j) == NoPads(j) => HasRoom(j) /\ Len(j.return) <= j.maxRowCount

\* The join can go on.
Running(j) ==
  /\ Built(j) /\ Fit(j) /\ j.scan.found = <<>>
  /\ j.flow # FINISH => ~(j.scan.sc = DONE /\ j.scan.bc = DONE)

\* It has given everything: its batches are freed, and it builds no more.
Over(j)  == j.flow = FINISH /\ ~j.hasData
Sound(j) == j \in Joiner /\ ~j.stale /\ Fit(j) /\ (Over(j) \/ Running(j))

\* k is j with the same join and the same rows to join.
Alike(j, k) ==
  /\ k.filtered = j.filtered /\ k.maxRowCount = j.maxRowCount /\ k.scan.type = j.scan.type
  /\ k.scan.S.keys = j.scan.S.keys /\ k.scan.B.keys = j.scan.B.keys

\* k is j, but for the batch handed out, the rows and what the operator answers.
Aside(j, k) ==
  /\ k \in Joiner /\ k.scan = j.scan /\ k.filtered = j.filtered /\ k.maxRowCount = j.maxRowCount
  /\ k.prev = j.prev /\ k.out = j.out /\ k.unmatched = j.unmatched /\ k.stale = j.stale

\* What is built stays, while the pairs do.
LEMMA AsideBuilt ==
  ASSUME NEW j, NEW k, Built(j), Aside(j, k), k.pairs = j.pairs, k.offset = j.offset
  PROVE  Built(k)
<1>1. NoPads(k) = NoPads(j) /\ (Roomy(j) => Roomy(k))
  BY DEF Aside, NoPads, Roomy
<1> QED
  BY <1>1 DEF Aside, Built

\* Answer.
LEMMA AnswerIs ==
  ASSUME NEW j \in Joiner, NEW flow \in Flows, NEW hasData \in BOOLEAN
  PROVE  LET k == Answer(j, flow, hasData)
         IN  /\ Aside(j, k) /\ k.pairs = j.pairs /\ k.offset = j.offset /\ k.rows = j.rows /\ k.return = j.return
             /\ k.flow = flow /\ k.hasData = hasData
  BY DEF Answer, Aside, Joiner

\* JoinResultBuilder::GetOutput.
LEMMA TakeIs ==
  ASSUME NEW j \in Joiner
  PROVE  LET k == Take(j)
         IN  /\ Aside(j, k) /\ k.pairs = j.pairs /\ k.offset = j.offset /\ k.rows = <<>>
             /\ k.return = (IF j.rows = <<>> THEN j.return ELSE j.rows)
             /\ k.flow = j.flow /\ k.hasData = j.hasData
<1>1. j.rows \in Seq(Int \X Int) /\ <<>> \in Seq(Int \X Int)
  BY EmptySeq DEF Joiner
<1>2. CASE j.rows = <<>>
  BY <1>2 DEF Take, Aside
<1>3. CASE j.rows # <<>>
  <2> DEFINE none == <<>>
             rows == j.rows
             k == Take(j)
  <2>1. k = [j EXCEPT !.return = rows, !.rows = none]
    BY <1>3 DEF Take
  <2>2. none \in Seq(Int \X Int) /\ rows \in Seq(Int \X Int)
    BY <1>1
  <2>3. rows # <<>> /\ none = <<>> /\ rows = j.rows
    BY <1>3
  <2> HIDE DEF none, rows, k
  <2>4. k \in Joiner /\ k.rows = none /\ k.return = rows
    BY <2>1, <2>2 DEF Joiner
  <2>5. /\ k.scan = j.scan /\ k.filtered = j.filtered /\ k.maxRowCount = j.maxRowCount
        /\ k.prev = j.prev /\ k.out = j.out /\ k.unmatched = j.unmatched /\ k.stale = j.stale
        /\ k.pairs = j.pairs /\ k.offset = j.offset /\ k.flow = j.flow /\ k.hasData = j.hasData
    BY <2>1 DEF Joiner
  <2> QED
    BY <2>3, <2>4, <2>5 DEF Aside, k
<1> QED
  BY <1>2, <1>3

\* Behind it the rows are in their room.
LEMMA TakeFits ==
  ASSUME NEW j \in Joiner, NoPads(j) => Len(j.rows) <= j.maxRowCount /\ Len(j.return) <= j.maxRowCount
  PROVE  Fit(Take(j))
<1> DEFINE k == Take(j)
<1>1. k.rows = <<>> /\ k.return = (IF j.rows = <<>> THEN j.return ELSE j.rows) /\ Aside(j, k)
  BY TakeIs
<1> HIDE DEF k
<1>2. NoPads(k) = NoPads(j) /\ k.maxRowCount = j.maxRowCount /\ j.maxRowCount \in Nat \ {0}
  BY <1>1 DEF Aside, NoPads, Joiner
<1>3. Len(k.rows) = 0
  BY <1>1
<1> QED
  BY <1>1, <1>2, <1>3 DEF Fit, HasRoom, k

\* HandleSortMergeJoinNoResultSituation and its like: an answer alone.
LEMMA AnswerSound ==
  ASSUME NEW j, Built(j), Fit(j), j.scan.found = <<>>, NEW flow \in Flows, NEW hasData \in BOOLEAN,
         flow # FINISH => ~(j.scan.sc = DONE /\ j.scan.bc = DONE)
  PROVE  LET k == Answer(j, flow, hasData)
         IN  Sound(k) /\ Running(k) /\ Alike(j, k) /\ k.flow = flow /\ k.hasData = hasData /\ k.return = j.return
<1> DEFINE k == Answer(j, flow, hasData)
<1>1. /\ Aside(j, k) /\ k.pairs = j.pairs /\ k.offset = j.offset /\ k.rows = j.rows /\ k.return = j.return
      /\ k.flow = flow /\ k.hasData = hasData
  BY AnswerIs DEF Built
<1> HIDE DEF k
<1>2. Built(k)
  BY <1>1, AsideBuilt
<1>3. Fit(k)
  BY <1>1 DEF Fit, HasRoom, NoPads, Aside
<1>4. Running(k)
  BY <1>1, <1>2, <1>3 DEF Running, Aside
<1>5. Sound(k)
  BY <1>2, <1>3, <1>4 DEF Sound, Built
<1> QED
  BY <1>1, <1>4, <1>5 DEF Alike, Aside, k

\* The batch built is handed out, and then the answer.
LEMMA TakeSound ==
  ASSUME NEW j, Built(j), NoPads(j) => Len(j.rows) <= j.maxRowCount /\ Len(j.return) <= j.maxRowCount,
         j.scan.found = <<>>, NEW flow \in Flows, NEW hasData \in BOOLEAN,
         flow # FINISH => ~(j.scan.sc = DONE /\ j.scan.bc = DONE)
  PROVE  LET k == Answer(Take(j), flow, hasData)
         IN  Sound(k) /\ Running(k) /\ Alike(j, k)
<1> DEFINE i == Take(j)
           k == Answer(i, flow, hasData)
<1>1. j \in Joiner
  BY DEF Built
<1>2. Aside(j, i) /\ i.pairs = j.pairs /\ i.offset = j.offset /\ Fit(i)
  BY <1>1, TakeIs, TakeFits
<1> HIDE DEF i
<1>3. Built(i)
  BY <1>2, AsideBuilt
<1>4. i.scan.found = <<>> /\ (flow # FINISH => ~(i.scan.sc = DONE /\ i.scan.bc = DONE))
  BY <1>2 DEF Aside
<1>5. Sound(k) /\ Running(k) /\ Alike(i, k)
  BY <1>2, <1>3, <1>4, AnswerSound
<1> HIDE DEF k
<1> QED
  BY <1>2, <1>5 DEF Alike, Aside, k, i

\* The end: everything is freed.
LEMMA EndSound ==
  ASSUME NEW j, Built(j), Fit(j)
  PROVE  LET k == [Answer(j, FINISH, FALSE) EXCEPT !.scan.S = FreeAllRemaining(@), !.scan.B = FreeAllRemaining(@)]
         IN  Sound(k) /\ Alike(j, k)
<1> DEFINE no == FALSE
           i == Answer(j, FINISH, no)
           z == i.scan
           S == FreeAllRemaining(z.S)
           B == FreeAllRemaining(z.B)
           w == [z EXCEPT !.S = S, !.B = B]
           k == [i EXCEPT !.scan = w]
<1>1. j \in Joiner /\ ~j.stale /\ no \in BOOLEAN /\ FINISH \in Flows
  BY DEF Built, Flows
<1>2. no = FALSE
  OBVIOUS
<1> HIDE DEF no
<1>3. /\ Aside(j, i) /\ i.rows = j.rows /\ i.return = j.return /\ i.flow = FINISH /\ i.hasData = no
  BY <1>1, AnswerIs
<1>4. [i EXCEPT !.scan.S = FreeAllRemaining(@), !.scan.B = FreeAllRemaining(@)] = k
  <2>1. i \in Joiner /\ z \in Scanner
    BY <1>3 DEF Aside, Joiner
  <2> HIDE DEF i
  <2> QED
    BY <2>1 DEF Joiner, Scanner
<1> HIDE DEF i
<1>5. i \in Joiner /\ z \in Scanner /\ z.S \in Pages /\ z.B \in Pages
  <2>1. i \in Joiner
    BY <1>3 DEF Aside
  <2>2. z \in Scanner
    BY <2>1 DEF Joiner
  <2> QED
    BY <2>1, <2>2 DEF Scanner
<1>6. S \in Pages /\ B \in Pages /\ S.keys = z.S.keys /\ B.keys = z.B.keys
  BY <1>5 DEF FreeAllRemaining, Pages
<1> HIDE DEF S, B
<1>7. w \in Scanner /\ w.S = S /\ w.B = B /\ w.type = z.type
  BY <1>5, <1>6 DEF Scanner
<1> HIDE DEF w
<1>8. /\ k \in Joiner /\ k.scan = w /\ k.rows = i.rows /\ k.return = i.return /\ k.flow = i.flow /\ k.hasData = i.hasData
      /\ k.stale = i.stale /\ k.filtered = i.filtered /\ k.maxRowCount = i.maxRowCount
  BY <1>5, <1>7 DEF Joiner
<1> HIDE DEF k
<1>9. Fit(k)
  BY <1>3, <1>7, <1>8 DEF Fit, NoPads, HasRoom, Aside
<1>10. Sound(k)
  BY <1>1, <1>2, <1>3, <1>8, <1>9 DEF Sound, Over, Aside
<1>11. Alike(j, k)
  BY <1>3, <1>6, <1>7, <1>8 DEF Alike, Aside
<1> QED
  BY <1>2, <1>4, <1>10, <1>11 DEF no, i

\* What AddTableInput answers with when the scanner has stopped.
LEMMA AfterScanSound ==
  ASSUME NEW k, Built(k), k.scan.found = <<>>, NEW z, z.sc = k.scan.sc, z.bc = k.scan.bc,
         NoPads(k) => /\ Len(k.rows) <= k.maxRowCount /\ Len(k.return) <= k.maxRowCount
                      /\ z.found = <<>> => HasRoom(k)
  PROVE  LET r == AfterScan(z, k) IN Sound(r) /\ Alike(k, r)
<1> DEFINE full == z.found # <<>> /\ Full(k)
           r == AfterScan(z, k)
<1>1. k \in Joiner /\ STREAMED \in Flows /\ BUFFERED \in Flows /\ FINISH \in Flows /\ full \in BOOLEAN
  BY DEF Built, Flows
<1>2. Len(k.rows) \in Nat /\ k.maxRowCount \in Nat
  BY <1>1, LenProperties DEF Joiner
<1>3. ~full => Fit(k)
  BY <1>2 DEF Fit, Full, HasRoom
<1>4. TRUE \in BOOLEAN /\ STREAMED # FINISH /\ BUFFERED # FINISH /\ DATA # DONE
  BY DEF STREAMED, BUFFERED, FINISH, DATA, DONE
<1>5. CASE z.sc = DATA
  <2>1. CASE full
    <3>1. r = Answer(Take(k), STREAMED, full)
      BY <1>5, <2>1 DEF AfterScan
    <3> HIDE DEF full
    <3> QED
      BY <1>1, <1>4, <1>5, <3>1, TakeSound
  <2>2. CASE ~full
    <3>1. r = Answer(k, STREAMED, full)
      BY <1>5, <2>2 DEF AfterScan
    <3>2. Fit(k)
      BY <1>3, <2>2
    <3> HIDE DEF full
    <3> QED
      BY <1>1, <1>4, <1>5, <3>1, <3>2, AnswerSound
  <2> QED
    BY <2>1, <2>2
<1>6. CASE z.sc # DATA /\ z.bc = DATA
  <2>1. CASE full
    <3>1. r = Answer(Take(k), BUFFERED, full)
      BY <1>6, <2>1 DEF AfterScan
    <3> HIDE DEF full
    <3> QED
      BY <1>1, <1>4, <1>6, <3>1, TakeSound
  <2>2. CASE ~full
    <3>1. r = Answer(k, BUFFERED, full)
      BY <1>6, <2>2 DEF AfterScan
    <3>2. Fit(k)
      BY <1>3, <2>2
    <3> HIDE DEF full
    <3> QED
      BY <1>1, <1>4, <1>6, <3>1, <3>2, AnswerSound, ZenonT(60)
  <2> QED
    BY <2>1, <2>2
<1>7. CASE z.sc # DATA /\ z.bc # DATA /\ Take(k).return # NoBatch
  <2> DEFINE yes == TRUE
  <2>1. r = Answer(Take(k), FINISH, yes)
    BY <1>7 DEF AfterScan
  <2>2. yes \in BOOLEAN
    OBVIOUS
  <2> HIDE DEF yes
  <2> QED
    BY <1>1, <2>1, <2>2, TakeSound
<1>8. CASE z.sc # DATA /\ z.bc # DATA /\ Take(k).return = NoBatch
  <2>1. r = [Answer(k, FINISH, FALSE) EXCEPT !.scan.S = FreeAllRemaining(@), !.scan.B = FreeAllRemaining(@)]
    BY <1>8 DEF AfterScan
  <2>2. Take(k).return = (IF k.rows = <<>> THEN k.return ELSE k.rows)
    BY <1>1, TakeIs
  <2>3. k.rows = <<>>
    BY <1>8, <2>2 DEF NoBatch
  <2>4. Len(k.rows) = 0
    BY <2>3
  <2>5. HasRoom(k)
    BY <1>1, <2>4 DEF HasRoom, Joiner
  <2>6. Fit(k)
    BY <2>5 DEF Fit
  <2> QED
    BY <2>1, <2>6, EndSound
<1> QED
  BY <1>5, <1>6, <1>7, <1>8

\* GetMatchedValueAddresses: what was found is handed over.
LEMMA HandedOver ==
  ASSUME NEW z, Between(z)
  PROVE  LET w == [z EXCEPT !.found = <<>>]
         IN  /\ w \in Scanner /\ Between(w) /\ Frame(z, w) /\ w.found = <<>> /\ w.sc = z.sc /\ w.bc = z.bc
             /\ \A L, off, prev, unm : Listed(z, L, off, prev, unm) => Listed(w, L, off, prev, unm)
<1> DEFINE none == <<>>
           w == [z EXCEPT !.found = none]
<1>1. Placed(z) /\ Matched(z) /\ NullEnd(z) /\ Coded(z) /\ (NullFree(z) /\ PreKeyMatched(z) => Past(z)) /\ z \in Scanner
  BY DEF Between, Placed
<1>2. none = <<>> /\ none \in Seq(Pair)
  BY EmptySeq
<1> HIDE DEF none
<1>3. /\ w \in Scanner /\ w.type = z.type /\ w.sp = z.sp /\ w.bp = z.bp /\ w.ps = z.ps /\ w.pb = z.pb
      /\ w.sc = z.sc /\ w.bc = z.bc /\ w.S = z.S /\ w.B = z.B /\ w.first = z.first /\ w.found = none
  BY <1>1, <1>2 DEF Scanner
<1> HIDE DEF w
<1>4. NullFree(w) = NullFree(z)
  BY <1>3 DEF NullFree
<1>5. Placed(w)
  BY <1>1, <1>3 DEF Placed, InS, InB
<1>6. PreKeyMatched(w) = PreKeyMatched(z)
  BY <1>3 DEF PreKeyMatched
<1>7. (Past(z) => Past(w)) /\ (AtEnd(z) => AtEnd(w))
  BY <1>3 DEF Past, Ahead, AtEnd
<1>8. \A b, s : Meets(z, b, s) => Meets(w, b, s)
  BY <1>3, <1>4 DEF Meets
<1>9. Matched(w)
  <2>1. Group(z, z.pb, z.ps) => Group(w, w.pb, w.ps)
    BY <1>3, <1>8 DEF Group
  <2> QED
    BY <1>1, <1>3, <2>1 DEF Matched
<1>10. NullEnd(w)
  BY <1>1, <1>3, <1>4 DEF NullEnd
<1>11. Coded(w)
  BY <1>1, <1>3, <1>4, <1>6, <1>7 DEF Coded
<1>12. Between(w)
  BY <1>1, <1>4, <1>5, <1>6, <1>7, <1>9, <1>10, <1>11 DEF Between
<1>13. ASSUME NEW L, NEW off, NEW prev, NEW unm, Listed(z, L, off, prev, unm)
       PROVE  Listed(w, L, off, prev, unm)
  <2>1. Unfreed(w, prev)
    BY <1>3, <1>4, <1>13 DEF Listed, Unfreed, Lasting
  <2>2. \A i \in Due(L, off) : Given(w, prev, L[i])
    BY <1>3, <1>4, <1>8, <1>13 DEF Listed, Given
  <2>3. \A i, k \in Due(L, off) : i < k => InTurn(w, L[i], L[k])
    BY <1>3, <1>13 DEF Listed, InTurn
  <2>4. ASSUME NEW i \in Due(L, off), Met(L[i]), ~L[i].pre PROVE Lead(w, L, off, unm, i)
    <3>1. Lead(z, L, off, unm, i)
      BY <1>13, <2>4 DEF Listed
    <3>2. Foremost(z, L, off, i) => Foremost(w, L, off, i)
      BY <1>3 DEF Foremost
    <3> QED
      BY <1>3, <3>1, <3>2 DEF Lead
  <2> QED
    BY <1>13, <2>1, <2>2, <2>3, <2>4 DEF Listed
<1> QED
  BY <1>2, <1>3, <1>12, <1>13 DEF Frame, w

\* The rest of AddStreamedTableInput and AddBufferedTableInput, when the scanner has stopped with z.
LEMMA FoundRowsSound ==
  ASSUME NEW j, Running(j), NEW z, Between(z), Frame(j.scan, z),
         Listed(z, j.pairs \o z.found, j.offset, j.prev, j.unmatched)
  PROVE  LET r == GetFoundRows(j, z) IN Sound(r) /\ Alike(j, r)
<1> DEFINE w == [z EXCEPT !.found = <<>>]
           pairs == j.pairs \o z.found
           f == [j EXCEPT !.scan = w, !.pairs = pairs]
           k == IF z.found = <<>> THEN f ELSE AddJoin(f)
           r == GetFoundRows(j, z)
<1>1. r = AfterScan(z, k)
  BY DEF GetFoundRows
<1>2. j \in Joiner /\ Built(j) /\ Fit(j) /\ ~j.stale
  BY DEF Running, Built
<1>3. /\ w \in Scanner /\ Between(w) /\ Frame(z, w) /\ w.found = <<>> /\ w.sc = z.sc /\ w.bc = z.bc
      /\ \A L, off, prev, unm : Listed(z, L, off, prev, unm) => Listed(w, L, off, prev, unm)
  BY HandedOver
<1>4. pairs \in Seq(Pair)
  BY DEF Listed
<1>5. Listed(w, pairs, j.offset, j.prev, j.unmatched)
  BY <1>3
<1> HIDE DEF w, pairs, r
<1>6. /\ f \in Joiner /\ f.scan = w /\ f.pairs = pairs /\ f.filtered = j.filtered /\ f.maxRowCount = j.maxRowCount
      /\ f.offset = j.offset /\ f.prev = j.prev /\ f.out = j.out /\ f.unmatched = j.unmatched /\ f.stale = j.stale
      /\ f.rows = j.rows /\ f.return = j.return
  BY <1>2, <1>3, <1>4 DEF Joiner
<1> HIDE DEF f
<1>7. w.type = j.scan.type /\ w.S = j.scan.S /\ w.B = j.scan.B
  BY <1>3 DEF Frame
<1>8. NoPads(f) = NoPads(j)
  BY <1>6, <1>7 DEF NoPads
<1>9. Roomy(f) /\ Backed(f.scan.B)
  BY <1>2, <1>6, <1>7, <1>8 DEF Roomy, Built
<1>10. Built(f)
  BY <1>2, <1>3, <1>5, <1>6, <1>9 DEF Built
<1>11. Fit(f)
  BY <1>2, <1>6, <1>8 DEF Fit, HasRoom
<1>12. Len(f.rows) \in Nat /\ f.maxRowCount \in Nat
  BY <1>6, LenProperties DEF Joiner
<1>13. /\ Built(k) /\ Alike(f, k) /\ k.scan.found = <<>> /\ k.scan.sc = z.sc /\ k.scan.bc = z.bc
       /\ NoPads(k) => /\ Len(k.rows) <= k.maxRowCount /\ Len(k.return) <= k.maxRowCount
                       /\ z.found = <<>> => HasRoom(k)
  <2>1. CASE z.found = <<>>
    BY <1>3, <1>6, <1>10, <1>11, <1>12, <2>1 DEF Fit, HasRoom, Alike
  <2>2. CASE z.found # <<>>
    <3>1. k = AddJoin(f)
      BY <2>2
    <3>2. Later(f, k) /\ (NoPads(f) /\ HasRoom(f) => Len(k.rows) <= k.maxRowCount)
      BY <1>10, <3>1, AddJoinKeeps
    <3> HIDE DEF k
    <3>3. Alike(f, k) /\ k.scan.found = f.scan.found /\ k.scan.sc = f.scan.sc /\ k.scan.bc = f.scan.bc /\ NoPads(k) = NoPads(f)
      BY <3>2 DEF Later, Freeing, OnlyFreed, Alike, NoPads
    <3>4. Built(k) /\ k.return = f.return /\ k.maxRowCount = f.maxRowCount
      BY <3>2 DEF Later
    <3> QED
      BY <1>3, <1>6, <1>11, <2>2, <3>2, <3>3, <3>4 DEF Fit
  <2> QED
    BY <2>1, <2>2
<1> HIDE DEF k
<1>14. Sound(r) /\ Alike(k, r)
  BY <1>1, <1>13, AfterScanSound
<1>15. Alike(j, r)
  BY <1>6, <1>7, <1>13, <1>14 DEF Alike
<1> QED
  BY <1>14, <1>15 DEF r

\* GetJoinResult.
LEMMA JoinResultSound ==
  ASSUME NEW j, Running(j), j.flow # FINISH
  PROVE  LET r == GetJoinResult(j) IN Sound(r) /\ Alike(j, r)
<1> DEFINE z == j.scan
           r == GetJoinResult(j)
           no == FALSE
<1>1. /\ Built(j) /\ Fit(j) /\ z.found = <<>> /\ ~(z.sc = DONE /\ z.bc = DONE)
      /\ STREAMED \in Flows /\ BUFFERED \in Flows /\ FINISH \in Flows /\ no \in BOOLEAN /\ j \in Joiner
  BY DEF Running, Flows, Built
<1>2. CASE Waits(z.S)
  <2>1. r = Answer(j, STREAMED, no)
    BY <1>2 DEF GetJoinResult
  <2> HIDE DEF no
  <2> QED
    BY <1>1, <2>1, AnswerSound
<1>3. CASE ~Waits(z.S) /\ Waits(z.B)
  <2>1. r = Answer(j, BUFFERED, no)
    BY <1>3 DEF GetJoinResult
  <2> HIDE DEF no
  <2> QED
    BY <1>1, <2>1, AnswerSound
<1>4. CASE ~Waits(z.S) /\ ~Waits(z.B) /\ NoResult(z)
  <2>1. r = Answer(j, FINISH, no)
    BY <1>4 DEF GetJoinResult
  <2> HIDE DEF no
  <2> QED
    BY <1>1, <2>1, AnswerSound
<1>5. CASE ~Waits(z.S) /\ ~Waits(z.B) /\ ~NoResult(z)
  <2> DEFINE y == FindNextJoinRows(z)
  <2>1. r = GetFoundRows(j, y)
    BY <1>5 DEF GetJoinResult
  <2>2. Between(z) /\ z.type \in Types
    BY <1>1 DEF Built, Between, Placed, Scanner
  <2>3. ~IsEmptyBatch(z.S)
    BY <1>5, <2>2 DEF NoResult, Types
  <2>4. z.S.keys # <<>>
    BY <1>5, <2>3 DEF Waits, IsEmptyBatch
  <2>5. NullFree(z) => ~IsEmptyBatch(z.B)
    BY <1>5, <2>2 DEF NoResult, Types, NullFree
  <2>6. Supplied(z)
    <3>1. z.B.keys # <<>> \/ z.B.finish
      BY <1>5 DEF Waits
    <3> QED
      BY <2>5, <3>1 DEF Supplied, IsEmptyBatch
  <2>7. Starting(z)
    BY <1>1, <2>2, <2>4, <2>6 DEF Starting
  <2>8. Listed(z, j.pairs \o z.found, j.offset, j.prev, j.unmatched) /\ j.pairs \in Seq(Pair)
    <3>1. Listed(z, j.pairs, j.offset, j.prev, j.unmatched) /\ j.pairs \in Seq(Pair)
      BY <1>1 DEF Built, Joiner
    <3>2. j.pairs \o <<>> = j.pairs
      BY <3>1, ConcatEmptySeq
    <3> QED
      BY <1>1, <3>1, <3>2
  <2>9. Between(y) /\ Frame(z, y) /\ Listed(y, j.pairs \o y.found, j.offset, j.prev, j.unmatched)
    BY <2>7, <2>8, FindNextJoinRowsKeeps
  <2> HIDE DEF y
  <2> QED
    BY <2>1, <2>9, FoundRowsSound
<1> QED
  BY <1>2, <1>3, <1>4, <1>5

-----------------------------------------------------------------------------
(* Rows arrive.                                                            *)

\* new may come behind keys.
Behinds(keys, new) == \A i \in 1 .. Len(keys), k \in 1 .. Len(new) : Place(keys[i]) <= Place(new[k])
InOrder(keys)      == \A i, k \in 1 .. Len(keys) : i <= k => Place(keys[i]) <= Place(keys[k])
Comes(x, new)      == new \in Seq(Int) /\ InOrder(new) /\ Behinds(x.keys, new)

\* y is x, with rows behind the ones of x.
Longer(x, y) ==
  /\ Ordered(x) /\ Ordered(y) /\ Len(x.keys) <= Len(y.keys) /\ y.freed = x.freed /\ x.batches <= y.batches
  /\ \A i \in 1 .. Len(x.keys) : y.keys[i] = x.keys[i] /\ y.batch[i] = x.batch[i]
  /\ \A i \in 1 .. Len(y.keys) : Len(x.keys) < i => x.batches <= y.batch[i]
  /\ x.finish => y = x

\* No rows have arrived.
LEMMA LongerSelf == ASSUME NEW x, Ordered(x) PROVE Longer(x, x)
<1>1. x \in Pages /\ Len(x.keys) \in Nat /\ x.batches \in Nat
  BY PagesLen DEF Ordered, Pages
<1> QED
  BY <1>1 DEF Longer

\* AddVecBatch.
LEMMA AddIsLonger ==
  ASSUME NEW x, Ordered(x), NEW new, Comes(x, new)
  PROVE  LET y == AddVecBatch(x, new)
         IN  Longer(x, y) /\ y.keys = (IF x.finish THEN x.keys ELSE x.keys \o new)
<1> DEFINE y == AddVecBatch(x, new)
           late == [i \in DOMAIN new |-> x.batches]
           keys == x.keys \o new
           batch == x.batch \o late
           batches == x.batches + 1
           finish == new = <<>>
<1>1. CASE x.finish
  BY <1>1, LongerSelf DEF AddVecBatch
<1>2. CASE ~x.finish
  <2>1. /\ x \in Pages /\ x.keys \in Seq(Int) /\ x.batch \in Seq(Int) /\ x.batches \in Nat /\ x.freed \in Nat
        /\ new \in Seq(Int) /\ Len(x.keys) \in Nat /\ Len(new) \in Nat /\ Len(x.batch) = Len(x.keys)
    BY LenProperties DEF Ordered, Pages, Comes
  <2>2. late \in Seq(Int) /\ Len(late) = Len(new) /\ (\A i \in 1 .. Len(new) : late[i] = x.batches)
    <3>1. DOMAIN new = 1 .. Len(new) /\ x.batches \in Int
      BY <2>1, LenProperties
    <3>2. late \in [1 .. Len(new) -> Int]
      BY <3>1
    <3>3. late \in Seq(Int)
      BY <2>1, <3>2, SeqDef
    <3>4. Len(late) = Len(new)
      BY <2>1, <3>2, <3>3, LenProperties
    <3> QED
      BY <3>1, <3>3, <3>4
  <2>3. y = [x EXCEPT !.keys = keys, !.batches = batches, !.finish = finish, !.batch = batch]
    BY <1>2 DEF AddVecBatch
  <2> HIDE DEF late
  <2> DEFINE n == Len(x.keys)
             m == Len(new)
  <2>4. /\ keys \in Seq(Int) /\ Len(keys) = n + m
        /\ \A i \in 1 .. n : keys[i] = x.keys[i]
        /\ \A i \in 1 .. Len(keys) : n < i => keys[i] = new[i - n]
    BY <2>1, ConcatProperties
  <2>5. /\ batch \in Seq(Int) /\ Len(batch) = n + m
        /\ \A i \in 1 .. n : batch[i] = x.batch[i]
        /\ \A i \in 1 .. Len(batch) : n < i => batch[i] = late[i - n]
    <3>1. /\ batch \in Seq(Int) /\ Len(batch) = Len(x.batch) + Len(late)
          /\ \A i \in 1 .. Len(x.batch) + Len(late) :
               batch[i] = IF i <= Len(x.batch) THEN x.batch[i] ELSE late[i - Len(x.batch)]
      <4>1. x.batch \in Seq(Int) /\ late \in Seq(Int)
        BY <2>1, <2>2
      <4> QED
        BY <4>1, ConcatProperties
    <3>2. Len(x.batch) = n /\ Len(late) = m /\ n \in Nat /\ m \in Nat
      BY <2>1, <2>2
    <3> HIDE DEF batch, n, m
    <3> QED
      BY <3>1, <3>2
  <2>6. batches \in Nat /\ finish \in BOOLEAN /\ batches = x.batches + 1
    BY <2>1
  <2>7. /\ \A i \in 1 .. n : 0 <= x.batch[i] /\ x.batch[i] < x.batches
        /\ \A i, k \in 1 .. n : i <= k => x.batch[i] <= x.batch[k] /\ Place(x.keys[i]) <= Place(x.keys[k])
        /\ \A i \in 1 .. n : x.batch[i] \in Int
        /\ \A i, k \in 1 .. m : i <= k => Place(new[i]) <= Place(new[k])
        /\ \A i \in 1 .. n, k \in 1 .. m : Place(x.keys[i]) <= Place(new[k])
        /\ \A i \in 1 .. m : late[i] = x.batches
    BY <2>1, <2>2, ElementOfSeq DEF Ordered, Comes, InOrder, Behinds
  <2>8. n \in Nat /\ m \in Nat
    BY <2>1
  <2> HIDE DEF keys, batch, finish, y, n, m, batches
  <2>9. /\ y \in Pages /\ y.keys = keys /\ y.batch = batch /\ y.batches = batches /\ y.freed = x.freed /\ y.finish = finish
    BY <2>1, <2>3, <2>4, <2>5, <2>6 DEF Pages
  <2>10. ASSUME NEW i \in 1 .. n + m
         PROVE  \/ i \in 1 .. n /\ keys[i] = x.keys[i] /\ batch[i] = x.batch[i]
                \/ i - n \in 1 .. m /\ n < i /\ keys[i] = new[i - n] /\ batch[i] = x.batches
    <3>1. CASE i <= n
      <4>1. i \in 1 .. n
        BY <2>8, <3>1
      <4> QED
        BY <2>4, <2>5, <4>1
    <3>2. CASE n < i
      <4>1. i - n \in 1 .. m
        BY <2>8, <3>2
      <4> QED
        BY <2>4, <2>5, <2>7, <3>2, <4>1
    <3> QED
      BY <2>8, <3>1, <3>2
  <2>11. ASSUME NEW i \in 1 .. n + m PROVE 0 <= batch[i] /\ batch[i] < batches
    <3>1. CASE i \in 1 .. n /\ batch[i] = x.batch[i]
      <4>1. 0 <= x.batch[i] /\ x.batch[i] < x.batches /\ x.batch[i] \in Int
        BY <2>7, <3>1
      <4> QED
        BY <2>1, <2>6, <3>1, <4>1
    <3>2. CASE batch[i] = x.batches
      BY <2>1, <2>6, <3>2
    <3> QED
      BY <2>10, <3>1, <3>2
  <2>12. ASSUME NEW i \in 1 .. n + m, NEW k \in 1 .. n + m, i <= k
         PROVE  batch[i] <= batch[k] /\ Place(keys[i]) <= Place(keys[k])
    <3>1. CASE i \in 1 .. n /\ k \in 1 .. n
      BY <2>4, <2>5, <2>7, <2>12, <3>1
    <3>2. CASE i \in 1 .. n /\ ~(k \in 1 .. n)
      <4>1. k - n \in 1 .. m /\ keys[k] = new[k - n] /\ batch[k] = x.batches
        BY <2>10, <3>2
      <4>2. keys[i] = x.keys[i] /\ batch[i] = x.batch[i] /\ x.batch[i] \in Int /\ x.batch[i] < x.batches
        BY <2>4, <2>5, <2>7, <3>2
      <4>3. Place(x.keys[i]) <= Place(new[k - n])
        BY <2>7, <3>2, <4>1
      <4> QED
        BY <2>1, <4>1, <4>2, <4>3
    <3>3. CASE ~(i \in 1 .. n)
      <4>1. i - n \in 1 .. m /\ keys[i] = new[i - n] /\ batch[i] = x.batches /\ n < i
        BY <2>10, <3>3
      <4>2. ~(k \in 1 .. n)
        BY <2>8, <2>12, <4>1
      <4>3. k - n \in 1 .. m /\ keys[k] = new[k - n] /\ batch[k] = x.batches
        BY <2>10, <4>2
      <4>4. i - n <= k - n
        BY <2>8, <2>12
      <4>5. Place(new[i - n]) <= Place(new[k - n])
        BY <2>7, <4>1, <4>3, <4>4
      <4> QED
        BY <2>1, <4>1, <4>3, <4>5
    <3> QED
      BY <3>1, <3>2, <3>3
  <2>13. Ordered(y)
    BY <2>4, <2>5, <2>9, <2>11, <2>12 DEF Ordered
  <2>14. \A i \in 1 .. n + m : n < i => x.batches <= batch[i]
    BY <2>1, <2>8, <2>10
  <2>15. n <= n + m /\ x.batches <= batches
    BY <2>1, <2>6, <2>8
  <2>16. Longer(x, y)
    BY <1>2, <2>4, <2>5, <2>9, <2>13, <2>14, <2>15 DEF Longer, n
  <2> QED
    BY <1>2, <2>9, <2>16 DEF keys, y
<1> QED
  BY <1>1, <1>2

\* The rows that were there are the same.
LEMMA LongerValues ==
  ASSUME NEW x, NEW y, Longer(x, y), NEW i \in 1 .. Len(x.keys)
  PROVE  /\ HaveNull(y, i) = HaveNull(x, i) /\ Value(y, i) = Value(x, i) /\ y.batch[i] = x.batch[i]
         /\ i \in 1 .. Len(y.keys)
<1>1. y.keys[i] = x.keys[i] /\ y.batch[i] = x.batch[i]
  BY DEF Longer
<1>2. Len(x.keys) <= Len(y.keys) /\ Len(x.keys) \in Nat /\ Len(y.keys) \in Nat
  BY PagesLen DEF Longer, Ordered
<1> QED
  BY <1>1, <1>2 DEF HaveNull, Value

\* w is z, but that rows have arrived.
Grown(z, w) ==
  /\ w \in Scanner /\ w.type = z.type /\ w.sp = z.sp /\ w.bp = z.bp /\ w.ps = z.ps /\ w.pb = z.pb
  /\ w.sc = z.sc /\ w.bc = z.bc /\ w.found = z.found
  /\ Longer(z.S, w.S) /\ Longer(z.B, w.B)

\* What the two say of the rows that were there.
GrownFacts(z, w) ==
  /\ NullFree(w) = NullFree(z)
  /\ \A b, s : s \in 1 .. z.sp /\ Meets(z, b, s) => Meets(w, b, s)
  /\ \A i \in 1 .. z.sp : /\ HaveNull(w.S, i) = HaveNull(z.S, i) /\ Value(w.S, i) = Value(z.S, i)
                          /\ w.S.batch[i] = z.S.batch[i] /\ i \in 1 .. Len(z.S.keys)
  /\ \A i \in 1 .. Len(z.B.keys) : /\ HaveNull(w.B, i) = HaveNull(z.B, i) /\ Value(w.B, i) = Value(z.B, i)
                                   /\ w.B.batch[i] = z.B.batch[i] /\ i \in 1 .. Len(w.B.keys)

\* The rows that were there keep their values, nulls and batches.
LEMMA GrownSame ==
  ASSUME NEW z, NEW w, Placed(z), Grown(z, w)
  PROVE  GrownFacts(z, w)
<1>1. NullFree(w) = NullFree(z)
  BY DEF Grown, NullFree
<1>2. Longer(z.S, w.S) /\ Longer(z.B, w.B) /\ z.sp \in Int /\ z.sp <= Len(z.S.keys) /\ Len(z.S.keys) \in Nat
  BY PagesLen DEF Grown, Placed, Scanner, InS
<1>3. ASSUME NEW i \in 1 .. z.sp
      PROVE  /\ HaveNull(w.S, i) = HaveNull(z.S, i) /\ Value(w.S, i) = Value(z.S, i)
             /\ w.S.batch[i] = z.S.batch[i] /\ i \in 1 .. Len(z.S.keys)
  <2>1. i \in 1 .. Len(z.S.keys)
    BY <1>2
  <2> QED
    BY <1>2, <2>1, LongerValues
<1>4. \A i \in 1 .. Len(z.B.keys) : /\ HaveNull(w.B, i) = HaveNull(z.B, i) /\ Value(w.B, i) = Value(z.B, i)
                                    /\ w.B.batch[i] = z.B.batch[i] /\ i \in 1 .. Len(w.B.keys)
  BY <1>2, LongerValues
<1>5. ASSUME NEW b, NEW s, s \in 1 .. z.sp, Meets(z, b, s) PROVE Meets(w, b, s)
  <2>1. b \in 1 .. Len(z.B.keys)
    BY <1>5 DEF Meets
  <2>2. Value(w.B, b) = Value(z.B, b) /\ HaveNull(w.B, b) = HaveNull(z.B, b) /\ b \in 1 .. Len(w.B.keys)
    BY <1>4, <2>1
  <2>3. Value(w.S, s) = Value(z.S, s) /\ HaveNull(w.S, s) = HaveNull(z.S, s)
    BY <1>3, <1>5
  <2> QED
    BY <1>1, <1>5, <2>2, <2>3 DEF Meets
<1> QED
  BY <1>1, <1>3, <1>4, <1>5 DEF GrownFacts

\* What holds between calls still holds.
LEMMA GrownBetween ==
  ASSUME NEW z, NEW w, Between(z), Grown(z, w)
  PROVE  Between(w)
<1>1. Placed(z) /\ Matched(z) /\ NullEnd(z) /\ Coded(z) /\ (NullFree(z) /\ PreKeyMatched(z) => Past(z))
  BY DEF Between
<1>2. /\ w \in Scanner /\ w.type = z.type /\ w.sp = z.sp /\ w.bp = z.bp /\ w.ps = z.ps /\ w.pb = z.pb
      /\ w.sc = z.sc /\ w.bc = z.bc /\ Longer(z.S, w.S) /\ Longer(z.B, w.B)
  BY DEF Grown
<1>3. GrownFacts(z, w)
  BY <1>1, GrownSame
<1>4. z.S.finish => w.S = z.S
  BY <1>2 DEF Longer
<1>5. z.B.finish => w.B = z.B
  BY <1>2 DEF Longer
<1>6. Placed(w)
  <2>1. Ordered(w.S) /\ Ordered(w.B)
    BY <1>2 DEF Longer
  <2>2. /\ Len(z.S.keys) \in Nat /\ Len(w.S.keys) \in Nat /\ Len(z.S.keys) <= Len(w.S.keys)
        /\ Len(z.B.keys) \in Nat /\ Len(w.B.keys) \in Nat /\ Len(z.B.keys) <= Len(w.B.keys)
        /\ (Len(z.B.keys) = 0 <=> z.B.keys = <<>>) /\ (Len(w.B.keys) = 0 <=> w.B.keys = <<>>)
    BY <1>2, PagesLen DEF Longer, Ordered
  <2>3. InS(w)
    <3>1. z.sp \in 0 .. Len(z.S.keys)
      BY <1>1 DEF Placed, InS
    <3>2. z.sp \in 0 .. Len(w.S.keys)
      BY <2>2, <3>1
    <3> QED
      BY <1>2, <3>2 DEF InS
  <2>4. InB(w)
    <3>1. InB(z) /\ z.bp \in Int
      BY <1>1 DEF Placed, Scanner
    <3>2. CASE z.B.keys = <<>>
      <4>1. z.bp = 1
        BY <3>1, <3>2 DEF InB
      <4>2. w.B.keys # <<>> => 1 \in 0 .. Len(w.B.keys)
        BY <2>2
      <4> QED
        BY <1>2, <4>1, <4>2 DEF InB
    <3>3. CASE z.B.keys # <<>>
      <4>1. z.bp \in 0 .. Len(z.B.keys)
        BY <3>1, <3>3 DEF InB
      <4>2. w.B.keys # <<>> /\ z.bp \in 0 .. Len(w.B.keys)
        BY <2>2, <3>3, <4>1
      <4> QED
        BY <1>2, <4>2 DEF InB
    <3> QED
      BY <3>2, <3>3
  <2> QED
    BY <1>2, <2>1, <2>3, <2>4 DEF Placed
<1>7. Matched(w)
  <2>1. CASE z.ps = NoRow /\ z.pb = <<>>
    BY <1>2, <2>1 DEF Matched
  <2>2. CASE z.ps \in 1 .. z.sp /\ Group(z, z.pb, z.ps)
    <3>1. Group(w, w.pb, w.ps)
      BY <1>2, <1>3, <2>2 DEF Group, GrownFacts
    <3> QED
      BY <1>2, <2>2, <3>1 DEF Matched
  <2> QED
    BY <1>1, <2>1, <2>2 DEF Matched
<1>8. z.ps # NoRow => z.ps \in 1 .. z.sp
  BY <1>1 DEF Matched
<1>9. NullEnd(w)
  <2> SUFFICES ASSUME NullFree(w), w.ps # NoRow, HaveNull(w.S, w.ps) PROVE w.S.finish /\ w.ps = Len(w.S.keys)
    BY DEF NullEnd
  <2>1. NullFree(z) /\ HaveNull(z.S, z.ps)
    BY <1>2, <1>3, <1>8 DEF GrownFacts
  <2>2. z.S.finish /\ z.ps = Len(z.S.keys)
    BY <1>1, <1>2, <2>1 DEF NullEnd
  <2> QED
    BY <1>2, <1>4, <2>2
<1>10. PreKeyMatched(w) => PreKeyMatched(z)
  <2> SUFFICES ASSUME PreKeyMatched(w) PROVE PreKeyMatched(z)
    OBVIOUS
  <2>1. z.ps # NoRow /\ z.pb # <<>>
    BY <1>2 DEF PreKeyMatched
  <2>2. z.ps \in 1 .. z.sp /\ z.sp \in Int
    BY <1>1, <1>8, <2>1 DEF Placed, Scanner
  <2>3. z.sp \in 1 .. z.sp
    BY <2>2
  <2> QED
    BY <1>2, <1>3, <2>1, <2>2, <2>3 DEF PreKeyMatched, GrownFacts
<1>11. AtEnd(z) => AtEnd(w)
  BY <1>2, <1>4 DEF AtEnd
<1>12. Coded(w)
  <2>1. ASSUME w.bc = DATA
        PROVE  /\ w.sc # DATA /\ w.sp >= 1
               /\ NullFree(w) /\ HaveNull(w.S, w.sp) => AtEnd(w)
               /\ PreKeyMatched(w) => NullFree(w) /\ AtEnd(w)
    <3>1. /\ z.sc # DATA /\ z.sp >= 1
          /\ NullFree(z) /\ HaveNull(z.S, z.sp) => AtEnd(z)
          /\ PreKeyMatched(z) => NullFree(z) /\ AtEnd(z)
      BY <1>1, <1>2, <2>1 DEF Coded
    <3>2. z.sp \in 1 .. z.sp
      BY <1>1, <3>1 DEF Placed, Scanner
    <3>3. HaveNull(w.S, w.sp) = HaveNull(z.S, z.sp) /\ NullFree(w) = NullFree(z)
      BY <1>2, <1>3, <3>2 DEF GrownFacts
    <3> QED
      BY <1>2, <1>10, <1>11, <3>1, <3>3
  <2>2. w.bp >= 1 \/ w.bc = DATA \/ (w.sc = DONE /\ w.bc = DONE)
    BY <1>1, <1>2 DEF Coded
  <2> QED
    BY <2>1, <2>2 DEF Coded
<1>13. NullFree(w) /\ PreKeyMatched(w) => Past(w)
  <2> SUFFICES ASSUME NullFree(w), PreKeyMatched(w) PROVE Past(w)
    OBVIOUS
  <2>1. Past(z) /\ PreKeyMatched(z)
    BY <1>1, <1>3, <1>10 DEF GrownFacts
  <2>2. CASE IsDataFinish(z.B, z.bp)
    BY <1>2, <1>5, <2>2 DEF Past, IsDataFinish
  <2>3. CASE Ahead(z)
    <3>1. z.ps \in 1 .. z.sp /\ z.sp \in Int
      BY <1>1, <1>8, <2>1 DEF PreKeyMatched, Placed, Scanner
    <3>2. z.sp \in 1 .. z.sp
      BY <3>1
    <3>3. Value(w.S, w.sp) = Value(z.S, z.sp)
      BY <1>2, <1>3, <3>2 DEF GrownFacts
    <3>4. z.bp \in 1 .. Len(z.B.keys) /\ ~HaveNull(z.B, z.bp) /\ Value(z.B, z.bp) > Value(z.S, z.sp)
      BY <2>3 DEF Ahead
    <3>5. w.bp \in 1 .. Len(w.B.keys) /\ HaveNull(w.B, w.bp) = HaveNull(z.B, z.bp) /\ Value(w.B, w.bp) = Value(z.B, z.bp)
      BY <1>2, <1>3, <3>4 DEF GrownFacts
    <3> QED
      BY <3>3, <3>4, <3>5 DEF Past, Ahead
  <2> QED
    BY <2>1, <2>2, <2>3 DEF Past
<1> QED
  BY <1>6, <1>7, <1>9, <1>12, <1>13 DEF Between

\* A match is one.
LEMMA MatchMeets ==
  ASSUME NEW z, Matched(z), NEW k \in 1 .. Len(z.pb), z.pb[k] # NoRow
  PROVE  z.ps \in 1 .. z.sp /\ Meets(z, z.pb[k], z.ps)
<1>1. z.pb # <<>>
  <2> SUFFICES ASSUME z.pb = <<>> PROVE FALSE
    OBVIOUS
  <2> DEFINE q == <<>>
  <2>1. Len(q) = 0 /\ z.pb = q
    OBVIOUS
  <2> HIDE DEF q
  <2> QED
    BY <2>1
<1>2. z.ps \in 1 .. z.sp /\ Group(z, z.pb, z.ps)
  BY <1>1 DEF Matched
<1>3. z.pb # <<NoRow>>
  <2> SUFFICES ASSUME z.pb = <<NoRow>> PROVE FALSE
    OBVIOUS
  <2> DEFINE q == <<NoRow>>
  <2>1. Len(q) = 1 /\ q[1] = NoRow
    OBVIOUS
  <2>2. z.pb = q
    OBVIOUS
  <2> HIDE DEF q
  <2> QED
    BY <2>1, <2>2
<1> QED
  BY <1>2, <1>3 DEF Group

\* Neither are the rows that wait to be built.
LEMMA GrownListed ==
  ASSUME NEW z, NEW w, Between(z), Grown(z, w), Backed(z.B),
         NEW L, NEW off, NEW prev, NEW unm, Listed(z, L, off, prev, unm)
  PROVE  Listed(w, L, off, prev, unm) /\ Backed(w.B)
<1>1. Placed(z) /\ Matched(z)
  BY DEF Between
<1>2. /\ w.sp = z.sp /\ w.ps = z.ps /\ w.pb = z.pb /\ Longer(z.S, w.S) /\ Longer(z.B, w.B)
      /\ w.S.freed = z.S.freed /\ w.B.freed = z.B.freed
  BY DEF Grown, Longer
<1>3. GrownFacts(z, w)
  BY <1>1, GrownSame
<1>4. /\ z.B.freed \in Nat /\ z.B.batches \in Nat /\ w.B.batches \in Nat /\ z.B.batches <= w.B.batches
      /\ Len(z.B.keys) \in Nat /\ z.sp \in Int /\ z.sp >= 0 /\ Ordered(w.B)
  BY <1>1, <1>2, PagesLen DEF Placed, Scanner, InS, Longer, Ordered, Pages
<1>5. Backed(w.B)
  BY <1>2, <1>4 DEF Backed
<1>6. Unfreed(z, prev)
  BY DEF Listed
<1>7. prev = -1 \/ (prev \in 1 .. w.sp /\ w.S.batch[prev] >= w.S.freed)
  BY <1>2, <1>3, <1>6 DEF Unfreed, GrownFacts
<1>8. IF w.sp = 0 THEN w.S.freed = 0 ELSE w.S.freed <= w.S.batch[w.sp]
  <2>1. CASE z.sp = 0
    BY <1>2, <1>6, <2>1 DEF Unfreed
  <2>2. CASE z.sp # 0
    <3>1. z.sp \in 1 .. z.sp
      BY <1>4, <2>2
    <3> QED
      BY <1>2, <1>3, <1>6, <2>2, <3>1 DEF Unfreed, GrownFacts
  <2> QED
    BY <2>1, <2>2
<1>9. ASSUME Lasting(z) PROVE Lasting(w)
  <2>1. z.ps \in 1 .. z.sp
    BY <1>1, <1>9 DEF Lasting, Matched
  <2>2. Value(w.S, w.ps) = Value(z.S, z.ps) /\ HaveNull(w.S, w.ps) = HaveNull(z.S, z.ps) /\ NullFree(w) = NullFree(z)
    BY <1>2, <1>3, <2>1 DEF GrownFacts
  <2>3. ASSUME NEW i \in 1 .. Len(w.B.keys), ~HaveNull(w.B, i), Value(w.B, i) > Value(w.S, w.ps)
        PROVE  w.B.batch[i] >= w.B.freed
    <3>1. CASE i \in 1 .. Len(z.B.keys)
      <4>1. HaveNull(w.B, i) = HaveNull(z.B, i) /\ Value(w.B, i) = Value(z.B, i) /\ w.B.batch[i] = z.B.batch[i]
        BY <1>3, <3>1 DEF GrownFacts
      <4>2. z.B.batch[i] >= z.B.freed
        BY <1>9, <2>2, <2>3, <3>1, <4>1 DEF Lasting
      <4> QED
        BY <1>2, <4>1, <4>2
    <3>2. CASE ~(i \in 1 .. Len(z.B.keys))
      <4>1. Len(z.B.keys) < i
        BY <1>4, <3>2
      <4>2. z.B.batches <= w.B.batch[i]
        BY <1>2, <4>1 DEF Longer
      <4>3. w.B.batch[i] \in Nat
        BY <1>4, Values
      <4> QED
        BY <1>2, <1>4, <4>2, <4>3 DEF Backed
    <3> QED
      BY <3>1, <3>2
  <2> QED
    BY <1>2, <1>9, <2>2, <2>3 DEF Lasting
<1>10. ASSUME NEW k \in 1 .. Len(z.pb), z.pb[k] # NoRow
       PROVE  /\ Value(w.B, z.pb[k]) = Value(z.B, z.pb[k]) /\ w.B.batch[z.pb[k]] = z.B.batch[z.pb[k]]
  <2>1. z.pb[k] \in 1 .. Len(z.B.keys)
    BY <1>1, <1>10, MatchMeets DEF Meets
  <2> QED
    BY <1>3, <2>1 DEF GrownFacts
<1>11. Unfreed(w, prev)
  <2>1. w.B.freed # 0 => Lasting(w)
    BY <1>2, <1>6, <1>9 DEF Unfreed
  <2>2. \A k \in 1 .. Len(w.pb) : w.pb[k] # NoRow => w.B.batch[w.pb[k]] >= w.B.freed
    BY <1>2, <1>6, <1>10 DEF Unfreed
  <2> QED
    BY <1>7, <1>8, <2>1, <2>2 DEF Unfreed
<1>12. ASSUME NEW i \in Due(L, off)
       PROVE  /\ L[i].s \in 1 .. z.sp /\ Value(w.S, L[i].s) = Value(z.S, L[i].s)
              /\ w.S.batch[L[i].s] = z.S.batch[L[i].s]
              /\ Met(L[i]) => Value(w.B, L[i].b) = Value(z.B, L[i].b) /\ w.B.batch[L[i].b] = z.B.batch[L[i].b]
  <2>1. Given(z, prev, L[i])
    BY DEF Listed
  <2>2. L[i].s \in 1 .. z.sp
    BY <2>1 DEF Given
  <2>3. Met(L[i]) => L[i].b \in 1 .. Len(z.B.keys)
    BY <2>1 DEF Given, Meets
  <2> QED
    BY <1>3, <2>2, <2>3 DEF GrownFacts
<1>13. ASSUME NEW i \in Due(L, off) PROVE Given(w, prev, L[i])
  <2> DEFINE p == L[i]
  <2>1. Given(z, prev, p)
    BY DEF Listed
  <2>2. p.s \in 1 .. z.sp /\ z.S.batch[p.s] >= z.S.freed /\ prev <= p.s
    BY <2>1 DEF Given
  <2>3. /\ Value(w.S, p.s) = Value(z.S, p.s) /\ w.S.batch[p.s] = z.S.batch[p.s]
        /\ Met(p) => w.B.batch[p.b] = z.B.batch[p.b]
    BY <1>12
  <2> HIDE DEF p
  <2>4. p.s \in 1 .. w.sp /\ w.S.batch[p.s] >= w.S.freed /\ prev <= p.s
    BY <1>2, <2>2, <2>3
  <2>5. ASSUME Met(p)
        PROVE  /\ Meets(w, p.b, p.s) /\ w.B.batch[p.b] >= w.B.freed
               /\ w.ps # NoRow /\ (NullFree(w) \/ ~HaveNull(w.S, w.ps))
               /\ Value(w.S, p.s) <= Value(w.S, w.ps)
    <3>1. /\ Meets(z, p.b, p.s) /\ z.B.batch[p.b] >= z.B.freed
          /\ z.ps # NoRow /\ (NullFree(z) \/ ~HaveNull(z.S, z.ps))
          /\ Value(z.S, p.s) <= Value(z.S, z.ps)
      BY <2>1, <2>5 DEF Given
    <3>2. z.ps \in 1 .. z.sp
      BY <1>1, <3>1 DEF Matched
    <3>3. Value(w.S, w.ps) = Value(z.S, z.ps) /\ HaveNull(w.S, w.ps) = HaveNull(z.S, z.ps) /\ NullFree(w) = NullFree(z)
      BY <1>2, <1>3, <3>2 DEF GrownFacts
    <3>4. Meets(w, p.b, p.s)
      BY <1>3, <2>2, <3>1 DEF GrownFacts
    <3> QED
      BY <1>2, <2>3, <2>5, <3>1, <3>3, <3>4
  <2> QED
    BY <2>4, <2>5 DEF Given, p
<1>14. ASSUME NEW i \in Due(L, off), NEW k \in Due(L, off), i < k PROVE InTurn(w, L[i], L[k])
  <2>1. InTurn(z, L[i], L[k])
    BY <1>14 DEF Listed
  <2> QED
    BY <1>12, <2>1 DEF InTurn
<1>15. ASSUME NEW i \in Due(L, off), Met(L[i]), ~L[i].pre PROVE Lead(w, L, off, unm, i)
  <2>1. Lead(z, L, off, unm, i)
    BY <1>15 DEF Listed
  <2>2. ASSUME Foremost(z, L, off, i) PROVE Foremost(w, L, off, i)
    <3>1. ASSUME NEW k \in Due(L, off), k > i, Met(L[k]), Value(w.B, L[k].b) = Value(w.B, L[i].b) PROVE L[i].b <= L[k].b
      <4>1. Value(z.B, L[k].b) = Value(z.B, L[i].b)
        BY <1>12, <1>15, <3>1
      <4> QED
        BY <2>2, <3>1, <4>1 DEF Foremost
    <3>2. ASSUME NEW k \in 1 .. Len(z.pb), z.pb[k] # NoRow, Value(w.B, z.pb[k]) = Value(w.B, L[i].b) PROVE L[i].b <= z.pb[k]
      <4>1. Value(z.B, z.pb[k]) = Value(z.B, L[i].b)
        BY <1>10, <1>12, <1>15, <3>2
      <4> QED
        BY <2>2, <3>2, <4>1 DEF Foremost
    <3> QED
      BY <1>2, <3>1, <3>2 DEF Foremost
  <2>3. w.S.batch[L[i].s] = z.S.batch[L[i].s]
    BY <1>12
  <2> QED
    BY <2>1, <2>2, <2>3 DEF Lead
<1>16. L \in Seq(Pair) /\ off \in 0 .. Len(L) /\ prev \in Int /\ unm \in Int
  BY DEF Listed
<1> QED
  BY <1>5, <1>11, <1>13, <1>14, <1>15, <1>16 DEF Listed

\* The same join.
Same(j, k) == k.filtered = j.filtered /\ k.maxRowCount = j.maxRowCount /\ k.scan.type = j.scan.type

\* The rows that have arrived.
Arrived(j, t) == IF t = STREAMED THEN j.scan.S.keys ELSE j.scan.B.keys

\* The operator has more rows, or says how many there are.
LEMMA GrownRunning ==
  ASSUME NEW j, Running(j), NEW w, Grown(j.scan, w)
  PROVE  LET k == [j EXCEPT !.scan = w]
         IN  Running(k) /\ k.scan = w /\ Same(j, k) /\ k.flow = j.flow
<1> DEFINE k == [j EXCEPT !.scan = w]
<1>1. j \in Joiner /\ Between(j.scan) /\ Built(j) /\ Fit(j) /\ w \in Scanner /\ w.type = j.scan.type /\ w.found = j.scan.found
      /\ w.sc = j.scan.sc /\ w.bc = j.scan.bc
  BY DEF Running, Built, Grown
<1>2. /\ k \in Joiner /\ k.scan = w /\ k.pairs = j.pairs /\ k.filtered = j.filtered /\ k.maxRowCount = j.maxRowCount
      /\ k.offset = j.offset /\ k.prev = j.prev /\ k.out = j.out /\ k.unmatched = j.unmatched /\ k.stale = j.stale
      /\ k.rows = j.rows /\ k.return = j.return /\ k.flow = j.flow
  BY <1>1 DEF Joiner
<1> HIDE DEF k
<1>3. Between(w) /\ Listed(w, j.pairs, j.offset, j.prev, j.unmatched) /\ Backed(w.B)
  BY <1>1, GrownBetween, GrownListed DEF Built
<1>4. NoPads(k) = NoPads(j)
  BY <1>1, <1>2 DEF NoPads
<1>5. Roomy(k)
  BY <1>1, <1>2, <1>4 DEF Roomy, Built
<1>6. Built(k)
  BY <1>1, <1>2, <1>3, <1>5 DEF Built
<1>7. Fit(k)
  BY <1>1, <1>2, <1>4 DEF Fit, HasRoom
<1>8. Running(k)
  BY <1>1, <1>2, <1>6, <1>7 DEF Running
<1> QED
  BY <1>1, <1>2, <1>8 DEF Same, k

\* AddStreamedTableInput, AddBufferedTableInput.
LEMMA AddTableInputSound ==
  ASSUME NEW j, Running(j), j.flow # FINISH, NEW t \in Tables, NEW new, new \in Seq(Int), InOrder(new),
         Behinds(Arrived(j, t), new)
  PROVE  LET r == AddTableInput(j, t, new)
         IN  /\ Sound(r) /\ Same(j, r)
             /\ Arrived(r, t) \in {Arrived(j, t), Arrived(j, t) \o new}
             /\ \A u \in Tables : u # t => Arrived(r, u) = Arrived(j, u)
<1> DEFINE z == j.scan
           S == AddVecBatch(z.S, new)
           B == AddVecBatch(z.B, new)
           r == AddTableInput(j, t, new)
<1>1. j \in Joiner /\ z \in Scanner /\ Ordered(z.S) /\ Ordered(z.B) /\ z.S \in Pages /\ z.B \in Pages
  BY DEF Running, Built, Between, Placed, Scanner
<1>2. Longer(z.S, z.S) /\ Longer(z.B, z.B) /\ STREAMED # BUFFERED
  BY <1>1, LongerSelf DEF STREAMED, BUFFERED
<1>3. CASE t = STREAMED
  <2> DEFINE w == [z EXCEPT !.S = S]
             k == [j EXCEPT !.scan = w]
  <2>1. r = GetJoinResult(k)
    BY <1>1, <1>3 DEF AddTableInput, Joiner, Scanner
  <2>2. Longer(z.S, S) /\ S.keys \in {z.S.keys, z.S.keys \o new}
    BY <1>1, <1>3, AddIsLonger DEF Comes, Arrived
  <2>3. S \in Pages
    BY <2>2 DEF Longer, Ordered
  <2> HIDE DEF S, r
  <2>4. Grown(z, w) /\ w.S = S /\ w.B = z.B
    BY <1>1, <1>2, <2>2, <2>3 DEF Grown, Scanner
  <2> HIDE DEF w
  <2>5. Running(k) /\ k.scan = w /\ Same(j, k) /\ k.flow = j.flow
    BY <2>4, GrownRunning
  <2> HIDE DEF k
  <2>6. Sound(r) /\ Alike(k, r)
    BY <2>1, <2>5, JoinResultSound
  <2>7. r.scan.S.keys = S.keys /\ r.scan.B.keys = z.B.keys
    BY <2>4, <2>5, <2>6 DEF Alike
  <2>8. Same(j, r)
    BY <2>5, <2>6 DEF Alike, Same
  <2>9. Arrived(r, t) \in {Arrived(j, t), Arrived(j, t) \o new}
    BY <1>3, <2>2, <2>7 DEF Arrived
  <2>10. \A u \in Tables : u # t => Arrived(r, u) = Arrived(j, u)
    BY <1>3, <2>7 DEF Arrived
  <2> QED
    BY <2>6, <2>8, <2>9, <2>10 DEF r
<1>4. CASE t = BUFFERED
  <2> DEFINE w == [z EXCEPT !.B = B]
             k == [j EXCEPT !.scan = w]
  <2>1. r = GetJoinResult(k)
    BY <1>1, <1>2, <1>4 DEF AddTableInput, Joiner, Scanner
  <2>2. Longer(z.B, B) /\ B.keys \in {z.B.keys, z.B.keys \o new}
    BY <1>1, <1>2, <1>4, AddIsLonger DEF Comes, Arrived
  <2>3. B \in Pages
    BY <2>2 DEF Longer, Ordered
  <2> HIDE DEF B, r
  <2>4. Grown(z, w) /\ w.B = B /\ w.S = z.S
    BY <1>1, <1>2, <2>2, <2>3 DEF Grown, Scanner
  <2> HIDE DEF w
  <2>5. Running(k) /\ k.scan = w /\ Same(j, k) /\ k.flow = j.flow
    BY <2>4, GrownRunning
  <2> HIDE DEF k
  <2>6. Sound(r) /\ Alike(k, r)
    BY <2>1, <2>5, JoinResultSound
  <2>7. r.scan.B.keys = B.keys /\ r.scan.S.keys = z.S.keys
    BY <2>4, <2>5, <2>6 DEF Alike
  <2>8. Same(j, r)
    BY <2>5, <2>6 DEF Alike, Same
  <2>9. Arrived(r, t) \in {Arrived(j, t), Arrived(j, t) \o new}
    BY <1>2, <1>4, <2>2, <2>7 DEF Arrived
  <2>10. \A u \in Tables : u # t => Arrived(r, u) = Arrived(j, u)
    BY <1>2, <1>4, <2>7 DEF Arrived, Tables
  <2> QED
    BY <2>6, <2>8, <2>9, <2>10 DEF r
<1> QED
  BY <1>3, <1>4 DEF Tables

\* Clear.
LEMMA ClearIs ==
  ASSUME NEW j, Built(j), NEW hasData \in BOOLEAN
  PROVE  LET k == [Clear(j) EXCEPT !.hasData = hasData]
         IN  /\ Built(k) /\ k.rows = <<>> /\ k.return = j.return /\ k.flow = j.flow /\ k.scan = j.scan
             /\ Same(j, k)
<1> DEFINE none == <<>>
           zero == 0
           unseen == FALSE
           k == [Clear(j) EXCEPT !.hasData = hasData]
<1>1. /\ j \in Joiner /\ none = <<>> /\ none \in Seq(Int \X Int) /\ none \in Seq(Pair) /\ zero \in Nat /\ zero = 0
      /\ unseen \in BOOLEAN /\ Len(none) = 0
  BY EmptySeq DEF Built
<1>2. k = [j EXCEPT !.rows = none, !.offset = zero, !.seen = unseen, !.pairs = none, !.hasData = hasData]
  BY <1>1 DEF Clear, Joiner
<1> HIDE DEF none, zero, unseen, k
<1>3. /\ k \in Joiner /\ k.scan = j.scan /\ k.pairs = none /\ k.filtered = j.filtered /\ k.maxRowCount = j.maxRowCount
      /\ k.offset = zero /\ k.prev = j.prev /\ k.out = j.out /\ k.unmatched = j.unmatched /\ k.stale = j.stale
      /\ k.rows = none /\ k.return = j.return /\ k.flow = j.flow
  BY <1>1, <1>2 DEF Joiner
<1>4. Due(none, zero) = {}
  BY <1>1 DEF Due
<1>5. Listed(j.scan, none, zero, j.prev, j.unmatched)
  <2>1. Listed(j.scan, j.pairs, j.offset, j.prev, j.unmatched)
    BY DEF Built
  <2>2. zero \in 0 .. Len(none)
    BY <1>1
  <2> QED
    BY <1>1, <1>4, <2>1, <2>2 DEF Listed
<1>6. Roomy(k)
  BY <1>3 DEF Roomy, NoPads, Built
<1>7. Built(k)
  BY <1>3, <1>5, <1>6 DEF Built
<1> QED
  BY <1>1, <1>3, <1>7 DEF Same, k

\* GetOutput: the rows handed out make room for the next.
LEMMA AfterOutputSound ==
  ASSUME NEW j, Running(j)
  PROVE  LET r == AfterOutput(j)
         IN  Sound(r) /\ Same(j, r) /\ \A t \in Tables : Arrived(r, t) = Arrived(j, t)
<1> DEFINE none == NoBatch
           no == FALSE
           i == [j EXCEPT !.return = none]
           k == AddJoin(i)
           r == AfterOutput(j)
<1>1. j \in Joiner /\ Built(j) /\ Fit(j) /\ none \in Seq(Int \X Int) /\ Len(none) = 0 /\ no \in BOOLEAN
  BY EmptySeq DEF Running, Built, NoBatch
<1>2. r = IF k.rows # <<>> THEN Take(k) ELSE [Clear(k) EXCEPT !.hasData = no]
  BY DEF AfterOutput
<1> HIDE DEF none, r, no
<1>3. /\ i \in Joiner /\ i.scan = j.scan /\ i.pairs = j.pairs /\ i.filtered = j.filtered /\ i.maxRowCount = j.maxRowCount
      /\ i.offset = j.offset /\ i.prev = j.prev /\ i.out = j.out /\ i.unmatched = j.unmatched /\ i.stale = j.stale
      /\ i.rows = j.rows /\ i.return = none /\ i.flow = j.flow
  BY <1>1 DEF Joiner
<1> HIDE DEF i
<1>4. Aside(j, i)
  BY <1>3 DEF Aside
<1>5. Built(i) /\ NoPads(i) = NoPads(j) /\ HasRoom(i) = HasRoom(j)
  BY <1>1, <1>3, <1>4, AsideBuilt DEF NoPads, HasRoom
<1>6. Later(i, k) /\ (NoPads(i) /\ HasRoom(i) => Len(k.rows) <= k.maxRowCount)
  BY <1>5, AddJoinKeeps
<1> HIDE DEF k
<1>7. /\ Built(k) /\ k \in Joiner /\ k.filtered = j.filtered /\ k.maxRowCount = j.maxRowCount /\ k.scan.type = j.scan.type
      /\ k.scan.S.keys = j.scan.S.keys /\ k.scan.B.keys = j.scan.B.keys /\ k.scan.found = j.scan.found
      /\ k.scan.sc = j.scan.sc /\ k.scan.bc = j.scan.bc /\ k.flow = j.flow /\ k.return = none
  BY <1>3, <1>6 DEF Later, Freeing, OnlyFreed, Built
<1>8. NoPads(k) = NoPads(j)
  BY <1>7 DEF NoPads
<1>9. NoPads(k) => Len(k.rows) <= k.maxRowCount /\ Len(k.return) <= k.maxRowCount
  <2>1. k.maxRowCount \in Nat
    BY <1>7 DEF Joiner
  <2> QED
    BY <1>1, <1>5, <1>6, <1>7, <1>8, <2>1 DEF Fit
<1>10. k.scan.found = <<>> /\ (k.flow # FINISH => ~(k.scan.sc = DONE /\ k.scan.bc = DONE))
  BY <1>7 DEF Running
<1>11. CASE k.rows # <<>>
  <2>1. r = Take(k)
    BY <1>2, <1>11
  <2>2. Aside(k, r) /\ r.pairs = k.pairs /\ r.offset = k.offset /\ r.flow = k.flow
    BY <1>7, <2>1, TakeIs
  <2>3. Fit(r)
    BY <1>7, <1>9, <2>1, TakeFits
  <2>4. Built(r)
    BY <1>7, <2>2, AsideBuilt
  <2>5. Sound(r)
    BY <1>10, <2>2, <2>3, <2>4 DEF Sound, Running, Aside, Built
  <2> QED
    BY <1>7, <2>2, <2>5 DEF Same, Arrived, Aside, r
<1>12. CASE k.rows = <<>>
  <2>1. r = [Clear(k) EXCEPT !.hasData = no]
    BY <1>2, <1>12
  <2>2. Built(r) /\ r.rows = <<>> /\ r.return = k.return /\ r.flow = k.flow /\ r.scan = k.scan /\ Same(k, r)
    BY <1>1, <1>7, <2>1, ClearIs
  <2>3. Fit(r)
    <3>1. r \in Joiner /\ r.maxRowCount \in Nat \ {0} /\ Len(r.rows) = 0
      BY <2>2 DEF Built, Joiner
    <3> QED
      BY <1>1, <1>7, <2>2, <3>1 DEF Fit, HasRoom
  <2>4. Sound(r)
    BY <1>10, <2>2, <2>3 DEF Sound, Running, Built
  <2> QED
    BY <1>7, <2>2, <2>4 DEF Same, Arrived, r
<1> QED
  BY <1>11, <1>12

-----------------------------------------------------------------------------
(* The inductive invariant.                                                *)

\* What a table has still to give is sorted, and comes behind what has arrived.
Coming(keys, batches) ==
  /\ batches \in Seq(Seq(Int) \ {<<>>}) /\ Sorted(batches)
  /\ \A a \in DOMAIN batches : Behinds(keys, batches[a])

InputSorted == input \in [Tables -> Seq(Seq(Int) \ {<<>>})] /\ \A t \in Tables : Coming(Arrived(smj, t), input[t])

JoinOf(j, q) == j.filtered = q.filtered /\ j.scan.type = q.type

IInv == Sound(smj) /\ InputSorted /\ \E q \in Queries : JoinOf(smj, q)

\* The batches of a table in turn.
LEMMA ComingHead ==
  ASSUME NEW keys \in Seq(Int), NEW batches, Coming(keys, batches), batches # <<>>
  PROVE  LET new == Head(batches)
         IN  /\ new \in Seq(Int) /\ InOrder(new) /\ Behinds(keys, new)
             /\ Coming(keys, Tail(batches)) /\ Coming(keys \o new, Tail(batches))
<1> DEFINE new == Head(batches)
           rest == Tail(batches)
           S == Seq(Int) \ {<<>>}
<1>1. /\ batches \in Seq(S) /\ Len(batches) \in Nat /\ DOMAIN batches = 1 .. Len(batches) /\ Len(batches) # 0
  BY LenProperties, EmptySeq DEF Coming
<1>2. new = batches[1] /\ 1 \in DOMAIN batches /\ new \in S
  <2>1. 1 \in 1 .. Len(batches)
    BY <1>1
  <2> HIDE DEF S
  <2> QED
    BY <1>1, <2>1, HeadTailProperties, ElementOfSeq
<1>3. /\ rest \in Seq(S) /\ Len(rest) = Len(batches) - 1 /\ DOMAIN rest = 1 .. Len(rest)
      /\ \A a \in 1 .. Len(rest) : rest[a] = batches[a + 1]
  <2>1. rest \in Seq(S) /\ Len(rest) = Len(batches) - 1 /\ \A a \in 1 .. Len(rest) : rest[a] = batches[a + 1]
    <3> HIDE DEF S
    <3> QED
      BY <1>1, HeadTailProperties
  <2>2. DOMAIN rest = 1 .. Len(rest)
    <3> HIDE DEF S
    <3> QED
      BY <2>1, LenProperties
  <2> QED
    BY <2>1, <2>2
<1>4. \A a \in DOMAIN rest : a + 1 \in DOMAIN batches /\ rest[a] = batches[a + 1] /\ a \in Nat
  <2> DEFINE n == Len(batches)
             m == Len(rest)
  <2>1. n \in Nat /\ m = n - 1 /\ DOMAIN batches = 1 .. n /\ DOMAIN rest = 1 .. m /\ \A a \in 1 .. m : rest[a] = batches[a + 1]
    BY <1>1, <1>3
  <2> HIDE DEF n, m, rest
  <2>2. \A a \in 1 .. m : a + 1 \in 1 .. n /\ a \in Nat
    BY <2>1
  <2> QED
    BY <2>1, <2>2
<1>5. \A a \in DOMAIN batches : batches[a] \in Seq(Int) /\ DOMAIN batches[a] = 1 .. Len(batches[a]) /\ Len(batches[a]) \in Nat
  <2> TAKE a \in DOMAIN batches
  <2>1. batches[a] \in S
    <3> HIDE DEF S
    <3> QED
      BY <1>1, ElementOfSeq
  <2>2. batches[a] \in Seq(Int)
    BY <2>1
  <2> QED
    BY <2>2, LenProperties
<1>6. Sorted(batches) /\ \A a \in DOMAIN batches : Behinds(keys, batches[a])
  BY DEF Coming
<1>7. InOrder(new)
  BY <1>2, <1>5, <1>6 DEF Sorted, InOrder
<1>8. Behinds(keys, new)
  BY <1>2, <1>6
<1> HIDE DEF new, rest
<1>9. Sorted(rest)
  <2> SUFFICES ASSUME NEW a \in DOMAIN rest, NEW b \in DOMAIN rest, NEW i \in DOMAIN rest[a], NEW k \in DOMAIN rest[b],
                      a < b \/ (a = b /\ i <= k)
               PROVE  Place(rest[a][i]) <= Place(rest[b][k])
    BY DEF Sorted
  <2>1. a + 1 < b + 1 \/ (a + 1 = b + 1 /\ i <= k)
    BY <1>4
  <2>2. a + 1 \in DOMAIN batches /\ b + 1 \in DOMAIN batches /\ i \in DOMAIN batches[a + 1] /\ k \in DOMAIN batches[b + 1]
    BY <1>4
  <2>3. Place(batches[a + 1][i]) <= Place(batches[b + 1][k])
    BY <1>6, <2>1, <2>2 DEF Sorted
  <2> QED
    BY <1>4, <2>3
<1>10. \A a \in DOMAIN rest : Behinds(keys, rest[a])
  BY <1>4, <1>6
<1>11. ASSUME NEW a \in DOMAIN rest PROVE Behinds(keys \o new, rest[a])
  <2> DEFINE n == Len(keys)
             m == Len(new)
             all == keys \o new
  <2>1. new \in Seq(Int) /\ m \in Nat /\ n \in Nat
    BY <1>2, LenProperties
  <2>2. /\ Len(all) = n + m /\ \A i \in 1 .. n + m : all[i] = IF i <= n THEN keys[i] ELSE new[i - n]
    BY <2>1, ConcatProperties
  <2>3. \A i \in 1 .. n, k \in 1 .. Len(rest[a]) : Place(keys[i]) <= Place(rest[a][k])
    BY <1>10 DEF Behinds
  <2>4. \A i \in 1 .. m, k \in 1 .. Len(rest[a]) : Place(new[i]) <= Place(rest[a][k])
    <3> TAKE i \in 1 .. m, k \in 1 .. Len(rest[a])
    <3>1. a + 1 \in DOMAIN batches /\ rest[a] = batches[a + 1] /\ 1 < a + 1
      BY <1>3, <1>4
    <3>2. i \in DOMAIN batches[1] /\ k \in DOMAIN batches[a + 1]
      BY <1>2, <1>5, <3>1
    <3>3. Place(batches[1][i]) <= Place(batches[a + 1][k])
      BY <1>2, <1>6, <3>1, <3>2 DEF Sorted
    <3> QED
      BY <1>2, <3>1, <3>3
  <2> HIDE DEF n, m, all
  <2>5. ASSUME NEW i \in 1 .. n + m, NEW k \in 1 .. Len(rest[a]) PROVE Place(all[i]) <= Place(rest[a][k])
    <3>1. CASE i <= n
      <4>1. i \in 1 .. n
        BY <2>1, <3>1
      <4> QED
        BY <2>2, <2>3, <3>1, <4>1
    <3>2. CASE ~(i <= n)
      <4>1. i - n \in 1 .. m
        BY <2>1, <3>2
      <4> QED
        BY <2>2, <2>4, <3>2, <4>1
    <3> QED
      BY <3>1, <3>2
  <2> QED
    BY <2>2, <2>5 DEF Behinds, all
<1>12. Coming(keys, rest) /\ Coming(keys \o new, rest)
  BY <1>3, <1>9, <1>10, <1>11 DEF Coming
<1> QED
  BY <1>2, <1>7, <1>8, <1>12 DEF new, rest

\* The invariant, of the join and what its tables have still to give.
Fed(j, inp) ==
  /\ Sound(j) /\ (\E q \in Queries : JoinOf(j, q))
  /\ inp \in [Tables -> Seq(Seq(Int) \ {<<>>})] /\ \A t \in Tables : Coming(Arrived(j, t), inp[t])

\* It is an invariant of those two variables.
LEMMA IInvIsFed == IInv <=> Fed(smj, input)
  BY DEF IInv, Fed, InputSorted

\* The end of the data of a table.
LEMMA EndComes ==
  ASSUME NEW j, Sound(j), NEW t \in Tables
  PROVE  /\ EndOfData \in Seq(Int) /\ InOrder(EndOfData) /\ Behinds(Arrived(j, t), EndOfData)
         /\ Arrived(j, t) \in Seq(Int) /\ Arrived(j, t) \o EndOfData = Arrived(j, t)
<1> DEFINE none == EndOfData
           keys == Arrived(j, t)
<1>1. none = <<>> /\ none \in Seq(Int) /\ Len(none) = 0
  BY EmptySeq DEF EndOfData
<1>2. keys \in Seq(Int)
  <2>1. j.scan \in Scanner
    BY DEF Sound, Joiner
  <2>2. j.scan.S \in Pages /\ j.scan.B \in Pages
    BY <2>1 DEF Scanner
  <2> QED
    BY <2>2 DEF Arrived, Pages
<1> HIDE DEF none, keys
<1>3. InOrder(none) /\ Behinds(keys, none)
  BY <1>1 DEF InOrder, Behinds
<1>4. keys \o <<>> = keys
  BY <1>2, ConcatEmptySeq
<1> QED
  BY <1>1, <1>2, <1>3, <1>4 DEF none, keys

\* A join that waits for a table is running.
LEMMA WaitsRuns == ASSUME NEW j, Sound(j), NEW t \in Tables, j.flow = t PROVE Running(j) /\ j.flow # FINISH
<1>1. j.flow # FINISH
  BY DEF Tables, STREAMED, BUFFERED, FINISH
<1> QED
  BY <1>1 DEF Sound, Over

\* The join is the same.
LEMMA SameJoin == ASSUME NEW j, NEW k, Same(j, k), \E q \in Queries : JoinOf(j, q) PROVE \E q \in Queries : JoinOf(k, q)
  BY DEF Same, JoinOf

\* IsBlocked(): what it does beside the answer.
LEMMA AskedFed ==
  ASSUME IInv, NEW t \in Tables
  PROVE  Fed(Asked(t).join, input)
<1> DEFINE k == Asked(t).join
<1>1. Fed(smj, input)
  BY IInvIsFed
<1>2. CASE ~Finishes(t) /\ Resends(t)
  <2>1. k = AddTableInput(smj, t, EndOfData)
    BY <1>2 DEF Asked
  <2>2. Sound(smj) /\ smj.flow = t
    BY <1>1, <1>2 DEF Fed, Resends
  <2>3. Running(smj) /\ smj.flow # FINISH
    BY <2>2, WaitsRuns
  <2>4. /\ EndOfData \in Seq(Int) /\ InOrder(EndOfData) /\ Behinds(Arrived(smj, t), EndOfData)
        /\ Arrived(smj, t) \o EndOfData = Arrived(smj, t)
    BY <2>2, EndComes
  <2>5. /\ Sound(k) /\ Same(smj, k) /\ Arrived(k, t) \in {Arrived(smj, t), Arrived(smj, t) \o EndOfData}
        /\ \A u \in Tables : u # t => Arrived(k, u) = Arrived(smj, u)
    BY <2>1, <2>3, <2>4, AddTableInputSound
  <2> HIDE DEF k
  <2>6. \A u \in Tables : Arrived(k, u) = Arrived(smj, u)
    BY <2>4, <2>5
  <2>7. \E q \in Queries : JoinOf(k, q)
    BY <1>1, <2>5, SameJoin DEF Fed
  <2> QED
    BY <1>1, <2>5, <2>6, <2>7 DEF Fed, k
<1>3. CASE ~(~Finishes(t) /\ Resends(t))
  <2>1. k = smj
    BY <1>3 DEF Asked
  <2> QED
    BY <1>1, <2>1
<1> QED
  BY <1>2, <1>3

\* Sink: the rows are handed to the caller.
LEMMA SinkKeeps ==
  ASSUME IInv, NEW t \in Tables, Sink(t)
  PROVE  IInv'
<1> DEFINE j == Asked(t).join
           more == t = STREAMED /\ j.hasData
<1>1. input' = input /\ smj' = IF more THEN AfterOutput(j) ELSE j
  BY DEF Sink
<1>2. Fed(j, input)
  BY AskedFed
<1> HIDE DEF j
<1>3. CASE more
  <2>1. Running(j)
    BY <1>2, <1>3 DEF Fed, Sound, Over
  <2> DEFINE k == AfterOutput(j)
  <2>2. Sound(k) /\ Same(j, k) /\ \A u \in Tables : Arrived(k, u) = Arrived(j, u)
    BY <2>1, AfterOutputSound
  <2> HIDE DEF k
  <2>3. \E q \in Queries : JoinOf(k, q)
    BY <1>2, <2>2, SameJoin DEF Fed
  <2>4. Fed(k, input)
    BY <1>2, <2>2, <2>3 DEF Fed
  <2>5. Fed(smj', input')
    BY <1>1, <1>3, <2>4 DEF k
  <2> QED
    BY <2>5 DEF IInv, Fed, InputSorted
<1>4. CASE ~more
  <2>1. Fed(smj', input')
    BY <1>1, <1>2, <1>4
  <2> QED
    BY <2>1 DEF IInv, Fed, InputSorted
<1> QED
  BY <1>3, <1>4

\* Source: a batch for the table, or the end of its data.
LEMMA SourceKeeps ==
  ASSUME IInv, NEW t \in Tables, Source(t)
  PROVE  IInv'
<1> DEFINE j == Asked(t).join
           needs == NeedsInput(t, j, Asked(t).table)
           ends == needs /\ input[t] = <<>>
           new == IF ends THEN EndOfData ELSE Head(input[t])
           inp == IF needs /\ ~ends THEN [input EXCEPT ![t] = Tail(@)] ELSE input
           k == IF needs THEN AddTableInput(j, t, new) ELSE j
<1>1. input' = inp /\ smj' = k
  BY DEF Source
<1>2. Fed(j, input)
  BY AskedFed
<1>3. needs => j.flow = t
  BY DEF NeedsInput
<1> HIDE DEF j, needs
<1>4. CASE ~needs
  BY <1>1, <1>2, <1>4 DEF IInv, Fed, InputSorted
<1>5. CASE needs
  <2>1. Sound(j) /\ Running(j) /\ j.flow # FINISH
    BY <1>2, <1>3, <1>5, WaitsRuns DEF Fed
  <2>2. /\ EndOfData \in Seq(Int) /\ InOrder(EndOfData) /\ Behinds(Arrived(j, t), EndOfData)
        /\ Arrived(j, t) \in Seq(Int) /\ Arrived(j, t) \o EndOfData = Arrived(j, t)
    BY <2>1, EndComes
  <2>3. Coming(Arrived(j, t), input[t]) /\ input \in [Tables -> Seq(Seq(Int) \ {<<>>})]
    BY <1>2 DEF Fed
  <2>4. /\ new \in Seq(Int) /\ InOrder(new) /\ Behinds(Arrived(j, t), new)
        /\ Coming(Arrived(j, t), inp[t]) /\ Coming(Arrived(j, t) \o new, inp[t])
        /\ inp \in [Tables -> Seq(Seq(Int) \ {<<>>})] /\ \A u \in Tables : u # t => inp[u] = input[u]
    <3>1. CASE input[t] = <<>>
      <4>1. new = EndOfData /\ inp = input
        BY <1>5, <3>1
      <4> QED
        BY <2>2, <2>3, <4>1
    <3>2. CASE input[t] # <<>>
      <4>1. new = Head(input[t]) /\ inp = [input EXCEPT ![t] = Tail(input[t])]
        BY <1>5, <3>2
      <4>2. /\ new \in Seq(Int) /\ InOrder(new) /\ Behinds(Arrived(j, t), new)
            /\ Coming(Arrived(j, t), Tail(input[t])) /\ Coming(Arrived(j, t) \o new, Tail(input[t]))
        BY <2>2, <2>3, <3>2, <4>1, ComingHead
      <4>3. Tail(input[t]) \in Seq(Seq(Int) \ {<<>>})
        BY <4>2 DEF Coming
      <4> DEFINE rest == Tail(input[t])
                 S == Seq(Seq(Int) \ {<<>>})
      <4>4. inp = [input EXCEPT ![t] = rest] /\ rest \in S /\ input \in [Tables -> S]
        BY <2>3, <4>1, <4>3
      <4> HIDE DEF rest, S, inp, new
      <4>5. inp \in [Tables -> S] /\ inp[t] = rest /\ \A u \in Tables : u # t => inp[u] = input[u]
        BY <4>4
      <4> QED
        BY <4>2, <4>5 DEF rest, S
    <3> QED
      BY <3>1, <3>2
  <2>5. k = AddTableInput(j, t, new)
    BY <1>5
  <2> HIDE DEF new, inp, k
  <2>6. /\ Sound(k) /\ Same(j, k) /\ Arrived(k, t) \in {Arrived(j, t), Arrived(j, t) \o new}
        /\ \A u \in Tables : u # t => Arrived(k, u) = Arrived(j, u)
    BY <2>1, <2>4, <2>5, AddTableInputSound
  <2>7. \A u \in Tables : Coming(Arrived(k, u), inp[u])
    <3> TAKE u \in Tables
    <3>1. CASE u = t
      BY <2>4, <2>6, <3>1
    <3>2. CASE u # t
      BY <1>2, <2>4, <2>6, <3>2 DEF Fed
    <3> QED
      BY <3>1, <3>2
  <2>8. \E q \in Queries : JoinOf(k, q)
    BY <1>2, <2>6, SameJoin DEF Fed
  <2>9. Fed(k, inp)
    BY <2>4, <2>6, <2>7, <2>8 DEF Fed
  <2> QED
    BY <1>1, <2>9 DEF IInv, Fed, InputSorted
<1> QED
  BY <1>4, <1>5

\* A scanner before the first batch.
LEMMA NewScannerBetween ==
  ASSUME NEW type \in Types, NEW first \in BOOLEAN
  PROVE  LET z == NewScanner(type, first)
         IN  /\ Between(z) /\ z \in Scanner /\ z.type = type /\ z.found = <<>> /\ z.sc # DONE
             /\ Backed(z.B) /\ z.S.keys = <<>> /\ z.B.keys = <<>>
             /\ Listed(z, <<>>, 0, -1, -1)
<1> DEFINE z == NewScanner(type, first)
           none == <<>>
<1>1. /\ none = <<>> /\ none \in Seq(Int) /\ none \in Seq(Pair) /\ Len(none) = 0
  BY EmptySeq
<1>2. NoPages \in Pages /\ NoPages.keys = none /\ NoPages.batch = none /\ NoPages.batches = 0 /\ NoPages.freed = 0
  <2>1. NoPages = [keys |-> none, batch |-> none, batches |-> 0, freed |-> 0, finish |-> FALSE]
    BY DEF NoPages
  <2> HIDE DEF none
  <2> QED
    BY <1>1, <2>1 DEF Pages
<1>3. z = [type |-> type, first |-> first, S |-> NoPages, B |-> NoPages, sp |-> 0, bp |-> 1, ps |-> NoRow, pb |-> none,
           pbp |-> 1, sm |-> FALSE, bm |-> FALSE, last |-> FALSE, sc |-> INVALID, bc |-> INVALID,
           found |-> none, on |-> TRUE, cmp |-> 0]
  BY DEF NewScanner
<1> HIDE DEF none, z
<1>4. z \in Scanner
  BY <1>1, <1>2, <1>3 DEF Scanner, Codes, NoRow
<1>5. /\ z.type = type /\ z.S = NoPages /\ z.B = NoPages /\ z.sp = 0 /\ z.bp = 1 /\ z.ps = NoRow /\ z.pb = none
      /\ z.sc = INVALID /\ z.bc = INVALID /\ z.found = none
  BY <1>3
<1>6. Ordered(NoPages)
  BY <1>1, <1>2 DEF Ordered
<1>7. Placed(z)
  <2>1. InS(z)
    <3>1. 0 \in 0 .. Len(none)
      BY <1>1
    <3> QED
      BY <1>2, <1>5, <3>1 DEF InS
  <2>2. InB(z)
    BY <1>1, <1>2, <1>5 DEF InB
  <2> QED
    BY <1>4, <1>5, <1>6, <2>1, <2>2 DEF Placed
<1>8. Matched(z) /\ NullEnd(z) /\ ~PreKeyMatched(z)
  BY <1>1, <1>5 DEF Matched, NullEnd, PreKeyMatched
<1>9. Coded(z) /\ z.sc # DONE
  BY <1>5 DEF Coded, INVALID, DATA, DONE
<1>10. Between(z)
  BY <1>7, <1>8, <1>9 DEF Between
<1>11. Due(none, 0) = {}
  BY <1>1 DEF Due
<1>12. 1 .. Len(z.pb) = {}
  BY <1>1, <1>5
<1>13. Unfreed(z, -1)
  BY <1>2, <1>5, <1>12 DEF Unfreed
<1>14. Listed(z, none, 0, -1, -1)
  <2>1. 0 \in 0 .. Len(none) /\ -1 \in Int
    BY <1>1
  <2> QED
    BY <1>1, <1>11, <1>13, <2>1 DEF Listed
<1>15. Backed(z.B)
  BY <1>2, <1>5 DEF Backed
<1> QED
  BY <1>1, <1>2, <1>4, <1>5, <1>9, <1>10, <1>14, <1>15 DEF z

\* InitScannerAndResultBuilder.
LEMMA NewJoinSound ==
  ASSUME NEW type \in Types, NEW filtered \in BOOLEAN, NEW maxRowCount \in Nat \ {0}
  PROVE  LET j == NewJoin(type, filtered, maxRowCount)
         IN  /\ Sound(j) /\ j.filtered = filtered /\ j.scan.type = type /\ \A t \in Tables : Arrived(j, t) = <<>>
<1> DEFINE z == NewScanner(type, type \in {"semi", "anti"} /\ ~filtered)
           none == <<>>
           j == NewJoin(type, filtered, maxRowCount)
<1>1. /\ none = <<>> /\ none \in Seq(Pair) /\ none \in Seq(Int \X Int) /\ Len(none) = 0
  BY EmptySeq
<1>2. /\ Between(z) /\ z \in Scanner /\ z.type = type /\ z.found = <<>> /\ z.sc # DONE
      /\ Backed(z.B) /\ z.S.keys = <<>> /\ z.B.keys = <<>> /\ Listed(z, <<>>, 0, -1, -1)
  <2> DEFINE first == type \in {"semi", "anti"} /\ ~filtered
  <2>1. first \in BOOLEAN
    OBVIOUS
  <2> HIDE DEF first
  <2> QED
    BY <2>1, NewScannerBetween
<1>3. j = [scan |-> z, filtered |-> filtered, maxRowCount |-> maxRowCount, pairs |-> none, offset |-> 0, rows |-> none,
           prev |-> -1, out |-> FALSE, seen |-> FALSE, unmatched |-> -1,
           flow |-> BUFFERED, hasData |-> FALSE, return |-> none, stale |-> FALSE]
  BY DEF NewJoin, NoBatch
<1> HIDE DEF z, none, j
<1>4. j \in Joiner
  BY <1>1, <1>2, <1>3 DEF Joiner, Flows
<1>5. /\ j.scan = z /\ j.pairs = none /\ j.offset = 0 /\ j.prev = -1 /\ j.unmatched = -1 /\ j.rows = none /\ j.return = none
      /\ j.maxRowCount = maxRowCount /\ j.filtered = filtered /\ ~j.stale
  BY <1>3
<1>6. Built(j)
  BY <1>1, <1>2, <1>4, <1>5 DEF Built, Roomy
<1>7. Fit(j)
  BY <1>1, <1>5 DEF Fit, HasRoom
<1>8. Sound(j)
  BY <1>2, <1>4, <1>5, <1>6, <1>7 DEF Sound, Running
<1> QED
  BY <1>2, <1>5, <1>8 DEF Arrived, j

\* The invariant holds before the first poll.
LEMMA InitInvariant ==
  ASSUME \A q \in Queries : q.type # "full", Init
  PROVE  IInv
<1>1. PICK q \in Queries : input = [t \in Tables |-> q[t]] /\ smj = NewJoin(q.type, q.filtered, q.maxRowCount)
  BY DEF Init
<1>2. q.type \in Types /\ q.filtered \in BOOLEAN /\ q.maxRowCount \in Nat \ {0}
  BY JoinAssumption DEF Types
<1>3. \A t \in Tables : q[t] \in Seq(Seq(Int) \ {<<>>}) /\ Sorted(q[t])
  BY InputAssumption
<1>4. Sound(smj) /\ smj.filtered = q.filtered /\ smj.scan.type = q.type /\ \A t \in Tables : Arrived(smj, t) = <<>>
  BY <1>1, <1>2, NewJoinSound
<1>5. input \in [Tables -> Seq(Seq(Int) \ {<<>>})] /\ \A t \in Tables : input[t] = q[t]
  BY <1>1, <1>3
<1>6. ASSUME NEW t \in Tables PROVE Coming(Arrived(smj, t), input[t])
  <2> DEFINE none == <<>>
  <2>1. Len(none) = 0 /\ Arrived(smj, t) = none
    BY <1>4
  <2> HIDE DEF none
  <2>2. \A b : Behinds(none, b)
    BY <2>1 DEF Behinds
  <2> QED
    BY <1>3, <1>5, <2>1, <2>2 DEF Coming
<1>7. JoinOf(smj, q)
  BY <1>4 DEF JoinOf
<1> QED
  BY <1>4, <1>5, <1>6, <1>7 DEF IInv, InputSorted

\* Every step keeps it.
LEMMA StepInvariant ==
  ASSUME IInv, [Next]_vars
  PROVE  IInv'
<1>1. ASSUME UNCHANGED <<input, smj>> PROVE IInv'
  BY <1>1 DEF IInv, InputSorted
<1>2. ASSUME NEW t \in Tables, Poll(t) PROVE IInv'
  BY <1>1, <1>2 DEF Poll
<1>3. ASSUME NEW t \in Tables, Block(t) PROVE IInv'
  BY <1>1, <1>3 DEF Block
<1>4. ASSUME NEW t \in Tables, Sink(t) PROVE IInv'
  BY <1>4, SinkKeeps
<1>5. ASSUME NEW t \in Tables, Source(t) PROVE IInv'
  BY <1>5, SourceKeeps
<1>6. CASE UNCHANGED vars
  BY <1>1, <1>6 DEF vars
<1> QED
  BY <1>2, <1>3, <1>4, <1>5, <1>6 DEF Next

\* The join of sorted inputs is sound at every step, unless it is a full one.
THEOREM JoinIsSound ==
  ASSUME \A q \in Queries : q.type # "full"
  PROVE  Spec => []IInv
<1>1. Init => IInv
  BY InitInvariant
<1>2. IInv /\ [Next]_vars => IInv'
  BY StepInvariant
<1> QED
  BY <1>1, <1>2, PTL DEF Spec

\* The builder reads no row of a batch it has freed.
THEOREM FreesInTime ==
  ASSUME \A q \in Queries : q.type # "full"
  PROVE  Spec => []NothingFreedIsRead
<1>1. IInv => NothingFreedIsRead
  BY DEF IInv, Sound, NothingFreedIsRead
<1> QED
  BY <1>1, JoinIsSound, PTL

\* It writes no more rows to a batch than there is room for, unless a left join has a filter.
THEOREM BatchesAreFit ==
  ASSUME \A q \in Queries : q.type # "full" /\ ~(q.type = "left" /\ q.filtered)
  PROVE  Spec => []BatchesHaveRoom
<1>1. IInv => BatchesHaveRoom
  <2> SUFFICES ASSUME IInv PROVE BatchesHaveRoom
    OBVIOUS
  <2>1. PICK q \in Queries : JoinOf(smj, q)
    BY DEF IInv
  <2>2. NoPads(smj)
    BY <2>1 DEF JoinOf, NoPads
  <2>3. Len(smj.rows) < smj.maxRowCount /\ Len(smj.return) <= smj.maxRowCount
    BY <2>2 DEF IInv, Sound, Fit, HasRoom
  <2>4. Len(smj.rows) \in Nat /\ smj.maxRowCount \in Nat
    BY LenProperties DEF IInv, Sound, Joiner
  <2> QED
    BY <2>3, <2>4 DEF BatchesHaveRoom
<1>2. Spec => []IInv
  BY JoinIsSound
<1> QED
  BY <1>1, <1>2, PTL

=============================================================================
