------------------------------ MODULE Decimals ------------------------------
(***************************************************************************)
(* Arithmetic on decimals of 18 digits in an int64 and of 38 digits with a *)
(* sign beside a uint128, and the functions of an expression that call it: *)
(* one for a row at a time, one for a batch, each to the scale of its      *)
(* result, without a scale, and with an overflow that makes a null.  A     *)
(* value is the unscaled integer; few digits stand for 18 and 38.          *)
(***************************************************************************)
EXTENDS Integers

CONSTANTS
  Digits64,    \* of the precision of a Decimal64: 18
  Digits128,   \* of that of a Decimal128 and of a scale: 38
  Int64Max,    \* 2^63 - 1
  Int64Bits,   \* 64
  Uint128Max,  \* 2^128 - 1
  Log2Plus1    \* floor(log2(10^k)) + 1, and 0 for k = 0

ASSUME DecimalWidths ==
  /\ 10^Digits64 <= Int64Max /\ Int64Max = 2^(Int64Bits - 1) - 1
  /\ 10^Digits128 <= Uint128Max

MAX_SCALE == Digits128
Decimal128Max == 10^Digits128 - 1

Abs(n) == IF n < 0 THEN -n ELSE n
Larger(m, n) == IF m < n THEN n ELSE m

\* Divisions of C, and away from zero at half.
Quo(n, d) == IF (n < 0) = (d < 0) THEN Abs(n) \div Abs(d) ELSE -(Abs(n) \div Abs(d))
Rem(n, d) == n - d * Quo(n, d)
HalfUp(n, d) ==
  LET q == Abs(n) \div Abs(d) + IF 2 * (Abs(n) % Abs(d)) >= Abs(d) THEN 1 ELSE 0
  IN  IF (n < 0) = (d < 0) THEN q ELSE -q

Int64(n) == ((n + Int64Max + 1) % (2 * (Int64Max + 1))) - Int64Max - 1

\* x in a variable of w bits: an operand is a Decimal128 unless both and the result are 64.
Dec(w, val, scale) == [w |-> w, val |-> val, scale |-> scale, status |-> "success"]
SetScale(d, scale) == [d EXCEPT !.scale = scale]
Failed(w, val, status) == [w |-> w, val |-> val, scale |-> 0, status |-> status]

\* A sum or product n: a Decimal64 keeps the wrapped number beside the overflow.
Result64(n) ==
  IF Abs(n) <= Int64Max \/ n = -Int64Max - 1 THEN Dec(64, n, 0)
  ELSE Failed(64, Int64(n), "overflow")
Result128(n, max) == IF Abs(n) <= max THEN Dec(128, n, 0) ELSE Failed(128, 0, "overflow")

Add64(x, y) == IF x.status = "overflow" THEN Failed(64, 0, "overflow") ELSE Result64(x.val + y.val)
Add128(x, y) == IF x.status = "overflow" THEN x ELSE Result128(x.val + y.val, Uint128Max)
Sub64(x, y) == IF x.status = "overflow" THEN Failed(64, 0, "overflow") ELSE Result64(x.val - y.val)
Sub128(x, y) == IF x.status = "overflow" THEN x ELSE Result128(x.val - y.val, Uint128Max)
Mul64(x, y) == IF x.status = "overflow" THEN x ELSE Result64(x.val * y.val)
Mul128(x, y) == IF x.status = "overflow" THEN x ELSE Result128(x.val * y.val, Decimal128Max)

DecimalAdd(x, y) == IF x.w = 64 THEN Add64(x, y) ELSE Add128(x, y)
DecimalSub(x, y) == IF x.w = 64 THEN Sub64(x, y) ELSE Sub128(x, y)
Multiply(x, y) == IF x.w = 64 THEN Mul64(x, y) ELSE Mul128(x, y)

\* Mutant: the rest is cut.
MultiplyCut(x, y, factor) ==
  IF x.status = "overflow" THEN x
  ELSE IF Abs(x.val * y.val) \div 10^factor > Decimal128Max THEN Failed(128, 0, "overflow")
  ELSE Dec(128, Quo(x.val * y.val, 10^factor), 0)

\* Only the quotient before it is rounded is checked, and y is taken to be there.
MultiplyRoundUp(x, y, factor) ==
  IF x.status = "overflow" THEN x
  ELSE IF Abs(x.val * y.val) \div 10^factor > Decimal128Max THEN Failed(128, 0, "overflow")
  ELSE Dec(128, HalfUp(x.val * y.val, 10^factor), 0)

ReScaleUpBy(d, k) == Multiply(d, Dec(d.w, 10^k, 0))

ReScale64(d, newScale) ==
  CASE newScale = d.scale             -> d
    [] d.scale - newScale > MAX_SCALE -> [d EXCEPT !.val = 0]
    [] newScale < d.scale             -> [d EXCEPT !.val = HalfUp(@, 10^(d.scale - newScale))]
    [] OTHER                          -> ReScaleUpBy(d, newScale - d.scale)

ReScale128(d, newScale) ==
  CASE newScale = d.scale \/ d.status # "success" -> d
    [] d.scale - newScale > MAX_SCALE -> [d EXCEPT !.val = 0]
    [] newScale < d.scale ->
         SetScale([d EXCEPT !.val = HalfUp(@, 10^(d.scale - newScale))], newScale)
    [] OTHER -> SetScale(ReScaleUpBy(d, newScale - d.scale), newScale)

ReScale(d, newScale) == IF d.w = 64 THEN ReScale64(d, newScale) ELSE ReScale128(d, newScale)

\* A dividend in twice the bits, which is not checked.
Wide(d, newScale) ==
  IF newScale >= d.scale THEN d.val * 10^(newScale - d.scale)
  ELSE HalfUp(d.val, 10^(d.scale - newScale))

BitsOf(n) == CHOOSE b \in 0 .. Int64Bits : 2^b > n /\ (b = 0 \/ 2^(b - 1) <= n)

Divide64(x, y, factor) ==
  IF x.status = "overflow" THEN x
  ELSE IF y.val = 0 THEN Failed(64, 0, "zero")
  ELSE IF BitsOf(Abs(x.val)) + Log2Plus1[factor] < Int64Bits
       THEN Dec(64, HalfUp(x.val * 10^factor, y.val), 0)
  ELSE IF Abs(HalfUp(Wide(x, factor + x.scale), y.val)) > Decimal128Max
       THEN Failed(64, 0, "overflow")
  ELSE Dec(64, Int64(HalfUp(Wide(x, factor + x.scale), y.val)), 0)

Divide128(x, y, factor) ==
  IF x.status = "overflow" THEN x
  ELSE IF y.val = 0 THEN Failed(128, 0, "zero")
  ELSE Result128(HalfUp(Wide(x, factor + x.scale), y.val), Decimal128Max)

Mod64(x, y) ==
  LET m == Larger(x.scale, y.scale) IN
  IF x.status = "overflow" THEN x
  ELSE IF y.val = 0 THEN Failed(64, 0, "zero")
  ELSE Dec(64, Int64(Rem(Wide(x, m), Wide(y, m))), m)

Mod128(x, y) ==
  LET m == Larger(x.scale, y.scale) IN
  IF y.val = 0 THEN Failed(128, 0, "zero") ELSE Dec(128, Rem(Wide(x, m), Wide(y, m)), m)

Compare64(x, y) ==
  LET m == Larger(x.scale, y.scale)
      d == Sub64(ReScale(x, m), ReScale(y, m)).val
  IN  IF d > 0 THEN 1 ELSE IF d = 0 THEN 0 ELSE -1

SignOf(n) == IF n > 0 THEN 1 ELSE IF n = 0 THEN 0 ELSE -1

Compare128(x, y) ==
  LET m == Larger(x.scale, y.scale) IN
  IF SignOf(x.val) # SignOf(y.val) THEN (IF SignOf(x.val) > SignOf(y.val) THEN 1 ELSE -1)
  ELSE SignOf(Sub128(ReScale(x, m), ReScale(y, m)).val)

CompareDecimals(x, y) == IF x.w = 64 THEN Compare64(x, y) ELSE Compare128(x, y)

\* A Decimal64 of a Decimal128.
Narrow(d) ==
  IF d.status # "success" \/ Abs(d.val) > Decimal128Max \/ Abs(d.val) > 10^Digits64 - 1
  THEN Failed(64, 0, "overflow") ELSE Dec(64, d.val, d.scale)

AtLarger(op(_, _), x, y) ==
  LET m == Larger(x.scale, y.scale) IN SetScale(op(ReScale(x, m), ReScale(y, m)), m)

InternalAdd(x, y) == AtLarger(DecimalAdd, x, y)
InternalSubtract(x, y) == AtLarger(DecimalSub, x, y)

\* To the scale of the result after the operation, or where twice the scale could be too
\* much, of the operands before it.
AddWithResultScale(x, y, scale) ==
  IF scale > Larger(x.scale, y.scale) \/ 2 * Larger(x.scale, y.scale) <= MAX_SCALE
  THEN ReScale(InternalAdd(x, y), scale)
  ELSE SetScale(DecimalAdd(ReScale(x, scale), ReScale(y, scale)), scale)

SubtractWithResultScale(x, y, scale) ==
  IF scale > Larger(x.scale, y.scale) \/ 2 * Larger(x.scale, y.scale) <= MAX_SCALE
  THEN ReScale(InternalSubtract(x, y), scale)
  ELSE SetScale(DecimalSub(ReScale(x, scale), ReScale(y, scale)), scale)

InternalMultiply(x, y) == SetScale(Multiply(x, y), x.scale + y.scale)

InternalDivide(x, y, scale) ==
  SetScale(IF x.w = 64 THEN Divide64(x, y, scale - x.scale + y.scale)
           ELSE Divide128(x, y, scale - x.scale + y.scale), scale)

InternalMod(x, y) ==
  SetScale(IF x.w = 64 THEN Mod64(x, y) ELSE Mod128(x, y), Larger(x.scale, y.scale))

\* To `round` places: half is added before the rest is cut.
Round(d, round) ==
  LET k == d.scale - round
      half == Dec(d.w, 10^k \div 2, 0)
      cut == Quo((IF d.val < 0 THEN DecimalSub(d, half) ELSE DecimalAdd(d, half)).val, 10^k)
  IN  CASE k <= 0            -> d
        [] k > Digits128 - 1 -> [d EXCEPT !.val = 0]
        [] OTHER -> Dec(d.w, IF round < 0 THEN cut * 10^(-round) ELSE cut, 0)

IsUnscaledLongOverflow(n, precision) ==
  IF Abs(n) >= 10^Digits64 THEN precision <= Digits64 ELSE Abs(n) >= 10^precision
-----------------------------------------------------------------------------
(* What a function makes of a row [x, y, null] (null: an operand is): a    *)
(* value, a null, or an error, which ends the query.  In a batch a null    *)
(* row keeps whatever its data are.  c: op, mode, widths xw, yw, ow of the *)
(* operands and the result, their scales xs, ys, os, precision prec.       *)

ANumber(n) == [val |-> n, null |-> FALSE, err |-> FALSE]
ANull == [val |-> 0, null |-> TRUE, err |-> FALSE]
AnError == [val |-> 0, null |-> FALSE, err |-> TRUE]

Working(c) == IF {c.xw, c.yw, c.ow} = {64} THEN 64 ELSE 128
X(c, r) == Dec(Working(c), r.x, c.xs)
Y(c, r) == Dec(Working(c), r.y, c.ys)

\* An addition of a Decimal128 and a Decimal64 takes the latter first.
Narrower(c, r) == IF c.xw > c.yw THEN Y(c, r) ELSE X(c, r)
Wider(c, r) == IF c.xw > c.yw THEN X(c, r) ELSE Y(c, r)

TooLarge(c, d) == Abs(d.val) >= 10^c.prec \/ d.status # "success"

\* CHECK_OVERFLOW_RETURN and CHECK_OVERFLOW_RETURN_NULL.
OrError(c, d) == IF TooLarge(c, d) THEN AnError ELSE ANumber(d.val)
OrNull(c, d) == IF TooLarge(c, d) THEN ANull ELSE ANumber(d.val)

\* The operands are replaced where one is null.
RowOperands(r) == IF r.null THEN [r EXCEPT !.x = 0, !.y = 1] ELSE r

\* The low bits of a negative Decimal128, read as an int64, negated.
LowBits(o) == [o EXCEPT !.val = Abs(@)]
KeepsWide(c) == c.xw # c.yw /\ c.ow = 64
ToWidth(c, d) == IF c.ow = 64 /\ d.w = 128 THEN Narrow(d) ELSE d

RowAddReScale(c, r) == OrError(c, AddWithResultScale(Narrower(c, r), Wider(c, r), c.os))
RowSubReScale(c, r) == OrError(c, SubtractWithResultScale(X(c, r), Y(c, r), c.os))

Both64(c) == c.xw = 64 /\ c.yw = 64
Factor(c) == c.xs + c.ys - c.os
RoundsUp(c) == Factor(c) \in 0 .. MAX_SCALE

RowMulReScale(c, r) ==
  OrError(c, IF Both64(c) \/ (c.xw # c.yw /\ ~RoundsUp(c))
             THEN ReScale(InternalMultiply(X(c, r), Y(c, r)), c.os)
             ELSE MultiplyRoundUp(X(c, r), Y(c, r), Factor(c)))

RowDivReScale(c, r) ==
  LET o == OrError(c, ReScale(InternalDivide(X(c, r), Y(c, r), c.os), c.os))
  IN  IF r.y = 0 THEN AnError ELSE IF KeepsWide(c) THEN LowBits(o) ELSE o

RowModReScale(c, r) ==
  IF r.y = 0 THEN AnError
  ELSE IF c.xw = 128 /\ c.yw = 128 /\ c.ow = 64
       THEN LowBits(OrError(c, ReScale(InternalMod(X(c, r), Y(c, r)), c.os)))
  ELSE OrError(c, ReScale(ToWidth(c, InternalMod(X(c, r), Y(c, r))), c.os))

RowAddNotReScale(c, r) == OrError(c, InternalAdd(Narrower(c, r), Wider(c, r)))
RowSubNotReScale(c, r) == OrError(c, InternalSubtract(X(c, r), Y(c, r)))

RowMulNotReScale(c, r) ==
  OrError(c, IF c.xw # c.yw /\ RoundsUp(c) THEN MultiplyRoundUp(X(c, r), Y(c, r), Factor(c))
             ELSE InternalMultiply(X(c, r), Y(c, r)))

RowDivNotReScale(c, r) ==
  LET o == OrError(c, InternalDivide(X(c, r), Y(c, r), c.os))
  IN  IF r.y = 0 THEN AnError ELSE IF KeepsWide(c) THEN LowBits(o) ELSE o

RowModNotReScale(c, r) ==
  IF r.y = 0 THEN AnError
  ELSE IF c.xw = 128 /\ c.yw = 128 /\ c.ow = 64
       THEN LowBits(OrError(c, InternalMod(X(c, r), Y(c, r))))
  ELSE OrError(c, ToWidth(c, InternalMod(X(c, r), Y(c, r))))

RowAddRetNull(c, r) == OrNull(c, AddWithResultScale(Narrower(c, r), Wider(c, r), c.os))
RowSubRetNull(c, r) == OrNull(c, SubtractWithResultScale(X(c, r), Y(c, r), c.os))

RowMulRetNull(c, r) ==
  OrNull(c, IF Both64(c) \/ (c.xw # c.yw /\ ~RoundsUp(c))
            THEN ReScale(InternalMultiply(X(c, r), Y(c, r)), c.os)
            ELSE MultiplyRoundUp(X(c, r), Y(c, r), Factor(c)))

RowDivRetNull(c, r) == OrNull(c, ReScale(ToWidth(c, InternalDivide(X(c, r), Y(c, r), c.os)), c.os))
RowModRetNull(c, r) == OrNull(c, ReScale(ToWidth(c, InternalMod(X(c, r), Y(c, r))), c.os))

RowCompare(c, r) == ANumber(CompareDecimals(X(c, r), Y(c, r)))

\* y: the places to round to.  RoundDecimal128RetNull rounds to 0 places.
RowRound(c, r) ==
  IF c.mode = "null" THEN OrNull(c, Round(X(c, r), IF c.xw = 128 THEN 0 ELSE r.y))
  ELSE IF r.null THEN ANull ELSE OrError(c, Round(X(c, r), r.y))

RowMakeDecimal(c, r) ==
  IF ~IsUnscaledLongOverflow(r.x, c.prec) THEN ANumber(r.x)
  ELSE IF c.mode = "null" THEN ANull ELSE AnError

\* The greater of two decimals, at the scale of the result where the types differ.
Chosen(c, picksY, r) ==
  IF c.xs = c.ys THEN ANumber(IF picksY THEN r.y ELSE r.x)
  ELSE LET d == ReScale(IF picksY THEN Y(c, r) ELSE X(c, r), c.os)
       IN  IF c.mode = "null" THEN OrNull(c, d) ELSE OrError(c, d)

RowGreatest64(c, r) == Chosen(c, Compare64(X(c, r), Y(c, r)) < 0, r)
RowGreatest128(c, r) == Chosen(c, Compare128(X(c, r), Y(c, r)) < 0, r)

RowFunction(c, r) ==
  CASE c.op = "compare" -> RowCompare(c, r)
    [] c.op = "round"   -> RowRound(c, r)
    [] c.op = "make"    -> RowMakeDecimal(c, r)
    [] c.op = "greatest" /\ c.xw = 64  -> RowGreatest64(c, r)
    [] c.op = "greatest" /\ c.xw = 128 -> RowGreatest128(c, r)
    [] c.mode = "rescale" /\ c.op = "add" -> RowAddReScale(c, RowOperands(r))
    [] c.mode = "rescale" /\ c.op = "sub" -> RowSubReScale(c, RowOperands(r))
    [] c.mode = "rescale" /\ c.op = "mul" -> RowMulReScale(c, RowOperands(r))
    [] c.mode = "rescale" /\ c.op = "div" -> RowDivReScale(c, RowOperands(r))
    [] c.mode = "rescale" /\ c.op = "mod" -> RowModReScale(c, RowOperands(r))
    [] c.mode = "not" /\ c.op = "add" -> RowAddNotReScale(c, RowOperands(r))
    [] c.mode = "not" /\ c.op = "sub" -> RowSubNotReScale(c, RowOperands(r))
    [] c.mode = "not" /\ c.op = "mul" -> RowMulNotReScale(c, RowOperands(r))
    [] c.mode = "not" /\ c.op = "div" -> RowDivNotReScale(c, RowOperands(r))
    [] c.mode = "not" /\ c.op = "mod" -> RowModNotReScale(c, RowOperands(r))
    [] c.mode = "null" /\ c.op = "add" -> RowAddRetNull(c, RowOperands(r))
    [] c.mode = "null" /\ c.op = "sub" -> RowSubRetNull(c, RowOperands(r))
    [] c.mode = "null" /\ c.op = "mul" -> RowMulRetNull(c, RowOperands(r))
    [] c.mode = "null" /\ c.op = "div" -> RowDivRetNull(c, RowOperands(r))
    [] c.mode = "null" /\ c.op = "mod" -> RowModRetNull(c, RowOperands(r))

\* In a batch an addition does not ask for nulls, a division asks after the zero divisor,
\* and where an overflow is a null the function does not see the nulls of the operands.
BatchAddReScale(c, r) == OrError(c, AddWithResultScale(Narrower(c, r), Wider(c, r), c.os))
BatchSubReScale(c, r) == OrError(c, SubtractWithResultScale(X(c, r), Y(c, r), c.os))

BatchMulReScale(c, r) ==
  IF r.null THEN ANull
  ELSE OrError(c, IF c.xw # c.yw /\ RoundsUp(c) THEN MultiplyRoundUp(X(c, r), Y(c, r), Factor(c))
                  ELSE ReScale(InternalMultiply(X(c, r), Y(c, r)), c.os))

BatchDivReScale(c, r) ==
  IF r.y = 0 THEN AnError
  ELSE IF r.null THEN ANull
  ELSE OrError(c, ReScale(ToWidth(c, InternalDivide(X(c, r), Y(c, r), c.os)), c.os))

BatchModReScale(c, r) ==
  IF r.null THEN ANull
  ELSE IF r.y = 0 THEN AnError
  ELSE OrError(c, ReScale(ToWidth(c, InternalMod(X(c, r), Y(c, r))), c.os))

BatchAddNotReScale(c, r) == OrError(c, InternalAdd(Narrower(c, r), Wider(c, r)))
BatchSubNotReScale(c, r) == OrError(c, InternalSubtract(X(c, r), Y(c, r)))

BatchMulNotReScale(c, r) ==
  IF r.null THEN ANull
  ELSE OrError(c, IF c.xw # c.yw /\ RoundsUp(c) THEN MultiplyRoundUp(X(c, r), Y(c, r), Factor(c))
                  ELSE InternalMultiply(X(c, r), Y(c, r)))

BatchDivNotReScale(c, r) ==
  IF r.y = 0 THEN AnError
  ELSE IF r.null THEN ANull
  ELSE OrError(c, ToWidth(c, InternalDivide(X(c, r), Y(c, r), c.os)))

BatchModNotReScale(c, r) ==
  IF r.null THEN ANull
  ELSE IF r.y = 0 THEN AnError
  ELSE OrError(c, ToWidth(c, InternalMod(X(c, r), Y(c, r))))

BatchAddRetNull(c, r) == OrNull(c, AddWithResultScale(Narrower(c, r), Wider(c, r), c.os))
BatchSubRetNull(c, r) == OrNull(c, SubtractWithResultScale(X(c, r), Y(c, r), c.os))

BatchMulRetNull(c, r) ==
  OrNull(c, IF Both64(c) \/ (c.xw # c.yw /\ ~RoundsUp(c))
            THEN ReScale(InternalMultiply(X(c, r), Y(c, r)), c.os)
            ELSE MultiplyRoundUp(X(c, r), Y(c, r), Factor(c)))

BatchDivRetNull(c, r) ==
  OrNull(c, ReScale(ToWidth(c, InternalDivide(X(c, r), Y(c, r), c.os)), c.os))
BatchModRetNull(c, r) == OrNull(c, ReScale(ToWidth(c, InternalMod(X(c, r), Y(c, r))), c.os))

BatchCompare(c, r) == ANumber(CompareDecimals(X(c, r), Y(c, r)))

BatchRound(c, r) ==
  IF c.mode = "null" THEN OrNull(c, Round(X(c, r), r.y))
  ELSE IF r.null THEN ANull ELSE OrError(c, Round(X(c, r), r.y))

BatchMakeDecimal(c, r) ==
  IF c.mode = "null"
  THEN IF IsUnscaledLongOverflow(r.x, c.prec) THEN ANull ELSE ANumber(r.x)
  ELSE IF r.null THEN ANull
  ELSE IF IsUnscaledLongOverflow(r.x, c.prec) THEN AnError ELSE ANumber(r.x)

BatchGreatest64(c, r) == Chosen(c, Compare64(X(c, r), Y(c, r)) < 0, r)
BatchGreatest128(c, r) == Chosen(c, Compare128(X(c, r), Y(c, r)) < 0, r)

BatchFunction(c, r) ==
  CASE c.op = "compare" -> BatchCompare(c, r)
    [] c.op = "round"   -> BatchRound(c, r)
    [] c.op = "make"    -> BatchMakeDecimal(c, r)
    [] c.op = "greatest" /\ c.xw = 64  -> BatchGreatest64(c, r)
    [] c.op = "greatest" /\ c.xw = 128 -> BatchGreatest128(c, r)
    [] c.mode = "rescale" /\ c.op = "add" -> BatchAddReScale(c, r)
    [] c.mode = "rescale" /\ c.op = "sub" -> BatchSubReScale(c, r)
    [] c.mode = "rescale" /\ c.op = "mul" -> BatchMulReScale(c, r)
    [] c.mode = "rescale" /\ c.op = "div" -> BatchDivReScale(c, r)
    [] c.mode = "rescale" /\ c.op = "mod" -> BatchModReScale(c, r)
    [] c.mode = "not" /\ c.op = "add" -> BatchAddNotReScale(c, r)
    [] c.mode = "not" /\ c.op = "sub" -> BatchSubNotReScale(c, r)
    [] c.mode = "not" /\ c.op = "mul" -> BatchMulNotReScale(c, r)
    [] c.mode = "not" /\ c.op = "div" -> BatchDivNotReScale(c, r)
    [] c.mode = "not" /\ c.op = "mod" -> BatchModNotReScale(c, r)
    [] c.mode = "null" /\ c.op = "add" -> BatchAddRetNull(c, r)
    [] c.mode = "null" /\ c.op = "sub" -> BatchSubRetNull(c, r)
    [] c.mode = "null" /\ c.op = "mul" -> BatchMulRetNull(c, r)
    [] c.mode = "null" /\ c.op = "div" -> BatchDivRetNull(c, r)
    [] c.mode = "null" /\ c.op = "mod" -> BatchModRetNull(c, r)

\* A null operand makes the result null, beside what the function says.
OrNullOperand(r, o) == IF r.null /\ ~o.err THEN ANull ELSE o

EvaluateRow(c, r) == OrNullOperand(r, RowFunction(c, r))
EvaluateBatch(c, r) == OrNullOperand(r, BatchFunction(c, r))
=============================================================================
