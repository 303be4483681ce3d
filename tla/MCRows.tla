------------------------------- MODULE MCRows -------------------------------
(***************************************************************************)
(* Instances of RowOperators for TLC: rows of one or two partitions with   *)
(* few keys, every order of them, every limit and frame up to about their  *)
(* number.                                                                 *)
(***************************************************************************)
EXTENDS RowOperators

-----------------------------------------------------------------------------
(* The calls of the functions on dates: texts of dates that are well       *)
(* formed or nearly, days around the ends of years, of cycles of 400 years *)
(* and of the range, and seconds around the ends of days.                  *)

MCInt32Max == 4000000
MCMaxYear == 544000
MCMinYear == -543990
MCLeapYearOffset == 4000000
MCMinEpochSeconds == -1000000

DateConf(op, more) ==
  more @@ [kind |-> "text", op |-> op, forms |-> {"row", "batch"}, mode |-> "error",
           strict |-> FALSE, years |-> 4, timed |-> FALSE, fmt |-> "", policy |-> "",
           zoned |-> FALSE]

DateOnlyRow == [forms |-> {"row"}]

\* Levels as they are written, and what they mean.
Levels(mode) ==
  {<<"DAY", "invalid">>}
    \union IF mode = "error"
           THEN {<<"WEEK", "week">>, <<"MON", "month">>, <<"QUARTER", "quarter">>,
                 <<"YEAR", "year">>}
           ELSE {<<"MONTH", "month">>, <<"MM", "month">>, <<"YYYY", "year">>, <<"YY", "year">>}

UnixConfs ==
  {DateConf("to_unix", [timed |-> t, policy |-> p,
                        fmt |-> IF t THEN "%Y-%m-%d %H:%M:%S" ELSE "%Y-%m-%d"]) :
     t \in BOOLEAN, p \in {"exception", "corrected"}}
    \union {DateConf("from_unix", [timed |-> t,
                                   fmt |-> IF t THEN "%Y-%m-%d %H:%M:%S" ELSE "%Y-%m-%d"]) :
              t \in BOOLEAN}
    \* Only a row takes the letters of the other formats.
    \union {DateConf(op, [timed |-> t, fmt |-> IF t THEN "yyyy-MM-dd HH:mm:ss" ELSE "yyyy-MM-dd"]
                           @@ DateOnlyRow) : op \in {"to_unix", "from_unix"}, t \in BOOLEAN}

DateConfs ==
  {DateConf("to_date", [mode |-> mode]) : mode \in {"error", "null"}}
    \union {DateConf("to_date", [mode |-> mode, strict |-> TRUE, years |-> y,
                                 forms |-> IF y = 4 THEN {"batch"} ELSE {"row"}]) :
              mode \in {"error", "null"}, y \in {4, 5}}
    \union {DateConf(op, DateOnlyRow) : op \in {"from_date", "date_add", "date_diff"}}
    \union UNION {{DateConf("trunc", [level |-> l[1], meant |-> l[2], mode |-> mode]
                                       @@ DateOnlyRow) : l \in Levels(mode)} :
                    mode \in {"error", "null"}}
    \union {DateConf("add_days", DateOnlyRow)}
    \union {DateConf("hour", [zoned |-> z] @@ DateOnlyRow) : z \in BOOLEAN}
    \union {DateConf("from_millis", [zoned |-> z, timed |-> t,
                                     fmt |-> IF t THEN "%Y-%m-%d %H:%M:%S" ELSE "%Y-%m-%d"]
                                      @@ DateOnlyRow) : z \in BOOLEAN, t \in BOOLEAN}
    \union {DateConf("timestamp", [int |-> i] @@ DateOnlyRow) : i \in BOOLEAN}
    \union {DateConf("date_to_unix", <<>>)}
    \union UnixConfs

-----------------------------------------------------------------------------
DateRecord(s, n, m) == [args |-> <<s>>, nulls |-> {}, n |-> n, m |-> m]

Years == {<<57, 57, 57>>} \union
         {AppendDigits(y, 4) : y \in {0, 4, 1900, 1969, 1970, 2000, 2019, 2369, 2370, 9999,
                                      12922, MCMaxYear, MCMaxYear + 1, MCInt32Max + 1}}
Dashed(parts) == FlattenSeq([k \in DOMAIN parts |->
                               (IF k = 1 THEN <<>> ELSE <<Minus>>) \o parts[k]])

TwoDigitTexts(ns) == {AppendDigits(n, 2) : n \in ns} \union {<<49>>}

Bodies ==
  {Dashed(<<y>>) : y \in Years}
    \union {Dashed(<<y, m>>) : y \in Years, m \in TwoDigitTexts({0, 2, 12, 13})}
    \union {Dashed(<<y, m, d>>) : y \in Years, m \in TwoDigitTexts({0, 2, 4, 12}),
                                  d \in TwoDigitTexts({0, 28, 29, 30, 31})}

Odd == {Dashed(<<AppendDigits(2020, 4), <<48, 49, 49>>, <<49>>>>),
        Dashed(<<AppendDigits(2020, 4), <<49>>, <<50, 56, 49>>>>),
        Dashed(<<AppendDigits(2020, 4), <<>>>>), Dashed(<<AppendDigits(2020, 4), <<49>>, <<>>>>),
        <<>>, <<Space>>, <<Plus>>, <<Minus>>, <<Plus, Minus>> \o AppendDigits(2020, 4),
        <<50, 48, 84, 50>>, <<50, 48, 50, 48, Plus, 48, 49>>}

DateTexts ==
  Bodies \union Odd
    \union {before \o body \o after :
              before \in {<<>>, <<Minus>>, <<Plus>>, <<Space>>},
              after \in {<<>>, <<Space, Space>>, <<84>>, <<Space, 49>>, <<65>>},
              body \in {b \in Bodies : Len(b) \in 4 .. 11 /\ b[1] = 50}}

Days == (-400 .. 800) \union UNION {{c * 146097 + k : k \in -60 .. 60} : c \in {-5, -4, -1, 1, 3}}
          \union (MCInt32Max - 100 .. MCInt32Max)
          \union {-MCInt32Max - 1 + k : k \in 7 .. 100}

\* Texts of times: each of their parts at and beyond its ends.
TimeTexts(timed) ==
  LET dates == {Dashed(<<AppendDigits(y, 4), AppendDigits(m, 2), AppendDigits(d, 2)>>) :
                  y \in {1910, 1970, 2000, 2023}, m \in {0, 1, 2, 4, 12, 13},
                  d \in {0, 1, 28, 29, 30, 31, 32}}
                 \union {Dashed(<<AppendDigits(y, 4), <<48, 50>>, <<50, 57>>>>) :
                           y \in {100, 1500, 1581, 1700}}
      clock(h, m, s) == <<Space>> \o AppendDigits(h, 2) \o <<58>> \o AppendDigits(m, 2)
                          \o <<58>> \o AppendDigits(s, 2)
      some == Dashed(<<AppendDigits(2000, 4), <<48, 50>>, <<50, 57>>>>)
  IN  IF ~timed THEN dates
      ELSE {d \o clock(23, 59, 59) : d \in dates}
             \union {some \o clock(h, m, s) :
                       h \in {0, 23, 24}, m \in {0, 59, 60}, s \in {0, 59, 60}}

\* A digit that is none, and a text that is too short or too long.
Spoiled(s) == {[s EXCEPT ![i] = 120] : i \in {i \in DOMAIN s : IsDigit(s[i])}}
                \union {SubSeq(s, 1, Len(s) - 1), s \o <<48>>, <<>>}

DateRows(c) ==
  CASE c.op = "to_date" -> {DateRecord(s, 0, 0) : s \in DateTexts}
                             \union {[DateRecord(<<>>, 0, 0) EXCEPT !.nulls = {1}]}
    [] c.op = "trunc" /\ c.level = "DAY" -> {DateRecord(<<>>, 0, 0)}
    [] c.op \in {"from_date", "trunc"} -> {DateRecord(<<>>, n, 0) : n \in Days}
    [] c.op \in {"date_add", "date_diff"} ->
         {DateRecord(<<>>, n, m) : n \in {-40000, -1, 0, 18000}, m \in {-1, 0, 365}}
    [] c.op = "to_unix" ->
         {DateRecord(s, 0, 0) : s \in TimeTexts(c.timed) \union TimeTexts(~c.timed)}
           \union {DateRecord(s, 0, 0) :
                     s \in Spoiled(CHOOSE t \in TimeTexts(c.timed) : Len(t) > 0)}
    [] c.op = "date_to_unix" -> {DateRecord(<<>>, n, 0) : n \in {-20000, -1, 0, 1, 20000}}
    [] c.op = "hour" ->
         {DateRecord(<<>>, n, 0) :
            n \in {0, 10799, 10800, 259199, 259200, 5000000}
                    \union IF c.zoned THEN {-1, -2, -3, -86400, -86401, -259201} ELSE {}}
    [] c.op = "from_millis" ->
         {DateRecord(<<>>, d * 86400 * MillisPerSecond + k, 0) :
            d \in {-400, -1, 0, 1, 59}, k \in {-86401, -86400, -1, 0, 1, 2, 3, 172799, 172800}}
    [] c.op = "add_days" ->
         {DateRecord(<<>>, n, m) : n \in {-3000000, 0, 3000002, 2740802, 2740803},
                                  m \in {-1, 0, 1, 20}}
    [] c.op = "timestamp" ->
         {DateRecord(<<>>, n, m) : n \in {-3000001, -3000000, -1000001, -1000000, 0, 1000000,
                                          1000001, 3000002, 3000003}, m \in {0, 1, 3}}
    [] c.op = "from_unix" ->
         {DateRecord(<<>>, d * 86400 + k, 0) :
            d \in {-20000, -366, -1, 0, 365, 11016, 20000},
            k \in {-28801, -28800, -1, 0, 1, 57599, 57600, 61}}

-----------------------------------------------------------------------------
MCNull == 99
MCEmpty == 98
MCThrows == 97

Orders == [asc : BOOLEAN, nullFirst : BOOLEAN]

TopNConfs ==
  {[kind |-> "topn", limit |-> l, offset |-> o, maxRows |-> m, asc |-> d.asc,
    nullFirst |-> d.nullFirst] : l \in 1 .. 3, o \in 0 .. 2, m \in {1, 2}, d \in Orders}

GroupConfs ==
  {[kind |-> "group", limit |-> n, func |-> f, maxRows |-> 100, asc |-> d.asc,
    nullFirst |-> d.nullFirst] : n \in 1 .. 2, f \in {"rank", "row_number"}, d \in Orders}

DistinctConfs == {[kind |-> "distinct", limit |-> n] : n \in 1 .. 3}

Values == 0 .. 2

RowFrames ==
  {[type |-> "rows", start |-> s, startValue |-> v, end |-> e, endValue |-> w] :
     s \in {"unbounded_preceding", "preceding", "current", "following"},
     e \in {"preceding", "current", "following", "unbounded_following"},
     v \in Values, w \in Values}

\* A frame does not end in a kind of bound that lies before the one it starts in, and
\* the value of a bound without one is 0.
LegalFrame(f) ==
  /\ f.start = "current" => f.end # "preceding"
  /\ f.start = "following" => f.end \notin {"preceding", "current"}
  /\ f.start \in {"unbounded_preceding", "current"} => f.startValue = 0
  /\ f.end \in {"unbounded_following", "current"} => f.endValue = 0

RangeFrames ==
  [type : {"range"}, start : {"unbounded_preceding", "current"}, startValue : {0},
   end : {"current", "unbounded_following"}, endValue : {0}]

WindowConfs ==
  {[kind |-> "window", frame |-> f, maxRows |-> m, vecRows |-> 2, asc |-> TRUE,
    nullFirst |-> TRUE] : f \in {g \in RowFrames : LegalFrame(g)} \union RangeFrames, m \in {2}}

NestLoopConfs ==
  [kind : {"nestloop"}, join : {"INNER", "LEFT"}, filter : BOOLEAN, maxRows : 1 .. 4]

\* Only the lookup operator orders its columns by the plan; an existence join has one
\* batch of output for one of input; a gather takes rows of one table.
HashJoinConfs ==
  {c \in [kind : {"hashjoin"}, join : {"INNER", "OPPOSITE", "SAME", "FULL", "LEFT_SEMI",
                                       "LEFT_ANTI", "EXISTENCE"},
          filter : BOOLEAN, keys : {"int", "byte", "other", "pair"}, tables : {1, 2},
          dictionary : BOOLEAN, probeDictionary : BOOLEAN, gathers : BOOLEAN,
          buildLeft : BOOLEAN, outputList : {<<>>, <<3, 1, 2>>, <<2, 1, 3>>, <<1, 2, 3>>},
          maxRows : {2, 5}] :
     /\ c.keys # "int" => ~c.dictionary /\ ~c.probeDictionary
     /\ ~c.dictionary \/ ~c.probeDictionary
     /\ c.tables = 2 => c.keys \in {"int", "pair"} /\ ~c.gathers /\ ~c.dictionary
                          /\ ~c.probeDictionary
     /\ c.join = "EXISTENCE" => c.maxRows = 5
     /\ c.join \in {"LEFT_SEMI", "LEFT_ANTI", "EXISTENCE"} => ~c.gathers /\ ~c.buildLeft
     /\ c.outputList # <<>> => /\ c.join \in {"INNER", "OPPOSITE"} /\ c.keys = "other"
                                /\ ~c.filter /\ ~c.gathers /\ c.maxRows = 5
     /\ c.gathers => c.filter \/ c.keys = "int"
     /\ c.maxRows = 5 <=> c.keys \in {"byte", "other"} \/ c.join = "EXISTENCE"
     /\ c.buildLeft => c.keys = "other" /\ c.filter}

\* A partial sum that overflows is lost where an overflow is a null, unless it is one of
\* decimals; TRY_SUM never throws.
AggregateConfs ==
  {c \in [kind : {"aggregate"}, use : {"all", "filter", "mask"}, asNull : BOOLEAN,
          agg : {"sum", "sum_varchar", "avg", "avg_varchar", "sum_flat", "try_sum", "avg_flat",
                 "sum_decimal", "avg_decimal", "min", "max", "min_text", "count", "count_all",
                 "first", "first_ignore_null"}] :
     /\ c.asNull => c.agg = "sum_decimal"
     /\ c.agg \in {"first", "first_ignore_null"} => c.use = "all"}

MCLog2Plus1 == 0 :> 0 @@ 1 :> 4 @@ 2 :> 7 @@ 3 :> 10

Values64 == {-9, -5, -4, -1, 0, 1, 3, 5, 8, 9}
Values128 == {-9999, -1234, -95, -50, -5, -1, 0, 1, 4, 7, 45, 99, 150, 4999, 9999}
ValuesOf(w) == IF w = 64 THEN Values64 ELSE Values128

\* The widths there are functions for.
Widths(op) ==
  {w \in [xw : {64, 128}, yw : {64, 128}, ow : {64, 128}] :
     CASE op = "other" -> w.xw = w.yw /\ w.yw = w.ow
       [] op = "mod"   -> {w.xw, w.yw} # {64} \/ w.ow = 64
       [] op = "div"   -> w.ow = 64 => {w.xw, w.yw} # {128}
       [] OTHER        -> w.ow = 64 => {w.xw, w.yw} = {64}}

Scales(w) == IF w = 64 THEN {0, 1} ELSE {0, 1, 3}

\* Without a scale the result has the one that loses nothing.  A product does not gain
\* places, and of two Decimal128 loses at most MAX_SCALE; a dividend in an int64 gains few;
\* a remainder does not gain places, nor lose any where it is a Decimal64.
LegalScales(c) ==
  /\ c.ow = 64 => c.os <= 1
  /\ c.mode = "not" /\ c.op = "mul" => c.os = c.xs + c.ys
  /\ c.op = "mod" => c.os <= Larger(c.xs, c.ys)
  /\ c.op = "mod" /\ c.ow = 64 => c.os = Larger(c.xs, c.ys)
  /\ c.mode = "not" /\ c.op \in {"add", "sub", "mod"} => c.os = Larger(c.xs, c.ys)
  /\ c.op = "mul" => Factor(c) >= 0 /\ (c.xw # c.yw \/ RoundsUp(c))
  /\ c.op = "div" => c.os - c.xs + c.ys \in IF Working(c) = 64 THEN 0 .. 1 ELSE -3 .. 5

DecimalConf(op, mode, w, xs, ys, os) ==
  [kind |-> "decimal", op |-> op, mode |-> mode, xw |-> w.xw, yw |-> w.yw, ow |-> w.ow,
   xs |-> xs, ys |-> ys, os |-> os,
   prec |-> IF w.ow = 64 THEN 1 ELSE IF mode = "null" /\ op # "greatest" THEN 3 ELSE 4]

ArithmeticConfs ==
  {c \in UNION {{DecimalConf(op, mode, w, xs, ys, os) :
                   mode \in {"rescale", "not", "null"}, os \in 0 .. 3,
                   w \in Widths(op), xs \in 0 .. 3, ys \in 0 .. 3} :
                 op \in {"add", "sub", "mul", "div", "mod"}} :
     c.xs \in Scales(c.xw) /\ c.ys \in Scales(c.yw) /\ LegalScales(c)}

OtherConfs ==
  {c \in {DecimalConf(op, mode, w, xs, ys, Larger(xs, ys)) :
            op \in {"compare", "greatest", "round", "make"}, mode \in {"rescale", "null"},
            w \in Widths("other"), xs \in 0 .. 3, ys \in 0 .. 3} :
     /\ c.xs \in Scales(c.xw) /\ c.ys \in Scales(c.yw)
     /\ c.op \in {"round", "make"} => c.ys = 0
     /\ c.op = "make" => c.xw = 64 /\ c.xs = 0
     /\ c.op = "compare" => c.mode = "rescale"}

\* The operand whose overflow, brought to the larger scale, is not looked at fits; in a
\* comparison both do.
FitsLargerScale(c, r) ==
  LET m == Larger(c.xs, c.ys)
      x == Abs(r.x) * 10^(m - c.xs) <= MostOf(c)
      y == Abs(r.y) * 10^(m - c.ys) <= MostOf(c)
  IN  CASE c.op = "add" -> IF c.xw > c.yw THEN x ELSE y
        [] c.op = "sub" -> y
        [] c.op \in {"compare", "greatest"} -> x /\ y
        [] OTHER -> TRUE

\* No negative Decimal128 is read as an int64, and a product of two Decimal128 that is
\* rounded to the result fits before.
Representable(c, r) ==
  /\ c.op = "div" /\ KeepsWide(c) /\ c.mode # "null" => r.x * r.y >= 0
  /\ c.op = "mod" /\ {c.xw, c.yw} = {128} /\ c.ow = 64 /\ c.mode # "null" => r.x >= 0
  /\ c.op = "mul" /\ {c.xw, c.yw} = {128} /\ c.mode = "rescale" /\ Factor(c) > 0 =>
       Abs(r.x * r.y) <= Decimal128Max

\* What a null row holds does no harm where it is looked at.
HarmlessNull(c, r) ==
  CASE c.op = "greatest" -> FALSE
    [] c.mode = "null"   -> TRUE
    [] c.op \in {"add", "sub"} -> r.x = 0 /\ r.y = 0 /\ c.os - c.ys < c.prec
    [] c.op = "div"      -> r.y # 0
    [] OTHER             -> TRUE

DecimalRows(c) ==
  CASE c.op = "round" ->
         {r \in [x : ValuesOf(c.xw), y : -1 .. 3, null : BOOLEAN] :
            /\ c.xs - r.y <= IF c.xw = 64 THEN 1 ELSE 3
            /\ c.mode = "null" /\ c.xw = 128 => r.y = 0}
    [] c.op = "make" -> [x : -63 .. 63, y : {0}, null : {FALSE}] \union
                        [x : {0, 5}, y : {0}, null : {TRUE}]
    [] OTHER ->
         {r \in [x : ValuesOf(c.xw), y : ValuesOf(c.yw), null : BOOLEAN] :
            /\ r.null => r.x \in {0, 1, 99} /\ r.y \in {0, 1, 5, 45} /\ HarmlessNull(c, r)
            /\ FitsLargerScale(c, r) /\ Representable(c, r)}

Field(col) == [op |-> "field", args |-> <<>>, col |-> col]
Number(n) == [op |-> "literal", args |-> <<>>, value |-> Val(n, FALSE)]
NoNumber == [op |-> "literal", args |-> <<>>, value |-> Val(3, TRUE)]
Node(op, args) == [op |-> op, args |-> args]

b == Field("b")
x == Field("x")
y == Field("y")

Truths == {b, Field("c"), Node("lt", <<x, y>>), Node("isnull", <<x>>)}
Formulas ==
  Truths \union {Node("not", <<e>>) : e \in Truths}
    \union {Node(op, <<e, f>>) : op \in Logical, e \in Truths, f \in Truths}
DeepFormulas ==
  UNION {{Node(op, <<e, f>>), Node(op, <<f, e>>)} :
           op \in Logical, e \in Formulas, f \in Truths \union {Node("not", <<t>>) : t \in Truths}}

Numbers ==
  {x, NoNumber, Node("div", <<x, Number(0)>>)} \union {Node(op, <<x, y>>) : op \in Arithmetic}
Conditions == {b, Node("ne", <<y, Number(0)>>), Node("lt", <<x, y>>)}
DeepNumbers ==
  {Node("if", <<c, e, f>>) : c \in Conditions, e \in Numbers, f \in {y, NoNumber}}
    \union {Node("switch", <<c, x, d, f, y>>) :
              c \in Conditions, d \in Conditions, f \in {NoNumber, Node("div", <<x, y>>)}}
    \union {Node("coalesce", <<e, y>>) : e \in Numbers}
    \union {Node(op, <<e, f>>) :
              op \in {"add", "mod", "try_mul"}, e \in Numbers, f \in {Number(5), y}}
Tests ==
  {Node(op, <<e, y>>) :
     op \in Comparisons, e \in {x, Node("div", <<x, y>>), Node("add", <<x, y>>)}}
    \union {Node("isnull", <<e>>) : e \in Numbers}
    \union {Node("between", <<e, f, Number(5)>>) :
              e \in {x, Node("add", <<x, y>>)}, f \in {y, Number(-5)}}
    \union {Node("in", <<e, y, Number(2)>>) : e \in {x, Node("add", <<x, x>>)}}

RECURSIVE Uses(_, _)
Uses(e, ops) == e.op \in ops \/ \E i \in DOMAIN e.args : Uses(e.args[i], ops)

ConfUses(c, ops) == Uses(c.project, ops) \/ (c.filter # <<>> /\ Uses(c.filter[1], ops))

AllExpressionConfs ==
  [kind : {"expression"}, batch : BOOLEAN, filter : {<<>>},
   project : Formulas \union DeepFormulas \union Numbers \union DeepNumbers \union Tests]
  \union
  [kind : {"expression"}, batch : BOOLEAN,
   filter : {<<e>> : e \in Conditions \union {Node("not", <<t>>) : t \in Tests}},
   project : {y, Node("div", <<x, y>>)}]
  \union
  [kind : {"expression"}, batch : BOOLEAN, filter : {<<e>> : e \in Formulas}, project : {b}]

\* A batch has no TRY functions.
ExpressionConfs ==
  {c \in AllExpressionConfs : c.batch => ~ConfUses(c, {"try_add", "try_sub", "try_mul"})}

Truth(i) == Val(i % 2 = 0, i >= 2)
Shorts  == <<Val(0, FALSE), Val(7, FALSE), Val(0, TRUE), Val(7, TRUE)>>
Longs   == <<Val(-64, FALSE), Val(-5, FALSE), Val(0, FALSE), Val(2, FALSE), Val(0, TRUE),
             Val(63, TRUE)>>

LogicRows ==
  [i \in 1 .. 64 |-> [b |-> Truth(i % 4), c |-> Truth((i \div 4) % 4),
                      x |-> Shorts[1 + ((i \div 16) % 4)], y |-> Val(2, FALSE)]]
NumberRows ==
  [i \in 1 .. 108 |-> [b |-> Truth(i % 3), c |-> Val(TRUE, FALSE),
                       x |-> Longs[1 + ((i \div 3) % 6)], y |-> Longs[1 + ((i \div 18) % 6)]]]

\* One batch, or one for each row where a row may end the query.  The bounds of a BETWEEN
\* are not null, nor in a batch the operands of an IN.
ExpressionRows(c) ==
  LET logic == ~ConfUses(c, Arithmetic \union {"ne", "between", "in", "coalesce", "if"})
      rows  == SelectSeq(IF logic THEN LogicRows ELSE NumberRows,
                         LAMBDA r :
                           /\ ConfUses(c, {"between"}) => ~r.y.null
                           /\ ConfUses(c, {"in"}) /\ c.batch => ~r.x.null /\ ~r.y.null)
  IN  IF c.batch /\ ConfUses(c, {"div", "mod"}) THEN {<<r>> : r \in ToSet(rows)} ELSE {rows}

SortConf(cols, alone, threshold, small) ==
  [kind |-> "sort", cols |-> cols, alone |-> alone, threshold |-> threshold, small |-> small]

Column(type, order) == [type |-> type, asc |-> order.asc, nullFirst |-> order.nullFirst]

NullsLast(asc) == [asc |-> asc, nullFirst |-> FALSE]

\* One column by vector instructions, with networks of 4 or of 16 rows; one by one; two
\* columns; in place; by radix.
VectorConfs  ==
  {SortConf(<<Column("long", NullsLast(a))>>, FALSE, -1, s) : a \in BOOLEAN, s \in {4, 16}}
ScalarConfs  == {SortConf(<<Column("varchar", NullsLast(a))>>, TRUE, -1, 2) : a \in BOOLEAN}
ColumnsConfs ==
  {SortConf(<<Column("long", o), Column(t, NullsLast(~o.asc))>>, FALSE, -1, 4) :
     o \in Orders, t \in {"varchar", "int", "array"}}
InplaceConfs == {SortConf(<<Column("long", o)>>, TRUE, -1, 4) : o \in Orders}
RadixConfs   ==
  {SortConf(<<Column(t, o)>>, FALSE, 0, 4) :
     t \in {"long", "int"}, o \in {d \in Orders : d.asc = d.nullFirst}}

SortConfs ==
  VectorConfs \union ScalarConfs \union ColumnsConfs \union InplaceConfs \union RadixConfs

OneColumn(keys) == [i \in DOMAIN keys |-> [keys |-> <<keys[i]>>, under |-> 0]]

Sequences(keys, lengths) == UNION {[1 .. n -> keys] : n \in lengths}

\* Longer ones, for several partitions, and for the networks, which sort everything if they
\* sort keys of two values.
Strides(lengths, modulus) ==
  UNION {{[i \in 1 .. n |-> (k * i + (i * i) \div 5) % m] : k \in 1 .. 7, m \in 2 .. modulus} :
           n \in lengths}
Halves(lengths) ==
  UNION {{[i \in 1 .. n |-> IF (k * i) % 17 < t THEN 1 ELSE 2] : k \in 1 .. 8, t \in 1 .. 16} :
           n \in lengths}

RadixRow(key) == [keys |-> <<key>>, under |-> IF key = Null THEN 21 ELSE key]

\* A piece sorted by its first byte whose rows are all in the last bucket is not sorted by
\* the bytes that remain, nor are LONGs that are all zero.
LeavesNoBucket(c, rows) ==
  LET filled == RadixRows(c, rows)
      width  == RadixValueWidth(c, rows)
      Piece(k, byte) == {j \in DOMAIN filled : filled[j].value \div DigitValues^(byte + 1) =
                                               filled[k].value \div DigitValues^(byte + 1)}
  IN  /\ width > 0
      /\ \A byte \in 1 .. width - 1, k \in DOMAIN filled :
           Cardinality(Piece(k, byte)) > (IF byte = width - 1 THEN 1 ELSE MSDThreshold) =>
             \E j \in Piece(k, byte) : Bucket(c, filled[j], byte) # DigitValues - 1

RadixInputs(c) ==
  LET inputs == IF c.cols[1].type = "long" THEN Sequences({1, 5, 6, 9, 22}, 1 .. 5)
                                           ELSE Sequences({-9, 0, 5, 6, Null}, 1 .. 4)
  IN  {rows \in {[i \in DOMAIN s |-> RadixRow(s[i])] : s \in inputs} : LeavesNoBucket(c, rows)}

ColumnInputs(c) ==
  CASE CanInplaceSort(c) -> Sequences({1, 2, Null}, 1 .. 4)
    [] c.alone           -> Sequences(1 .. 3, 3 .. 6) \union Strides(7 .. 9, 4)
    [] c.small = 4       -> Sequences(1 .. 3, 5 .. 6) \union Strides(7 .. 11, 5)
    [] OTHER             -> Sequences(1 .. 2, 1 .. 7) \union Halves(9 .. 16)

SortInputs(c) ==
  CASE c.threshold = 0 -> RadixInputs(c)
    [] Len(c.cols) = 2 -> {[i \in DOMAIN s |-> [keys |-> s[i], under |-> 0]] :
                             s \in Sequences({1, 2, Null} \X {1, 2, Null}, 1 .. 3)}
    [] OTHER           -> {OneColumn(keys) : keys \in ColumnInputs(c)}

\* Small positive INTs in descending order.
MCRadixConfs == {SortConf(<<Column("int", [asc |-> FALSE, nullFirst |-> FALSE])>>, FALSE, 0, 4)}
MCRadixRows(c) == {[i \in DOMAIN s |-> RadixRow(s[i])] : s \in Sequences(0 .. 3, 1 .. 5)}

\* The keys of the build side, in their batches.
BuildKeys ==
  {<<>>, <<<<1>>, <<2, 1>>>>, <<<<2, 2, 2>>, <<2>>>>, <<<<1, 9>>>>, <<<<Null>>, <<1, Null>>>>,
   <<<<1, 2>>, <<2, 1>>, <<9>>>>}

\* The rows of a key of two columns have more of them, and in a join that keeps its build
\* side no null.
MCBuildsOf(c) ==
  {[i \in DOMAIN batches |-> [j \in DOMAIN batches[i] |->
      [part |-> IF c.keys = "pair" /\ j = 2 THEN 2 ELSE 1, key |-> batches[i][j],
       id |-> 10 * i + j]]] :
     batches \in {k \in BuildKeys :
       c.join = "SAME" /\ c.keys = "pair" => \A keys \in ToSet(k) : Null \notin ToSet(keys)}}

-----------------------------------------------------------------------------
(* JSON.                                                                   *)

Scalar(text) == Doc("scalar", text, [k \in {} |-> 0])
JsonNull     == Doc("null", "", [k \in {} |-> 0])

\* Keys with the characters a path is made of.
OddKeys == {<<"a">>, <<"'">>, <<"\\">>, <<"]", ".">>, <<"a", "\"", " ">>}

\* "first" and "second" are of one length, "slashed" is none but for its repair.
MCParsed(text) ==
  CASE text = "first" ->
         <<Doc("object", "", (<<"a">> :> Scalar("1"))
              @@ (<<"b">> :> Doc("array", "", <<"0">> :> Scalar("7"))))>>
    [] text = "second" ->
         <<Doc("object", "", (<<"a">> :> JsonNull)
              @@ (<<"b">> :> Doc("object", "", <<"0">> :> Scalar("8"))))>>
    [] text = "repaired" -> <<Doc("object", "", <<"a">> :> Scalar("3"))>>
    [] text = "odd" ->
         <<Doc("object", "", [k \in OddKeys |-> Doc("object", "", [l \in OddKeys |-> Scalar(<<k, l>>)])])>>
    [] OTHER -> <<>>
MCRepaired(text) == IF text = "slashed" THEN "repaired" ELSE text
MCJsonLength(text) == CASE text \in {"first", "second"} -> 1 [] text \in {"slashed", "repaired"} -> 2 [] OTHER -> 3

LaxPath(text, keys) == [text |-> text, keys |-> keys, mode |-> "lax"]
PathA == LaxPath(<<"$", ".", "a">>, <<<<"a">>>>)
PathB0 == LaxPath(<<"$", ".", "b", "[", "0", "]">>, <<<<"b">>, <<"0">>>>)
PathB == LaxPath(<<"$", "[", "'", "b", "'", "]">>, <<<<"b">>>>)
Strict(path) == [path EXCEPT !.text = <<" ", "strict", " ">> \o @, !.mode = "strict"]
Whole == LaxPath(<<"lax", " ", "$", " ">>, <<>>)

\* A key in quotes of either kind.
Quoted(key, quote) ==
  <<"[", quote>>
    \o FlattenSeq([i \in DOMAIN key |-> IF key[i] \in {quote, "\\"} THEN <<"\\", key[i]>>
                                                                  ELSE <<key[i]>>])
    \o <<quote, "]">>
OddPaths ==
  {LaxPath(<<"$">> \o Quoted(k, q) \o <<" ">> \o Quoted(l, r), <<k, l>>) :
     k \in OddKeys, l \in OddKeys, q \in {"'", "\""}, r \in {"'", "\""}}

Shape(fn, empty, error, wrapper, constant) ==
  [fn |-> fn, empty |-> empty, error |-> error, wrapper |-> wrapper, constant |-> constant,
   null |-> FALSE, emptyDefault |-> IF empty = 2 THEN <<"none">> ELSE <<>>,
   errorDefault |-> IF error = 2 THEN <<"wrong">> ELSE <<>>]

JsonConf(shapes, texts, addresses, paths, literals, contexts) ==
  [kind |-> "json", shapes |-> shapes, texts |-> texts, addresses |-> addresses, paths |-> paths,
   literals |-> literals, contexts |-> contexts]

JsonConfs ==
  {JsonConf({Shape("value", 0, 0, 0, TRUE), Shape("extended", 2, 1, 0, FALSE)},
            {"first", "slashed"}, {1, 2}, {PathA, PathB0}, {1}, {1}),
   JsonConf({Shape("value", 0, 0, 0, TRUE), [Shape("extended", 0, 2, 0, TRUE) EXCEPT !.null = TRUE],
             Shape("extended", 1, 2, 0, TRUE)},
            {"first", "second", "broken"}, {1}, {PathA, PathB}, {1}, {1, 2})}
  \union
  {JsonConf({Shape("query", e, 3 - e, w, w = 0), Shape("query", e, 3 - e, 1, TRUE)},
            {"second", "broken"}, {1}, paths, {1, 2}, {1}) :
     e \in {0, 1}, w \in {0, 2, 3}, paths \in {{PathB, Whole}, {PathA, Strict(PathB0)}}}
  \union
  {JsonConf({Shape("value", 0, 0, 0, c)}, {"odd"}, {1}, {path}, {1}, {1}) :
     path \in OddPaths, c \in BOOLEAN}

-----------------------------------------------------------------------------
(* Functions on texts: of a few characters of one, two or three bytes, and *)
(* some longer than a word of eight bytes.                                 *)

CharA == <<97>>
CharB == <<98>>
Blank == <<Space>>
CharE == <<195, 169>>
CharHan == <<228, 184, 173>>

TextsOf(chars, n) == {FlattenSeq(t) : t \in UNION {[1 .. k -> chars] : k \in 0 .. n}}
Times(n, t) == FlattenSeq([i \in 1 .. n |-> t])

LongTexts == {Times(4, CharA \o CharE) \o CharA, Times(6, CharE), Times(9, CharA) \o CharE,
              Times(4, CharHan) \o Times(6, CharA)}

TextConf(op, more) ==
  more @@ [kind |-> "text", op |-> op, forms |-> {"row", "batch"}, char |-> FALSE, width |-> 0]

RowOnly == [forms |-> {"row"}]

\* In a batch, a place so far before the beginning that the part ends there has a length
\* of less than none, which only a row takes care of.
SubstrConfs ==
  UNION {{TextConf("substr", [zero |-> z, negative |-> n, beyond |-> FALSE]),
          TextConf("substr", [zero |-> z, negative |-> TRUE, beyond |-> TRUE] @@ RowOnly),
          TextConf("substr_from", [zero |-> z, negative |-> n])} : z \in BOOLEAN, n \in BOOLEAN}

TextConfs ==
  SubstrConfs
    \union {TextConf(op, <<>>) : op \in {"split", "upper", "lower", "length", "concat", "contains",
                                       "starts", "ends", "count", "greatest", "empty_to_null",
                                       "char_read"}}
    \union {TextConf(op, RowOnly) : op \in {"substring_index", "concat_ws", "least", "char_check"}}
    \union {TextConf(op, [char |-> TRUE, width |-> 3]) : op \in {"length", "concat"}}
    \union {TextConf("replace", [replaceEmpty |-> e]) : e \in BOOLEAN}
    \union {TextConf("cast", [width |-> 3])}
    \union {TextConf("compare", [order |-> o]) : o \in Comparisons}
    \* The batch gives the place of a byte, and never what has been trimmed.
    \union {TextConf(op, [all |-> FALSE]) : op \in {"instr", "varchar_check"}}
    \union {TextConf(op, [all |-> TRUE] @@ RowOnly) : op \in {"instr", "varchar_check"}}
    \union {TextConf("like", [pattern |-> {CharA \o CharE, CharB}]),
            TextConf("like", [char |-> TRUE, width |-> 3,
                              pattern |-> {CharA \o Blank \o Blank, CharE \o CharA \o Blank}]),
            TextConf("rlike", [pattern |-> {CharA \o CharA, CharE}] @@ RowOnly),
            TextConf("extract", [pattern |-> {CharA \o CharB}] @@ RowOnly)}

TextArgs(args, n, m) == [args |-> args, nulls |-> {}, n |-> n, m |-> m]

\* Rows with one text, or with two or three, and each of them null.
With1(texts, ns, ms) == {TextArgs(<<s>>, n, m) : s \in texts, n \in ns, m \in ms}
With2(texts, others, ns) == {TextArgs(<<s, t>>, n, 0) : s \in texts, t \in others, n \in ns}
OrNulls(rows) ==
  rows \union UNION {{[r EXCEPT !.nulls = nulls] : nulls \in SUBSET DOMAIN r.args \ {{}}} :
                       r \in {r \in rows : r.args[1] = CharA}}

Short == TextsOf({CharA, CharE}, 3)

\* The part lies before the text.
IsBeyond(c, r) ==
  c.negative /\ r.n < 0 /\ r.m > 0 /\ r.n + NumChars(r.args[1]) + r.m < 0

SubstrRows(c) ==
  {r \in With1(Short, -6 .. 5, -1 .. 4) \union With1(LongTexts, -10 .. 12, {1, 4, 8, 11}) :
     IsBeyond(c, r) = c.beyond}

\* No rest of a text that is removed may join to what is searched for.
ReplaceRows ==
  {TextArgs(<<s, t, new>>, 0, 0) :
     s \in Short \union {Times(2, CharA \o CharA \o CharB)}, t \in TextsOf({CharA, CharE}, 2),
     new \in {CharA, CharE, CharA \o CharA}}
    \union {TextArgs(<<s, t, <<>>>>, 0, 0) :
               s \in Short, t \in {<<>>, CharA, CharE, CharA \o CharA}}

\* The text without its delimiter at the beginning or the end: no copy of nothing.
IndexRows ==
  {r \in With2(TextsOf({CharA, CharB}, 5), {CharA, CharA \o CharA, CharB \o CharA}, -3 .. 3) :
     /\ r.args[1] # <<>>
     /\ ~IsPrefix(r.args[2], r.args[1]) /\ ~IsSuffix(r.args[2], r.args[1])}

\* The separator and up to five texts, any of them null.
JoinArgs == <<CharB, CharA, CharE, <<>>, CharA \o CharA, CharHan>>
WsRows ==
  UNION {{[TextArgs(SubSeq(JoinArgs, 1, k), 0, 0) EXCEPT !.nulls = nulls] :
             nulls \in SUBSET (1 .. k)} : k \in 1 .. 6}

CheckRows(lo) ==
  {r \in With1(TextsOf({CharA, Blank, CharE}, 4), 1 .. 5, {0}) : Len(r.args[1]) >= lo}

\* A text that fits, or ends in no blank.
NeedsNoTrim(r) ==
  NumChars(r.args[1]) <= r.n \/ r.args[1][Len(r.args[1])] # Space

Cases == TextsOf({<<byte>> : byte \in {64, 65, 90, 91, 96, 97, 122, 123}}, 1) \union Short

TextRows(c) ==
  LET pairs == With2(TextsOf({CharA, CharB, CharE}, 2), TextsOf({CharA, CharB, CharE}, 2), {0})
  IN  CASE c.op = "substr"      -> SubstrRows(c)
        [] c.op = "substr_from" -> With1(Short \union LongTexts, -8 .. 12, {0})
        [] c.op = "split"       ->
             OrNulls(With2(TextsOf({CharA, CharB, CharE}, 3), {CharB}, -1 .. 3))
        [] c.op = "substring_index" -> IndexRows
        [] c.op = "replace"     -> OrNulls(ReplaceRows)
        [] c.op \in {"upper", "lower", "empty_to_null"} -> OrNulls(With1(Cases, {0}, {0}))
        [] c.op = "length"      -> With1(Short \union LongTexts, {0}, {0})
        [] c.op = "concat"      -> OrNulls(With2(Short, Short, {0}))
        [] c.op = "concat_ws"   -> WsRows
        [] c.op \in {"greatest", "least"} ->
             {[r EXCEPT !.nulls = nulls] : r \in pairs, nulls \in SUBSET {1, 2}}
        [] c.op = "compare"     -> pairs
        [] c.op = "contains"    ->
             OrNulls(With2(TextsOf({CharA, CharB}, 5), TextsOf({CharA, CharB}, 4), {0}))
        [] c.op \in {"starts", "ends"} -> With2(Short, TextsOf({CharA, CharE}, 2), {0})
        [] c.op = "count"       -> With2(Short, {CharA}, {0})
        [] c.op = "instr"       ->
             LET other == IF c.all THEN CharE ELSE CharB
             IN  With2(TextsOf({CharA, other}, 3), TextsOf({CharA, other}, 2), {0})
        [] c.op = "cast"        -> With1(Short, 0 .. 4, {0})
        [] c.op = "varchar_check" -> {r \in CheckRows(0) : c.all \/ NeedsNoTrim(r)}
        [] c.op = "char_check"  -> CheckRows(1)
        [] c.op = "char_read"   -> CheckRows(0)
        [] c.op \in {"like", "rlike"} -> With1(Short, {0}, {0})
        [] c.op = "extract"     -> With1(TextsOf({CharA, CharB}, 4), {0}, {0})

MCConfs ==
  TopNConfs \union GroupConfs \union DistinctConfs \union WindowConfs \union NestLoopConfs
    \union HashJoinConfs
    \union AggregateConfs \union ArithmeticConfs \union OtherConfs
    \union ExpressionConfs \union SortConfs \union JsonConfs \union TextConfs \union DateConfs

MCRowsOf(c) ==
  CASE c.kind \in {"topn", "distinct"} -> [part : {1}, key : {1, 2, Null}]
    [] c.kind = "group" -> [part : {1}, key : {1, 2, Null}] \union {[part |-> 2, key |-> 1]}
    [] c.kind = "nestloop"            -> [part : {1}, key : {1, 2, Null}]
    [] c.kind = "hashjoin" ->
         [part : {1}, key : {1, 2, Null}]
           \union (IF c.keys = "pair" THEN {[part |-> 2, key |-> 2]} ELSE {})
    [] c.kind = "decimal"             -> DecimalRows(c)
    [] c.kind = "expression"          -> ExpressionRows(c)
    [] c.kind = "sort"                -> SortInputs(c)
    [] c.kind = "text" -> IF c.op \in DateOps THEN DateRows(c) ELSE TextRows(c)
    [] c.kind = "aggregate" ->
         [part : {1}, key : IF c.agg = "try_sum" THEN {1, Null} ELSE {-1, 3, Null}]
           \union (IF c.use = "all" THEN {} ELSE {[part |-> 2, key |-> 3]})
    [] OTHER                          -> [part : {1, 2}, key : {1, 2}]

MCMaxRows(c) == CASE c.kind = "group" -> 5 [] c.kind \in {"nestloop", "hashjoin", "aggregate"} -> 3 [] OTHER -> 4

\* Batches of several rows matter to a DistinctLimit, a join, and a window that spills.
MCBatchRows(c) ==
  CASE c.kind \in {"nestloop", "hashjoin"} -> 3 [] c.kind \in {"distinct", "window"} -> 2 [] OTHER -> 1
=============================================================================
