---------------------------- MODULE Expressions ----------------------------
(***************************************************************************)
(* Expressions of booleans and integers as the generated code evaluates    *)
(* them: for one row at a time, where a branch is run when it is taken, or *)
(* for a batch, where every branch is run for every row.  A value is what  *)
(* lies in the data array, its null flag and whether an error was set: the *)
(* data of a null are whatever was there, and are looked at.  A node has   *)
(* its operator and arguments; those of a switch are each condition and    *)
(* its result, then the result otherwise.                                  *)
(***************************************************************************)
EXTENDS Decimals, Sequences, SequencesExt

Val(data, null) == [data |-> data, null |-> null, err |-> FALSE]

Logical    == {"and", "or"}
Comparisons == {"lt", "le", "gt", "ge", "eq", "ne"}
Arithmetic == {"add", "sub", "mul", "div", "mod", "try_add", "try_sub", "try_mul"}

Compares(op, x, y) ==
  CASE op = "lt" -> x < y  [] op = "le" -> x <= y [] op = "gt" -> x > y
    [] op = "ge" -> x >= y [] op = "eq" -> x = y  [] op = "ne" -> x # y

\* The number before it is put into a variable.
Computed(op, x, y) ==
  CASE op \in {"add", "try_add"} -> x + y
    [] op \in {"sub", "try_sub"} -> x - y
    [] op \in {"mul", "try_mul"} -> x * y
    [] op = "div" -> Quo(x, y)
    [] op = "mod" -> Rem(x, y)

\* A condition holds, in a filter, IF or CASE.
Holds(v) == v.data /\ ~v.null

-----------------------------------------------------------------------------
(* For a row.                                                              *)

RowAnd(l, r) ==
  Val(l.data /\ r.data, \/ l.null /\ r.null
                        \/ l.null /\ r.data
                        \/ r.null /\ l.data)

RowOr(l, r) ==
  Val(l.data \/ r.data, \/ l.null /\ r.null
                        \/ l.null /\ ~r.data
                        \/ r.null /\ ~l.data)

RowNot(v) == [v EXCEPT !.data = ~@]

RowComparison(op, l, r) ==
  Val(~(l.null \/ r.null) /\ Compares(op, l.data, r.data), l.null \/ r.null)

\* Of a null on either side the operands are 0 and 1.
Operands(l, r) == IF l.null \/ r.null THEN <<0, 1>> ELSE <<l.data, r.data>>

\* The functions set the null flag of the result.
RowFunctionOf(op, x, y) ==
  CASE op \in {"div", "mod"} /\ y = 0 -> Val(0, TRUE)
    [] op \in {"try_add", "try_sub", "try_mul"} ->
         Val(Int64(Computed(op, x, y)), Computed(op, x, y) \notin -Int64Max - 1 .. Int64Max)
    [] OTHER -> Val(Int64(Computed(op, x, y)), FALSE)

RowArithmetic(op, l, r) ==
  LET o == Operands(l, r)
      v == RowFunctionOf(op, o[1], o[2])
  IN  [v EXCEPT !.null = @ \/ l.null \/ r.null]

RowBetween(v, low, up) ==
  LET null == v.null \/ low.null \/ up.null
  IN  Val(~null /\ low.data <= v.data /\ v.data <= up.data, null)

\* The arguments are compared in turn until one is equal.
RowIn(v, list) ==
  IF \E i \in DOMAIN list : ~v.null /\ ~list[i].null /\ v.data = list[i].data
  THEN Val(TRUE, v.null)
  ELSE Val(FALSE, v.null \/ \E i \in DOMAIN list : list[i].null)

IsNull(v) == [v EXCEPT !.data = v.null, !.null = FALSE]

RowCoalesce(v, w) == IF v.null THEN w ELSE v

RowIf(c, t, f) == IF Holds(c) THEN t ELSE f

\* The result of the first condition that holds.
RowSwitch(vals) ==
  LET holding == SelectSeq([i \in 1 .. Len(vals) \div 2 |-> i], LAMBDA i : Holds(vals[2 * i - 1]))
  IN  IF holding = <<>> THEN vals[Len(vals)] ELSE vals[2 * holding[1]]

RowBinary(op, l, r) ==
  CASE op = "and" -> RowAnd(l, r)
    [] op = "or"  -> RowOr(l, r)
    [] op \in Comparisons -> RowComparison(op, l, r)
    [] OTHER -> RowArithmetic(op, l, r)

RECURSIVE RowValue(_, _)
RowValue(e, row) ==
  LET v == [i \in DOMAIN e.args |-> RowValue(e.args[i], row)]
  IN  CASE e.op = "field"    -> row[e.col]
        [] e.op = "literal"  -> e.value
        [] e.op = "not"      -> RowNot(v[1])
        [] e.op = "isnull"   -> IsNull(v[1])
        [] e.op = "if"       -> RowIf(v[1], v[2], v[3])
        [] e.op = "switch"   -> RowSwitch(v)
        [] e.op = "coalesce" -> RowCoalesce(v[1], v[2])
        [] e.op = "between"  -> RowBetween(v[1], v[2], v[3])
        [] e.op = "in"       -> RowIn(v[1], Tail(v))
        [] OTHER             -> RowBinary(e.op, v[1], v[2])

-----------------------------------------------------------------------------
(* For a row of a batch: the functions run over whole columns, the result  *)
(* in the column of the first operand.                                     *)

BatchAnd(l, r) ==
  [l EXCEPT !.data = @ /\ r.data,
            !.null = \/ @ /\ r.null
                     \/ @ /\ r.data
                     \/ l.data /\ r.null]

\* Mutant: the data of the left operand are overwritten before its nulls are computed.
BatchOrInPlace(l, r) ==
  [l EXCEPT !.data = @ \/ r.data,
            !.null = \/ @ /\ r.null
                     \/ @ /\ ~r.data
                     \/ r.null /\ ~(l.data \/ r.data)]

BatchOr(l, r) ==
  [l EXCEPT !.data = @ \/ r.data,
            !.null = \/ @ /\ r.null
                     \/ @ /\ ~r.data
                     \/ r.null /\ ~l.data]

BatchNot(v) == [v EXCEPT !.data = ~@]

\* The data of nulls are compared and computed with too, but not divided.
BatchFunctionOf(op, x, y, null) ==
  IF op \in {"div", "mod"} /\ null THEN [data |-> x, err |-> FALSE]
  ELSE IF op \in {"div", "mod"} /\ y = 0 THEN [data |-> x, err |-> TRUE]
  ELSE [data |-> Int64(Computed(op, x, y)), err |-> FALSE]

BatchIntLong(op, l, r) ==
  LET null == l.null \/ r.null
  IN  IF op \in Comparisons THEN Val(Compares(op, l.data, r.data), null)
      ELSE LET f == BatchFunctionOf(op, l.data, r.data, null)
           IN  [data |-> f.data, null |-> null, err |-> f.err]

BatchBetween(v, low, up) ==
  Val(low.data <= v.data /\ v.data <= up.data, low.null \/ v.null \/ up.null)

\* Never null.
BatchIn(v, list) ==
  Val(\E i \in DOMAIN list : ~v.null /\ ~list[i].null /\ v.data = list[i].data, FALSE)

BatchCoalesce(v, w) == IF v.null THEN w ELSE v

BatchIf(c, t, f) == IF Holds(c) THEN t ELSE f

BatchSwitch(vals) == RowSwitch(vals)

BatchBinary(op, l, r) ==
  CASE op = "and" -> BatchAnd(l, r)
    [] op = "or"  -> BatchOr(l, r)
    [] OTHER      -> BatchIntLong(op, l, r)

\* An error set by any argument stays set, whether or not its value is used.
RECURSIVE BatchValue(_, _)
BatchValue(e, row) ==
  LET v == [i \in DOMAIN e.args |-> BatchValue(e.args[i], row)]
      result ==
        CASE e.op = "field"    -> row[e.col]
          [] e.op = "literal"  -> e.value
          [] e.op = "not"      -> BatchNot(v[1])
          [] e.op = "isnull"   -> IsNull(v[1])
          [] e.op = "if"       -> BatchIf(v[1], v[2], v[3])
          [] e.op = "switch"   -> BatchSwitch(v)
          [] e.op = "coalesce" -> BatchCoalesce(v[1], v[2])
          [] e.op = "between"  -> BatchBetween(v[1], v[2], v[3])
          [] e.op = "in"       -> BatchIn(v[1], Tail(v))
          [] OTHER             -> BatchBinary(e.op, v[1], v[2])
  IN  [result EXCEPT !.err = @ \/ \E i \in DOMAIN v : v[i].err]

-----------------------------------------------------------------------------
(* The evaluator of a filter and a projection over a batch of rows.        *)

Value(c, e, row) == IF c.batch THEN BatchValue(e, row) ELSE RowValue(e, row)

\* The numbers of the rows a filter selects.
FilterFunc(c, rows) ==
  SelectSeq([i \in DOMAIN rows |-> i], LAMBDA i : Holds(Value(c, c.filter[1], rows[i])))

\* A projection of the selected rows.
Project(c, rows, selected) ==
  LET column == [i \in DOMAIN selected |-> Value(c, c.project, rows[selected[i]])]
  IN  IF \E i \in DOMAIN column : column[i].err THEN [throws |-> TRUE, rows |-> <<>>]
      ELSE [throws |-> FALSE,
            rows |-> [i \in DOMAIN column |-> IF column[i].null THEN <<>> ELSE <<column[i].data>>]]

ProcessProject(c, rows) == Project(c, rows, [i \in DOMAIN rows |-> i])

\* An error of the filter ends the query before it projects.
ProcessFilterAndProject(c, rows) ==
  IF \E i \in DOMAIN rows : Value(c, c.filter[1], rows[i]).err
  THEN [throws |-> TRUE, rows |-> <<>>]
  ELSE Project(c, rows, FilterFunc(c, rows))
=============================================================================
