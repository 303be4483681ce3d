------------------------------- MODULE MCTask -------------------------------
(* Instances of Task for TLC.                                              *)
EXTENDS Task

CONSTANT MaxOut  \* most batches one input batch turns into, see module Driver

R == INSTANCE Relational

Promise == INSTANCE Query WITH answers <- R!Answers(plan, input, Projections)

\* What the caller of OmniTask::Next sees, whatever the plan, the streams, the
\* order in which the pipelines run and the moment the task is destroyed, is an
\* admissible answer of the plan, each row once, and then the end.
ImplementsQuery == Promise!Spec

MCStreams == {<<>>, << <<1>> >>, << <<2, 1>>, <<>>, <<1>> >>, << <<1>>, <<1>>, <<>> >>}

\* Limit(Sort(Union(Values, Filter(Values))))
TopOfUnion == <<Limit(1, 1, 2), Unary("SORT", 3), Binary("UNION", 4, 5), Values,
                Unary("FILTER", 6), Values>>
\* Agg(Expand(Left(Values, Project(Values))))
CountExpanded == <<Unary("AGG", 2), Unary("EXPAND", 3), Binary("LEFT", 4, 5), Values,
                   Unary("PROJECT", 6), Values>>
\* Full(Limit(Inner(Values, Values)), Values)
FullOverLimit == <<Binary("FULL", 2, 3), Limit(1, 0, 4), Values, Binary("INNER", 5, 6),
                   Values, Values>>
\* Project(Full(Values, Agg(Values)))
FullOverAgg == <<Unary("PROJECT", 2), Binary("FULL", 3, 4), Values, Unary("AGG", 5), Values>>
\* Union(Expand(Values), Full(Values, Sort(Values)))
UnionOfJoin == <<Binary("UNION", 2, 3), Unary("EXPAND", 4), Binary("FULL", 5, 6), Values,
                 Values, Unary("SORT", 7), Values>>
\* Limit(Union(Values, Values))
LimitOfUnion == <<Limit(2, 0, 2), Binary("UNION", 3, 4), Values, Values>>

\* Full(Limit(Expand(Values)), Values)
FullOverExpand == <<Binary("FULL", 2, 3), Limit(2, 0, 4), Values, Unary("EXPAND", 5), Values>>

UnionPlans == {LimitOfUnion}

MCPlans == {TopOfUnion, CountExpanded, FullOverLimit, FullOverAgg, UnionOfJoin, LimitOfUnion,
            FullOverExpand}

-----------------------------------------------------------------------------
(* The operators of a task keep the contract by which module Driver        *)
(* describes them: each pipeline of a plan, seen alone, is a Driver.       *)

\* The pipelines of every plan, and the kinds of their operators.
Pipelines == [p \in Plans |-> drivers(p)]
KindsIn == [p \in Plans |-> [d \in DOMAIN Pipelines[p] |->
             [k \in DOMAIN Pipelines[p][d] |-> Kind(p, Pipelines[p][d][k])]]]

\* The batches operator o can still emit of what it holds.  While it waits for
\* other pipelines, what they put into it does not count yet.
Chunks(n) == (n + OutRows - 1) \div OutRows

Left(o) ==
  LET me   == store.op[o]
      kind == Kind(plan, o)
  IN  CASE closed \/ me.fin \/ IsBlocked(store, o) -> 0
        [] kind \in {"HASH_BUILD", "UNION_BUILD"} -> 0
        [] kind = "AGG"    -> IF me.noMore THEN 1 ELSE 0
        [] kind = "EXPAND" -> IF me.held = <<>> THEN 0 ELSE Projections - me.at
        [] kind = "SORT"   -> Chunks(Len(Rows(me.held)) - me.at)
        [] kind = "FULL" /\ me.done ->
             Chunks(Len(SelectSeq(store.table[o[1]].rows,
                                  LAMBDA r : r \notin store.table[o[1]].visited)) - me.at)
        [] kind \in Joins ->
             IF me.held = <<>> THEN 0 ELSE Chunks(Len(Pairs(store, o, me.held[1])) - me.at)
        [] OTHER -> Len(me.held) - me.at

Kinds(p, d, kinds) == {k \in DOMAIN KindsIn[p][d] : KindsIn[p][d][k] \in kinds}

Contract(p, d) == INSTANCE Driver WITH
  N         <- Len(Pipelines[p][d]),
  Buffers   <- Kinds(p, d, {"UNION", "SORT", "AGG", "HASH_BUILD", "UNION_BUILD"}),
  Breakers  <- Kinds(p, d, {"SORT", "AGG", "HASH_BUILD", "UNION_BUILD"}),
  Choosy    <- Kinds(p, d, {"EXPAND"}),
  Stoppers  <- Kinds(p, d, {"LIMIT"}),
  Flushers  <- Kinds(p, d, {"AGG"}),
  Lazy      <- Kinds(p, d, {"FULL"}),
  Blockable <- Kinds(p, d, {"UNION", "INNER", "LEFT"}),
  cursor     <- IF driver = d THEN cursor ELSE 0,
  finished   <- d \in finished,
  shouldStop <- closed,
  pending    <- [k \in DOMAIN Pipelines[p][d] |-> Left(Pipelines[p][d][k])],
  fin        <- [k \in DOMAIN Pipelines[p][d] |-> store.op[Pipelines[p][d][k]].fin],
  noMore     <- [k \in DOMAIN Pipelines[p][d] |-> store.op[Pipelines[p][d][k]].noMore],
  closing    <- [k \in DOMAIN Pipelines[p][d] |-> store.op[Pipelines[p][d][k]].done],
  blocked    <- [k \in DOMAIN Pipelines[p][d] |-> IsBlocked(store, Pipelines[p][d][k])],
  lost       <- {k \in DOMAIN Pipelines[p][d] : Pipelines[p][d][k] \in store.overwritten}

\* Each pipeline of the task goes through its iterations as module Driver says,
\* whose theorems therefore hold of it.
EveryPipelineIsADriver ==
  /\ \A p \in Plans : plan = p => \A d \in DOMAIN Pipelines[p] : Contract(p, d)!Init
  /\ [][\A p \in Plans : plan = p =>
          \A d \in DOMAIN Pipelines[p] : [Contract(p, d)!Next]_(Contract(p, d)!vars)]_vars
=============================================================================
