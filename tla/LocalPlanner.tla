---------------------------- MODULE LocalPlanner ----------------------------
(***************************************************************************)
(* LocalPlanner::plan (src/core/src/compute/local_planner.cpp): cuts a     *)
(* tree of plan nodes into pipelines of operators.                         *)
(*                                                                         *)
(* A plan is a sequence of nodes, node 1 its root; a node's sources come   *)
(* after it.  A node is a record with its kind, its sources, and a Limit's *)
(* count and offset.  Operator <<n, 1>> is the operator of node n itself;  *)
(* <<n, i>>, i > 1, is the builder that ends the pipeline of n's i-th      *)
(* source: a HashBuilder or a UnionBuildOperator.                          *)
(***************************************************************************)
EXTENDS Integers, Sequences, SequencesExt, FiniteSets

Values        == [kind |-> "VALUES",  src |-> <<>>]
Unary(k, a)   == [kind |-> k, src |-> <<a>>]
Binary(k, a, b) == [kind |-> k, src |-> <<a, b>>]
Limit(c, off, a) == [kind |-> "LIMIT", src |-> <<a>>, count |-> c, offset |-> off]

Joins == {"INNER", "LEFT", "FULL"}

\* A tree of nodes: the sources of a node come after it, as many as its kind needs.
IsPlan(plan) ==
  /\ Len(plan) \in Nat \ {0} /\ DOMAIN plan = 1 .. Len(plan)
  /\ \A n \in DOMAIN plan :
       /\ plan[n].src \in Seq(n + 1 .. Len(plan))
       /\ \/ plan[n].kind = "VALUES" /\ Len(plan[n].src) = 0
          \/ plan[n].kind \in {"FILTER", "PROJECT", "EXPAND", "LIMIT", "SORT", "AGG"}
               /\ Len(plan[n].src) = 1
          \/ plan[n].kind = "UNION" /\ Len(plan[n].src) > 0
          \/ plan[n].kind \in Joins /\ Len(plan[n].src) = 2

Kind(plan, op) == IF op[2] = 1 THEN plan[op[1]].kind
                  ELSE IF plan[op[1]].kind = "UNION" THEN "UNION_BUILD"
                  ELSE "HASH_BUILD"

\* planDetail: the pipelines of the subtree of a node, its own one first.  The
\* first source continues that pipeline (its subtree's other pipelines follow at
\* once); every other source has a pipeline of its own that a builder ends.
planDetail(plan) ==
  LET pipelines[n \in DOMAIN plan] ==
        LET sources == plan[n].src
            built(i) == LET below == pipelines[sources[i]]
                        IN  <<Append(Head(below), <<n, i>>)>> \o Tail(below)
        IN  IF sources = <<>>
              THEN << << <<n, 1>> >> >>
              ELSE FlattenSeq([i \in 1 .. Len(sources) |-> built(i)])
  IN  pipelines

\* Mutant: the pipelines in the order they were planned.
driversAsPlanned(plan) == planDetail(plan)[1]

\* OmniTask::Next polls the pipelines in the reverse order: the pipeline that
\* delivers the result comes last.
drivers(plan) == Reverse(planDetail(plan)[1])

\* The operators of a list of pipelines.
OpsOf(pipelines) == UNION {ToSet(pipelines[d]) : d \in DOMAIN pipelines}
=============================================================================
