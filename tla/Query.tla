-------------------------------- MODULE Query --------------------------------
(***************************************************************************)
(* What a task promises the caller of OmniTask::Next: the rows of one      *)
(* admissible answer of the plan, each once, then the end for ever.  A     *)
(* plan with a Limit has several admissible answers.                       *)
(***************************************************************************)
EXTENDS Sequences, SequencesExt

VARIABLES
  answers,    \* the admissible answers, sets of rows
  delivered,  \* the rows delivered so far
  ended       \* Next has returned nullptr

vars == <<answers, delivered, ended>>

Init == delivered = <<>> /\ ended = FALSE

\* A batch of new rows that still lead to an admissible answer.
Deliver ==
  /\ ~ended /\ ~ended'
  /\ IsStrictPrefix(delivered, delivered')
  /\ IsInjective(delivered')
  /\ \E answer \in answers : ToSet(delivered') \subseteq answer
  /\ UNCHANGED answers

End ==
  /\ ended' = TRUE
  /\ ToSet(delivered) \in answers
  /\ UNCHANGED <<answers, delivered>>

Next == Deliver \/ End

Spec == Init /\ [][Next]_vars
=============================================================================
