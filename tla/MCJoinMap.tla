------------------------------ MODULE MCJoinMap ------------------------------
(***************************************************************************)
(* The smallest map of a join, two windows large, with as many different   *)
(* keys as the join sizes it for.                                          *)
(***************************************************************************)
EXTENDS BaseHashMap

MCKeys  == {3, 7} \X {1, 2, 3}
MCH1(k) == k[1]
=============================================================================
