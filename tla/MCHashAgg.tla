------------------------------ MODULE MCHashAgg ------------------------------
(***************************************************************************)
(* Instances of HashAggregation for TLC: a column of four bits in words of *)
(* five, null and three keys.  The array grows once, then a further key    *)
(* ends it, one in a batch makes it too large.                             *)
(***************************************************************************)
EXTENDS HashAggregation

MCTMin == -8
MCTMax == 7
MCWMin == -16
MCWMax == 15
MCNull == 99
MCKeys == {MCNull, -3, -1, 2}
=============================================================================
