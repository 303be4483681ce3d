------------------------------ MODULE MCDriver ------------------------------
(***************************************************************************)
(* One pipeline that has every kind of operator in it:                     *)
(*   1 ValueStream   2 LookupJoin   3 Limit   4 LookupJoinWrapper          *)
(*   5 streamed table of a merge join   6 Sort                             *)
(***************************************************************************)
EXTENDS Driver

MCBuffers   == {6}
MCBreakers  == {6}
MCChoosy    == {5}
MCStoppers  == {3, 5}
MCFlushers  == {5}
MCLazy      == {4}
MCBlockable == {2, 5}
=============================================================================
