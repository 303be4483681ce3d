------------------------------ MODULE MCMemory ------------------------------
(* Instances of MemoryManager for TLC.                                     *)
EXTENDS MemoryManager, TLC

CONSTANTS t1, t2

MCThreads == {t1, t2}
Symmetry  == Permutations(MCThreads)
MCLimits  == {UNLIMIT, 3}
=============================================================================
