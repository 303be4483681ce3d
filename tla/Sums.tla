-------------------------------- MODULE Sums --------------------------------
(* Sums over finite sets.                                                  *)
EXTENDS FiniteSetsExt

Total(f, S) == MapThenSumSet(LAMBDA x : f[x], S)
=============================================================================
