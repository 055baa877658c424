------------------------------- MODULE MCKDict ------------------------------
(***************************************************************************)
(* An instance of KDict for TLC.  The keys are of the four kinds that meet *)
(* in a name space: two patterns, negative as an int, and names and syntax *)
(* lists; half the range is 8.                                             *)
(***************************************************************************)
EXTENDS KDict, TLC

CONSTANTS v1

FewKeys  == {-2, -1, 0, 1, 3}
Pair(k) == [key |-> k, value |-> v1]
FewBatches ==
  {<<Pair(0)>>, <<Pair(3), Pair(-2)>>, <<Pair(1), Pair(-1), Pair(3)>>}
=============================================================================
