----------------------------- MODULE MCKHashMap -----------------------------
(***************************************************************************)
(* An instance of KHashMap for TLC.  The table grows twice, from one head  *)
(* to three and to seven.  Two of the four names have one hash, and a      *)
(* third shares their chain until the second growth.  The two are alike,   *)
(* and no property is a liveness property.                                 *)
(***************************************************************************)
EXTENDS KHashMap, TLC

CONSTANTS k1, k2, k3, k4

FewNames  == {k1, k2, k3, k4}
Alike     == Permutations({k1, k2})
FewHashes == k1 :> 1 @@ k2 :> 1 @@ k3 :> 4 @@ k4 :> 0
=============================================================================
