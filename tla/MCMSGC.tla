------------------------------- MODULE MCMSGC ------------------------------
(***************************************************************************)
(* Instances of MSGC for TLC.  The arenas are far smaller than the code's  *)
(* 4 MB, and ThresholdDivisor is smaller with them so that a collection is *)
(* still asked for while cells are left.                                   *)
(***************************************************************************)
EXTENDS MSGC, TLC

(* One class, pages of two slots.                                          *)
OneClass == 0 :> 2

(* Two classes, pages of one slot.                                         *)
TwoClasses == 0 :> 1 @@ 1 :> 1
============================================================================
