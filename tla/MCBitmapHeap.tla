---------------------------- MODULE MCBitmapHeap ---------------------------
(***************************************************************************)
(* Instances of BitmapHeap for TLC.  A segment of class 1 has two words of *)
(* two bits, and asks for a major collection when its last block is taken; *)
(* one of class 2 has a header and a single block, and its margin is all   *)
(* its blocks, as in the code's class of 4096 bytes.                       *)
(***************************************************************************)
EXTENDS BitmapHeap, TLC

TwoKlasses == <<4, 2>>
TwoMargins == <<2, 1>>
============================================================================
