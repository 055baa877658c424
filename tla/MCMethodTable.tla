---------------------------- MODULE MCMethodTable ----------------------------
(***************************************************************************)
(* An instance of MethodTable for TLC: a name space and its parent, a      *)
(* class and one derived from it.  The two signatures are alike, and no    *)
(* property is a liveness property.                                        *)
(***************************************************************************)
EXTENDS MethodTable, TLC

CONSTANTS root, main, s, t

Names   == {root, main}
Lines   == root :> <<root>> @@ main :> <<main, root>>
Alike   == Permutations({s, t})
Derived == 1 :> <<1>> @@ 2 :> <<2, 1>>
=============================================================================
