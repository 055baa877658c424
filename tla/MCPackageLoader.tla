--------------------------- MODULE MCPackageLoader ---------------------------
(***************************************************************************)
(* An instance of PackageLoader for TLC: two packages that can import each *)
(* other, one that cannot be found, one keyword and one constant.  The     *)
(* root name space is the parent of all others.  The first two packages    *)
(* are alike, and no property is a liveness property.                      *)
(***************************************************************************)
EXTENDS PackageLoader, TLC

CONSTANTS root, main, p, q, lost, plus, pi

Packages   == {p, q, lost}
Names      == Packages \cup {root, main}
Alike      == Permutations({p, q})
RootParent == [n \in Names |-> IF n = root THEN <<root>> ELSE <<n, root>>]
=============================================================================
