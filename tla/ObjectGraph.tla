---------------------------- MODULE ObjectGraph ----------------------------
(***************************************************************************)
(* The object graph of a Konoha heap, as its collectors see it: a set of   *)
(* root objects and a set of edges <<parent, child>>, one for every object *)
(* that the reftrace function of the parent's class visits.                *)
(***************************************************************************)

Children(o, edges) == {e[2] : e \in {d \in edges : d[1] = o}}

(* No edge leaves S: what a marking that has nothing left to do computes.  *)
Closed(S, edges) == \A e \in edges : e[1] \in S => e[2] \in S

Touched(rootSet, edges) ==
  rootSet \cup {e[1] : e \in edges} \cup {e[2] : e \in edges}

(* The objects some path of edges leads to from a root: the members of     *)
(* every closed set that holds the roots.                                  *)
Reachable(rootSet, edges) ==
  {o \in Touched(rootSet, edges) :
     \A S \in SUBSET Touched(rootSet, edges) :
        rootSet \subseteq S /\ Closed(S, edges) => o \in S}
=============================================================================
