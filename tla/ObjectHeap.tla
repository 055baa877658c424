---------------------------- MODULE ObjectHeap -----------------------------
(***************************************************************************)
(* What a GCModule promises the runtime, whatever collector is plugged in: *)
(* AllocObject returns a cell that is not in use, the mutator reads and    *)
(* writes the fields of the objects it can reach, and memory management    *)
(* takes back an object only when no path of fields leads to it from the   *)
(* roots, one at a time and in any order, or takes back everything when    *)
(* the context is deleted.                                                 *)
(*                                                                         *)
(* Cell is the set of cells there may ever be; MSGC.tla implements this    *)
(* specification.                                                          *)
(***************************************************************************)
EXTENDS ObjectGraph

CONSTANT Cell

VARIABLES
  live,     \* the cells in use (header class pointer set)
  ptr,      \* the edges <<parent, child>> of the object graph
  roots,    \* the objects the runtime holds: stacks, constants, ...
  open      \* the context has not been deleted

heapVars == <<live, ptr, roots, open>>

Init ==
  /\ live = {}
  /\ ptr = {}
  /\ roots = {}
  /\ open = TRUE

(* A new object is a root (the caller has it) and has no fields set.       *)
Alloc(o) ==
  /\ open
  /\ o \in Cell \ live
  /\ live' = live \cup {o}
  /\ roots' = roots \cup {o}
  /\ UNCHANGED <<ptr, open>>

Load(o) ==
  /\ open
  /\ \E r \in roots : <<r, o>> \in ptr
  /\ roots' = roots \cup {o}
  /\ UNCHANGED <<live, ptr, open>>

Drop(o) ==
  /\ open
  /\ o \in roots
  /\ roots' = roots \ {o}
  /\ UNCHANGED <<live, ptr, open>>

Store(o, p) ==
  /\ open
  /\ o \in roots
  /\ p \in roots
  /\ ptr' = ptr \cup {<<o, p>>}
  /\ UNCHANGED <<live, roots, open>>

Erase(o, p) ==
  /\ open
  /\ o \in roots
  /\ ptr' = ptr \ {<<o, p>>}
  /\ UNCHANGED <<live, roots, open>>

(* Memory management takes an object back: its finalizer ran, its fields   *)
(* are gone.                                                               *)
Reclaim(o) ==
  /\ open
  /\ o \in live \ Reachable(roots, ptr)
  /\ live' = live \ {o}
  /\ ptr' = {e \in ptr : e[1] # o}
  /\ UNCHANGED <<roots, open>>

Delete ==
  /\ open
  /\ live' = {}
  /\ ptr' = {}
  /\ roots' = {}
  /\ open' = FALSE

(* Cell may be infinite: the bounds below are finite sets that hold the    *)
(* only cells for which the action can be a step.                          *)
Next ==
  \/ \E o \in live' \ live : Alloc(o)
  \/ \E o \in live \ live' : Reclaim(o)
  \/ \E o \in roots : Drop(o)
  \/ \E e \in ptr : Load(e[2]) \/ Erase(e[1], e[2])
  \/ \E o, p \in roots : Store(o, p)
  \/ Delete

Spec == Init /\ [][Next]_heapVars
=============================================================================
