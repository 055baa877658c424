------------------------------- MODULE MSGC --------------------------------
(***************************************************************************)
(* The mark-and-sweep collector of src/module/GC/MSGC/MSGC.c: the pool of  *)
(* each size class (arenas of pages of slots, one free list), the request  *)
(* for a collection that an allocation raises, the collection that the     *)
(* next safepoint runs to its end, the arenas a sweep adds.                *)
(*                                                                         *)
(* The cell <<c, n>> is slot n of size class c, counted from 1 through the *)
(* arenas of the class in the order they were added.  A free list is a     *)
(* sequence of slot numbers, its head first; a cell is in use (live) when  *)
(* its header's class pointer is set.  The mutator is any program that     *)
(* holds objects (roots), reads and writes their fields (ptr), allocates,  *)
(* and reaches a safepoint now and then.                                   *)
(***************************************************************************)
EXTENDS Integers, Sequences, FiniteSets, Functions, ObjectGraph

CONSTANTS
  ArenaCount,         \* size classes                        (code: 3)
  PageObjectSize,     \* slots of a page, per size class     (code: 64, 32, 16)
  ArenaPages,         \* pages of an arena                   (code: 1024)
  ThresholdDivisor,   \* part of the free cells kept back    (code: 8)
  MarkStackInit,      \* slots of a new mark stack           (code: 4096)
  MaxBurst,           \* bound: allocations between safepoints, per class
  MaxLive,            \* bound: objects in use at once
  MaxRoots,           \* bound: objects the mutator holds at once
  MaxEdges            \* bound: fields set at once

Class == 0 .. ArenaCount - 1
Slot  == Nat \ {0}
Cell  == Class \X Slot

ASSUME PoolAssumption ==
  /\ ArenaCount \in Nat \ {0}
  /\ PageObjectSize \in [Class -> Nat \ {0}]
  /\ ArenaPages \in Nat \ {0}
  /\ ThresholdDivisor \in Nat \ {0}
  /\ MarkStackInit \in Nat \ {0}

ASSUME BoundAssumption ==
  MaxBurst \in Nat /\ MaxLive \in Nat /\ MaxRoots \in Nat /\ MaxEdges \in Nat

VARIABLES
  arenas,      \* [Class -> Nat]       arena_table.size
  freelist,    \* [Class -> Seq(Slot)] freelist.list
  size,        \* [Class -> Nat]       freelist.size
  threshold,   \* [Class -> Nat]       gc_threshold
  flags,       \* a collection has been asked for
  live, ptr, roots,
  marked,      \* the cells whose GCFlag is set
  mstack,      \* the mark stack, its top last
  mcap,        \* slots allocated for the mark stack
  visit,       \* the objects the reftrace function under way has yet to visit
  pc,          \* "run", a phase of the collection, "deleted" or "fault"
  cursor,      \* sweep: the next cell to look at
  ext,         \* extend: arenas still to add
  burst        \* [Class -> Nat] allocations since the last safepoint

pool  == <<arenas, freelist, size, threshold>>
heap  == <<live, ptr, roots>>
mark  == <<marked, mstack, mcap, visit>>
sweep == <<cursor, ext>>
vars  == <<pool, flags, heap, mark, pc, sweep, burst>>

ArenaSlots(c) == ArenaPages * PageObjectSize[c]
Top(c)        == arenas[c] * ArenaSlots(c)

----------------------------------------------------------------------------
(* The arenas.                                                             *)

(* The chain that ObjectArenaTable_Init makes of a new arena that begins   *)
(* after slot base: every slot, in order.                                  *)
ArenaChain(c, base) == [i \in 1 .. ArenaSlots(c) |-> base + i]

(* The part of it that gc_extendObjectArena keeps.  ref5_tail is           *)
(* &bottom[-1], the FIRST slot of the last page, and the old free list is  *)
(* linked there: the slots that follow it on that page are cut off.        *)
WholeArena(c) == ArenaSlots(c)            \* mutant of KeptSlots
KeptSlots(c) == ArenaSlots(c) - PageObjectSize[c] + 1
ExtendChain(c, base) == [i \in 1 .. KeptSlots(c) |-> base + i]

(* KnewGcContext: one arena for each size class.                           *)
Init ==
  /\ arenas    = [c \in Class |-> 1]
  /\ freelist  = [c \in Class |-> ArenaChain(c, 0)]
  /\ size      = [c \in Class |-> ArenaSlots(c)]
  /\ threshold = [c \in Class |-> ArenaSlots(c) \div ThresholdDivisor]
  /\ flags = FALSE
  /\ live = {} /\ ptr = {} /\ roots = {}
  /\ marked = {} /\ mstack = <<>> /\ mcap = MarkStackInit /\ visit = {}
  /\ pc = "run"
  /\ cursor = <<0, 1>> /\ ext = 0
  /\ burst = [c \in Class |-> 0]

----------------------------------------------------------------------------
(* The mutator.                                                            *)

(* FREELIST_POP compares the size before the pop takes its cell.           *)
AsksWhenEmpty(c) == size[c] = 0                \* mutant of AsksForGC
AsksForGC(c) == size[c] <= threshold[c]

(* KallocObject, and new_kObject which sets the header of what it returns. *)
AllocObject(c) ==
  /\ pc = "run"
  /\ burst[c] < MaxBurst
  /\ Cardinality(live) < MaxLive
  /\ Cardinality(roots) < MaxRoots
  /\ freelist[c] # <<>>
  /\ LET o == <<c, Head(freelist[c])>>
     IN  /\ live' = live \cup {o}
         /\ roots' = roots \cup {o}
  /\ freelist' = [freelist EXCEPT ![c] = Tail(@)]
  /\ size' = [size EXCEPT ![c] = @ - 1]
  /\ flags' = (flags \/ AsksForGC(c))
  /\ burst' = [burst EXCEPT ![c] = @ + 1]
  /\ UNCHANGED <<arenas, threshold, ptr, mark, pc, sweep>>

(* The same with an empty list: DBG_ASSERT(freelist.list != NULL) is the   *)
(* only guard, and FREELIST_POP reads the ref of NULL.                     *)
AllocFault(c) ==
  /\ pc = "run"
  /\ burst[c] < MaxBurst
  /\ Cardinality(live) < MaxLive
  /\ Cardinality(roots) < MaxRoots
  /\ freelist[c] = <<>>
  /\ flags' = (flags \/ AsksForGC(c))
  /\ pc' = "fault"
  /\ UNCHANGED <<pool, heap, mark, sweep, burst>>

Load(o) ==
  /\ pc = "run"
  /\ Cardinality(roots) < MaxRoots
  /\ \E r \in roots : <<r, o>> \in ptr
  /\ roots' = roots \cup {o}
  /\ UNCHANGED <<pool, flags, live, ptr, mark, pc, sweep, burst>>

Drop(o) ==
  /\ pc = "run"
  /\ o \in roots
  /\ roots' = roots \ {o}
  /\ UNCHANGED <<pool, flags, live, ptr, mark, pc, sweep, burst>>

(* A field is written; the write barriers of this collector do nothing.    *)
Store(o, p) ==
  /\ pc = "run"
  /\ o \in roots /\ p \in roots
  /\ Cardinality(ptr) < MaxEdges
  /\ ptr' = ptr \cup {<<o, p>>}
  /\ UNCHANGED <<pool, flags, live, roots, mark, pc, sweep, burst>>

Erase(o, p) ==
  /\ pc = "run"
  /\ o \in roots /\ <<o, p>> \in ptr
  /\ ptr' = ptr \ {<<o, p>>}
  /\ UNCHANGED <<pool, flags, live, roots, mark, pc, sweep, burst>>

(* CheckSafePoint calls KscheduleGC: a collection asked for starts, the    *)
(* mark stack is emptied and ReftraceAll has the roots to visit.           *)
ScheduleGC ==
  /\ pc = "run"
  /\ burst' = [c \in Class |-> 0]
  /\ \/ /\ flags
        /\ pc' = "mark"
        /\ mstack' = <<>>
        /\ visit' = roots
        /\ UNCHANGED <<marked, mcap>>
     \/ /\ ~flags
        /\ UNCHANGED <<mark, pc>>
  /\ UNCHANGED <<pool, flags, heap, sweep>>

(* KdeleteGcContext: every object in use is freed once, then the arenas.   *)
DeleteGcContext ==
  /\ pc = "run"
  /\ pc' = "deleted"
  /\ live' = {} /\ ptr' = {} /\ roots' = {}
  /\ arenas' = [c \in Class |-> 0]
  /\ freelist' = [c \in Class |-> <<>>]
  /\ UNCHANGED <<size, threshold, flags, mark, sweep, burst>>

----------------------------------------------------------------------------
(* The marking.                                                            *)

(* mstack_Push: when the next tail wraps to 0 the stack doubles.           *)
DoublesLate(n) == IF n > 0 /\ n % mcap = 0 THEN 2 * mcap ELSE mcap   \* mutant of PushCap
PushCap(n) == IF (n + 1) % mcap = 0 THEN 2 * mcap ELSE mcap

(* Object_isMark.                                                          *)
AlwaysUnseen(o) == TRUE                   \* mutant of Unseen
Unseen(o) == o \notin marked

(* fn_visit / mark_mstack: an object seen for the first time is marked and *)
(* pushed.                                                                 *)
Visit(o) ==
  /\ pc = "mark"
  /\ o \in visit
  /\ visit' = visit \ {o}
  /\ \/ /\ Unseen(o)
        /\ marked' = marked \cup {o}
        /\ mstack' = Append(mstack, o)
        /\ mcap' = PushCap(Len(mstack))
     \/ /\ ~Unseen(o)
        /\ UNCHANGED <<marked, mstack, mcap>>
  /\ UNCHANGED <<pool, flags, heap, pc, sweep, burst>>

(* kObjectProto_Reftrace: the fields that the class of o visits.           *)
NothingTraced(o) == {}                    \* mutant of Traced
Traced(o) == Children(o, ptr)

(* mstack_next: the top of the stack is next.                              *)
Reftrace ==
  /\ pc = "mark"
  /\ visit = {}
  /\ mstack # <<>>
  /\ mstack' = SubSeq(mstack, 1, Len(mstack) - 1)
  /\ visit' = Traced(mstack[Len(mstack)])
  /\ UNCHANGED <<pool, flags, heap, marked, mcap, pc, sweep, burst>>

MarkDone ==
  /\ pc = "mark"
  /\ visit = {}
  /\ mstack = <<>>
  /\ pc' = "sweep"
  /\ cursor' = <<0, 1>>
  /\ UNCHANGED <<pool, flags, heap, mark, ext, burst>>

----------------------------------------------------------------------------
(* The sweep.                                                              *)

AnyUnmarked(o) == o \notin marked         \* mutant of Garbage
AnyLive(o) == o \in live                  \* mutant of Garbage
Garbage(o) == o \in live /\ o \notin marked

(* Object_unsetMark.                                                       *)
MarksKept(o) == marked                    \* mutant of Unmark
Unmark(o) == marked \ {o}

(* One slot of sweep0: what is in use and unmarked is freed and pushed on  *)
(* the free list; the mark is reset whatever the slot holds.               *)
SweepSlot ==
  /\ pc = "sweep"
  /\ cursor[2] <= Top(cursor[1])
  /\ LET c == cursor[1]
     IN  \/ /\ Garbage(cursor)
            /\ live' = live \ {cursor}
            /\ ptr' = {e \in ptr : e[1] # cursor}
            /\ freelist' = [freelist EXCEPT ![c] = <<cursor[2]>> \o @]
            /\ size' = [size EXCEPT ![c] = @ + 1]
         \/ /\ ~Garbage(cursor)
            /\ UNCHANGED <<live, ptr, freelist, size>>
  /\ marked' = Unmark(cursor)
  /\ cursor' = <<cursor[1], cursor[2] + 1>>
  /\ UNCHANGED <<arenas, threshold, flags, roots, mstack, mcap, visit, pc, ext, burst>>

(* The sweep of the next class, or the end of MarkAndSweepGC; three        *)
(* mutants of it first: one class too many, one too few, one slot too few. *)
OneClassMore ==
  /\ cursor' = <<cursor[1] + 1, 1>>
  /\ pc' = "sweep"
  /\ UNCHANGED flags
OneClassOnly ==
  /\ pc' = "run"
  /\ flags' = FALSE
  /\ UNCHANGED cursor
SkipsFirstSlot ==
  \/ /\ cursor[1] + 1 < ArenaCount
     /\ cursor' = <<cursor[1] + 1, 2>>
     /\ pc' = "sweep"
     /\ UNCHANGED flags
  \/ /\ cursor[1] + 1 = ArenaCount
     /\ OneClassOnly
NextClass ==
  \/ /\ cursor[1] + 1 < ArenaCount
     /\ cursor' = <<cursor[1] + 1, 1>>
     /\ pc' = "sweep"
     /\ UNCHANGED flags
  \/ /\ cursor[1] + 1 = ArenaCount
     /\ pc' = "run"
     /\ flags' = FALSE
     /\ UNCHANGED cursor

(* CHECK_EXPAND at the end of GC_SWEEP.                                    *)
CheckExpand ==
  /\ pc = "sweep"
  /\ cursor[2] > Top(cursor[1])
  /\ \/ /\ size[cursor[1]] <= threshold[cursor[1]]
        /\ ext' = arenas[cursor[1]]
        /\ pc' = "extend"
        /\ UNCHANGED <<cursor, flags>>
     \/ /\ size[cursor[1]] > threshold[cursor[1]]
        /\ NextClass
        /\ UNCHANGED ext
  /\ UNCHANGED <<pool, heap, mark, burst>>

(* One turn of the loop of gc_extendObjectArena: new_ObjectArena counts    *)
(* the slots of the whole arena and sets the threshold anew.               *)
ExtendArena ==
  /\ pc = "extend"
  /\ LET c == cursor[1]
         total == size[c] + ArenaSlots(c)
     IN  /\ arenas' = [arenas EXCEPT ![c] = @ + 1]
         /\ freelist' = [freelist EXCEPT ![c] = ExtendChain(c, Top(c)) \o @]
         /\ size' = [size EXCEPT ![c] = total]
         /\ threshold' = [threshold EXCEPT ![c] = total \div ThresholdDivisor]
  /\ ext' = ext - 1
  /\ \/ /\ ext > 1
        /\ UNCHANGED <<pc, cursor, flags>>
     \/ /\ ext = 1
        /\ NextClass
  /\ UNCHANGED <<heap, mark, burst>>

----------------------------------------------------------------------------
Mutator ==
  \/ \E c \in Class : AllocObject(c) \/ AllocFault(c)
  \/ \E o \in roots : Drop(o)
  \/ \E e \in ptr : Load(e[2]) \/ Erase(e[1], e[2])
  \/ \E o, p \in roots : Store(o, p)
  \/ ScheduleGC
  \/ DeleteGcContext

Collector ==
  \/ \E o \in visit : Visit(o)
  \/ Reftrace
  \/ MarkDone
  \/ SweepSlot
  \/ CheckExpand
  \/ ExtendArena

Next == Mutator \/ Collector

(* The collector runs in the thread that reached the safepoint, and that   *)
(* thread does nothing else before it returns.                             *)
Fairness == WF_vars(Collector)

Spec == Init /\ [][Next]_vars /\ Fairness

----------------------------------------------------------------------------
(* Properties.                                                             *)

Collecting == {"mark", "sweep", "extend"}

(* The variables hold what their C counterparts can hold; in particular    *)
(* live cells and listed slots are slots of an arena that exists.          *)
TypeOK ==
  /\ arenas \in [Class -> Nat]
  /\ freelist \in [Class -> Seq(Slot)]
  /\ size \in [Class -> Int]
  /\ threshold \in [Class -> Int]
  /\ flags \in BOOLEAN
  /\ live \in SUBSET Cell
  /\ ptr \in SUBSET (Cell \X Cell)
  /\ roots \in SUBSET Cell
  /\ marked \in SUBSET Cell
  /\ mstack \in Seq(Cell)
  /\ mcap \in Nat \ {0}
  /\ visit \in SUBSET Cell
  /\ pc \in {"run", "deleted", "fault"} \cup Collecting
  /\ cursor \in Class \X Slot
  /\ ext \in Nat
  /\ burst \in [Class -> Nat]

(* No object the program can still reach is ever reclaimed: in every state *)
(* of the mutator and in the middle of a collection, what a path of fields *)
(* leads to from a root is in use (KallocObject, sweep0).                  *)
ReachableLive == Reachable(roots, ptr) \subseteq live

(* KallocObject never hands out a cell twice: a free list names no slot    *)
(* twice, none in use and none outside the arenas (FREELIST_PUSH and       *)
(* FREELIST_POP, gc_extendObjectArena).                                    *)
FreeListSound ==
  \A c \in Class :
    /\ IsInjective(freelist[c])
    /\ \A n \in Range(freelist[c]) : n <= Top(c) /\ <<c, n>> \notin live

(* The slots that gc_extendObjectArena leaves out of every list: on the    *)
(* last page of an arena added later, all but the first.                   *)
CutOff(c, n) ==
  /\ n > ArenaSlots(c)
  /\ (n - 1) % ArenaSlots(c) > (ArenaPages - 1) * PageObjectSize[c]

(* Every slot of every arena is in use, or listed once, or one of the      *)
(* slots cut off, so that freelist.size exceeds the length of the list by  *)
(* exactly the slots cut off: nothing else is lost or counted twice.       *)
SlotAccounting ==
  pc # "deleted" =>
    \A c \in Class :
      /\ \A n \in 1 .. Top(c) :
           \/ <<c, n>> \in live
           \/ n \in Range(freelist[c])
           \/ CutOff(c, n) /\ <<c, n>> \notin live /\ n \notin Range(freelist[c])
      /\ size[c] = Len(freelist[c]) + Cardinality({n \in 1 .. Top(c) : CutOff(c, n)})

(* When a collection ends, exactly the reachable objects are left: no      *)
(* garbage survives it (MarkAndSweepGC).                                   *)
EndsExact ==
  pc \in Collecting /\ pc' = "run" => live' = Reachable(roots', (ptr'))
CollectExact == [][EndsExact]_vars

(* DBG_ASSERT(MSGC(i).freelist.list != NULL) of FREELIST_POP holds:        *)
(* KallocObject never finds its free list empty.                           *)
NoFault == pc # "fault"

(* mstack_Push writes inside the array, and the stack never reads as empty *)
(* because its tail has wrapped.                                           *)
MarkStackFits == Len(mstack) < mcap

(* A collection that starts ends, whatever the object graph: the program   *)
(* comes back from the safepoint.                                          *)
GCTerminates == pc \in Collecting ~> pc = "run"

(* The collector implements the heap that the runtime is promised.         *)
Heap == INSTANCE ObjectHeap WITH open <- (pc # "deleted")
HeapSpec == Heap!Spec

----------------------------------------------------------------------------
(* The inductive invariant behind ReachableLive.                           *)

Behind(o) == o[1] < cursor[1] \/ (o[1] = cursor[1] /\ o[2] < cursor[2])

(* What a sweep keeps: the objects it has passed and the marked ones.      *)
Kept == {o \in live : o \in marked \/ Behind(o)}

RunInv ==
  /\ marked = {} /\ mstack = <<>> /\ visit = {}
  /\ Closed(live, ptr)

(* A marked object is on the mark stack, or all its children are marked or *)
(* about to be visited; nothing but objects in use is visited or marked.   *)
MarkInv ==
  /\ Closed(live, ptr)
  /\ roots \subseteq marked \cup visit
  /\ marked \cup visit \subseteq live
  /\ Range(mstack) \subseteq marked
  /\ \A e \in ptr : e[1] \in marked \ Range(mstack) => e[2] \in marked \cup visit

SweepInv ==
  /\ mstack = <<>> /\ visit = {}
  /\ roots \subseteq Kept
  /\ Closed(Kept, ptr)
  /\ marked \subseteq {o \in live : ~Behind(o)}

ExtendInv ==
  /\ marked \subseteq {o \in live : o[1] > cursor[1]}
  /\ \A o \in live : o[1] = cursor[1] => o[2] < cursor[2]

(* The graph, phase by phase.                                              *)
GraphInv ==
  /\ \A e \in ptr : e[1] \in live
  /\ roots \subseteq live
  /\ pc \in {"run", "deleted", "fault"} => RunInv
  /\ pc = "mark" => MarkInv
  /\ pc \in {"sweep", "extend"} => SweepInv
  /\ pc = "extend" => ExtendInv

(* The inductive invariant behind CollectExact: a collection marks and     *)
(* keeps nothing but what the program can reach.                           *)
ExactInv ==
  /\ pc = "mark" => marked \cup visit \subseteq Reachable(roots, ptr)
  /\ pc \in {"sweep", "extend"} => Kept \subseteq Reachable(roots, ptr)

(* The cells.                                                              *)
CellInv ==
  /\ \A o \in live : o[2] <= Top(o[1])
  /\ FreeListSound

(* The strengthening of ReachableLive and FreeListSound that every step    *)
(* preserves.                                                              *)
IInv == CellInv /\ GraphInv

----------------------------------------------------------------------------
(* The inductive invariant behind NoFault.  Every arena but the first has  *)
(* slots cut off, which size counts and the list lacks.                    *)

Quota(c)    == ArenaSlots(c) \div ThresholdDivisor
CutPerArena(c) == PageObjectSize[c] - 1
Cut(c)      == (arenas[c] - 1) * CutPerArena(c)

(* The inductive invariant behind SlotAccounting: no slot cut off is ever  *)
(* handed out or freed, and all the others are in use or listed.           *)
Accounted(c) ==
  /\ arenas[c] > 0
  /\ size[c] = Len(freelist[c]) + Cut(c)
  /\ \A n \in 1 .. Top(c) :
       <<c, n>> \in live \/ n \in Range(freelist[c]) \/ CutOff(c, n)
  /\ \A n \in Range(freelist[c]) : ~ CutOff(c, n)
  /\ \A o \in live : o[1] = c => ~ CutOff(c, o[2])
AccountInv == pc # "deleted" => \A c \in Class : Accounted(c)

(* What a program may allocate between two safepoints: the quota of one    *)
(* arena, less the slots one arena loses, provided that the quota covers   *)
(* two such losses.  The code's 4 MB arenas leave room for more than 8000  *)
(* objects of the smallest class, half and a quarter of that of the others.*)
BurstFits ==
  \A c \in Class :
    /\ 2 * CutPerArena(c) <= Quota(c)
    /\ MaxBurst + CutPerArena(c) <= Quota(c)

(* The threshold keeps back the slots cut off and a burst of allocations.  *)
Reserve(c) == Cut(c) + MaxBurst <= threshold[c]

(* gc_extendObjectArena has added k of the k + ext arenas it will add.     *)
Extended(c) ==
  \E k \in 0 .. arenas[c] : arenas[c] = 2 * k + ext /\ k * ArenaSlots(c) <= size[c]

(* Outside a collection at most burst cells have been taken from those     *)
(* kept back, and a collection has been asked for once one has.            *)
Room(c) ==
  /\ arenas[c] > 0
  /\ size[c] = Len(freelist[c]) + Cut(c)
  /\ burst[c] <= MaxBurst
  /\ ~(pc = "extend" /\ c = cursor[1]) => Reserve(c)
  /\ pc = "run" => threshold[c] <= size[c] + burst[c]
  /\ pc = "run" /\ ~flags => threshold[c] <= size[c]
  /\ pc \in {"sweep", "extend"} /\ c < cursor[1] => threshold[c] <= size[c]

RoomInv ==
  pc # "deleted" =>
    /\ \A c \in Class : Room(c)
    /\ pc = "extend" => Extended(cursor[1])

============================================================================
