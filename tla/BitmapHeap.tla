----------------------------- MODULE BitmapHeap ----------------------------
(***************************************************************************)
(* The bitmap collector of src/module/GC/BitmapGC/bmgc.h: segments of      *)
(* blocks of one size class (klass), an allocation pointer per class that  *)
(* moves over the mark bits of its segment, marks that are the only record *)
(* of which blocks may be handed out, objects that are freed when their    *)
(* block is reused, and the generational collection: a minor one starts    *)
(* from the marks of the last and the remembered set, a major one from     *)
(* nothing.                                                                *)
(*                                                                         *)
(* The cell <<s, n>> is block n of segment s; block 0 holds the header of  *)
(* the segment.  A block's bit is in word n \div WordBits of the bitmap.   *)
(* The bits that BITMAP_SET_LIMIT sets beyond the last block are left out, *)
(* and so is level 2, which they fill on a 64-bit machine.  Segment 0 is   *)
(* segment_dummy, which has no free block.                                 *)
(***************************************************************************)
EXTENDS Integers, Sequences, FiniteSets, Functions, ObjectGraph

CONSTANTS
  Builds,           \* settings of USE_GENERATIONAL_GC, a set of BOOLEANs
  Klasses,          \* size classes                   (code: 8, from 5 to 12)
  Blocks,           \* blocks of a segment, per class (code: 4096 .. 32)
  WordBits,         \* bits of a word                 (code: 64)
  Margin,           \* GC_MARGIN, per class           (code: 97.5% of the blocks)
  PoolSegments,     \* segments of the first pool     (code: 128)
  MinorCount,       \* new segments per minor GC      (code: 16)
  MaxSegments,      \* bound: segments there may ever be
  MaxLive,          \* bound: blocks that hold an object, dead or not
  MaxRoots,         \* bound: objects the mutator holds at once
  MaxEdges          \* bound: fields set at once

Klass   == 1 .. Klasses
Segment == 1 .. MaxSegments
Node(k) == 0 .. Blocks[k] - 1
Cell    == Segment \X Nat

ASSUME HeapAssumption ==
  /\ Builds \subseteq BOOLEAN
  /\ Klasses \in Nat
  /\ Blocks \in [Klass -> Nat \ {0, 1}]
  /\ WordBits \in Nat \ {0, 1}
  /\ Margin \in [Klass -> Nat]
  /\ PoolSegments \in Nat \ {0}
  /\ Klasses <= 2 * PoolSegments
  /\ MinorCount \in Nat \ {0}
  /\ MaxSegments \in Nat /\ PoolSegments <= MaxSegments
  /\ MaxLive \in Nat /\ MaxRoots \in Nat /\ MaxEdges \in Nat

VARIABLES
  generational, \* how the module was compiled: never changes
  segments,     \* segments that exist: 1 .. segments
  segmentList,  \* Seq(Segment)            those no class has yet
  seglist,      \* [Klass -> Seq(Segment)] those of a class
  freelist,     \* [Klass -> Seq(Segment)] those with free blocks, not yet visited
  at,           \* [Klass -> cell]         the allocation pointer
  minorLeft,    \* [Klass -> 0 .. MinorCount - 1] minor_count & (MINOR_COUNT - 1)
  flags,        \* the collection asked for: a subset of {"minor", "major"}
  base,         \* [Segment -> SUBSET Nat] level 0: the blocks marked
  full,         \* [Segment -> SUBSET Nat] level 1: the words marked full
  snapshot,     \* [Segment -> <<base, full>>] the marks the last collection left
  liveCount, tenureCount,  \* [Segment -> Nat] live_count, tenure_live_count
  live, ptr, roots,
  tenured,      \* cells whose GCFlag is set
  remembered,   \* cells whose bit of the remembered set is set
  phase,        \* "run", "search" and "init" (an allocation), "sweep", "deleted"
  want,         \* the class of the allocation under way, or 0
  fresh,        \* the block it has taken, or <<0, 0>>
  idle          \* collections since the last allocation, up to 2 (only observed)

supply == <<segments, segmentList, seglist, freelist, at, minorLeft>>
marks  == <<base, full, liveCount>>
kept   == <<snapshot, tenureCount>>
heap   == <<live, ptr, roots>>
gen    == <<tenured, remembered>>
request == <<want, fresh>>
vars   == <<generational, supply, flags, marks, kept, heap, gen, phase, request, idle>>

----------------------------------------------------------------------------
(* The bitmaps.                                                            *)

Word(k)      == 0 .. (Blocks[k] - 1) \div WordBits
WordOf(n)    == n \div WordBits
Bits(k, w)   == {n \in Node(k) : WordOf(n) = w}
NodeCount(k) == Blocks[k] - 1
Least(S)     == CHOOSE n \in S : \A m \in S : n <= m

(* Where the mask of a pointer may be: the last word of a bitmap may have  *)
(* bits beyond the last block.                                             *)
Bit(k) == 0 .. (WordOf(NodeCount(k)) + 1) * WordBits - 1

(* BITMAP_SET_LIMIT on a bitmap of zeros: the bit of the header.           *)
Limit == {0}

Pool == 2 * PoolSegments    \* SUBHEAP_DEFAULT_SEGPOOL_SIZE * 2

(* Free blocks at or after n in the word of n: BP_NEXT_MASK.               *)
Ahead(k, b, n) == Bits(k, WordOf(n)) \ (b \cup 0 .. n - 1)

(* The words that BitPtr_searchUnfilledNode may stop at, once it has set   *)
(* the level 1 bit of the word of n.                                       *)
Unfilled(k, b, f, n) ==
  {w \in Word(k) \ (f \cup {WordOf(n)}) : ~(Bits(k, w) \subseteq b)}

(* findNextFreeNode: the blocks of the word it stops at, none if it fails. *)
Found(k, b, f, n) ==
  IF Ahead(k, b, n) # {} THEN Ahead(k, b, n)
  ELSE IF Unfilled(k, b, f, n) # {} THEN Bits(k, Least(Unfilled(k, b, f, n))) \ b
  ELSE {}

(* What it leaves at level 1: the words passed over are marked full; in    *)
(* the mutant the word it stops at too.                                    *)
PassedToo(k, b, f, n) ==
  IF Ahead(k, b, n) # {} THEN f
  ELSE f \cup {WordOf(n)}
         \cup {w \in Word(k) : \A u \in Unfilled(k, b, f, n) : w <= u}
Passed(k, b, f, n) ==
  IF Ahead(k, b, n) # {} THEN f
  ELSE f \cup {WordOf(n)}
         \cup {w \in Word(k) : \A u \in Unfilled(k, b, f, n) : w < u}

(* BitPtr0_inc: the mask moves on in its word and wraps.                   *)
NoWrap(n) == n + 1                        \* mutant of Rotate
Rotate(n) == (WordOf(n) * WordBits) + ((n + 1) % WordBits)

(* findNextFreeNode from block n of segment s, and from the allocation     *)
(* pointer of class k; what it leaves at level 1.                          *)
FoundIn(k, s, n) == IF s = 0 THEN {} ELSE Found(k, base[s], full[s], n)
FoundAt(k) == FoundIn(k, at[k][1], at[k][2])
PassedAt(k) ==
  [s \in Segment |-> IF s = at[k][1] THEN Passed(k, base[s], full[s], at[k][2])
                                     ELSE full[s]]

Init ==
  /\ generational \in Builds
  /\ segments = PoolSegments
  /\ segmentList = [i \in 1 .. PoolSegments |-> i]
  /\ seglist = [k \in Klass |-> <<>>]
  /\ freelist = [k \in Klass |-> <<>>]
  /\ at = [k \in Klass |-> <<0, 0>>]
  /\ minorLeft = [k \in Klass |-> 0]
  /\ flags = {}
  /\ base = [s \in Segment |-> {}] /\ full = [s \in Segment |-> {}]
  /\ snapshot = [s \in Segment |-> <<{}, {}>>]
  /\ liveCount = [s \in Segment |-> 0] /\ tenureCount = [s \in Segment |-> 0]
  /\ live = {} /\ ptr = {} /\ roots = {}
  /\ tenured = {} /\ remembered = {}
  /\ phase = "run" /\ want = 0 /\ fresh = <<0, 0>>
  /\ idle = 0

----------------------------------------------------------------------------
(* Allocation: one step for each segment that tryAlloc looks at, one for   *)
(* the block it takes, one for the header that new_kObject sets.           *)

(* The bound: MaxLive blocks hold an object, and the next one does not.    *)
AtLimit(k) ==
  /\ Cardinality(live) = MaxLive
  /\ \/ FoundAt(k) = {}
     \/ <<at[k][1], Least(FoundAt(k))>> \notin live

AllocObject(k) ==
  /\ phase = "run"
  /\ ~AtLimit(k)
  /\ Cardinality(roots) < MaxRoots
  /\ phase' = "search" /\ want' = k
  /\ idle' = 0
  /\ UNCHANGED <<generational, supply, flags, marks, kept, heap, gen, fresh>>

(* inc and the end of bm_malloc_internal: the bit is set, the segment is   *)
(* compared with its margin, and deferred_sweep frees the object that the  *)
(* block still held, which no collection has marked.                       *)
TakeBlock ==
  /\ phase = "search"
  /\ FoundAt(want) # {}
  /\ LET s == at[want][1]
         n == Least(FoundAt(want))
     IN  /\ base' = [base EXCEPT ![s] = @ \cup {n}]
         /\ full' = PassedAt(want)
         /\ liveCount' = [liveCount EXCEPT ![s] = @ + 1]
         /\ at' = [at EXCEPT ![want] = <<s, Rotate(n)>>]
         /\ flags' = flags \cup
              {f \in {"major"} : /\ generational
                                /\ segmentList = <<>> /\ freelist[want] = <<>>
                                /\ liveCount[s] + 1 > Margin[want]}
         /\ fresh' = <<s, n>>
         /\ live' = live \ {<<s, n>>}
         /\ ptr' = {e \in ptr : e[1] # <<s, n>>}
  /\ phase' = "init"
  /\ UNCHANGED <<generational, segments, segmentList, seglist, freelist, minorLeft,
                 kept, roots, gen, want, idle>>

(* OBJECT_INIT and new_kObject.                                            *)
InitObject ==
  /\ phase = "init"
  /\ live' = live \cup {fresh}
  /\ roots' = roots \cup {fresh}
  /\ tenured' = tenured \ {fresh}
  /\ phase' = "run" /\ want' = 0 /\ fresh' = <<0, 0>>
  /\ UNCHANGED <<generational, supply, flags, marks, kept, ptr, remembered, idle>>

(* The loop of nextSegment.                                                *)
PopSegment ==
  /\ phase = "search"
  /\ FoundAt(want) = {}
  /\ freelist[want] # <<>>
  /\ full' = PassedAt(want)
  /\ at' = [at EXCEPT ![want] = <<Head(freelist[want]), 0>>]
  /\ freelist' = [freelist EXCEPT ![want] = Tail(@)]
  /\ UNCHANGED <<generational, segments, segmentList, seglist, minorLeft, flags,
                 base, liveCount, kept, heap, gen, phase, request, idle>>

(* The segments of HeapManager_ExpandHeap, which replace segmentList.      *)
Expansion == [i \in 1 .. Pool |-> segments + i]

(* newSegment: class k takes segment pick[k], or none if pick[k] is 0, and *)
(* its pointer goes there; f, a and saved are what the marks of level 1,   *)
(* the pointers and the snapshots are otherwise.                           *)
NewSegments(pick, f, a, saved) ==
  LET given == Range(pick) \ {0}
  IN  /\ seglist' = [k \in Klass |->
           IF pick[k] = 0 THEN seglist[k] ELSE Append(seglist[k], pick[k])]
      /\ base' = [s \in Segment |-> IF s \in given THEN Limit ELSE base[s]]
      /\ full' = [s \in Segment |-> IF s \in given THEN {} ELSE f[s]]
      /\ snapshot' = [s \in Segment |-> IF s \in given THEN <<Limit, {}>> ELSE saved[s]]
      /\ at' = [k \in Klass |-> IF pick[k] = 0 THEN a[k] ELSE <<pick[k], 0>>]

(* The end of nextSegment, when no segment of the class has a free block;  *)
(* if there is no other segment either, tryAlloc returns NULL and          *)
(* bm_malloc_internal asks for a collection and expands the heap.          *)
NextSegment ==
  /\ phase = "search"
  /\ FoundAt(want) = {}
  /\ freelist[want] = <<>>
  /\ LET expands == segmentList = <<>>
         list == IF expands THEN Expansion ELSE segmentList
     IN  /\ segments' = IF expands THEN segments + Pool ELSE segments
         /\ segments' <= MaxSegments
         /\ segmentList' = Tail(list)
         /\ NewSegments([k \in Klass |-> IF k = want THEN Head(list) ELSE 0],
                        PassedAt(want), at, snapshot)
         /\ flags' = flags \cup
              {f \in {"minor"} : generational /\ minorLeft[want] = 1 % MinorCount} \cup
              {f \in {"major"} : generational /\ expands}
  /\ minorLeft' = [minorLeft EXCEPT ![want] =
       IF generational THEN (@ - 1) % MinorCount ELSE @]
  /\ UNCHANGED <<generational, freelist, liveCount, tenureCount, heap, gen,
                 phase, request, idle>>

----------------------------------------------------------------------------
(* The mutator.                                                            *)

(* The segments of a class, and the class of a segment.                    *)
InUse(k) == Range(seglist[k])
KlassOf(s) == CHOOSE k \in Klass : s \in InUse(k)
Used == UNION {InUse(k) : k \in Klass}

Load(o) ==
  /\ phase = "run"
  /\ Cardinality(roots) < MaxRoots
  /\ \E r \in roots : <<r, o>> \in ptr
  /\ roots' = roots \cup {o}
  /\ UNCHANGED <<generational, supply, flags, marks, kept, live, ptr, gen, phase, request, idle>>

Drop(o) ==
  /\ phase = "run"
  /\ o \in roots
  /\ roots' = roots \ {o}
  /\ UNCHANGED <<generational, supply, flags, marks, kept, live, ptr, gen, phase, request, idle>>

(* RememberSet_Add: a tenured object that is written to is remembered.     *)
NoBarrier(o) == remembered                \* mutant of Remember
Remember(o) == remembered \cup {p \in {o} : generational /\ o \in tenured}

Store(o, p) ==
  /\ phase = "run"
  /\ o \in roots /\ p \in roots
  /\ Cardinality(ptr) < MaxEdges
  /\ ptr' = ptr \cup {<<o, p>>}
  /\ remembered' = Remember(o)
  /\ UNCHANGED <<generational, supply, flags, marks, kept, live, roots, tenured,
                 phase, request, idle>>

Erase(o, p) ==
  /\ phase = "run"
  /\ o \in roots /\ <<o, p>> \in ptr
  /\ ptr' = ptr \ {<<o, p>>}
  /\ remembered' = Remember(o)
  /\ UNCHANGED <<generational, supply, flags, marks, kept, live, roots, tenured,
                 phase, request, idle>>

(* KdeleteGcContext: HeapManager_final_Free clears the marks, so that      *)
(* every object there still is is freed, dead or not.                      *)
DeleteGcContext ==
  /\ phase = "run"
  /\ phase' = "deleted"
  /\ live' = {} /\ ptr' = {} /\ roots' = {}
  /\ base' = [s \in Segment |-> IF s \in Used THEN Limit ELSE base[s]]
  /\ full' = [s \in Segment |-> IF s \in Used THEN {} ELSE full[s]]
  /\ liveCount' = [s \in Segment |-> IF s \in Used THEN 0 ELSE liveCount[s]]
  /\ UNCHANGED <<generational, supply, flags, kept, gen, request, idle>>

----------------------------------------------------------------------------
(* The collection.                                                         *)

(* bmgc_gc_Init: the marks a collection starts from.  A major one clears   *)
(* them, a minor one loads those the last collection left.                 *)
Major == "major" \in flags
Minor == "minor" \in flags
AlwaysLoaded(s) == snapshot[s]            \* mutant of StartMarks
StartMarks(s) == IF Major THEN <<Limit, {}>> ELSE snapshot[s]
StartCount(s) == IF Major THEN 0 ELSE tenureCount[s]

(* What bmgc_gc_mark visits first: the roots and, in a minor collection,   *)
(* the fields of the remembered objects (RememberSet_Reftrace).            *)
RootsOnly == roots                        \* mutant of Visited
Visited ==
  roots \cup (IF Minor THEN UNION {Children(o, ptr) : o \in remembered} ELSE {})

(* mark_mstack does not go on from an object whose bit is set: what the    *)
(* marking adds is what is found without passing through one.              *)
MarkedAt(o) == o[2] \in StartMarks(o[1])[1]
NewMarks ==
  Reachable({o \in Visited : ~MarkedAt(o)},
            {e \in ptr : ~MarkedAt(e[1]) /\ ~MarkedAt(e[2])})

(* KscheduleGC at a safepoint, to the end of bmgc_gc_mark: the flags are   *)
(* reset, every object marked is tenured from now on, level 1 learns the   *)
(* words that fill up, a minor collection has emptied the remembered set.  *)
Mark ==
  /\ phase = "run"
  /\ flags # {}
  /\ LET new == NewMarks
         In(s) == {n \in Node(KlassOf(s)) : <<s, n>> \in new}
         Filled(s, b) == {w \in Word(KlassOf(s)) :
                            /\ Bits(KlassOf(s), w) \subseteq b
                            /\ Bits(KlassOf(s), w) \cap In(s) # {}}
     IN  /\ base' = [s \in Segment |->
              IF s \in Used THEN StartMarks(s)[1] \cup In(s) ELSE base[s]]
         /\ full' = [s \in Segment |->
              IF s \in Used THEN StartMarks(s)[2] \cup Filled(s, base'[s]) ELSE full[s]]
         /\ liveCount' = [s \in Segment |->
              IF s \in Used THEN StartCount(s) + Cardinality(In(s)) ELSE liveCount[s]]
         /\ tenured' = tenured \cup new
  /\ remembered' = IF Minor THEN {} ELSE remembered
  /\ flags' = {}
  /\ phase' = "sweep"
  /\ idle' = IF idle < 2 THEN idle + 1 ELSE 2
  /\ UNCHANGED <<generational, supply, kept, heap, request>>

(* rearrangeSegList: the segments of a class with free blocks, the first   *)
(* of them fetched; a class that is left with less than a segment of free  *)
(* blocks, all in the segment fetched, gets a new one.                     *)
EverySegment(k) == seglist[k]             \* mutant of Unfilling
Unfilling(k) ==
  LET upto[i \in 0 .. Len(seglist[k])] ==
        IF i = 0 THEN <<>>
        ELSE IF liveCount[seglist[k][i]] < NodeCount(k)
               THEN Append(upto[i - 1], seglist[k][i])
               ELSE upto[i - 1]
  IN  upto[Len(seglist[k])]
Dead(k) ==
  Cardinality({c \in InUse(k) \X (1 .. NodeCount(k)) : liveCount[c[1]] < c[2]})
OrEqual(k) ==                             \* mutant of CheckFull
  seglist[k] # <<>> /\ Dead(k) <= NodeCount(k) /\ Len(Unfilling(k)) <= 1
CheckFull(k) ==
  seglist[k] # <<>> /\ Dead(k) < NodeCount(k) /\ Len(Unfilling(k)) <= 1

(* bmgc_gc_sweep: the marks are saved for the next minor collection; if a  *)
(* class needs a segment, a major collection is asked for and the heap     *)
(* expands, whatever segmentList still holds.                              *)
Sweep ==
  /\ phase = "sweep"
  /\ LET needy == {k \in Klass : CheckFull(k)}
         expands == needy # {}
     IN  /\ NewSegments(
              [k \in Klass |-> IF k \in needy
                 THEN segments + Cardinality({j \in needy : j <= k}) ELSE 0],
              full,
              [k \in Klass |-> IF Unfilling(k) = <<>> THEN at[k]
                               ELSE <<Head(Unfilling(k)), 0>>],
              [s \in Segment |-> IF s \in Used THEN <<base[s], full[s]>> ELSE snapshot[s]])
         /\ segments' = IF expands THEN segments + Pool ELSE segments
         /\ segments' <= MaxSegments
         /\ segmentList' = IF expands
              THEN SubSeq(Expansion, Cardinality(needy) + 1, Pool) ELSE segmentList
         /\ flags' = IF expands THEN flags \cup {"major"} ELSE flags
  /\ freelist' = [k \in Klass |->
       IF Unfilling(k) = <<>> THEN <<>> ELSE Tail(Unfilling(k))]
  /\ tenureCount' = [s \in Segment |-> IF s \in Used THEN liveCount[s] ELSE tenureCount[s]]
  /\ phase' = "run"
  /\ UNCHANGED <<generational, minorLeft, liveCount, heap, gen, request, idle>>

----------------------------------------------------------------------------
Next ==
  \/ \E k \in Klass : AllocObject(k)
  \/ TakeBlock \/ InitObject \/ PopSegment \/ NextSegment
  \/ \E o \in roots : Drop(o)
  \/ \E e \in ptr : Load(e[2]) \/ Erase(e[1], e[2])
  \/ \E o, p \in roots : Store(o, p)
  \/ DeleteGcContext
  \/ Mark \/ Sweep

Spec == Init /\ [][Next]_vars

----------------------------------------------------------------------------
(* Properties.                                                             *)

(* The variables hold what their C counterparts can hold.                  *)
TypeOK ==
  /\ generational \in Builds
  /\ segments \in 0 .. MaxSegments
  /\ segmentList \in Seq(Segment)
  /\ seglist \in [Klass -> Seq(Segment)] /\ freelist \in [Klass -> Seq(Segment)]
  /\ DOMAIN at = Klass /\ \A k \in Klass : at[k] \in (Segment \cup {0}) \X Bit(k)
  /\ minorLeft \in [Klass -> 0 .. MinorCount - 1]
  /\ flags \in SUBSET {"minor", "major"}
  /\ base \in [Segment -> SUBSET Nat] /\ full \in [Segment -> SUBSET Nat]
  /\ snapshot \in [Segment -> (SUBSET Nat) \X (SUBSET Nat)]
  /\ liveCount \in [Segment -> Nat] /\ tenureCount \in [Segment -> Nat]
  /\ live \in SUBSET Cell /\ roots \in SUBSET Cell /\ ptr \in SUBSET (Cell \X Cell)
  /\ tenured \in SUBSET Cell /\ remembered \in SUBSET Cell
  /\ phase \in {"run", "search", "init", "sweep", "deleted"}
  /\ want \in Klass \cup {0}
  /\ fresh \in Cell \cup {<<0, 0>>}
  /\ idle \in 0 .. 2

(* No block that the program can still reach is ever free for an           *)
(* allocation: its bit is set whatever collections ran before, minor ones  *)
(* that looked only at the young objects included (mark_mstack,            *)
(* RememberSet_Add, TakeBlock).                                            *)
ReachableMarked ==
  \A o \in Reachable(roots, ptr) :
    o \in live /\ o[1] \in Used /\ o[2] \in base[o[1]]

(* What makes a minor collection right: a field of a tenured object that   *)
(* holds a young one is a field of a remembered object.                    *)
Tenure(o) == o[1] \in Used /\ o[2] \in snapshot[o[1]][1]
YoungRemembered ==
  generational /\ phase # "deleted" =>
    \A e \in ptr : e[1] \in Reachable(roots, ptr) /\ Tenure(e[1]) =>
      Tenure(e[2]) \/ e[1] \in remembered \/ phase = "sweep"

(* The bitmaps of a segment agree with each other: live_count is the       *)
(* number of blocks marked, level 1 hides no word that has a free block,   *)
(* the header's bit is set, and the same holds of the snapshot that the    *)
(* next minor collection starts from.                                      *)
MarksAgree(k, b, f, count) ==
  /\ 0 \in b
  /\ count = Cardinality(b) - 1
  /\ \A w \in f : Bits(k, w) \subseteq b
BitmapSound ==
  phase # "deleted" =>
    \A k \in Klass : \A s \in InUse(k) :
      /\ MarksAgree(k, base[s], full[s], liveCount[s])
      /\ MarksAgree(k, snapshot[s][1], snapshot[s][2], tenureCount[s])

(* Every segment is at one place: unused, or of one class and there once;  *)
(* a segment put back for allocation belongs to the class, is not the one  *)
(* the pointer is in, and has a free block that findNextFreeNode finds     *)
(* (DBG_ASSERT(seg->live_count < SegmentNodeCount) of nextSegment); a      *)
(* segment never given out has no live count (DBG_ASSERT of newSegment).   *)
SegmentsPlaced ==
  /\ IsInjective(segmentList)
  /\ \A s \in Range(segmentList) : s \notin Used /\ liveCount[s] = 0
  /\ \A k \in Klass :
       /\ IsInjective(seglist[k]) /\ IsInjective(freelist[k])
       /\ \A j \in Klass \ {k} : InUse(k) \cap InUse(j) = {}
       /\ at[k][1] \in InUse(k) \cup {0}
       /\ phase \in {"run", "search", "init"} =>
            \A s \in Range(freelist[k]) :
              /\ s \in InUse(k) \ {at[k][1]}
              /\ FoundIn(k, s, 0) # {}

(* A major collection keeps exactly the objects that are reachable.        *)
MarksExactly ==
  phase = "run" /\ phase' = "sweep" /\ flags = {"major"} =>
    {o \in live : o[1] \in Used /\ o[2] \in base'[o[1]]} = Reachable(roots, ptr)
MajorExact == [][MarksExactly]_vars

(* The program does not collect at every safepoint for ever: a second      *)
(* collection with no allocation since the first asks for no third         *)
(* (rearrangeSegList, the new segments of bmgc_gc_sweep).                  *)
CollectSettles == idle = 2 /\ phase = "run" => flags = {}

(* The collector implements the heap that the runtime is promised: an      *)
(* object is freed, when its block is reused, only if nothing leads to it. *)
Heap == INSTANCE ObjectHeap WITH Cell <- Segment \X Nat, open <- (phase # "deleted")
HeapSpec == Heap!Spec
============================================================================
