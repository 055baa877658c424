# TLA+ for Konoha 3

Models, model checks and proofs for the runtime of Konoha, a statically typed
scripting language written in C. Paths below are relative to the repository;
the manifest of the models, runs, mutants, hazards and theorems is
`PROJECT.json`.

## 1. The system

A Konoha process has a *factory* of platform modules (garbage collector,
event handler, console, JSON, execution engine), a root `KonohaContext` with the
runtime (symbol tables, class table, packages, name spaces), and one evaluation
stack per context. Scripts are tokenised, parsed by pattern-driven syntax
functions that packages can extend, type-checked, compiled, and run by an
execution engine. Native functions end in a *safepoint*
(`KReturn` -> `CheckSafePoint`, `src/konoha/import/klibexec.h:841`), and a
safepoint is the only place where a collection runs and where events are
dispatched: what happens there happens *inside* whatever native function or
script method was under way.

| component | state | operations | what makes it correct |
|---|---|---|---|
| MSGC collector (`src/module/GC/MSGC/MSGC.c`) | arenas and free list per size class, threshold, mark stack, collection request | KallocObject, KscheduleGC, mark, sweep, expand, delete | reachable objects stay, garbage goes, a cell is in one place, the list never runs dry |
| GCModule interface (`include/konoha3.h`) | objects, fields, roots | AllocObject, Reftrace, WriteBarrier, DeleteGcContext | the contract above, whatever the collector |
| Bitmap collectors (`src/module/GC/BitmapGC/bmgc.h`) | segments, bitmaps, remembered set | allocation, minor and major collection, expansion | the same contract; old-to-young references remembered |
| Event listener package (`src/package-devel/MiniKonoha.EventListener`) | two rings, flag, script queue, mutex | listener threads, KscheduleEvent, enqueueEvent, Dispatcher.invoke | each accepted event handled once, in spite of two threads and nested drains |
| Platform event modules (`src/module/Event`) | ring, lock, condition, safepoint word | Start, Stop, Emit, Dispatch, Wait: no caller in the repository | - |
| KDict, KHashMap, symbol tables (`src/konoha/import/klibexec.h`) | sorted and unsorted entries; chains, arena | Add, Get, Remove, Set, merge; intern | a map; a symbol and its name determine each other |
| Name spaces, packages (`src/parser/import/namespace.h`) | constants, syntaxes and cached lists of them, imports, package map | import, load, define, look up | one load per package, no half-loaded package, syntaxes in order, objects kept |
| Methods (`namespace.h`, MiniVM) | method lists, inline caches | define, search, bind, call | the search finds what is there; a call changes its meaning only for a nearer method |
| Exceptions and stack (`klibexec.h`, MiniVM) | jump buffer, stack pointers | try, raise, call | a raise reaches the innermost try |
| Contexts and threads (`src/konoha/konoha.c`, `posix.thread`) | per-context tables | new, free, Thread.create, join | a context is freed once, by its owner |
| Class table (`src/konoha/import/datatype.h`) | classes, variants | define, look up | one class per identifier |
| Parser, preprocessor, AST compiler, MiniVM, FuelVM, JavaScript back end | trees, code | parse, check, compile, run | a translation; reached by the tests of the repository |
| Console, diagnosis, I18N, logger, JSON, commands, packages | - | input and output, bindings | - |

How they interact: every component allocates through GCModule; a collection
calls back `ReftraceAll`, which visits the evaluation stack, the tables and each
module's context; `CheckSafePoint` calls the collector and then
`KscheduleEvent`; the event package calls script methods, which call native
getters, which reach safepoints; listener threads touch only the rings.

What is hard: a collection in the middle of anything; two threads on a ring
without a lock; drains that nest inside the script methods they call; exceptions
that `longjmp` over locks and frames; limits (free list, mark stack, ring);
hash and order assumptions of the tables; re-entrant package loading.
`PROJECT.json` lists these hazards at their lines.

## 2. Modules

    ObjectGraph       reachability in a graph of objects
    ObjectHeap        abstract: what a GCModule promises        (EXTENDS ObjectGraph)
    MSGC              the mark-and-sweep collector              (implements ObjectHeap)
    MSGCProofs        theorems about MSGC                       (EXTENDS MSGC)
    BitmapHeap        the bitmap collector                      (implements ObjectHeap)
    RawEventFifo      abstract: a bounded first-in first-out buffer
    LocalQueue        the ring between two threads              (implements RawEventFifo)
    LocalQueueProofs  theorems about LocalQueue                 (EXTENDS LocalQueue)
    EventListener     listener threads, safepoints, dispatcher  (INSTANCEs LocalQueue twice)
    PropertyMap       abstract: a map that is read, written and merged into
    KDict             sorted array with an unsorted tail        (implements PropertyMap)
    KHashMap          hash chains in a growing arena, symbols   (implements PropertyMap)
    NameSpace         constants, syntaxes, cached lists         (operations, no Next)
    PackageLoader     statements, try and raise, import, load   (EXTENDS NameSpace)
    MethodTable       method lists, search, inline cache
    KDictProofs, KHashMapProofs, PackageLoaderProofs, MethodTableProofs,
    EventListenerProofs, BitmapHeapProofs
                      theorems about the module of that name    (each EXTENDS it)
    MC*               values of the constants for TLC

**ObjectHeap.** Live objects, edges between them, roots. `Reclaim` takes back one
unreachable object at a time; allocation, field writes, field reads, and
dropping a root are the mutator's. It is written so that any collector of the
repository can be shown to implement it.

**MSGC.** The cell `<<c, n>>` is slot `n` of size class `c`, numbered through the
arenas. `freelist` is the linked list as a sequence, `size` is the field
`freelist.size`, which is *not* always its length: `new_ObjectArena` notes as the
tail of a new arena the first slot of its last page (`MSGC.c:453`), and
`gc_extendObjectArena` links the old list there, so the rest of that page is
never used although it is counted. `KeptSlots` and `ExtendChain` keep this.
`AllocObject` is `KallocObject` with `FREELIST_POP`, which asks for a collection
when the size is at or below the threshold, before it takes the cell;
`AllocFault` is the same with an empty list. `ScheduleGC` is the safepoint.
The collection is not atomic in the model (`Visit`, `Reftrace`, `MarkDone`,
`SweepSlot`, `CheckExpand`, `ExtendArena`) so that the invariants say what holds
in the middle of it; no mutator action is enabled then, as in the code, where
the thread is inside the safepoint. The roots are a set of held objects; what
the program does with them is any sequence of `Load`, `Store`, `Erase`, `Drop`.

**LocalQueue.** One step per access to the shared fields. `enqueue` is test,
write, publish; `dequeue` is test, read, release. The stores take effect in
program order: that is so on x86-64, where the compiler emits them in the order
of the source; the code has no barrier, and weaker machines are not modelled.

**EventListener.** Two listener threads act as producers of two rings. The
program's thread is a stack of calls (`stack`): `KscheduleEvent`, the script's
`enqueueEvent` and `Dispatcher.invoke`. Every field a script method reads goes
through `KMethodFunc_ObjectFieldGetter`, which ends in a safepoint, so each of
these methods has points where `KscheduleEvent` is called again (`AfterGetters`,
`NextGetter`, `LastGetter`); a row of getters takes its safepoint one or more
times. `Raise` is a handler's exception: `longjmp` to the program's `try`, past
every frame on the stack and past the unlock. Two history variables name what it
destroys: the events `enqueueEvent` had in hand (`dropped`) and the calls of
`invoke` cut off before the lock, each of which leaves its event on the EventQueue
(`stranded`); `NoEventLost` and `NothingLeftBehind` say that it destroys nothing else. `NULL` is what `json_loads` returns
for a malformed body and is enqueued like an event. A LocalQueue is not
repeated here: `HttpQueue` and `SignalQueue` are instances over the fields of
each source, and their specifications are properties of the composition.

**BitmapHeap.** `bmgc.h` allocates over the mark bits: the allocation pointer of a
class walks the bitmap of its segment from unmarked bit to unmarked bit, so that
a sweep touches no cell. `live` is what has been handed out and not yet handed
out again: a collection only unmarks, and `deferred_sweep` frees an object when its
cell is taken for another (`TakeBlock`). The bitmap has two levels (`Word` nodes under a
word), as the search `BitPtr_searchUnfilledNode` skips full words by the level
above. A collection is two actions, `Mark` and `Sweep`; the marking itself is not
taken step by step as in MSGC, and `NewMarks` says what it reaches: it does not go
on from an object that was marked before.
What the source shows and a reader might not expect:
- `USE_GENERATIONAL_GC` is defined nowhere in the build. Without it no collection is
  ever asked for and the heap only grows. Both settings are modelled: the variable
  `generational` is chosen initially from `Builds` and never changes.
- `HeapManager_ExpandHeap` overwrites the list of unused segments (`bmgc.h:1251`);
  a sweep that expands (`bmgc.h:1921`) may lose some that were left.
- Objects larger than 4096 bytes are allocated with `malloc` outside the segments
  (`bmgc.h:1381`) and are not modelled; nor is the 32-bit layout.
- The macros `minorGC` and `majorGC` are swapped (`bmgc.h:1370`), and unused.

**KDict.** `KDict_GetNULL` is a binary search of the sorted front and a scan of the
tail. It is taken one comparison at a time (`Probe`, `Scan`) so that the invariant
says of every step what has been excluded, and so that no recursion stands in
the way of a proof. `qsort_i` compares with `akey - bkey` as an `int`, the search with
`<`; `compr` keeps the width (`Half`), and `DictAssumption` states of the keys in use
that the two agree. It holds of names (attribute 0x0), syntax lists (0x1) and
patterns (0xE, 0xF); it fails for an annotation (0x6) together with a pattern, which
only a script that defines such a constant brings about. `Sortings` is any
arrangement the comparison allows, as `qsort` is not stable. A removed key keeps
its entry: a merge that does not override leaves it removed (PropertyMap's
`Removed`, apart from `Absent`).

**KHashMap.** Entries are positions in the arena. `Grown` is the doubling with
`KHashMap_Rehash`; `KHashMap_ShiftPointer` is left out since every pointer it moves
is overwritten by the rehash that follows: no entry is free when the arena
grows. A behaviour is either that of a symbol table, from which nothing is ever
removed (`interning`), or that of a script's Map, where removal returns entries
to the free list. The tables are locked in the code; one thread is modelled.

**NameSpace and PackageLoader.** `NameSpace` has one operator per function of
`namespace.h`; tables are functions (KDict is why they may be). `PackageLoader`
calls them from a stack of C frames: a script, a statement in its `try`, an
import, a require, a load. Statements are parsed before their `try` begins
(`Parse`), which is where the syntax lists are filled. A handler written in C
(`Packup`) may define, import, require or fail at any point; errors reported
inside it raise (`KBeginCritical`), errors of a script only break it off.
A statement may call `import`, `load`, `hate`, `SetConst` and `DefineSyntax` on any name
space there is (`Existing`), not only its own: a NameSpace is a value. `Include` is
`NameSpace.load`; a file that cannot be read is only reported, as an empty one.
`evaljmpbuf` is the frame it names, or zeros, or NULL; `frames[i].saved` is the
copy a `try` keeps in `lbuf`. The command's options, script and shell are the
bottom of the stack. What the source shows:
- Outside the outermost `try` the buffer is zeros and not NULL once there has been
  one. `konoha -I a -I missing`, where loading `a` evaluates a statement, raises
  there and jumps through zeros (`halted = "wild"`) instead of exiting.
- A raise out of a package's handler leaves its entry without a name space: every
  later import of it says "recursive importing".
- A syntax list is stale when another name space gains a syntax afterwards. So the
  comments `ObjectItems[0] == syn` (`ast.h:59`, `typecheck.h:58`) can be false;
  `ListsInOrder` is what holds instead.
- `RemoveSyntax` does nothing, and returns true, if the list was never asked for;
  `NameSpace.hate` (`parser.c:250`) reads its key from the second argument of one.
- The option `kNameSpace_Override` is tested in two places and set in none.

**MethodTable.** A public method goes to the list of its class, any other to that
of the defining name space; the search goes class by class, and for each through
the name space, its parents and the class. A list with more than `TailMax` methods
unsorted is sorted by the search that comes to it: `Resorted` picks any order the
comparison allows, since methods of one key compare equal; the search goes on in
the sorted lists up to where it stops (`Passed`). `AddMethod` has the four outcomes
of `kNameSpace_AddMethod`: new, overriding (which makes the overridden method
virtual), replaced by @Override, refused. A call is bound when it is compiled
(`Compile`); if the method is virtual by then, it is looked up at each call through
the inline cache (`Invoke`). Signatures are values: matching by number and types
of arguments, coercion and overloading are left out. On 64-bit machines
`Method_id` does not collide (`khalfword_t` has 32 bits), so class and name are
kept apart by `Key`.

## 3. Runs

| run | question | bounds | result |
|---|---|---|---|
| `msgc_pool` | free lists, accounting, reserve | one class, arenas of 2 pages of 2 slots, no fields, 5 roots | passes |
| `msgc_graph` | graph properties, three sweeps, termination, refinement of ObjectHeap | two classes, pages of 1 slot, 3 live objects, 2 roots, 3 edges, bursts of 3, which empty a list | passes |
| `msgc_burst` | allocation without safepoints | `MaxBurst` = 5 | violates `NoFault` |
| `local_queue` | refinement of RawEventFifo | 4 slots, 3 events, as many as one likes | passes |
| `event_listener` | events neither lost nor repeated nor left | rings of 2 slots, 3 events, 1 malformed request, 1 exception | passes |
| `event_listener_live` | every accepted event handled | the same with 2 events | passes |
| `event_listener_lock` | the mutex is given back | 2 events | violates `LockGivenBack` |
| `bitmap_heap` | bits, segments, remembered set, exact major collection, refinement of ObjectHeap | two classes, words of 2 bits, 5 segments, 3 live objects, 2 edges, both builds | passes |
| `kdict` | the search can rely on the sort; refinement of PropertyMap | 5 keys of both signs, tails of 1, batches of 1 to 3 pairs | passes |
| `khashmap` | chains and free list; symbols and names; refinement of PropertyMap | 4 names, two with one hash, arena 1 to 4, heads 1, 3, 7 | passes |
| `package_loader` | raises, circular imports, cached lists, kept objects | 2 packages and a missing one, 3 calls, 4 table entries | passes |
| `method_table` | search, definitions, inline caches | 2 name spaces, 2 classes, 2 signatures, 3 methods, 1 call, tails of 0 | passes |

Why the bounds are enough. *MSGC:* an arena of four slots already has a page that
is cut off by an expansion, a threshold that is reached, and several expansions;
the mark stack starts with two slots, so that it doubles within the run; three
objects of two classes with three edges give cycles, sharing and garbage chains
across classes, and cells are reused with every collection. `ThresholdDivisor` is 2 instead of 8 because one
eighth of four slots would be none. The theorems of section 4 remove these
bounds. *LocalQueue:* four slots wrap around and can be full and empty; the
numbering of events is by model value, without limit on their number.
*BitmapHeap:* a segment of two words needs both levels of the bitmap; five segments
are the first pool, one expansion by allocation and one by a sweep that has
segments left; three objects and two edges give an old object that points to a
young one and a garbage chain; with `MinorCount` 2 every second new segment of a
class asks for a minor collection, a full last segment or an expansion for a
major one. *KDict:* with a tail of one, the third addition after a sort sorts again, be it
by Set or inside a merge, and a merge into the empty map sorts at once. *KHashMap:* four names fill the arena after
two growths; removal from the middle of a chain needs three entries in one, which
`k3` gives until the second growth. *PackageLoader:* two packages suffice for a
circle, the third raises; three calls nest a statement in a load in an import in
a statement. Four entries let two name spaces and their cached lists differ.
*MethodTable:* three methods give an overriding and an overridden one with a third
of the other name space; `TailMax` 0 makes the search sort whenever something was
added, so that both the binary search and the tail are met in every order.
*EventListener:* three events are one being handled, one in a nested drain and
one behind it; with two slots each ring is full with one event. `MaxEvents`,
`MaxMalformed` and `MaxRaises` bound the environment, never the program; likewise
`MaxLive`, `MaxRoots`, `MaxEdges`, `MaxSegments`, `MaxArena`, `MaxCalls`, `MaxEntries`
and `MaxMethods` in the other modules.

Symmetry is used in `khashmap` (the two names of one hash), `package_loader` (the two
packages that are found) and `method_table` (the signatures): nothing in those
modules orders or chooses among them, and none of the three checks liveness.

`CHECK_DEADLOCK FALSE` stands where the system may stop: a deleted context and a
fault in MSGC, a deleted context or a full heap in BitmapHeap, in EventListener the
thread that waits for its own mutex, and in MethodTable the bounds.

**Fairness.** `MSGC`: weak fairness of the collector's steps: the thread that
entered the safepoint runs on and does nothing else. `EventListener`: weak
fairness of the program's thread, which goes on calling native functions, and
strong fairness of `LastGetter`: a row of getters is finite. Nothing is assumed
of listener threads, requests or signals.

### What the violations show

* `msgc_burst`: `DBG_ASSERT(freelist.list != NULL)` (`MSGC.c:358`) does not hold of a
  program that allocates more objects of one class between two safepoints than
  the threshold keeps back. With the constants of the code (arenas of 65536
  slots of the smallest class, see section 4) the reserve is large, and
  `NeverOutOfCells` says exactly how large it must be.
* `event_listener_lock`: `Dispatcher.invoke` locks, then reads fields. If an event
  arrives meanwhile, the safepoint of a getter enqueues it, sets the flag, and
  calls `invoke` again *in the same thread*, which locks the default mutex it
  holds. The comment `/* finally */` (`EventListener_glue.k:103`) promises the
  unlock; it is also skipped when a handler raises. The run allows no exception
  (`MaxRaises` = 0), so that its trace is the first of the two.

The properties of `event_listener` say what holds in spite of it: up to the point
where the thread locks itself out, no event is repeated, and none is lost but what
`enqueueEvent` had in hand at an exception. Whenever the program's own code runs
and no dispatch is requested, the EventQueue holds one event for each call of
`invoke` that an exception cut off before its lock, and is empty without exceptions.
The last one is not obvious: the flag has room for one request and `invoke` takes one event.
It holds because `enqueueEvent` reads a field, and so passes a safepoint, before
it adds: an earlier request has been dispatched by then. Reading that field
without a safepoint breaks it (the mutant `AddsAtOnce`).

## 4. Proofs

All theorems are checked by TLAPS, for every value of the constants that meets the
assumption of the module. The assumptions say what the code's tables and
constants are, and nothing about small values:

| module | assumption | says |
|---|---|---|
| MSGC | `PoolAssumption`, `BoundAssumption` | sizes are positive |
| BitmapHeap | `HeapAssumption` | sizes are positive, a segment and a word have two blocks and bits or more; there are at most twice as many size classes as segments in the first pool (the code: 8 and 128), so that one expansion has a segment for each |
| LocalQueue, EventListener | `QueueAssumption`, `ListenerAssumption` | a ring has two slots or more |
| KDict | `DictAssumption` | `qsort_i` and `<` agree on the keys in use; a batch has each key once |
| KHashMap | `HashAssumption` | hashes are natural numbers; arena and table begin with a slot or more |
| NameSpace, PackageLoader | `LineageAssumption`, `LoaderAssumption` | a name space is the first of its own lineage |
| MethodTable | `MethodAssumption` | the same of classes; what follows a parent in a lineage is the parent's lineage, and none comes twice |

Each proof has the same shape: the initial states have an inductive invariant, each
action keeps it (a lemma for each action or group of actions), and the properties
follow from it. The bounds of the runs (`MaxLive`, `MaxEvents` and so on) are any numbers
there. What follows names the invariant and why it is stronger than
the property.

**MSGCProofs.**
`TypeCorrect`: the type invariant.
`InductiveInvariant`: `IInv == CellInv /\ GraphInv`. `ReachableLive` is not
inductive: what protects an object in the middle of a collection depends on
the phase. `GraphInv` says it phase by phase: while marking, a marked object is on
the mark stack or its children are marked or about to be visited; while
sweeping, the marked objects and those already passed form a set closed under
the edges that contains the roots; outside, no mark is set and the live objects
are closed. `CellInv` keeps live cells inside the arenas and the free lists
injective, disjoint from the live cells and inside the arenas.
`ReachableIsLive` and `FreeListIsSound` follow.
`CollectionIsExact` is the other half, an action property: `ExactInv` says that
nothing is marked, about to be visited or kept that is not reachable, while the
edges of swept objects vanish (`ReachableWithout`: they make nothing reachable
and nothing unreachable); when the last class is swept, every live cell is behind the
cursor.
`ImplementsHeap`: every step of the collector is a step of ObjectHeap or a stutter;
the sweep of a cell is `Reclaim`, because what is unmarked and not yet passed is
outside a closed set that holds the roots.
`NeverOutOfCells`: under `BurstFits`, `NoFault`. The invariant `RoomInv` relates
the threshold, the size, the slots cut off (`Cut`, one page less a slot for
each arena but the first) and the burst: the threshold keeps back the slots cut
off and one burst; each expansion doubles the arenas, which raises the
threshold more than the cut. With an arena of 4 MB a class of 65536 slots has
`Quota` 8192 and loses 63 per arena, so bursts up to 8129 objects are safe; the
larger classes have proportionally less.
`MarkStackNeverOverflows`: `MarkStackFits` is inductive by itself: the stack has
doubled when one more push would fill it.
`SlotsAreAccountedFor`: `AccountInv` adds that no slot cut off is ever listed or in use,
and counts them by arena; `CutCount` shows that this count is the number of slots
that `CutOff` describes.

**BitmapHeapProofs.** The invariant has five parts, proved one on top of the other.
`PlaceInv`: a segment is at one place, among the unused ones or in one class.
`BitmapInv`: in each segment of a class the live count, the words marked full and the
blocks marked agree, for the marks and for the snapshot; while the program
runs, the allocation pointer has no free block behind it in its word (`Behind`) and
the search finds one in each segment that waits. A minor collection starts from the
snapshot and a major one from nothing; what `Mark` adds keeps the counts.
`GraphInv`: the roots are marked, and the marked objects (`Held`) lead to marked objects
only. That is what an allocation must not break: the block it takes is not marked,
so no marked object led to the one that was there.
`AgeInv`: what the last collection marked is marked still, and is tenured; a field of such
an object holds another or is remembered. A minor collection, which does not go
on from tenured objects, therefore still marks a closed set.
`SettleInv`: after a collection with no allocation since, a class that needed no room
needs none: counts only fall.
The theorems are the six invariants of the run (`TypeCorrect`, `SegmentsArePlaced`,
`BitmapsAreSound`, `ReachableIsMarked`, `YoungAreRemembered`, `CollectionSettles`), `MajorIsExact`
and `ImplementsHeap`, where taking a block is `Reclaim` of what was in it.
The proof found the type invariant wrong for the constants of the code: the pointer's
mask may stand beyond the last block (`Bit`; a class of 32 blocks in words of 64 bits),
which no run shows whose classes fill their words.

**LocalQueueProofs.**
`QueueInvariant`: the indices and the slots between them, and that the slot an
enqueue has written or a dequeue has read is not touched by the other thread.
`ImplementsFifo`: the sequence of slots from `last` to `front` is the abstract
buffer; `EnqueuePublish` appends, `DequeueRelease` takes the head, the other steps
stutter or refuse or find nothing.

**EventListenerProofs.** `QueuesAreLocal`: each ring, in the middle of the package, runs
LocalQueue's specification, so the invariant of LocalQueueProofs holds of it
(`RingInv`; its lemma is used through INSTANCE and not proved again).
`StackInv` says which calls can stand below others, for any depth of nesting.
`LockInv`: one call at most is inside the lock, and the event it is about to take is the
head of the queue. `RequestInv`: the length of the queue is the number of calls of `invoke` that have not
taken their event, plus one if the flag is set, plus `stranded`; and the flag is set
only where the schedule below will look at it again. An exception moves the calls it
cuts off from the first summand to the last, so the sum holds through it.
`NothingIsLeftBehind` is its case of the empty stack.
`CopiesInv` counts the places of an event, of which `dropped` events have none:
`NoEventRepeated`, `NoEventIsLost`. Neither excludes exceptions.

**KDictProofs.** `SearchIsSound`: `IInv` says of each probe that the entries up to `min`
are smaller and those from `max` on larger than what is sought, of a scan what it
has passed, and of a merge which of its pairs are found. As first checked by TLC it
was not inductive: it lacked what the call under way knows of its own arguments.
The key fact is `SortingKeeps`: under `DictAssumption` any arrangement `qsort` may leave
is strictly ordered, since no key comes twice.
`ImplementsMap`: a lookup answers by what `IInv` excludes; a merge is open on the pairs
it has not dealt with.

**KHashMapProofs.** Chains are reachability along `next`. Three lemmas say what becomes of all
the chains together: an entry is put in front of one (`Insert`), taken out from
anywhere in one (`TakeOut`; a removal is a `TakeOut` from its chain and an `Insert` in the
free list), all are built anew by the rehash (`Rebuild`: the next of an entry is
the last one before it with the same bucket). `ChainsAreSound` rests on them, with
`Searching`: the entry sought is not behind the walk. The chains alone are not
inductive: without it an addition could enter a name twice.
`SymbolsAreNames` follows since a symbol is the length of the list when it is made.
`ImplementsMap` maps the chains to a function from names to values.

**PackageLoaderProofs.** `JumpInv`: what a `try` has saved is the next `try` below it, so
restoring it is right however deep (`RaisesLandInnermost`). `ImportsInv`: a frame that
loads has its package at "loading" and no two load the same; hence what an import
lists is loaded (`ImportsAreLoaded`). `ConstsKept` is inductive with the types.
`ListsInOrder` needs `OwnInv`: a syntax that another table took over is in the
table of its own name space too, so the syntax that a list begins with cannot
turn up later. `TypeCorrect` gives all variables their types.

**MethodTableProofs.** `ListsAreSound`: `IInv == TypeOK /\ ListsSound /\ CallsInv`. The heart is that
`kNameSpace_AddMethod` searches before it adds, so a place that has a method of a key
has one (`NoRival`), and a method that is added becomes the meaning for those
receivers only for which nothing nearer is there (`AddMeaning`, `LaterPlaces`).
`SearchIsExact`: `Position` is a recursive function; that there is such a function is proved
first (`SearchExists`), then what it returns (`PositionFinds`), both by induction on the
width of the interval: a set of numbers without the width has a least one (`LeastNat`,
from the library's theorems on well-founded relations, which need no operator as
a parameter). The rest is what the walk in
both directions and the scan of the tail collect, whatever order equal keys have.
`CachesAreFresh` follows from `CallsInv`. `MeaningIsKept` is an action property over the
same lemmas.

**Model-checked only.** Liveness (`GCTerminates`, `EveryEventHandled`, and the violation
`LockGivenBack`): fairness and ENABLED are beyond the prover. All other properties of the
passing runs are theorems. No module declares a RECURSIVE operator;
where a definition recurs (`Position`, the segments a sweep puts back, the syntaxes of a
lineage) it is a recursive function.

**Refinement.** Five modules implement an abstract one: MSGC and BitmapHeap the heap,
LocalQueue the buffer, KDict and KHashMap the map (the last with `Removed` mapped to
`Absent`, and no merge).

## 5. Not modelled

Weak memory; failure of `malloc`; the statistics of the collectors; a second
`start` of a listener (it replaces the ring while the first thread uses it); what
a handler does beyond returning or raising; the composition of a collection
with an event drain at one safepoint; the stack slots that a collection takes for
roots (MSGC and BitmapHeap have a set of roots). The platform event modules
`Http.c` and `Signal.c`: nothing in the repository calls their StartEventHandler,
EmitEvent, DispatchEvent or WaitEvent (`parser.c` calls Enter and
ExitEventContext only), so their locks and waits are listed as no hazard. Keys of
KDict more than half the range of 32 bits apart (`DictAssumption` excludes them: the
comparator of the sort wraps, and no property would catch it). Runtime contexts and threads: the tables they share are
modelled for one thread. Overloading, coercion, getters and setters in the method
search; token functions and meta patterns of name spaces; class names.
`BitmapConcGC.c` and `SignalHttpEvent.c` do not compile at this commit. Parsing,
code generation, the instruction set, console, JSON, I18N and library bindings
translate data in one thread and are reached by ordinary tests.

## 6. Plan

1. *(done)* MSGC with the heap contract, LocalQueue, EventListener; proofs of the
   first two.
2. *(done)* BitmapHeap, shown to implement ObjectHeap.
3. *(done)* KDict and KHashMap, shown to implement PropertyMap.
4. *(done)* NameSpace and PackageLoader with the jump buffer; MethodTable with the
   inline cache.
5. *(done)* Proofs of every safety and action property of the passing runs, and of the
   refinements.
6. Left: the composition of a collection with an event drain at one safepoint; contexts
   and threads over the shared tables (`konoha.c:143`, `datatype.h:722`); overloading
   and coercion in the method search; the swap of two methods by @Override
   (`namespace.h:693`).
