---------------------------- MODULE LocalQueue -----------------------------
(***************************************************************************)
(* The ring of raw events between a listener thread and the thread that    *)
(* runs the program (LocalQueue of MiniKonoha.EventListener/               *)
(* EventListener_glue.c; Http.c and Signal.c repeat it).  The two threads  *)
(* share front, last and list with no lock and no barrier: every access to *)
(* one of them is a step.                                                  *)
(*                                                                         *)
(* The stores of a thread take effect in the order of the source: that is  *)
(* what the compiler makes of these functions, and what the processor      *)
(* keeps, on the x86-64 this is built for.                                 *)
(***************************************************************************)
EXTENDS Integers, Sequences

CONSTANTS
  QueueSize,    \* slots of the ring            (code: QUEUESIZE, 64)
  Event,        \* the pointers a listener may enqueue
  NULL          \* what an empty queue hands over

ASSUME QueueAssumption == QueueSize \in Nat /\ QueueSize >= 2

Index == 0 .. QueueSize - 1

VARIABLES
  front,    \* where the next event goes
  last,     \* where the oldest event is
  list,     \* [Index -> pointer]
  prod,     \* the enqueue under way: where it is, its event
  cons,     \* the dequeue under way: where it is, what it has read
  reply,    \* what enqueue returned last, and for which event
  out       \* what dequeue returned last

vars == <<front, last, list, prod, cons, reply, out>>

next(i) == (i + 1) % QueueSize

Idle == [at |-> "idle", ev |-> NULL]

(* LocalQueue_Init: malloc_i leaves the list as it comes.                  *)
Init ==
  /\ front = 0
  /\ last = 0
  /\ list \in [Index -> Event \cup {NULL}]
  /\ prod = Idle
  /\ cons = Idle
  /\ reply = <<>>
  /\ out = NULL

----------------------------------------------------------------------------
(* enqueueRawEventToLocalQueue, in the listener thread.                    *)

NeverFull(f, l) == FALSE                      \* mutant of Full
FullTooSoon(f, l) == next(next(f)) = l        \* mutant of Full
Full(f, l) == next(f) = l

EnqueueTest(e) ==
  /\ prod.at = "idle"
  /\ \/ /\ Full(front, last)
        /\ reply' = <<e, FALSE>>
        /\ UNCHANGED prod
     \/ /\ ~Full(front, last)
        /\ prod' = [at |-> "write", ev |-> e]
        /\ UNCHANGED reply
  /\ UNCHANGED <<front, last, list, cons, out>>

EnqueueWrite ==
  /\ prod.at = "write"
  /\ list' = [list EXCEPT ![front] = prod.ev]
  /\ prod' = [prod EXCEPT !.at = "publish"]
  /\ UNCHANGED <<front, last, cons, reply, out>>

EnqueuePublish ==
  /\ prod.at = "publish"
  /\ front' = next(front)
  /\ reply' = <<prod.ev, TRUE>>
  /\ prod' = Idle
  /\ UNCHANGED <<last, list, cons, out>>

----------------------------------------------------------------------------
(* dequeueRawEventFromLocalQueue, in the thread that runs the program.     *)

DequeueTest ==
  /\ cons.at = "idle"
  /\ \/ /\ front = last
        /\ out' = NULL
        /\ UNCHANGED cons
     \/ /\ front # last
        /\ cons' = [cons EXCEPT !.at = "read"]
        /\ UNCHANGED out
  /\ UNCHANGED <<front, last, list, prod, reply>>

DequeueRead ==
  /\ cons.at = "read"
  /\ cons' = [at |-> "release", ev |-> list[last]]
  /\ UNCHANGED <<front, last, list, prod, reply, out>>

DequeueRelease ==
  /\ cons.at = "release"
  /\ last' = next(last)
  /\ out' = cons.ev
  /\ cons' = Idle
  /\ UNCHANGED <<front, list, prod, reply>>

----------------------------------------------------------------------------
Enqueue == (\E e \in Event : EnqueueTest(e)) \/ EnqueueWrite \/ EnqueuePublish
Dequeue == DequeueTest \/ DequeueRead \/ DequeueRelease

Next == Enqueue \/ Dequeue

Spec == Init /\ [][Next]_vars

----------------------------------------------------------------------------
(* Properties.                                                             *)

Doing(steps) == [at : steps, ev : Event \cup {NULL}]

(* The indices stay in the ring, and every slot holds a pointer.           *)
TypeOK ==
  /\ front \in Index
  /\ last \in Index
  /\ list \in [Index -> Event \cup {NULL}]
  /\ prod \in Doing({"idle", "write", "publish"})
  /\ prod.at # "idle" => prod.ev \in Event
  /\ cons \in Doing({"idle", "read", "release"})
  /\ reply \in {<<>>} \cup (Event \X BOOLEAN)
  /\ out \in Event \cup {NULL}

(* The number of slots in use, and the k-th of them from the oldest.       *)
Count == IF last <= front THEN front - last ELSE front - last + QueueSize
SlotAt(k) == IF last + k < QueueSize THEN last + k ELSE last + k - QueueSize

Contents == [k \in 1 .. Count |-> list[SlotAt(k - 1)]]

(* The two threads do not disturb each other: the slot an enqueue is about *)
(* to publish still holds its event and there is room for it, and the slot *)
(* a dequeue is about to release still holds the event it has read.        *)
QueueInv ==
  /\ prod.at # "idle" => Count < QueueSize - 1
  /\ prod.at = "publish" => list[front] = prod.ev
  /\ cons.at # "idle" => Count > 0
  /\ cons.at = "release" => cons.ev = list[last]

IInv == TypeOK /\ QueueInv

(* The ring is a first-in first-out buffer of QueueSize - 1 events: each   *)
(* accepted event is handed over once, in order, whatever the interleaving *)
(* of the two threads; it refuses an event only when it is full.           *)
Fifo == INSTANCE RawEventFifo WITH buf <- Contents, Capacity <- QueueSize - 1
FifoSpec == Fifo!Spec
=============================================================================
