------------------------- MODULE LocalQueueProofs --------------------------
(***************************************************************************)
(* Proofs about LocalQueue, for a ring of any size and any set of events.  *)
(***************************************************************************)
EXTENDS LocalQueue, TLAPS

(* The ring: next in terms of additions only, which is what the provers    *)
(* can reason about when the size is not a number.                         *)
LEMMA NextIndex ==
  ASSUME NEW i \in Index
  PROVE  /\ next(i) \in Index
         /\ next(i) = IF i + 1 = QueueSize THEN 0 ELSE i + 1
<1>1. QueueSize \in Nat /\ QueueSize >= 2 /\ i \in Nat /\ i < QueueSize
  BY QueueAssumption DEF Index
<1>2. CASE i + 1 = QueueSize
  <2>1. QueueSize % QueueSize = 0
    BY <1>1
  <2> QED BY <1>1, <1>2, <2>1 DEF next, Index
<1>3. CASE i + 1 < QueueSize
  <2>1. (i + 1) % QueueSize = i + 1
    BY <1>1, <1>3
  <2> QED BY <1>1, <1>3, <2>1 DEF next, Index
<1> QED BY <1>1, <1>2, <1>3

(* The slots in use are slots of the ring, all different, and front is not *)
(* one of them.                                                            *)
LEMMA SlotsInRing ==
  ASSUME front \in Index, last \in Index
  PROVE  /\ Count \in 0 .. QueueSize - 1
         /\ \A k \in 0 .. Count - 1 : SlotAt(k) \in Index /\ SlotAt(k) # front
         /\ SlotAt(0) = last
         /\ Count = 0 <=> front = last
         /\ SlotAt(Count) = front
  BY QueueAssumption DEF Index, Count, SlotAt

LEMMA InitInv == Init => IInv
<1> SUFFICES ASSUME Init PROVE IInv
  OBVIOUS
<1>1. 0 \in Index
  BY QueueAssumption DEF Index
<1> QED BY <1>1 DEF Init, IInv, TypeOK, QueueInv, Doing, Idle

LEMMA NextInv == IInv /\ [Next]_vars => IInv'
<1> SUFFICES ASSUME IInv, [Next]_vars PROVE IInv'
  OBVIOUS
<1> USE DEF IInv
<1>0. /\ front \in Index /\ last \in Index
      /\ front \in Int /\ last \in Int /\ QueueSize \in Int /\ QueueSize >= 2
  BY QueueAssumption DEF TypeOK, Index
<1>1. next(front) \in Index /\ next(front) = IF front + 1 = QueueSize THEN 0 ELSE front + 1
  BY <1>0, NextIndex
<1>2. next(last) \in Index /\ next(last) = IF last + 1 = QueueSize THEN 0 ELSE last + 1
  BY <1>0, NextIndex
<1>3. ASSUME NEW e \in Event, EnqueueTest(e) PROVE IInv'
  <2>1. TypeOK'
    <3>1. reply' \in {<<>>} \cup (Event \X BOOLEAN)
      <4>1. <<e, FALSE>> \in Event \X BOOLEAN
        OBVIOUS
      <4> HIDE DEF IInv
      <4>2. reply' = reply \/ reply' = <<e, FALSE>>
        BY <1>3 DEF EnqueueTest
      <4>3. reply \in {<<>>} \cup (Event \X BOOLEAN)
        BY DEF IInv, TypeOK
      <4> QED BY <4>1, <4>2, <4>3, Zenon
    <3>2. prod' \in Doing({"idle", "write", "publish"}) /\ (prod'.at # "idle" => prod'.ev \in Event)
      <4>1. prod' = prod \/ prod' = [at |-> "write", ev |-> e]
        BY <1>3 DEF EnqueueTest
      <4> QED BY <4>1 DEF TypeOK, Doing
    <3>3. UNCHANGED <<front, last, list, cons, out>>
      BY <1>3 DEF EnqueueTest
    <3> QED BY <3>1, <3>2, <3>3 DEF TypeOK
  <2>2. Count' = Count
    BY <1>3 DEF EnqueueTest, Count
  <2>3. ~Full(front, last) => Count < QueueSize - 1
    BY <1>0, <1>1 DEF Full, Count, Index
  <2>4. prod' = prod \/ (prod' = [at |-> "write", ev |-> e] /\ Count < QueueSize - 1)
    BY <1>3, <2>3 DEF EnqueueTest
  <2>5. QueueInv'
    BY <1>3, <2>2, <2>4 DEF EnqueueTest, QueueInv
  <2> QED BY <2>1, <2>5
<1>4. CASE EnqueueWrite
  <2>1. TypeOK'
    BY <1>4 DEF EnqueueWrite, TypeOK, Doing
  <2>2. Count' = Count /\ prod.at # "idle" /\ Count < QueueSize - 1
    BY <1>4 DEF EnqueueWrite, Count, QueueInv
  <2>3. list'[front] = prod'.ev
    BY <1>4 DEF EnqueueWrite, TypeOK, Doing
  <2>4. cons.at # "idle" => Count > 0 /\ front # last
    BY <1>0 DEF QueueInv, Count
  <2>5. cons.at # "idle" => list'[last] = list[last]
    BY <1>4, <2>4 DEF EnqueueWrite, TypeOK
  <2>6. QueueInv'
    BY <1>4, <2>2, <2>3, <2>4, <2>5 DEF EnqueueWrite, QueueInv
  <2> QED BY <2>1, <2>6
<1>5. CASE EnqueuePublish
  <2>1. TypeOK'
    BY <1>1, <1>5 DEF EnqueuePublish, TypeOK, Doing, Idle
  <2>2. Count < QueueSize - 1
    BY <1>5 DEF EnqueuePublish, QueueInv
  <2>3. Count' = Count + 1
    BY <1>0, <1>1, <1>5, <2>2 DEF EnqueuePublish, Count, Index
  <2>4. cons.at # "idle" => Count > 0
    BY DEF QueueInv
  <2>5. cons.at # "idle" => Count' > 0
    BY <2>3, <2>4, <1>0 DEF Count
  <2>6. QueueInv'
    BY <1>5, <2>5 DEF EnqueuePublish, QueueInv, Idle
  <2> QED BY <2>1, <2>6
<1>6. CASE DequeueTest
  <2>1. TypeOK'
    BY <1>6 DEF DequeueTest, TypeOK, Doing
  <2>2. Count' = Count
    BY <1>6 DEF DequeueTest, Count
  <2>3. front # last => Count > 0
    BY <1>0 DEF Count, Index
  <2>4. QueueInv'
    BY <1>6, <2>2, <2>3 DEF DequeueTest, QueueInv, TypeOK, Doing
  <2> QED BY <2>1, <2>4
<1>7. CASE DequeueRead
  <2>1. TypeOK'
    BY <1>7 DEF DequeueRead, TypeOK, Doing
  <2>2. Count' = Count
    BY <1>7 DEF DequeueRead, Count
  <2>3. QueueInv'
    BY <1>7, <2>2 DEF DequeueRead, QueueInv
  <2> QED BY <2>1, <2>3
<1>8. CASE DequeueRelease
  <2>1. TypeOK'
    BY <1>2, <1>8 DEF DequeueRelease, TypeOK, Doing, Idle
  <2>2. Count > 0
    BY <1>8 DEF DequeueRelease, QueueInv
  <2>3. Count' = Count - 1
    BY <1>0, <1>2, <1>8, <2>2 DEF DequeueRelease, Count, Index
  <2>4. prod.at # "idle" => Count' < QueueSize - 1
    BY <1>0, <2>2, <2>3 DEF QueueInv, Count
  <2>5. QueueInv'
    BY <1>8, <2>4 DEF DequeueRelease, QueueInv, Idle
  <2> QED BY <2>1, <2>5
<1>9. CASE UNCHANGED vars
  BY <1>9 DEF vars, TypeOK, QueueInv, Count
<1> QED BY <1>3, <1>4, <1>5, <1>6, <1>7, <1>8, <1>9 DEF Next, Enqueue, Dequeue

(* The threads never disturb each other, whatever the size of the ring and *)
(* the interleaving of their steps: nothing is published before it is      *)
(* written, nothing overwritten before it is read.                         *)
THEOREM QueueInvariant == Spec => []IInv
  BY InitInv, NextInv, PTL DEF Spec

----------------------------------------------------------------------------
(* The refinement.                                                         *)

ContentsListed ==
  /\ Contents \in Seq(Event \cup {NULL})
  /\ Len(Contents) = Count
  /\ Count \in Nat
  /\ \A k \in 1 .. Count : Contents[k] = list[SlotAt(k - 1)]

LEMMA ContentsType == TypeOK => ContentsListed
<1> SUFFICES ASSUME TypeOK PROVE ContentsListed
  OBVIOUS
<1>1. Count \in Nat /\ \A k \in 0 .. Count - 1 : SlotAt(k) \in Index
  BY SlotsInRing, QueueAssumption DEF TypeOK, Index
<1>2. \A k \in 1 .. Count : list[SlotAt(k - 1)] \in Event \cup {NULL}
  BY <1>1 DEF TypeOK
<1> QED BY <1>1, <1>2 DEF Contents, ContentsListed

LEMMA FifoInit == Init => Fifo!Init
<1> SUFFICES ASSUME Init PROVE Fifo!Init
  OBVIOUS
<1>1. IInv /\ Count = 0
  BY InitInv DEF Init, Count
<1>2. Contents = <<>>
  BY <1>1, ContentsType DEF IInv, ContentsListed
<1> QED BY <1>2 DEF Init, Fifo!Init

(* What is in the ring: publishing adds the event at the end, releasing     *)
(* takes the oldest one away, nothing else changes it.                     *)
LEMMA ContentsStep ==
  IInv /\ [Next]_vars =>
    /\ Contents \in Seq(Event \cup {NULL}) /\ Len(Contents) = Count
    /\ EnqueuePublish => Contents' = Append(Contents, prod.ev)
    /\ DequeueRelease =>
         Contents # <<>> /\ Head(Contents) = cons.ev /\ Contents' = Tail(Contents)
    /\ UNCHANGED <<front, last>> => Contents' = Contents
<1> SUFFICES ASSUME IInv, [Next]_vars
    PROVE  /\ Contents \in Seq(Event \cup {NULL}) /\ Len(Contents) = Count
           /\ EnqueuePublish => Contents' = Append(Contents, prod.ev)
           /\ DequeueRelease =>
                Contents # <<>> /\ Head(Contents) = cons.ev /\ Contents' = Tail(Contents)
           /\ UNCHANGED <<front, last>> => Contents' = Contents
  OBVIOUS
<1>0. /\ TypeOK /\ QueueInv /\ TypeOK'
      /\ front \in Index /\ last \in Index
      /\ front \in Int /\ last \in Int /\ QueueSize \in Int /\ QueueSize >= 2
  BY QueueAssumption, NextInv DEF IInv, TypeOK, Index
<1>1. next(front) = IF front + 1 = QueueSize THEN 0 ELSE front + 1
  BY <1>0, NextIndex
<1>2. next(last) = IF last + 1 = QueueSize THEN 0 ELSE last + 1
  BY <1>0, NextIndex
<1>3. /\ Contents \in Seq(Event \cup {NULL}) /\ Len(Contents) = Count /\ Count \in Nat
      /\ \A k \in 1 .. Count : Contents[k] = list[SlotAt(k - 1)]
  BY <1>0, ContentsType DEF ContentsListed
<1>4. /\ Contents' \in Seq(Event \cup {NULL}) /\ Len(Contents') = Count' /\ Count' \in Nat
      /\ \A k \in 1 .. Count' : Contents'[k] = (list')[SlotAt(k - 1)']
  <2>1. TypeOK' => ContentsListed'
    BY ContentsType, PTL
  <2> QED BY <1>0, <2>1 DEF ContentsListed
<1>6. ASSUME UNCHANGED <<front, last>> PROVE Contents' = Contents
  <2>1. CASE EnqueueWrite
    <3>1. Count' = Count /\ \A k \in Nat : SlotAt(k)' = SlotAt(k)
      BY <2>1 DEF EnqueueWrite, Count, SlotAt
    <3>2. \A k \in 0 .. Count - 1 : SlotAt(k) \in Index /\ SlotAt(k) # front
      BY <1>0, SlotsInRing
    <3>3. \A k \in 1 .. Count : Contents'[k] = Contents[k]
      BY <1>0, <1>3, <1>4, <2>1, <3>1, <3>2 DEF EnqueueWrite, TypeOK
    <3> QED BY <1>3, <1>4, <3>1, <3>3
  <2>2. CASE ~EnqueueWrite
    <3>1. front' # next(front) \/ last' # next(last)
      BY <1>0, <1>1, <1>6
    <3>2. UNCHANGED list
      BY <1>0, <1>1, <1>2, <1>6, <2>2
         DEF Next, Enqueue, Dequeue, EnqueueTest, EnqueuePublish, DequeueTest, DequeueRead,
             DequeueRelease, vars
    <3> QED BY <1>6, <3>2 DEF Contents, Count, SlotAt
  <2> QED BY <2>1, <2>2
<1>7. ASSUME EnqueuePublish PROVE Contents' = Append(Contents, prod.ev)
  <2>1. Count < QueueSize - 1 /\ prod.ev \in Event /\ list[front] = prod.ev
    BY <1>0, <1>7 DEF EnqueuePublish, QueueInv, TypeOK
  <2>2. Count' = Count + 1 /\ list' = list /\ \A k \in Nat : SlotAt(k)' = SlotAt(k)
    BY <1>0, <1>1, <1>7, <2>1 DEF EnqueuePublish, Count, Index, SlotAt
  <2>3. SlotAt(Count) = front
    BY <1>0, SlotsInRing
  <2>4. \A k \in 1 .. Count + 1 : Contents'[k] = Append(Contents, prod.ev)[k]
    BY <1>3, <1>4, <2>1, <2>2, <2>3
  <2> QED BY <1>3, <1>4, <2>1, <2>2, <2>4
<1>10. ASSUME DequeueRelease
       PROVE  Contents # <<>> /\ Head(Contents) = cons.ev /\ Contents' = Tail(Contents)
  <2>1. Count > 0 /\ cons.ev = list[last]
    BY <1>0, <1>10 DEF DequeueRelease, QueueInv
  <2>2. Count' = Count - 1 /\ list' = list
    BY <1>0, <1>2, <1>10, <2>1 DEF DequeueRelease, Count, Index
  <2>3. SlotAt(0) = last
    BY <1>0, SlotsInRing
  <2>4. \A k \in 0 .. Count - 2 : SlotAt(k)' = SlotAt(k + 1)
    BY <1>0, <1>2, <1>10, <2>1 DEF DequeueRelease, SlotAt, Index, Count
  <2>5. Contents # <<>> /\ Head(Contents) = cons.ev
    BY <1>3, <2>1, <2>3
  <2>6. \A k \in 1 .. Count - 1 : Contents'[k] = Tail(Contents)[k]
    <3> SUFFICES ASSUME NEW k \in 1 .. Count - 1 PROVE Contents'[k] = Tail(Contents)[k]
      OBVIOUS
    <3>1. Contents'[k] = list[SlotAt(k - 1)']
      BY <1>4, <2>2
    <3>2. SlotAt(k - 1)' = SlotAt(k - 1 + 1)
      BY <1>3, <2>4
    <3>3. Contents[k + 1] = list[SlotAt(k)]
      BY <1>3
    <3>4. Tail(Contents)[k] = Contents[k + 1]
      BY <1>3, <2>5
    <3>5. k - 1 + 1 = k
      OBVIOUS
    <3> QED BY <3>1, <3>2, <3>3, <3>4, <3>5
  <2>7. Contents' = Tail(Contents)
    BY <1>3, <1>4, <2>2, <2>5, <2>6
  <2> QED BY <2>5, <2>7
<1> QED BY <1>3, <1>6, <1>7, <1>10

LEMMA FifoStep == IInv /\ [Next]_vars => [Fifo!Next]_<<Contents, reply, out>>
<1> SUFFICES ASSUME IInv, [Next]_vars PROVE [Fifo!Next]_<<Contents, reply, out>>
  OBVIOUS
<1>0. /\ TypeOK /\ QueueInv
      /\ front \in Index /\ last \in Index
      /\ front \in Int /\ last \in Int /\ QueueSize \in Int /\ QueueSize >= 2
  BY QueueAssumption DEF IInv, TypeOK, Index
<1>1. next(front) = IF front + 1 = QueueSize THEN 0 ELSE front + 1
  BY <1>0, NextIndex
<1>2. /\ Contents \in Seq(Event \cup {NULL}) /\ Len(Contents) = Count
      /\ EnqueuePublish => Contents' = Append(Contents, prod.ev)
      /\ DequeueRelease =>
           Contents # <<>> /\ Head(Contents) = cons.ev /\ Contents' = Tail(Contents)
      /\ UNCHANGED <<front, last>> => Contents' = Contents
  BY ContentsStep
<1>3. ASSUME NEW e \in Event, EnqueueTest(e) PROVE Fifo!Next \/ UNCHANGED <<Contents, reply, out>>
  <2>1. UNCHANGED <<Contents, out>>
    BY <1>2, <1>3 DEF EnqueueTest
  <2>2. CASE Full(front, last)
    <3>1. Count = QueueSize - 1
      BY <1>0, <1>1, <2>2 DEF Full, Count, Index
    <3> QED BY <1>2, <1>3, <2>1, <2>2, <3>1 DEF EnqueueTest, Fifo!Next, Fifo!Refuse
  <2>3. CASE ~Full(front, last)
    BY <1>3, <2>1, <2>3 DEF EnqueueTest
  <2> QED BY <2>2, <2>3
<1>4. CASE EnqueueWrite
  BY <1>2, <1>4 DEF EnqueueWrite
<1>5. CASE EnqueuePublish
  <2>1. Count < QueueSize - 1 /\ prod.ev \in Event
    BY <1>0, <1>5 DEF EnqueuePublish, QueueInv, TypeOK
  <2>2. Fifo!Accept(prod.ev)
    BY <1>2, <1>5, <2>1 DEF EnqueuePublish, Fifo!Accept
  <2> QED BY <2>1, <2>2 DEF Fifo!Next
<1>6. CASE DequeueTest
  <2>1. front = last => Contents = <<>>
    BY <1>0, <1>2 DEF Count
  <2> QED BY <1>2, <1>6, <2>1 DEF DequeueTest, Fifo!Next, Fifo!Nothing
<1>7. CASE DequeueRead
  BY <1>2, <1>7 DEF DequeueRead
<1>8. CASE DequeueRelease
  BY <1>2, <1>8 DEF DequeueRelease, Fifo!HandOver, Fifo!Next
<1>9. CASE UNCHANGED vars
  BY <1>2, <1>9 DEF vars
<1> QED BY <1>3, <1>4, <1>5, <1>6, <1>7, <1>8, <1>9 DEF Next, Enqueue, Dequeue

(* A ring of any size implements the first-in first-out buffer of one      *)
(* event less: no event is lost, repeated or reordered between the thread  *)
(* that enqueues and the thread that dequeues.                             *)
THEOREM ImplementsFifo == Spec => FifoSpec
<1>1. Init => Fifo!Init
  BY FifoInit
<1>2. IInv /\ [Next]_vars => [Fifo!Next]_<<Contents, reply, out>>
  BY FifoStep
<1> QED BY <1>1, <1>2, QueueInvariant, PTL DEF Spec, FifoSpec, Fifo!Spec
=============================================================================
