----------------------------- MODULE MSGCProofs ----------------------------
(***************************************************************************)
(* What TLAPS proves of MSGC.tla for every number of size classes, every   *)
(* page and arena size, and every object graph.                            *)
(***************************************************************************)
EXTENDS MSGC, SequenceTheorems, FiniteSetTheorems, WellFoundedInduction, TLAPS

(* What the proofs need to know of the ranges.                             *)
LEMMA ClassType ==
  /\ 0 \in Class
  /\ ArenaCount \in Nat
  /\ \A c \in Class : /\ c \in Nat
                      /\ c + 1 < ArenaCount => c + 1 \in Class
                      /\ c + 1 < ArenaCount \/ c + 1 = ArenaCount
BY PoolAssumption DEF Class

LEMMA SlotType == 1 \in Slot /\ \A n \in Slot : n \in Nat /\ n > 0 /\ n + 1 \in Slot
BY DEF Slot

LEMMA CellType ==
  /\ \A o \in Cell : o[1] \in Class /\ o[2] \in Slot /\ o = <<o[1], o[2]>>
  /\ \A c \in Class, n \in Slot : <<c, n>> \in Cell
BY DEF Cell

(* The size of an arena and of the chain kept of one added later.          *)
LEMMA ArenaSlotsType ==
  ASSUME NEW c \in Class
  PROVE  /\ ArenaSlots(c) \in Nat \ {0}
         /\ KeptSlots(c) \in Nat \ {0}
         /\ KeptSlots(c) <= ArenaSlots(c)
<1>1. PageObjectSize[c] \in Nat \ {0} /\ ArenaPages \in Nat \ {0}
  BY PoolAssumption
<1>2. \A p, n \in Nat \ {0} : p * n \in Nat \ {0} /\ n <= p * n
  OBVIOUS
<1> QED
  BY <1>1, <1>2 DEF ArenaSlots, KeptSlots

LEMMA QuotientType ==
  ASSUME NEW n \in Nat
  PROVE  n \div ThresholdDivisor \in Nat /\ n \div ThresholdDivisor <= n
  BY PoolAssumption

(* A chain of slots that follow one another.                               *)
LEMMA ChainType ==
  ASSUME NEW n \in Nat, NEW b \in Nat
  PROVE  /\ [i \in 1 .. n |-> b + i] \in Seq(Slot)
         /\ Len([i \in 1 .. n |-> b + i]) = n
<1>1. [i \in 1 .. n |-> b + i] \in [1 .. n -> Slot]
  BY DEF Slot
<1>2. [i \in 1 .. n |-> b + i] \in Seq(Slot)
  BY <1>1, SeqDef
<1> QED
  BY <1>2

(* Every step keeps the types, whatever the phase of the collection.       *)
LEMMA TypeStep == TypeOK /\ [Next]_vars => TypeOK'
<1> SUFFICES ASSUME TypeOK, [Next]_vars PROVE TypeOK'
  OBVIOUS
<1> USE DEF TypeOK, Collecting
<1>1. ASSUME NEW c \in Class, AllocObject(c) PROVE TypeOK'
  <2>1. freelist[c] \in Seq(Slot) /\ freelist[c] # <<>>
    BY <1>1 DEF AllocObject
  <2>2. Head(freelist[c]) \in Slot /\ Tail(freelist[c]) \in Seq(Slot)
    BY <2>1, HeadTailProperties
  <2>3. live' \in SUBSET Cell /\ roots' \in SUBSET Cell
    BY <1>1, <2>2, CellType DEF AllocObject
  <2>4. freelist' \in [Class -> Seq(Slot)]
    BY <1>1, <2>2 DEF AllocObject
  <2>5. size' \in [Class -> Int] /\ burst' \in [Class -> Nat]
    BY <1>1 DEF AllocObject
  <2>6. flags' \in BOOLEAN
    BY <1>1 DEF AllocObject
  <2> QED
    BY <1>1, <2>3, <2>4, <2>5, <2>6 DEF AllocObject, mark, sweep
<1>2. ASSUME NEW c \in Class, AllocFault(c) PROVE TypeOK'
  BY <1>2 DEF AllocFault, pool, heap, mark, sweep
<1>3. ASSUME NEW o \in roots, Drop(o) PROVE TypeOK'
  BY <1>3 DEF Drop, pool, mark, sweep
<1>4. ASSUME NEW e \in ptr, Load(e[2]) PROVE TypeOK'
  BY <1>4 DEF Load, pool, mark, sweep
<1>5. ASSUME NEW e \in ptr, Erase(e[1], e[2]) PROVE TypeOK'
  BY <1>5 DEF Erase, pool, mark, sweep
<1>6. ASSUME NEW o \in roots, NEW p \in roots, Store(o, p) PROVE TypeOK'
  <2>1. ptr' \in SUBSET (Cell \X Cell)
    BY <1>6 DEF Store
  <2> QED
    BY <1>6, <2>1 DEF Store, pool, mark, sweep
<1>7. ASSUME ScheduleGC PROVE TypeOK'
  <2>1. /\ burst' \in [Class -> Nat]
        /\ mstack' \in Seq(Cell)
        /\ visit' \in SUBSET Cell
        /\ pc' \in {"run", "mark"}
    BY <1>7, EmptySeq DEF ScheduleGC, mark
  <2> QED
    BY <1>7, <2>1 DEF ScheduleGC, pool, heap, mark, sweep
<1>8. ASSUME DeleteGcContext PROVE TypeOK'
  <2>1. arenas' \in [Class -> Nat] /\ freelist' \in [Class -> Seq(Slot)]
    BY <1>8 DEF DeleteGcContext
  <2> QED
    BY <1>8, <2>1 DEF DeleteGcContext, mark, sweep
<1>9. ASSUME NEW o \in visit, Visit(o) PROVE TypeOK'
  <2>1. o \in Cell
    OBVIOUS
  <2>2. Append(mstack, o) \in Seq(Cell)
    BY <2>1, AppendProperties
  <2>3. mstack' \in Seq(Cell) /\ marked' \in SUBSET Cell /\ visit' \in SUBSET Cell
    BY <1>9, <2>1, <2>2 DEF Visit
  <2>4. mcap' \in Nat \ {0}
    BY <1>9 DEF Visit, PushCap
  <2> QED
    BY <1>9, <2>3, <2>4 DEF Visit, pool, heap, sweep
<1>10. ASSUME Reftrace PROVE TypeOK'
  <2>1. mstack \in Seq(Cell) /\ mstack # <<>>
    BY <1>10 DEF Reftrace
  <2>2. Len(mstack) \in Nat /\ Len(mstack) > 0
    BY <2>1, EmptySeq, LenProperties
  <2>3. mstack' \in Seq(Cell)
    BY <1>10, <2>1, <2>2, SubSeqProperties DEF Reftrace
  <2>4. visit' \in SUBSET Cell
    BY <1>10 DEF Reftrace, Traced, Children
  <2> QED
    BY <1>10, <2>3, <2>4 DEF Reftrace, pool, heap, sweep
<1>11. ASSUME MarkDone PROVE TypeOK'
  <2>1. cursor' \in Class \X Slot /\ pc' = "sweep"
    BY <1>11, ClassType, SlotType DEF MarkDone
  <2> QED
    BY <1>11, <2>1 DEF MarkDone, pool, heap, mark
<1>12. ASSUME SweepSlot PROVE TypeOK'
  <2>1. cursor[1] \in Class /\ cursor[2] \in Slot /\ cursor[2] + 1 \in Slot
    BY SlotType
  <2>2. <<cursor[2]>> \o freelist[cursor[1]] \in Seq(Slot)
    BY <2>1, ConcatProperties
  <2>3. freelist' \in [Class -> Seq(Slot)]
    BY <1>12, <2>1, <2>2 DEF SweepSlot
  <2>4. size' \in [Class -> Int]
    BY <1>12, <2>1 DEF SweepSlot
  <2>5. /\ live' \in SUBSET Cell
        /\ ptr' \in SUBSET (Cell \X Cell)
        /\ marked' \in SUBSET Cell
        /\ cursor' \in Class \X Slot
    BY <1>12, <2>1 DEF SweepSlot, Unmark
  <2> QED
    BY <1>12, <2>3, <2>4, <2>5 DEF SweepSlot
<1>13. ASSUME CheckExpand PROVE TypeOK'
  <2>1. cursor' \in Class \X Slot
    BY <1>13, ClassType, SlotType DEF CheckExpand, NextClass
  <2>2. ext' \in Nat /\ flags' \in BOOLEAN /\ pc' \in {"run", "sweep", "extend"}
    BY <1>13 DEF CheckExpand, NextClass
  <2> QED
    BY <1>13, <2>1, <2>2 DEF CheckExpand, pool, heap, mark
<1>14. ASSUME ExtendArena PROVE TypeOK'
  <2> DEFINE c == cursor[1]
             total == size[c] + ArenaSlots(c)
  <2>1. c \in Class /\ ArenaSlots(c) \in Nat \ {0} /\ KeptSlots(c) \in Nat \ {0}
    BY ArenaSlotsType
  <2>2. Top(c) \in Nat
    BY <2>1 DEF Top
  <2>3. ExtendChain(c, Top(c)) \in Seq(Slot)
    BY <2>1, <2>2, ChainType DEF ExtendChain
  <2>4. freelist' \in [Class -> Seq(Slot)]
    <3>1. ExtendChain(c, Top(c)) \o freelist[c] \in Seq(Slot)
      BY <2>1, <2>3, ConcatProperties
    <3> QED
      BY <1>14, <2>1, <3>1 DEF ExtendArena
  <2>5. arenas' \in [Class -> Nat] /\ size' \in [Class -> Int]
    BY <1>14, <2>1 DEF ExtendArena
  <2>6. threshold' \in [Class -> Int]
    <3>1. total \in Int /\ total \div ThresholdDivisor \in Int
      BY <2>1, PoolAssumption
    <3> QED
      BY <1>14, <3>1 DEF ExtendArena
  <2>7. cursor' \in Class \X Slot
    BY <1>14, ClassType, SlotType DEF ExtendArena, NextClass
  <2>8. ext' \in Nat
    BY <1>14 DEF ExtendArena
  <2>9. flags' \in BOOLEAN /\ pc' \in {"run", "sweep", "extend"}
    BY <1>14 DEF ExtendArena, NextClass
  <2> QED
    BY <1>14, <2>4, <2>5, <2>6, <2>7, <2>8, <2>9 DEF ExtendArena, heap, mark
<1>15. ASSUME UNCHANGED vars PROVE TypeOK'
  BY <1>15 DEF vars, pool, heap, mark, sweep
<1> QED
  BY <1>1, <1>2, <1>3, <1>4, <1>5, <1>6, <1>7, <1>8, <1>9, <1>10, <1>11,
     <1>12, <1>13, <1>14, <1>15 DEF Next, Mutator, Collector

(***************************************************************************)
(* The cells: CellInv.                                                     *)
(***************************************************************************)

(* FREELIST_POP takes a slot off the list and leaves the others.           *)
LEMMA PopSound ==
  ASSUME NEW s \in Seq(Slot), s # <<>>, IsInjective(s)
  PROVE  /\ IsInjective(Tail(s))
         /\ Head(s) \in Range(s)
         /\ Range(Tail(s)) \subseteq Range(s) \ {Head(s)}
<1>1. /\ DOMAIN s = 1 .. Len(s)
      /\ Len(s) \in Nat /\ Len(s) > 0
      /\ Head(s) = s[1]
  BY LenProperties, EmptySeq, HeadTailProperties
<1>2. /\ DOMAIN Tail(s) = 1 .. Len(s) - 1
      /\ \A i \in 1 .. Len(s) - 1 : Tail(s)[i] = s[i + 1]
  BY HeadTailProperties, LenProperties
<1>3. IsInjective(Tail(s))
  BY <1>1, <1>2 DEF IsInjective
<1>4. Head(s) \in Range(s)
  BY <1>1 DEF Range
<1>5. ASSUME NEW n \in Range(Tail(s)) PROVE n \in Range(s) /\ n # Head(s)
  <2>1. PICK i \in 1 .. Len(s) - 1 : n = s[i + 1]
    BY <1>2 DEF Range
  <2>2. i + 1 \in DOMAIN s /\ 1 \in DOMAIN s /\ i + 1 # 1
    BY <1>1, <2>1
  <2> QED
    BY <1>1, <2>1, <2>2 DEF Range, IsInjective
<1> QED
  BY <1>3, <1>4, <1>5

(* FREELIST_PUSH and gc_extendObjectArena put slots that are not on the    *)
(* list in front of it.                                                    *)
LEMMA PushSound ==
  ASSUME NEW s \in Seq(Slot), NEW t \in Seq(Slot),
         IsInjective(s), IsInjective(t),
         \A n \in Range(s) : n \notin Range(t)
  PROVE  /\ s \o t \in Seq(Slot)
         /\ IsInjective(s \o t)
         /\ Range(s \o t) = Range(s) \cup Range(t)
<1>1. /\ s \o t \in Seq(Slot)
      /\ Len(s) \in Nat /\ Len(t) \in Nat
      /\ DOMAIN s = 1 .. Len(s) /\ DOMAIN t = 1 .. Len(t)
      /\ DOMAIN (s \o t) = 1 .. Len(s) + Len(t)
      /\ \A i \in 1 .. Len(s) + Len(t) :
           (s \o t)[i] = IF i <= Len(s) THEN s[i] ELSE t[i - Len(s)]
  BY ConcatProperties, LenProperties
<1>2. Range(s \o t) = Range(s) \cup Range(t)
  BY RangeConcatenation
<1>3. ASSUME NEW i \in 1 .. Len(s) + Len(t), NEW j \in 1 .. Len(s) + Len(t),
             (s \o t)[i] = (s \o t)[j]
      PROVE  i = j
  <2>1. CASE i <= Len(s) /\ j <= Len(s)
    BY <1>1, <1>3, <2>1 DEF IsInjective
  <2>2. CASE i > Len(s) /\ j > Len(s)
    <3>1. i - Len(s) \in DOMAIN t /\ j - Len(s) \in DOMAIN t
      BY <1>1, <2>2
    <3>2. t[i - Len(s)] = t[j - Len(s)]
      BY <1>1, <1>3, <2>2
    <3> QED
      BY <1>1, <3>1, <3>2 DEF IsInjective
  <2>3. CASE i <= Len(s) /\ j > Len(s)
    <3>1. i \in DOMAIN s /\ j - Len(s) \in DOMAIN t /\ s[i] = t[j - Len(s)]
      BY <1>1, <1>3, <2>3
    <3> QED
      BY <3>1 DEF Range
  <2>4. CASE i > Len(s) /\ j <= Len(s)
    <3>1. j \in DOMAIN s /\ i - Len(s) \in DOMAIN t /\ s[j] = t[i - Len(s)]
      BY <1>1, <1>3, <2>4
    <3> QED
      BY <3>1 DEF Range
  <2> QED
    BY <1>1, <2>1, <2>2, <2>3, <2>4
<1> QED
  BY <1>1, <1>2, <1>3 DEF IsInjective

(* The slots of a chain that starts after slot b.                          *)
LEMMA ChainSound ==
  ASSUME NEW n \in Nat, NEW b \in Nat
  PROVE  /\ IsInjective([i \in 1 .. n |-> b + i])
         /\ \A m \in Range([i \in 1 .. n |-> b + i]) : m \in Nat /\ b < m /\ m <= b + n
BY DEF IsInjective, Range

(* A step that leaves live, freelist and arenas alone.                     *)
LEMMA CellFrame ==
  ASSUME CellInv, UNCHANGED <<live, freelist, arenas>> PROVE CellInv'
BY DEF CellInv, FreeListSound, Top, ArenaSlots

(* No step hands out a cell in use, lists one twice or lists one in use.   *)
LEMMA CellStep == TypeOK /\ CellInv /\ [Next]_vars => CellInv'
<1> SUFFICES ASSUME TypeOK, CellInv, [Next]_vars PROVE CellInv'
  OBVIOUS
<1> DEFINE Listed(d) == /\ IsInjective(freelist[d])
                        /\ \A n \in Range(freelist[d]) :
                             n <= Top(d) /\ <<d, n>> \notin live
<1>0. /\ \A d \in Class : Listed(d) /\ freelist[d] \in Seq(Slot)
      /\ \A o \in live : o \in Cell /\ o[2] <= Top(o[1])
  BY DEF CellInv, FreeListSound, TypeOK
<1>1. ASSUME NEW c \in Class, AllocObject(c) PROVE CellInv'
  <2> DEFINE s == freelist[c]
             h == Head(s)
  <2>1. /\ s \in Seq(Slot) /\ s # <<>>
        /\ live' = live \cup {<<c, h>>}
        /\ freelist' = [freelist EXCEPT ![c] = Tail(s)]
        /\ UNCHANGED arenas
    BY <1>0, <1>1 DEF AllocObject
  <2>2. /\ IsInjective(Tail(s))
        /\ h \in Range(s)
        /\ Range(Tail(s)) \subseteq Range(s) \ {h}
    BY <1>0, <2>1, PopSound
  <2>3. \A d \in Class : Top(d)' = Top(d)
    BY <2>1 DEF Top, ArenaSlots
  <2>4. \A o \in live' : o[2] <= Top(o[1])'
    <3>1. h <= Top(c)
      BY <1>0, <2>2
    <3> QED
      BY <1>0, <2>1, <2>3, <3>1, CellType
  <2>5. freelist'[c] = Tail(s) /\ \A d \in Class \ {c} : freelist'[d] = freelist[d]
    BY <2>1 DEF TypeOK
  <2>6. ASSUME NEW d \in Class PROVE Listed(d)'
    <3>1. CASE d = c
      BY <1>0, <2>1, <2>2, <2>3, <2>5, <3>1
    <3>2. CASE d # c
      BY <1>0, <2>1, <2>3, <2>5, <3>2
    <3> QED
      BY <3>1, <3>2
  <2> QED
    BY <2>4, <2>6 DEF CellInv, FreeListSound
<1>2. ASSUME DeleteGcContext PROVE CellInv'
  <2>1. live' = {} /\ \A d \in Class : freelist'[d] = <<>>
    BY <1>2 DEF DeleteGcContext
  <2>2. IsInjective(<<>>) /\ Range(<<>>) = {}
    BY DEF IsInjective, Range
  <2> QED
    BY <2>1, <2>2 DEF CellInv, FreeListSound
<1>3. ASSUME SweepSlot PROVE CellInv'
  <2> DEFINE c == cursor[1]
             n == cursor[2]
             s == <<n>>
  <2>1. CASE Garbage(cursor)
    <3>1. /\ c \in Class /\ n \in Slot /\ cursor = <<c, n>>
          /\ cursor \in live
          /\ live' = live \ {cursor}
          /\ freelist' = [freelist EXCEPT ![c] = s \o @]
          /\ UNCHANGED arenas
      BY <1>3, <2>1 DEF SweepSlot, Garbage, TypeOK
    <3>2. n <= Top(c) /\ n \notin Range(freelist[c])
      BY <1>0, <3>1
    <3>3. s \in Seq(Slot) /\ IsInjective(s) /\ Range(s) = {n}
      BY <3>1 DEF IsInjective, Range
    <3>4. /\ IsInjective(s \o freelist[c])
          /\ Range(s \o freelist[c]) = {n} \cup Range(freelist[c])
      BY <1>0, <3>1, <3>2, <3>3, PushSound
    <3>5. \A d \in Class : Top(d)' = Top(d)
      BY <3>1 DEF Top, ArenaSlots
    <3>6. /\ freelist'[c] = s \o freelist[c]
          /\ \A d \in Class \ {c} : freelist'[d] = freelist[d]
      BY <3>1 DEF TypeOK
    <3>7. ASSUME NEW d \in Class PROVE Listed(d)'
      <4>1. CASE d = c
        BY <1>0, <3>1, <3>2, <3>4, <3>5, <3>6, <4>1
      <4>2. CASE d # c
        BY <1>0, <3>1, <3>5, <3>6, <4>2
      <4> QED
        BY <4>1, <4>2
    <3>8. \A o \in live' : o[2] <= Top(o[1])'
      BY <1>0, <3>1, <3>5, CellType
    <3> QED
      BY <3>7, <3>8 DEF CellInv, FreeListSound
  <2>2. CASE ~Garbage(cursor)
    BY <1>3, <2>2, CellFrame DEF SweepSlot
  <2> QED
    BY <2>1, <2>2
<1>4. ASSUME ExtendArena PROVE CellInv'
  <2>0. PICK c \in Class : c = cursor[1]
    BY DEF TypeOK
  <2> DEFINE s == ExtendChain(c, Top(c))
  <2>1. /\ arenas' = [arenas EXCEPT ![c] = @ + 1]
        /\ freelist' = [freelist EXCEPT ![c] = s \o @]
        /\ UNCHANGED live
    BY <1>4, <2>0 DEF ExtendArena, heap
  <2>2. ArenaSlots(c) \in Nat /\ KeptSlots(c) \in Nat /\ KeptSlots(c) <= ArenaSlots(c)
    BY <2>1, ArenaSlotsType
  <2>3. /\ Top(c) \in Nat
        /\ Top(c)' = Top(c) + ArenaSlots(c)
        /\ \A d \in Class \ {c} : Top(d)' = Top(d)
    <3>1. arenas[c] \in Nat /\ arenas'[c] = arenas[c] + 1
      BY <2>1 DEF TypeOK
    <3>2. \A a, b \in Nat : (a + 1) * b = a * b + b /\ a * b \in Nat
      OBVIOUS
    <3>3. \A d \in Class \ {c} : arenas'[d] = arenas[d]
      BY <2>1 DEF TypeOK
    <3>4. Top(c)' = (arenas[c] + 1) * ArenaSlots(c)
      BY <3>1 DEF Top, ArenaSlots
    <3> QED
      BY <2>2, <3>1, <3>2, <3>3, <3>4 DEF Top, ArenaSlots
  <2>4. /\ s \in Seq(Slot) /\ IsInjective(s)
        /\ \A n \in Range(s) : n \in Nat /\ Top(c) < n /\ n <= Top(c) + KeptSlots(c)
    BY <2>2, <2>3, ChainType, ChainSound DEF ExtendChain
  <2>5. \A n \in Range(s) : n \notin Range(freelist[c]) /\ <<c, n>> \notin live
    BY <1>0, <2>1, <2>3, <2>4
  <2>6. /\ IsInjective(s \o freelist[c])
        /\ Range(s \o freelist[c]) = Range(s) \cup Range(freelist[c])
    BY <1>0, <2>1, <2>4, <2>5, PushSound
  <2>7. /\ freelist'[c] = s \o freelist[c]
        /\ \A d \in Class \ {c} : freelist'[d] = freelist[d]
    BY <2>1 DEF TypeOK
  <2>8. \A m \in Slot : m <= Top(c) \/ m <= Top(c) + KeptSlots(c) => m <= Top(c)'
    BY <2>2, <2>3 DEF Slot
  <2>9. \A m \in Range(freelist[c]) : m \in Slot
    BY <1>0, <2>1, LenProperties DEF Range
  <2>10. \A m \in Range(s) : m \in Slot
    BY <2>4, LenProperties DEF Range
  <2>11. ASSUME NEW d \in Class PROVE Listed(d)'
    <3>1. CASE d = c
      BY <1>0, <2>1, <2>4, <2>5, <2>6, <2>7, <2>8, <2>9, <2>10, <3>1
    <3>2. CASE d # c
      BY <1>0, <2>1, <2>3, <2>7, <3>2
    <3> QED
      BY <3>1, <3>2
  <2>12. \A o \in live' : o[2] <= Top(o[1])'
    BY <1>0, <2>1, <2>3, <2>8, CellType
  <2> QED
    BY <2>11, <2>12 DEF CellInv, FreeListSound
<1>5. ASSUME \/ \E c \in Class : AllocFault(c)
             \/ \E o \in roots : Drop(o)
             \/ \E e \in ptr : Load(e[2]) \/ Erase(e[1], e[2])
             \/ \E o, p \in roots : Store(o, p)
             \/ ScheduleGC
             \/ \E o \in visit : Visit(o)
             \/ Reftrace \/ MarkDone \/ CheckExpand
             \/ UNCHANGED vars
      PROVE  CellInv'
  BY <1>5, CellFrame DEF AllocFault, Drop, Load, Erase, Store, ScheduleGC, Visit,
     Reftrace, MarkDone, CheckExpand, vars, pool, heap
<1> QED
  BY <1>1, <1>2, <1>3, <1>4, <1>5 DEF Next, Mutator, Collector

(***************************************************************************)
(* The graph: GraphInv.                                                    *)
(***************************************************************************)

(* mstack_next takes the top of the stack off it and leaves the others.    *)
LEMMA TopOfStack ==
  ASSUME NEW s \in Seq(Cell), s # <<>>
  PROVE  LET t == SubSeq(s, 1, Len(s) - 1)
         IN  /\ s[Len(s)] \in Range(s)
             /\ Range(t) \subseteq Range(s)
             /\ Range(s) \subseteq Range(t) \cup {s[Len(s)]}
<1> DEFINE t == SubSeq(s, 1, Len(s) - 1)
<1>1. Len(s) \in Nat /\ Len(s) > 0 /\ DOMAIN s = 1 .. Len(s)
  BY LenProperties, EmptySeq
<1>2. /\ DOMAIN t = 1 .. Len(s) - 1
      /\ \A i \in 1 .. Len(s) - 1 : t[i] = s[i]
  BY <1>1, SubSeqProperties, LenProperties
<1> HIDE DEF t
<1>3. /\ s[Len(s)] \in Range(s)
      /\ Range(t) \subseteq Range(s)
      /\ Range(s) \subseteq Range(t) \cup {s[Len(s)]}
  BY <1>1, <1>2 DEF Range
<1> QED
  BY <1>3 DEF t

LEMMA PushOnStack ==
  ASSUME NEW s \in Seq(Cell), NEW o \in Cell
  PROVE  Range(Append(s, o)) = Range(s) \cup {o}
<1>1. /\ Len(s) \in Nat /\ DOMAIN s = 1 .. Len(s)
      /\ DOMAIN Append(s, o) = 1 .. Len(s) + 1
      /\ \A i \in 1 .. Len(s) : Append(s, o)[i] = s[i]
      /\ Append(s, o)[Len(s) + 1] = o
  BY LenProperties, AppendProperties
<1> QED
  BY <1>1 DEF Range

(* A step of the mutator.                                                  *)
LEMMA MutatorGraph ==
  ASSUME TypeOK, GraphInv, Mutator PROVE GraphInv'
<1>1. pc = "run" => /\ RunInv
                    /\ \A e \in ptr : e[1] \in live /\ e[2] \in live
                    /\ roots \subseteq live
  BY DEF GraphInv, RunInv, Closed
<1>2. ASSUME NEW c \in Class, AllocObject(c) PROVE GraphInv'
  BY <1>1, <1>2 DEF AllocObject, mark, GraphInv, RunInv, Closed
<1>3. ASSUME NEW c \in Class, AllocFault(c) PROVE GraphInv'
  BY <1>1, <1>3 DEF AllocFault, heap, mark, GraphInv, RunInv, Closed
<1>4. ASSUME NEW o \in roots, Drop(o) PROVE GraphInv'
  BY <1>1, <1>4 DEF Drop, mark, GraphInv, RunInv, Closed
<1>5. ASSUME NEW e \in ptr, Load(e[2]) PROVE GraphInv'
  BY <1>1, <1>5 DEF Load, mark, GraphInv, RunInv, Closed
<1>6. ASSUME NEW e \in ptr, Erase(e[1], e[2]) PROVE GraphInv'
  BY <1>1, <1>6 DEF Erase, mark, GraphInv, RunInv, Closed
<1>7. ASSUME NEW o \in roots, NEW p \in roots, Store(o, p) PROVE GraphInv'
  BY <1>1, <1>7 DEF Store, mark, GraphInv, RunInv, Closed
<1>8. ASSUME ScheduleGC PROVE GraphInv'
  <2>1. CASE flags
    <3>1. /\ pc = "run" /\ pc' = "mark" /\ mstack' = <<>> /\ visit' = roots
          /\ UNCHANGED <<live, ptr, roots, marked>>
      BY <1>8, <2>1 DEF ScheduleGC, heap
    <3>2. Range(<<>>) = {}
      BY DEF Range
    <3> QED
      BY <1>1, <3>1, <3>2 DEF GraphInv, RunInv, MarkInv, Closed
  <2>2. CASE ~flags
    BY <1>1, <1>8, <2>2 DEF ScheduleGC, heap, mark, GraphInv, RunInv, Closed
  <2> QED
    BY <2>1, <2>2
<1>9. ASSUME DeleteGcContext PROVE GraphInv'
  BY <1>1, <1>9 DEF DeleteGcContext, mark, GraphInv, RunInv, Closed
<1> QED
  BY <1>2, <1>3, <1>4, <1>5, <1>6, <1>7, <1>8, <1>9 DEF Mutator

(* A step of the marking: MarkInv, and the sweep that it hands over to.    *)
LEMMA MarkGraph ==
  ASSUME TypeOK, GraphInv, (\E o \in visit : Visit(o)) \/ Reftrace \/ MarkDone
  PROVE  GraphInv'
<1>1. /\ pc = "mark" /\ MarkInv
      /\ \A e \in ptr : e[1] \in live /\ e[2] \in live
      /\ roots \subseteq live
  BY DEF GraphInv, MarkInv, Closed, Visit, Reftrace, MarkDone
<1>2. ASSUME NEW o \in visit, Visit(o) PROVE GraphInv'
  <2>1. /\ pc' = "mark" /\ UNCHANGED <<live, ptr, roots>>
        /\ visit' = visit \ {o}
        /\ o \in Cell /\ mstack \in Seq(Cell)
    BY <1>1, <1>2 DEF Visit, heap, TypeOK
  <2>2. CASE o \notin marked
    <3>1. marked' = marked \cup {o} /\ Range(mstack') = Range(mstack) \cup {o}
      BY <1>2, <2>1, <2>2, PushOnStack DEF Visit, Unseen
    <3> QED
      BY <1>1, <2>1, <3>1 DEF GraphInv, MarkInv, Closed
  <2>3. CASE o \in marked
    <3>1. UNCHANGED <<marked, mstack>>
      BY <1>2, <2>3 DEF Visit, Unseen
    <3> QED
      BY <1>1, <2>1, <2>3, <3>1 DEF GraphInv, MarkInv, Closed
  <2> QED
    BY <2>2, <2>3
<1>3. ASSUME Reftrace PROVE GraphInv'
  <2> DEFINE top == mstack[Len(mstack)]
             t == SubSeq(mstack, 1, Len(mstack) - 1)
  <2>1. /\ pc' = "mark" /\ UNCHANGED <<live, ptr, roots, marked>>
        /\ visit = {} /\ visit' = {e[2] : e \in {d \in ptr : d[1] = top}}
        /\ mstack' = t
        /\ mstack \in Seq(Cell) /\ mstack # <<>>
    BY <1>1, <1>3 DEF Reftrace, Traced, Children, heap, TypeOK
  <2>2. /\ top \in Range(mstack)
        /\ Range(t) \subseteq Range(mstack)
        /\ Range(mstack) \subseteq Range(t) \cup {top}
    BY <2>1, TopOfStack
  <2>3. ASSUME NEW e \in ptr, e[1] \in marked \ Range(t)
        PROVE  e[2] \in marked \cup visit'
    <3>1. CASE e[1] \in Range(mstack)
      BY <2>1, <2>2, <2>3, <3>1
    <3>2. CASE e[1] \notin Range(mstack)
      BY <1>1, <2>1, <2>3, <3>2 DEF MarkInv
    <3> QED
      BY <3>1, <3>2
  <2>4. visit' \subseteq live
    BY <1>1, <2>1
  <2>5. MarkInv'
    BY <1>1, <2>1, <2>2, <2>3, <2>4 DEF MarkInv, Closed
  <2> QED
    BY <1>1, <2>1, <2>5 DEF GraphInv
<1>4. ASSUME MarkDone PROVE GraphInv'
  <2>1. /\ pc' = "sweep" /\ cursor' = <<0, 1>>
        /\ visit = {} /\ mstack = <<>>
        /\ UNCHANGED <<live, ptr, roots, marked, visit, mstack>>
    BY <1>4 DEF MarkDone, heap, mark
  <2>2. \A o \in live : ~Behind(o)'
    <3>1. \A o \in live : o[1] \in Nat /\ o[2] \in Nat /\ o[2] > 0
      BY CellType, ClassType, SlotType DEF TypeOK
    <3> QED
      BY <2>1, <3>1 DEF Behind
  <2>3. Kept' = marked
    BY <1>1, <2>1, <2>2 DEF Kept, MarkInv
  <2>4. \A e \in ptr : e[1] \in marked => e[2] \in marked
    <3>1. Range(mstack) = {}
      BY <2>1 DEF Range
    <3> QED
      BY <1>1, <2>1, <3>1 DEF MarkInv
  <2>5. SweepInv'
    BY <1>1, <2>1, <2>2, <2>3, <2>4 DEF SweepInv, MarkInv, Closed
  <2> QED
    BY <1>1, <2>1, <2>5 DEF GraphInv
<1> QED
  BY <1>2, <1>3, <1>4

(* The last cell of a class has been passed: what the sweep keeps is the   *)
(* same when the next class begins, and after the last class it is         *)
(* everything in use.                                                      *)
LEMMA NextClassGraph ==
  ASSUME TypeOK, GraphInv, SweepInv, NextClass,
         UNCHANGED <<live, ptr, roots, marked, mstack, visit>>,
         \A o \in marked : o[1] > cursor[1],
         \A o \in live : o[1] = cursor[1] => o[2] < cursor[2]
  PROVE  GraphInv'
<1>1. /\ \A o \in live : o[1] \in Class /\ o[1] \in Nat /\ o[2] \in Nat /\ o[2] > 0
      /\ cursor[1] \in Class /\ cursor[1] \in Nat /\ cursor[2] \in Nat
  BY CellType, ClassType, SlotType DEF TypeOK
<1>2. \A o \in live : Behind(o) <=> o[1] <= cursor[1]
  BY <1>1 DEF Behind
<1>3. CASE cursor[1] + 1 < ArenaCount
  <2>1. cursor' = <<cursor[1] + 1, 1>> /\ pc' = "sweep"
    BY <1>1, <1>3, ClassType DEF NextClass
  <2>2. \A o \in live : Behind(o)' <=> o[1] <= cursor[1]
    BY <1>1, <2>1 DEF Behind
  <2>3. Kept' = Kept
    BY <1>2, <2>2 DEF Kept
  <2>4. marked \subseteq {o \in live : ~Behind(o)'}
    BY <1>1, <2>2 DEF SweepInv
  <2>5. SweepInv'
    BY <2>3, <2>4 DEF SweepInv, Closed
  <2> QED
    BY <2>1, <2>5 DEF GraphInv
<1>4. CASE cursor[1] + 1 = ArenaCount
  <2>1. pc' = "run"
    BY <1>1, <1>4, ClassType DEF NextClass
  <2>2. \A o \in live : o[1] <= cursor[1]
    BY <1>1, <1>4 DEF Class
  <2>3. marked = {}
    BY <1>1, <2>2 DEF SweepInv
  <2>4. Kept = live
    BY <1>2, <2>2 DEF Kept
  <2>5. RunInv'
    BY <2>3, <2>4 DEF SweepInv, RunInv, Closed
  <2> QED
    BY <2>1, <2>5 DEF GraphInv
<1> QED
  BY <1>1, <1>3, <1>4, ClassType

(* A step of the sweep.                                                    *)
LEMMA SweepGraph ==
  ASSUME TypeOK, CellInv, GraphInv, SweepSlot \/ CheckExpand \/ ExtendArena
  PROVE  GraphInv'
<1>1. /\ pc \in {"sweep", "extend"} /\ SweepInv
      /\ \A e \in ptr : e[1] \in live
      /\ roots \subseteq live
  BY DEF GraphInv, SweepSlot, CheckExpand, ExtendArena
<1>2. /\ \A o \in live : /\ o[1] \in Class /\ o[1] \in Nat
                         /\ o[2] \in Nat /\ o[2] <= Top(o[1])
                         /\ o = <<o[1], o[2]>>
      /\ cursor[1] \in Class /\ cursor[1] \in Nat /\ cursor[2] \in Nat
      /\ cursor = <<cursor[1], cursor[2]>>
  <2>1. \A o \in live \cup {cursor} :
          /\ o[1] \in Class /\ o[1] \in Nat /\ o[2] \in Nat /\ o = <<o[1], o[2]>>
    BY CellType, ClassType, SlotType DEF TypeOK, Cell
  <2> QED
    BY <2>1 DEF CellInv
<1>3. ASSUME SweepSlot PROVE GraphInv'
  <2>1. /\ pc' = "sweep" /\ cursor' = <<cursor[1], cursor[2] + 1>>
        /\ marked' = marked \ {cursor}
        /\ UNCHANGED <<roots, mstack, visit>>
        /\ ptr' \subseteq ptr
    BY <1>3 DEF SweepSlot, Unmark
  <2>2. \A o \in live : Behind(o)' <=> Behind(o) \/ o = cursor
    BY <1>2, <2>1 DEF Behind
  <2>3. ~Behind(cursor)
    BY <1>2 DEF Behind
  <2>4. /\ live' \subseteq live
        /\ Garbage(cursor) => live' = live \ {cursor} /\ \A e \in ptr' : e[1] # cursor
        /\ ~Garbage(cursor) => live' = live
    BY <1>3 DEF SweepSlot
  <2>5. Kept' = Kept
    <3>1. CASE Garbage(cursor)
      BY <2>1, <2>2, <2>3, <2>4, <3>1 DEF Kept, Garbage
    <3>2. CASE ~Garbage(cursor)
      BY <2>1, <2>2, <2>4, <3>2 DEF Kept, Garbage
    <3> QED
      BY <3>1, <3>2
  <2>6. marked' \subseteq {o \in live' : ~Behind(o)'}
    BY <1>1, <2>1, <2>2, <2>4 DEF SweepInv, Garbage
  <2>7. SweepInv'
    BY <1>1, <2>1, <2>5, <2>6 DEF SweepInv, Closed
  <2>8. \A e \in ptr' : e[1] \in live'
    BY <1>1, <2>1, <2>4
  <2>9. roots' \subseteq live'
    BY <2>7 DEF SweepInv, Kept
  <2> QED
    BY <2>1, <2>7, <2>8, <2>9 DEF GraphInv
<1>4. ASSUME CheckExpand PROVE GraphInv'
  <2>1. /\ UNCHANGED <<live, ptr, roots, marked, mstack, visit>>
        /\ cursor[2] > Top(cursor[1])
    BY <1>4 DEF CheckExpand, heap, mark
  <2>2. \A o \in live : o[1] = cursor[1] => o[2] < cursor[2]
    <3>1. Top(cursor[1]) \in Nat
      BY <1>2, ArenaSlotsType DEF Top, TypeOK
    <3> QED
      BY <1>2, <2>1, <3>1
  <2>3. \A o \in marked : o \in live /\ o[1] > cursor[1]
    BY <1>1, <1>2, <2>2 DEF SweepInv, Behind
  <2>4. CASE pc' = "extend" /\ UNCHANGED cursor
    <3>1. Kept' = Kept
      BY <2>1, <2>4 DEF Kept, Behind
    <3>2. SweepInv'
      BY <1>1, <2>1, <2>4, <3>1 DEF SweepInv, Closed, Behind
    <3> QED
      BY <1>1, <2>1, <2>2, <2>3, <2>4, <3>2 DEF GraphInv, ExtendInv
  <2>5. CASE NextClass
    BY <1>1, <2>1, <2>2, <2>3, <2>5, NextClassGraph
  <2> QED
    BY <1>4, <2>4, <2>5 DEF CheckExpand
<1>5. ASSUME ExtendArena PROVE GraphInv'
  <2>1. /\ UNCHANGED <<live, ptr, roots, marked, mstack, visit>>
        /\ ExtendInv
    BY <1>5 DEF ExtendArena, heap, mark, GraphInv
  <2>2. CASE pc' = pc /\ UNCHANGED cursor
    <3>1. Kept' = Kept
      BY <2>1, <2>2 DEF Kept, Behind
    <3>2. SweepInv' /\ ExtendInv'
      BY <1>1, <2>1, <2>2, <3>1 DEF SweepInv, ExtendInv, Closed, Behind
    <3> QED
      BY <1>1, <2>1, <2>2, <3>2 DEF GraphInv
  <2>3. CASE NextClass
    BY <1>1, <2>1, <2>3, NextClassGraph DEF ExtendInv
  <2> QED
    BY <1>5, <2>2, <2>3 DEF ExtendArena
<1> QED
  BY <1>3, <1>4, <1>5

LEMMA GraphStep == TypeOK /\ CellInv /\ GraphInv /\ [Next]_vars => GraphInv'
<1>1. ASSUME GraphInv, UNCHANGED vars PROVE GraphInv'
  <2>1. UNCHANGED <<live, ptr, roots, marked, mstack, visit, pc, cursor>>
    BY <1>1 DEF vars, heap, mark, sweep
  <2>2. Kept' = Kept
    BY <2>1 DEF Kept, Behind
  <2>3. /\ RunInv => RunInv'
        /\ MarkInv => MarkInv'
        /\ SweepInv => SweepInv'
        /\ ExtendInv => ExtendInv'
    BY <2>1, <2>2 DEF RunInv, MarkInv, SweepInv, ExtendInv, Closed, Behind
  <2> QED
    BY <1>1, <2>1, <2>3 DEF GraphInv
<1> QED
  BY <1>1, MutatorGraph, MarkGraph, SweepGraph DEF Next, Collector

(***************************************************************************)
(* The theorems on safety.                                                 *)
(***************************************************************************)

LEMMA InitInvariants == Init => TypeOK /\ IInv
<1> SUFFICES ASSUME Init PROVE TypeOK /\ IInv
  OBVIOUS
<1>1. ASSUME NEW c \in Class
      PROVE  /\ ArenaSlots(c) \in Nat \ {0}
             /\ ArenaChain(c, 0) \in Seq(Slot)
             /\ IsInjective(ArenaChain(c, 0))
             /\ \A n \in Range(ArenaChain(c, 0)) : n \in Nat /\ n <= ArenaSlots(c)
  <2> DEFINE n == ArenaSlots(c)
             s == [i \in 1 .. n |-> 0 + i]
  <2>1. n \in Nat \ {0}
    BY ArenaSlotsType
  <2> HIDE DEF n
  <2>2. s \in Seq(Slot) /\ IsInjective(s)
    BY <2>1, ChainType, ChainSound
  <2>3. \A m \in Range(s) : m \in Nat /\ 0 < m /\ m <= 0 + n
    BY <2>1, ChainSound
  <2>4. ArenaChain(c, 0) = s
    BY DEF ArenaChain, n
  <2> QED
    BY <2>1, <2>2, <2>3, <2>4 DEF n
<1>2. /\ freelist \in [Class -> Seq(Slot)]
      /\ size \in [Class -> Int]
      /\ arenas \in [Class -> Nat]
      /\ burst \in [Class -> Nat]
  BY <1>1 DEF Init
<1>3. threshold \in [Class -> Int]
  BY <1>1, QuotientType DEF Init
<1>4. /\ mcap \in Nat \ {0}
      /\ mstack \in Seq(Cell)
      /\ cursor \in Class \X Slot
  BY PoolAssumption, ClassType, SlotType, EmptySeq DEF Init
<1>5. TypeOK
  BY <1>2, <1>3, <1>4 DEF Init, TypeOK
<1>6. CellInv
  <2>1. \A c \in Class : freelist[c] = ArenaChain(c, 0) /\ Top(c) = ArenaSlots(c)
    BY <1>1 DEF Init, Top
  <2> QED
    BY <1>1, <2>1 DEF Init, CellInv, FreeListSound
<1>7. GraphInv
  BY DEF Init, GraphInv, RunInv, Closed
<1> QED
  BY <1>5, <1>6, <1>7 DEF IInv

(* The variables keep their types: every slot number on a list, every cell *)
(* in use, marked or on the mark stack is a cell of the pool (KallocObject,*)
(* MarkAndSweepGC).                                                        *)
THEOREM TypeCorrect == Spec => []TypeOK
<1>1. Init => TypeOK
  BY InitInvariants
<1> QED
  BY <1>1, TypeStep, PTL DEF Spec

THEOREM InductiveInvariant == Spec => []IInv
<1>1. Init => IInv
  BY InitInvariants
<1>2. TypeOK /\ IInv /\ [Next]_vars => IInv'
  BY CellStep, GraphStep DEF IInv
<1> QED
  BY <1>1, <1>2, TypeCorrect, PTL DEF Spec

(* What is reachable lies in every closed set that holds the roots.        *)
LEMMA ReachableInClosed ==
  ASSUME NEW S, NEW R, NEW E, R \subseteq S, Closed(S, E)
  PROVE  Reachable(R, E) \subseteq S
<1> DEFINE T == S \cap Touched(R, E)
<1>1. R \subseteq T /\ T \in SUBSET Touched(R, E)
  BY DEF Touched
<1>2. Closed(T, E)
  BY DEF Closed, Touched
<1> QED
  BY <1>1, <1>2 DEF Reachable

(* No object a program can still reach is reclaimed, in any state of any   *)
(* collection (sweep0, KallocObject).                                      *)
THEOREM ReachableIsLive == Spec => []ReachableLive
<1>1. TypeOK /\ IInv => ReachableLive
  <2> SUFFICES ASSUME TypeOK, GraphInv PROVE ReachableLive
    BY DEF IInv
  <2>1. roots \subseteq live
    BY DEF GraphInv
  <2>2. CASE pc \in {"run", "deleted", "fault", "mark"}
    <3>1. Closed(live, ptr)
      BY <2>2 DEF GraphInv, RunInv, MarkInv
    <3> QED
      BY <2>1, <3>1, ReachableInClosed DEF ReachableLive
  <2>3. CASE pc \in {"sweep", "extend"}
    <3>1. roots \subseteq Kept /\ Closed(Kept, ptr) /\ Kept \subseteq live
      BY <2>3 DEF GraphInv, SweepInv, Kept
    <3> QED
      BY <3>1, ReachableInClosed DEF ReachableLive
  <2> QED
    BY <2>2, <2>3 DEF TypeOK, Collecting
<1> QED
  BY <1>1, TypeCorrect, InductiveInvariant, PTL

(* No free list names a slot twice, or one in use, or one outside the      *)
(* arenas (FREELIST_POP, FREELIST_PUSH, gc_extendObjectArena).             *)
THEOREM FreeListIsSound == Spec => []FreeListSound
<1>1. IInv => FreeListSound
  BY DEF IInv, CellInv
<1> QED
  BY <1>1, InductiveInvariant, PTL

(***************************************************************************)
(* The collector implements ObjectHeap.                                    *)
(***************************************************************************)

LEMMA SameReachable == \A R, E : Heap!Reachable(R, E) = Reachable(R, E)
BY DEF Heap!Reachable, Heap!Touched, Heap!Closed, Reachable, Touched, Closed

(* What the mutator does to the cells it may do to the abstract heap; the  *)
(* sweep takes back only what cannot be reached; all other steps of a      *)
(* collection change nothing there.                                        *)
LEMMA HeapStep ==
  ASSUME TypeOK, IInv, [Next]_vars PROVE [Heap!Next]_(Heap!heapVars)
<1> USE DEF Heap!Next, Heap!heapVars
<1>0. CellInv /\ GraphInv
  BY DEF IInv
<1>1. ASSUME NEW c \in Class, AllocObject(c) PROVE Heap!Next
  <2> DEFINE o == <<c, Head(freelist[c])>>
  <2>1. freelist[c] \in Seq(Slot) /\ freelist[c] # <<>>
    BY <1>1 DEF AllocObject, TypeOK
  <2>2. Head(freelist[c]) \in Slot /\ Head(freelist[c]) \in Range(freelist[c])
    BY <1>0, <2>1, PopSound, HeadTailProperties DEF CellInv, FreeListSound
  <2>3. o \in Cell \ live
    BY <1>0, <2>2, CellType DEF CellInv, FreeListSound
  <2>4. Heap!Alloc(o)
    BY <1>1, <2>3 DEF AllocObject, Heap!Alloc
  <2>5. o \in live' \ live
    BY <1>1, <2>3 DEF AllocObject
  <2> QED
    BY <2>4, <2>5
<1>2. ASSUME NEW c \in Class, AllocFault(c) PROVE UNCHANGED Heap!heapVars
  BY <1>2 DEF AllocFault, heap
<1>3. ASSUME NEW o \in roots, Drop(o) PROVE Heap!Next
  BY <1>3 DEF Drop, Heap!Drop
<1>4. ASSUME NEW e \in ptr, Load(e[2]) PROVE Heap!Next
  BY <1>4 DEF Load, Heap!Load
<1>5. ASSUME NEW e \in ptr, Erase(e[1], e[2]) PROVE Heap!Next
  BY <1>5 DEF Erase, Heap!Erase
<1>6. ASSUME NEW o \in roots, NEW p \in roots, Store(o, p) PROVE Heap!Next
  BY <1>6 DEF Store, Heap!Store
<1>7. ASSUME DeleteGcContext PROVE Heap!Next
  BY <1>7 DEF DeleteGcContext, Heap!Delete
<1>8. ASSUME ScheduleGC PROVE UNCHANGED Heap!heapVars
  BY <1>8 DEF ScheduleGC, heap, mark
<1>9. ASSUME (\E o \in visit : Visit(o)) \/ Reftrace \/ MarkDone
      PROVE  UNCHANGED Heap!heapVars
  BY <1>9 DEF Visit, Reftrace, MarkDone, heap
<1>10. ASSUME SweepSlot PROVE [Heap!Next]_(Heap!heapVars)
  <2>1. CASE Garbage(cursor)
    <3>1. cursor \in live /\ cursor \notin Kept
      <4>1. cursor[1] \in Nat /\ cursor[2] \in Nat
        BY ClassType, SlotType DEF TypeOK
      <4>2. ~Behind(cursor)
        BY <4>1 DEF Behind
      <4> QED
        BY <2>1, <4>2 DEF Garbage, Kept
    <3>2. Reachable(roots, ptr) \subseteq Kept
      BY <1>0, <1>10, ReachableInClosed DEF SweepSlot, GraphInv, SweepInv
    <3>3. Heap!Reclaim(cursor)
      BY <1>10, <2>1, <3>1, <3>2, SameReachable DEF SweepSlot, Heap!Reclaim
    <3>4. cursor \in live \ live'
      BY <1>10, <2>1, <3>1 DEF SweepSlot
    <3> QED
      BY <3>3, <3>4
  <2>2. CASE ~Garbage(cursor)
    BY <1>10, <2>2 DEF SweepSlot
  <2> QED
    BY <2>1, <2>2
<1>11. ASSUME CheckExpand \/ ExtendArena PROVE UNCHANGED Heap!heapVars
  BY <1>11 DEF CheckExpand, ExtendArena, NextClass, heap
<1>12. ASSUME UNCHANGED vars PROVE UNCHANGED Heap!heapVars
  BY <1>12 DEF vars, heap
<1> QED
  BY <1>1, <1>2, <1>3, <1>4, <1>5, <1>6, <1>7, <1>8, <1>9, <1>10, <1>11, <1>12
  DEF Next, Mutator, Collector

(* MSGC.c is a heap: whatever it does, the program sees a heap from which  *)
(* only unreachable objects are taken.                                     *)
THEOREM ImplementsHeap == Spec => HeapSpec
<1>1. Init => Heap!Init
  BY DEF Init, Heap!Init
<1> QED
  BY <1>1, HeapStep, TypeCorrect, InductiveInvariant, PTL DEF Spec, HeapSpec, Heap!Spec

(***************************************************************************)
(* The free lists never run dry: RoomInv.                                  *)
(***************************************************************************)

LEMMA QuotientAtLeast ==
  ASSUME NEW n \in Nat, NEW m \in Nat, NEW d \in Nat \ {0}, m * d <= n
  PROVE  m <= n \div d
<1>1. n < (n \div d + 1) * d /\ n \div d \in Nat
  OBVIOUS
<1>2. \A a, b \in Nat : a * d < b * d => a < b
  OBVIOUS
<1>3. m * d < (n \div d + 1) * d
  BY <1>1
<1> QED
  BY <1>1, <1>2, <1>3

LEMMA QuotaType ==
  ASSUME NEW c \in Class
  PROVE  /\ Quota(c) \in Nat
         /\ Quota(c) * ThresholdDivisor <= ArenaSlots(c)
         /\ CutPerArena(c) \in Nat
         /\ KeptSlots(c) = ArenaSlots(c) - CutPerArena(c)
<1>1. ArenaSlots(c) \in Nat /\ PageObjectSize[c] \in Nat \ {0}
  BY ArenaSlotsType, PoolAssumption
<1>2. ThresholdDivisor \in Nat \ {0}
  BY PoolAssumption
<1>3. \A n \in Nat, d \in Nat \ {0} : n \div d \in Nat /\ (n \div d) * d <= n
  OBVIOUS
<1> QED
  BY <1>1, <1>2, <1>3 DEF Quota, CutPerArena, KeptSlots

(* Twice as many arenas of which half have just been added whole keep back *)
(* the slots they all lost and one burst.                                  *)
LEMMA ReserveAfterExtension ==
  ASSUME BurstFits, NEW c \in Class, NEW k \in Nat \ {0}, NEW n \in Nat,
         k * ArenaSlots(c) <= n
  PROVE  (2 * k - 1) * CutPerArena(c) + MaxBurst <= n \div ThresholdDivisor
<1> DEFINE q == Quota(c)
           p == CutPerArena(c)
           s == ArenaSlots(c)
<1>1. /\ q \in Nat /\ p \in Nat /\ s \in Nat /\ q * ThresholdDivisor <= s
      /\ 2 * p <= q /\ MaxBurst + p <= q /\ MaxBurst \in Nat
  BY QuotaType, ArenaSlotsType, BoundAssumption DEF BurstFits
<1>2. ThresholdDivisor \in Nat \ {0}
  BY PoolAssumption
<1> HIDE DEF q, p, s
<1>3. k * q <= n \div ThresholdDivisor
  <2>1. \A a, b, d \in Nat : a <= b => d * a <= d * b
    OBVIOUS
  <2>2. (k * q) * ThresholdDivisor = k * (q * ThresholdDivisor)
    BY <1>1, <1>2
  <2>3. k * (q * ThresholdDivisor) <= k * s
    BY <1>1, <1>2, <2>1
  <2>4. k * q \in Nat /\ (k * q) * ThresholdDivisor <= n
    BY <1>1, <1>2, <2>2, <2>3 DEF s
  <2> QED
    BY <1>2, <2>4, QuotientAtLeast
<1>4. (2 * k - 1) * p + MaxBurst <= k * q
  <2>1. (2 * k - 1) * p = (k - 1) * (2 * p) + p
    BY <1>1
  <2>2. (k - 1) * (2 * p) <= (k - 1) * q
    BY <1>1
  <2>3. (k - 1) * q + q = k * q
    BY <1>1
  <2> QED
    BY <1>1, <2>1, <2>2, <2>3
<1>5. n \div ThresholdDivisor \in Nat
  BY QuotientType
<1> QED
  BY <1>1, <1>3, <1>4, <1>5 DEF p

LEMMA RoomInit == BurstFits /\ Init => RoomInv
<1> SUFFICES ASSUME BurstFits, Init, NEW c \in Class PROVE Room(c)
  BY DEF Init, RoomInv
<1>1. /\ arenas[c] = 1 /\ burst[c] = 0 /\ pc = "run"
      /\ freelist[c] = ArenaChain(c, 0)
      /\ size[c] = ArenaSlots(c) /\ threshold[c] = Quota(c)
  BY DEF Init, Quota
<1>2. ArenaSlots(c) \in Nat /\ Len(ArenaChain(c, 0)) = ArenaSlots(c)
  BY ArenaSlotsType, ChainType DEF ArenaChain
<1>3. CutPerArena(c) \in Nat /\ Cut(c) = 0
  BY <1>1, QuotaType DEF Cut
<1>4. Quota(c) \in Nat /\ Quota(c) <= ArenaSlots(c)
  BY <1>2, QuotientType DEF Quota
<1>5. MaxBurst <= Quota(c) /\ MaxBurst \in Nat
  BY <1>3, <1>4, BoundAssumption DEF BurstFits
<1> QED
  BY <1>1, <1>2, <1>3, <1>4, <1>5 DEF Room, Reserve

(* What Room needs of the types.                                           *)
LEMMA RoomType ==
  ASSUME TypeOK, NEW c \in Class
  PROVE  /\ arenas[c] \in Nat /\ size[c] \in Int /\ threshold[c] \in Int
         /\ burst[c] \in Nat /\ freelist[c] \in Seq(Slot)
         /\ Len(freelist[c]) \in Nat
         /\ CutPerArena(c) \in Nat /\ Cut(c) \in Int /\ c \in Nat
         /\ cursor[1] \in Class /\ cursor[1] \in Nat
<1>1. freelist[c] \in Seq(Slot) /\ arenas[c] \in Nat
  BY DEF TypeOK
<1>2. CutPerArena(c) \in Nat
  BY QuotaType
<1>3. Cut(c) \in Int
  <2>1. \A a \in Int, b \in Int : a * b \in Int
    OBVIOUS
  <2>2. arenas[c] - 1 \in Int /\ CutPerArena(c) \in Int
    BY <1>1, <1>2
  <2> QED
    BY <2>1, <2>2 DEF Cut
<1> QED
  BY <1>1, <1>2, <1>3, LenProperties, ClassType DEF TypeOK

(* The sweep of a class is over and the class has room.                    *)
LEMMA NextClassRoom ==
  ASSUME TypeOK, NextClass, pc \in {"sweep", "extend"},
         UNCHANGED burst,
         NEW c \in Class,
         arenas'[c] \in Nat, size'[c] \in Int, threshold'[c] \in Int,
         arenas'[c] > 0,
         size'[c] = Len(freelist'[c]) + Cut(c)',
         burst[c] <= MaxBurst,
         Reserve(c)',
         c <= cursor[1] => threshold'[c] <= size'[c]
  PROVE  Room(c)'
<1>1. c \in Nat /\ cursor[1] \in Nat /\ burst[c] \in Nat
  BY RoomType
<1>2. CASE cursor[1] + 1 < ArenaCount
  BY <1>1, <1>2, ClassType DEF NextClass, Room
<1>3. CASE cursor[1] + 1 = ArenaCount
  <2>1. c <= cursor[1]
    BY <1>1, <1>3 DEF Class
  <2> QED
    BY <1>1, <1>3, <2>1, ClassType DEF NextClass, Room
<1> QED
  BY <1>1, <1>2, <1>3, ClassType, RoomType

LEMMA RoomStep ==
  ASSUME BurstFits, TypeOK, RoomInv, [Next]_vars PROVE RoomInv'
<1>1. ASSUME NEW c \in Class, AllocObject(c) PROVE RoomInv'
  <2>1. /\ pc = "run" /\ pc' = "run" /\ freelist[c] # <<>>
        /\ \A d \in Class : Room(d)
    BY <1>1 DEF AllocObject, RoomInv
  <2>2. Len(Tail(freelist[c])) = Len(freelist[c]) - 1
    BY <2>1, RoomType, HeadTailProperties
  <2>3. ASSUME NEW d \in Class PROVE Room(d)'
    <3>1. /\ Cut(d)' = Cut(d) /\ (Reserve(d)' <=> Reserve(d))
          /\ UNCHANGED <<arenas, threshold>>
      BY <1>1 DEF AllocObject, Cut, CutPerArena, Reserve
    <3>2. CASE d = c
      <4>1. /\ size'[c] = size[c] - 1 /\ burst'[c] = burst[c] + 1
            /\ burst[c] < MaxBurst
            /\ freelist'[c] = Tail(freelist[c])
        BY <1>1 DEF AllocObject, TypeOK
      <4>2. ~flags' => ~(size[c] <= threshold[c])
        BY <1>1 DEF AllocObject, AsksForGC
      <4>3. /\ size[c] = Len(freelist[c]) + Cut(c)
            /\ threshold[c] <= size[c] + burst[c]
            /\ Reserve(c) /\ arenas[c] > 0
        BY <2>1 DEF Room
      <4>4. /\ size[c] \in Int /\ burst[c] \in Nat /\ threshold[c] \in Int
            /\ Len(freelist[c]) \in Nat /\ Cut(c) \in Int /\ MaxBurst \in Nat
        BY RoomType, BoundAssumption
      <4>5. /\ size'[c] = Len(freelist'[c]) + Cut(c)'
            /\ burst'[c] <= MaxBurst
            /\ threshold'[c] <= size'[c] + burst'[c]
        BY <2>2, <3>1, <3>2, <4>1, <4>3, <4>4
      <4>6. ASSUME ~flags' PROVE threshold'[c] <= size'[c]
        <5>1. ~(size[c] <= threshold[c])
          BY <4>2, <4>6
        <5> QED
          BY <3>1, <4>1, <4>4, <5>1
      <4> QED
        BY <2>1, <3>1, <3>2, <4>3, <4>5, <4>6 DEF Room
    <3>3. CASE d # c
      <4>1. /\ size'[d] = size[d] /\ burst'[d] = burst[d]
            /\ freelist'[d] = freelist[d]
            /\ ~flags' => ~flags
        BY <1>1, <3>3 DEF AllocObject, TypeOK
      <4> QED
        BY <2>1, <3>1, <4>1 DEF Room
    <3> QED
      BY <3>2, <3>3
  <2> QED
    BY <2>1, <2>3 DEF RoomInv
<1>2. ASSUME ScheduleGC PROVE RoomInv'
  <2>1. /\ pc = "run" /\ UNCHANGED <<arenas, freelist, size, threshold, cursor, flags>>
        /\ pc' = "mark" \/ (pc' = "run" /\ ~flags)
        /\ \A d \in Class : burst'[d] = 0
    BY <1>2 DEF ScheduleGC, pool, mark, sweep
  <2>2. ASSUME NEW d \in Class PROVE Room(d)'
    <3>1. Room(d)
      BY <2>1 DEF RoomInv
    <3>2. /\ size[d] \in Int /\ threshold[d] \in Int /\ burst[d] \in Nat
          /\ MaxBurst \in Nat
      BY RoomType, BoundAssumption
    <3>3. Cut(d)' = Cut(d) /\ (Reserve(d)' <=> Reserve(d))
      BY <2>1 DEF Reserve, Cut, CutPerArena
    <3>4. /\ arenas[d] > 0 /\ size[d] = Len(freelist[d]) + Cut(d) /\ Reserve(d)
          /\ ~flags => threshold[d] <= size[d]
      BY <2>1, <3>1 DEF Room
    <3>5. 0 <= MaxBurst /\ (pc' = "run" => threshold[d] <= size[d] /\ threshold[d] <= size[d] + 0)
      BY <2>1, <3>2, <3>4
    <3> QED
      BY <2>1, <3>3, <3>4, <3>5 DEF Room
  <2> QED
    BY <2>1, <2>2 DEF RoomInv
<1>3. ASSUME MarkDone PROVE RoomInv'
  <2>1. /\ pc = "mark" /\ pc' = "sweep" /\ cursor' = <<0, 1>>
        /\ UNCHANGED <<arenas, freelist, size, threshold, burst>>
    BY <1>3 DEF MarkDone, pool
  <2>2. ASSUME NEW d \in Class PROVE Room(d)'
    <3>1. Room(d) /\ d \in Nat
      BY <2>1, RoomType DEF RoomInv
    <3> QED
      BY <2>1, <3>1 DEF Room, Reserve, Cut, CutPerArena
  <2> QED
    BY <2>1, <2>2 DEF RoomInv
<1>4. ASSUME SweepSlot PROVE RoomInv'
  <2>1. PICK c \in Class : c = cursor[1]
    BY DEF TypeOK
  <2>2. /\ pc = "sweep" /\ pc' = "sweep" /\ cursor'[1] = c
        /\ UNCHANGED <<arenas, threshold, burst>>
        /\ cursor[2] \in Slot
    BY <1>4, <2>1 DEF SweepSlot, TypeOK
  <2>3. CASE Garbage(cursor)
    <3>1. /\ freelist' = [freelist EXCEPT ![c] = <<cursor[2]>> \o @]
          /\ size' = [size EXCEPT ![c] = @ + 1]
      BY <1>4, <2>1, <2>3 DEF SweepSlot
    <3>2. Len(<<cursor[2]>> \o freelist[c]) = Len(freelist[c]) + 1
      <4>1. <<cursor[2]>> \in Seq(Slot) /\ Len(<<cursor[2]>>) = 1
        BY <2>2
      <4> QED
        BY <4>1, RoomType, ConcatProperties
    <3>3. ASSUME NEW d \in Class PROVE Room(d)'
      <4>1. Room(d) /\ Cut(d)' = Cut(d) /\ (Reserve(d)' <=> Reserve(d))
        BY <2>2 DEF RoomInv, Cut, CutPerArena, Reserve
      <4>2. \/ size'[d] = size[d] /\ freelist'[d] = freelist[d]
            \/ size'[d] = size[d] + 1 /\ Len(freelist'[d]) = Len(freelist[d]) + 1
        BY <3>1, <3>2 DEF TypeOK
      <4>3. /\ size[d] = Len(freelist[d]) + Cut(d)
            /\ burst[d] <= MaxBurst /\ arenas[d] > 0 /\ Reserve(d)
            /\ d < c => threshold[d] <= size[d]
        BY <2>1, <2>2, <4>1 DEF Room
      <4>4. /\ size[d] \in Int /\ threshold[d] \in Int
            /\ Len(freelist[d]) \in Nat /\ Cut(d) \in Int
        BY RoomType
      <4>5. /\ size'[d] = Len(freelist'[d]) + Cut(d)'
            /\ d < c => threshold'[d] <= size'[d]
        BY <2>2, <4>1, <4>2, <4>3, <4>4
      <4> QED
        BY <2>2, <4>1, <4>3, <4>5 DEF Room
    <3> QED
      BY <2>2, <3>3 DEF RoomInv
  <2>4. CASE ~Garbage(cursor)
    <3>1. UNCHANGED <<freelist, size>>
      BY <1>4, <2>4 DEF SweepSlot
    <3>2. ASSUME NEW d \in Class PROVE Room(d)'
      BY <2>1, <2>2, <3>1 DEF RoomInv, Room, Reserve, Cut, CutPerArena
    <3> QED
      BY <2>2, <3>2 DEF RoomInv
  <2> QED
    BY <2>3, <2>4
<1>5. ASSUME CheckExpand PROVE RoomInv'
  <2>1. PICK c \in Class : c = cursor[1]
    BY DEF TypeOK
  <2>2. /\ pc = "sweep"
        /\ UNCHANGED <<arenas, freelist, size, threshold, burst>>
        /\ \A d \in Class : Room(d)
    BY <1>5 DEF CheckExpand, pool, RoomInv
  <2>3. \A d \in Class : Cut(d)' = Cut(d) /\ (Reserve(d)' <=> Reserve(d))
    BY <2>2 DEF Cut, CutPerArena, Reserve
  <2>4. CASE pc' = "extend" /\ ext' = arenas[c] /\ UNCHANGED cursor
    <3>1. \A d \in Class : Room(d)'
      BY <2>1, <2>2, <2>3, <2>4 DEF Room
    <3>2. arenas'[c] = 2 * 0 + ext' /\ 0 * ArenaSlots(c) <= size'[c]
      <4>1. Cut(c) \in Nat
        <5>1. \A a \in Nat, b \in Nat : a > 0 => (a - 1) * b \in Nat
          OBVIOUS
        <5> QED
          BY <2>2, <5>1, RoomType DEF Cut, Room
      <4>2. size[c] >= 0
        BY <2>2, <4>1, RoomType DEF Room
      <4> QED
        BY <2>2, <2>4, <4>2, RoomType, ArenaSlotsType
    <3>3. Extended(c)'
      BY <2>2, <3>2, RoomType DEF Extended, ArenaSlots
    <3> QED
      BY <2>1, <2>4, <3>1, <3>3 DEF RoomInv
  <2>5. CASE NextClass /\ size[c] > threshold[c]
    <3>1. ASSUME NEW d \in Class PROVE Room(d)'
      <4>1. /\ arenas'[d] \in Nat /\ size'[d] \in Int /\ threshold'[d] \in Int
            /\ arenas'[d] > 0
            /\ size'[d] = Len(freelist'[d]) + Cut(d)'
            /\ burst[d] <= MaxBurst
            /\ Reserve(d)'
        BY <2>2, <2>3, RoomType DEF Room
      <4>2. d <= cursor[1] => threshold'[d] <= size'[d]
        <5>1. /\ d \in Nat /\ c \in Nat
              /\ size[d] \in Int /\ threshold[d] \in Int
              /\ d < c => threshold[d] <= size[d]
          BY <2>1, <2>2, RoomType DEF Room
        <5> QED
          BY <2>1, <2>2, <2>5, <5>1
      <4> QED
        BY <2>2, <2>5, <4>1, <4>2, NextClassRoom
    <3>2. pc' \in {"sweep", "run"}
      BY <2>5 DEF NextClass
    <3> QED
      BY <3>1, <3>2 DEF RoomInv
  <2> QED
    BY <1>5, <2>1, <2>4, <2>5 DEF CheckExpand
<1>6. ASSUME ExtendArena PROVE RoomInv'
  <2>1. PICK c \in Class : c = cursor[1]
    BY DEF TypeOK
  <2> DEFINE s == ArenaSlots(c)
             p == CutPerArena(c)
             chain == ExtendChain(c, Top(c))
  <2>2. /\ pc = "extend" /\ UNCHANGED burst
        /\ arenas' = [arenas EXCEPT ![c] = @ + 1]
        /\ freelist' = [freelist EXCEPT ![c] = chain \o @]
        /\ size' = [size EXCEPT ![c] = @ + s]
        /\ threshold' = [threshold EXCEPT ![c] = (size[c] + s) \div ThresholdDivisor]
        /\ ext' = ext - 1
        /\ \A d \in Class : Room(d)
        /\ Extended(c)
    BY <1>6, <2>1 DEF ExtendArena, RoomInv
  <2>3. /\ s \in Nat /\ p \in Nat /\ arenas[c] \in Nat /\ ext \in Nat
        /\ size[c] \in Int
        /\ KeptSlots(c) \in Nat /\ KeptSlots(c) = s - p
        /\ Len(freelist[c]) \in Nat /\ Cut(c) \in Int
    BY ArenaSlotsType, QuotaType, RoomType DEF TypeOK
  <2>4. /\ arenas'[c] = arenas[c] + 1 /\ size'[c] = size[c] + s
        /\ threshold'[c] = (size[c] + s) \div ThresholdDivisor
        /\ freelist'[c] = chain \o freelist[c]
    BY <2>2 DEF TypeOK
  <2>0. \A d \in Class \ {c} : /\ arenas'[d] = arenas[d] /\ size'[d] = size[d]
                               /\ threshold'[d] = threshold[d]
                               /\ freelist'[d] = freelist[d]
    BY <2>2 DEF TypeOK
  <2>5. Cut(c)' = Cut(c) + p
    <3>1. Cut(c)' = (arenas'[c] - 1) * p
      BY DEF Cut, CutPerArena
    <3>2. Cut(c) = (arenas[c] - 1) * p
      BY DEF Cut
    <3>3. \A a, b \in Nat : (a + 1 - 1) * b = (a - 1) * b + b
      OBVIOUS
    <3> HIDE DEF p
    <3>4. Cut(c)' = (arenas[c] - 1) * p + p
      BY <2>3, <2>4, <3>1, <3>3
    <3> QED
      BY <3>2, <3>4
  <2>6. Len(freelist'[c]) = Len(freelist[c]) + s - p
    <3>1. Top(c) \in Nat
      BY <2>3 DEF Top
    <3>2. chain \in Seq(Slot) /\ Len(chain) = KeptSlots(c)
      BY <2>3, <3>1, ChainType DEF ExtendChain
    <3> HIDE DEF chain
    <3>3. Len(chain \o freelist[c]) = Len(chain) + Len(freelist[c])
      BY <3>2, ConcatProperties, RoomType
    <3> QED
      BY <2>3, <2>4, <3>2, <3>3
  <2> HIDE DEF s, p, chain
  <2>7. size'[c] = Len(freelist'[c]) + Cut(c)'
    <3>1. size[c] = Len(freelist[c]) + Cut(c)
      BY <2>2 DEF Room
    <3> QED
      BY <2>3, <2>4, <2>5, <2>6, <3>1
  <2>8. PICK k \in 0 .. arenas[c] : arenas[c] = 2 * k + ext /\ k * s <= size[c]
    BY <2>2 DEF Extended, s
  <2>9. (k + 1) * s <= size'[c] /\ size'[c] \in Nat
    <3>1. k \in Nat
      BY <2>3
    <3>2. (k + 1) * s = k * s + s /\ k * s \in Nat
      BY <2>3, <3>1
    <3>3. k * s + s <= size[c] + s /\ size[c] + s \in Nat
      <4>1. \A a, b, n \in Int : a \in Nat /\ b \in Nat /\ a <= n =>
                                   a + b <= n + b /\ n + b \in Nat
        OBVIOUS
      <4> QED
        BY <2>3, <2>8, <3>2, <4>1
    <3> QED
      BY <2>4, <3>2, <3>3
  <2>10. \A d \in Class \ {c} : Cut(d)' = Cut(d) /\ (Reserve(d)' <=> Reserve(d))
    BY <2>0 DEF Cut, CutPerArena, Reserve
  <2>11. CASE ext > 1 /\ UNCHANGED <<pc, cursor, flags>>
    <3>1. ASSUME NEW d \in Class PROVE Room(d)'
      <4>1. CASE d = c
        <5>1. arenas'[c] > 0 /\ ~(c < cursor[1])
          BY <2>1, <2>3, <2>4, RoomType
        <5>2. burst'[c] <= MaxBurst
          BY <2>2 DEF Room
        <5> QED
          BY <2>1, <2>2, <2>7, <2>11, <4>1, <5>1, <5>2 DEF Room
      <4>2. CASE d # c
        BY <2>0, <2>1, <2>2, <2>10, <2>11, <4>2 DEF Room
      <4> QED
        BY <4>1, <4>2
    <3>2. Extended(c)'
      <4>1. /\ k + 1 \in 0 .. arenas'[c]
            /\ arenas'[c] = 2 * (k + 1) + ext'
        BY <2>2, <2>3, <2>4, <2>8, <2>11
      <4> QED
        BY <2>9, <4>1 DEF Extended, ArenaSlots, s
    <3> QED
      BY <2>1, <2>2, <2>11, <3>1, <3>2 DEF RoomInv
  <2>12. CASE ext = 1 /\ NextClass
    <3>1. arenas'[c] = 2 * (k + 1) /\ k + 1 \in Nat \ {0}
      BY <2>3, <2>4, <2>8, <2>12
    <3>2. Cut(c)' = (2 * (k + 1) - 1) * p
      BY <3>1 DEF Cut, CutPerArena, p
    <3>3. threshold'[c] = size'[c] \div ThresholdDivisor
      BY <2>4
    <3>4. threshold'[c] \in Nat /\ threshold'[c] <= size'[c]
      BY <2>9, <3>3, QuotientType
    <3>5. Reserve(c)'
      BY <2>9, <3>1, <3>2, <3>3, ReserveAfterExtension DEF Reserve, s, p
    <3>6. ASSUME NEW d \in Class PROVE Room(d)'
      <4>1. CASE d = c
        <5>1. arenas'[c] \in Nat /\ arenas'[c] > 0 /\ burst[c] <= MaxBurst
          BY <2>2, <3>1 DEF Room
        <5> QED
          BY <2>2, <2>7, <2>9, <2>12, <3>4, <3>5, <4>1, <5>1, NextClassRoom
      <4>2. CASE d # c
        <5>1. /\ arenas'[d] \in Nat /\ size'[d] \in Int /\ threshold'[d] \in Int
              /\ arenas'[d] > 0
              /\ size'[d] = Len(freelist'[d]) + Cut(d)'
              /\ burst[d] <= MaxBurst
              /\ Reserve(d)'
          BY <2>0, <2>1, <2>2, <2>10, <4>2, RoomType DEF Room
        <5>2. d <= cursor[1] => threshold'[d] <= size'[d]
          <6>1. /\ d \in Nat /\ c \in Nat /\ (d < c => threshold[d] <= size[d])
            BY <2>1, <2>2, RoomType DEF Room
          <6> QED
            BY <2>0, <2>1, <4>2, <6>1
        <5> QED
          BY <2>2, <2>12, <5>1, <5>2, NextClassRoom
      <4> QED
        BY <4>1, <4>2
    <3>7. pc' \in {"sweep", "run"}
      BY <2>12 DEF NextClass
    <3> QED
      BY <3>6, <3>7 DEF RoomInv
  <2> QED
    BY <1>6, <2>11, <2>12 DEF ExtendArena
<1>7. ASSUME DeleteGcContext PROVE RoomInv'
  BY <1>7 DEF DeleteGcContext, RoomInv
<1>8. ASSUME \/ \E c \in Class : AllocFault(c)
             \/ \E o \in roots : Drop(o)
             \/ \E e \in ptr : Load(e[2]) \/ Erase(e[1], e[2])
             \/ \E o, p \in roots : Store(o, p)
             \/ \E o \in visit : Visit(o)
             \/ Reftrace
             \/ UNCHANGED vars
      PROVE  RoomInv'
  <2>1. /\ UNCHANGED <<pool, cursor, ext, burst>>
        /\ \/ UNCHANGED <<pc, flags>>
           \/ pc = "run" /\ pc' = "fault"
    BY <1>8 DEF AllocFault, Drop, Load, Erase, Store, Visit, Reftrace, vars, sweep
  <2>2. pc # "deleted" => \A d \in Class : Room(d) => Room(d)'
    BY <2>1 DEF pool, Room, Reserve, Cut, CutPerArena
  <2>3. Extended(cursor[1])' = Extended(cursor[1])
    BY <2>1 DEF pool, Extended, ArenaSlots
  <2> QED
    BY <2>1, <2>2, <2>3 DEF RoomInv
<1> QED
  BY <1>1, <1>2, <1>3, <1>4, <1>5, <1>6, <1>7, <1>8 DEF Next, Mutator, Collector

(* A program that allocates no more between two safepoints than BurstFits  *)
(* allows never meets an empty free list: DBG_ASSERT(freelist.list != NULL)*)
(* of FREELIST_POP holds, although every extension leaves slots out.       *)
THEOREM NeverOutOfCells == ASSUME BurstFits PROVE Spec => []NoFault
<1>1. Init => RoomInv /\ NoFault
  BY RoomInit DEF Init, NoFault
<1>2. TypeOK /\ RoomInv /\ NoFault /\ [Next]_vars => RoomInv' /\ NoFault'
  <2> SUFFICES ASSUME TypeOK, RoomInv, NoFault, [Next]_vars
               PROVE  RoomInv' /\ NoFault'
    OBVIOUS
  <2>1. RoomInv'
    BY RoomStep
  <2>2. ASSUME NEW c \in Class, AllocFault(c) PROVE FALSE
    <3>1. pc = "run" /\ burst[c] < MaxBurst /\ Len(freelist[c]) = 0
      BY <2>2 DEF AllocFault
    <3>2. Room(c)
      BY <3>1 DEF RoomInv
    <3>3. /\ size[c] = 0 + Cut(c) /\ Cut(c) + MaxBurst <= threshold[c]
          /\ threshold[c] <= size[c] + burst[c]
      BY <3>1, <3>2 DEF Room, Reserve
    <3>4. /\ size[c] \in Int /\ threshold[c] \in Int /\ burst[c] \in Nat
          /\ MaxBurst \in Nat /\ Cut(c) \in Int
      BY RoomType, BoundAssumption
    <3> QED
      BY ONLY <3>1, <3>3, <3>4
  <2>3. NoFault'
    BY <2>2 DEF NoFault, Next, Mutator, Collector, AllocObject, Drop, Load, Erase,
       Store, ScheduleGC, DeleteGcContext, Visit, Reftrace, MarkDone, SweepSlot,
       CheckExpand, ExtendArena, NextClass, vars
  <2> QED
    BY <2>1, <2>3
<1> QED
  BY <1>1, <1>2, TypeCorrect, PTL DEF Spec

(***************************************************************************)
(* The mark stack never overflows.                                         *)
(***************************************************************************)

LEMMA PopLength ==
  ASSUME NEW s \in Seq(Cell), s # <<>>
  PROVE  Len(SubSeq(s, 1, Len(s) - 1)) = Len(s) - 1
<1> DEFINE t == SubSeq(s, 1, Len(s) - 1)
<1>1. Len(s) \in Nat /\ Len(s) > 0 /\ DOMAIN s = 1 .. Len(s)
  BY LenProperties, EmptySeq
<1>2. t \in Seq(Cell) /\ DOMAIN t = 1 .. Len(s) - 1
  BY <1>1, SubSeqProperties, LenProperties
<1>3. Len(t) \in Nat /\ DOMAIN t = 1 .. Len(t)
  BY <1>2, LenProperties
<1> QED
  BY <1>1, <1>2, <1>3

LEMMA StackStep == TypeOK /\ MarkStackFits /\ [Next]_vars => MarkStackFits'
<1> SUFFICES ASSUME TypeOK, MarkStackFits, [Next]_vars PROVE MarkStackFits'
  OBVIOUS
<1>1. /\ mstack \in Seq(Cell) /\ Len(mstack) \in Nat
      /\ mcap \in Nat \ {0} /\ Len(mstack) < mcap
  BY LenProperties DEF TypeOK, MarkStackFits
<1>2. ASSUME UNCHANGED mstack, UNCHANGED mcap PROVE MarkStackFits'
  BY <1>2, <1>1 DEF MarkStackFits
<1>3. ASSUME NEW o \in Cell, mstack' = Append(mstack, o), mcap' = PushCap(Len(mstack))
      PROVE  MarkStackFits'
  <2>1. Len(mstack') = Len(mstack) + 1
    BY <1>1, <1>3, AppendProperties
  <2>2. CASE Len(mstack) + 1 < mcap
    BY <1>1, <1>3, <2>1, <2>2 DEF MarkStackFits, PushCap
  <2>3. CASE Len(mstack) + 1 = mcap
    <3>1. mcap % mcap = 0
      BY <1>1
    <3>2. mcap' = 2 * mcap
      BY <1>3, <2>3, <3>1 DEF PushCap
    <3> QED
      BY <1>1, <2>1, <2>3, <3>2 DEF MarkStackFits
  <2> QED
    BY <1>1, <2>2, <2>3
<1>4. ASSUME mstack' = <<>>, UNCHANGED mcap PROVE MarkStackFits'
  BY <1>1, <1>4, EmptySeq DEF MarkStackFits
<1>5. ASSUME NEW o \in Cell, Visit(o) PROVE MarkStackFits'
  BY <1>2, <1>3, <1>5 DEF Visit
<1>6. ASSUME Reftrace PROVE MarkStackFits'
  <2>1. mstack # <<>> /\ mcap' = mcap
    BY <1>6 DEF Reftrace
  <2>2. Len(SubSeq(mstack, 1, Len(mstack) - 1)) = Len(mstack) - 1
    BY <1>1, <2>1, PopLength
  <2>3. Len(mstack') = Len(mstack) - 1
    BY <1>6, <2>2 DEF Reftrace
  <2> QED
    BY <1>1, <2>1, <2>3 DEF MarkStackFits
<1>7. ASSUME ScheduleGC PROVE MarkStackFits'
  <2>1. \/ mstack' = <<>> /\ UNCHANGED mcap
        \/ UNCHANGED mstack /\ UNCHANGED mcap
    BY <1>7 DEF ScheduleGC, mark
  <2> QED
    BY <1>2, <1>4, <2>1
<1>8. ASSUME Mutator, ~ScheduleGC PROVE UNCHANGED mstack /\ UNCHANGED mcap
  BY <1>8 DEF Mutator, AllocObject, AllocFault, Drop, Load, Erase, Store,
              DeleteGcContext, mark
<1>9. ASSUME MarkDone \/ SweepSlot \/ CheckExpand \/ ExtendArena
      PROVE  UNCHANGED mstack /\ UNCHANGED mcap
  BY <1>9 DEF MarkDone, SweepSlot, CheckExpand, ExtendArena, mark
<1>10. ASSUME UNCHANGED vars PROVE UNCHANGED mstack /\ UNCHANGED mcap
  BY <1>10 DEF vars, mark
<1>11. \A o \in visit : o \in Cell
  BY DEF TypeOK
<1> QED
  BY <1>2, <1>5, <1>6, <1>7, <1>8, <1>9, <1>10, <1>11 DEF Next, Collector

(* mstack_Push writes below the end of the array it has, however deep the  *)
(* marking goes: the stack doubles before its tail wraps (mstack_Push).    *)
THEOREM MarkStackNeverOverflows == Spec => []MarkStackFits
<1>1. Init => MarkStackFits
  BY PoolAssumption, EmptySeq DEF Init, MarkStackFits
<1> QED
  BY <1>1, TypeCorrect, StackStep, PTL DEF Spec

(***************************************************************************)
(* No slot is lost or counted twice: SlotAccounting.                       *)
(***************************************************************************)

(* Slot n is the i-th of the arena that a others precede.                  *)
LEMMA SlotPlace ==
  ASSUME NEW A \in Nat \ {0}, NEW n \in Slot
  PROVE  \E a \in Nat : \E i \in 1 .. A : n = a * A + i
<1> DEFINE q == (n - 1) \div A
           t == q * A
<1>1. n - 1 \in Nat /\ n \in Nat
  BY DEF Slot
<1>2. \A x \in Nat : x \div A \in Nat /\ (x \div A) * A <= x /\ x < (x \div A + 1) * A
  OBVIOUS
<1>3. q \in Nat /\ t <= n - 1 /\ n - 1 < (q + 1) * A
  BY <1>1, <1>2
<1> HIDE DEF q
<1>4. (q + 1) * A = t + A /\ t \in Nat
  <2>1. \A x, y \in Nat : (x + 1) * y = x * y + y /\ x * y \in Nat
    OBVIOUS
  <2> QED
    BY <1>3, <2>1
<1> HIDE DEF t
<1>5. n - t \in 1 .. A /\ n = t + (n - t)
  BY <1>1, <1>3, <1>4
<1> QED
  BY <1>3, <1>5 DEF t

LEMMA Remainder ==
  ASSUME NEW A \in Nat \ {0}, NEW a \in Nat, NEW r \in 0 .. A - 1
  PROVE  (a * A + r) % A = r
OBVIOUS

(* The last page of every arena but the first keeps its first slot only.   *)
LEMMA CutOffAt ==
  ASSUME NEW c \in Class, NEW a \in Nat, NEW i \in 1 .. ArenaSlots(c)
  PROVE  CutOff(c, a * ArenaSlots(c) + i) <=> a > 0 /\ i > KeptSlots(c)
<1> DEFINE A == ArenaSlots(c)
           n == a * A + i
           k == (ArenaPages - 1) * PageObjectSize[c]
<1>1. A \in Nat \ {0}
  BY ArenaSlotsType
<1>2. k \in Int /\ KeptSlots(c) = k + 1
  <2>1. \A p, s \in Nat \ {0} : (p - 1) * s = p * s - s /\ p * s \in Nat
    OBVIOUS
  <2>2. k = A - PageObjectSize[c] /\ PageObjectSize[c] \in Nat
    BY <2>1, PoolAssumption DEF ArenaSlots
  <2> QED
    BY <1>1, <2>2 DEF KeptSlots
<1> HIDE DEF A, k
<1>3. i \in Nat /\ 1 <= i /\ i <= A /\ i - 1 \in 0 .. A - 1
  BY <1>1 DEF A
<1> DEFINE b == a * A
<1>4. b \in Nat /\ (a = 0 => b = 0) /\ (a > 0 => b >= A)
  <2>1. \A x \in Nat : \A y \in Nat \ {0} :
           x * y \in Nat /\ (x = 0 => x * y = 0) /\ (x > 0 => x * y >= y)
    OBVIOUS
  <2> QED
    BY <1>1, <2>1
<1>5. (b + (i - 1)) % A = i - 1
  BY <1>1, <1>3, Remainder
<1> HIDE DEF b
<1>6. (n - 1) % A = i - 1 /\ n = b + i
  <2>1. n = b + i
    BY DEF b
  <2> HIDE DEF n
  <2>2. n - 1 = b + (i - 1)
    BY <1>3, <1>4, <2>1
  <2> QED
    BY <1>5, <2>1, <2>2
<1> HIDE DEF n
<1>7. n > A <=> a > 0
  BY <1>1, <1>3, <1>4, <1>6
<1>8. (n - 1) % A > k <=> i > KeptSlots(c)
  <2> DEFINE K == KeptSlots(c)
  <2>1. K = k + 1
    BY <1>2
  <2> HIDE DEF K
  <2>2. i - 1 > k <=> i > K
    BY <1>2, <1>3, <2>1
  <2> QED
    BY <1>6, <2>2 DEF K
<1>9. CutOff(c, n) <=> n > A /\ (n - 1) % A > k
  BY DEF CutOff, A, k
<1> QED
  BY <1>7, <1>8, <1>9 DEF n, A

LEMMA UpFrom ==
  ASSUME NEW T \in SUBSET Nat, 1 \in T,
         \A n \in Nat \ {0} : n \in T => n + 1 \in T
  PROVE  \A n \in Nat \ {0} : n \in T
<1> DEFINE R == OpToRel(<, Nat)
           B == (Nat \ {0}) \ T
<1>1. IsWellFoundedOn(R, Nat)
  BY NatLessThanWellFounded
<1>2. \A a, b \in Nat : <<a, b>> \notin R => ~ (a < b)
  BY DEF OpToRel
<1>3. B \subseteq Nat
  OBVIOUS
<1>4. SUFFICES ASSUME B # {} PROVE FALSE
  OBVIOUS
<1> HIDE DEF R
<1>5. PICK m \in B : \A k \in B : <<k, m>> \notin R
  <2> HIDE DEF B
  <2> QED
    BY <1>1, <1>3, <1>4, WFMin
<1>6. m \in Nat /\ m # 0 /\ m # 1 /\ m - 1 \in Nat \ {0} /\ m - 1 < m
  BY <1>5
<1>7. m - 1 \notin B
  BY <1>2, <1>5, <1>6
<1>8. m - 1 \in T
  BY <1>6, <1>7
<1>9. (m - 1) + 1 = m
  BY <1>6
<1> QED
  BY <1>5, <1>6, <1>8, <1>9

(* Each arena added later loses as many slots as its last page has, but    *)
(* one.                                                                    *)
LEMMA CutCount ==
  ASSUME NEW c \in Class, NEW a \in Nat \ {0}
  PROVE  Cardinality({n \in 1 .. a * ArenaSlots(c) : CutOff(c, n)})
           = (a - 1) * CutPerArena(c)
<1> DEFINE A == ArenaSlots(c)
           K == KeptSlots(c)
           p == CutPerArena(c)
           C(b) == {n \in 1 .. b * A : CutOff(c, n)}
           T == {b \in Nat \ {0} : IsFiniteSet(C(b)) /\ Cardinality(C(b)) = (b - 1) * p}
<1>1. /\ A \in Nat \ {0} /\ K \in Nat \ {0} /\ p \in Nat /\ K = A - p
  BY ArenaSlotsType, QuotaType
<1>2. \A b \in Nat, i \in 1 .. A : CutOff(c, b * A + i) <=> b > 0 /\ i > K
  BY CutOffAt
<1> HIDE DEF A, K, p
<1>3. 1 \in T
  <2>1. \A n \in 1 .. A : ~ CutOff(c, n)
    <3>1. \A n \in 1 .. A : 0 * A + n = n
      BY <1>1
    <3> QED
      BY <1>2, <3>1
  <2>2. C(1) = {}
    BY <1>1, <2>1
  <2>3. (1 - 1) * p = 0
    BY <1>1
  <2> QED
    BY <2>2, <2>3, FS_EmptySet
<1>4. ASSUME NEW b \in Nat \ {0}, b \in T PROVE b + 1 \in T
  <2> DEFINE t == b * A
             I == t + K + 1 .. t + A
  <2>1. t \in Nat /\ (b + 1) * A = t + A
    <3>1. \A x, y \in Nat : (x + 1) * y = x * y + y /\ x * y \in Nat
      OBVIOUS
    <3> QED
      BY <1>1, <3>1
  <2>2. \A n \in t + 1 .. t + A : CutOff(c, n) <=> n \in I
    <3> SUFFICES ASSUME NEW n \in t + 1 .. t + A PROVE CutOff(c, n) <=> n \in I
      OBVIOUS
    <3>1. CutOff(c, t + (n - t)) <=> b > 0 /\ n - t > K
      <4>1. n - t \in 1 .. A
        BY <1>1, <2>1
      <4> QED
        BY <1>2, <4>1
    <3> HIDE DEF t
    <3>2. t + (n - t) = n /\ (n - t > K <=> n \in I)
      BY <1>1, <2>1
    <3> QED
      BY <1>4, <3>1, <3>2
  <2>3. C(b + 1) = C(b) \cup I
    <3>1. /\ 1 .. (b + 1) * A = (1 .. t) \cup (t + 1 .. t + A)
          /\ I \subseteq t + 1 .. t + A
      <4> HIDE DEF t
      <4> QED
        BY <1>1, <2>1
    <3> HIDE DEF I
    <3>2. C(b) = {n \in 1 .. t : CutOff(c, n)}
      OBVIOUS
    <3> QED
      BY <2>2, <3>1, <3>2
  <2>4. C(b) \cap I = {}
    <3>1. C(b) \subseteq 1 .. t
      OBVIOUS
    <3> HIDE DEF t, C
    <3> QED
      BY <1>1, <2>1, <3>1
  <2>5. IsFiniteSet(I) /\ Cardinality(I) = p
    <3> HIDE DEF t
    <3>1. t + K + 1 \in Int /\ t + A \in Int
      BY <1>1, <2>1
    <3>2. /\ IsFiniteSet(I)
          /\ Cardinality(I) = IF t + K + 1 > t + A THEN 0 ELSE (t + A) - (t + K + 1) + 1
      BY <3>1, FS_Interval
    <3> HIDE DEF I
    <3> QED
      BY <1>1, <2>1, <3>2
  <2>6. IsFiniteSet(C(b)) /\ Cardinality(C(b)) = (b - 1) * p
    BY <1>4
  <2>7. IsFiniteSet(C(b) \cup I) /\ Cardinality(C(b) \cup I) = (b - 1) * p + p
    <3> HIDE DEF C, I
    <3>1. /\ IsFiniteSet(C(b) \cup I)
          /\ Cardinality(C(b) \cup I) = Cardinality(C(b)) + Cardinality(I) - Cardinality({})
      BY <2>4, <2>5, <2>6, FS_Union
    <3>2. (b - 1) * p \in Nat
      BY <1>1
    <3> QED
      BY <1>1, <2>5, <2>6, <3>1, <3>2, FS_EmptySet
  <2>8. ((b + 1) - 1) * p = (b - 1) * p + p
    <3>1. \A x, y \in Nat : (x + 1 - 1) * y = (x - 1) * y + y
      OBVIOUS
    <3> QED
      BY <1>1, <3>1
  <2>9. IsFiniteSet(C(b + 1)) /\ Cardinality(C(b + 1)) = ((b + 1) - 1) * p
    BY <2>3, <2>7, <2>8
  <2> QED
    BY <2>9
<1>5. T \subseteq Nat
  OBVIOUS
<1>6. \A n \in Nat \ {0} : n \in T => n + 1 \in T
  BY <1>4
<1>7. a \in T
  <2> HIDE DEF T
  <2> QED
    BY <1>3, <1>5, <1>6, UpFrom
<1> QED
  BY <1>7 DEF A, p

(* What FREELIST_POP and FREELIST_PUSH do to what is listed and to how     *)
(* many there are.                                                         *)
LEMMA PopKeeps ==
  ASSUME NEW s \in Seq(Slot), s # <<>>
  PROVE  /\ Range(s) = Range(Tail(s)) \cup {Head(s)}
         /\ Len(Tail(s)) = Len(s) - 1
         /\ Tail(s) \in Seq(Slot) /\ Head(s) \in Slot
<1>1. /\ DOMAIN s = 1 .. Len(s) /\ Len(s) \in Nat /\ Len(s) > 0 /\ Head(s) = s[1]
      /\ Head(s) \in Slot /\ Tail(s) \in Seq(Slot) /\ Len(Tail(s)) = Len(s) - 1
  BY LenProperties, EmptySeq, HeadTailProperties
<1>2. /\ DOMAIN Tail(s) = 1 .. Len(s) - 1
      /\ \A i \in 1 .. Len(s) - 1 : Tail(s)[i] = s[i + 1]
  BY <1>1, HeadTailProperties, LenProperties
<1>3. ASSUME NEW n \in Range(s) PROVE n \in Range(Tail(s)) \cup {Head(s)}
  <2>1. PICK i \in 1 .. Len(s) : n = s[i]
    BY <1>1 DEF Range
  <2>2. CASE i = 1
    BY <1>1, <2>1, <2>2
  <2>3. CASE i # 1
    <3>1. i - 1 \in DOMAIN Tail(s) /\ Tail(s)[i - 1] = s[i]
      BY <1>1, <1>2, <2>3
    <3> QED
      BY <2>1, <3>1 DEF Range
  <2> QED
    BY <2>2, <2>3
<1>4. Range(Tail(s)) \subseteq Range(s)
  <2> SUFFICES ASSUME NEW n \in Range(Tail(s)) PROVE n \in Range(s)
    OBVIOUS
  <2>1. PICK i \in 1 .. Len(s) - 1 : n = s[i + 1]
    BY <1>2 DEF Range
  <2>2. i + 1 \in DOMAIN s
    BY <1>1, <2>1
  <2> QED
    BY <2>1, <2>2 DEF Range
<1>5. Head(s) \in Range(s)
  BY <1>1 DEF Range
<1> QED
  BY <1>1, <1>3, <1>4, <1>5

LEMMA PushKeeps ==
  ASSUME NEW s \in Seq(Slot), NEW n \in Slot
  PROVE  /\ Range(<<n>> \o s) = Range(s) \cup {n}
         /\ Len(<<n>> \o s) = Len(s) + 1
<1> DEFINE t == <<n>>
<1>1. t \in Seq(Slot) /\ Len(t) = 1 /\ Range(t) = {n}
  BY DEF Range
<1> HIDE DEF t
<1>2. Range(t \o s) = {n} \cup Range(s)
  BY <1>1, RangeConcatenation
<1>3. Len(t \o s) = 1 + Len(s) /\ Len(s) \in Nat
  BY <1>1, ConcatProperties, LenProperties
<1> QED
  BY <1>2, <1>3 DEF t

LEMMA AccountType ==
  ASSUME TypeOK, NEW c \in Class
  PROVE  /\ freelist[c] \in Seq(Slot) /\ Len(freelist[c]) \in Nat
         /\ size[c] \in Int /\ Cut(c) \in Int
         /\ arenas[c] \in Nat /\ Top(c) \in Nat
         /\ \A n \in Range(freelist[c]) : n \in Slot
<1>1. /\ freelist[c] \in Seq(Slot) /\ Len(freelist[c]) \in Nat
      /\ size[c] \in Int /\ Cut(c) \in Int /\ arenas[c] \in Nat
  BY RoomType
<1>2. Top(c) \in Nat
  BY <1>1, ArenaSlotsType DEF Top
<1>3. \A n \in Range(freelist[c]) : n \in Slot
  BY <1>1, LenProperties DEF Range
<1> QED
  BY <1>1, <1>2, <1>3

(* CutOff has no variable in it; Cut and Top depend on arenas only.        *)
LEMMA AccountFrame ==
  ASSUME NEW c \in Class, arenas'[c] = arenas[c]
  PROVE  Cut(c)' = Cut(c) /\ Top(c)' = Top(c)
BY DEF Cut, Top, CutPerArena, ArenaSlots

LEMMA OneArenaMore ==
  ASSUME TypeOK, NEW c \in Class, arenas'[c] = arenas[c] + 1
  PROVE  Top(c)' = Top(c) + ArenaSlots(c) /\ Cut(c)' = Cut(c) + CutPerArena(c)
<1>1. arenas[c] \in Nat /\ ArenaSlots(c) \in Nat /\ CutPerArena(c) \in Nat
  BY AccountType, ArenaSlotsType, QuotaType
<1>2. \A x, y \in Nat : (x + 1) * y = x * y + y
  OBVIOUS
<1>3. \A x, y \in Nat : x * y = (x - 1) * y + y
  OBVIOUS
<1>4. Top(c)' = (arenas[c] + 1) * ArenaSlots(c)
  BY DEF Top, ArenaSlots
<1>5. Cut(c)' = arenas[c] * CutPerArena(c)
  <2> DEFINE z == arenas'[c] - 1
  <2>1. Cut(c)' = z * CutPerArena(c)
    BY DEF Cut, CutPerArena
  <2>2. z = arenas[c]
    BY <1>1
  <2> HIDE DEF z
  <2> QED
    BY <2>1, <2>2
<1>6. Top(c)' = Top(c) + ArenaSlots(c)
  BY <1>1, <1>2, <1>4 DEF Top
<1>7. Cut(c)' = Cut(c) + CutPerArena(c)
  BY <1>1, <1>3, <1>5 DEF Cut
<1> QED
  BY <1>6, <1>7

LEMMA AccountSame ==
  ASSUME NEW c \in Class, Accounted(c), arenas'[c] = arenas[c], size'[c] = size[c],
         freelist'[c] = freelist[c],
         \A o \in Cell : o[1] = c => (o \in live' <=> o \in live),
         live' \subseteq Cell, TypeOK
  PROVE  Accounted(c)'
<1>1. Cut(c)' = Cut(c) /\ Top(c)' = Top(c)
  BY AccountFrame
<1>2. /\ arenas'[c] > 0 /\ size'[c] = Len(freelist'[c]) + Cut(c)'
      /\ \A n \in Range(freelist'[c]) : ~ CutOff(c, n)
  BY <1>1 DEF Accounted
<1>3. ASSUME NEW n \in 1 .. Top(c)'
      PROVE  <<c, n>> \in live' \/ n \in Range(freelist'[c]) \/ CutOff(c, n)
  <2>1. n \in 1 .. Top(c) /\ n \in Slot
    BY <1>1, AccountType DEF Slot
  <2>2. <<c, n>> \in Cell /\ <<c, n>>[1] = c
    BY <2>1, CellType
  <2> QED
    BY <2>1, <2>2 DEF Accounted
<1>4. ASSUME NEW o \in live', o[1] = c PROVE ~ CutOff(c, o[2])
  BY <1>4 DEF Accounted
<1> QED
  BY <1>2, <1>3, <1>4 DEF Accounted, CutOff, ArenaSlots

LEMMA AccountInit == Init => AccountInv
<1> SUFFICES ASSUME Init, NEW c \in Class PROVE Accounted(c)
  BY DEF AccountInv
<1> DEFINE A == ArenaSlots(c)
<1>1. A \in Nat \ {0}
  BY ArenaSlotsType
<1>2. arenas[c] = 1 /\ freelist[c] = ArenaChain(c, 0) /\ size[c] = A /\ live = {}
  BY DEF Init
<1>3. Top(c) = A /\ Cut(c) = 0
  <2>1. CutPerArena(c) \in Nat
    BY QuotaType
  <2> HIDE DEF A
  <2>2. 1 * A = A /\ (1 - 1) * CutPerArena(c) = 0
    BY <1>1, <2>1
  <2> QED
    BY <1>2, <2>2 DEF Top, Cut, A
<1>4. /\ Len(ArenaChain(c, 0)) = A
      /\ \A n \in 1 .. A : n \in Range(ArenaChain(c, 0))
      /\ Range(ArenaChain(c, 0)) \subseteq 1 .. A
  <2> HIDE DEF A
  <2> DEFINE ch == [i \in 1 .. A |-> 0 + i]
  <2>1. ch = ArenaChain(c, 0)
    BY DEF ArenaChain, A
  <2>2. Len(ch) = A
    BY <1>1, ChainType
  <2>3. DOMAIN ch = 1 .. A /\ \A i \in 1 .. A : ch[i] = i
    BY <1>1
  <2> HIDE DEF ch
  <2>4. Range(ch) = 1 .. A
    BY <2>3 DEF Range
  <2> QED
    BY <2>1, <2>2, <2>4
<1>5. \A n \in 1 .. A : ~ CutOff(c, n)
  <2>1. \A n \in 1 .. A : ~ (n > A)
    BY <1>1
  <2> QED
    BY <2>1 DEF CutOff
<1>6. size[c] = Len(freelist[c]) + Cut(c)
  BY <1>1, <1>2, <1>3, <1>4
<1>7. \A n \in 1 .. Top(c) : n \in Range(freelist[c])
  BY <1>2, <1>3, <1>4
<1>8. \A n \in Range(freelist[c]) : ~ CutOff(c, n)
  BY <1>2, <1>4, <1>5
<1> QED
  BY <1>2, <1>6, <1>7, <1>8 DEF Accounted

LEMMA AccountStep ==
  ASSUME TypeOK, CellInv, AccountInv, [Next]_vars PROVE AccountInv'
<1> DEFINE Same(c) == /\ arenas'[c] = arenas[c] /\ size'[c] = size[c]
                      /\ freelist'[c] = freelist[c]
<1>1. live \subseteq Cell /\ live' \subseteq Cell /\ TypeOK'
  BY TypeStep DEF TypeOK
<1>2. ASSUME NEW c \in Class, AllocObject(c) PROVE AccountInv'
  <2> DEFINE s == freelist[c]
             h == Head(s)
  <2>1. /\ s \in Seq(Slot) /\ s # <<>> /\ pc = "run"
        /\ live' = live \cup {<<c, h>>}
        /\ arenas' = arenas /\ freelist'[c] = Tail(s) /\ size'[c] = size[c] - 1
        /\ \A d \in Class : d # c => Same(d)
    BY <1>2 DEF AllocObject, TypeOK
  <2>2. \A d \in Class : Accounted(d)
    BY <2>1 DEF AccountInv
  <2>3. /\ Range(s) = Range(Tail(s)) \cup {h}
        /\ Len(Tail(s)) = Len(s) - 1 /\ h \in Slot
    BY <2>1, PopKeeps
  <2>4. Accounted(c)'
    <3>1. Cut(c)' = Cut(c) /\ Top(c)' = Top(c)
      BY <2>1, AccountFrame
    <3> HIDE DEF h
    <3>2. arenas'[c] > 0 /\ size'[c] = Len(freelist'[c]) + Cut(c)'
      BY <2>1, <2>2, <2>3, <3>1, AccountType DEF Accounted
    <3>3. ASSUME NEW n \in 1 .. Top(c)'
          PROVE  <<c, n>> \in live' \/ n \in Range(freelist'[c]) \/ CutOff(c, n)
      <4>1. <<c, n>> \in live \/ n \in Range(s) \/ CutOff(c, n)
        BY <2>2, <3>1 DEF Accounted
      <4> QED
        BY <2>1, <2>3, <4>1
    <3>4. \A n \in Range(s) : ~ CutOff(c, n)
      BY <2>2 DEF Accounted
    <3>5. \A n \in Range(freelist'[c]) : ~ CutOff(c, n)
      BY <2>1, <2>3, <3>4
    <3>6. ASSUME NEW o \in live', o[1] = c PROVE ~ CutOff(c, o[2])
      <4>1. CASE o \in live
        BY <2>2, <3>6, <4>1 DEF Accounted
      <4>2. CASE o = <<c, h>>
        BY <2>3, <3>4, <4>2
      <4> QED
        BY <2>1, <4>1, <4>2
    <3> QED
      BY <3>2, <3>3, <3>5, <3>6 DEF Accounted, CutOff, ArenaSlots
  <2>5. ASSUME NEW d \in Class, d # c PROVE Accounted(d)'
    <3>1. \A o \in Cell : o[1] = d => (o \in live' <=> o \in live)
      BY <2>1, <2>5
    <3> QED
      BY <1>1, <2>1, <2>2, <2>5, <3>1, AccountSame
  <2> QED
    BY <2>4, <2>5 DEF AccountInv
<1>3. ASSUME SweepSlot PROVE AccountInv'
  <2>0. PICK c \in Class, n \in Slot : cursor = <<c, n>> /\ cursor[1] = c /\ cursor[2] = n
    BY DEF TypeOK
  <2> DEFINE s == freelist[c]
  <2>1. /\ cursor = <<c, n>> /\ pc = "sweep" /\ arenas' = arenas
        /\ s \in Seq(Slot)
    BY <1>3, <2>0 DEF SweepSlot, TypeOK
  <2>2. \A d \in Class : Accounted(d)
    BY <2>1 DEF AccountInv
  <2>3. CASE Garbage(cursor)
    <3>1. /\ cursor \in live /\ live' = live \ {cursor}
          /\ freelist'[c] = <<n>> \o s /\ size'[c] = size[c] + 1
          /\ \A d \in Class : d # c => Same(d)
      BY <1>3, <2>0, <2>3 DEF SweepSlot, Garbage, TypeOK
    <3>2. Range(<<n>> \o s) = Range(s) \cup {n} /\ Len(<<n>> \o s) = Len(s) + 1
      BY <2>1, PushKeeps
    <3> DEFINE t == <<n>> \o s
    <3> HIDE DEF t
    <3>3. freelist'[c] = t /\ Range(t) = Range(s) \cup {n} /\ Len(t) = Len(s) + 1
      BY <3>1, <3>2 DEF t
    <3>4. Accounted(c)'
      <4>1. Cut(c)' = Cut(c) /\ Top(c)' = Top(c)
        BY <2>1, AccountFrame
      <4>2. arenas'[c] > 0 /\ size'[c] = Len(freelist'[c]) + Cut(c)'
        BY <2>1, <2>2, <3>1, <3>3, <4>1, AccountType DEF Accounted
      <4>3. ASSUME NEW m \in 1 .. Top(c)'
            PROVE  <<c, m>> \in live' \/ m \in Range(freelist'[c]) \/ CutOff(c, m)
        <5>1. <<c, m>> \in live \/ m \in Range(s) \/ CutOff(c, m)
          BY <2>1, <2>2, <4>1 DEF Accounted
        <5>2. CASE m = n
          BY <3>3, <5>2
        <5>3. CASE m # n
          <6>1. <<c, m>> # cursor
            BY <2>1, <5>3
          <6> QED
            BY <3>1, <3>3, <5>1, <6>1
        <5> QED
          BY <5>2, <5>3
      <4>4. ~ CutOff(c, n)
        <5>1. <<c, n>> \in live /\ <<c, n>>[1] = c /\ <<c, n>>[2] = n
          BY <2>1, <3>1
        <5>2. \A o \in live : o[1] = c => ~ CutOff(c, o[2])
          BY <2>1, <2>2 DEF Accounted
        <5> QED
          BY <5>1, <5>2
      <4>5. \A m \in Range(s) : ~ CutOff(c, m)
        BY <2>1, <2>2 DEF Accounted
      <4>6. \A m \in Range(freelist'[c]) : ~ CutOff(c, m)
        BY <3>3, <4>4, <4>5
      <4>7. \A o \in live' : o[1] = c => ~ CutOff(c, o[2])
        BY <2>1, <2>2, <3>1 DEF Accounted
      <4> QED
        BY <4>2, <4>3, <4>6, <4>7 DEF Accounted, CutOff, ArenaSlots
    <3>5. ASSUME NEW d \in Class, d # c PROVE Accounted(d)'
      <4>1. \A o \in Cell : o[1] = d => (o \in live' <=> o \in live)
        BY <2>1, <3>1, <3>5
      <4> QED
        BY <1>1, <2>1, <2>2, <3>1, <3>5, <4>1, AccountSame
    <3> QED
      BY <3>4, <3>5 DEF AccountInv
  <2>4. CASE ~ Garbage(cursor)
    <3>1. live' = live /\ \A d \in Class : Same(d)
      BY <1>3, <2>0, <2>4 DEF SweepSlot
    <3>2. ASSUME NEW d \in Class PROVE Accounted(d)'
      BY <1>1, <2>2, <3>1, AccountSame
    <3> QED
      BY <3>2 DEF AccountInv
  <2> QED
    BY <2>3, <2>4
<1>4. ASSUME ExtendArena PROVE AccountInv'
  <2>0. PICK c \in Class : c = cursor[1]
    BY DEF TypeOK
  <2> DEFINE A == ArenaSlots(c)
             K == KeptSlots(c)
             p == CutPerArena(c)
             a == arenas[c]
             t == Top(c)
             ch == ExtendChain(c, t)
             s == freelist[c]
  <2>1. /\ pc = "extend" /\ live' = live
        /\ arenas'[c] = a + 1 /\ freelist'[c] = ch \o s /\ size'[c] = size[c] + A
        /\ \A d \in Class : d # c => Same(d)
    BY <1>4, <2>0 DEF ExtendArena, heap, TypeOK
  <2>2. \A d \in Class : Accounted(d)
    BY <2>1 DEF AccountInv
  <2>3. /\ A \in Nat \ {0} /\ K \in Nat \ {0} /\ K = A - p /\ p \in Nat
        /\ a \in Nat /\ t \in Nat /\ t = a * A /\ s \in Seq(Slot) /\ Len(s) \in Nat
        /\ size[c] \in Int /\ Cut(c) \in Int
    BY ArenaSlotsType, QuotaType, AccountType DEF Top
  <2>4. a > 0 /\ size[c] = Len(s) + Cut(c)
    BY <2>2 DEF Accounted
  <2>5. Top(c)' = t + A /\ Cut(c)' = Cut(c) + p
    BY <2>1, OneArenaMore
  <2>6. /\ ch \in Seq(Slot) /\ Len(ch) = K
        /\ \A n \in 1 .. K : t + n \in Range(ch)
        /\ \A n \in Range(ch) : \E i \in 1 .. K : n = t + i
    <3> DEFINE g == [i \in 1 .. K |-> t + i]
    <3>1. g = ch
      BY DEF ExtendChain
    <3> HIDE DEF t, K, ch
    <3>2. g \in Seq(Slot) /\ Len(g) = K
      BY <2>3, ChainType
    <3>3. DOMAIN g = 1 .. K /\ \A i \in 1 .. K : g[i] = t + i
      OBVIOUS
    <3> HIDE DEF g
    <3> QED
      BY <3>1, <3>2, <3>3 DEF Range
  <2>7. \A i \in 1 .. A : CutOff(c, t + i) <=> i > K
    <3>1. \A i \in 1 .. A : CutOff(c, a * A + i) <=> a > 0 /\ i > K
      BY <2>3, CutOffAt
    <3> HIDE DEF a, A, K, t
    <3> QED
      BY <2>3, <2>4, <3>1
  <2> HIDE DEF A, K, p, a, t, ch, s
  <2>8. /\ Range(freelist'[c]) = Range(ch) \cup Range(s)
        /\ Len(freelist'[c]) = K + Len(s)
    <3>1. ch \in Seq(Slot) /\ s \in Seq(Slot)
      BY <2>3, <2>6
    <3>2. Range(ch \o s) = Range(ch) \cup Range(s)
      BY ONLY <3>1, RangeConcatenation
    <3>3. Len(ch \o s) = Len(ch) + Len(s)
      BY ONLY <3>1, ConcatProperties
    <3> QED
      BY <2>1, <2>6, <3>2, <3>3
  <2>9. Accounted(c)'
    <3>1. arenas'[c] > 0 /\ size'[c] = Len(freelist'[c]) + Cut(c)'
      BY <2>1, <2>3, <2>4, <2>5, <2>8
    <3>2. ASSUME NEW n \in 1 .. Top(c)'
          PROVE  <<c, n>> \in live' \/ n \in Range(freelist'[c]) \/ CutOff(c, n)
      <4>1. n \in Nat /\ 1 <= n /\ n <= t + A
        BY <2>3, <2>5
      <4>2. CASE n <= t
        <5>1. n \in 1 .. Top(c)
          BY <2>3, <4>1, <4>2 DEF t
        <5> QED
          BY <2>1, <2>2, <2>8, <5>1 DEF Accounted, s
      <4>3. CASE ~ (n <= t)
        <5> DEFINE i == n - t
        <5>1. i \in 1 .. A /\ n = t + i /\ (i > K \/ i \in 1 .. K)
          BY <2>3, <4>1, <4>3
        <5> HIDE DEF i
        <5> QED
          BY <2>6, <2>7, <2>8, <5>1
      <4> QED
        BY <4>2, <4>3
    <3>3. ASSUME NEW n \in Range(freelist'[c]) PROVE ~ CutOff(c, n)
      <4>1. CASE n \in Range(s)
        BY <2>2, <4>1 DEF Accounted, s
      <4>2. CASE n \in Range(ch)
        <5>1. PICK i \in 1 .. K : n = t + i
          BY <2>6, <4>2
        <5>2. i \in 1 .. A /\ ~ (i > K)
          BY <2>3
        <5> QED
          BY <2>7, <5>1, <5>2
      <4> QED
        BY <2>8, <4>1, <4>2
    <3>4. \A o \in live' : o[1] = c => ~ CutOff(c, o[2])
      BY <2>1, <2>2 DEF Accounted
    <3> QED
      BY <3>1, <3>2, <3>3, <3>4 DEF Accounted, CutOff, ArenaSlots
  <2>10. ASSUME NEW d \in Class, d # c PROVE Accounted(d)'
    BY <1>1, <2>1, <2>2, <2>10, AccountSame
  <2> QED
    BY <2>9, <2>10 DEF AccountInv
<1>5. ASSUME DeleteGcContext PROVE AccountInv'
  BY <1>5 DEF DeleteGcContext, AccountInv
<1>6. ASSUME \/ \E c \in Class : AllocFault(c)
             \/ \E o \in roots : Drop(o)
             \/ \E e \in ptr : Load(e[2]) \/ Erase(e[1], e[2])
             \/ \E o, p \in roots : Store(o, p)
             \/ ScheduleGC
             \/ \E o \in visit : Visit(o)
             \/ Reftrace \/ MarkDone \/ CheckExpand
             \/ UNCHANGED vars
      PROVE  AccountInv'
  <2>1. UNCHANGED <<arenas, freelist, size, live>> /\ (pc = "deleted" => pc' = "deleted")
    BY <1>6 DEF AllocFault, Drop, Load, Erase, Store, ScheduleGC, Visit,
       Reftrace, MarkDone, CheckExpand, vars, pool, heap
  <2>2. ASSUME pc' # "deleted", NEW d \in Class PROVE Accounted(d)'
    <3>1. Accounted(d)
      BY <2>1, <2>2 DEF AccountInv
    <3> QED
      BY <1>1, <2>1, <3>1, AccountSame
  <2> QED
    BY <2>2 DEF AccountInv
<1> QED
  BY <1>2, <1>3, <1>4, <1>5, <1>6 DEF Next, Mutator, Collector

LEMMA AccountingHolds == TypeOK /\ AccountInv => SlotAccounting
<1> SUFFICES ASSUME TypeOK, AccountInv, pc # "deleted", NEW c \in Class
             PROVE  /\ \A n \in 1 .. Top(c) :
                         \/ <<c, n>> \in live
                         \/ n \in Range(freelist[c])
                         \/ CutOff(c, n) /\ <<c, n>> \notin live /\ n \notin Range(freelist[c])
                    /\ size[c] = Len(freelist[c])
                                   + Cardinality({n \in 1 .. Top(c) : CutOff(c, n)})
  BY DEF SlotAccounting
<1>1. Accounted(c)
  BY DEF AccountInv
<1>2. arenas[c] \in Nat \ {0}
  BY <1>1, AccountType DEF Accounted
<1>3. Cardinality({n \in 1 .. Top(c) : CutOff(c, n)}) = Cut(c)
  BY <1>2, CutCount DEF Top, Cut
<1> QED
  BY <1>1, <1>3 DEF Accounted

(* Every slot of every arena is in use, or on the free list, or one of     *)
(* those gc_extendObjectArena cuts off, and freelist.size exceeds what is  *)
(* listed by exactly the number cut off, for any page and arena size and   *)
(* however often a class is extended.                                      *)
THEOREM SlotsAreAccountedFor == Spec => []SlotAccounting
<1>1. TypeOK /\ CellInv /\ AccountInv /\ [Next]_vars => AccountInv'
  BY AccountStep
<1>2. IInv => CellInv
  BY DEF IInv
<1> QED
  BY <1>1, <1>2, AccountInit, AccountingHolds, TypeCorrect, InductiveInvariant, PTL DEF Spec


(***************************************************************************)
(* A collection leaves what is reachable and nothing else: ExactInv.       *)
(***************************************************************************)

LEMMA ReachableCloses ==
  ASSUME NEW R, NEW E
  PROVE  R \subseteq Reachable(R, E) /\ Closed(Reachable(R, E), E)
<1>1. R \subseteq Reachable(R, E)
  BY DEF Reachable, Touched
<1>2. ASSUME NEW e \in E, e[1] \in Reachable(R, E) PROVE e[2] \in Reachable(R, E)
  <2>1. e[2] \in Touched(R, E)
    BY DEF Touched
  <2>2. ASSUME NEW S \in SUBSET Touched(R, E), R \subseteq S, Closed(S, E)
        PROVE  e[2] \in S
    BY <1>2, <2>2 DEF Reachable, Closed
  <2> QED
    BY <2>1, <2>2 DEF Reachable
<1> QED
  BY <1>1, <1>2 DEF Closed

(* Edges that leave what cannot be reached make nothing reachable.         *)
LEMMA ReachableWithout ==
  ASSUME NEW R, NEW E, NEW x, x \notin Reachable(R, E)
  PROVE  Reachable(R, E) \subseteq Reachable(R, {e \in E : e[1] # x})
<1> DEFINE F == {e \in E : e[1] # x}
           S == Reachable(R, E) \cap Reachable(R, F)
<1>1. R \subseteq S /\ Closed(Reachable(R, E), E) /\ Closed(Reachable(R, F), F)
  BY ReachableCloses
<1>2. Closed(S, E)
  BY <1>1 DEF Closed
<1>3. Reachable(R, E) \subseteq S
  BY <1>1, <1>2, ReachableInClosed
<1> QED
  BY <1>3

(* When the last class is swept, all that is in use is behind the cursor.  *)
LEMMA AllBehind ==
  ASSUME TypeOK, CellInv, pc \in {"sweep", "extend"},
         pc = "sweep" => cursor[2] > Top(cursor[1]),
         pc = "extend" => ExtendInv
  PROVE  \A o \in live : o[1] <= cursor[1] => Behind(o)
<1>1. /\ cursor[1] \in Nat /\ cursor[2] \in Nat /\ cursor[1] \in Class
      /\ live \subseteq Cell /\ arenas \in [Class -> Nat]
  BY ClassType, SlotType DEF TypeOK
<1>2. ASSUME NEW o \in live, o[1] <= cursor[1] PROVE Behind(o)
  <2>1. o[1] \in Nat /\ o[2] \in Nat /\ o[2] <= Top(o[1])
    BY <1>1, CellType, ClassType, SlotType DEF CellInv
  <2>2. CASE o[1] < cursor[1]
    BY <2>2 DEF Behind
  <2>3. CASE o[1] = cursor[1]
    <3>1. Top(cursor[1]) \in Nat
      BY <1>1, ArenaSlotsType DEF Top
    <3>2. o[2] < cursor[2]
      <4>1. CASE pc = "sweep"
        BY <4>1, <1>1, <2>1, <2>3, <3>1
      <4>2. CASE pc = "extend"
        BY <4>2, <2>3 DEF ExtendInv
      <4> QED
        BY <4>1, <4>2
    <3> QED
      BY <2>3, <3>2 DEF Behind
  <2> QED
    BY <1>1, <1>2, <2>1, <2>2, <2>3
<1> QED
  BY <1>2

LEMMA ExactMark ==
  ASSUME TypeOK, GraphInv, ExactInv,
         ScheduleGC \/ (\E o \in visit : Visit(o)) \/ Reftrace \/ MarkDone
  PROVE  ExactInv'
<1>0. UNCHANGED <<roots, ptr, live>>
  BY DEF ScheduleGC, Visit, Reftrace, MarkDone, heap
<1> DEFINE R == Reachable(roots, ptr)
<1>1. Reachable(roots, ptr)' = R /\ roots \subseteq R /\ Closed(R, ptr)
  BY <1>0, ReachableCloses
<1> HIDE DEF R
<1>2. CASE ScheduleGC
  <2>1. pc = "run" /\ marked = {}
    BY <1>2 DEF ScheduleGC, GraphInv, RunInv
  <2>2. pc' = "run" \/ (pc' = "mark" /\ visit' = roots /\ marked' = {})
    BY <1>2, <2>1 DEF ScheduleGC, mark
  <2> QED
    BY <1>1, <2>2 DEF ExactInv
<1>3. ASSUME NEW o \in visit, Visit(o) PROVE ExactInv'
  <2>1. pc = "mark" /\ pc' = "mark"
    BY <1>3 DEF Visit
  <2>2. marked' \cup visit' \subseteq marked \cup visit
    BY <1>3 DEF Visit
  <2> QED
    BY <1>1, <2>1, <2>2 DEF ExactInv, R
<1>4. CASE Reftrace
  <2>1. pc = "mark" /\ pc' = "mark" /\ marked' = marked
    BY <1>4 DEF Reftrace
  <2>2. mstack[Len(mstack)] \in Range(mstack)
    BY <1>4, TopOfStack DEF Reftrace, TypeOK
  <2>3. mstack[Len(mstack)] \in R
    BY <2>1, <2>2 DEF GraphInv, MarkInv, ExactInv, R
  <2>4. visit' \subseteq R
    BY <1>1, <1>4, <2>3 DEF Reftrace, Traced, Children, Closed
  <2> QED
    BY <1>1, <2>1, <2>4 DEF ExactInv, R
<1>5. CASE MarkDone
  <2>1. pc = "mark" /\ pc' = "sweep" /\ cursor' = <<0, 1>> /\ marked' = marked
    BY <1>5 DEF MarkDone, mark
  <2>2. ASSUME NEW o \in Kept' PROVE o \in marked
    <3>1. o \in live /\ o[1] \in Nat /\ o[2] \in Nat \ {0}
      BY <1>0, CellType, ClassType DEF Kept, TypeOK, Slot
    <3>2. ~ Behind(o)'
      BY <2>1, <3>1 DEF Behind
    <3> QED
      BY <2>1, <3>2 DEF Kept
  <2> QED
    BY <1>1, <2>1, <2>2 DEF ExactInv, R
<1> QED
  BY <1>2, <1>3, <1>4, <1>5

LEMMA ExactSweep ==
  ASSUME TypeOK, CellInv, GraphInv, ExactInv, SweepSlot \/ CheckExpand \/ ExtendArena
  PROVE  ExactInv' /\ EndsExact
<1>0. /\ cursor[1] \in Nat /\ cursor[2] \in Nat /\ cursor[1] \in Class
      /\ \A o \in live : o[1] \in Nat /\ o[2] \in Nat /\ o = <<o[1], o[2]>>
      /\ cursor = <<cursor[1], cursor[2]>>
      /\ ArenaCount \in Nat
      /\ \A o \in live : o[1] < ArenaCount
  <2>1. cursor \in Cell /\ live \subseteq Cell
    BY DEF TypeOK, Cell
  <2>2. \A c \in Class : c \in Nat /\ c < ArenaCount /\ ArenaCount \in Nat
    BY PoolAssumption DEF Class
  <2> QED
    BY <2>1, <2>2, ClassType, SlotType, CellType
<1> DEFINE R == Reachable(roots, ptr)
<1>1. pc \in {"sweep", "extend"}
  BY DEF SweepSlot, CheckExpand, ExtendArena
<1>2. R = Kept
  <2>1. Kept \subseteq R
    BY <1>1 DEF ExactInv
  <2>2. R \subseteq Kept
    BY <1>1, ReachableInClosed DEF GraphInv, SweepInv
  <2> QED
    BY <2>1, <2>2
<1> HIDE DEF R
<1>3. CASE SweepSlot
  <2>1. /\ pc = "sweep" /\ pc' = "sweep" /\ roots' = roots
        /\ cursor' = <<cursor[1], cursor[2] + 1>>
        /\ marked' = marked \ {cursor}
    BY <1>3 DEF SweepSlot, Unmark
  <2>2. live' \subseteq live
    BY <1>3 DEF SweepSlot
  <2>3. ASSUME NEW o \in Kept' PROVE o \in Kept
    <3>1. o \in live /\ o \in live'
      BY <2>2, <2>3 DEF Kept
    <3>2. CASE o \in marked'
      BY <2>1, <3>1, <3>2 DEF Kept
    <3>3. CASE Behind(o)' /\ o # cursor
      <4>1. o[1] # cursor[1] \/ o[2] # cursor[2]
        BY <1>0, <3>1, <3>3
      <4>2. Behind(o)
        BY <1>0, <2>1, <3>1, <3>3, <4>1 DEF Behind
      <4> QED
        BY <3>1, <4>2 DEF Kept
    <3>4. CASE o = cursor
      <4>1. cursor \in marked
        BY <1>3, <3>1, <3>4 DEF SweepSlot, Garbage
      <4> QED
        BY <3>1, <3>4, <4>1 DEF Kept
    <3> QED
      BY <2>3, <3>2, <3>3, <3>4 DEF Kept
  <2>4. R \subseteq Reachable(roots, ptr)'
    <3>1. CASE Garbage(cursor)
      <4>1. cursor \notin R
        BY <1>0, <1>2, <3>1 DEF Garbage, Kept, Behind
      <4>2. ptr' = {e \in ptr : e[1] # cursor}
        BY <1>3, <3>1 DEF SweepSlot
      <4>3. R \subseteq Reachable(roots, {e \in ptr : e[1] # cursor})
        BY <4>1, ReachableWithout DEF R
      <4> QED
        BY <2>1, <4>2, <4>3
    <3>2. CASE ~Garbage(cursor)
      BY <1>3, <2>1, <3>2 DEF SweepSlot, R
    <3> QED
      BY <3>1, <3>2
  <2> QED
    BY <1>2, <2>1, <2>3, <2>4 DEF ExactInv, EndsExact
<1>4. CASE CheckExpand \/ ExtendArena
  <2>0. UNCHANGED <<live, ptr, roots, marked>>
    BY <1>4 DEF CheckExpand, ExtendArena, heap, mark
  <2>1. Reachable(roots, ptr)' = R
    BY <2>0 DEF R
  <2>2. \A o \in live : o[1] <= cursor[1] => Behind(o)
    <3>1. pc = "sweep" => cursor[2] > Top(cursor[1])
      BY <1>4 DEF CheckExpand, ExtendArena
    <3> QED
      BY <1>1, <3>1, AllBehind DEF GraphInv
  <2>3. CASE pc' \in {"sweep", "extend"} /\ UNCHANGED cursor
    <3>1. Kept' = Kept
      BY <2>0, <2>3 DEF Kept, Behind
    <3> QED
      BY <1>2, <2>1, <2>3, <3>1 DEF ExactInv, EndsExact
  <2>4. CASE NextClass
    <3>1. CASE cursor[1] + 1 < ArenaCount /\ pc' = "sweep" /\ cursor' = <<cursor[1] + 1, 1>>
      <4>1. ASSUME NEW o \in Kept' PROVE o \in Kept
        <5>1. o \in live /\ o[1] \in Nat /\ o[2] \in Nat \ {0}
          BY <1>0, <2>0, CellType DEF Kept, TypeOK, Slot
        <5>2. CASE o \in marked
          BY <5>1, <5>2 DEF Kept
        <5>3. CASE Behind(o)'
          <6>1. o[1] <= cursor[1]
            BY <1>0, <3>1, <5>1, <5>3 DEF Behind
          <6> QED
            BY <2>2, <5>1, <6>1 DEF Kept
        <5> QED
          BY <2>0, <4>1, <5>2, <5>3 DEF Kept
      <4> QED
        BY <1>2, <2>1, <3>1, <4>1 DEF ExactInv, EndsExact
    <3>2. CASE cursor[1] + 1 = ArenaCount /\ pc' = "run"
      <4>1. \A o \in live : o[1] <= cursor[1]
        BY <1>0, <3>2
      <4>2. Kept = live
        BY <2>2, <4>1 DEF Kept
      <4> QED
        BY <1>2, <2>0, <2>1, <3>2, <4>2 DEF ExactInv, EndsExact
    <3> QED
      BY <2>4, <3>1, <3>2 DEF NextClass
  <2> QED
    BY <1>4, <2>3, <2>4 DEF CheckExpand, ExtendArena
<1> QED
  BY <1>3, <1>4

LEMMA ExactStep ==
  TypeOK /\ CellInv /\ GraphInv /\ ExactInv /\ [Next]_vars => ExactInv' /\ [EndsExact]_vars
<1> SUFFICES ASSUME TypeOK, CellInv, GraphInv, ExactInv, [Next]_vars
             PROVE  ExactInv' /\ [EndsExact]_vars
  OBVIOUS
<1>1. ASSUME ScheduleGC \/ (\E o \in visit : Visit(o)) \/ Reftrace \/ MarkDone
      PROVE  ExactInv' /\ EndsExact
  <2>1. pc' # "run" \/ pc = "run"
    BY <1>1 DEF ScheduleGC, Visit, Reftrace, MarkDone
  <2> QED
    BY <1>1, <2>1, ExactMark DEF EndsExact, Collecting
<1>2. CASE SweepSlot \/ CheckExpand \/ ExtendArena
  BY <1>2, ExactSweep
<1>3. ASSUME (Mutator /\ ~ ScheduleGC) PROVE ExactInv' /\ EndsExact
  <2>1. pc = "run" /\ pc' \in {"run", "fault", "deleted"}
    BY <1>3 DEF Mutator, AllocObject, AllocFault, Drop, Load, Erase, Store, DeleteGcContext
  <2> QED
    BY <2>1 DEF ExactInv, EndsExact, Collecting
<1>4. CASE UNCHANGED vars
  <2>1. UNCHANGED <<live, ptr, roots, marked, visit, pc, cursor>>
    BY <1>4 DEF vars, heap, mark, sweep
  <2> QED
    BY <1>4, <2>1 DEF ExactInv, Kept, Behind
<1> QED
  BY <1>1, <1>2, <1>3, <1>4 DEF Next, Collector

(* When a collection ends, what is in use is exactly what the program can  *)
(* reach: no garbage survives it (MarkAndSweepGC).                         *)
THEOREM CollectionIsExact == Spec => CollectExact
<1>1. Init => ExactInv
  BY DEF Init, ExactInv
<1>2. TypeOK /\ IInv /\ ExactInv /\ [Next]_vars => ExactInv' /\ [EndsExact]_vars
  BY ExactStep DEF IInv
<1> QED
  BY <1>1, <1>2, TypeCorrect, InductiveInvariant, PTL DEF Spec, CollectExact
============================================================================
